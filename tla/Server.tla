------------------------------- MODULE Server -------------------------------
(***************************************************************************)
(* A server program from main() of examples/server to its end: iocp_server *)
(* with the listener thread, the list of sessions, the completion port,    *)
(* the package queue and the loop that runs in the main thread.            *)
(*                                                                         *)
(* main is what the main thread is about to do:                            *)
(*   open, listen (thread_listerner and loop.init), loop (peek and tick),  *)
(*   quit (msg_queue::quit), then the statements of iocp_server::close():  *)
(*   close_sockets, post, wait, clear, close_socket, stop, wait_listener,  *)
(*   post_quit, release (deref), and release_main, release_loop: the two   *)
(*   other references; done                                                *)
(* listener: off, test (while), accept, join_iocp and push (inside         *)
(*   session_join, with _cs), ended                                        *)
(* worker[w].at: get, put, remove, ended                                   *)
(*                                                                         *)
(* Session shows that a session of a half-duplex application has one       *)
(* activity at a time; here it is a token, at[s]: none, new (being joined),*)
(* package (one of its packages is queued), io (with the kernel), packet   *)
(* (in the port), worker (in process_iocp), rest (nothing more happens), or*)
(* deleted.  A call that is refused at once is one that fails in a thread  *)
(* of the port; the quit packets are posted in one step (Iocp takes it     *)
(* apart); no session is created at the address of a deleted one.          *)
(***************************************************************************)
EXTENDS Integers, Sequences, FiniteSets

CONSTANTS Sessions,  \* the clients that may connect, one session each
          None,      \* no session
          Workers,   \* the threads of the port
          Limit      \* client_limited

ASSUME ServerAssumption ==
  /\ IsFiniteSet(Sessions) /\ IsFiniteSet(Workers) /\ Workers # {}
  /\ Limit \in Nat
  /\ None \notin Sessions

VARIABLES
  main, listener, worker, at,
  sock,       \* _socket # 0 of a session
  joining,    \* the session that session_join has created
  _sessions,  \* the boss's vector
  next,       \* iterator of sessions_close_sockets
  port,       \* _iocp # 0
  packets,    \* the port's queue
  released,   \* count of _thread_semaphore
  queue,      \* the package queue
  stopped,    \* its _stop
  refs,       \* its reference count; it is destroyed at 0
  listening,  \* _socket of the listener
  _session_limit, _stop,
  _connect_count,
  died        \* the process was ended by undefined behaviour

list    == <<_sessions, next>>
tokens  == <<at, sock>>
ports   == <<port, packets, released>>
queues  == <<queue, stopped, refs>>
accepts == <<joining, listening, _session_limit, _stop>>
vars    == <<main, listener, worker, tokens, list, ports, queues, accepts,
             _connect_count, died>>

Pack(st, s)  == [status |-> st, ses |-> s]
Packet(s, b) == [ses |-> s, ok |-> b]
Quit         == Packet(None, FALSE)  \* of iocp::close()
Free         == [at |-> "get", ses |-> None, ok |-> FALSE]

Init ==
  /\ main = "open" /\ listener = "off"
  /\ worker = [w \in Workers |-> [Free EXCEPT !.at = "ended"]]
  /\ at = [s \in Sessions |-> "none"]
  /\ sock = [s \in Sessions |-> FALSE]
  /\ _sessions = <<>> /\ next = 1 /\ joining = None
  /\ port = FALSE /\ packets = <<>> /\ released = 0
  /\ queue = <<>> /\ stopped = FALSE /\ refs = 1
  /\ listening = FALSE /\ _session_limit = Limit /\ _stop = 0
  /\ _connect_count = 0
  /\ died = FALSE

Main(here)     == ~died /\ main = here
MainTo(there)  == main' = there
Listener(here) == ~died /\ listener = here
Worker(w, here) == ~died /\ worker[w].at = here
\* put() on a queue that has been stopped is refused.
Queued(p) == queue' = IF stopped THEN queue ELSE Append(queue, p)
\* _cs of the boss, which session_join holds.
CsFree == listener \notin {"join_iocp", "push"}

-----------------------------------------------------------------------------
(* iocp_server::open() and the listener thread.                            *)
Open_NoRef ==  \* fault: the server takes no reference to the queue
  /\ Main("open")
  /\ port' = TRUE /\ listening' = TRUE
  /\ worker' = [w \in Workers |-> Free]
  /\ MainTo("listen")
  /\ UNCHANGED <<listener, tokens, list, packets, released, queues, joining,
                 _session_limit, _stop, _connect_count, died>>

Open ==
  /\ Main("open")
  /\ port' = TRUE /\ listening' = TRUE
  /\ refs' = refs + 1
  /\ worker' = [w \in Workers |-> Free]
  /\ MainTo("listen")
  /\ UNCHANGED <<listener, tokens, list, packets, released, queue, stopped,
                 joining, _session_limit, _stop, _connect_count, died>>

\* No socket, or after ref() no port: main() returns, and ~iocp_server closes.
OpenFails ==
  /\ Main("open")
  /\ refs' \in {refs, refs + 1}
  /\ MainTo("close_sockets")
  /\ UNCHANGED <<listener, worker, tokens, list, ports, queue, stopped,
                 accepts, _connect_count, died>>

Listen ==
  /\ Main("listen")
  /\ listener' = "test"
  /\ refs' = refs + 1
  /\ MainTo("loop")
  /\ UNCHANGED <<worker, tokens, list, ports, queue, stopped, accepts,
                 _connect_count, died>>

\* listener_socketT::listener_loop
Test ==
  /\ Listener("test")
  /\ listener' = IF _stop = 0 /\ _session_limit > 0 THEN "accept" ELSE "ended"
  /\ UNCHANGED <<main, worker, tokens, list, ports, queues, accepts,
                 _connect_count, died>>

\* A client connects; session_join creates its session.
Accept(s) ==
  /\ Listener("accept") /\ listening /\ at[s] = "none"
  /\ joining' = s
  /\ at' = [at EXCEPT ![s] = "new"]
  /\ sock' = [sock EXCEPT ![s] = TRUE]
  /\ listener' = "join_iocp"
  /\ UNCHANGED <<main, worker, list, ports, queues, listening, _session_limit,
                 _stop, _connect_count, died>>

\* The connection was reset, or accept() failed: the listener's socket has been
\* closed, or the system has run out of something.
AcceptFails ==
  /\ Listener("accept")
  /\ listener' = "ended" \/ (listening /\ listener' = "test")
  /\ UNCHANGED <<main, worker, tokens, list, ports, queues, accepts,
                 _connect_count, died>>

\* With _iocp = 0 CreateIoCompletionPort creates a port, which nobody serves.
JoinIocp ==
  /\ Listener("join_iocp")
  /\ Queued(Pack("connected", joining))
  /\ at' = [at EXCEPT ![joining] = IF stopped THEN "rest" ELSE "package"]
  /\ listener' = "push"
  /\ UNCHANGED <<main, worker, sock, list, ports, stopped, refs, accepts,
                 _connect_count, died>>

\* CreateIoCompletionPort fails: the session is deleted, its socket stays open.
JoinFails ==
  /\ Listener("join_iocp")
  /\ at' = [at EXCEPT ![joining] = "deleted"]
  /\ joining' = None
  /\ listener' = "test"
  /\ UNCHANGED <<main, worker, sock, list, ports, queues, listening,
                 _session_limit, _stop, _connect_count, died>>

Push ==
  /\ Listener("push")
  /\ _sessions' = Append(_sessions, joining)
  /\ joining' = None
  /\ _session_limit' = _session_limit - 1
  /\ listener' = "test"
  /\ UNCHANGED <<main, worker, tokens, next, ports, queues, listening, _stop,
                 _connect_count, died>>

-----------------------------------------------------------------------------
\* The I/O of a session (external) completes, in one way or the other.
Complete(s, ok) ==
  /\ ~died /\ port /\ at[s] = "io" /\ (ok => sock[s])
  /\ packets' = Append(packets, Packet(s, ok))
  /\ at' = [at EXCEPT ![s] = "packet"]
  /\ UNCHANGED <<main, listener, worker, sock, list, port, released, queues,
                 accepts, _connect_count, died>>

(* A thread of the port.  process_iocp announces that the I/O is finished, *)
(* or disconected() closes the socket, announces it and removes the session*)
Get(w) ==
  /\ Worker(w, "get") /\ packets # <<>>
  /\ packets' = Tail(packets)
  /\ LET p == Head(packets) IN
       IF p = Quit
         THEN /\ worker' = [worker EXCEPT ![w].at = "ended"]
              /\ released' = released + 1
              /\ UNCHANGED tokens
         ELSE /\ worker' = [worker EXCEPT ![w] =
                              [at |-> "put", ses |-> p.ses, ok |-> p.ok]]
              /\ at' = [at EXCEPT ![p.ses] = "worker"]
              /\ sock' = [sock EXCEPT ![p.ses] = @ /\ p.ok]
              /\ UNCHANGED released
  /\ UNCHANGED <<main, listener, list, port, queues, accepts, _connect_count, died>>

Put(w) ==
  /\ Worker(w, "put")
  /\ LET s == worker[w].ses IN
       /\ Queued(Pack(IF worker[w].ok THEN "finished" ELSE "disconnected", s))
       /\ at' = [at EXCEPT ![s] = IF stopped THEN "rest" ELSE "package"]
  /\ worker' = [worker EXCEPT ![w].at = IF worker[w].ok THEN "get" ELSE "remove"]
  /\ UNCHANGED <<main, listener, sock, list, ports, stopped, refs, accepts,
                 _connect_count, died>>

\* session_remove: find() and erase().
Remove(w) ==
  /\ Worker(w, "remove") /\ CsFree
  /\ \/ \E item \in DOMAIN _sessions :
          /\ _sessions[item] = worker[w].ses
          /\ \A i \in 1..item - 1 : _sessions[i] # worker[w].ses
          /\ _sessions' = SubSeq(_sessions, 1, item - 1)
                            \o SubSeq(_sessions, item + 1, Len(_sessions))
     \/ /\ \A i \in DOMAIN _sessions : _sessions[i] # worker[w].ses
        /\ UNCHANGED _sessions
  /\ worker' = [worker EXCEPT ![w].at = "get"]
  /\ UNCHANGED <<main, listener, tokens, next, ports, queues, accepts,
                 _connect_count, died>>

-----------------------------------------------------------------------------
(* The loop: a handler makes the next call for its session, or none; the   *)
(* last on_disconnected quits the loop.                                    *)
Tick ==
  /\ Main("loop") /\ queue # <<>>
  /\ queue' = Tail(queue)
  /\ LET p == Head(queue) IN
       IF p.status = "disconnected"
         THEN /\ at' = [at EXCEPT ![p.ses] = "deleted"]
              /\ _connect_count' = _connect_count - 1
              /\ MainTo(IF _connect_count' = 0 THEN "quit" ELSE "loop")
         ELSE /\ \E next_at \in {"io", "rest"} : at' = [at EXCEPT ![p.ses] = next_at]
              /\ _connect_count' =
                   _connect_count + (IF p.status = "connected" THEN 1 ELSE 0)
              /\ UNCHANGED main
  /\ UNCHANGED <<listener, worker, sock, list, ports, stopped, refs, accepts, died>>

QueueQuit ==
  /\ Main("quit")
  /\ stopped' = TRUE
  /\ MainTo("close_sockets")
  /\ UNCHANGED <<listener, worker, tokens, list, ports, queue, refs, accepts,
                 _connect_count, died>>

(* iocp_server::close().                                                   *)

\* sessions_close_sockets takes no lock.  Undefined behaviour: the iterator has
\* been overtaken by erase(), or the session has been deleted.
CloseSockets ==
  /\ Main("close_sockets")
  /\ \/ /\ next <= Len(_sessions)
        /\ sock' = [sock EXCEPT ![_sessions[next]] = FALSE]
        /\ next' = next + 1
        /\ died' \in {FALSE, at[_sessions[next]] = "deleted"}
        /\ UNCHANGED main
     \/ /\ next = Len(_sessions) + 1
        /\ MainTo("post")
        /\ UNCHANGED <<sock, next, died>>
     \/ /\ next > Len(_sessions) + 1
        /\ died' = TRUE
        /\ UNCHANGED <<main, sock, next>>
  /\ UNCHANGED <<listener, worker, at, _sessions, ports, queues, accepts,
                 _connect_count>>

\* iocp_close(): at once without a port; else a quit packet for every thread, if
\* PostQueuedCompletionStatus does not fail.  Its result is ignored.
Post ==
  /\ Main("post")
  /\ \/ /\ port
        /\ \E posted \in 0..Cardinality(Workers) :
             /\ packets' = packets \o [i \in 1..posted |-> Quit]
             /\ MainTo(IF posted = Cardinality(Workers) THEN "wait" ELSE "clear")
     \/ /\ ~port
        /\ MainTo("clear")
        /\ UNCHANGED packets
  /\ UNCHANGED <<listener, worker, tokens, list, port, released, queues, accepts,
                 _connect_count, died>>

Wait_NoWait ==  \* fault: the port is closed without waiting
  /\ Main("wait")
  /\ port' = FALSE
  /\ MainTo("clear")
  /\ UNCHANGED <<listener, worker, tokens, list, packets, released, queues, accepts,
                 _connect_count, died>>

Wait ==
  /\ Main("wait") /\ released > 0
  /\ released' = released - 1
  /\ port' = FALSE /\ packets' = <<>>
  /\ MainTo("clear")
  /\ UNCHANGED <<listener, worker, tokens, list, queues, accepts,
                 _connect_count, died>>

\* sessions_clear
Clear ==
  /\ Main("clear") /\ CsFree
  /\ _sessions' = <<>>
  /\ MainTo("close_socket")
  /\ UNCHANGED <<listener, worker, tokens, next, ports, queues, accepts,
                 _connect_count, died>>

CloseSocket_Forgotten ==  \* fault: only _stop is set
  /\ Main("close_socket")
  /\ MainTo("stop")
  /\ UNCHANGED <<listener, worker, tokens, list, ports, queues, accepts,
                 _connect_count, died>>

CloseSocket ==
  /\ Main("close_socket")
  /\ listening' = FALSE
  /\ MainTo("stop")
  /\ UNCHANGED <<listener, worker, tokens, list, ports, queues, joining,
                 _session_limit, _stop, _connect_count, died>>

Stop ==
  /\ Main("stop")
  /\ _stop' = _stop + 1
  /\ MainTo("wait_listener")
  /\ UNCHANGED <<listener, worker, tokens, list, ports, queues, joining,
                 listening, _session_limit, _connect_count, died>>

WaitListener_NoWait ==  \* fault: the listener is only told to stop
  /\ Main("wait_listener")
  /\ MainTo("post_quit")
  /\ UNCHANGED <<listener, worker, tokens, list, ports, queues, accepts,
                 _connect_count, died>>

WaitListener ==
  /\ Main("wait_listener") /\ listener \in {"off", "ended"}
  /\ MainTo("post_quit")
  /\ UNCHANGED <<listener, worker, tokens, list, ports, queues, accepts,
                 _connect_count, died>>

PostQuit ==
  /\ Main("post_quit")
  /\ Queued(Pack("quit", None))
  /\ MainTo("release")
  /\ UNCHANGED <<listener, worker, tokens, list, ports, stopped, refs, accepts,
                 _connect_count, died>>

\* deref() by close(), by main() and by ~iocp_loop; main() that could not open
\* the server does only the first.
Release ==
  /\ \/ Main("release") /\ MainTo(IF listener = "off" THEN "done" ELSE "release_main")
     \/ Main("release_main") /\ MainTo("release_loop")
     \/ Main("release_loop") /\ MainTo("done")
  /\ refs' = refs - 1
  /\ UNCHANGED <<listener, worker, tokens, list, ports, queue, stopped, accepts,
                 _connect_count, died>>

-----------------------------------------------------------------------------
MainStep ==
  \/ Open \/ OpenFails \/ Listen \/ Tick \/ QueueQuit
  \/ CloseSockets \/ Post \/ Wait \/ Clear \/ CloseSocket \/ Stop \/ WaitListener
  \/ PostQuit \/ Release
ListenerStep  == Test \/ AcceptFails \/ JoinIocp \/ JoinFails \/ Push
WorkerStep(w) == Get(w) \/ Put(w) \/ Remove(w)

Next ==
  \/ MainStep \/ ListenerStep
  \/ \E s \in Sessions : Accept(s)
  \/ \E s \in Sessions, ok \in BOOLEAN : Complete(s, ok)
  \/ \E w \in Workers : WorkerStep(w)

\* Threads run; no client need connect, no connection need end.  accept() on a
\* socket that has been closed returns.
Fairness ==
  /\ WF_vars(MainStep)
  /\ WF_vars(Test \/ JoinIocp \/ JoinFails \/ Push)
  /\ WF_vars(~listening /\ AcceptFails)
  /\ \A w \in Workers : WF_vars(WorkerStep(w))

Spec == Init /\ [][Next]_vars /\ Fairness
-----------------------------------------------------------------------------
TypeOK ==
  /\ main \in {"open", "listen", "loop", "quit", "close_sockets", "post", "wait",
               "clear", "close_socket", "stop", "wait_listener", "post_quit",
               "release", "release_main", "release_loop", "done"}
  /\ listener \in {"off", "test", "accept", "join_iocp", "push", "ended"}
  /\ worker \in [Workers -> [at : {"get", "put", "remove", "ended"},
                             ses : Sessions \cup {None}, ok : BOOLEAN]]
  /\ at \in [Sessions -> {"none", "new", "package", "io", "packet", "worker",
                          "rest", "deleted"}]
  /\ sock \in [Sessions -> BOOLEAN]
  /\ joining \in Sessions \cup {None}
  /\ _sessions \in Seq(Sessions) /\ next \in Nat \ {0}
  /\ port \in BOOLEAN /\ released \in Nat
  /\ packets \in Seq([ses : Sessions \cup {None}, ok : BOOLEAN])
  /\ queue \in Seq([status : {"connected", "finished", "disconnected", "quit"},
                    ses : Sessions \cup {None}])
  /\ stopped \in BOOLEAN /\ refs \in 0..3
  /\ listening \in BOOLEAN /\ _session_limit \in 0..Limit /\ _stop \in 0..1
  /\ _connect_count \in 0..Cardinality(Sessions)
  /\ died \in BOOLEAN

\* iocp::close() has returned 0 and left the port to its threads.
Abandoned ==
  port /\ main \in {"clear", "close_socket", "stop", "wait_listener", "post_quit",
                    "release", "release_main", "release_loop", "done"}

\* A thread that ends a session finds it in the list, while the server serves
\* and while it closes: no sessions_clear, or other session_remove, comes first
\* (ASSERT(0), "removed twice?", iocp_session.h:207-208), unless the quit
\* packets could not be posted.
RemoveFindsSession ==
  Abandoned \/ \A w \in Workers : worker[w].at = "remove" /\ CsFree =>
    \E i \in DOMAIN _sessions : _sessions[i] = worker[w].ses

\* The queue is "deleted at last" (server.cpp:158-163): when its last reference
\* is gone no listener, worker or main() will touch it any more, unless the quit
\* packets could not be posted.
QueueOutlivesItsUsers ==
  refs <= 0 /\ ~Abandoned =>
    /\ main = "done" /\ listener \in {"off", "ended"}
    /\ \A w \in Workers : worker[w].at = "ended"

\* close() returns, although it waits for a thread of the port, then for the
\* lock that session_join holds, then for a listener that may be in accept().
CloseReturns == main = "close_sockets" ~> main = "done" \/ died
=============================================================================
