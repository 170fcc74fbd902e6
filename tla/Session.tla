------------------------------ MODULE Session ------------------------------
(***************************************************************************)
(* The life of iocp_session objects: session_ioT and iocp_session, the     *)
(* boss's list of them, the completion port that hands their finished I/O  *)
(* to the worker threads, and the package queue through which the loop     *)
(* thread learns what happened and answers with send(), recv(), quit() and *)
(* finally delete.                                                         *)
(*                                                                         *)
(* th[t].at names the statement thread t is about to execute:              *)
(*   idle       worker: in GetQueuedCompletionStatus; others: elsewhere    *)
(*   associate, push    join_iocp and push_back of session_join            *)
(*   send_done, recv_done   entering process_iocp with a dequeued packet   *)
(*   parse      entering recv_package: look at what the receive buffer has *)
(*   WSASend, WSARecv   the system call of send() / receive()              *)
(*   write_err  the call returned SOCKET_ERROR: _err = WSAGetLastError()   *)
(*   compare    if(WSA_IO_PENDING == _err)                                 *)
(*   check      if(_socket) of send_finished, recv_finished, ...           *)
(*   put        _queue_pk->put of that package                             *)
(*   assert     ASSERT(!_debug_disconnected) after the put                 *)
(*   close, announce, remove, mark   the four statements of disconected()  *)
(* What is between two of these touches nothing another thread can see.    *)
(* The unoptimised build reads _err back from memory at "compare" and has  *)
(* the ASSERTs; in the optimised one both are gone (see Debug).            *)
(*                                                                         *)
(* The bytes are abstracted: a completion is ok (trans > 0) or not (0), and*)
(* the receive buffer holds a number of complete packages or a Bad header. *)
(* The package queue is the FIFO that QueueT is shown to implement.        *)
(***************************************************************************)
EXTENDS Integers, Sequences, FiniteSets

CONSTANTS Sessions,   \* the sessions that may be created, one object each
          Workers,    \* the completion port's threads
          Loop,       \* the thread that runs iocp_loop::tick
          Joiner,     \* the thread that creates sessions: listener or client
          App,        \* App[o]: the scripts a handler may choose from on occasion o
          Debug,      \* the _DEBUG build, not the optimised one
          MaxBatch,   \* complete packages one receive can leave (bound)
          None        \* no session

Threads  == Workers \cup {Loop, Joiner}
Calls    == {"send", "recv", "recvmax", "quit"}
Errors   == {"send_error", "recv_error"}
Notes    == {"send_finished", "recv_finished", "recv_failed", "protocol_error"}
              \cup Errors
Handled  == {"connected"} \cup Notes
Occasions == Handled \cup {"refused"}  \* a package, or send() returned -1
Statuses == {"disconnected"} \cup Handled
Kinds    == {"send", "recv"}
Bad      == -1
Closing  == {"close", "announce", "remove", "mark"}
Labels   == {"idle", "associate", "push", "send_done", "recv_done", "parse",
             "WSASend", "WSARecv", "write_err", "compare", "check", "put",
             "assert"} \cup Closing

ASSUME SessionAssumption ==
  /\ None \notin Sessions
  /\ Loop \notin Workers /\ Joiner \notin Workers /\ Loop # Joiner
  /\ Debug \in BOOLEAN
  /\ MaxBatch \in Nat \ {0}
  /\ \A o \in Occasions : \A script \in App[o] : script \in Seq(Calls)

VARIABLES
  life,     \* "none", "live" (allocated) or "deleted"
  sock,     \* _socket # 0
  link,     \* the connection still works: peer and network
  io,       \* kinds of I/O the kernel holds for the session
  recvOp,   \* _recv_olp->operation: "recv" (IO_RECV) or "quit" (IO_QUIT)
  inbuf,    \* complete packages in _recv_buf, or Bad
  roomy,    \* the application's buffer holds any package
  err,      \* _err = WSA_IO_PENDING
  dbg,      \* _debug_disconnected
  boss,     \* iocp_session_boss::_sessions
  cq,       \* the completion port's queue of packets
  q,        \* the package queue
  th,       \* what each thread is doing, see Resting
  task,     \* the loop's handler: its session and the calls still to make
  died      \* the process ended: an ASSERT failed or freed memory was used

objVars  == <<life, sock, link, io, recvOp, inbuf, roomy, err, dbg>>
sharedVars == <<boss, cq, q>>
vars     == <<objVars, sharedVars, th, task, died>>

\* note: the package to put; end: the I/O failed, so disconected() follows.
Resting == [at |-> "idle", ses |-> None, note |-> "none", end |-> FALSE]
NoTask  == [ses |-> None, calls |-> <<>>]
Package_NoSession(st, s) == [status |-> st, ses |-> None]  \* fault: not filled in
Package(st, s)   == [status |-> st, ses |-> s]
Packet(s, k, ok) == [ses |-> s, olp |-> k, ok |-> ok]

Init ==
  /\ life = [s \in Sessions |-> "none"]
  /\ sock = [s \in Sessions |-> FALSE]
  /\ link = [s \in Sessions |-> FALSE]
  /\ io = [s \in Sessions |-> {}]
  /\ recvOp = [s \in Sessions |-> "recv"]
  /\ inbuf = [s \in Sessions |-> 0]
  /\ roomy = [s \in Sessions |-> FALSE]
  /\ err = [s \in Sessions |-> FALSE]
  /\ dbg = [s \in Sessions |-> FALSE]
  /\ boss = {} /\ cq = <<>> /\ q = <<>>
  /\ th = [t \in Threads |-> Resting]
  /\ task = NoTask
  /\ died = FALSE

At(t, label)   == th[t].at = label
Runs(t, label) == ~died /\ At(t, label)
Goto(t, label) == th' = [th EXCEPT ![t].at = label]
Return(t)      == th' = [th EXCEPT ![t] = Resting]
\* send_finished() and its siblings; then disconected() or the caller's return.
Notify(t, st, end) ==
  th' = [th EXCEPT ![t].at = "check", ![t].note = st, ![t].end = end]
AfterNotify(t) == IF th[t].end THEN Goto(t, "close") ELSE Return(t)

\* _cs is held while a session is being joined.
Locked_PushOnly == FALSE  \* fault: _cs is taken for push_back alone

Locked == ~At(Joiner, "idle")

-----------------------------------------------------------------------------
(* iocp_session_boss::session_join.  _cs is held from `new` to push_back,  *)
(* so that nobody looks for the session in the list before it is there.    *)
JoinNew(s) ==
  /\ Runs(Joiner, "idle") /\ life[s] = "none"
  /\ th' = [th EXCEPT ![Joiner].at = "associate", ![Joiner].ses = s]
  /\ life' = [life EXCEPT ![s] = "live"]
  /\ sock' = [sock EXCEPT ![s] = TRUE]
  /\ link' = [link EXCEPT ![s] = TRUE]
  /\ UNCHANGED <<io, recvOp, inbuf, roomy, err, dbg, sharedVars, task, died>>

\* join_iocp associates the socket with the port and calls connected().
JoinConnect ==
  /\ Runs(Joiner, "associate")
  /\ q' = Append(q, Package("connected", th[Joiner].ses))
  /\ Goto(Joiner, "push")
  /\ UNCHANGED <<objVars, boss, cq, task, died>>

\* CreateIoCompletionPort fails: ASSERT(0), and the session is deleted without
\* its socket being closed.
JoinFail ==
  /\ Runs(Joiner, "associate")
  /\ died' = Debug
  /\ life' = [life EXCEPT ![th[Joiner].ses] = "deleted"]
  /\ Return(Joiner)
  /\ UNCHANGED <<sock, link, io, recvOp, inbuf, roomy, err, dbg, sharedVars, task>>

JoinPush ==
  /\ Runs(Joiner, "push")
  /\ boss' = boss \cup {th[Joiner].ses}
  /\ Return(Joiner)
  /\ UNCHANGED <<objVars, cq, q, task, died>>

-----------------------------------------------------------------------------
(* The kernel (external).  I/O it holds completes once, into the port's    *)
(* queue: ok while connection and socket are good, failed when they are    *)
(* not (WSARecv after the peer closed, aborted by closesocket).            *)
LoseLink(s) ==
  /\ ~died /\ link[s]
  /\ link' = [link EXCEPT ![s] = FALSE]
  /\ UNCHANGED <<life, sock, io, recvOp, inbuf, roomy, err, dbg, sharedVars,
                 th, task, died>>

Complete(s, k) ==
  /\ ~died /\ k \in io[s]
  /\ io' = [io EXCEPT ![s] = @ \ {k}]
  /\ cq' = Append(cq, Packet(s, k, link[s] /\ sock[s]))
  /\ UNCHANGED <<life, sock, link, recvOp, inbuf, roomy, err, dbg, boss, q,
                 th, task, died>>

\* iocp::iocp_thread_proc: the worker dequeues a packet.
Dequeue(w) ==
  /\ Runs(w, "idle") /\ cq # <<>>
  /\ LET p == Head(cq) IN
       th' = [th EXCEPT ![w] =
                [at |-> IF p.olp = "send" THEN "send_done" ELSE "recv_done",
                 ses |-> p.ses, note |-> "none", end |-> ~p.ok]]
  /\ cq' = Tail(cq)
  /\ UNCHANGED <<objVars, boss, q, task, died>>

-----------------------------------------------------------------------------
(* process_iocp and what it calls.  th[t].end is trans == 0 here.          *)

\* IO_SEND: send_error() and disconected(), or send_package(trans): part of the
\* data is still to be sent, or send_finished().
SendDone(w) ==
  /\ Runs(w, "send_done")
  /\ LET s == th[w].ses IN
       IF th[w].end
         THEN /\ Notify(w, "send_error", TRUE)
              /\ err' = [err EXCEPT ![s] = FALSE]
         ELSE /\ Goto(w, "WSASend") \/ Notify(w, "send_finished", FALSE)
              /\ UNCHANGED err
  /\ UNCHANGED <<life, sock, link, io, recvOp, inbuf, roomy, dbg, sharedVars,
                 task, died>>

\* What _recv_buf may hold once more bytes have arrived.
Received(n) == IF n = Bad THEN {Bad} ELSE {Bad} \cup n..MaxBatch

\* IO_RECV, or IO_QUIT when quit() has overwritten the operation meanwhile.
RecvDone(w) ==
  /\ Runs(w, "recv_done")
  /\ LET s == th[w].ses IN
       \/ /\ recvOp[s] = "quit"
          /\ Goto(w, "close")
          /\ UNCHANGED <<inbuf, err>>
       \/ /\ recvOp[s] = "recv" /\ th[w].end
          /\ Notify(w, "recv_error", TRUE)
          /\ err' = [err EXCEPT ![s] = FALSE]
          /\ UNCHANGED inbuf
       \/ /\ recvOp[s] = "recv" /\ ~th[w].end
          /\ Goto(w, "parse")
          /\ \E n \in Received(inbuf[s]) : inbuf' = [inbuf EXCEPT ![s] = n]
          /\ UNCHANGED err
  /\ UNCHANGED <<life, sock, link, io, recvOp, roomy, dbg, sharedVars, task, died>>

\* What follows the last complete package may be no package header at all.
Consumed(n) == IF n = 1 THEN {0, Bad} ELSE {n - 1}

\* recv_package: a bad header is an ASSERT(0) and protocol_error().
Parse(t) ==
  /\ Runs(t, "parse")
  /\ LET s == th[t].ses IN
       \/ /\ inbuf[s] = Bad
          /\ Notify(t, "protocol_error", FALSE)
          /\ died' = Debug /\ UNCHANGED inbuf
       \/ /\ inbuf[s] = 0
          /\ Goto(t, "WSARecv")
          /\ UNCHANGED <<inbuf, died>>
       \/ /\ inbuf[s] > 0 /\ ~roomy[s]
          /\ Notify(t, "recv_failed", FALSE)
          /\ UNCHANGED <<inbuf, died>>
       \/ /\ inbuf[s] > 0
          /\ Notify(t, "recv_finished", FALSE)
          /\ \E n \in Consumed(inbuf[s]) : inbuf' = [inbuf EXCEPT ![s] = n]
          /\ UNCHANGED died
  /\ UNCHANGED <<life, sock, link, io, recvOp, roomy, err, dbg, sharedVars, task>>

-----------------------------------------------------------------------------
(* send() and receive().  The system call takes the I/O, at once (r == 0)  *)
(* or pending, or refuses it; the completion comes through the port even   *)
(* when the call succeeded at once.                                        *)
Issue(t) ==
  /\ Runs(t, "WSASend") \/ Runs(t, "WSARecv")
  /\ LET s == th[t].ses
         k == IF At(t, "WSASend") THEN "send" ELSE "recv"
         Failed(refused) ==
           th' = [th EXCEPT ![t].at = "write_err", ![t].end = refused,
                            ![t].note = IF k = "send" THEN "send_error"
                                                      ELSE "recv_error"]
     IN /\ recvOp' = IF k = "recv" THEN [recvOp EXCEPT ![s] = "recv"] ELSE recvOp
        /\ \/ /\ sock[s]
              /\ io' = [io EXCEPT ![s] = @ \cup {k}]
              /\ Return(t) \/ Failed(FALSE)
           \/ Failed(TRUE) /\ UNCHANGED io
  /\ UNCHANGED <<life, sock, link, inbuf, roomy, err, dbg, sharedVars, task, died>>

WriteErr(t) ==
  /\ Runs(t, "write_err")
  /\ err' = [err EXCEPT ![th[t].ses] = ~th[t].end]
  /\ Goto(t, "compare")
  /\ UNCHANGED <<life, sock, link, io, recvOp, inbuf, roomy, dbg, sharedVars,
                 task, died>>

Compare_NoPending(t) ==  \* fault: WSA_IO_PENDING is taken for an error
  /\ Runs(t, "compare")
  /\ Notify(t, th[t].note, TRUE)
  /\ UNCHANGED <<objVars, sharedVars, task, died>>

Compare_NoClose(t) ==    \* fault: send() and receive() return after an error
  /\ Runs(t, "compare")
  /\ Return(t)
  /\ UNCHANGED <<objVars, sharedVars, task, died>>

Compare(t) ==
  /\ Runs(t, "compare")
  /\ IF (IF Debug THEN err[th[t].ses] ELSE ~th[t].end)
       THEN Return(t)
       ELSE Notify(t, th[t].note, TRUE)
  /\ UNCHANGED <<objVars, sharedVars, task, died>>

-----------------------------------------------------------------------------
(* send_finished(), recv_finished(), recv_failed(), protocol_error(),      *)
(* send_error() and recv_error() are one piece of code.                    *)
Check(t) ==
  /\ Runs(t, "check")
  /\ IF sock[th[t].ses] THEN Goto(t, "put") ELSE AfterNotify(t)
  /\ UNCHANGED <<objVars, sharedVars, task, died>>

Put(t) ==
  /\ Runs(t, "put")
  /\ q' = Append(q, Package(th[t].note, th[t].ses))
  /\ Goto(t, "assert")
  /\ UNCHANGED <<objVars, boss, cq, task, died>>

AssertMark(t) ==
  /\ Runs(t, "assert")
  /\ died' = (Debug /\ dbg[th[t].ses])
  /\ AfterNotify(t)
  /\ UNCHANGED <<objVars, sharedVars, task>>

\* iocp_session::disconected()
Close(t) ==
  /\ Runs(t, "close")
  /\ sock' = [sock EXCEPT ![th[t].ses] = FALSE]
  /\ Goto(t, "announce")
  /\ UNCHANGED <<life, link, io, recvOp, inbuf, roomy, err, dbg, sharedVars,
                 task, died>>

Announce_IfOpen(t) ==  \* fault: if(_socket), as the other notifications have it
  /\ Runs(t, "announce")
  /\ q' = IF sock[th[t].ses] THEN Append(q, Package("disconnected", th[t].ses)) ELSE q
  /\ Goto(t, "remove")
  /\ UNCHANGED <<objVars, boss, cq, task, died>>

Announce(t) ==
  /\ Runs(t, "announce")
  /\ q' = Append(q, Package("disconnected", th[t].ses))
  /\ Goto(t, "remove")
  /\ UNCHANGED <<objVars, boss, cq, task, died>>

\* session_remove waits for _cs; ASSERT(0) when the session is not listed.
Remove(t) ==
  /\ Runs(t, "remove") /\ ~Locked
  /\ boss' = boss \ {th[t].ses}
  /\ died' = (Debug /\ th[t].ses \notin boss)
  /\ Goto(t, "mark")
  /\ UNCHANGED <<objVars, cq, q, task>>

Mark_FallThrough(t) ==  \* fault: `break` of IO_RECV is missing, IO_QUIT follows
  /\ Runs(t, "mark")
  /\ dbg' = [dbg EXCEPT ![th[t].ses] = TRUE]
  /\ IF th[t].note = "recv_error"
       THEN th' = [th EXCEPT ![t].at = "close", ![t].note = "none"]
       ELSE Return(t)
  /\ UNCHANGED <<life, sock, link, io, recvOp, inbuf, roomy, err, sharedVars,
                 task, died>>

Mark(t) ==
  /\ Runs(t, "mark")
  /\ dbg' = [dbg EXCEPT ![th[t].ses] = TRUE]
  /\ Return(t)
  /\ UNCHANGED <<life, sock, link, io, recvOp, inbuf, roomy, err, sharedVars,
                 task, died>>

-----------------------------------------------------------------------------
(* The loop thread: tick() takes a package and runs its handler; handlers  *)
(* make the calls of a script App gives them, and on_disconnected deletes  *)
(* the session.                                                            *)
Calling(s, script) == IF script = <<>> THEN NoTask ELSE [ses |-> s, calls |-> script]
Handle(st, s) ==
  IF st = "disconnected"
    THEN /\ life' = [life EXCEPT ![s] = "deleted"]
         /\ UNCHANGED task
    ELSE /\ \E script \in App[st] : task' = Calling(s, script)
         /\ UNCHANGED life

LoopGet ==
  /\ Runs(Loop, "idle") /\ task = NoTask /\ q # <<>>
  /\ Handle(Head(q).status, Head(q).ses)
  /\ q' = Tail(q)
  /\ UNCHANGED <<sock, link, io, recvOp, inbuf, roomy, err, dbg, boss, cq, th, died>>

\* send() issues the I/O, recv() first looks at what has been received already,
\* quit() posts a packet to the port.
LoopStart(s, label) == th' = [th EXCEPT ![Loop].at = label, ![Loop].ses = s]

Send(s) ==
  /\ LoopStart(s, "WSASend")
  /\ UNCHANGED <<roomy, recvOp, cq>>

Recv(s, big) ==
  /\ LoopStart(s, "parse")
  /\ roomy' = [roomy EXCEPT ![s] = big]
  /\ UNCHANGED <<recvOp, cq>>

\* Nobody looks at what PostQueuedCompletionStatus returns: it may have failed.
Quit(s) ==
  /\ recvOp' = [recvOp EXCEPT ![s] = "quit"]
  /\ cq' = Append(cq, Packet(s, "recv", FALSE)) \/ UNCHANGED cq
  /\ UNCHANGED <<roomy, th>>

\* The next call of the handler.
LoopCall ==
  /\ Runs(Loop, "idle") /\ task # NoTask
  /\ \/ Head(task.calls) = "send" /\ Send(task.ses)
     \/ Head(task.calls) = "recv" /\ \E big \in BOOLEAN : Recv(task.ses, big)
     \/ Head(task.calls) = "recvmax" /\ Recv(task.ses, TRUE)
     \/ Head(task.calls) = "quit" /\ Quit(task.ses)
  /\ task' = Calling(task.ses, Tail(task.calls))
  /\ UNCHANGED <<life, sock, link, io, inbuf, err, dbg, boss, q, died>>

\* The call is a send() of a package the send buffer has no room for: it returns
\* -1 (one of the two sends has an ASSERT(0) before that), and the handler may
\* make other calls instead.
LoopRefused ==
  /\ Runs(Loop, "idle") /\ task # NoTask /\ Head(task.calls) = "send"
  /\ \E script \in App["refused"] :
       task' = Calling(task.ses, script \o Tail(task.calls))
  /\ died' \in {FALSE, Debug}
  /\ UNCHANGED <<objVars, sharedVars, th>>

-----------------------------------------------------------------------------
\* Thread t is at a statement that uses a session that has been deleted.
UsesFreed(t) ==
  \/ /\ t # Joiner /\ ~At(t, "idle")
     /\ life[th[t].ses] = "deleted"
     /\ Debug \/ ~(At(t, "assert") \/ At(t, "compare"))
  \/ /\ t = Loop /\ At(t, "idle")
     /\ \/ task # NoTask /\ life[task.ses] = "deleted"
        \/ task = NoTask /\ q # <<>> /\ life[Head(q).ses] = "deleted"

\* Undefined behaviour: either the memory still holds the session, and the
\* thread goes on as above, or the process dies.
Crash(t) ==
  /\ ~died /\ UsesFreed(t)
  /\ died' = TRUE
  /\ UNCHANGED <<objVars, sharedVars, th, task>>

Notification(t) == Check(t) \/ Put(t) \/ AssertMark(t)
Disconected(t)  == Close(t) \/ Announce(t) \/ Remove(t) \/ Mark(t)
Step(t) ==
  \/ Parse(t) \/ Issue(t) \/ WriteErr(t) \/ Compare(t)
  \/ Notification(t) \/ Disconected(t)
WorkerStep(w) == Dequeue(w) \/ SendDone(w) \/ RecvDone(w) \/ Step(w)
LoopStep   == LoopGet \/ LoopCall \/ LoopRefused \/ Step(Loop)
JoinStep   == JoinConnect \/ JoinFail \/ JoinPush

Next ==
  \/ \E s \in Sessions : JoinNew(s) \/ LoseLink(s)
  \/ \E s \in Sessions, k \in Kinds : Complete(s, k)
  \/ \E w \in Workers : WorkerStep(w)
  \/ LoopStep \/ JoinStep
  \/ \E t \in Threads : Crash(t)

\* Threads run; the kernel completes the I/O of a connection that is gone.
\* Data need not arrive on one that works.
Fairness ==
  /\ \A w \in Workers : WF_vars(WorkerStep(w))
  /\ WF_vars(LoopStep)
  /\ WF_vars(JoinStep)
  /\ \A s \in Sessions, k \in Kinds : WF_vars(~link[s] /\ Complete(s, k))

Spec == Init /\ [][Next]_vars /\ Fairness
-----------------------------------------------------------------------------
TypeOK ==
  /\ life \in [Sessions -> {"none", "live", "deleted"}]
  /\ sock \in [Sessions -> BOOLEAN] /\ link \in [Sessions -> BOOLEAN]
  /\ io \in [Sessions -> SUBSET Kinds]
  /\ recvOp \in [Sessions -> {"recv", "quit"}]
  /\ inbuf \in [Sessions -> {Bad} \cup 0..MaxBatch]
  /\ roomy \in [Sessions -> BOOLEAN]
  /\ err \in [Sessions -> BOOLEAN] /\ dbg \in [Sessions -> BOOLEAN]
  /\ boss \subseteq Sessions
  /\ cq \in Seq([ses : Sessions, olp : Kinds, ok : BOOLEAN])
  /\ q \in Seq([status : Statuses, ses : Sessions])
  /\ th \in [Threads -> [at : Labels, ses : Sessions \cup {None},
                         note : Notes \cup {"none"}, end : BOOLEAN]]
  /\ task \in [ses : Sessions \cup {None}, calls : Seq(Calls)]
  /\ died \in BOOLEAN

\* What can still lead to another package for session s: one of its packages
\* (errors only announce what their sender does next), I/O with the kernel or
\* the port, a thread at work on it, a handler with calls to make.
Packages(s) == {i \in DOMAIN q : q[i].ses = s /\ q[i].status \notin Errors}
Packets(s)  == {i \in DOMAIN cq : cq[i].ses = s}
Working(r)  ==
  \/ r.at \in Labels \ {"idle", "push", "write_err", "compare", "assert",
                        "remove", "mark"}
  \/ r.at \in {"write_err", "compare", "assert"} /\ r.end
Inside(s)   == {t \in Threads : th[t].ses = s /\ Working(th[t])}

Activities(s) ==
  ({"package"} \X Packages(s)) \cup ({"io"} \X io[s])
    \cup ({"packet"} \X Packets(s)) \cup ({"thread"} \X Inside(s))
    \cup (IF task.ses = s THEN {<<"handler", s>>} ELSE {})

\* An application that makes one call per package never has two things going on
\* in one session: the reason why process_iocp needs no lock
\* (iocp_session.h:267-276).
OneActivity ==
  \A s \in Sessions : \A a, b \in Activities(s) : a = b

\* The package disconnected is the last one of its session in the queue, and no
\* package names a session that on_disconnected has deleted
\* (iocp_session.h:252-259).
DisconnectedIsLast ==
  \A i \in DOMAIN q :
    /\ life[q[i].ses] = "live"
    /\ q[i].status = "disconnected" =>
         \A j \in DOMAIN q : j > i => q[j].ses # q[i].ses

\* A session is announced disconnected once, and not again when on_disconnected
\* has deleted it: once the socket is 0 whatever another thread finds out "can not
\* be added into the package queue" (iocp_session.h:252-259).
DisconnectedOnce ==
  \A s \in Sessions :
    LET ends == {i \in DOMAIN q : q[i] = Package("disconnected", s)}
    IN  \A i, j \in ends : i = j /\ life[s] = "live"

\* When the loop is told to delete a session its socket is closed, and neither
\* the kernel nor the port holds a pointer to it or its OVERLAPPEDs.
NoIoAfterDisconnect ==
  \A i \in DOMAIN q : q[i].status = "disconnected" =>
    LET s == q[i].ses IN
      /\ ~sock[s] /\ io[s] = {}
      /\ \A n \in DOMAIN cq : cq[n].ses # s

\* session_remove() finds the session in the list: it has been pushed, and was
\* not removed before (ASSERT(0), "removed twice?", iocp_session.h:207-208).
RemoveFindsSession ==
  \A t \in Threads : At(t, "remove") /\ ~Locked => th[t].ses \in boss

\* No thread uses a session that the loop has deleted: "user can delete session
\* after they get the disconnected pack" (iocp_session.h:258-259).
NoUseAfterFree == \A t \in Threads : ~UsesFreed(t)

\* How far the code is from that, in the optimised build: only a thread that is
\* leaving a session can find it deleted, in session_remove() and the statement
\* after it (iocp_session.h:287-288), or when it stores _err after a call whose
\* I/O is pending and may have ended the session meanwhile
\* (iocp_session_ioT.h:224, 274).
FreedOnlyWhileLeaving ==
  \A t \in Threads : UsesFreed(t) => th[t].at \in {"write_err", "remove", "mark"}

\* quit() could not post its packet, and nobody knows: nothing is outstanding in
\* the session and the application waits for its end (iocp_session.h:77).
QuitLost(s) == recvOp[s] = "quit" /\ Activities(s) = {}

\* A session whose connection is gone ends, provided that the application never
\* leaves it without a call outstanding: some I/O fails, disconnected reaches
\* the loop and the session is deleted.
LostSessionEnds ==
  \A s \in Sessions :
    life[s] = "live" /\ ~link[s] ~> life[s] = "deleted" \/ died \/ QuitLost(s)

\* A quit() whose packet is in the port ends the session, whatever the connection
\* does: "session's life is over" (iocp_session.h:63-73).
QuitEnds ==
  \A s \in Sessions :
    recvOp[s] = "quit" /\ (\E i \in DOMAIN cq : cq[i].ses = s /\ cq[i].olp = "recv")
      ~> life[s] = "deleted" \/ died
=============================================================================
