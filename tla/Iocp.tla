-------------------------------- MODULE Iocp --------------------------------
(***************************************************************************)
(* iocp<sessionT>: the completion port of a server or client and the       *)
(* thread-pool threads that serve it, from open() to close().              *)
(*                                                                         *)
(* owner is what the thread that calls open() and close() is about to do:  *)
(*   idle, start (the QueueUserWorkItem loop), semaphore (CreateSemaphore),*)
(*   post (the PostQueuedCompletionStatus loop), wait, close_sem,          *)
(*   close_port                                                            *)
(* worker[t].at is the same for a thread of the pool:                      *)
(*   idle (no work item), entry (hiocp = io->get_handle()), get            *)
(*   (GetQueuedCompletionStatus), process (process_iocp), notify           *)
(*   (notify_thread_quit), lost (GetQueuedCompletionStatus failed without  *)
(*   a packet: ASSERT, and process_iocp of the last session and a null     *)
(*   OVERLAPPED)                                                           *)
(* Handles are numbered: the n-th open() creates port n and semaphore n, 0 *)
(* is none.  The port's fields are read when the code reads them: hiocp    *)
(* once per thread, _thread_semaphore when the thread ends.                *)
(***************************************************************************)
EXTENDS Naturals, Sequences, FiniteSets

CONSTANTS Pool,      \* threads of the thread pool
          Counts,    \* thread_count: a client passes 1, a server any number
          Sessions,  \* keys of the packets
          MaxOpens,  \* open() calls (bound)
          MaxPackets \* packets waiting in a port, but for those of close() (bound)

ASSUME IocpAssumption ==
  /\ IsFiniteSet(Pool) /\ Counts \subseteq 1..Cardinality(Pool)
  /\ MaxOpens \in Nat /\ MaxPackets \in Nat
  /\ "quit" \notin Sessions

VARIABLES
  _thread_count, \* the same in every open() of one server or client
  owner,    \* see above
  left,     \* threads still to be started, or quit packets still to be posted
  opens,    \* open() calls so far
  _iocp,    \* the members _iocp and
  _sem,     \* _thread_semaphore
  ports,    \* ports not closed yet
  sems,     \* semaphores not closed yet
  packets,  \* packets[n]: the queue of port n
  count,    \* count[n]: the count of semaphore n
  worker

calls   == <<_thread_count, owner, left, opens>>
handles == <<_iocp, _sem, ports, sems>>
vars    == <<calls, handles, packets, count, worker>>

Handles == 1..MaxOpens
Resting == [at |-> "idle", port |-> 0]
At(t, label)   == worker[t].at = label
Goto(t, label) == worker' = [worker EXCEPT ![t].at = label]

Init ==
  /\ _thread_count \in Counts
  /\ owner = "idle" /\ left = 0 /\ opens = 0
  /\ _iocp = 0 /\ _sem = 0 /\ ports = {} /\ sems = {}
  /\ packets = [n \in Handles |-> <<>>]
  /\ count = [n \in Handles |-> 0]
  /\ worker = [t \in Pool |-> Resting]

-----------------------------------------------------------------------------
(* open().  When the port cannot be created nothing has happened.          *)
Open ==
  /\ owner = "idle" /\ opens < MaxOpens
  /\ opens' = opens + 1
  /\ _iocp' = opens + 1
  /\ ports' = ports \cup {opens + 1}
  /\ left' = _thread_count
  /\ owner' = "start"
  /\ UNCHANGED <<_thread_count, _sem, sems, packets, count, worker>>

\* open() itself does not look whether the port is open, and would lose the
\* handle; its callers, the open() of a server and of a client, are called once.
OpenAgain == _iocp = 0 /\ Open

StartWorker_OneMore(t) ==  \* fault: i <= _thread_count
  /\ owner = "start" /\ left >= 0
  /\ At(t, "idle")
  /\ Goto(t, "entry")
  /\ left' = left - 1
  /\ UNCHANGED <<_thread_count, owner, opens, handles, packets, count>>

StartWorker(t) ==
  /\ owner = "start" /\ left > 0
  /\ At(t, "idle")
  /\ Goto(t, "entry")
  /\ left' = left - 1
  /\ UNCHANGED <<handles, _thread_count, owner, opens, packets, count>>

CreateSemaphore_Released ==  \* fault: the initial count is not 0
  /\ owner = "start" /\ left = 0
  /\ _sem' = _iocp
  /\ sems' = sems \cup {_iocp}
  /\ count' = [count EXCEPT ![_iocp] = 1]
  /\ owner' = "idle"
  /\ UNCHANGED <<_thread_count, left, opens, _iocp, ports, packets, worker>>

CreateSemaphore ==
  /\ owner = "start" /\ left = 0
  /\ _sem' = _iocp
  /\ sems' = sems \cup {_iocp}
  /\ owner' = "idle"
  /\ UNCHANGED <<_thread_count, left, opens, _iocp, ports, packets, count, worker>>

-----------------------------------------------------------------------------
(* close(): one quit packet per thread, wait, close the handles.  _sem     *)
(* keeps its value.                                                        *)
Close ==
  /\ owner = "idle" /\ _iocp # 0 /\ Len(packets[_iocp]) <= MaxPackets
  /\ left' = _thread_count
  /\ owner' = "post"
  /\ UNCHANGED <<handles, _thread_count, opens, packets, count, worker>>

Post ==
  /\ owner = "post" /\ left > 0
  /\ packets' = [packets EXCEPT ![_iocp] = Append(@, "quit")]
  /\ left' = left - 1
  /\ UNCHANGED <<handles, _thread_count, owner, opens, count, worker>>

\* PostQueuedCompletionStatus fails: close() returns 0 and leaves all as it is.
PostFail ==
  /\ owner = "post" /\ left > 0
  /\ owner' = "idle"
  /\ UNCHANGED <<handles, _thread_count, left, opens, packets, count, worker>>

Posted ==
  /\ owner = "post" /\ left = 0
  /\ owner' = "wait"
  /\ UNCHANGED <<handles, _thread_count, left, opens, packets, count, worker>>

\* WaitForSingleObject(_thread_semaphore, INFINITE): once, for one release.
Wait_Timeout ==  \* fault: a time-out ends the wait
  /\ owner = "wait"
  /\ owner' = "close_sem"
  /\ UNCHANGED <<handles, _thread_count, left, opens, packets, count, worker>>

Wait ==
  /\ owner = "wait" /\ count[_sem] > 0
  /\ count' = [count EXCEPT ![_sem] = @ - 1]
  /\ owner' = "close_sem"
  /\ UNCHANGED <<handles, _thread_count, left, opens, packets, worker>>

CloseSemaphore ==
  /\ owner = "close_sem"
  /\ sems' = sems \ {_sem}
  /\ count' = [count EXCEPT ![_sem] = 0]
  /\ owner' = "close_port"
  /\ UNCHANGED <<_thread_count, left, opens, _iocp, _sem, ports, packets, worker>>

ClosePort ==
  /\ owner = "close_port"
  /\ ports' = ports \ {_iocp}
  /\ packets' = [packets EXCEPT ![_iocp] = <<>>]
  /\ _iocp' = 0
  /\ owner' = "idle"
  /\ UNCHANGED <<_thread_count, left, opens, _sem, sems, count, worker>>

-----------------------------------------------------------------------------
(* The kernel (external) drops the packets of a port that is closed.       *)

\* An I/O of session s completes.
Complete(s, n) ==
  /\ n \in ports /\ Len(packets[n]) < MaxPackets
  /\ packets' = [packets EXCEPT ![n] = Append(@, s)]
  /\ UNCHANGED <<calls, handles, count, worker>>

(* iocp_thread_proc.                                                       *)
Enter(t) ==
  /\ At(t, "entry")
  /\ worker' = [worker EXCEPT ![t] = [at |-> "get", port |-> _iocp]]
  /\ UNCHANGED <<calls, handles, packets, count>>

Get_NoQuit(t) ==  \* fault: key 0 is not recognised
  LET n == worker[t].port IN
    /\ At(t, "get") /\ n \in ports /\ packets[n] # <<>>
    /\ packets' = [packets EXCEPT ![n] = Tail(@)]
    /\ Goto(t, "process")
    /\ UNCHANGED <<calls, handles, count>>

\* A packet: that of close() (key 0) ends the thread, any other is processed.
Get(t) ==
  LET n == worker[t].port IN
    /\ At(t, "get") /\ n \in ports /\ packets[n] # <<>>
    /\ packets' = [packets EXCEPT ![n] = Tail(@)]
    /\ Goto(t, IF Head(packets[n]) = "quit" THEN "notify" ELSE "process")
    /\ UNCHANGED <<calls, handles, count>>

\* The port has been closed: there is no packet, and no session to process.
GetFail(t) ==
  /\ At(t, "get") /\ worker[t].port \notin ports
  /\ Goto(t, "lost")
  /\ UNCHANGED <<calls, handles, packets, count>>

\* process_iocp returns (Session models what it does).
Processed(t) ==
  /\ At(t, "process")
  /\ Goto(t, "get")
  /\ UNCHANGED <<calls, handles, packets, count>>

\* ReleaseSemaphore fails on a closed handle and above the maximum count.
NotifyThreadQuit(t) ==
  /\ At(t, "notify")
  /\ count' = IF _sem \in sems /\ count[_sem] < _thread_count
                THEN [count EXCEPT ![_sem] = @ + 1] ELSE count
  /\ worker' = [worker EXCEPT ![t] = Resting]
  /\ UNCHANGED <<calls, handles, packets>>

WorkerStep(t) ==
  \/ Enter(t) \/ Get(t) \/ GetFail(t) \/ Processed(t) \/ NotifyThreadQuit(t)
OpenStep  == CreateSemaphore \/ \E t \in Pool : StartWorker(t)
CloseStep == Post \/ Posted \/ Wait \/ CloseSemaphore \/ ClosePort

Next ==
  \/ OpenAgain \/ OpenStep
  \/ Close \/ PostFail \/ CloseStep
  \/ \E s \in Sessions, n \in Handles : Complete(s, n)
  \/ \E t \in Pool : WorkerStep(t)

\* The owner's thread and the pool's run, and process_iocp returns.
Fairness ==
  /\ WF_vars(OpenStep) /\ WF_vars(CloseStep)
  /\ \A t \in Pool : WF_vars(WorkerStep(t))

Spec == Init /\ [][Next]_vars /\ Fairness
-----------------------------------------------------------------------------
TypeOK ==
  /\ _thread_count \in Counts
  /\ owner \in {"idle", "start", "post", "wait", "close_sem", "close_port"}
  /\ left \in 0.._thread_count /\ opens \in 0..MaxOpens
  /\ _iocp \in 0..MaxOpens /\ _sem \in 0..MaxOpens
  /\ ports \subseteq Handles /\ sems \subseteq Handles
  /\ packets \in [Handles -> Seq(Sessions \cup {"quit"})]
  /\ count \in [Handles -> 0.._thread_count]
  /\ worker \in [Pool -> [at : {"idle", "entry", "get", "process", "notify", "lost"},
                          port : 0..MaxOpens]]

\* Once close() has waited, no thread it started still serves the port or is in
\* process_iocp: "wait until all threads quit" (iocp.h:84).  What follows frees
\* the handles, and in the destructors the objects those threads use.
AllThreadsQuit ==
  owner \in {"close_sem", "close_port"} \/ (owner = "idle" /\ _iocp = 0) =>
    \A t \in Pool : At(t, "idle")

\* So it is with a single thread, as in iocp_client (iocp_client.h:82).
OneThreadQuits == _thread_count = 1 => AllThreadsQuit

\* The thread releases the semaphore close() waits on, and not one that is not
\* there yet, closed already, or of a later open(): open() starts the thread
\* before it creates the semaphore (iocp.h:67-70).
OneThreadNotifiesOwnClose ==
  _thread_count = 1 =>
    \A t \in Pool : At(t, "notify") => worker[t].port = _sem /\ _sem \in sems

\* A thread always gets to the quit packet, behind whatever I/O is in the port
\* and although more completes meanwhile: close() returns.
CloseReturns == owner = "wait" ~> owner = "idle" /\ _iocp = 0
=============================================================================
