----------------------------- MODULE IocpProofs -----------------------------
(***************************************************************************)
(* A completion port served by a single thread, as iocp_client opens it,   *)
(* is closed only when that thread has ended, however often it is opened,  *)
(* closed in vain and closed again, and however much I/O is in it.         *)
(*                                                                         *)
(* The argument follows close() through its statements: there is either a  *)
(* thread that serves and one quit packet it has yet to take, or a thread  *)
(* that has taken it and no packet, or neither, and only then is the       *)
(* semaphore released.                                                     *)
(***************************************************************************)
EXTENDS Iocp, FiniteSetTheorems, TLAPS

Packets == Sessions \cup {"quit"}
NoQuit(q)  == \A i \in 1..Len(q) : q[i] # "quit"
OneQuit(q) == \E i \in 1..Len(q) : \A j \in 1..Len(q) : q[j] = "quit" <=> j = i

\* The owner is inside open() or close() only when there is a port, and the
\* port was created by one of the calls so far.
TypeInv == /\ TypeOK
           /\ owner # "idle" => _iocp \in Handles
           /\ _iocp <= opens /\ _sem <= opens

\* Where the single thread can be.
Idle      == \A t \in Pool : At(t, "idle")
Only(t)   == \A u \in Pool : u # t => At(u, "idle")
Serves(t) == \/ At(t, "entry")
             \/ worker[t].at \in {"get", "process"} /\ worker[t].port = _iocp
Ends(t)   == At(t, "notify") /\ worker[t].port = _iocp

AThreadServes == \E t \in Pool : Only(t) /\ Serves(t)
AThreadEnds   == \E t \in Pool : Only(t) /\ Ends(t)

Queue   == packets[_iocp]
Serving == AThreadServes /\ NoQuit(Queue) /\ count[_iocp] = 0
Ready   == _sem = _iocp /\ _sem \in sems

\* What close() has set off and not yet waited for.
Ending == \/ AThreadServes /\ OneQuit(Queue) /\ count[_iocp] = 0
          \/ AThreadEnds /\ NoQuit(Queue) /\ count[_iocp] = 0
          \/ Idle /\ NoQuit(Queue)

\* Handles of the calls to come are untouched.
Fresh == \A n \in Handles : n > opens =>
           n \notin ports /\ packets[n] = <<>> /\ count[n] = 0

Phase ==
  /\ owner = "idle" /\ _iocp = 0 => Idle
  /\ owner = "start" /\ left = 1 => Idle /\ NoQuit(Queue) /\ count[_iocp] = 0
  /\ owner = "start" /\ left = 0 => Serving
  /\ owner = "idle" /\ _iocp # 0 => Ready /\ Serving
  /\ owner = "post" /\ left = 1 => Ready /\ Serving
  /\ owner = "post" /\ left = 0 => Ready /\ Ending
  /\ owner = "wait" => Ready /\ Ending
  /\ owner \in {"close_sem", "close_port"} => Idle

OneThread == (_iocp # 0 => _iocp \in ports) /\ Fresh /\ Phase

Inv == TypeInv /\ (_thread_count = 1 => OneThread)
-----------------------------------------------------------------------------
(* The quit packet in a queue.                                             *)

LEMMA AppendQuit ==
  ASSUME NEW q \in Seq(Packets), NoQuit(q)
  PROVE  OneQuit(Append(q, "quit"))
<1> DEFINE r == Append(q, "quit")
<1>1. Len(r) = Len(q) + 1 /\ Len(q) \in Nat /\ r[Len(q) + 1] = "quit"
        /\ \A i \in 1..Len(q) : r[i] = q[i]
  OBVIOUS
<1>2. \A j \in 1..Len(r) : r[j] = "quit" <=> j = Len(q) + 1
  BY <1>1 DEF NoQuit
<1>3. Len(q) + 1 \in 1..Len(r)
  BY <1>1
<1> QED  BY <1>2, <1>3 DEF OneQuit

LEMMA AppendSession ==
  ASSUME NEW q \in Seq(Packets), NEW s \in Sessions
  PROVE  /\ NoQuit(q) => NoQuit(Append(q, s))
         /\ OneQuit(q) => OneQuit(Append(q, s))
<1> DEFINE r == Append(q, s)
<1>1. Len(r) = Len(q) + 1 /\ Len(q) \in Nat /\ r[Len(q) + 1] = s
        /\ \A i \in 1..Len(q) : r[i] = q[i]
  BY DEF Packets
<1>2. s # "quit"
  BY IocpAssumption
<1>3. NoQuit(q) => NoQuit(r)
  BY <1>1, <1>2 DEF NoQuit
<1>4. ASSUME OneQuit(q) PROVE OneQuit(r)
  <2>1. PICK i \in 1..Len(q) : \A j \in 1..Len(q) : q[j] = "quit" <=> j = i
    BY <1>4 DEF OneQuit
  <2>2. i \in 1..Len(r) /\ \A j \in 1..Len(r) : r[j] = "quit" <=> j = i
    BY <1>1, <1>2, <2>1
  <2> QED  BY <2>2 DEF OneQuit
<1> QED  BY <1>3, <1>4

LEMMA TailOfQueue ==
  ASSUME NEW q \in Seq(Packets), q # <<>>
  PROVE  /\ Tail(q) \in Seq(Packets)
         /\ NoQuit(q) => Head(q) # "quit" /\ NoQuit(Tail(q))
         /\ OneQuit(q) /\ Head(q) = "quit" => NoQuit(Tail(q))
         /\ OneQuit(q) /\ Head(q) # "quit" => OneQuit(Tail(q))
<1> DEFINE r == Tail(q)
<1>1. /\ r \in Seq(Packets) /\ Len(r) \in Nat /\ Len(q) = Len(r) + 1
      /\ Head(q) = q[1] /\ \A i \in 1..Len(r) : r[i] = q[i + 1]
  OBVIOUS
<1>2. NoQuit(q) => Head(q) # "quit" /\ NoQuit(r)
  BY <1>1 DEF NoQuit
<1>3. ASSUME OneQuit(q)
      PROVE  /\ Head(q) = "quit" => NoQuit(r)
             /\ Head(q) # "quit" => OneQuit(r)
  <2>1. PICK i \in 1..Len(q) : \A j \in 1..Len(q) : q[j] = "quit" <=> j = i
    BY <1>3 DEF OneQuit
  <2>2. Head(q) = "quit" => i = 1
    BY <1>1, <2>1
  <2>3. Head(q) = "quit" => NoQuit(r)
    BY <1>1, <2>1, <2>2 DEF NoQuit
  <2>4. Head(q) # "quit" =>
          i - 1 \in 1..Len(r) /\ \A j \in 1..Len(r) : r[j] = "quit" <=> j = i - 1
    BY <1>1, <2>1
  <2> QED  BY <2>3, <2>4 DEF OneQuit
<1> QED  BY <1>1, <1>2, <1>3
-----------------------------------------------------------------------------
(* Typing.                                                                 *)

LEMMA CountsPositive == Counts \subseteq Nat \ {0}
<1>1. Cardinality(Pool) \in Nat
  BY IocpAssumption, FS_CardinalityType
<1> QED  BY <1>1, IocpAssumption

LEMMA InitInv == Init => Inv
<1> SUFFICES ASSUME Init PROVE Inv
  OBVIOUS
<1> USE IocpAssumption, CountsPositive
<1>1. TypeInv
  BY DEF Init, TypeInv, TypeOK, Handles, Resting
<1>2. OneThread
  <2>1. Idle
    BY DEF Init, Idle, At, Resting
  <2> QED  BY <2>1 DEF Init, OneThread, Fresh, Phase, Handles
<1> QED  BY <1>1, <1>2 DEF Inv

LEMMA TypeStep ==
  ASSUME TypeInv, [Next]_vars
  PROVE  TypeInv'
<1> DEFINE QueueOK == packets' \in [Handles -> Seq(Sessions \cup {"quit"})]
           CountOK == count' \in [Handles -> 0.._thread_count]
           ThreadOK == worker' \in
             [Pool -> [at : {"idle", "entry", "get", "process", "notify", "lost"},
                       port : 0..MaxOpens]]
<1>0. _thread_count \in Nat \ {0} /\ MaxOpens \in Nat
  BY IocpAssumption, CountsPositive DEF TypeInv, TypeOK
<1> USE <1>0 DEF TypeInv, TypeOK, Handles, calls, handles
<1>1. CASE OpenAgain
  BY <1>1 DEF OpenAgain, Open
<1>2. ASSUME NEW t \in Pool, StartWorker(t) PROVE TypeInv'
  <2> DEFINE r == [worker[t] EXCEPT !.at = "entry"]
  <2>1. r \in [at : {"idle", "entry", "get", "process", "notify", "lost"},
               port : 0..MaxOpens]
    OBVIOUS
  <2>2. ThreadOK
    BY <1>2, <2>1 DEF StartWorker, Goto
  <2>3. left' \in 0.._thread_count
    BY <1>2 DEF StartWorker
  <2>4. UNCHANGED <<handles, _thread_count, owner, opens, packets, count>>
    BY <1>2 DEF StartWorker
  <2> HIDE DEF r
  <2> QED  BY <2>2, <2>3, <2>4
<1>3. CASE CreateSemaphore
  BY <1>3 DEF CreateSemaphore
<1>4. CASE Close
  <2>1. left' \in 0.._thread_count /\ _iocp \in Handles
    BY <1>4 DEF Close
  <2>2. /\ owner' = "post" /\ UNCHANGED handles
        /\ UNCHANGED <<_thread_count, opens, packets, count, worker>>
    BY <1>4 DEF Close
  <2> QED  BY <2>1, <2>2
<1>5. CASE Post
  <2>1. QueueOK
    BY <1>5 DEF Post
  <2>2. left' \in 0.._thread_count
    BY <1>5 DEF Post
  <2>3. UNCHANGED <<handles, _thread_count, owner, opens, count, worker>>
    BY <1>5 DEF Post
  <2> QED  BY <2>1, <2>2, <2>3
<1>6. CASE PostFail
  BY <1>6 DEF PostFail
<1>7. CASE Posted
  BY <1>7 DEF Posted
<1>8. CASE Wait
  <2>1. CASE _sem \in Handles
    <3>1. count[_sem] - 1 \in 0.._thread_count
      BY <1>8, <2>1 DEF Wait
    <3>2. CountOK
      BY <1>8, <3>1 DEF Wait
    <3> QED  BY <1>8, <3>2 DEF Wait
  <2>2. CASE _sem \notin Handles
    <3>1. CountOK
      BY <1>8, <2>2 DEF Wait
    <3> QED  BY <1>8, <3>1 DEF Wait
  <2> QED  BY <2>1, <2>2
<1>9. CASE CloseSemaphore
  <2>1. count' = [count EXCEPT ![_sem] = 0] /\ 0 \in 0.._thread_count
    BY <1>9 DEF CloseSemaphore
  <2>2. CountOK
    BY <2>1
  <2> QED  BY <1>9, <2>2 DEF CloseSemaphore
<1>10. CASE ClosePort
  <2>1. QueueOK
    BY <1>10 DEF ClosePort
  <2>2. /\ owner' = "idle" /\ _iocp' = 0 /\ ports' \subseteq ports
        /\ UNCHANGED <<_thread_count, left, opens, _sem, sems, count, worker>>
    BY <1>10 DEF ClosePort
  <2>3. /\ _iocp' \in 0..MaxOpens /\ _iocp' <= opens'
        /\ _sem' \in 0..MaxOpens /\ _sem' <= opens' /\ opens' \in 0..MaxOpens
    BY <2>2
  <2>4. ports' \subseteq 1..MaxOpens /\ sems' \subseteq 1..MaxOpens /\ ThreadOK
    BY <2>2
  <2>5. count' \in [1..MaxOpens -> 0.._thread_count']
    BY <2>2
  <2>6. _thread_count' \in Counts /\ left' \in 0.._thread_count'
    BY <2>2
  <2> QED  BY <2>1, <2>2, <2>3, <2>4, <2>5, <2>6, Zenon
<1>11. ASSUME NEW s \in Sessions, NEW n \in Handles, Complete(s, n) PROVE TypeInv'
  <2>1. QueueOK
    BY <1>11 DEF Complete
  <2> QED  BY <1>11, <2>1 DEF Complete
<1>12. ASSUME NEW t \in Pool, Enter(t) PROVE TypeInv'
  BY <1>12 DEF Enter, At
<1>13. ASSUME NEW t \in Pool, Get(t) PROVE TypeInv'
  BY <1>13, TailOfQueue DEF Get, Goto, At, Packets
<1>14. ASSUME NEW t \in Pool, GetFail(t) PROVE TypeInv'
  BY <1>14 DEF GetFail, Goto, At
<1>15. ASSUME NEW t \in Pool, Processed(t) PROVE TypeInv'
  BY <1>15 DEF Processed, Goto, At
<1>16. ASSUME NEW t \in Pool, NotifyThreadQuit(t) PROVE TypeInv'
  <2>1. ThreadOK
    BY <1>16 DEF NotifyThreadQuit, Resting
  <2>2. CASE _sem \in sems /\ count[_sem] < _thread_count
    <3>1. count[_sem] + 1 \in 0.._thread_count
      BY <2>2
    <3>2. CountOK
      BY <1>16, <2>2, <3>1 DEF NotifyThreadQuit
    <3> QED  BY <1>16, <2>1, <3>2 DEF NotifyThreadQuit
  <2>3. CASE ~(_sem \in sems /\ count[_sem] < _thread_count)
    BY <1>16, <2>1, <2>3 DEF NotifyThreadQuit
  <2> QED  BY <2>2, <2>3
<1>17. CASE UNCHANGED vars
  BY <1>17 DEF vars
<1> QED
  BY <1>1, <1>2, <1>3, <1>4, <1>5, <1>6, <1>7, <1>8, <1>9, <1>10, <1>11, <1>12,
     <1>13, <1>14, <1>15, <1>16, <1>17
  DEF Next, OpenStep, CloseStep, WorkerStep
-----------------------------------------------------------------------------
(* One thread.                                                             *)

LEMMA OneThreadStep ==
  ASSUME TypeInv, TypeInv', _thread_count = 1, OneThread, [Next]_vars
  PROVE  OneThread'
<1> USE IocpAssumption DEF calls, handles
<1>1. CASE OpenAgain
  BY <1>1 DEF OpenAgain, Open, OneThread, TypeInv, TypeOK, Handles, Fresh, Phase, Idle, At,
              NoQuit, Queue
<1>2. ASSUME NEW t \in Pool, StartWorker(t) PROVE OneThread'
  BY <1>2 DEF StartWorker, Goto, OneThread, TypeInv, TypeOK, Handles, Fresh,
              Phase, Idle, At, NoQuit, Queue, Serving, AThreadServes, Only, Serves
<1>3. CASE CreateSemaphore
  BY <1>3 DEF CreateSemaphore, OneThread, TypeInv, TypeOK, Handles, Fresh, Phase,
              Idle, At, NoQuit, Queue, Serving, AThreadServes, Only, Serves, Ready
<1>4. CASE Close
  BY <1>4 DEF Close, OneThread, TypeInv, TypeOK, Handles, Fresh, Phase,
              Idle, At, NoQuit, Queue, Serving, AThreadServes, Only, Serves, Ready
<1>5. CASE Post
  <2>1. OneQuit(Queue')
    BY <1>5, AppendQuit DEF Post, OneThread, TypeInv, TypeOK, Handles, Phase, Queue,
                            Serving, Packets
  <2>2. left = 1 /\ Ready /\ AThreadServes /\ count[_iocp] = 0
    BY <1>5 DEF Post, OneThread, TypeInv, TypeOK, Phase, Serving
  <2>3. UNCHANGED <<worker, _iocp, count, owner, opens, ports, sems, _sem>>
    BY <1>5 DEF Post
  <2>4. AThreadServes'
    BY <2>2, <2>3, Zenon DEF AThreadServes, Only, Serves, At
  <2>5. Ready' /\ Ending'
    BY <2>1, <2>2, <2>3, <2>4 DEF Ready, Ending
  <2>6. Fresh'
    BY <1>5, <2>3 DEF Post, OneThread, TypeInv, TypeOK, Handles, Fresh
  <2>7. Phase'
    BY <1>5, <2>2, <2>5 DEF Post, Phase
  <2> QED
    BY <2>3, <2>6, <2>7 DEF OneThread
<1>6. CASE PostFail
  BY <1>6 DEF PostFail, OneThread, TypeInv, TypeOK, Handles, Fresh, Phase,
              Idle, At, NoQuit, Queue, Serving, AThreadServes, Only, Serves, Ready
<1>7. CASE Posted
  <2>1. Ready /\ Ending
    BY <1>7 DEF Posted, OneThread, Phase
  <2>2. UNCHANGED <<worker, _iocp, _sem, count, packets, opens, ports, sems>>
    BY <1>7 DEF Posted
  <2>3. (AThreadServes <=> AThreadServes') /\ (AThreadEnds <=> AThreadEnds')
    BY <2>2, Zenon DEF AThreadServes, AThreadEnds, At, Only, Serves, Ends
  <2>4. (Idle <=> Idle') /\ Queue' = Queue
    BY <2>2 DEF Idle, At, Queue
  <2>5. Ready' /\ Ending'
    BY <2>1, <2>2, <2>3, <2>4 DEF Ready, Ending
  <2>6. Phase'
    BY <1>7, <2>5 DEF Posted, Phase
  <2>7. Fresh'
    BY <2>2, Zenon DEF OneThread, Fresh
  <2> QED
    BY <2>2, <2>6, <2>7, Zenon DEF OneThread
<1>8. CASE Wait
  <2>0. Ready /\ Ending /\ count[_sem] > 0
    BY <1>8 DEF Wait, OneThread, Phase
  <2>1. Ready /\ Ending /\ _sem \in Handles /\ count[_sem] > 0 /\ _iocp <= opens
    BY <2>0 DEF Ready, TypeInv, TypeOK
  <2>2. Idle
    BY <2>1 DEF Ready, Ending
  <2>3. Idle'
    BY <1>8, <2>2 DEF Wait, Idle, At
  <2>4. Fresh'
    BY <1>8, <2>1 DEF Wait, Ready, OneThread, Fresh, TypeInv, TypeOK, Handles
  <2> QED
    BY <1>8, <2>3, <2>4 DEF Wait, OneThread, Phase
<1>9. CASE CloseSemaphore
  BY <1>9 DEF CloseSemaphore, OneThread, TypeInv, TypeOK, Handles, Fresh, Phase,
              Idle, At
<1>10. CASE ClosePort
  BY <1>10 DEF ClosePort, OneThread, TypeInv, TypeOK, Handles, Fresh, Phase,
              Idle, At
<1>11. ASSUME NEW s \in Sessions, NEW n \in Handles, Complete(s, n)
       PROVE  OneThread'
  <2>1. packets[n] \in Seq(Packets) /\ n <= opens
    BY <1>11 DEF Complete, TypeInv, TypeOK, Packets, OneThread, Fresh, Handles
  <2>2. _iocp # 0 => /\ NoQuit(Queue) => NoQuit(Queue')
                     /\ OneQuit(Queue) => OneQuit(Queue')
    <3>1. CASE _iocp = n
      <4>1. Queue' = Append(Queue, s)
        BY <1>11, <3>1 DEF Complete, Queue, TypeInv, TypeOK
      <4> QED  BY <4>1, <2>1, <3>1, AppendSession DEF Queue
    <3>2. CASE _iocp # n
      <4>1. _iocp # 0 => Queue' = Queue
        BY <1>11, <3>2 DEF Complete, Queue, TypeInv, TypeOK, Handles
      <4> QED  BY <4>1
    <3> QED  BY <3>1, <3>2
  <2>3. Fresh'
    BY <1>11, <2>1 DEF Complete, OneThread, Fresh, TypeInv, TypeOK, Handles
  <2>4. owner # "idle" => _iocp # 0
    BY DEF TypeInv, Handles
  <2> QED
    BY <1>11, <2>2, <2>3, <2>4
    DEF Complete, OneThread, Phase, Idle, At, Serving, Ready, Ending,
        AThreadServes, AThreadEnds, Only, Serves, Ends
<1>12. ASSUME NEW t \in Pool, Enter(t) PROVE OneThread'
  <2>1. Idle \/ AThreadEnds => FALSE
    BY <1>12 DEF Enter, Idle, AThreadEnds, Only, Ends, At
  <2>2. AThreadServes => AThreadServes'
    BY <1>12 DEF Enter, AThreadServes, Only, Serves, At, TypeInv, TypeOK
  <2> QED
    BY <1>12, <2>1, <2>2
    DEF Enter, OneThread, Fresh, Phase, Serving, Ready, Ending, Queue
<1>13. ASSUME NEW t \in Pool, Get(t) PROVE OneThread'
  <2> DEFINE n == worker[t].port
  <2>1. ~Idle /\ ~AThreadEnds /\ n \in Handles /\ packets[n] # <<>>
    BY <1>13 DEF Get, Idle, AThreadEnds, Only, Ends, At, TypeInv, TypeOK
  <2>2. AThreadServes => n = _iocp
    BY <1>13 DEF Get, AThreadServes, Only, Serves, At
  <2>3. Fresh'
    BY <1>13, <2>1 DEF Get, OneThread, Fresh, TypeInv, TypeOK, Handles
  <2>4. AThreadServes /\ Head(packets[n]) = "quit" => AThreadEnds'
    BY <1>13, <2>2 DEF Get, Goto, AThreadServes, AThreadEnds, Only, Serves, Ends, At,
                       TypeInv, TypeOK
  <2>5. AThreadServes /\ Head(packets[n]) # "quit" => AThreadServes'
    BY <1>13, <2>2 DEF Get, Goto, AThreadServes, Only, Serves, At, TypeInv, TypeOK
  <2>6. AThreadServes =>
          /\ NoQuit(Queue) => Head(Queue) # "quit" /\ NoQuit(Queue')
          /\ OneQuit(Queue) /\ Head(Queue) = "quit" => NoQuit(Queue')
          /\ OneQuit(Queue) /\ Head(Queue) # "quit" => OneQuit(Queue')
    BY <1>13, <2>1, <2>2, TailOfQueue
    DEF Get, Queue, TypeInv, TypeOK, Packets, Handles
  <2> HIDE DEF n
  <2> QED
    BY <1>13, <2>1, <2>2, <2>3, <2>4, <2>5, <2>6
    DEF Get, OneThread, Phase, Serving, Ready, Ending, Queue
<1>14. ASSUME NEW t \in Pool, GetFail(t) PROVE OneThread'
  <2>1. ~Idle /\ ~AThreadEnds
    BY <1>14 DEF GetFail, Idle, AThreadEnds, Only, Ends, At
  <2>2. ~AThreadServes \/ _iocp = 0
    BY <1>14 DEF GetFail, AThreadServes, Only, Serves, At, OneThread
  <2> QED
    BY <1>14, <2>1, <2>2
    DEF GetFail, OneThread, Fresh, Phase, Serving, Ready, Ending, Queue, TypeInv, Handles
<1>15. ASSUME NEW t \in Pool, Processed(t) PROVE OneThread'
  <2>1. ~Idle /\ ~AThreadEnds
    BY <1>15 DEF Processed, Idle, AThreadEnds, Only, Ends, At
  <2>2. AThreadServes => AThreadServes'
    BY <1>15 DEF Processed, Goto, AThreadServes, Only, Serves, At, TypeInv, TypeOK
  <2> QED
    BY <1>15, <2>1, <2>2
    DEF Processed, OneThread, Fresh, Phase, Serving, Ready, Ending, Queue
<1>16. ASSUME NEW t \in Pool, NotifyThreadQuit(t) PROVE OneThread'
  <2>1. ~Idle /\ ~AThreadServes
    BY <1>16 DEF NotifyThreadQuit, Idle, AThreadServes, Only, Serves, At
  <2>2. AThreadEnds => Idle'
    BY <1>16 DEF NotifyThreadQuit, AThreadEnds, Only, Ends, Idle, At, Resting,
                 TypeInv, TypeOK
  <2>3. owner \in {"post", "wait"} => _sem = _iocp /\ _sem \in Handles
    BY <2>1 DEF OneThread, Phase, Ready, Serving, TypeInv, TypeOK
  <2>4. owner \in {"post", "wait"} => Fresh'
    BY <1>16, <2>3 DEF NotifyThreadQuit, OneThread, Fresh, TypeInv, TypeOK, Handles
  <2> QED
    BY <1>16, <2>1, <2>2, <2>3, <2>4
    DEF NotifyThreadQuit, OneThread, Phase, Serving, Ready, Ending, Queue, TypeInv, TypeOK
<1>17. CASE UNCHANGED vars
  BY <1>17 DEF vars, OneThread, Fresh, Phase, Idle, At, Serving, Ready, Ending,
               Queue, AThreadServes, AThreadEnds, Only, Serves, Ends
<1> QED
  BY <1>1, <1>2, <1>3, <1>4, <1>5, <1>6, <1>7, <1>8, <1>9, <1>10, <1>11, <1>12,
     <1>13, <1>14, <1>15, <1>16, <1>17
  DEF Next, OpenStep, CloseStep, WorkerStep
-----------------------------------------------------------------------------
LEMMA Invariance == Spec => []Inv
<1>1. Inv /\ [Next]_vars => Inv'
  <2> SUFFICES ASSUME Inv, [Next]_vars PROVE Inv'
    OBVIOUS
  <2>1. TypeInv'
    BY TypeStep DEF Inv
  <2>2. _thread_count' = _thread_count
    BY DEF Next, vars, calls, OpenStep, CloseStep, WorkerStep, OpenAgain, Open, StartWorker,
           CreateSemaphore, Close, Post, PostFail, Posted, Wait, CloseSemaphore,
           ClosePort, Complete, Enter, Get, GetFail, Processed, NotifyThreadQuit
  <2>3. _thread_count = 1 => OneThread'
    BY <2>1, OneThreadStep DEF Inv
  <2> QED  BY <2>1, <2>2, <2>3 DEF Inv
<1> QED  BY <1>1, InitInv, PTL DEF Spec

\* Whatever the pool, the thread counts and the number of opens, the members and
\* handles of an iocp have their types; in particular no semaphore is ever
\* released above the maximum CreateSemaphore gave it.
THEOREM TypesHold == Spec => []TypeOK
<1>1. Inv => TypeOK
  BY DEF Inv, TypeInv
<1> QED  BY <1>1, Invariance, PTL

\* iocp::close() with one thread (iocp.h:74-91) closes its handles only when that
\* thread has ended, as the comment at iocp.h:84 promises of every close().
THEOREM OneThreadHasQuit == Spec => []OneThreadQuits
<1>1. Inv => OneThreadQuits
  BY DEF Inv, OneThread, Phase, OneThreadQuits, AllThreadsQuit, Idle
<1> QED  BY <1>1, Invariance, PTL

\* notify_thread_quit() reads _thread_semaphore when the thread ends, although
\* open() creates it after starting the thread (iocp.h:67-70, 93-95): a single
\* thread always finds the semaphore of the open() that started it.
THEOREM OneThreadNotifiesIt == Spec => []OneThreadNotifiesOwnClose
<1>1. Inv => OneThreadNotifiesOwnClose
  <2> SUFFICES ASSUME Inv, _thread_count = 1, NEW t \in Pool, At(t, "notify")
               PROVE  worker[t].port = _sem /\ _sem \in sems
    BY DEF OneThreadNotifiesOwnClose
  <2>1. ~Idle /\ ~AThreadServes /\ (AThreadEnds => Ends(t))
    BY DEF Idle, AThreadServes, AThreadEnds, Only, Serves, Ends, At
  <2>2. Ready /\ AThreadEnds
    BY <2>1 DEF Inv, TypeInv, TypeOK, OneThread, Phase, Serving, Ending
  <2> QED  BY <2>1, <2>2 DEF Ready, Ends
<1> QED  BY <1>1, Invariance, PTL
=============================================================================
