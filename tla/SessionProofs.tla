---------------------------- MODULE SessionProofs ----------------------------
(***************************************************************************)
(* Proofs about Session, for any number of sessions and workers: the types,*)
(* for any application, and that a session has one activity at a time, for *)
(* a half-duplex one.                                                      *)
(***************************************************************************)
EXTENDS Session, TLAPS

Thread == [at : Labels, ses : Sessions \cup {None},
           note : Notes \cup {"none"}, end : BOOLEAN]

\* A thread that is not idle works on a session, and one that is about to
\* announce something knows what.
NoteLabels == {"write_err", "compare", "check", "put"}
ThreadsOK ==
  /\ th \in [Threads -> Thread]
  /\ \A t \in Threads : /\ th[t].at # "idle" => th[t].ses \in Sessions
                        /\ th[t].at \in NoteLabels => th[t].note \in Notes

TaskOK == \/ task = NoTask
          \/ /\ task \in [ses : Sessions, calls : Seq(Calls)]
             /\ task.calls # <<>>

ObjectsOK ==
  /\ life \in [Sessions -> {"none", "live", "deleted"}]
  /\ sock \in [Sessions -> BOOLEAN] /\ link \in [Sessions -> BOOLEAN]
  /\ io \in [Sessions -> SUBSET Kinds]
  /\ recvOp \in [Sessions -> {"recv", "quit"}]
  /\ inbuf \in [Sessions -> {Bad} \cup 0..MaxBatch]
  /\ roomy \in [Sessions -> BOOLEAN]
  /\ err \in [Sessions -> BOOLEAN] /\ dbg \in [Sessions -> BOOLEAN]

QueuesOK ==
  /\ boss \subseteq Sessions
  /\ cq \in Seq([ses : Sessions, olp : Kinds, ok : BOOLEAN])
  /\ q \in Seq([status : Statuses, ses : Sessions])

\* TypeOK made inductive.
TypeInv == ObjectsOK /\ QueuesOK /\ ThreadsOK /\ TaskOK /\ died \in BOOLEAN

LEMMA InvImpliesTypes == TypeInv => TypeOK
<1> SUFFICES ASSUME TypeInv PROVE TypeOK
  OBVIOUS
<1>1. task \in [ses : Sessions \cup {None}, calls : Seq(Calls)]
  <2>1. <<>> \in Seq(Calls)
    OBVIOUS
  <2>2. CASE task = NoTask
    BY <2>1, <2>2 DEF NoTask
  <2>3. CASE task # NoTask
    BY <2>3 DEF TypeInv, TaskOK
  <2>4. QED BY <2>2, <2>3
<1>2. QED
  BY <1>1, Zenon DEF TypeInv, ObjectsOK, QueuesOK, ThreadsOK, Thread, TypeOK

LEMMA HeadTail ==
  ASSUME NEW S, NEW x \in Seq(S), x # <<>>
  PROVE  /\ Head(x) \in S /\ Tail(x) \in Seq(S)
         /\ Len(Tail(x)) = Len(x) - 1
         /\ \A i \in 1..Len(Tail(x)) : Tail(x)[i] = x[i + 1]
         /\ Head(x) = x[1] /\ Len(x) \in Nat \ {0}
OBVIOUS

LEMMA Empty ==
  ASSUME NEW S, NEW x \in Seq(S), Len(x) = 0
  PROVE  x = <<>>
OBVIOUS

LEMMA TailOfOne ==
  ASSUME NEW S, NEW x \in Seq(S), Len(x) = 1
  PROVE  Tail(x) = <<>>
<1>1. x # <<>>
  OBVIOUS
<1>2. Tail(x) \in Seq(S) /\ Len(Tail(x)) = 0
  BY <1>1, HeadTail
<1> QED BY <1>2, Empty

LEMMA AppendOK ==
  ASSUME NEW S, NEW x \in Seq(S), NEW e \in S
  PROVE  /\ Append(x, e) \in Seq(S)
         /\ Len(Append(x, e)) = Len(x) + 1 /\ Len(x) \in Nat
         /\ \A i \in 1..Len(x) : Append(x, e)[i] = x[i]
         /\ Append(x, e)[Len(x) + 1] = e
OBVIOUS

-----------------------------------------------------------------------------
(* What the steps do to th.                                                *)

LEMMA GotoOK ==
  ASSUME ThreadsOK, NEW t \in Threads, NEW label \in Labels,
         th[t].at # "idle", label \in NoteLabels => th[t].note \in Notes,
         Goto(t, label)
  PROVE  ThreadsOK'
BY DEF ThreadsOK, Thread, Goto

LEMMA ReturnOK ==
  ASSUME ThreadsOK, NEW t \in Threads, Return(t)
  PROVE  ThreadsOK'
<1>1. Resting \in Thread /\ Resting.at = "idle"
  BY DEF Resting, Thread, Labels
<1>2. th' = [th EXCEPT ![t] = Resting]
  BY DEF Return
<1>3. "idle" \notin NoteLabels
  BY DEF NoteLabels
<1>4. QED BY <1>1, <1>2, <1>3 DEF ThreadsOK

LEMMA NotifyOK ==
  ASSUME ThreadsOK, NEW t \in Threads, NEW st \in Notes, NEW end \in BOOLEAN,
         th[t].at # "idle", Notify(t, st, end)
  PROVE  ThreadsOK'
<1> DEFINE r == [th[t] EXCEPT !.at = "check", !.note = st, !.end = end]
<1>1. th[t] \in Thread /\ th[t].ses \in Sessions
  BY DEF ThreadsOK
<1>2. "check" \in Labels
  BY DEF Labels
<1>3. r \in Thread /\ r.ses \in Sessions /\ r.note \in Notes
  BY <1>1, <1>2 DEF Thread
<1>4. th' = [th EXCEPT ![t] = r]
  BY DEF Notify
<1>5. QED
  BY <1>3, <1>4 DEF ThreadsOK

LEMMA AfterNotifyOK ==
  ASSUME ThreadsOK, NEW t \in Threads, th[t].at # "idle", AfterNotify(t)
  PROVE  ThreadsOK'
BY GotoOK, ReturnOK DEF AfterNotify, Labels, Closing, NoteLabels

LEMMA LoopStartOK ==
  ASSUME ThreadsOK, NEW s \in Sessions, NEW label \in Labels \ NoteLabels,
         LoopStart(s, label)
  PROVE  ThreadsOK'
<1> DEFINE r == [th[Loop] EXCEPT !.at = label, !.ses = s]
<1>1. Loop \in Threads /\ th[Loop] \in Thread
  BY DEF ThreadsOK, Threads
<1>2. r \in Thread /\ r.ses \in Sessions /\ r.at = label
  BY <1>1 DEF Thread
<1>3. th' = [th EXCEPT ![Loop] = r]
  BY DEF LoopStart
<1>4. QED
  BY <1>1, <1>2, <1>3 DEF ThreadsOK

-----------------------------------------------------------------------------
(* Every step preserves TypeInv.  "Step" is what any working thread may do. *)

LEMMA ParseOK ==
  ASSUME TypeInv, NEW t \in Threads, Parse(t)
  PROVE  TypeInv'
<1> DEFINE s == th[t].ses
<1>1. s \in Sessions /\ th[t].at # "idle"
  BY DEF Parse, Runs, At, TypeInv, ThreadsOK
<1>2. UNCHANGED <<life, sock, link, io, recvOp, roomy, err, dbg, boss, cq, q, task>>
  BY DEF Parse, sharedVars
<1>3. QueuesOK' /\ TaskOK'
  BY <1>2, Zenon DEF TypeInv, QueuesOK, TaskOK
<1>4. \/ inbuf' = inbuf
      \/ \E n \in Consumed(inbuf[s]) : inbuf' = [inbuf EXCEPT ![s] = n] /\ inbuf[s] > 0
  BY DEF Parse
<1>5. inbuf' \in [Sessions -> {Bad} \cup 0..MaxBatch]
  BY <1>1, <1>4, SessionAssumption DEF TypeInv, ObjectsOK, Consumed, Bad
<1>6. ObjectsOK'
  BY <1>2, <1>5, Zenon DEF TypeInv, ObjectsOK
<1>7. ThreadsOK'
  <2>1. \/ \E st \in Notes : Notify(t, st, FALSE)
        \/ Goto(t, "WSARecv")
    BY DEF Parse, Notes
  <2>2. QED
    BY <1>1, <2>1, GotoOK, NotifyOK DEF TypeInv, Labels, NoteLabels
<1>8. died' \in BOOLEAN
  BY SessionAssumption DEF Parse, TypeInv
<1>9. QED
  BY <1>3, <1>6, <1>7, <1>8 DEF TypeInv

LEMMA IssueOK ==
  ASSUME TypeInv, NEW t \in Threads, Issue(t)
  PROVE  TypeInv'
<1> DEFINE s == th[t].ses
<1> DEFINE r(refused, e) ==
             [th[t] EXCEPT !.at = "write_err", !.end = refused, !.note = e]
<1>1. s \in Sessions /\ th[t].at # "idle"
  BY DEF Issue, Runs, At, TypeInv, ThreadsOK
<1>2. UNCHANGED <<life, sock, link, inbuf, roomy, err, dbg, boss, cq, q, task, died>>
  BY DEF Issue, sharedVars
<1>3. QueuesOK' /\ TaskOK' /\ died' \in BOOLEAN
  BY <1>2, Zenon DEF TypeInv, QueuesOK, TaskOK
<1>4. \/ io' = io
      \/ \E k \in Kinds : io' = [io EXCEPT ![s] = @ \cup {k}]
  BY DEF Issue, Kinds
<1>5. io' \in [Sessions -> SUBSET Kinds]
  BY <1>1, <1>4 DEF TypeInv, ObjectsOK
<1>6. recvOp' = recvOp \/ recvOp' = [recvOp EXCEPT ![s] = "recv"]
  BY DEF Issue
<1>7. recvOp' \in [Sessions -> {"recv", "quit"}]
  BY <1>1, <1>6 DEF TypeInv, ObjectsOK
<1>8. ObjectsOK'
  BY <1>2, <1>5, <1>7, Zenon DEF TypeInv, ObjectsOK
<1>9. \/ Return(t)
      \/ \E refused \in BOOLEAN, e \in Errors : th' = [th EXCEPT ![t] = r(refused, e)]
  BY DEF Issue, Errors
<1>10. ThreadsOK'
  <2>1. CASE Return(t)
    BY <2>1, ReturnOK DEF TypeInv
  <2>2. ASSUME NEW refused \in BOOLEAN, NEW e \in Errors,
               th' = [th EXCEPT ![t] = r(refused, e)]
        PROVE  ThreadsOK'
    <3>1. r(refused, e) \in Thread /\ r(refused, e).ses \in Sessions
          /\ r(refused, e).note \in Notes
      <4>1. th[t] \in Thread /\ "write_err" \in Labels /\ e \in Notes
        BY DEF TypeInv, ThreadsOK, Labels, Notes
      <4>2. QED BY <1>1, <4>1 DEF Thread
    <3>2. QED BY <2>2, <3>1 DEF TypeInv, ThreadsOK
  <2>3. QED BY <1>9, <2>1, <2>2
<1>11. QED
  BY <1>3, <1>8, <1>10 DEF TypeInv

LEMMA AppendPackageOK ==
  ASSUME QueuesOK, NEW st \in Statuses, NEW s \in Sessions,
         q' = Append(q, Package(st, s)), UNCHANGED <<boss, cq>>
  PROVE  QueuesOK'
<1>1. Package(st, s) \in [status : Statuses, ses : Sessions]
  BY DEF Package
<1>2. q' \in Seq([status : Statuses, ses : Sessions])
  BY <1>1 DEF QueuesOK
<1>3. QED BY <1>2 DEF QueuesOK

LEMMA StepOK ==
  ASSUME TypeInv, NEW t \in Threads, Step(t)
  PROVE  TypeInv'
<1> DEFINE s == th[t].ses
<1>0. ThreadsOK /\ QueuesOK /\ ObjectsOK /\ TaskOK /\ died \in BOOLEAN
  BY DEF TypeInv
<1>a. \A label \in Labels : Runs(t, label) /\ label # "idle" => s \in Sessions /\ th[t].at # "idle"
  BY <1>0 DEF Runs, At, ThreadsOK
<1>b. /\ {"write_err", "compare", "check", "put", "assert"} \subseteq Labels
      /\ Closing \subseteq Labels
      /\ Closing = {"close", "announce", "remove", "mark"}
  BY DEF Labels, Closing
<1>c. \A l \in NoteLabels : Runs(t, l) => th[t].note \in Notes
  BY <1>0 DEF Runs, At, ThreadsOK
<1>d. \A l \in Closing \cup {"assert"} : l \notin NoteLabels
  BY <1>b DEF NoteLabels
<1>1. CASE Parse(t)
  BY <1>1, ParseOK
<1>2. CASE Issue(t)
  BY <1>2, IssueOK
<1>3. CASE WriteErr(t)
  <2>1. s \in Sessions /\ th[t].at # "idle" /\ th[t].note \in Notes
    BY <1>3, <1>a, <1>b, <1>c DEF WriteErr, NoteLabels
  <2>2. ThreadsOK'
    BY <1>0, <1>3, <1>b, <2>1, GotoOK DEF WriteErr
  <2>3. ObjectsOK'
    BY <1>0, <1>3, <2>1 DEF WriteErr, ObjectsOK, ThreadsOK, Thread
  <2>4. QueuesOK' /\ TaskOK' /\ died' \in BOOLEAN
    BY <1>0, <1>3, Zenon DEF WriteErr, sharedVars, QueuesOK, TaskOK
  <2>5. QED BY <2>2, <2>3, <2>4 DEF TypeInv
<1>4. CASE Compare(t)
  <2>1. s \in Sessions /\ th[t].at # "idle" /\ th[t].note \in Notes
    BY <1>4, <1>a, <1>b, <1>c DEF Compare, NoteLabels
  <2>2. ThreadsOK'
    BY <1>0, <1>4, <2>1, ReturnOK, NotifyOK DEF Compare
  <2>3. ObjectsOK' /\ QueuesOK' /\ TaskOK' /\ died' \in BOOLEAN
    BY <1>0, <1>4, Zenon DEF Compare, objVars, sharedVars, ObjectsOK, QueuesOK, TaskOK
  <2>4. QED BY <2>2, <2>3 DEF TypeInv
<1>5. CASE Check(t)
  <2>1. s \in Sessions /\ th[t].at # "idle" /\ th[t].note \in Notes
    BY <1>5, <1>a, <1>b, <1>c DEF Check, NoteLabels
  <2>2. ThreadsOK'
    BY <1>0, <1>5, <1>b, <2>1, GotoOK, AfterNotifyOK DEF Check
  <2>3. ObjectsOK' /\ QueuesOK' /\ TaskOK' /\ died' \in BOOLEAN
    BY <1>0, <1>5, Zenon DEF Check, objVars, sharedVars, ObjectsOK, QueuesOK, TaskOK
  <2>4. QED BY <2>2, <2>3 DEF TypeInv
<1>6. CASE Put(t)
  <2>1. s \in Sessions /\ th[t].at # "idle" /\ th[t].note \in Statuses
    BY <1>6, <1>a, <1>b, <1>c DEF Put, NoteLabels, Statuses, Handled
  <2>2. ThreadsOK'
    BY <1>0, <1>6, <1>b, <1>d, <2>1, GotoOK DEF Put
  <2>3. QueuesOK'
    BY <1>0, <1>6, <2>1, AppendPackageOK DEF Put
  <2>4. ObjectsOK' /\ TaskOK' /\ died' \in BOOLEAN
    BY <1>0, <1>6, Zenon DEF Put, objVars, ObjectsOK, TaskOK
  <2>5. QED BY <2>2, <2>3, <2>4 DEF TypeInv
<1>7. CASE AssertMark(t)
  <2>1. s \in Sessions /\ th[t].at # "idle"
    BY <1>7, <1>a, <1>b DEF AssertMark
  <2>2. ThreadsOK'
    BY <1>0, <1>7, <2>1, AfterNotifyOK DEF AssertMark
  <2>3. ObjectsOK' /\ QueuesOK' /\ TaskOK'
    BY <1>0, <1>7, Zenon DEF AssertMark, objVars, sharedVars, ObjectsOK, QueuesOK, TaskOK
  <2>4. died' \in BOOLEAN
    BY <1>7 DEF AssertMark
  <2>5. QED BY <2>2, <2>3, <2>4 DEF TypeInv
<1>8. CASE Close(t)
  <2>1. s \in Sessions /\ th[t].at # "idle"
    BY <1>8, <1>a, <1>b DEF Close
  <2>2. ThreadsOK'
    BY <1>0, <1>8, <1>b, <1>d, <2>1, GotoOK DEF Close
  <2>3. ObjectsOK'
    BY <1>0, <1>8, <2>1 DEF Close, ObjectsOK
  <2>4. QueuesOK' /\ TaskOK' /\ died' \in BOOLEAN
    BY <1>0, <1>8, Zenon DEF Close, sharedVars, QueuesOK, TaskOK
  <2>5. QED BY <2>2, <2>3, <2>4 DEF TypeInv
<1>9. CASE Announce(t)
  <2>1. s \in Sessions /\ th[t].at # "idle"
    BY <1>9, <1>a, <1>b DEF Announce
  <2>2. ThreadsOK'
    BY <1>0, <1>9, <1>b, <1>d, <2>1, GotoOK DEF Announce
  <2>3. QueuesOK'
    BY <1>0, <1>9, <2>1, AppendPackageOK DEF Announce, Statuses
  <2>4. ObjectsOK' /\ TaskOK' /\ died' \in BOOLEAN
    BY <1>0, <1>9, Zenon DEF Announce, objVars, ObjectsOK, TaskOK
  <2>5. QED BY <2>2, <2>3, <2>4 DEF TypeInv
<1>10. CASE Remove(t)
  <2>1. s \in Sessions /\ th[t].at # "idle"
    BY <1>10, <1>a, <1>b DEF Remove
  <2>2. ThreadsOK'
    BY <1>0, <1>10, <1>b, <1>d, <2>1, GotoOK DEF Remove
  <2>3. ObjectsOK' /\ TaskOK'
    BY <1>0, <1>10, Zenon DEF Remove, objVars, ObjectsOK, TaskOK
  <2>4. QueuesOK' /\ died' \in BOOLEAN
    BY <1>0, <1>10 DEF Remove, QueuesOK
  <2>5. QED BY <2>2, <2>3, <2>4 DEF TypeInv
<1>11. CASE Mark(t)
  <2>1. s \in Sessions
    BY <1>11, <1>a, <1>b DEF Mark
  <2>2. ThreadsOK'
    BY <1>0, <1>11, ReturnOK DEF Mark
  <2>3. ObjectsOK'
    BY <1>0, <1>11, <2>1 DEF Mark, ObjectsOK
  <2>4. QueuesOK' /\ TaskOK' /\ died' \in BOOLEAN
    BY <1>0, <1>11, Zenon DEF Mark, sharedVars, QueuesOK, TaskOK
  <2>5. QED BY <2>2, <2>3, <2>4 DEF TypeInv
<1>12. QED
  BY <1>1, <1>2, <1>3, <1>4, <1>5, <1>6, <1>7, <1>8, <1>9, <1>10, <1>11
  DEF Step, Notification, Disconected

-----------------------------------------------------------------------------
(* Joining, the kernel, the workers and the loop.                          *)

LEMMA JoinOK ==
  ASSUME TypeInv, JoinStep \/ \E s \in Sessions : JoinNew(s)
  PROVE  TypeInv'
<1>0. ThreadsOK /\ QueuesOK /\ ObjectsOK /\ TaskOK /\ died \in BOOLEAN
  BY DEF TypeInv
<1>1. Joiner \in Threads
  BY DEF Threads
<1>2. ASSUME NEW s \in Sessions, JoinNew(s) PROVE TypeInv'
  <2>1. ObjectsOK'
    BY <1>0, <1>2, Zenon DEF JoinNew, ObjectsOK
  <2>2. ThreadsOK'
    <3> DEFINE r == [th[Joiner] EXCEPT !.at = "associate", !.ses = s]
    <3>1. r \in Thread /\ r.ses \in Sessions /\ r.at \notin NoteLabels
      BY <1>0, <1>1 DEF ThreadsOK, Thread, Labels, NoteLabels
    <3>2. th' = [th EXCEPT ![Joiner] = r]
      BY <1>2 DEF JoinNew
    <3>3. QED BY <1>0, <3>1, <3>2 DEF ThreadsOK
  <2>3. QueuesOK' /\ TaskOK' /\ died' \in BOOLEAN
    BY <1>0, <1>2, Zenon DEF JoinNew, sharedVars, QueuesOK, TaskOK
  <2>4. QED BY <2>1, <2>2, <2>3 DEF TypeInv
<1>3. CASE JoinConnect
  <2>1. th[Joiner].ses \in Sessions /\ th[Joiner].at # "idle"
    BY <1>0, <1>1, <1>3 DEF JoinConnect, Runs, At, ThreadsOK
  <2>2. ThreadsOK'
    <3>1. "push" \in Labels /\ "push" \notin NoteLabels
      BY DEF Labels, NoteLabels
    <3>2. QED BY <1>0, <1>1, <1>3, <2>1, <3>1, GotoOK DEF JoinConnect
  <2>3. QueuesOK'
    BY <1>0, <1>3, <2>1, AppendPackageOK DEF JoinConnect, Statuses, Handled
  <2>4. ObjectsOK' /\ TaskOK' /\ died' \in BOOLEAN
    BY <1>0, <1>3, Zenon DEF JoinConnect, objVars, ObjectsOK, TaskOK
  <2>5. QED BY <2>2, <2>3, <2>4 DEF TypeInv
<1>4. CASE JoinFail
  <2>1. ThreadsOK'
    BY <1>0, <1>1, <1>4, ReturnOK DEF JoinFail
  <2>2. ObjectsOK'
    BY <1>0, <1>4 DEF JoinFail, ObjectsOK
  <2>3. QueuesOK' /\ TaskOK'
    BY <1>0, <1>4, Zenon DEF JoinFail, sharedVars, QueuesOK, TaskOK
  <2>4. died' \in BOOLEAN
    BY <1>4, SessionAssumption DEF JoinFail
  <2>5. QED BY <2>1, <2>2, <2>3, <2>4 DEF TypeInv
<1>5. CASE JoinPush
  <2>1. th[Joiner].ses \in Sessions
    BY <1>0, <1>1, <1>5 DEF JoinPush, Runs, At, ThreadsOK
  <2>2. ThreadsOK'
    BY <1>0, <1>1, <1>5, ReturnOK DEF JoinPush
  <2>3. QueuesOK'
    BY <1>0, <1>5, <2>1 DEF JoinPush, QueuesOK
  <2>4. ObjectsOK' /\ TaskOK' /\ died' \in BOOLEAN
    BY <1>0, <1>5, Zenon DEF JoinPush, objVars, ObjectsOK, TaskOK
  <2>5. QED BY <2>2, <2>3, <2>4 DEF TypeInv
<1>6. QED
  BY <1>2, <1>3, <1>4, <1>5 DEF JoinStep

LEMMA KernelOK ==
  ASSUME TypeInv, NEW s \in Sessions,
         LoseLink(s) \/ \E k \in Kinds : Complete(s, k)
  PROVE  TypeInv'
<1>0. ThreadsOK /\ QueuesOK /\ ObjectsOK /\ TaskOK /\ died \in BOOLEAN
  BY DEF TypeInv
<1>1. CASE LoseLink(s)
  <2>1. ObjectsOK'
    BY <1>0, <1>1 DEF LoseLink, ObjectsOK
  <2>2. ThreadsOK' /\ QueuesOK' /\ TaskOK' /\ died' \in BOOLEAN
    BY <1>0, <1>1, Zenon DEF LoseLink, sharedVars, ThreadsOK, QueuesOK, TaskOK
  <2>3. QED BY <2>1, <2>2 DEF TypeInv
<1>2. ASSUME NEW k \in Kinds, Complete(s, k) PROVE TypeInv'
  <2>1. ObjectsOK'
    BY <1>0, <1>2 DEF Complete, ObjectsOK
  <2>2. Packet(s, k, link[s] /\ sock[s]) \in [ses : Sessions, olp : Kinds, ok : BOOLEAN]
    <3>1. (link[s] /\ sock[s]) \in BOOLEAN
      OBVIOUS
    <3>2. QED BY <3>1, Zenon DEF Packet
  <2>3. cq' = Append(cq, Packet(s, k, link[s] /\ sock[s]))
    BY <1>2, Zenon DEF Complete
  <2>4. cq' \in Seq([ses : Sessions, olp : Kinds, ok : BOOLEAN])
    BY <1>0, <2>2, <2>3 DEF QueuesOK
  <2>5. QueuesOK'
    BY <1>0, <1>2, <2>4, Zenon DEF Complete, QueuesOK
  <2>6. ThreadsOK' /\ TaskOK' /\ died' \in BOOLEAN
    BY <1>0, <1>2, Zenon DEF Complete, ThreadsOK, TaskOK
  <2>7. QED BY <2>1, <2>5, <2>6 DEF TypeInv
<1>3. QED BY <1>1, <1>2

LEMMA WorkerOK ==
  ASSUME TypeInv, NEW w \in Workers, WorkerStep(w)
  PROVE  TypeInv'
<1>0. ThreadsOK /\ QueuesOK /\ ObjectsOK /\ TaskOK /\ died \in BOOLEAN
  BY DEF TypeInv
<1>1. w \in Threads
  BY DEF Threads
<1>2. CASE Dequeue(w)
  <2> DEFINE r == [at |-> IF Head(cq).olp = "send" THEN "send_done" ELSE "recv_done",
                   ses |-> Head(cq).ses, note |-> "none", end |-> ~Head(cq).ok]
  <2>1. /\ Head(cq) \in [ses : Sessions, olp : Kinds, ok : BOOLEAN]
        /\ Tail(cq) \in Seq([ses : Sessions, olp : Kinds, ok : BOOLEAN])
    BY <1>0, <1>2, HeadTail, Zenon DEF Dequeue, QueuesOK
  <2>2. r \in Thread /\ r.ses \in Sessions /\ r.at \notin NoteLabels
    BY <2>1 DEF Thread, Labels, NoteLabels
  <2>3. th' = [th EXCEPT ![w] = r]
    BY <1>2, Zenon DEF Dequeue
  <2>4. ThreadsOK'
    BY <1>0, <1>1, <2>2, <2>3 DEF ThreadsOK
  <2>5. QueuesOK'
    BY <1>0, <1>2, <2>1 DEF Dequeue, QueuesOK
  <2>6. ObjectsOK' /\ TaskOK' /\ died' \in BOOLEAN
    BY <1>0, <1>2, Zenon DEF Dequeue, objVars, ObjectsOK, TaskOK
  <2>7. QED BY <2>4, <2>5, <2>6 DEF TypeInv
<1>3. CASE SendDone(w)
  <2>1. th[w].ses \in Sessions /\ th[w].at # "idle"
    BY <1>0, <1>1, <1>3 DEF SendDone, Runs, At, ThreadsOK
  <2>2. ThreadsOK'
    <3>1. \/ \E st \in Notes, end \in BOOLEAN : Notify(w, st, end)
          \/ Goto(w, "WSASend")
      BY <1>3 DEF SendDone, Notes, Errors
    <3>2. QED
      BY <1>0, <1>1, <2>1, <3>1, GotoOK, NotifyOK DEF Labels, NoteLabels
  <2>3. ObjectsOK'
    BY <1>0, <1>3, <2>1 DEF SendDone, ObjectsOK
  <2>4. QueuesOK' /\ TaskOK' /\ died' \in BOOLEAN
    BY <1>0, <1>3, Zenon DEF SendDone, sharedVars, QueuesOK, TaskOK
  <2>5. QED BY <2>2, <2>3, <2>4 DEF TypeInv
<1>4. CASE RecvDone(w)
  <2>1. th[w].ses \in Sessions /\ th[w].at # "idle"
    BY <1>0, <1>1, <1>4 DEF RecvDone, Runs, At, ThreadsOK
  <2>2. ThreadsOK'
    <3>1. \/ Notify(w, "recv_error", TRUE)
          \/ Goto(w, "close") \/ Goto(w, "parse")
      BY <1>4 DEF RecvDone
    <3>2. "recv_error" \in Notes
      BY DEF Notes, Errors
    <3>3. QED
      BY <1>0, <1>1, <2>1, <3>1, <3>2, GotoOK, NotifyOK DEF Labels, NoteLabels, Closing
  <2>3. \/ inbuf' = inbuf
        \/ \E n \in Received(inbuf[th[w].ses]) :
             inbuf' = [inbuf EXCEPT ![th[w].ses] = n]
    BY <1>4 DEF RecvDone
  <2>4. inbuf' \in [Sessions -> {Bad} \cup 0..MaxBatch]
    BY <1>0, <2>1, <2>3, SessionAssumption DEF ObjectsOK, Received, Bad
  <2>5. err' \in [Sessions -> BOOLEAN]
    BY <1>0, <1>4, <2>1 DEF RecvDone, ObjectsOK
  <2>6. ObjectsOK'
    BY <1>0, <1>4, <2>4, <2>5, Zenon DEF RecvDone, ObjectsOK
  <2>7. QueuesOK' /\ TaskOK' /\ died' \in BOOLEAN
    BY <1>0, <1>4, Zenon DEF RecvDone, sharedVars, QueuesOK, TaskOK
  <2>8. QED BY <2>2, <2>6, <2>7 DEF TypeInv
<1>5. QED
  BY <1>1, <1>2, <1>3, <1>4, StepOK DEF WorkerStep

LEMMA CallingOK ==
  ASSUME NEW s \in Sessions, NEW script \in Seq(Calls), task' = Calling(s, script)
  PROVE  TaskOK'
<1>1. CASE script = <<>>
  BY <1>1, Zenon DEF Calling, TaskOK
<1>2. CASE script # <<>>
  <2>1. task' = [ses |-> s, calls |-> script]
    BY <1>2, Zenon DEF Calling
  <2> QED BY <1>2, <2>1 DEF TaskOK
<1> QED BY <1>1, <1>2

LEMMA LoopOK ==
  ASSUME TypeInv, LoopStep
  PROVE  TypeInv'
<1>0. ThreadsOK /\ QueuesOK /\ ObjectsOK /\ TaskOK /\ died \in BOOLEAN
  BY DEF TypeInv
<1>1. Loop \in Threads
  BY DEF Threads
<1>2. CASE LoopGet
  <2>1. /\ Head(q) \in [status : Statuses, ses : Sessions]
        /\ Tail(q) \in Seq([status : Statuses, ses : Sessions])
    BY <1>0, <1>2, HeadTail, Zenon DEF LoopGet, QueuesOK
  <2> DEFINE st == Head(q).status
             s == Head(q).ses
  <2>2. Handle(st, s)
    BY <1>2 DEF LoopGet
  <2>3. QueuesOK'
    BY <1>0, <1>2, <2>1 DEF LoopGet, QueuesOK
  <2>4. life' \in [Sessions -> {"none", "live", "deleted"}]
    BY <1>0, <2>1, <2>2 DEF Handle, ObjectsOK
  <2>5. ObjectsOK'
    BY <1>0, <1>2, <2>4, Zenon DEF LoopGet, ObjectsOK
  <2>6. TaskOK'
    <3>1. CASE st = "disconnected"
      BY <1>0, <2>2, <3>1 DEF Handle, TaskOK
    <3>2. CASE st # "disconnected"
      <4>1. st \in Handled
        BY <2>1, <3>2 DEF Statuses
      <4>2. PICK script \in App[st] : task' = Calling(s, script)
        BY <2>2, <3>2 DEF Handle
      <4>3. script \in Seq(Calls)
        BY <4>1, SessionAssumption DEF Occasions
      <4>4. QED BY <2>1, <4>2, <4>3, CallingOK
    <3>3. QED BY <3>1, <3>2
  <2>7. ThreadsOK' /\ died' \in BOOLEAN
    BY <1>0, <1>2, Zenon DEF LoopGet, ThreadsOK
  <2>8. QED BY <2>3, <2>5, <2>6, <2>7 DEF TypeInv
<1>3. CASE LoopCall
  <2> DEFINE s == task.ses
  <2>1. /\ s \in Sessions /\ task.calls # <<>> /\ task.calls \in Seq(Calls)
        /\ task \in [ses : Sessions, calls : Seq(Calls)]
    BY <1>0, <1>3 DEF LoopCall, TaskOK
  <2>2. \/ Send(s) \/ (\E big \in BOOLEAN : Recv(s, big)) \/ Quit(s)
    BY <1>3 DEF LoopCall
  <2>3. TaskOK'
    <3>1. Tail(task.calls) \in Seq(Calls)
      BY <2>1, HeadTail
    <3>2. task' = Calling(s, Tail(task.calls))
      BY <1>3, Zenon DEF LoopCall
    <3>3. QED BY <2>1, <3>1, <3>2, CallingOK
  <2>4. ThreadsOK'
    <3>1. \/ \E label \in {"WSASend", "parse"} : LoopStart(s, label)
          \/ th' = th
      BY <2>2 DEF Send, Recv, Quit
    <3>2. {"WSASend", "parse"} \subseteq Labels \ NoteLabels
      BY DEF Labels, NoteLabels
    <3>3. CASE th' = th
      BY <1>0, <3>3, Zenon DEF ThreadsOK
    <3>4. QED BY <1>0, <2>1, <3>1, <3>2, <3>3, LoopStartOK
  <2>5. roomy' \in [Sessions -> BOOLEAN] /\ recvOp' \in [Sessions -> {"recv", "quit"}]
    BY <1>0, <2>1, <2>2 DEF Send, Recv, Quit, ObjectsOK
  <2>6. ObjectsOK'
    BY <1>0, <1>3, <2>5, Zenon DEF LoopCall, ObjectsOK
  <2>7. cq' \in Seq([ses : Sessions, olp : Kinds, ok : BOOLEAN])
    <3>1. Packet(s, "recv", FALSE) \in [ses : Sessions, olp : Kinds, ok : BOOLEAN]
      BY <2>1 DEF Packet, Kinds
    <3>2. cq' = cq \/ cq' = Append(cq, Packet(s, "recv", FALSE))
      BY <2>2 DEF Send, Recv, Quit
    <3>3. cq \in Seq([ses : Sessions, olp : Kinds, ok : BOOLEAN])
      BY <1>0 DEF QueuesOK
    <3>4. Append(cq, Packet(s, "recv", FALSE)) \in Seq([ses : Sessions, olp : Kinds, ok : BOOLEAN])
      BY <3>1, <3>3, AppendOK
    <3>5. QED BY <3>2, <3>3, <3>4
  <2>8. QueuesOK' /\ died' \in BOOLEAN
    BY <1>0, <1>3, <2>7, Zenon DEF LoopCall, QueuesOK
  <2>9. QED BY <2>3, <2>4, <2>6, <2>8 DEF TypeInv
<1>4. CASE LoopRefused
  <2>1. task.ses \in Sessions /\ task.calls # <<>> /\ task.calls \in Seq(Calls)
    BY <1>0, <1>4 DEF LoopRefused, TaskOK
  <2>2. PICK script \in App["refused"] : task' = Calling(task.ses, script \o Tail(task.calls))
    BY <1>4 DEF LoopRefused
  <2>3. script \in Seq(Calls) /\ Tail(task.calls) \in Seq(Calls)
    BY <2>1, HeadTail, SessionAssumption DEF Occasions
  <2>4. script \o Tail(task.calls) \in Seq(Calls)
    BY <2>3
  <2>5. TaskOK'
    BY <2>1, <2>2, <2>4, CallingOK
  <2>6. ObjectsOK' /\ QueuesOK' /\ ThreadsOK'
    BY <1>0, <1>4, Zenon DEF LoopRefused, objVars, sharedVars, ObjectsOK, QueuesOK, ThreadsOK
  <2>7. died' \in BOOLEAN
    BY <1>4, SessionAssumption DEF LoopRefused
  <2>8. QED BY <2>5, <2>6, <2>7 DEF TypeInv
<1>5. QED
  BY <1>1, <1>2, <1>3, <1>4, StepOK DEF LoopStep

LEMMA TypeInvStep == TypeInv /\ [Next]_vars => TypeInv'
<1> SUFFICES ASSUME TypeInv, [Next]_vars PROVE TypeInv'
  OBVIOUS
<1>1. ASSUME NEW t \in Threads, Crash(t) PROVE TypeInv'
  BY <1>1, Zenon DEF Crash, objVars, sharedVars, TypeInv, ObjectsOK, QueuesOK,
     ThreadsOK, TaskOK
<1>2. CASE UNCHANGED vars
  BY <1>2, Zenon DEF vars, objVars, sharedVars, TypeInv, ObjectsOK, QueuesOK,
     ThreadsOK, TaskOK
<1>3. QED
  BY <1>1, <1>2, JoinOK, KernelOK, WorkerOK, LoopOK DEF Next

LEMMA InitTypes == Init => TypeInv
<1> SUFFICES ASSUME Init PROVE TypeInv
  OBVIOUS
<1>1. ObjectsOK
  BY SessionAssumption DEF Init, ObjectsOK, Bad
<1>2. QueuesOK
  <2>1. \A S : <<>> \in Seq(S)
    OBVIOUS
  <2>2. QED BY <2>1, Zenon DEF Init, QueuesOK
<1>3. ThreadsOK
  <2>1. Resting \in Thread /\ Resting.at = "idle" /\ "idle" \notin NoteLabels
    BY DEF Resting, Thread, Labels, NoteLabels
  <2>2. QED BY <2>1 DEF Init, ThreadsOK
<1>4. QED
  BY <1>1, <1>2, <1>3, Zenon DEF Init, TypeInv, TaskOK

\* No interleaving of the workers, the loop, the joining thread and the kernel,
\* use of freed memory included, makes the state ill-formed: threads that work
\* always have a session, and what a thread announces is a package.
THEOREM TypesHold == Spec => []TypeOK
<1>1. QED
  BY InitTypes, InvImpliesTypes, TypeInvStep, PTL DEF Spec

-----------------------------------------------------------------------------
(* In the optimised build, and under an application that makes at most one *)
(* call per package and none on an error package, a session never has two  *)
(* activities at once (OneActivity of Session), whatever the number of     *)
(* sessions and workers.                                                   *)
(*                                                                         *)
(* The argument: an activity is a token.  Every step either leaves the     *)
(* activities of a session alone, drops one, or replaces one by another;   *)
(* only JoinNew creates one, for a session that has none.                  *)

HalfDuplexApp ==
  \A o \in Occasions : \A script \in App[o] :
     /\ Len(script) \in {0, 1}
     /\ o \in Errors => script = <<>>

\* What a thread is about to announce is an error exactly if it then closes.
NotesOK ==
  \A t \in Threads :
    /\ th[t].at \in {"write_err", "compare"} => th[t].note \in Errors
    /\ th[t].at \in {"check", "put", "assert"} =>
         (th[t].note \in Errors <=> th[t].end)

OneCallPerHandler == task # NoTask => Len(task.calls) = 1

JoinerOK == th[Joiner].at \in {"idle", "associate", "push"}

\* Nothing happens in a session before it is created, nor after it is deleted.
OnlyLiveAct == \A s \in Sessions : life[s] # "live" => Activities(s) = {}

ActInv == /\ TypeInv /\ OneActivity /\ NotesOK /\ OneCallPerHandler
          /\ JoinerOK /\ OnlyLiveAct

-----------------------------------------------------------------------------
(* Reasoning about Activities.                                             *)

LEMMA Members ==
  ASSUME NEW s
  PROVE  /\ \A t \in Inside(s) : <<"thread", t>> \in Activities(s)
         /\ \A i \in Packages(s) : <<"package", i>> \in Activities(s)
         /\ \A k \in io[s] : <<"io", k>> \in Activities(s)
         /\ \A i \in Packets(s) : <<"packet", i>> \in Activities(s)
         /\ task.ses = s => <<"handler", s>> \in Activities(s)
BY DEF Activities

\* An activity of one kind excludes those of the others.
LEMMA Alone ==
  ASSUME OneActivity, NEW s \in Sessions
  PROVE  /\ \A t \in Inside(s) : /\ Inside(s) = {t} /\ Packages(s) = {} /\ io[s] = {}
                                 /\ Packets(s) = {} /\ task.ses # s
         /\ \A i \in Packages(s) : /\ Packages(s) = {i} /\ Inside(s) = {} /\ io[s] = {}
                                   /\ Packets(s) = {} /\ task.ses # s
         /\ \A k \in io[s] : /\ io[s] = {k} /\ Inside(s) = {} /\ Packages(s) = {}
                             /\ Packets(s) = {} /\ task.ses # s
         /\ \A i \in Packets(s) : /\ Packets(s) = {i} /\ Inside(s) = {} /\ io[s] = {}
                                  /\ Packages(s) = {} /\ task.ses # s
         /\ task.ses = s => /\ Inside(s) = {} /\ Packages(s) = {} /\ io[s] = {}
                            /\ Packets(s) = {}
<1>1. \A a, b \in Activities(s) : a = b
  BY DEF OneActivity
<1>2. /\ \A t \in Inside(s) : <<"thread", t>> \in Activities(s)
      /\ \A i \in Packages(s) : <<"package", i>> \in Activities(s)
      /\ \A k \in io[s] : <<"io", k>> \in Activities(s)
      /\ \A i \in Packets(s) : <<"packet", i>> \in Activities(s)
      /\ task.ses = s => <<"handler", s>> \in Activities(s)
  BY Members
<1>3. QED
  BY <1>1, <1>2

\* At most one kind of activity, and at most one of it, is one activity.
LEMMA Sole ==
  ASSUME NEW s \in Sessions,
         \/ /\ \A x, y \in Inside(s)' : x = y
            /\ Packages(s)' = {} /\ io'[s] = {} /\ Packets(s)' = {} /\ task'.ses # s
         \/ /\ \A x, y \in Packages(s)' : x = y
            /\ Inside(s)' = {} /\ io'[s] = {} /\ Packets(s)' = {} /\ task'.ses # s
         \/ /\ \A x, y \in io'[s] : x = y
            /\ Inside(s)' = {} /\ Packages(s)' = {} /\ Packets(s)' = {} /\ task'.ses # s
         \/ /\ \A x, y \in Packets(s)' : x = y
            /\ Inside(s)' = {} /\ Packages(s)' = {} /\ io'[s] = {} /\ task'.ses # s
         \/ /\ Packets(s)' = {}
            /\ Inside(s)' = {} /\ Packages(s)' = {} /\ io'[s] = {}
  PROVE  \A a, b \in Activities(s)' : a = b
BY DEF Activities

LEMMA Fewer ==
  ASSUME NEW s \in Sessions, OneActivity, Activities(s)' \subseteq Activities(s)
  PROVE  \A a, b \in Activities(s)' : a = b
BY DEF OneActivity

\* A step that changes only thread t, which keeps its session or stops working.
LEMMA ThreadStep ==
  ASSUME NEW t \in Threads, ThreadsOK, UNCHANGED <<q, cq, io, task>>, NEW r,
         th' = [th EXCEPT ![t] = r],
         Working(r) => r.ses = th[t].ses /\ Working(th[t]),
         NEW s \in Sessions
  PROVE  Activities(s)' \subseteq Activities(s)
<1>1. Packages(s)' = Packages(s) /\ Packets(s)' = Packets(s)
  BY Zenon DEF Packages, Packets
<1>2. Inside(s)' \subseteq Inside(s)
  <2>1. \A x \in Threads : th'[x] = IF x = t THEN r ELSE th[x]
    BY DEF ThreadsOK
  <2>2. QED BY <2>1, Zenon DEF Inside
<1>3. QED BY <1>1, <1>2 DEF Activities

LEMMA WorkingLabels ==
  ASSUME NEW r
  PROVE  /\ r.at \in {"associate", "send_done", "recv_done", "parse", "WSASend",
                      "WSARecv", "check", "put", "close", "announce"} => Working(r)
         /\ r.at \in {"idle", "push", "remove", "mark"} => ~Working(r)
         /\ r.at \in {"write_err", "compare", "assert"} => (Working(r) <=> r.end)
BY DEF Working, Labels, Closing

\* The new state of the thread, field by field.
LEMMA GotoRec ==
  ASSUME ThreadsOK, NEW t \in Threads, NEW label, Goto(t, label)
  PROVE  \E r : /\ th' = [th EXCEPT ![t] = r]
                /\ r.at = label /\ r.ses = th[t].ses
                /\ r.note = th[t].note /\ r.end = th[t].end
<1> DEFINE r == [th[t] EXCEPT !.at = label]
<1>1. th[t] \in Thread
  BY DEF ThreadsOK
<1>2. /\ r.at = label /\ r.ses = th[t].ses
      /\ r.note = th[t].note /\ r.end = th[t].end
  BY <1>1 DEF Thread
<1>3. th' = [th EXCEPT ![t] = r]
  BY DEF Goto
<1>4. QED BY <1>2, <1>3

LEMMA NotifyRec ==
  ASSUME ThreadsOK, NEW t \in Threads, NEW st
  PROVE  /\ Notify(t, st, TRUE) =>
              \E r : /\ th' = [th EXCEPT ![t] = r]
                    /\ r.at = "check" /\ r.ses = th[t].ses
                    /\ r.note = st /\ r.end
         /\ Notify(t, st, FALSE) =>
              \E r : /\ th' = [th EXCEPT ![t] = r]
                    /\ r.at = "check" /\ r.ses = th[t].ses
                    /\ r.note = st /\ ~r.end
<1>1. th[t] \in Thread
  BY DEF ThreadsOK
<1>2. ASSUME Notify(t, st, TRUE)
      PROVE  \E r : /\ th' = [th EXCEPT ![t] = r]
                   /\ r.at = "check" /\ r.ses = th[t].ses
                   /\ r.note = st /\ r.end
  <2> DEFINE r == [th[t] EXCEPT !.at = "check", !.note = st, !.end = TRUE]
  <2>1. r.at = "check" /\ r.ses = th[t].ses /\ r.note = st /\ r.end
    BY <1>1 DEF Thread
  <2>2. th' = [th EXCEPT ![t] = r]
    BY <1>2 DEF Notify
  <2>3. QED BY <2>1, <2>2
<1>3. ASSUME Notify(t, st, FALSE)
      PROVE  \E r : /\ th' = [th EXCEPT ![t] = r]
                   /\ r.at = "check" /\ r.ses = th[t].ses
                   /\ r.note = st /\ ~r.end
  <2> DEFINE r == [th[t] EXCEPT !.at = "check", !.note = st, !.end = FALSE]
  <2>1. r.at = "check" /\ r.ses = th[t].ses /\ r.note = st /\ ~r.end
    BY <1>1 DEF Thread
  <2>2. th' = [th EXCEPT ![t] = r]
    BY <1>3 DEF Notify
  <2>3. QED BY <2>1, <2>2
<1>4. QED BY <1>2, <1>3

LEMMA ReturnRec ==
  ASSUME NEW t, Return(t)
  PROVE  th' = [th EXCEPT ![t] = Resting] /\ Resting.at = "idle" /\ ~Working(Resting)
<1>1. Resting.at = "idle"
  BY DEF Resting
<1>2. QED BY <1>1, WorkingLabels DEF Return

\* What a step keeps of a session's activities.
Kept(s) == \/ Activities(s)' \subseteq Activities(s)
           \/ /\ Activities(s) # {}
              /\ \A a, b \in Activities(s)' : a = b

LEMMA KeptOK ==
  ASSUME OneActivity, OnlyLiveAct, \A s \in Sessions : Kept(s),
         \A s \in Sessions : life'[s] # "live" => life[s] # "live" \/ Activities(s)' = {}
  PROVE  OneActivity' /\ OnlyLiveAct'
<1>1. OneActivity'
  BY Fewer DEF Kept, OneActivity
<1>2. OnlyLiveAct'
  BY DEF Kept, OnlyLiveAct
<1>3. QED BY <1>1, <1>2

\* What the labels of one thread contribute to NotesOK and JoinerOK.
Noted(r) == /\ r.at \in {"write_err", "compare"} => r.note \in Errors
            /\ r.at \in {"check", "put", "assert"} => (r.note \in Errors <=> r.end)

LEMMA ThreadNotes ==
  ASSUME ThreadsOK, NotesOK, JoinerOK, NEW t \in Threads, NEW r, Noted(r),
         th' = [th EXCEPT ![t] = r],
         t # Joiner \/ r.at \in {"idle", "associate", "push"}
  PROVE  NotesOK' /\ JoinerOK'
<1>1. \A x \in Threads : th'[x] = IF x = t THEN r ELSE th[x]
  BY DEF ThreadsOK
<1>2. Joiner \in Threads
  BY DEF Threads
<1>3. QED BY <1>1, <1>2 DEF NotesOK, JoinerOK, Noted

\* A step of a thread that leaves everything but its own state, the objects'
\* memory and the list alone.
LEMMA PrivateStep ==
  ASSUME ActInv, NEW t \in Threads, NEW r, Noted(r),
         th' = [th EXCEPT ![t] = r], UNCHANGED <<life, q, cq, io, task>>,
         Working(r) => r.ses = th[t].ses /\ Working(th[t]),
         t # Joiner \/ r.at \in {"idle", "associate", "push"},
         TypeInv'
  PROVE  ActInv'
<1>1. \A s \in Sessions : Kept(s)
  BY ThreadStep DEF ActInv, TypeInv, Kept
<1>2. OneActivity' /\ OnlyLiveAct'
  BY <1>1, KeptOK DEF ActInv
<1>3. NotesOK' /\ JoinerOK'
  BY ThreadNotes DEF ActInv, TypeInv
<1>4. OneCallPerHandler'
  BY Zenon DEF ActInv, OneCallPerHandler
<1>5. QED BY <1>2, <1>3, <1>4 DEF ActInv

-----------------------------------------------------------------------------
(* The steps that replace one activity by another.                         *)

LEMMA PackagesAppend ==
  ASSUME QueuesOK, NEW st, NEW s0, q' = Append(q, Package(st, s0)), NEW s \in Sessions
  PROVE  Packages(s)' \subseteq Packages(s) \cup
           (IF s = s0 /\ st \notin Errors THEN {Len(q) + 1} ELSE {})
<1>1. Package(st, s0).ses = s0 /\ Package(st, s0).status = st
  BY DEF Package
<1>2. /\ DOMAIN q' = 1..(Len(q) + 1) /\ DOMAIN q = 1..Len(q) /\ Len(q) \in Nat
      /\ \A i \in 1..Len(q) : q'[i] = q[i]
      /\ q'[Len(q) + 1] = Package(st, s0)
  BY DEF QueuesOK
<1>3. \A i \in DOMAIN q' : i = Len(q) + 1 \/ (i \in DOMAIN q /\ q'[i] = q[i])
  BY <1>2
<1>4. QED
  BY <1>1, <1>2, <1>3 DEF Packages

LEMMA PacketsAppend ==
  ASSUME QueuesOK, NEW k, NEW ok, NEW s0, cq' = Append(cq, Packet(s0, k, ok)),
         NEW s \in Sessions
  PROVE  Packets(s)' \subseteq Packets(s) \cup (IF s = s0 THEN {Len(cq) + 1} ELSE {})
<1>1. Packet(s0, k, ok).ses = s0
  BY DEF Packet
<1>2. /\ DOMAIN cq' = 1..(Len(cq) + 1) /\ DOMAIN cq = 1..Len(cq) /\ Len(cq) \in Nat
      /\ \A i \in 1..Len(cq) : cq'[i] = cq[i]
      /\ cq'[Len(cq) + 1] = Packet(s0, k, ok)
  BY DEF QueuesOK
<1>3. \A i \in DOMAIN cq' : i = Len(cq) + 1 \/ (i \in DOMAIN cq /\ cq'[i] = cq[i])
  BY <1>2
<1>4. QED
  BY <1>1, <1>2, <1>3 DEF Packets

\* A thread puts a package; only after an error does it go on working.
LEMMA PutMove ==
  ASSUME ActInv, NEW t \in Threads, NEW r, NEW st, Working(th[t]),
         q' = Append(q, Package(st, th[t].ses)), th' = [th EXCEPT ![t] = r],
         UNCHANGED <<cq, io, task>>,
         Working(r) => st \in Errors /\ r.ses = th[t].ses,
         NEW s \in Sessions
  PROVE  Kept(s)
<1> DEFINE s0 == th[t].ses
<1>1. Packages(s)' \subseteq Packages(s) \cup
        (IF s = s0 /\ st \notin Errors THEN {Len(q) + 1} ELSE {})
  BY PackagesAppend DEF ActInv, TypeInv
<1>2. Packets(s)' = Packets(s) /\ io'[s] = io[s] /\ task' = task
  BY Zenon DEF Packets
<1>3. \A x \in Threads : th'[x] = IF x = t THEN r ELSE th[x]
  BY DEF ActInv, TypeInv, ThreadsOK
<1>4. Inside(s)' \subseteq Inside(s)
  BY <1>3, Zenon DEF Inside
<1>5. CASE s # s0 \/ st \in Errors
  BY <1>1, <1>2, <1>4, <1>5 DEF Activities, Kept
<1>6. CASE s = s0 /\ st \notin Errors
  <2>1. t \in Inside(s)
    BY <1>6 DEF Inside
  <2>2. Inside(s) = {t} /\ Packages(s) = {} /\ io[s] = {} /\ Packets(s) = {} /\ task.ses # s
    BY <2>1, Alone DEF ActInv
  <2>3. ~Working(r)
    BY <1>6
  <2>4. Inside(s)' = {}
    BY <1>3, <1>4, <2>2, <2>3 DEF Inside
  <2>5. \A a, b \in Activities(s)' : a = b
    BY <1>1, <1>2, <2>2, <2>4, Sole
  <2>6. Activities(s) # {}
    BY <2>1, Members
  <2>7. QED BY <2>5, <2>6 DEF Kept
<1>7. QED BY <1>5, <1>6

\* A thread hands its I/O to the kernel and returns to its caller.
LEMMA IssueMove ==
  ASSUME ActInv, NEW t \in Threads, NEW r, NEW k, Working(th[t]), ~Working(r),
         th[t].ses \in Sessions,
         io' = [io EXCEPT ![th[t].ses] = @ \cup {k}], th' = [th EXCEPT ![t] = r],
         UNCHANGED <<cq, q, task>>,
         NEW s \in Sessions
  PROVE  Kept(s)
<1> DEFINE s0 == th[t].ses
<1>1. Packages(s)' = Packages(s) /\ Packets(s)' = Packets(s) /\ task' = task
  BY Zenon DEF Packages, Packets
<1>2. io'[s] = IF s = s0 THEN io[s] \cup {k} ELSE io[s]
  BY DEF ActInv, TypeInv, ObjectsOK
<1>3. \A x \in Threads : th'[x] = IF x = t THEN r ELSE th[x]
  BY DEF ActInv, TypeInv, ThreadsOK
<1>4. Inside(s)' \subseteq Inside(s) \ {t}
  BY <1>3, Zenon DEF Inside
<1>5. CASE s # s0
  BY <1>1, <1>2, <1>4, <1>5 DEF Activities, Kept
<1>6. CASE s = s0
  <2>1. t \in Inside(s)
    BY <1>6 DEF Inside
  <2>2. Inside(s) = {t} /\ Packages(s) = {} /\ io[s] = {} /\ Packets(s) = {} /\ task.ses # s
    BY <2>1, Alone DEF ActInv
  <2>3. Inside(s)' = {} /\ io'[s] = {k}
    BY <1>2, <1>4, <1>6, <2>2
  <2>4. \A a, b \in Activities(s)' : a = b
    BY <1>1, <2>2, <2>3, Sole
  <2>5. Activities(s) # {}
    BY <2>1, Members
  <2>6. QED BY <2>4, <2>5 DEF Kept
<1>7. QED BY <1>5, <1>6

\* The kernel completes an I/O.
LEMMA CompleteMove ==
  ASSUME ActInv, NEW s0 \in Sessions, NEW k, Complete(s0, k), NEW s \in Sessions
  PROVE  Kept(s)
<1>1. /\ k \in io[s0] /\ io' = [io EXCEPT ![s0] = @ \ {k}]
      /\ cq' = Append(cq, Packet(s0, k, link[s0] /\ sock[s0]))
      /\ UNCHANGED <<q, th, task>>
  BY Zenon DEF Complete
<1>2. Packets(s)' \subseteq Packets(s) \cup (IF s = s0 THEN {Len(cq) + 1} ELSE {})
  BY <1>1, PacketsAppend DEF ActInv, TypeInv
<1>3. Packages(s)' = Packages(s) /\ Inside(s)' = Inside(s) /\ task' = task
  BY <1>1, Zenon DEF Packages, Inside
<1>4. io'[s] = IF s = s0 THEN io[s] \ {k} ELSE io[s]
  BY <1>1 DEF ActInv, TypeInv, ObjectsOK
<1>5. CASE s # s0
  BY <1>2, <1>3, <1>4, <1>5 DEF Activities, Kept
<1>6. CASE s = s0
  <2>1. io[s] = {k} /\ Inside(s) = {} /\ Packages(s) = {} /\ Packets(s) = {} /\ task.ses # s
    BY <1>1, <1>6, Alone DEF ActInv
  <2>2. io'[s] = {} /\ Packets(s)' \subseteq {Len(cq) + 1}
    BY <1>2, <1>4, <1>6, <2>1
  <2>3. \A a, b \in Activities(s)' : a = b
    BY <1>3, <2>1, <2>2, Sole
  <2>4. Activities(s) # {}
    BY <1>1, <1>6, Members
  <2>5. QED BY <2>3, <2>4 DEF Kept
<1>7. QED BY <1>5, <1>6

\* A worker takes a packet off the port.
LEMMA DequeueMove ==
  ASSUME ActInv, NEW w \in Workers, Dequeue(w), NEW s \in Sessions
  PROVE  Kept(s)
<1> DEFINE p == Head(cq)
           r == [at |-> IF p.olp = "send" THEN "send_done" ELSE "recv_done",
                 ses |-> p.ses, note |-> "none", end |-> ~p.ok]
<1>1. th' = [th EXCEPT ![w] = r] /\ cq # <<>> /\ cq' = Tail(cq) /\ th[w].at = "idle"
  BY Zenon DEF Dequeue, Runs, At
<1>2. UNCHANGED <<q, io, task>>
  BY Zenon DEF Dequeue, objVars
<1>3. cq \in Seq([ses : Sessions, olp : Kinds, ok : BOOLEAN])
  BY DEF ActInv, TypeInv, QueuesOK
<1>4. /\ Len(cq') = Len(cq) - 1 /\ cq' \in Seq([ses : Sessions, olp : Kinds, ok : BOOLEAN])
      /\ \A i \in 1..Len(cq') : cq'[i] = cq[i + 1]
      /\ p = cq[1] /\ Len(cq) \in Nat \ {0}
  BY <1>1, <1>3, HeadTail
<1>5. /\ \A i \in Packets(s)' : i + 1 \in Packets(s)
      /\ p.ses = s => 1 \in Packets(s)
  BY <1>3, <1>4 DEF Packets
<1>6. Packages(s)' = Packages(s) /\ io'[s] = io[s] /\ task' = task
  BY <1>2, Zenon DEF Packages
<1>7. \A x \in Threads : th'[x] = IF x = w THEN r ELSE th[x]
  BY <1>1 DEF ActInv, TypeInv, ThreadsOK
<1>8. Inside(s)' \subseteq Inside(s) \cup (IF p.ses = s THEN {w} ELSE {})
  <2>1. r.ses = p.ses
    OBVIOUS
  <2>2. QED BY <1>7, <2>1 DEF Inside
<1>9. \A i \in Packets(s)' : i \in Nat \ {0}
  BY <1>4 DEF Packets
<1>10. CASE Packets(s) = {}
  <2>1. Packets(s)' = {} /\ p.ses # s
    BY <1>5, <1>10
  <2>2. QED BY <1>6, <1>8, <2>1 DEF Activities, Kept
<1>11. ASSUME NEW n \in Packets(s) PROVE Kept(s)
  <2>1. /\ Packets(s) = {n} /\ Inside(s) = {} /\ Packages(s) = {} /\ io[s] = {}
        /\ task.ses # s
    BY <1>11, Alone DEF ActInv
  <2>2. Activities(s) # {}
    BY <1>11, Members
  <2>3. CASE p.ses = s
    <3>1. n = 1
      BY <1>5, <2>1, <2>3
    <3>2. Packets(s)' = {}
      BY <1>5, <1>9, <2>1, <3>1
    <3>3. \A x, y \in Inside(s)' : x = y
      BY <1>8, <2>1
    <3>4. \A a, b \in Activities(s)' : a = b
      BY <1>6, <2>1, <3>2, <3>3, Sole
    <3>5. QED BY <2>2, <3>4 DEF Kept
  <2>4. CASE p.ses # s
    <3>1. Inside(s)' = {}
      BY <1>8, <2>1, <2>4
    <3>2. \A x, y \in Packets(s)' : x = y
      BY <1>5, <1>9, <2>1
    <3>3. \A a, b \in Activities(s)' : a = b
      BY <1>6, <2>1, <3>1, <3>2, Sole
    <3>4. QED BY <2>2, <3>3 DEF Kept
  <2>5. QED BY <2>3, <2>4
<1>12. QED BY <1>10, <1>11

\* The loop takes a package off the queue and runs its handler.
LEMMA GetMove ==
  ASSUME ActInv, HalfDuplexApp, LoopGet
  PROVE  (\A s \in Sessions : Kept(s)) /\ OneCallPerHandler'
<1> DEFINE p == Head(q)
<1>1. Handle(p.status, p.ses) /\ q # <<>> /\ q' = Tail(q) /\ task = NoTask
  BY DEF LoopGet
<1>2. UNCHANGED <<cq, io, th>>
  BY Zenon DEF LoopGet
<1>3. q \in Seq([status : Statuses, ses : Sessions])
  BY DEF ActInv, TypeInv, QueuesOK
<1>4. /\ Len(q') = Len(q) - 1 /\ q' \in Seq([status : Statuses, ses : Sessions])
      /\ \A i \in 1..Len(q') : q'[i] = q[i + 1]
      /\ p = q[1] /\ Len(q) \in Nat \ {0}
      /\ p \in [status : Statuses, ses : Sessions]
  BY <1>1, <1>3, HeadTail
<1>5. /\ task' = NoTask
      \/ /\ p.status \notin Errors /\ task'.ses = p.ses /\ Len(task'.calls) = 1
  <2>1. CASE p.status = "disconnected"
    BY <1>1, <2>1 DEF Handle
  <2>2. CASE p.status # "disconnected"
    <3>1. PICK script \in App[p.status] : task' = Calling(p.ses, script)
      BY <1>1, <2>2 DEF Handle
    <3>2. p.status \in Handled
      BY <1>4, <2>2 DEF Statuses
    <3>3. /\ script \in Seq(Calls) /\ Len(script) \in {0, 1}
          /\ p.status \in Errors => script = <<>>
      BY <3>2, SessionAssumption DEF HalfDuplexApp, Occasions
    <3>4. CASE script = <<>>
      BY <3>1, <3>4, Zenon DEF Calling
    <3>5. CASE script # <<>>
      <4>1. Len(script) = 1
        BY <3>3, <3>5
      <4>2. task' = [ses |-> p.ses, calls |-> script]
        BY <3>1, <3>5, Zenon DEF Calling
      <4>3. QED BY <3>3, <3>5, <4>1, <4>2
    <3>6. QED BY <3>4, <3>5
  <2>3. QED BY <2>1, <2>2
<1>6. ASSUME NEW s \in Sessions PROVE Kept(s)
  <2>1. Packets(s)' = Packets(s) /\ io'[s] = io[s] /\ Inside(s)' = Inside(s)
    BY <1>2, Zenon DEF Packets, Inside
  <2>2. /\ \A i \in Packages(s)' : i + 1 \in Packages(s) /\ i \in Nat \ {0}
        /\ p.ses = s /\ p.status \notin Errors => 1 \in Packages(s)
    BY <1>3, <1>4 DEF Packages
  <2>3. NoTask.ses # s
    BY SessionAssumption DEF NoTask
  <2>4. task'.ses = s => p.ses = s /\ p.status \notin Errors
    BY <1>5, <2>3
  <2>5. CASE Packages(s) = {}
    <3>1. Packages(s)' = {} /\ task'.ses # s
      BY <2>2, <2>4, <2>5
    <3>2. QED BY <2>1, <3>1 DEF Activities, Kept
  <2>6. ASSUME NEW n \in Packages(s) PROVE Kept(s)
    <3>1. /\ Packages(s) = {n} /\ Inside(s) = {} /\ Packets(s) = {} /\ io[s] = {}
      BY <2>6, Alone DEF ActInv
    <3>2. Activities(s) # {}
      BY <2>6, Members
    <3>3. CASE task'.ses = s
      <4>1. Packages(s)' = {}
        BY <2>2, <2>4, <3>1, <3>3
      <4>2. \A a, b \in Activities(s)' : a = b
        BY <2>1, <3>1, <4>1, Sole
      <4>3. QED BY <3>2, <4>2 DEF Kept
    <3>4. CASE task'.ses # s
      <4>1. \A x, y \in Packages(s)' : x = y
        BY <2>2, <3>1
      <4>2. \A a, b \in Activities(s)' : a = b
        BY <2>1, <3>1, <3>4, <4>1, Sole
      <4>3. QED BY <3>2, <4>2 DEF Kept
    <3>5. QED BY <3>3, <3>4
  <2>7. QED BY <2>5, <2>6
<1>7. OneCallPerHandler'
  BY <1>5, Zenon DEF OneCallPerHandler
<1>8. QED BY <1>6, <1>7

\* With the package disconnected the last activity of its session ends.
LEMMA LastMove ==
  ASSUME ActInv, LoopGet, Head(q).status = "disconnected", NEW s, s = Head(q).ses
  PROVE  Activities(s)' = {}
<1>1. q # <<>> /\ q' = Tail(q) /\ task' = task /\ task = NoTask
  BY DEF LoopGet, Handle
<1>2. UNCHANGED <<cq, io, th>>
  BY Zenon DEF LoopGet
<1>3. q \in Seq([status : Statuses, ses : Sessions])
  BY DEF ActInv, TypeInv, QueuesOK
<1>4. /\ Len(q') = Len(q) - 1 /\ q' \in Seq([status : Statuses, ses : Sessions])
      /\ \A i \in 1..Len(q') : q'[i] = q[i + 1]
      /\ Head(q) = q[1] /\ Len(q) \in Nat \ {0}
      /\ Head(q) \in [status : Statuses, ses : Sessions]
  BY <1>1, <1>3, HeadTail
<1>5. "disconnected" \notin Errors
  BY DEF Errors
<1>6. 1 \in Packages(s) /\ \A i \in Packages(s)' : i + 1 \in Packages(s) /\ i \in Nat \ {0}
  BY <1>3, <1>4, <1>5 DEF Packages
<1>7. /\ Packages(s) = {1} /\ Inside(s) = {} /\ Packets(s) = {} /\ io[s] = {}
      /\ task.ses # s
  BY <1>4, <1>6, Alone DEF ActInv
<1>8. Packages(s)' = {}
  BY <1>6, <1>7
<1>9. Inside(s)' = {} /\ Packets(s)' = {} /\ io'[s] = {} /\ task'.ses # s
  BY <1>1, <1>2, <1>7, Zenon DEF Inside, Packets
<1>10. QED BY <1>8, <1>9 DEF Activities

\* The loop makes the call of its handler.
LEMMA CallMove ==
  ASSUME ActInv, LoopCall
  PROVE  (\A s \in Sessions : Kept(s)) /\ OneCallPerHandler' /\ NotesOK' /\ JoinerOK'
<1> DEFINE s0 == task.ses
<1>1. /\ s0 \in Sessions /\ task # NoTask /\ th[Loop].at = "idle"
      /\ Loop \in Threads /\ th[Loop] \in Thread /\ Loop # Joiner
  BY SessionAssumption DEF LoopCall, Runs, At, ActInv, TypeInv, TaskOK, ThreadsOK, Threads
<1>2. task' = NoTask
  <2>1. task.calls \in Seq(Calls) /\ Len(task.calls) = 1
    BY <1>1 DEF ActInv, TypeInv, TaskOK, OneCallPerHandler
  <2>2. Tail(task.calls) = <<>>
    BY <2>1, TailOfOne
  <2>3. task' = Calling(s0, Tail(task.calls))
    BY Zenon DEF LoopCall
  <2> QED BY <2>2, <2>3, Zenon DEF Calling
<1>3. UNCHANGED <<q, io>>
  BY Zenon DEF LoopCall
<1>4. \/ /\ cq' = cq
         /\ \E label \in {"WSASend", "parse"} :
              th' = [th EXCEPT ![Loop].at = label, ![Loop].ses = s0]
      \/ /\ cq' = Append(cq, Packet(s0, "recv", FALSE)) \/ cq' = cq
         /\ th' = th
  BY DEF LoopCall, Send, Recv, Quit, LoopStart
<1>5. \A s \in Sessions : NoTask.ses # s
  BY SessionAssumption DEF NoTask
<1>6. OneCallPerHandler'
  BY <1>2, Zenon DEF OneCallPerHandler
<1>7. /\ io[s0] = {} /\ Packages(s0) = {} /\ Packets(s0) = {} /\ Inside(s0) = {}
      /\ Activities(s0) # {}
  BY <1>1, Alone, Members DEF ActInv
<1>8. \A s \in Sessions : Packages(s)' = Packages(s) /\ io'[s] = io[s] /\ task'.ses # s
  BY <1>2, <1>3, <1>5, Zenon DEF Packages
<1>9. ASSUME cq' = cq, NEW label \in {"WSASend", "parse"},
             th' = [th EXCEPT ![Loop].at = label, ![Loop].ses = s0]
      PROVE  (\A s \in Sessions : Kept(s)) /\ NotesOK' /\ JoinerOK'
  <2> DEFINE r == [th[Loop] EXCEPT !.at = label, !.ses = s0]
  <2>1. r.at = label /\ r.ses = s0 /\ th' = [th EXCEPT ![Loop] = r]
    BY <1>1, <1>9 DEF Thread
  <2>2. NotesOK' /\ JoinerOK'
    BY <1>1, <2>1, ThreadNotes DEF Noted, ActInv, TypeInv
  <2>3. \A x \in Threads : th'[x] = IF x = Loop THEN r ELSE th[x]
    BY <2>1 DEF ActInv, TypeInv, ThreadsOK
  <2>4. ASSUME NEW s \in Sessions PROVE Kept(s)
    <3>1. Inside(s)' \subseteq Inside(s) \cup (IF s = s0 THEN {Loop} ELSE {})
      BY <2>1, <2>3 DEF Inside
    <3>2. Packets(s)' = Packets(s)
      BY <1>9, Zenon DEF Packets
    <3>3. CASE s = s0
      <4>1. \A x, y \in Inside(s)' : x = y
        BY <1>7, <3>1, <3>3
      <4>2. \A a, b \in Activities(s)' : a = b
        BY <1>7, <1>8, <3>2, <3>3, <4>1, Sole
      <4>3. QED BY <1>7, <3>3, <4>2 DEF Kept
    <3>4. CASE s # s0
      BY <1>8, <3>1, <3>2, <3>4 DEF Activities, Kept
    <3>5. QED BY <3>3, <3>4
  <2>5. QED BY <2>2, <2>4
<1>10. ASSUME cq' = Append(cq, Packet(s0, "recv", FALSE)) \/ cq' = cq, th' = th
       PROVE  (\A s \in Sessions : Kept(s)) /\ NotesOK' /\ JoinerOK'
  <2>1. NotesOK' /\ JoinerOK'
    BY <1>10, Zenon DEF ActInv, NotesOK, JoinerOK
  <2>2. ASSUME NEW s \in Sessions PROVE Kept(s)
    <3>1. Packets(s)' \subseteq Packets(s) \cup (IF s = s0 THEN {Len(cq) + 1} ELSE {})
      <4>1. CASE cq' = cq
        BY <4>1, Zenon DEF Packets
      <4>2. CASE cq' = Append(cq, Packet(s0, "recv", FALSE))
        BY <1>10, <4>2, PacketsAppend DEF ActInv, TypeInv
      <4>3. QED BY <1>10, <4>1, <4>2
    <3>2. Inside(s)' = Inside(s)
      BY <1>10, Zenon DEF Inside
    <3>3. CASE s = s0
      <4>1. \A x, y \in Packets(s)' : x = y
        BY <1>7, <3>1, <3>3
      <4>2. \A a, b \in Activities(s)' : a = b
        BY <1>7, <1>8, <3>2, <3>3, <4>1, Sole
      <4>3. QED BY <1>7, <3>3, <4>2 DEF Kept
    <3>4. CASE s # s0
      BY <1>8, <3>1, <3>2, <3>4 DEF Activities, Kept
    <3>5. QED BY <3>3, <3>4
  <2>3. QED BY <2>1, <2>2
<1>11. QED BY <1>4, <1>6, <1>9, <1>10

\* The handler makes another call instead of one that was refused, or none.
LEMMA RefusedMove ==
  ASSUME ActInv, HalfDuplexApp, LoopRefused
  PROVE  (\A s \in Sessions : Kept(s)) /\ OneCallPerHandler' /\ NotesOK' /\ JoinerOK'
<1> DEFINE s0 == task.ses
<1>1. /\ s0 \in Sessions /\ task # NoTask
      /\ task.calls \in Seq(Calls) /\ Len(task.calls) = 1
  <2>1. task # NoTask /\ TaskOK /\ Len(task.calls) = 1
    BY Zenon DEF LoopRefused, ActInv, TypeInv, OneCallPerHandler
  <2>2. task \in [ses : Sessions, calls : Seq(Calls)]
    BY <2>1, Zenon DEF TaskOK
  <2> QED BY <2>1, <2>2
<1>2. UNCHANGED <<q, cq, io, th>>
  BY Zenon DEF LoopRefused, objVars, sharedVars
<1>3. PICK script \in App["refused"] : task' = Calling(s0, script \o Tail(task.calls))
  BY DEF LoopRefused
<1>4. script \in Seq(Calls) /\ Len(script) \in {0, 1}
  BY SessionAssumption DEF HalfDuplexApp, Occasions
<1>5. script \o Tail(task.calls) = script
  <2>1. Tail(task.calls) = <<>>
    BY <1>1, TailOfOne
  <2> QED BY <1>4, <2>1
<1>6. task' = NoTask \/ (task'.ses = s0 /\ Len(task'.calls) = 1)
  <2>1. CASE script = <<>>
    BY <1>3, <1>5, <2>1, Zenon DEF Calling
  <2>2. CASE script # <<>>
    <3>1. Len(script) = 1
      BY <1>4, <2>2
    <3>2. task' = [ses |-> s0, calls |-> script]
      BY <1>3, <1>5, <2>2, Zenon DEF Calling
    <3> QED BY <3>1, <3>2
  <2> QED BY <2>1, <2>2
<1>7. \A s \in Sessions : NoTask.ses # s
  BY SessionAssumption DEF NoTask
<1>8. ASSUME NEW s \in Sessions PROVE Kept(s)
  <2>1. /\ Packages(s)' = Packages(s) /\ Packets(s)' = Packets(s)
        /\ Inside(s)' = Inside(s) /\ io'[s] = io[s]
    BY <1>2, Zenon DEF Packages, Packets, Inside
  <2>2. task'.ses = s => task.ses = s
    BY <1>6, <1>7
  <2>3. Activities(s)' \subseteq Activities(s)
    BY <2>1, <2>2 DEF Activities
  <2> QED BY <2>3 DEF Kept
<1>9. OneCallPerHandler' /\ NotesOK' /\ JoinerOK'
  BY <1>2, <1>6, Zenon DEF ActInv, OneCallPerHandler, NotesOK, JoinerOK
<1> QED BY <1>8, <1>9

-----------------------------------------------------------------------------
(* Every step preserves ActInv.                                            *)

\* The step of a thread that moves an activity out of it.
LEMMA MoveStep ==
  ASSUME ActInv, NEW t \in Threads, NEW r, Noted(r),
         t # Joiner \/ r.at \in {"idle", "associate", "push"},
         th' = [th EXCEPT ![t] = r], UNCHANGED <<life, task>>,
         \A s \in Sessions : Kept(s), TypeInv'
  PROVE  ActInv'
<1>1. OneActivity' /\ OnlyLiveAct'
  BY KeptOK DEF ActInv
<1>2. NotesOK' /\ JoinerOK'
  BY ThreadNotes DEF ActInv, TypeInv
<1>3. OneCallPerHandler'
  BY Zenon DEF ActInv, OneCallPerHandler
<1>4. QED BY <1>1, <1>2, <1>3 DEF ActInv

LEMMA StepAct ==
  ASSUME ActInv, ~Debug, NEW t \in Threads, t # Joiner, Step(t)
  PROVE  ActInv'
<1>0. TypeInv' /\ TypeInv /\ ThreadsOK /\ Noted(th[t]) /\ th[t] \in Thread
  BY StepOK DEF ActInv, TypeInv, ThreadsOK, NotesOK, Noted
<1>a. \A label \in Labels \ {"idle"} : At(t, label) => th[t].ses \in Sessions
  BY <1>0 DEF At, ThreadsOK
<1>b. Errors \subseteq Notes /\ Errors = {"send_error", "recv_error"}
  BY DEF Notes, Errors
<1>1. CASE Parse(t)
  <2>1. Working(th[t])
    BY <1>1, WorkingLabels DEF Parse, Runs, At
  <2>2. UNCHANGED <<life, q, cq, io, task>>
    BY <1>1, Zenon DEF Parse, sharedVars
  <2>3. \/ \E st \in {"protocol_error", "recv_failed", "recv_finished"} : Notify(t, st, FALSE)
        \/ Goto(t, "WSARecv")
    BY <1>1 DEF Parse
  <2>4. CASE Goto(t, "WSARecv")
    BY <1>0, <2>1, <2>2, <2>4, GotoRec, PrivateStep DEF Noted
  <2>5. ASSUME NEW st \in {"protocol_error", "recv_failed", "recv_finished"},
               Notify(t, st, FALSE)
        PROVE  ActInv'
    <3>1. PICK r : /\ th' = [th EXCEPT ![t] = r]
                   /\ r.at = "check" /\ r.ses = th[t].ses
                   /\ r.note = st /\ ~r.end
      BY <1>0, <2>5, NotifyRec
    <3>2. st \notin Errors
      BY <1>b, <2>5
    <3>3. Noted(r)
      BY <3>1, <3>2 DEF Noted
    <3>4. QED BY <1>0, <2>1, <2>2, <3>1, <3>3, PrivateStep
  <2>6. QED BY <2>3, <2>4, <2>5
<1>2. CASE Issue(t)
  <2>1. Working(th[t])
    BY <1>2, WorkingLabels DEF Issue, Runs, At
  <2>2. UNCHANGED <<life, q, cq, task>> /\ th[t].ses \in Sessions
    BY <1>2, <1>a, Zenon DEF Issue, sharedVars, Runs, Labels
  <2>3. \E e \in Errors, k \in Kinds :
          \/ /\ io' = [io EXCEPT ![th[t].ses] = @ \cup {k}]
             /\ \/ Return(t)
                \/ th' = [th EXCEPT ![t].at = "write_err", ![t].end = FALSE, ![t].note = e]
          \/ /\ io' = io
             /\ th' = [th EXCEPT ![t].at = "write_err", ![t].end = TRUE, ![t].note = e]
    BY <1>2 DEF Issue, Errors, Kinds
  <2>4. PICK e \in Errors, k \in Kinds :
          \/ /\ io' = [io EXCEPT ![th[t].ses] = @ \cup {k}]
             /\ \/ Return(t)
                \/ th' = [th EXCEPT ![t].at = "write_err", ![t].end = FALSE, ![t].note = e]
          \/ /\ io' = io
             /\ th' = [th EXCEPT ![t].at = "write_err", ![t].end = TRUE, ![t].note = e]
    BY <2>3
  <2> DEFINE r(refused) ==
               [th[t] EXCEPT !.at = "write_err", !.end = refused, !.note = e]
  <2>5. \A b \in BOOLEAN : /\ r(b).at = "write_err" /\ r(b).end = b /\ r(b).note = e
                           /\ r(b).ses = th[t].ses
    BY <1>0 DEF Thread
  <2>6. \A b \in BOOLEAN : Noted(r(b)) /\ (Working(r(b)) <=> b)
    BY <2>5, WorkingLabels DEF Noted
  <2>7. CASE io' = io /\ th' = [th EXCEPT ![t] = r(TRUE)]
    <3>1. UNCHANGED <<life, q, cq, io, task>>
      BY <2>2, <2>7
    <3>2. QED BY <1>0, <2>1, <2>5, <2>6, <2>7, <3>1, PrivateStep
  <2>8. CASE /\ io' = [io EXCEPT ![th[t].ses] = @ \cup {k}]
             /\ th' = [th EXCEPT ![t] = r(FALSE)]
    <3>1. \A s \in Sessions : Kept(s)
      BY <2>1, <2>2, <2>6, <2>8, IssueMove
    <3>2. QED BY <1>0, <2>2, <2>6, <2>8, <3>1, MoveStep
  <2>9. CASE io' = [io EXCEPT ![th[t].ses] = @ \cup {k}] /\ Return(t)
    <3>1. th' = [th EXCEPT ![t] = Resting] /\ Noted(Resting) /\ ~Working(Resting)
      BY <2>9, ReturnRec DEF Noted
    <3>2. \A s \in Sessions : Kept(s)
      BY <2>1, <2>2, <2>9, <3>1, IssueMove
    <3>3. QED BY <1>0, <2>2, <3>1, <3>2, MoveStep
  <2>10. QED BY <2>4, <2>7, <2>8, <2>9
<1>3. CASE WriteErr(t)
  <2>1. UNCHANGED <<life, q, cq, io, task>> /\ th[t].at = "write_err"
    BY <1>3, Zenon DEF WriteErr, sharedVars, Runs, At
  <2>2. PICK r : /\ th' = [th EXCEPT ![t] = r]
                 /\ r.at = "compare" /\ r.ses = th[t].ses
                 /\ r.note = th[t].note /\ r.end = th[t].end
    BY <1>0, <1>3, GotoRec DEF WriteErr
  <2>3. Noted(r) /\ (Working(r) <=> Working(th[t]))
    BY <1>0, <2>1, <2>2, WorkingLabels DEF Noted
  <2>4. QED BY <1>0, <2>1, <2>2, <2>3, PrivateStep
<1>4. CASE Compare(t)
  <2>1. UNCHANGED <<life, q, cq, io, task>> /\ th[t].at = "compare"
    BY <1>4, Zenon DEF Compare, objVars, sharedVars, Runs, At
  <2>2. \/ Return(t)
        \/ Notify(t, th[t].note, TRUE) /\ th[t].end
    BY <1>4 DEF Compare
  <2>3. CASE Return(t)
    BY <1>0, <2>1, <2>3, ReturnRec, PrivateStep DEF Noted
  <2>4. CASE Notify(t, th[t].note, TRUE) /\ th[t].end
    <3>1. Working(th[t]) /\ th[t].note \in Errors
      BY <1>0, <2>1, <2>4, WorkingLabels DEF Noted
    <3>2. PICK r : /\ th' = [th EXCEPT ![t] = r]
                   /\ r.at = "check" /\ r.ses = th[t].ses
                   /\ r.note = th[t].note /\ r.end
      <4>1. Notify(t, th[t].note, TRUE)
        BY <2>4
      <4>2. ThreadsOK
        BY <1>0
      <4>3. QED BY <4>1, <4>2, NotifyRec, Zenon
    <3>3. Noted(r)
      BY <3>1, <3>2 DEF Noted
    <3>4. QED BY <1>0, <2>1, <3>1, <3>2, <3>3, PrivateStep
  <2>5. QED BY <2>2, <2>3, <2>4
<1>5. CASE Check(t)
  <2>1. UNCHANGED <<life, q, cq, io, task>> /\ th[t].at = "check"
    BY <1>5, Zenon DEF Check, objVars, sharedVars, Runs, At
  <2>2. Working(th[t]) /\ (th[t].note \in Errors <=> th[t].end)
    BY <1>0, <2>1, WorkingLabels DEF Noted
  <2>3. Goto(t, "put") \/ Goto(t, "close") \/ Return(t)
    BY <1>5 DEF Check, AfterNotify
  <2>4. CASE Return(t)
    BY <1>0, <2>1, <2>4, ReturnRec, PrivateStep DEF Noted
  <2>5. ASSUME NEW label \in {"put", "close"}, Goto(t, label) PROVE ActInv'
    <3>1. PICK r : /\ th' = [th EXCEPT ![t] = r]
                   /\ r.at = label /\ r.ses = th[t].ses
                   /\ r.note = th[t].note /\ r.end = th[t].end
      BY <1>0, <2>5, GotoRec
    <3>2. Noted(r)
      BY <2>2, <3>1 DEF Noted
    <3>3. QED BY <1>0, <2>1, <2>2, <3>1, <3>2, PrivateStep
  <2>6. QED BY <2>3, <2>4, <2>5
<1>6. CASE Put(t)
  <2>1. UNCHANGED <<life, cq, io, task>> /\ th[t].at = "put"
        /\ q' = Append(q, Package(th[t].note, th[t].ses))
    BY <1>6, Zenon DEF Put, objVars, Runs, At
  <2>2. Working(th[t]) /\ (th[t].note \in Errors <=> th[t].end)
    BY <1>0, <2>1, WorkingLabels DEF Noted
  <2>3. PICK r : /\ th' = [th EXCEPT ![t] = r]
                 /\ r.at = "assert" /\ r.ses = th[t].ses
                 /\ r.note = th[t].note /\ r.end = th[t].end
    BY <1>0, <1>6, GotoRec DEF Put
  <2>4. Noted(r) /\ (Working(r) => th[t].note \in Errors /\ r.ses = th[t].ses)
    BY <2>2, <2>3, WorkingLabels DEF Noted
  <2>5. \A s \in Sessions : Kept(s)
    BY <2>1, <2>2, <2>3, <2>4, PutMove
  <2>6. QED BY <1>0, <2>1, <2>3, <2>4, <2>5, MoveStep
<1>7. CASE AssertMark(t)
  <2>1. UNCHANGED <<life, q, cq, io, task>> /\ th[t].at = "assert"
    BY <1>7, Zenon DEF AssertMark, objVars, sharedVars, Runs, At
  <2>2. Return(t) \/ (Goto(t, "close") /\ th[t].end)
    BY <1>7 DEF AssertMark, AfterNotify
  <2>3. CASE Return(t)
    BY <1>0, <2>1, <2>3, ReturnRec, PrivateStep DEF Noted
  <2>4. CASE Goto(t, "close") /\ th[t].end
    <3>1. Working(th[t])
      BY <2>1, <2>4, WorkingLabels
    <3>2. QED BY <1>0, <2>1, <2>4, <3>1, GotoRec, PrivateStep DEF Noted
  <2>5. QED BY <2>2, <2>3, <2>4
<1>8. CASE Close(t)
  <2>1. UNCHANGED <<life, q, cq, io, task>> /\ th[t].at = "close" /\ Goto(t, "announce")
    BY <1>8, Zenon DEF Close, sharedVars, Runs, At
  <2>2. Working(th[t])
    BY <2>1, WorkingLabels
  <2>3. QED BY <1>0, <2>1, <2>2, GotoRec, PrivateStep DEF Noted
<1>9. CASE Announce(t)
  <2>1. UNCHANGED <<life, cq, io, task>> /\ th[t].at = "announce"
        /\ q' = Append(q, Package("disconnected", th[t].ses))
    BY <1>9, Zenon DEF Announce, objVars, Runs, At
  <2>2. PICK r : th' = [th EXCEPT ![t] = r] /\ r.at = "remove"
    BY <1>0, <1>9, GotoRec DEF Announce
  <2>3. Noted(r) /\ ~Working(r) /\ Working(th[t])
    BY <2>1, <2>2, WorkingLabels DEF Noted
  <2>4. \A s \in Sessions : Kept(s)
    BY <2>1, <2>2, <2>3, PutMove
  <2>5. QED BY <1>0, <2>1, <2>2, <2>3, <2>4, MoveStep
<1>10. CASE Remove(t)
  <2>1. UNCHANGED <<life, q, cq, io, task>>
    BY <1>10, Zenon DEF Remove, objVars
  <2>2. PICK r : th' = [th EXCEPT ![t] = r] /\ r.at = "mark"
    BY <1>0, <1>10, GotoRec DEF Remove
  <2>3. Noted(r) /\ ~Working(r)
    BY <2>2, WorkingLabels DEF Noted
  <2>4. QED BY <1>0, <2>1, <2>2, <2>3, PrivateStep
<1>11. CASE Mark(t)
  <2>1. UNCHANGED <<life, q, cq, io, task>>
    BY <1>11, Zenon DEF Mark, sharedVars
  <2>2. QED BY <1>0, <1>11, <2>1, ReturnRec, PrivateStep DEF Mark, Noted
<1>12. QED
  BY <1>1, <1>2, <1>3, <1>4, <1>5, <1>6, <1>7, <1>8, <1>9, <1>10, <1>11
  DEF Step, Notification, Disconected

LEMMA JoinAct ==
  ASSUME ActInv, JoinStep \/ \E s \in Sessions : JoinNew(s)
  PROVE  ActInv'
<1>0. /\ TypeInv' /\ TypeInv /\ ThreadsOK /\ Joiner \in Threads
      /\ th[Joiner] \in Thread
  BY JoinOK DEF ActInv, TypeInv, ThreadsOK, Threads
<1>1. ASSUME NEW s0 \in Sessions, JoinNew(s0) PROVE ActInv'
  <2> DEFINE r == [th[Joiner] EXCEPT !.at = "associate", !.ses = s0]
  <2>1. /\ life[s0] = "none" /\ life' = [life EXCEPT ![s0] = "live"]
        /\ th' = [th EXCEPT ![Joiner] = r]
    <3>1. /\ life[s0] = "none" /\ life' = [life EXCEPT ![s0] = "live"]
          /\ th' = [th EXCEPT ![Joiner].at = "associate", ![Joiner].ses = s0]
      BY <1>1, Zenon DEF JoinNew
    <3>2. th' = [th EXCEPT ![Joiner] = r]
      BY <3>1
    <3>3. QED BY <3>1, <3>2
  <2>2. UNCHANGED <<q, cq, io, task>>
    BY <1>1, Zenon DEF JoinNew, sharedVars
  <2>3. r.at = "associate" /\ r.ses = s0 /\ Noted(r)
    BY <1>0 DEF Thread, Noted
  <2>4. NotesOK' /\ JoinerOK'
    BY <1>0, <2>1, <2>3, ThreadNotes DEF ActInv
  <2>5. OneCallPerHandler'
    BY <2>2, Zenon DEF ActInv, OneCallPerHandler
  <2>6. \A x \in Threads : th'[x] = IF x = Joiner THEN r ELSE th[x]
    BY <1>0, <2>1 DEF ThreadsOK
  <2>7. \A s \in Sessions : Packages(s)' = Packages(s) /\ Packets(s)' = Packets(s)
    BY <2>2, Zenon DEF Packages, Packets
  <2>8. \A s \in Sessions : s # s0 => Inside(s)' \subseteq Inside(s)
    BY <2>3, <2>6, Zenon DEF Inside
  <2>9. \A s \in Sessions : s # s0 => Activities(s)' \subseteq Activities(s)
    BY <2>2, <2>7, <2>8 DEF Activities
  <2>10. Activities(s0) = {}
    BY <2>1 DEF ActInv, OnlyLiveAct
  <2>11. /\ Inside(s0) = {} /\ Packages(s0) = {} /\ io[s0] = {} /\ Packets(s0) = {}
         /\ task.ses # s0
    BY <2>10, Members
  <2>12. Inside(s0)' \subseteq {Joiner}
    BY <2>6, <2>11, Zenon DEF Inside
  <2>13. \A a, b \in Activities(s0)' : a = b
    BY <2>2, <2>7, <2>11, <2>12, Sole
  <2>14. OneActivity'
    BY <2>9, <2>13 DEF ActInv, OneActivity
  <2>15. OnlyLiveAct'
    BY <1>0, <2>1, <2>9 DEF ActInv, OnlyLiveAct, TypeInv, ObjectsOK
  <2>16. QED BY <1>0, <2>4, <2>5, <2>14, <2>15 DEF ActInv
<1>2. CASE JoinConnect
  <2>1. /\ UNCHANGED <<life, cq, io, task>> /\ th[Joiner].at = "associate"
        /\ q' = Append(q, Package("connected", th[Joiner].ses))
    BY <1>2, Zenon DEF JoinConnect, objVars, Runs, At
  <2>2. PICK r : th' = [th EXCEPT ![Joiner] = r] /\ r.at = "push"
    BY <1>0, <1>2, GotoRec DEF JoinConnect
  <2>3. Noted(r) /\ ~Working(r) /\ Working(th[Joiner])
    BY <2>1, <2>2, WorkingLabels DEF Noted
  <2>4. \A s \in Sessions : Kept(s)
    BY <1>0, <2>1, <2>2, <2>3, PutMove
  <2>5. QED BY <1>0, <2>1, <2>2, <2>3, <2>4, MoveStep
<1>3. CASE JoinFail
  <2>1. UNCHANGED <<q, cq, io, task>>
    BY <1>3, Zenon DEF JoinFail, sharedVars
  <2>2. /\ th' = [th EXCEPT ![Joiner] = Resting] /\ Resting.at = "idle"
        /\ ~Working(Resting)
    BY <1>3, ReturnRec DEF JoinFail
  <2>3. Noted(Resting)
    BY <2>2 DEF Noted
  <2>4. \A s \in Sessions : Kept(s)
    BY <1>0, <2>1, <2>2, ThreadStep DEF Kept
  <2>5. \A s \in Sessions : life'[s] # "live" => life[s] # "live" \/ Activities(s)' = {}
    <3>1. PICK s0 \in Sessions :
            /\ s0 = th[Joiner].ses /\ th[Joiner].at = "associate"
            /\ life' = [life EXCEPT ![s0] = "deleted"]
      BY <1>0, <1>3 DEF JoinFail, Runs, At, ThreadsOK
    <3>2. Joiner \in Inside(s0)
      BY <1>0, <3>1, WorkingLabels DEF Inside
    <3>3. /\ Inside(s0) = {Joiner} /\ Packages(s0) = {} /\ io[s0] = {}
          /\ Packets(s0) = {} /\ task.ses # s0
      BY <3>1, <3>2, Alone DEF ActInv
    <3>4. \A x \in Threads : th'[x] = IF x = Joiner THEN Resting ELSE th[x]
      BY <1>0, <2>2 DEF ThreadsOK
    <3>5. Inside(s0)' = {}
      BY <2>2, <3>3, <3>4 DEF Inside
    <3>6. Packages(s0)' = {} /\ Packets(s0)' = {} /\ io'[s0] = {} /\ task'.ses # s0
      BY <2>1, <3>3, Zenon DEF Packages, Packets
    <3>7. Activities(s0)' = {}
      BY <3>5, <3>6 DEF Activities
    <3>8. QED BY <1>0, <3>1, <3>7 DEF TypeInv, ObjectsOK
  <2>6. OneActivity' /\ OnlyLiveAct'
    BY <2>4, <2>5, KeptOK DEF ActInv
  <2>7. NotesOK' /\ JoinerOK'
    BY <1>0, <2>2, <2>3, ThreadNotes DEF ActInv
  <2>8. OneCallPerHandler'
    BY <2>1, Zenon DEF ActInv, OneCallPerHandler
  <2>9. QED BY <1>0, <2>6, <2>7, <2>8 DEF ActInv
<1>4. CASE JoinPush
  <2>1. UNCHANGED <<life, q, cq, io, task>>
    BY <1>4, Zenon DEF JoinPush, objVars
  <2>2. /\ th' = [th EXCEPT ![Joiner] = Resting] /\ Resting.at = "idle"
        /\ ~Working(Resting)
    BY <1>4, ReturnRec DEF JoinPush
  <2>3. Noted(Resting)
    BY <2>2 DEF Noted
  <2>4. QED BY <1>0, <2>1, <2>2, <2>3, PrivateStep
<1>5. QED BY <1>1, <1>2, <1>3, <1>4 DEF JoinStep

LEMMA KernelAct ==
  ASSUME ActInv, NEW s0 \in Sessions,
         LoseLink(s0) \/ \E k \in Kinds : Complete(s0, k)
  PROVE  ActInv'
<1>0. TypeInv'
  BY KernelOK DEF ActInv
<1>1. CASE LoseLink(s0)
  <2>1. UNCHANGED <<life, q, cq, io, th, task>>
    BY <1>1, Zenon DEF LoseLink, sharedVars
  <2>2. \A s \in Sessions : Activities(s)' = Activities(s)
    <3>1. \A s \in Sessions : /\ Packages(s)' = Packages(s) /\ Packets(s)' = Packets(s)
                               /\ Inside(s)' = Inside(s)
      BY <2>1, Zenon DEF Packages, Packets, Inside
    <3>2. QED BY <2>1, <3>1 DEF Activities
  <2>3. OneActivity' /\ OnlyLiveAct'
    BY <2>1, <2>2 DEF ActInv, OneActivity, OnlyLiveAct
  <2>4. NotesOK' /\ JoinerOK' /\ OneCallPerHandler'
    BY <2>1, Zenon DEF ActInv, NotesOK, JoinerOK, OneCallPerHandler
  <2>5. QED BY <1>0, <2>3, <2>4 DEF ActInv
<1>2. ASSUME NEW k \in Kinds, Complete(s0, k) PROVE ActInv'
  <2>1. UNCHANGED <<life, th, task>>
    BY <1>2, Zenon DEF Complete
  <2>2. \A s \in Sessions : Kept(s)
    BY <1>2, CompleteMove
  <2>3. OneActivity' /\ OnlyLiveAct'
    BY <2>1, <2>2, KeptOK DEF ActInv
  <2>4. NotesOK' /\ JoinerOK' /\ OneCallPerHandler'
    BY <2>1, Zenon DEF ActInv, NotesOK, JoinerOK, OneCallPerHandler
  <2>5. QED BY <1>0, <2>3, <2>4 DEF ActInv
<1>3. QED BY <1>1, <1>2

LEMMA WorkerAct ==
  ASSUME ActInv, ~Debug, NEW w \in Workers, WorkerStep(w)
  PROVE  ActInv'
<1>0. /\ TypeInv' /\ TypeInv /\ ThreadsOK /\ w \in Threads /\ w # Joiner
      /\ Errors = {"send_error", "recv_error"}
  BY WorkerOK, SessionAssumption DEF ActInv, TypeInv, Threads, Errors
<1>1. CASE Dequeue(w)
  <2> DEFINE p == Head(cq)
             r == [at |-> IF p.olp = "send" THEN "send_done" ELSE "recv_done",
                   ses |-> p.ses, note |-> "none", end |-> ~p.ok]
  <2>1. UNCHANGED <<life, task>> /\ th' = [th EXCEPT ![w] = r]
    BY <1>1, Zenon DEF Dequeue, objVars
  <2>2. r.at \in {"send_done", "recv_done"}
    OBVIOUS
  <2>3. Noted(r)
    BY <2>2 DEF Noted
  <2>4. \A s \in Sessions : Kept(s)
    BY <1>1, DequeueMove
  <2>5. QED BY <1>0, <2>1, <2>3, <2>4, MoveStep
<1>2. CASE SendDone(w)
  <2>1. UNCHANGED <<life, q, cq, io, task>> /\ th[w].at = "send_done"
    BY <1>2, Zenon DEF SendDone, sharedVars, Runs, At
  <2>2. Working(th[w])
    BY <2>1, WorkingLabels
  <2>3. \/ Notify(w, "send_error", TRUE) \/ Notify(w, "send_finished", FALSE)
        \/ Goto(w, "WSASend")
    BY <1>2 DEF SendDone
  <2>4. PICK r : /\ th' = [th EXCEPT ![w] = r] /\ r.ses = th[w].ses
                 /\ \/ r.at = "check" /\ r.note = "send_error" /\ r.end
                    \/ r.at = "check" /\ r.note = "send_finished" /\ ~r.end
                    \/ r.at = "WSASend"
    <3>1. CASE Notify(w, "send_error", TRUE)
      <4>1. PICK r : /\ th' = [th EXCEPT ![w] = r] /\ r.at = "check"
                     /\ r.ses = th[w].ses /\ r.note = "send_error" /\ r.end
        BY <1>0, <3>1, NotifyRec, Zenon
      <4>2. QED BY <4>1, Zenon
    <3>2. CASE Notify(w, "send_finished", FALSE)
      <4>1. PICK r : /\ th' = [th EXCEPT ![w] = r] /\ r.at = "check"
                     /\ r.ses = th[w].ses /\ r.note = "send_finished" /\ ~r.end
        BY <1>0, <3>2, NotifyRec, Zenon
      <4>2. QED BY <4>1, Zenon
    <3>3. CASE Goto(w, "WSASend")
      BY <1>0, <3>3, GotoRec, Zenon
    <3>4. QED BY <2>3, <3>1, <3>2, <3>3
  <2>5. Noted(r)
    BY <1>0, <2>4 DEF Noted
  <2>6. QED BY <1>0, <2>1, <2>2, <2>4, <2>5, PrivateStep
<1>3. CASE RecvDone(w)
  <2>1. UNCHANGED <<life, q, cq, io, task>> /\ th[w].at = "recv_done"
    BY <1>3, Zenon DEF RecvDone, sharedVars, Runs, At
  <2>2. Working(th[w])
    BY <2>1, WorkingLabels
  <2>3. \/ Notify(w, "recv_error", TRUE) \/ Goto(w, "close") \/ Goto(w, "parse")
    BY <1>3 DEF RecvDone
  <2>4. PICK r : /\ th' = [th EXCEPT ![w] = r] /\ r.ses = th[w].ses
                 /\ \/ r.at = "check" /\ r.note = "recv_error" /\ r.end
                    \/ r.at = "close" \/ r.at = "parse"
    <3>1. CASE Notify(w, "recv_error", TRUE)
      <4>1. PICK r : /\ th' = [th EXCEPT ![w] = r] /\ r.at = "check"
                     /\ r.ses = th[w].ses /\ r.note = "recv_error" /\ r.end
        BY <1>0, <3>1, NotifyRec, Zenon
      <4>2. QED BY <4>1, Zenon
    <3>2. CASE Goto(w, "close")
      BY <1>0, <3>2, GotoRec, Zenon
    <3>3. CASE Goto(w, "parse")
      BY <1>0, <3>3, GotoRec, Zenon
    <3>4. QED BY <2>3, <3>1, <3>2, <3>3
  <2>5. Noted(r)
    BY <1>0, <2>4 DEF Noted
  <2>6. QED BY <1>0, <2>1, <2>2, <2>4, <2>5, PrivateStep
<1>4. CASE Step(w)
  BY <1>0, <1>4, StepAct
<1>5. QED BY <1>1, <1>2, <1>3, <1>4 DEF WorkerStep

LEMMA LoopAct ==
  ASSUME ActInv, HalfDuplexApp, ~Debug, LoopStep
  PROVE  ActInv'
<1>0. TypeInv' /\ TypeInv /\ Loop \in Threads /\ Loop # Joiner
  BY LoopOK, SessionAssumption DEF ActInv, Threads
<1>1. CASE LoopGet
  <2>1. th' = th /\ q # <<>> /\ Handle(Head(q).status, Head(q).ses)
    BY <1>1, Zenon DEF LoopGet
  <2>2. (\A s \in Sessions : Kept(s)) /\ OneCallPerHandler'
    BY <1>1, GetMove
  <2>3. \/ life' = life
        \/ \E s \in {Head(q).ses} : /\ life' = [life EXCEPT ![s] = "deleted"]
                                    /\ Activities(s)' = {}
    <3>1. CASE Head(q).status = "disconnected"
      BY <1>1, <2>1, <3>1, LastMove DEF Handle
    <3>2. CASE Head(q).status # "disconnected"
      BY <2>1, <3>2 DEF Handle
    <3>3. QED BY <3>1, <3>2
  <2>4. \A s \in Sessions : life'[s] # "live" => life[s] # "live" \/ Activities(s)' = {}
    BY <1>0, <2>3 DEF TypeInv, ObjectsOK
  <2>5. OneActivity' /\ OnlyLiveAct'
    BY <2>2, <2>4, KeptOK DEF ActInv
  <2>6. NotesOK' /\ JoinerOK'
    BY <2>1, Zenon DEF ActInv, NotesOK, JoinerOK
  <2>7. QED BY <1>0, <2>2, <2>5, <2>6 DEF ActInv
<1>2. CASE LoopCall
  <2>1. /\ \A s \in Sessions : Kept(s)
        /\ OneCallPerHandler' /\ NotesOK' /\ JoinerOK'
    BY <1>2, CallMove
  <2>2. life' = life
    BY <1>2, Zenon DEF LoopCall
  <2>3. OneActivity' /\ OnlyLiveAct'
    BY <2>1, <2>2, KeptOK DEF ActInv
  <2>4. QED BY <1>0, <2>1, <2>3 DEF ActInv
<1>3. CASE Step(Loop)
  BY <1>0, <1>3, StepAct
<1>4. CASE LoopRefused
  <2>1. /\ \A s \in Sessions : Kept(s)
        /\ OneCallPerHandler' /\ NotesOK' /\ JoinerOK'
    BY <1>4, RefusedMove
  <2>2. life' = life
    BY <1>4, Zenon DEF LoopRefused, objVars
  <2>3. OneActivity' /\ OnlyLiveAct'
    BY <2>1, <2>2, KeptOK DEF ActInv
  <2>4. QED BY <1>0, <2>1, <2>3 DEF ActInv
<1>5. QED BY <1>1, <1>2, <1>3, <1>4 DEF LoopStep

LEMMA StutterAct ==
  ASSUME ActInv, UNCHANGED <<life, q, cq, io, th, task>>, TypeInv'
  PROVE  ActInv'
<1>1. \A s \in Sessions : /\ Packages(s)' = Packages(s) /\ Packets(s)' = Packets(s)
                           /\ Inside(s)' = Inside(s)
  BY Zenon DEF Packages, Packets, Inside
<1>2. \A s \in Sessions : Activities(s)' = Activities(s)
  BY <1>1 DEF Activities
<1>3. OneActivity' /\ OnlyLiveAct'
  BY <1>2 DEF ActInv, OneActivity, OnlyLiveAct
<1>4. NotesOK' /\ JoinerOK' /\ OneCallPerHandler'
  BY Zenon DEF ActInv, NotesOK, JoinerOK, OneCallPerHandler
<1>5. QED BY <1>3, <1>4 DEF ActInv

LEMMA InitAct == Init => ActInv
<1> SUFFICES ASSUME Init PROVE ActInv
  OBVIOUS
<1>1. TypeInv
  BY InitTypes
<1>2. Resting.at = "idle" /\ ~Working(Resting)
  BY WorkingLabels DEF Resting
<1>3. \A t \in Threads : th[t] = Resting
  BY DEF Init
<1>4. \A s \in Sessions : Inside(s) = {} /\ Packages(s) = {} /\ Packets(s) = {}
  BY <1>2, <1>3 DEF Init, Inside, Packages, Packets
<1>5. \A s \in Sessions : io[s] = {} /\ task.ses # s
  BY SessionAssumption DEF Init, NoTask
<1>6. \A s \in Sessions : Activities(s) = {}
  BY <1>4, <1>5 DEF Activities
<1>7. OneActivity /\ OnlyLiveAct
  BY <1>6 DEF OneActivity, OnlyLiveAct
<1>8. NotesOK /\ JoinerOK
  BY <1>2, <1>3 DEF NotesOK, JoinerOK, Threads
<1>9. OneCallPerHandler
  BY Zenon DEF Init, OneCallPerHandler
<1>10. QED BY <1>1, <1>7, <1>8, <1>9 DEF ActInv

LEMMA ActInvStep ==
  HalfDuplexApp /\ ~Debug => (ActInv /\ [Next]_vars => ActInv')
<1> SUFFICES ASSUME HalfDuplexApp, ~Debug, ActInv, [Next]_vars PROVE ActInv'
  OBVIOUS
<1>0. TypeInv'
  BY TypeInvStep DEF ActInv
<1>1. ASSUME NEW t \in Threads, Crash(t) PROVE ActInv'
  <2>1. UNCHANGED <<life, q, cq, io, th, task>>
    BY <1>1, Zenon DEF Crash, objVars, sharedVars
  <2>2. QED BY <1>0, <2>1, StutterAct
<1>2. CASE UNCHANGED vars
  <2>1. UNCHANGED <<life, q, cq, io, th, task>>
    BY <1>2, Zenon DEF vars, objVars, sharedVars
  <2>2. QED BY <1>0, <2>1, StutterAct
<1>3. QED
  BY <1>1, <1>2, JoinAct, KernelAct, WorkerAct, LoopAct DEF Next

\* Whatever the number of sessions and of workers, and in whatever order the
\* kernel completes I/O: a session of an application that makes one call per
\* package never has two things going on at once, so that process_iocp needs no
\* lock (iocp_session.h:267-276).
THEOREM OneActivityHolds ==
  ASSUME HalfDuplexApp, ~Debug
  PROVE  Spec => []OneActivity
<1>1. ActInv => OneActivity
  BY DEF ActInv
<1>2. ActInv /\ [Next]_vars => ActInv'
  BY ActInvStep
<1>3. QED
  BY <1>1, <1>2, InitAct, PTL DEF Spec
=============================================================================
