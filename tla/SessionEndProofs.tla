--------------------------- MODULE SessionEndProofs ---------------------------
(***************************************************************************)
(* How a session of such an application ends, in the optimised build and   *)
(* for any number of sessions and workers: "disconnected" is its last      *)
(* package, no I/O is left then, and the closing thread finds it in the    *)
(* list.                                                                   *)
(*                                                                         *)
(* The argument: "disconnected" is put by the session's only activity and  *)
(* becomes its only activity, so nothing of the session can follow it or be*)
(* left.  An error package is no activity, but the thread that has put it  *)
(* is one until it puts "disconnected".  Only that thread removes the      *)
(* session from the list, and before it does the session is listed, unless *)
(* the joining thread, with _cs, is about to add it.                       *)
(***************************************************************************)
EXTENDS SessionProofs

Announced(s) == \E i \in DOMAIN q : q[i].ses = s /\ q[i].status = "disconnected"
Over(s)      == life[s] = "deleted" \/ Announced(s)

\* A thread that is going to put "disconnected" whatever the socket is.
Closer(r) == (r.at = "assert" /\ r.end) \/ r.at \in {"close", "announce"}

\* "disconnected" follows every error package, sooner or later.
ErrorsAnswered ==
  \A i \in DOMAIN q : q[i].status \in Errors =>
    \/ \E t \in Threads : th[t].ses = q[i].ses /\ Closer(th[t])
    \/ \E j \in DOMAIN q : /\ j > i /\ q[j].ses = q[i].ses
                           /\ q[j].status = "disconnected"

SocketClosed ==
  /\ \A t \in Threads : th[t].at = "announce" => ~sock[th[t].ses]
  /\ \A i \in DOMAIN q : q[i].status = "disconnected" => ~sock[q[i].ses]

Pushing(s) == th[Joiner].ses = s /\ th[Joiner].at = "push"
Joining(s) == th[Joiner].ses = s /\ th[Joiner].at \in {"associate", "push"}

\* One thread at most removes a session, and what it removes is listed.
RemoversOK ==
  \A t \in Threads : th[t].at = "remove" =>
    /\ Over(th[t].ses)
    /\ th[t].ses \in boss \/ Pushing(th[t].ses)
    /\ \A u \in Threads : th[u].at = "remove" /\ th[u].ses = th[t].ses => u = t

Listed ==
  \A s \in Sessions : life[s] = "live" /\ ~Announced(s) => s \in boss \/ Joining(s)

PushersOK == \A t \in Threads : t # Joiner => th[t].at # "push"

EndInv == /\ ActInv /\ ErrorsAnswered /\ SocketClosed /\ RemoversOK /\ Listed
          /\ PushersOK

-----------------------------------------------------------------------------
(* What EndInv says of one session.                                        *)

LEMMA Elements ==
  ASSUME NEW S, NEW x \in Seq(S)
  PROVE  /\ DOMAIN x = 1..Len(x) /\ Len(x) \in Nat
         /\ \A i \in DOMAIN x : x[i] \in S
OBVIOUS

LEMMA QueueTypes ==
  ASSUME QueuesOK
  PROVE  /\ DOMAIN q = 1..Len(q) /\ Len(q) \in Nat
         /\ \A i \in DOMAIN q : q[i].ses \in Sessions /\ q[i].status \in Statuses
<1>1. q \in Seq([status : Statuses, ses : Sessions])
  BY DEF QueuesOK
<1>2. /\ DOMAIN q = 1..Len(q) /\ Len(q) \in Nat
      /\ \A i \in DOMAIN q : q[i] \in [status : Statuses, ses : Sessions]
  BY <1>1, Elements
<1>3. QED BY <1>2

LEMMA ActiveIsLive ==
  ASSUME ActInv
  PROVE  /\ \A t \in Threads : th[t].ses \in Sessions /\ Working(th[t]) =>
              life[th[t].ses] = "live"
         /\ \A i \in DOMAIN q : q[i].status \notin Errors =>
              life[q[i].ses] = "live"
         /\ task # NoTask => life[task.ses] = "live"
<1>1. ASSUME NEW t \in Threads, th[t].ses \in Sessions, Working(th[t])
      PROVE  life[th[t].ses] = "live"
  <2>1. t \in Inside(th[t].ses)
    BY <1>1 DEF Inside
  <2>2. QED BY <1>1, <2>1, Members DEF ActInv, OnlyLiveAct
<1>2. ASSUME NEW i \in DOMAIN q, q[i].status \notin Errors
      PROVE  life[q[i].ses] = "live"
  <2>1. i \in Packages(q[i].ses) /\ q[i].ses \in Sessions
    BY <1>2, QueueTypes DEF Packages, ActInv, TypeInv
  <2>2. QED BY <2>1, Members DEF ActInv, OnlyLiveAct
<1>3. ASSUME task # NoTask PROVE life[task.ses] = "live"
  <2>1. task.ses \in Sessions
    BY <1>3 DEF ActInv, TypeInv, TaskOK
  <2>2. QED BY <2>1, Members DEF ActInv, OnlyLiveAct
<1>4. QED BY <1>1, <1>2, <1>3

\* Once "disconnected" has been put no thread works on the session.
LEMMA OverIsIdle ==
  ASSUME ActInv, NEW s \in Sessions, Over(s)
  PROVE  Inside(s) = {}
<1>1. CASE life[s] = "deleted"
  BY <1>1, Members DEF ActInv, OnlyLiveAct
<1>2. CASE Announced(s)
  <2>1. PICK i \in DOMAIN q : q[i].ses = s /\ q[i].status = "disconnected"
    BY <1>2 DEF Announced
  <2>2. i \in Packages(s)
    BY <2>1 DEF Packages, Errors
  <2>3. QED BY <2>2, Alone DEF ActInv
<1>3. QED BY <1>1, <1>2 DEF Over

\* Every package in the queue belongs to a session that has not been deleted.
LEMMA QueueIsLive ==
  ASSUME EndInv
  PROVE  \A i \in DOMAIN q : life[q[i].ses] = "live"
<1> SUFFICES ASSUME NEW i \in DOMAIN q PROVE life[q[i].ses] = "live"
  OBVIOUS
<1>1. q[i].ses \in Sessions
  BY QueueTypes DEF EndInv, ActInv, TypeInv
<1>2. CASE q[i].status \notin Errors
  BY <1>2, ActiveIsLive DEF EndInv
<1>3. CASE q[i].status \in Errors
  <2>1. ASSUME NEW t \in Threads, th[t].ses = q[i].ses, Closer(th[t])
        PROVE  life[q[i].ses] = "live"
    <3>1. Working(th[t])
      BY <2>1, WorkingLabels DEF Closer
    <3>2. QED BY <1>1, <2>1, <3>1, ActiveIsLive DEF EndInv
  <2>2. ASSUME NEW j \in DOMAIN q, q[j].ses = q[i].ses, q[j].status = "disconnected"
        PROVE  life[q[i].ses] = "live"
    <3>1. q[j].status \notin Errors
      BY <2>2 DEF Errors
    <3>2. QED BY <2>2, <3>1, ActiveIsLive DEF EndInv
  <2>3. QED BY <1>3, <2>1, <2>2 DEF EndInv, ErrorsAnswered
<1>4. QED BY <1>2, <1>3

-----------------------------------------------------------------------------
(* Three kinds of steps, by what they do to the queue and the threads.     *)

\* A step of thread t (or of none, when r is what t was) that leaves queue, list
\* and life alone, and opens no socket.
LEMMA QuietStep ==
  ASSUME EndInv, ActInv', NEW t \in Threads, t # Joiner, NEW r,
         th' = [th EXCEPT ![t] = r], UNCHANGED <<life, q, boss>>,
         \A s \in Sessions : sock'[s] => sock[s],
         r.at \notin {"remove", "push"},
         r.at = "announce" => ~sock'[r.ses],
         Closer(th[t]) => Closer(r) /\ r.ses = th[t].ses
  PROVE  EndInv'
<1>1. /\ \A x \in Threads : th'[x] = IF x = t THEN r ELSE th[x]
      /\ Joiner \in Threads /\ th'[Joiner] = th[Joiner]
  BY DEF EndInv, ActInv, TypeInv, ThreadsOK, Threads
<1>2. \A s : Announced(s)' = Announced(s) /\ Over(s)' = Over(s)
  BY Zenon DEF Announced, Over
<1>3. ErrorsAnswered'
  BY <1>1 DEF EndInv, ErrorsAnswered
<1>4. SocketClosed'
  <2>1. \A x \in Threads : th[x].at = "announce" => th[x].ses \in Sessions
    BY DEF EndInv, ActInv, TypeInv, ThreadsOK
  <2>2. \A i \in DOMAIN q : q[i].ses \in Sessions
    BY QueueTypes DEF EndInv, ActInv, TypeInv
  <2>3. QED BY <1>1, <2>1, <2>2 DEF EndInv, SocketClosed
<1>5. RemoversOK'
  BY <1>1, <1>2 DEF EndInv, RemoversOK, Pushing
<1>6. Listed'
  BY <1>1, <1>2 DEF EndInv, Listed, Joining
<1>7. PushersOK'
  BY <1>1 DEF EndInv, PushersOK
<1>8. QED BY <1>3, <1>4, <1>5, <1>6, <1>7 DEF EndInv

LEMMA StillStep ==
  ASSUME EndInv, ActInv', UNCHANGED <<life, q, boss, th, sock>>
  PROVE  EndInv'
<1>1. \A s : Announced(s)' = Announced(s) /\ Over(s)' = Over(s)
  BY Zenon DEF Announced, Over
<1>2. ErrorsAnswered' /\ SocketClosed' /\ PushersOK'
  BY Zenon DEF EndInv, ErrorsAnswered, SocketClosed, PushersOK
<1>3. RemoversOK' /\ Listed'
  BY <1>1 DEF EndInv, RemoversOK, Pushing, Listed, Joining
<1>4. QED BY <1>2, <1>3 DEF EndInv

\* A thread puts a package of the session s that it works on.
LEMMA AppendStep ==
  ASSUME EndInv, ActInv', NEW t \in Threads, NEW r, NEW s \in Sessions, NEW st,
         s = th[t].ses, Working(th[t]),
         th' = [th EXCEPT ![t] = r], r.ses = s,
         q' = Append(q, Package(st, s)), UNCHANGED <<life, sock, boss>>,
         st \in Errors => Closer(r),
         st = "disconnected" <=> th[t].at = "announce",
         Closer(th[t]) => th[t].at = "announce",
         r.at = "remove" <=> th[t].at = "announce",
         r.at # "announce", r.at = "push" <=> t = Joiner,
         t = Joiner => th[t].at = "associate"
  PROVE  EndInv'
<1>1. /\ \A x \in Threads : th'[x] = IF x = t THEN r ELSE th[x]
      /\ Joiner \in Threads
  BY DEF EndInv, ActInv, TypeInv, ThreadsOK, Threads
<1>2. Package(st, s).ses = s /\ Package(st, s).status = st
  BY DEF Package
<1>3. /\ DOMAIN q' = 1..(Len(q) + 1) /\ DOMAIN q = 1..Len(q) /\ Len(q) \in Nat
      /\ \A i \in DOMAIN q : q'[i] = q[i]
      /\ q'[Len(q) + 1] = Package(st, s)
  BY DEF EndInv, ActInv, TypeInv, QueuesOK
<1>4. \A i \in DOMAIN q' : i = Len(q) + 1 \/ i \in DOMAIN q
  BY <1>3
<1>5. Len(q) + 1 \in DOMAIN q' /\ \A i \in DOMAIN q : i \in DOMAIN q' /\ Len(q) + 1 > i
  BY <1>3
<1>6. \A x : Announced(x)' <=> Announced(x) \/ (x = s /\ st = "disconnected")
  BY <1>2, <1>3, <1>4, <1>5 DEF Announced
<1>7. t \in Inside(s) /\ Inside(s) = {t} /\ ~Over(s) /\ life[s] = "live"
  <2>1. t \in Inside(s)
    BY DEF Inside
  <2>2. QED BY <2>1, Alone, OverIsIdle, ActiveIsLive DEF EndInv, ActInv
<1>8. ErrorsAnswered'
  <2>1. SUFFICES ASSUME NEW i \in DOMAIN q', q'[i].status \in Errors
                 PROVE  \/ \E x \in Threads : th'[x].ses = q'[i].ses /\ Closer(th'[x])
                        \/ \E j \in DOMAIN q' : /\ j > i /\ q'[j].ses = q'[i].ses
                                                /\ q'[j].status = "disconnected"
    BY DEF ErrorsAnswered
  <2>2. CASE i = Len(q) + 1
    BY <1>1, <1>2, <1>3, <2>1, <2>2
  <2>3. CASE i \in DOMAIN q
    <3>1. q'[i] = q[i]
      BY <1>3, <2>3
    <3>2. ASSUME NEW x \in Threads, th[x].ses = q[i].ses, Closer(th[x]), x # t
          PROVE  \E y \in Threads : th'[y].ses = q'[i].ses /\ Closer(th'[y])
      BY <1>1, <3>1, <3>2
    <3>3. CASE th[t].ses = q[i].ses /\ Closer(th[t])
      BY <1>2, <1>3, <1>5, <2>3, <3>1, <3>3
    <3>4. ASSUME NEW j \in DOMAIN q, j > i, q[j].ses = q[i].ses,
                 q[j].status = "disconnected"
          PROVE  \E k \in DOMAIN q' : /\ k > i /\ q'[k].ses = q'[i].ses
                                     /\ q'[k].status = "disconnected"
      BY <1>3, <1>5, <3>1, <3>4
    <3>5. QED BY <2>1, <2>3, <3>1, <3>2, <3>3, <3>4 DEF EndInv, ErrorsAnswered
  <2>4. QED BY <1>4, <2>2, <2>3
<1>9. SocketClosed'
  <2>1. \A x \in Threads : th'[x].at = "announce" => ~sock'[th'[x].ses]
    BY <1>1 DEF EndInv, SocketClosed
  <2>2. st = "disconnected" => ~sock[s]
    BY DEF EndInv, SocketClosed
  <2>3. \A i \in DOMAIN q' : q'[i].status = "disconnected" => ~sock'[q'[i].ses]
    BY <1>2, <1>3, <1>4, <2>2 DEF EndInv, SocketClosed
  <2>4. QED BY <2>1, <2>3 DEF SocketClosed
<1>10. \A x : Pushing(x) => t # Joiner /\ th'[Joiner] = th[Joiner] /\ Pushing(x)'
  BY <1>1 DEF Pushing
<1>11. RemoversOK'
  <2>1. SUFFICES ASSUME NEW x \in Threads, th'[x].at = "remove", NEW c, c = th'[x].ses
                 PROVE  /\ Over(c)'
                        /\ c \in boss' \/ Pushing(c)'
                        /\ \A u \in Threads : th'[u].at = "remove" /\ th'[u].ses = c
                                              => u = x
    BY DEF RemoversOK, Over, Announced, Pushing
  <2>2. CASE x = t
    <3>1. c = s /\ th[t].at = "announce"
      BY <1>1, <2>1, <2>2
    <3>2. Over(s)'
      BY <1>6, <3>1 DEF Over
    <3>3. s \in boss' \/ Pushing(s)'
      <4>1. ~Announced(s)
        BY <1>7 DEF Over
      <4>2. s \in boss \/ Joining(s)
        BY <1>7, <4>1 DEF EndInv, Listed
      <4>3. CASE Joining(s) /\ th[Joiner].at = "associate"
        <5>1. Joiner \in Inside(s)
          BY <1>1, <4>3, WorkingLabels DEF Inside, Joining
        <5>2. QED BY <1>7, <3>1, <4>3, <5>1
      <4>4. CASE Joining(s) /\ th[Joiner].at = "push"
        BY <1>10, <4>4 DEF Joining, Pushing
      <4>5. QED BY <4>2, <4>3, <4>4 DEF Joining
    <3>4. \A u \in Threads : th'[u].at = "remove" /\ th'[u].ses = s => u = x
      BY <1>1, <1>7, <2>2 DEF EndInv, RemoversOK
    <3>5. QED BY <3>1, <3>2, <3>3, <3>4
  <2>3. CASE x # t
    <3>1. c = th[x].ses /\ th[x].at = "remove"
      BY <1>1, <2>1, <2>3
    <3>2. Over(c) /\ (c \in boss \/ Pushing(c))
      BY <3>1 DEF EndInv, RemoversOK
    <3>3. Over(c)'
      BY <1>6, <3>2 DEF Over
    <3>4. c \in boss' \/ Pushing(c)'
      BY <1>10, <3>2
    <3>5. c # s
      BY <1>7, <3>2
    <3>6. \A u \in Threads : th'[u].at = "remove" /\ th'[u].ses = c => u = x
      BY <1>1, <3>1, <3>5 DEF EndInv, RemoversOK
    <3>7. QED BY <3>3, <3>4, <3>6
  <2>4. QED BY <2>2, <2>3
<1>12. Listed'
  <2>1. ASSUME NEW x \in Sessions, life'[x] = "live", ~Announced(x)'
        PROVE  x \in boss' \/ Joining(x)'
    <3>1. x \in boss \/ Joining(x)
      BY <1>6, <2>1 DEF EndInv, Listed
    <3>2. Joining(x) => Joining(x)'
      BY <1>1 DEF Joining
    <3>3. QED BY <3>1, <3>2
  <2>2. QED BY <2>1 DEF Listed
<1>13. PushersOK'
  BY <1>1 DEF EndInv, PushersOK
<1>14. QED BY <1>8, <1>9, <1>11, <1>12, <1>13 DEF EndInv

-----------------------------------------------------------------------------
(* Every step preserves EndInv.                                            *)

LEMMA StepEnd ==
  ASSUME EndInv, ActInv', NEW t \in Threads, t # Joiner, Step(t)
  PROVE  EndInv'
<1>0. ThreadsOK /\ QueuesOK /\ ObjectsOK /\ Noted(th[t])
  BY DEF EndInv, ActInv, TypeInv, NotesOK, Noted
<1>a. th[t].at \in Labels \ {"idle"} => th[t].ses \in Sessions
  BY <1>0 DEF ThreadsOK
<1>b. \A label \in {"assert", "close", "announce", "remove", "mark", "put", "check"} :
        label \in Labels \ {"idle"}
  BY DEF Labels, Closing
<1>1. CASE Parse(t)
  <2>1. UNCHANGED <<life, q, boss, sock>> /\ ~Closer(th[t])
    BY <1>1 DEF Parse, sharedVars, Runs, At, Closer
  <2>2. \/ \E st \in {"protocol_error", "recv_failed", "recv_finished"} : Notify(t, st, FALSE)
        \/ Goto(t, "WSARecv")
    BY <1>1 DEF Parse
  <2>3. \E r : th' = [th EXCEPT ![t] = r] /\ r.at \in {"check", "WSARecv"}
    <3>1. CASE Goto(t, "WSARecv")
      BY <1>0, <3>1, GotoRec
    <3>2. ASSUME NEW st, Notify(t, st, FALSE)
          PROVE  \E r : th' = [th EXCEPT ![t] = r] /\ r.at \in {"check", "WSARecv"}
      BY <1>0, <3>2, NotifyRec
    <3>3. QED BY <2>2, <3>1, <3>2
  <2>4. QED BY <2>1, <2>3, QuietStep
<1>2. CASE Issue(t)
  <2>1. UNCHANGED <<life, q, boss, sock>> /\ ~Closer(th[t])
    BY <1>2 DEF Issue, sharedVars, Runs, At, Closer
  <2>2. \/ Return(t)
        \/ \E refused \in BOOLEAN, e \in Errors :
             th' = [th EXCEPT ![t].at = "write_err", ![t].end = refused, ![t].note = e]
    BY <1>2 DEF Issue, Errors
  <2>3. \E r : th' = [th EXCEPT ![t] = r] /\ r.at \in {"idle", "write_err"}
    <3>1. CASE Return(t)
      BY <3>1, ReturnRec
    <3>2. ASSUME NEW refused \in BOOLEAN, NEW e \in Errors,
             th' = [th EXCEPT ![t].at = "write_err", ![t].end = refused, ![t].note = e]
          PROVE  \E r : th' = [th EXCEPT ![t] = r] /\ r.at \in {"idle", "write_err"}
      <4> DEFINE r == [th[t] EXCEPT !.at = "write_err", !.end = refused, !.note = e]
      <4>1. r.at = "write_err"
        BY <1>0 DEF ThreadsOK, Thread
      <4>2. th' = [th EXCEPT ![t] = r]
        BY <3>2
      <4>3. QED BY <4>1, <4>2
    <3>3. QED BY <2>2, <3>1, <3>2
  <2>4. QED BY <2>1, <2>3, QuietStep
<1>3. CASE WriteErr(t)
  <2>1. UNCHANGED <<life, q, boss, sock>> /\ ~Closer(th[t])
    BY <1>3 DEF WriteErr, sharedVars, Runs, At, Closer
  <2>2. PICK r : th' = [th EXCEPT ![t] = r] /\ r.at = "compare"
    BY <1>0, <1>3, GotoRec DEF WriteErr
  <2>3. QED BY <2>1, <2>2, QuietStep
<1>4. CASE Compare(t)
  <2>1. UNCHANGED <<life, q, boss, sock>> /\ ~Closer(th[t])
    BY <1>4 DEF Compare, objVars, sharedVars, Runs, At, Closer
  <2>2. Return(t) \/ Notify(t, th[t].note, TRUE)
    BY <1>4 DEF Compare
  <2>3. PICK r : th' = [th EXCEPT ![t] = r] /\ r.at \in {"idle", "check"}
    BY <1>0, <2>2, ReturnRec, NotifyRec, ZenonT(30)
  <2>4. QED BY <2>1, <2>3, QuietStep
<1>5. CASE Check(t)
  <2>1. UNCHANGED <<life, q, boss, sock>> /\ ~Closer(th[t])
    BY <1>5 DEF Check, objVars, sharedVars, Runs, At, Closer
  <2>2. Return(t) \/ Goto(t, "put") \/ Goto(t, "close")
    BY <1>5 DEF Check, AfterNotify
  <2>3. PICK r : th' = [th EXCEPT ![t] = r] /\ r.at \in {"idle", "put", "close"}
    BY <1>0, <2>2, ReturnRec, GotoRec
  <2>4. QED BY <2>1, <2>3, QuietStep
<1>6. CASE Put(t)
  <2>1. /\ UNCHANGED <<life, boss, sock>> /\ th[t].at = "put"
        /\ q' = Append(q, Package(th[t].note, th[t].ses))
    BY <1>6 DEF Put, objVars, Runs, At
  <2>2. PICK r : /\ th' = [th EXCEPT ![t] = r] /\ r.at = "assert"
                 /\ r.ses = th[t].ses /\ r.end = th[t].end
    BY <1>0, <1>6, GotoRec DEF Put
  <2>3. /\ Working(th[t]) /\ ~Closer(th[t]) /\ th[t].ses \in Sessions
        /\ th[t].note \in Errors => Closer(r)
        /\ th[t].note # "disconnected"
    <3>1. Working(th[t]) /\ ~Closer(th[t]) /\ th[t].ses \in Sessions
      BY <1>a, <1>b, <2>1, WorkingLabels DEF Closer
    <3>2. th[t].note \in Errors => Closer(r)
      BY <1>0, <2>1, <2>2 DEF Noted, Closer
    <3>3. th[t].note # "disconnected"
      BY <1>0, <2>1 DEF ThreadsOK, NoteLabels, Notes, Errors
    <3>4. QED BY <3>1, <3>2, <3>3
  <2> DEFINE s == th[t].ses
             st == th[t].note
  <2>4. s = th[t].ses /\ st = th[t].note
    OBVIOUS
  <2> HIDE DEF s, st
  <2>5. QED BY <2>1, <2>2, <2>3, <2>4, AppendStep
<1>7. CASE AssertMark(t)
  <2>1. UNCHANGED <<life, q, boss, sock>> /\ th[t].at = "assert"
    BY <1>7 DEF AssertMark, objVars, sharedVars, Runs, At
  <2>2. (th[t].end /\ Goto(t, "close")) \/ (~th[t].end /\ Return(t))
    BY <1>7 DEF AssertMark, AfterNotify
  <2>3. PICK r : /\ th' = [th EXCEPT ![t] = r]
                 /\ \/ ~th[t].end /\ r.at = "idle"
                    \/ r.at = "close" /\ r.ses = th[t].ses
    BY <1>0, <2>2, ReturnRec, GotoRec
  <2>4. QED BY <2>1, <2>3, QuietStep DEF Closer
<1>8. CASE Close(t)
  <2>1. UNCHANGED <<life, q, boss>> /\ th[t].at = "close"
        /\ sock' = [sock EXCEPT ![th[t].ses] = FALSE]
    BY <1>8 DEF Close, sharedVars, Runs, At
  <2>2. PICK r : th' = [th EXCEPT ![t] = r] /\ r.at = "announce" /\ r.ses = th[t].ses
    BY <1>0, <1>8, GotoRec DEF Close
  <2>3. /\ \A s \in Sessions : sock'[s] => sock[s]
        /\ ~sock'[r.ses]
    BY <1>0, <1>a, <1>b, <2>1, <2>2 DEF ObjectsOK
  <2>4. Closer(r)
    BY <2>2 DEF Closer
  <2>5. QED BY <2>1, <2>2, <2>3, <2>4, QuietStep
<1>9. CASE Announce(t)
  <2>1. /\ UNCHANGED <<life, boss, sock>> /\ th[t].at = "announce"
        /\ q' = Append(q, Package("disconnected", th[t].ses))
    BY <1>9 DEF Announce, objVars, Runs, At
  <2>2. PICK r : th' = [th EXCEPT ![t] = r] /\ r.at = "remove" /\ r.ses = th[t].ses
    BY <1>0, <1>9, GotoRec DEF Announce
  <2>3. Working(th[t]) /\ th[t].ses \in Sessions
    BY <1>a, <1>b, <2>1, WorkingLabels
  <2> DEFINE s == th[t].ses
             st == "disconnected"
  <2>4. s = th[t].ses /\ st = "disconnected" /\ st \notin Errors
    BY DEF Errors
  <2> HIDE DEF s, st
  <2>5. QED BY <2>1, <2>2, <2>3, <2>4, AppendStep
<1>10. CASE Remove(t)
  <2>1. /\ UNCHANGED <<life, q, sock>> /\ th[t].at = "remove"
        /\ boss' = boss \ {th[t].ses} /\ th[Joiner].at = "idle"
    BY <1>10 DEF Remove, objVars, Runs, At, Locked
  <2>2. PICK r : th' = [th EXCEPT ![t] = r] /\ r.at = "mark"
    BY <1>0, <1>10, GotoRec DEF Remove
  <2>3. /\ \A x \in Threads : th'[x] = IF x = t THEN r ELSE th[x]
        /\ Joiner \in Threads /\ th'[Joiner] = th[Joiner]
    BY <1>0, <2>2 DEF ThreadsOK, Threads
  <2>4. \A s : Announced(s)' = Announced(s) /\ Over(s)' = Over(s)
    BY <2>1, Zenon DEF Announced, Over
  <2>5. ~Closer(th[t])
    BY <2>1 DEF Closer
  <2>6. ErrorsAnswered'
    BY <2>1, <2>3, <2>5 DEF EndInv, ErrorsAnswered
  <2>7. SocketClosed'
    BY <2>1, <2>2, <2>3 DEF EndInv, SocketClosed
  <2>8. RemoversOK'
    BY <2>1, <2>2, <2>3, <2>4 DEF EndInv, RemoversOK, Pushing
  <2>9. Listed'
    BY <2>1, <2>3, <2>4 DEF EndInv, Listed, Joining, RemoversOK, Over
  <2>10. PushersOK'
    BY <2>2, <2>3 DEF EndInv, PushersOK
  <2>11. QED BY <2>6, <2>7, <2>8, <2>9, <2>10 DEF EndInv
<1>11. CASE Mark(t)
  <2>1. UNCHANGED <<life, q, boss, sock>> /\ ~Closer(th[t])
    BY <1>11 DEF Mark, sharedVars, Runs, At, Closer
  <2>2. PICK r : th' = [th EXCEPT ![t] = r] /\ r.at = "idle"
    BY <1>11, ReturnRec DEF Mark
  <2>3. QED BY <2>1, <2>2, QuietStep
<1>12. QED
  BY <1>1, <1>2, <1>3, <1>4, <1>5, <1>6, <1>7, <1>8, <1>9, <1>10, <1>11
  DEF Step, Notification, Disconected

LEMMA JoinEnd ==
  ASSUME EndInv, ActInv', JoinStep \/ \E s \in Sessions : JoinNew(s)
  PROVE  EndInv'
<1>0. /\ ThreadsOK /\ QueuesOK /\ ObjectsOK /\ Joiner \in Threads
      /\ th[Joiner] \in Thread
  BY DEF EndInv, ActInv, TypeInv, ThreadsOK, Threads
<1>a. ~Closer(th[Joiner]) /\ th[Joiner].at \notin {"announce", "remove"}
  BY DEF EndInv, ActInv, JoinerOK, Closer
<1>1. ASSUME NEW s0 \in Sessions, JoinNew(s0) PROVE EndInv'
  <2> DEFINE r == [th[Joiner] EXCEPT !.at = "associate", !.ses = s0]
  <2>1. /\ life[s0] = "none" /\ life' = [life EXCEPT ![s0] = "live"]
        /\ sock' = [sock EXCEPT ![s0] = TRUE] /\ th[Joiner].at = "idle"
        /\ th' = [th EXCEPT ![Joiner] = r]
    <3>1. /\ life[s0] = "none" /\ life' = [life EXCEPT ![s0] = "live"]
          /\ sock' = [sock EXCEPT ![s0] = TRUE] /\ th[Joiner].at = "idle"
          /\ th' = [th EXCEPT ![Joiner].at = "associate", ![Joiner].ses = s0]
      BY <1>1, Zenon DEF JoinNew, Runs, At
    <3>2. th' = [th EXCEPT ![Joiner] = r]
      BY <3>1
    <3>3. QED BY <3>1, <3>2
  <2>2. UNCHANGED <<q, boss>>
    BY <1>1, Zenon DEF JoinNew, sharedVars
  <2>3. r.at = "associate" /\ r.ses = s0
    BY <1>0 DEF Thread
  <2> HIDE DEF r
  <2>4. /\ \A x \in Threads : th'[x] = IF x = Joiner THEN r ELSE th[x]
        /\ \A s \in Sessions : life'[s] = IF s = s0 THEN "live" ELSE life[s]
        /\ \A s \in Sessions : sock'[s] = IF s = s0 THEN TRUE ELSE sock[s]
    BY <1>0, <2>1 DEF ThreadsOK, ObjectsOK
  <2>5. \A s : Announced(s)' = Announced(s)
    BY <2>2, Zenon DEF Announced
  <2>6. ErrorsAnswered'
    BY <1>a, <2>2, <2>4 DEF EndInv, ErrorsAnswered
  <2>7. SocketClosed'
    <3>1. \A x \in Threads : th[x].at = "announce" =>
            th[x].ses \in Sessions /\ life[th[x].ses] = "live"
      BY <1>0, WorkingLabels, ActiveIsLive DEF EndInv, ThreadsOK
    <3>2. \A i \in DOMAIN q : q[i].ses \in Sessions /\ life[q[i].ses] = "live"
      BY <1>0, QueueTypes, QueueIsLive
    <3>3. QED BY <2>1, <2>2, <2>3, <2>4, <3>1, <3>2 DEF EndInv, SocketClosed
  <2>8. RemoversOK'
    <3>1. \A x \in Threads : th[x].at = "remove" =>
            Over(th[x].ses) /\ th[x].ses \in Sessions /\ th[x].ses \in boss
      BY <1>0, <2>1 DEF EndInv, RemoversOK, Pushing, ThreadsOK
    <3>2. \A s \in Sessions : Over(s) => Over(s)'
      BY <2>1, <2>4, <2>5 DEF Over
    <3>3. \A x \in Threads : th'[x].at = "remove" => x # Joiner /\ th'[x] = th[x]
      BY <2>3, <2>4
    <3>4. \A x \in Threads : th'[x].at = "remove" =>
            \A c : c = th'[x].ses => Over(c)' /\ c \in boss'
      BY <2>2, <3>1, <3>2, <3>3
    <3>5. QED BY <3>3, <3>4 DEF EndInv, RemoversOK, Over, Announced
  <2>9. Listed'
    BY <1>0, <2>1, <2>2, <2>3, <2>4, <2>5 DEF EndInv, Listed, Joining
  <2>10. PushersOK'
    BY <2>4 DEF EndInv, PushersOK
  <2>11. QED BY <2>6, <2>7, <2>8, <2>9, <2>10 DEF EndInv
<1>2. CASE JoinConnect
  <2>1. /\ UNCHANGED <<life, boss, sock>> /\ th[Joiner].at = "associate"
        /\ q' = Append(q, Package("connected", th[Joiner].ses))
    BY <1>2 DEF JoinConnect, objVars, Runs, At
  <2>2. PICK r : th' = [th EXCEPT ![Joiner] = r] /\ r.at = "push" /\ r.ses = th[Joiner].ses
    BY <1>0, <1>2, GotoRec DEF JoinConnect
  <2>3. Working(th[Joiner]) /\ th[Joiner].ses \in Sessions
    BY <1>0, <2>1, WorkingLabels DEF ThreadsOK
  <2> DEFINE s == th[Joiner].ses
             st == "connected"
  <2>4. s = th[Joiner].ses /\ st = "connected" /\ st \notin Errors
    BY DEF Errors
  <2> HIDE DEF s, st
  <2>5. QED BY <1>0, <1>a, <2>1, <2>2, <2>3, <2>4, AppendStep
\* Joining fails, or the session is pushed.
<1>3. CASE JoinFail \/ JoinPush
  <2>1. /\ UNCHANGED <<q, sock>> /\ th[Joiner].at \in {"associate", "push"}
        /\ \/ /\ life' = [life EXCEPT ![th[Joiner].ses] = "deleted"] /\ boss' = boss
              /\ th[Joiner].at = "associate"
           \/ /\ life' = life /\ boss' = boss \cup {th[Joiner].ses}
              /\ th[Joiner].at = "push"
    BY <1>3 DEF JoinFail, JoinPush, objVars, sharedVars, Runs, At
  <2>2. th' = [th EXCEPT ![Joiner] = Resting] /\ Resting.at = "idle"
    BY <1>3, ReturnRec DEF JoinFail, JoinPush
  <2>3. PICK s0 \in Sessions : s0 = th[Joiner].ses
    BY <1>0, <2>1 DEF ThreadsOK
  <2>4. \A x \in Threads : th'[x] = IF x = Joiner THEN Resting ELSE th[x]
    BY <1>0, <2>2 DEF ThreadsOK
  <2>5. /\ \A s : Announced(s)' = Announced(s)
        /\ \A s \in Sessions : life[s] = "deleted" => life'[s] = "deleted"
        /\ \A s \in Sessions : life'[s] = "live" => life[s] = "live"
        /\ boss \subseteq boss' /\ (life'[s0] # "live" \/ s0 \in boss')
        /\ th[Joiner].at = "push" => s0 \in boss'
    <3>1. \A s : Announced(s)' = Announced(s)
      BY <2>1, Zenon DEF Announced
    <3>2. QED BY <1>0, <2>1, <2>3, <3>1 DEF ObjectsOK
  <2>6. ErrorsAnswered'
    BY <1>a, <2>1, <2>4 DEF EndInv, ErrorsAnswered
  <2>7. SocketClosed'
    BY <2>1, <2>2, <2>4 DEF EndInv, SocketClosed
  <2>8. RemoversOK'
    <3>1. \A x \in Threads : th'[x].at = "remove" => x # Joiner /\ th'[x] = th[x]
      BY <2>2, <2>4
    <3>2. \A s \in Sessions : Over(s) => Over(s)'
      BY <2>5 DEF Over
    <3>3. \A x \in Threads : th'[x].at = "remove" =>
            \A c : c = th'[x].ses => Over(c)' /\ c \in boss'
      BY <1>0, <2>3, <2>5, <3>1, <3>2 DEF EndInv, RemoversOK, Pushing, ThreadsOK
    <3>4. QED BY <3>1, <3>3 DEF EndInv, RemoversOK, Over, Announced
  <2>9. Listed'
    BY <2>3, <2>5 DEF EndInv, Listed, Joining
  <2>10. PushersOK'
    BY <2>2, <2>4 DEF EndInv, PushersOK
  <2>11. QED BY <2>6, <2>7, <2>8, <2>9, <2>10 DEF EndInv
<1>4. QED BY <1>1, <1>2, <1>3 DEF JoinStep

LEMMA WorkerEnd ==
  ASSUME EndInv, ActInv', NEW w \in Workers, WorkerStep(w)
  PROVE  EndInv'
<1>0. ThreadsOK /\ w \in Threads /\ w # Joiner
  BY SessionAssumption DEF EndInv, ActInv, TypeInv, Threads
<1>1. CASE Dequeue(w)
  <2> DEFINE r == [at |-> IF Head(cq).olp = "send" THEN "send_done" ELSE "recv_done",
                   ses |-> Head(cq).ses, note |-> "none", end |-> ~Head(cq).ok]
  <2>1. UNCHANGED <<life, q, boss, sock>> /\ th[w].at = "idle"
    BY <1>1, Zenon DEF Dequeue, objVars, Runs, At
  <2>2. th' = [th EXCEPT ![w] = r]
    BY <1>1, Zenon DEF Dequeue
  <2>3. r.at \in {"send_done", "recv_done"} /\ ~Closer(th[w])
    BY <2>1 DEF Closer
  <2> HIDE DEF r
  <2>4. QED BY <1>0, <2>1, <2>2, <2>3, QuietStep
<1>2. CASE SendDone(w)
  <2>1. UNCHANGED <<life, q, boss, sock>> /\ ~Closer(th[w])
    BY <1>2 DEF SendDone, sharedVars, Runs, At, Closer
  <2>2. \/ Notify(w, "send_error", TRUE) \/ Notify(w, "send_finished", FALSE)
        \/ Goto(w, "WSASend")
    BY <1>2 DEF SendDone
  <2>3. \E r : th' = [th EXCEPT ![w] = r] /\ r.at \in {"check", "WSASend"}
    <3>1. CASE Notify(w, "send_error", TRUE)
      BY <1>0, <3>1, NotifyRec
    <3>2. CASE Notify(w, "send_finished", FALSE)
      BY <1>0, <3>2, NotifyRec
    <3>3. CASE Goto(w, "WSASend")
      BY <1>0, <3>3, GotoRec
    <3>4. QED BY <2>2, <3>1, <3>2, <3>3
  <2>4. QED BY <1>0, <2>1, <2>3, QuietStep
<1>3. CASE RecvDone(w)
  <2>1. UNCHANGED <<life, q, boss, sock>> /\ ~Closer(th[w])
    BY <1>3 DEF RecvDone, sharedVars, Runs, At, Closer
  <2>2. \/ Notify(w, "recv_error", TRUE) \/ Goto(w, "close") \/ Goto(w, "parse")
    BY <1>3 DEF RecvDone
  <2>3. \E r : th' = [th EXCEPT ![w] = r] /\ r.at \in {"check", "close", "parse"}
    <3>1. CASE Notify(w, "recv_error", TRUE)
      BY <1>0, <3>1, NotifyRec
    <3>2. CASE Goto(w, "close") \/ Goto(w, "parse")
      BY <1>0, <3>2, GotoRec
    <3>3. QED BY <2>2, <3>1, <3>2
  <2>4. QED BY <1>0, <2>1, <2>3, QuietStep
<1>4. QED BY <1>0, <1>1, <1>2, <1>3, StepEnd DEF WorkerStep

LEMMA GetEnd ==
  ASSUME EndInv, ActInv', LoopGet
  PROVE  EndInv'
<1>0. ThreadsOK /\ QueuesOK /\ ObjectsOK
  BY DEF EndInv, ActInv, TypeInv
<1>1. q # <<>> /\ q' = Tail(q) /\ UNCHANGED <<th, boss, sock>>
  BY DEF LoopGet
<1>2. PICK s0 \in Sessions :
        /\ s0 = Head(q).ses
        /\ \/ Head(q).status # "disconnected" /\ life' = life
           \/ life' = [life EXCEPT ![s0] = "deleted"]
  <2>1. Head(q) \in [status : Statuses, ses : Sessions]
    BY <1>0, <1>1, HeadTail DEF QueuesOK
  <2>2. QED BY <2>1 DEF LoopGet, Handle
<1>3. /\ DOMAIN q = 1..Len(q) /\ DOMAIN q' = 1..(Len(q) - 1) /\ Len(q) \in Nat \ {0}
      /\ \A i \in DOMAIN q' : q'[i] = q[i + 1]
      /\ Head(q) = q[1]
  <2>1. q \in Seq([status : Statuses, ses : Sessions])
    BY <1>0 DEF QueuesOK
  <2>2. /\ Tail(q) \in Seq([status : Statuses, ses : Sessions])
        /\ Len(Tail(q)) = Len(q) - 1 /\ Len(q) \in Nat \ {0}
        /\ \A i \in 1..Len(Tail(q)) : Tail(q)[i] = q[i + 1]
        /\ Head(q) = q[1]
    BY <1>1, <2>1, HeadTail
  <2>3. DOMAIN q = 1..Len(q) /\ DOMAIN q' = 1..Len(q')
    BY <1>1, <2>1, <2>2, Elements
  <2>4. QED BY <1>1, <2>2, <2>3
<1>4. /\ \A i \in DOMAIN q' : i + 1 \in DOMAIN q
      /\ \A i \in DOMAIN q : i = 1 \/ (i - 1 \in DOMAIN q' /\ q'[i - 1] = q[i])
  BY <1>3
<1>5. \A s \in Sessions : /\ life[s] = "deleted" => life'[s] = "deleted"
                          /\ life'[s] = "live" => life[s] = "live"
  BY <1>0, <1>2 DEF ObjectsOK
<1>6. \A s \in Sessions : Announced(s) => Announced(s)' \/ life'[s] = "deleted"
  <2>1. SUFFICES ASSUME NEW s \in Sessions, NEW i \in DOMAIN q, q[i].ses = s,
                        q[i].status = "disconnected"
                 PROVE  Announced(s)' \/ life'[s] = "deleted"
    BY DEF Announced
  <2>2. CASE i = 1
    BY <1>0, <1>2, <1>3, <2>1, <2>2 DEF ObjectsOK
  <2>3. CASE i # 1
    BY <1>4, <2>1, <2>3 DEF Announced
  <2>4. QED BY <2>2, <2>3
<1>7. \A s \in Sessions : Over(s) => Over(s)'
  BY <1>5, <1>6 DEF Over
<1>8. ErrorsAnswered'
  <2>1. SUFFICES ASSUME NEW i \in DOMAIN q', q'[i].status \in Errors
                 PROVE  \/ \E t \in Threads : th[t].ses = q'[i].ses /\ Closer(th[t])
                        \/ \E j \in DOMAIN q' : /\ j > i /\ q'[j].ses = q'[i].ses
                                                /\ q'[j].status = "disconnected"
    BY <1>1 DEF ErrorsAnswered
  <2>2. q'[i] = q[i + 1] /\ i + 1 \in DOMAIN q
    BY <1>3, <1>4
  <2>3. ASSUME NEW j \in DOMAIN q, j > i + 1, q[j].ses = q[i + 1].ses,
               q[j].status = "disconnected"
        PROVE  \E k \in DOMAIN q' : /\ k > i /\ q'[k].ses = q'[i].ses
                                   /\ q'[k].status = "disconnected"
    <3>1. j - 1 \in DOMAIN q' /\ q'[j - 1] = q[j] /\ j - 1 > i
      BY <1>3, <1>4, <2>3
    <3>2. QED BY <2>2, <2>3, <3>1
  <2>4. QED BY <2>1, <2>2, <2>3 DEF EndInv, ErrorsAnswered
<1>9. SocketClosed'
  BY <1>1, <1>3, <1>4 DEF EndInv, SocketClosed
<1>10. RemoversOK'
  <2>1. \A x \in Threads : th'[x].at = "remove" =>
          \A c : c = th'[x].ses => Over(c)' /\ (c \in boss' \/ Pushing(c)')
    BY <1>0, <1>1, <1>7 DEF EndInv, RemoversOK, Pushing, ThreadsOK
  <2>2. QED BY <1>1, <2>1 DEF EndInv, RemoversOK, Over, Announced, Pushing
<1>11. Listed'
  BY <1>1, <1>5, <1>6 DEF EndInv, Listed, Joining
<1>12. PushersOK'
  BY <1>1 DEF EndInv, PushersOK
<1>13. QED BY <1>8, <1>9, <1>10, <1>11, <1>12 DEF EndInv

LEMMA LoopEnd ==
  ASSUME EndInv, ActInv', LoopStep
  PROVE  EndInv'
<1>0. ThreadsOK /\ Loop \in Threads /\ Loop # Joiner /\ th[Loop] \in Thread
  BY SessionAssumption DEF EndInv, ActInv, TypeInv, ThreadsOK, Threads
<1>1. CASE LoopCall
  <2>1. UNCHANGED <<life, q, boss, sock>> /\ th[Loop].at = "idle"
    BY <1>1, Zenon DEF LoopCall, Runs, At
  <2>2. \/ th' = th
        \/ \E label \in {"WSASend", "parse"} : LoopStart(task.ses, label)
    BY <1>1 DEF LoopCall, Send, Recv, Quit
  <2>3. CASE th' = th
    BY <2>1, <2>3, StillStep
  <2>4. ASSUME NEW label \in {"WSASend", "parse"}, LoopStart(task.ses, label)
        PROVE  EndInv'
    <3> DEFINE r == [th[Loop] EXCEPT !.at = label, !.ses = task.ses]
    <3>1. r.at = label /\ ~Closer(th[Loop])
      BY <1>0, <2>1 DEF Thread, Closer
    <3>2. th' = [th EXCEPT ![Loop] = r]
      BY <2>4 DEF LoopStart
    <3> HIDE DEF r
    <3>3. QED BY <1>0, <2>1, <2>4, <3>1, <3>2, QuietStep
  <2>5. QED BY <2>2, <2>3, <2>4
<1>2. CASE LoopRefused
  <2>1. UNCHANGED <<life, q, boss, th, sock>>
    BY <1>2, Zenon DEF LoopRefused, objVars, sharedVars
  <2>2. QED BY <2>1, StillStep
<1>3. QED BY <1>0, <1>1, <1>2, GetEnd, StepEnd DEF LoopStep

LEMMA EndInvStep ==
  HalfDuplexApp /\ ~Debug => (EndInv /\ [Next]_vars => EndInv')
<1> SUFFICES ASSUME HalfDuplexApp, ~Debug, EndInv, [Next]_vars PROVE EndInv'
  OBVIOUS
<1>0. ActInv'
  BY ActInvStep DEF EndInv
<1>1. ASSUME NEW s \in Sessions, LoseLink(s) \/ \E k \in Kinds : Complete(s, k)
      PROVE  EndInv'
  <2>1. UNCHANGED <<life, q, boss, th, sock>>
    BY <1>1, Zenon DEF LoseLink, Complete, sharedVars
  <2>2. QED BY <1>0, <2>1, StillStep
<1>2. ASSUME NEW t \in Threads, Crash(t) PROVE EndInv'
  <2>1. UNCHANGED <<life, q, boss, th, sock>>
    BY <1>2, Zenon DEF Crash, objVars, sharedVars
  <2>2. QED BY <1>0, <2>1, StillStep
<1>3. CASE UNCHANGED vars
  <2>1. UNCHANGED <<life, q, boss, th, sock>>
    BY <1>3, Zenon DEF vars, objVars, sharedVars
  <2>2. QED BY <1>0, <2>1, StillStep
<1>4. QED
  BY <1>0, <1>1, <1>2, <1>3, JoinEnd, WorkerEnd, LoopEnd DEF Next

LEMMA InitEnd == Init => EndInv
<1> SUFFICES ASSUME Init PROVE EndInv
  OBVIOUS
<1>1. ActInv
  BY InitAct
<1>2. q = <<>> /\ \A t \in Threads : th[t].at = "idle"
  BY DEF Init, Resting
<1>3. DOMAIN q = {}
  BY <1>2
<1>4. \A s \in Sessions : life[s] = "none"
  BY DEF Init
<1>5. ErrorsAnswered /\ SocketClosed
  BY <1>2, <1>3 DEF ErrorsAnswered, SocketClosed
<1>6. RemoversOK /\ Listed /\ PushersOK
  BY <1>2, <1>4 DEF RemoversOK, Listed, PushersOK
<1>7. QED BY <1>1, <1>5, <1>6 DEF EndInv

-----------------------------------------------------------------------------
(* What follows.                                                           *)

\* Whatever the number of sessions and of workers: nothing of a session comes
\* after its "disconnected", and the queue never names a session that
\* on_disconnected has deleted (iocp_session.h:252-259).
THEOREM DisconnectedIsLastHolds ==
  ASSUME HalfDuplexApp, ~Debug
  PROVE  Spec => []DisconnectedIsLast
<1>1. ASSUME EndInv PROVE DisconnectedIsLast
  <2>1. \A i \in DOMAIN q : life[q[i].ses] = "live"
    BY <1>1, QueueIsLive
  <2>2. ASSUME NEW i \in DOMAIN q, q[i].status = "disconnected",
               NEW j \in DOMAIN q, j > i, q[j].ses = q[i].ses
        PROVE  FALSE
    <3> DEFINE s == q[i].ses
    <3>1. /\ s \in Sessions /\ DOMAIN q = 1..Len(q) /\ Len(q) \in Nat
      BY <1>1, QueueTypes DEF EndInv, ActInv, TypeInv
    <3>2. i \in Packages(s)
      BY <2>2 DEF Packages, Errors
    <3>3. Packages(s) = {i} /\ Inside(s) = {}
      BY <1>1, <3>1, <3>2, Alone DEF EndInv, ActInv
    <3>4. CASE q[j].status \notin Errors
      <4>1. j \in Packages(s)
        BY <2>2, <3>4 DEF Packages
      <4>2. QED BY <2>2, <3>1, <3>3, <4>1
    <3>5. CASE q[j].status \in Errors
      <4>1. ASSUME NEW t \in Threads, th[t].ses = q[j].ses, Closer(th[t])
            PROVE  FALSE
        <5>1. t \in Inside(s)
          BY <2>2, <4>1, WorkingLabels DEF Closer, Inside
        <5>2. QED BY <3>3, <5>1
      <4>2. ASSUME NEW k \in DOMAIN q, k > j, q[k].ses = q[j].ses,
                   q[k].status = "disconnected"
            PROVE  FALSE
        <5>1. k \in Packages(s)
          BY <2>2, <4>2 DEF Packages, Errors
        <5>2. QED BY <2>2, <3>1, <3>3, <4>2, <5>1
      <4>3. QED BY <1>1, <3>5, <4>1, <4>2 DEF EndInv, ErrorsAnswered
    <3>6. QED BY <3>4, <3>5
  <2>3. QED BY <2>1, <2>2 DEF DisconnectedIsLast
<1>2. EndInv /\ [Next]_vars => EndInv'
  BY EndInvStep
<1>3. EndInv => DisconnectedIsLast
  BY <1>1
<1>4. QED
  BY <1>2, <1>3, InitEnd, PTL DEF Spec

\* When the loop is told to delete a session its socket is closed, and neither
\* the kernel nor the port can touch it or its OVERLAPPEDs again: deleting it in
\* on_disconnected is safe as far as I/O is concerned.
THEOREM NoIoAfterDisconnectHolds ==
  ASSUME HalfDuplexApp, ~Debug
  PROVE  Spec => []NoIoAfterDisconnect
<1>1. ASSUME EndInv PROVE NoIoAfterDisconnect
  <2>1. SUFFICES ASSUME NEW i \in DOMAIN q, q[i].status = "disconnected"
                 PROVE  /\ ~sock[q[i].ses] /\ io[q[i].ses] = {}
                        /\ \A n \in DOMAIN cq : cq[n].ses # q[i].ses
    BY DEF NoIoAfterDisconnect
  <2>2. q[i].ses \in Sessions
    BY <1>1, QueueTypes DEF EndInv, ActInv, TypeInv
  <2>3. i \in Packages(q[i].ses)
    BY <2>1 DEF Packages, Errors
  <2>4. io[q[i].ses] = {} /\ Packets(q[i].ses) = {}
    BY <1>1, <2>2, <2>3, Alone DEF EndInv, ActInv
  <2>5. QED BY <1>1, <2>1, <2>4 DEF EndInv, SocketClosed, Packets
<1>2. EndInv /\ [Next]_vars => EndInv'
  BY EndInvStep
<1>3. EndInv => NoIoAfterDisconnect
  BY <1>1
<1>4. QED
  BY <1>2, <1>3, InitEnd, PTL DEF Spec

\* session_remove() always finds the session: it is in the list by then, since
\* session_join holds _cs until it is, and no other thread has removed it (the
\* ASSERT(0) "removed twice?", iocp_session.h:207-208, never fails).
THEOREM RemoveFindsSessionHolds ==
  ASSUME HalfDuplexApp, ~Debug
  PROVE  Spec => []RemoveFindsSession
<1>1. EndInv => RemoveFindsSession
  BY DEF EndInv, RemoversOK, Pushing, RemoveFindsSession, At, Locked
<1>2. EndInv /\ [Next]_vars => EndInv'
  BY EndInvStep
<1>3. QED
  BY <1>1, <1>2, InitEnd, PTL DEF Spec

\* The optimised build touches a deleted session in three places at most, all of
\* them on a thread's way out of it: never in process_iocp, in a call of a
\* handler, in the queue or in the handler itself.
THEOREM FreedOnlyWhileLeavingHolds ==
  ASSUME HalfDuplexApp, ~Debug
  PROVE  Spec => []FreedOnlyWhileLeaving
<1>1. ASSUME EndInv PROVE FreedOnlyWhileLeaving
  <2>1. SUFFICES ASSUME NEW t \in Threads, UsesFreed(t)
                 PROVE  th[t].at \in {"write_err", "remove", "mark"}
    BY DEF FreedOnlyWhileLeaving
  <2>2. ActInv /\ ThreadsOK /\ t \in Threads
    BY <1>1 DEF EndInv, ActInv, TypeInv
  <2>3. CASE t # Joiner /\ th[t].at # "idle"
    <3>1. life[th[t].ses] = "deleted" /\ th[t].at \notin {"assert", "compare"}
      BY <2>1, <2>3 DEF UsesFreed, At
    <3>2. th[t].ses \in Sessions /\ th[t].at \in Labels
      BY <2>2, <2>3 DEF ThreadsOK, Thread
    <3>3. ~Working(th[t])
      BY <2>2, <3>1, <3>2, ActiveIsLive
    <3>4. th[t].at # "push"
      BY <1>1, <2>3 DEF EndInv, PushersOK
    <3>5. QED BY <2>3, <3>1, <3>2, <3>3, <3>4 DEF Working
  <2>4. CASE ~(t # Joiner /\ th[t].at # "idle")
    <3>1. \/ task # NoTask /\ life[task.ses] = "deleted"
          \/ q # <<>> /\ life[Head(q).ses] = "deleted"
      BY <2>1, <2>4 DEF UsesFreed, At
    <3>2. task # NoTask => life[task.ses] = "live"
      BY <2>2, ActiveIsLive
    <3>3. q # <<>> => life[Head(q).ses] = "live"
      <4>1. q \in Seq([status : Statuses, ses : Sessions])
        BY <2>2 DEF ActInv, TypeInv, QueuesOK
      <4>2. q # <<>> => Head(q) = q[1] /\ 1 \in DOMAIN q
        BY <4>1, HeadTail, Elements
      <4>3. QED BY <1>1, <4>2, QueueIsLive
    <3>4. QED BY <3>1, <3>2, <3>3
  <2>5. QED BY <2>3, <2>4
<1>2. EndInv => FreedOnlyWhileLeaving
  BY <1>1
<1>3. EndInv /\ [Next]_vars => EndInv'
  BY EndInvStep
<1>4. QED
  BY <1>2, <1>3, InitEnd, PTL DEF Spec
=============================================================================
