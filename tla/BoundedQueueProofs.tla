------------------------- MODULE BoundedQueueProofs -------------------------
(***************************************************************************)
(* Proofs about BoundedQueue, for any items, any threads on both sides and *)
(* any bound: the count and the indices, the wake-ups, and that the deque  *)
(* and the ring alike implement BoundedMailbox.                            *)
(***************************************************************************)
EXTENDS BoundedQueue, SequenceTheorems, TLAPS

Slots == [0..Bound -> Items \cup {Nil}]

\* The parts of the inductive invariant.  A ring that has not been stopped has
\* its array, so that put and get find one.
DataOK ==
  /\ ring \in BOOLEAN
  /\ queue \in Seq(Items) /\ count = Len(queue) /\ count \in 0..Bound
  /\ buf = <<>> \/ buf \in Slots
  /\ first \in 0..Bound /\ last \in 0..Bound
ControlOK ==
  /\ stop \in BOOLEAN /\ told \subseteq {"get", "put"}
  /\ notFull \in BOOLEAN /\ notEmpty \in BOOLEAN
  /\ pc \in [Threads -> {"idle", "wait", "woken"}]
  /\ arg \in [Threads -> Items \cup {Nil}]
HasArray == ring /\ ~stop => buf \in Slots

\* A waiting putter, and nobody else, brings an item.
Brings ==
  \A t \in Threads : /\ pc[t] = "idle" => arg[t] = Nil
                     /\ pc[t] # "idle" /\ t \in Putters => arg[t] \in Items

\* Whoever has been told finds its event set, waiting or not.
ToldOK ==
  /\ told # {} => stop
  /\ "get" \in told => notEmpty
  /\ "put" \in told => notFull

Inv == DataOK /\ ControlOK /\ HasArray /\ Brings /\ ToldOK

-----------------------------------------------------------------------------
(* Arithmetic of the ring.                                                 *)

SizeOf(f, l) == (f - l - 1 + N) % N
Slot(l, i)   == (l + i) % N
Succ(l)      == (l + 1) % N

LEMMA ModRange == ASSUME NEW a \in Int PROVE a % N \in 0..Bound
  BY BoundedQueueAssumption DEF N

LEMMA ModOnce ==
  ASSUME NEW a \in 0..(2 * N - 1)
  PROVE  a % N = IF a < N THEN a ELSE a - N
<1>. N \in Nat \ {0}
  BY BoundedQueueAssumption DEF N
<1>. QED OBVIOUS

\* The size of a ring and a slot's index, written without the remainder.
LEMMA SizeOfRing ==
  ASSUME NEW f \in 0..Bound, NEW l \in 0..Bound
  PROVE  /\ SizeOf(f, l) = IF f > l THEN f - l - 1 ELSE f - l + Bound
         /\ SizeOf(f, l) \in 0..Bound
         /\ SizeOf(f, l) = Bound <=> f = l
<1> DEFINE a == f - l - 1 + N
<1>1. a \in 0..(2 * N - 1)
  BY BoundedQueueAssumption DEF N
<1>2. SizeOf(f, l) = a % N
  BY DEF SizeOf
<1> HIDE DEF a
<1>3. SizeOf(f, l) = IF a < N THEN a ELSE a - N
  BY <1>1, <1>2, ModOnce
<1> USE DEF a
<1>4. QED
  BY <1>3, BoundedQueueAssumption DEF N

LEMMA SlotOfRing ==
  ASSUME NEW l \in 0..Bound, NEW i \in 0..N
  PROVE  /\ Slot(l, i) = IF l + i <= Bound THEN l + i ELSE l + i - Bound - 1
         /\ Slot(l, i) \in 0..Bound
<1> DEFINE a == l + i
<1>1. a \in 0..(2 * N - 1)
  BY BoundedQueueAssumption DEF N
<1>2. Slot(l, i) = a % N
  BY DEF Slot
<1> HIDE DEF a
<1>3. Slot(l, i) = IF a < N THEN a ELSE a - N
  BY <1>1, <1>2, ModOnce
<1> USE DEF a
<1>4. QED
  BY <1>3, BoundedQueueAssumption DEF N

LEMMA SuccOfRing ==
  ASSUME NEW l \in 0..Bound
  PROVE  /\ Succ(l) = IF l = Bound THEN 0 ELSE l + 1
         /\ Succ(l) \in 0..Bound
<1> DEFINE a == l + 1
<1>1. a \in 0..(2 * N - 1)
  BY BoundedQueueAssumption DEF N
<1>2. Succ(l) = a % N
  BY DEF Succ
<1> HIDE DEF a
<1>3. Succ(l) = IF a < N THEN a ELSE a - N
  BY <1>1, <1>2, ModOnce
<1> USE DEF a
<1>4. QED
  BY <1>3, BoundedQueueAssumption DEF N

\* When _first moves on, the slot written comes after all the others, ...
LEMMA AfterStore ==
  ASSUME NEW f \in 0..Bound, NEW l \in 0..Bound, f # l,
         NEW n, n = SizeOf(f, l)
  PROVE  /\ SizeOf(Succ(f), l) = n + 1
         /\ \A i \in 1..n : Slot(l, i) \in 0..Bound \ {f}
         /\ Slot(l, n + 1) = f
<1>0. n = (IF f > l THEN f - l - 1 ELSE f - l + Bound) /\ n \in 0..(Bound - 1)
  <2>1. /\ n = IF f > l THEN f - l - 1 ELSE f - l + Bound
        /\ n \in 0..Bound /\ (n = Bound <=> f = l)
    BY SizeOfRing
  <2>2. QED
    BY <2>1, BoundedQueueAssumption
<1>1. SizeOf(Succ(f), l) = n + 1
  <2> DEFINE g == Succ(f)
  <2>1. g = (IF f = Bound THEN 0 ELSE f + 1) /\ g \in 0..Bound
    BY SuccOfRing
  <2> HIDE DEF g
  <2>2. SizeOf(g, l) = IF g > l THEN g - l - 1 ELSE g - l + Bound
    BY <2>1, SizeOfRing
  <2>3. SizeOf(g, l) = n + 1
    BY <1>0, <2>1, <2>2, BoundedQueueAssumption
  <2>4. QED
    BY <2>3 DEF g
<1>2. ASSUME NEW i \in 1..(n + 1)
      PROVE  /\ Slot(l, i) = IF l + i <= Bound THEN l + i ELSE l + i - Bound - 1
             /\ Slot(l, i) \in 0..Bound
  <2>1. i \in 0..N
    BY <1>0, BoundedQueueAssumption DEF N
  <2>2. QED
    BY <2>1, SlotOfRing
<1>3. ASSUME NEW i \in 1..n PROVE Slot(l, i) \in 0..Bound \ {f}
  <2>1. i \in 1..(n + 1)
    BY <1>0
  <2>2. /\ Slot(l, i) = IF l + i <= Bound THEN l + i ELSE l + i - Bound - 1
        /\ Slot(l, i) \in 0..Bound
    BY <1>2, <2>1
  <2>3. QED
    BY <1>0, <2>2, BoundedQueueAssumption
<1>4. Slot(l, n + 1) = f
  <2> DEFINE j == n + 1
  <2>1. j \in 1..(n + 1)
    BY <1>0
  <2> HIDE DEF j
  <2>2. Slot(l, j) = IF l + j <= Bound THEN l + j ELSE l + j - Bound - 1
    BY <1>2, <2>1
  <2> USE DEF j
  <2>3. (IF l + j <= Bound THEN l + j ELSE l + j - Bound - 1) = f
    BY <1>0, BoundedQueueAssumption
  <2>4. QED
    BY <2>2, <2>3
<1>5. QED
  BY <1>1, <1>3, <1>4

\* ... and when _last moves on, every slot moves up by one.
LEMMA AfterFetch ==
  ASSUME NEW f \in 0..Bound, NEW l \in 0..Bound,
         NEW n, n = SizeOf(f, l), n # 0
  PROVE  /\ SizeOf(f, Succ(l)) = n - 1
         /\ \A i \in 1..(n - 1) : Slot(Succ(l), i) = Slot(l, i + 1)
         /\ Succ(l) = Slot(l, 1)
<1>0. n = (IF f > l THEN f - l - 1 ELSE f - l + Bound) /\ n \in 1..Bound
  <2>1. /\ n = IF f > l THEN f - l - 1 ELSE f - l + Bound
        /\ n \in 0..Bound /\ (n = Bound <=> f = l)
    BY SizeOfRing
  <2>2. QED
    BY <2>1, BoundedQueueAssumption
<1> DEFINE m == Succ(l)
<1>1. m = (IF l = Bound THEN 0 ELSE l + 1) /\ m \in 0..Bound
  BY SuccOfRing
<1>2. m = Slot(l, 1)
  BY DEF Succ, Slot
<1> HIDE DEF m
<1>3. SizeOf(f, m) = n - 1
  <2>1. SizeOf(f, m) = IF f > m THEN f - m - 1 ELSE f - m + Bound
    BY <1>1, SizeOfRing
  <2>2. QED
    BY <1>0, <1>1, <2>1, BoundedQueueAssumption
<1>4. ASSUME NEW i \in 1..(n - 1) PROVE Slot(m, i) = Slot(l, i + 1)
  <2> DEFINE j == i + 1
  <2>1. i \in 0..N /\ j \in 0..N
    BY <1>0, BoundedQueueAssumption DEF N
  <2> HIDE DEF j
  <2>2. Slot(m, i) = IF m + i <= Bound THEN m + i ELSE m + i - Bound - 1
    BY <1>1, <2>1, SlotOfRing
  <2>3. Slot(l, j) = IF l + j <= Bound THEN l + j ELSE l + j - Bound - 1
    BY <2>1, SlotOfRing
  <2>4. Slot(m, i) = Slot(l, j)
    BY <1>0, <1>1, <2>2, <2>3, BoundedQueueAssumption DEF j
  <2>5. QED
    BY <2>4 DEF j
<1>5. QED
  BY <1>2, <1>3, <1>4 DEF m

\* What a ring with n elements behind slot l holds.
LEMMA Held ==
  ASSUME NEW b \in Slots, NEW l \in 0..Bound, NEW n \in 0..Bound,
         NEW c, c = [i \in 1..n |-> b[Slot(l, i)]]
  PROVE  c \in Seq(Items \cup {Nil}) /\ Len(c) = n
<1>1. ASSUME NEW i \in 1..n PROVE b[Slot(l, i)] \in Items \cup {Nil}
  <2>1. i \in 0..N
    BY BoundedQueueAssumption DEF N
  <2>2. Slot(l, i) \in 0..Bound
    BY <2>1, SlotOfRing
  <2>3. QED
    BY <2>2 DEF Slots
<1>2. c \in [1..n -> Items \cup {Nil}]
  BY <1>1
<1>3. n \in Nat
  BY BoundedQueueAssumption
<1>4. QED
  BY <1>2, <1>3

\* When a sequence is another one with an element added, or with the first taken.
LEMMA IsAppend ==
  ASSUME NEW S, NEW s \in Seq(S), NEW x \in S, NEW u \in Seq(S),
         Len(u) = Len(s) + 1, u[Len(u)] = x,
         \A i \in 1..Len(s) : u[i] = s[i]
  PROVE  u = Append(s, x)
<1>1. Append(s, x) \in Seq(S) /\ Len(Append(s, x)) = Len(u)
  BY AppendProperties
<1>2. \A i \in 1..Len(u) : u[i] = Append(s, x)[i]
  BY AppendProperties
<1>3. QED
  BY <1>1, <1>2, SeqEqual

LEMMA IsTail ==
  ASSUME NEW S, NEW s \in Seq(S), s # <<>>, NEW u \in Seq(S),
         Len(u) = Len(s) - 1,
         \A i \in 1..Len(u) : u[i] = s[i + 1]
  PROVE  u = Tail(s)
<1>1. Tail(s) \in Seq(S) /\ Len(Tail(s)) = Len(u)
  BY HeadTailProperties
<1>2. \A i \in 1..Len(u) : u[i] = Tail(s)[i]
  BY HeadTailProperties
<1>3. QED
  BY <1>1, <1>2, SeqEqual

-----------------------------------------------------------------------------
(* What Store and Fetch do to the data.                                    *)

LEMMA StoreData ==
  ASSUME Inv, ~stop, ~Full, NEW t, NEW x \in Items, Store(t, x),
         UNCHANGED <<ring, stop>>
  PROVE  DataOK' /\ notFull' \in BOOLEAN /\ notEmpty' \in BOOLEAN /\ HasArray'
<1> USE DEF Inv, DataOK, ControlOK, HasArray
<1>1. CASE ~ring
  <2>1. /\ queue' = Append(queue, x) /\ count' = count + 1
        /\ notFull' = (notFull /\ count' # Bound)
        /\ notEmpty' = TRUE
        /\ UNCHANGED <<buf, first, last>>
    BY <1>1 DEF Store, array
  <2>2. count # Bound
    BY <1>1 DEF Full
  <2>3. queue' \in Seq(Items) /\ Len(queue') = count + 1
    BY <2>1
  <2>4. QED
    BY <1>1, <2>1, <2>2, <2>3, BoundedQueueAssumption
<1>2. CASE ring
  <2>1. /\ buf' = [buf EXCEPT ![first] = x] /\ first' = (first + 1) % N
        /\ notEmpty' = TRUE
        /\ UNCHANGED <<queue, count, last, notFull>>
    BY <1>2 DEF Store, deque
  <2>2. first' \in 0..Bound
    BY <2>1, ModRange
  <2>3. buf' \in Slots
    BY <1>2, <2>1 DEF Slots
  <2>4. QED
    BY <1>2, <2>1, <2>2, <2>3
<1>3. QED
  BY <1>1, <1>2

LEMMA FetchData ==
  ASSUME Inv, ~stop, ~Empty, NEW t, Fetch(t), UNCHANGED <<ring, stop>>
  PROVE  DataOK' /\ notFull' \in BOOLEAN /\ notEmpty' \in BOOLEAN /\ HasArray'
<1> USE DEF Inv, DataOK, ControlOK, HasArray
<1>1. CASE ~ring
  <2>1. /\ queue' = Tail(queue) /\ count' = count - 1
        /\ notEmpty' = (notEmpty /\ count' # 0)
        /\ notFull' = TRUE
        /\ UNCHANGED <<buf, first, last>>
    BY <1>1 DEF Fetch, FetchFrom, array
  <2>2. count # 0
    BY <1>1 DEF Empty
  <2>3. queue' \in Seq(Items) /\ Len(queue') = count - 1
    BY <2>1, <2>2
  <2>4. QED
    BY <1>1, <2>1, <2>2, <2>3, BoundedQueueAssumption
<1>2. CASE ring
  <2>1. /\ last' = (last + 1) % N
        /\ notFull' = TRUE
        /\ UNCHANGED <<queue, count, buf, first, notEmpty>>
    BY <1>2 DEF Fetch, FetchFrom, deque
  <2>2. last' \in 0..Bound
    BY <2>1, ModRange
  <2>3. QED
    BY <1>2, <2>1, <2>2 DEF Slots
<1>3. QED
  BY <1>1, <1>2

-----------------------------------------------------------------------------
LEMMA InitInv == Init => Inv
<1> SUFFICES ASSUME Init PROVE Inv
  OBVIOUS
<1>1. queue \in Seq(Items) /\ count = Len(queue) /\ count \in 0..Bound
  BY BoundedQueueAssumption DEF Init
<1>2. ring \in BOOLEAN /\ (buf = <<>> \/ buf \in Slots) /\ (ring => buf \in Slots)
  BY DEF Init, Fresh, Slots
<1>3. first \in 0..Bound /\ last \in 0..Bound
  BY BoundedQueueAssumption DEF Init, N
<1>4. ControlOK /\ Brings /\ ToldOK
  BY DEF Init, ControlOK, Brings, ToldOK
<1>5. QED
  BY <1>1, <1>2, <1>3, <1>4 DEF Inv, DataOK, HasArray

\* A thread that leaves or enters its waiting keeps its item with it.
LEMMA Leaves ==
  ASSUME Inv, NEW t \in Threads,
         pc' = [pc EXCEPT ![t] = "idle"], arg' = [arg EXCEPT ![t] = Nil]
  PROVE  /\ pc' \in [Threads -> {"idle", "wait", "woken"}]
         /\ arg' \in [Threads -> Items \cup {Nil}]
         /\ Brings'
  BY DEF Inv, ControlOK, Brings

LEMMA StepInv == Inv /\ [Next]_vars => Inv'
<1> SUFFICES ASSUME Inv, [Next]_vars PROVE Inv'
  OBVIOUS
<1>1. ASSUME NEW t \in Putters, NEW x \in Items, Put(t, x) PROVE Inv'
  <2>1. ~stop /\ ~Full /\ Store(t, x) /\ UNCHANGED <<ring, stop, told, pc, arg>>
    BY <1>1, BoundedQueueAssumption DEF Put, MustWait
  <2>2. DataOK' /\ notFull' \in BOOLEAN /\ notEmpty' \in BOOLEAN /\ HasArray'
    BY <2>1, StoreData, Zenon
  <2>3. QED
    BY <2>1, <2>2 DEF Inv, ControlOK, Brings, ToldOK
<1>2. ASSUME NEW t \in Getters, Get(t) PROVE Inv'
  <2>1. ~stop /\ ~Empty /\ Fetch(t) /\ UNCHANGED <<ring, stop, told, pc, arg>>
    BY <1>2 DEF Get, MustWait
  <2>2. DataOK' /\ notFull' \in BOOLEAN /\ notEmpty' \in BOOLEAN /\ HasArray'
    BY <2>1, FetchData, Zenon
  <2>3. QED
    BY <2>1, <2>2 DEF Inv, ControlOK, Brings, ToldOK
<1>3. ASSUME NEW t, NEW o, Refuse(t, o) PROVE Inv'
  BY <1>3 DEF Refuse, Inv, DataOK, ControlOK, HasArray, Brings, ToldOK, deque, array, events
<1>4. ASSUME NEW t, NEW o, Decline(t, o) PROVE Inv'
  BY <1>4 DEF Decline, Inv, DataOK, ControlOK, HasArray, Brings, ToldOK, deque, array, events
<1>5. ASSUME NEW t \in Threads, NEW x \in Items \cup {Nil}, Block(t, x),
             t \in Putters => x \in Items
      PROVE Inv'
  BY <1>5 DEF Block, Inv, DataOK, ControlOK, HasArray, Brings, ToldOK, deque, array, events
<1>6. ASSUME NEW t \in Threads, Wake(t) PROVE Inv'
  BY <1>6 DEF Wake, Inv, DataOK, ControlOK, HasArray, Brings, ToldOK, deque, array, events
<1>7. ASSUME NEW t \in Threads, Resume(t) PROVE Inv'
  <2> DEFINE o == IF t \in Getters THEN "get" ELSE "put"
  <2>0. Relock(t, o)
    BY <1>7 DEF Resume
  <2>1. CASE stop
    <3>1. /\ pc' = [pc EXCEPT ![t] = "idle"] /\ arg' = [arg EXCEPT ![t] = Nil]
          /\ UNCHANGED <<ring, deque, array, stop, told, events>>
      BY <2>0, <2>1 DEF Relock
    <3>2. QED
      BY <3>1, Leaves DEF Inv, DataOK, ControlOK, HasArray, ToldOK, deque, array, events
  <2>2. CASE ~stop /\ MustWait(t)
    <3>1. /\ pc' = [pc EXCEPT ![t] = "wait"] /\ pc[t] = "woken"
          /\ UNCHANGED <<ring, deque, array, stop, told, events, arg>>
      BY <2>0, <2>2 DEF Relock
    <3>2. QED
      BY <3>1 DEF Inv, DataOK, ControlOK, HasArray, Brings, ToldOK, deque, array, events
  <2>3. CASE ~stop /\ ~MustWait(t)
    <3>1. /\ pc' = [pc EXCEPT ![t] = "idle"] /\ arg' = [arg EXCEPT ![t] = Nil]
          /\ pc[t] = "woken"
          /\ UNCHANGED <<ring, stop, told>>
          /\ IF t \in Getters THEN Fetch(t) ELSE Store(t, arg[t])
      BY <2>0, <2>3 DEF Relock
    <3>2. DataOK' /\ notFull' \in BOOLEAN /\ notEmpty' \in BOOLEAN /\ HasArray'
      <4>1. CASE t \in Getters
        BY <2>3, <3>1, <4>1, FetchData DEF MustWait
      <4>2. CASE t \notin Getters
        <5>1. arg[t] \in Items
          BY <3>1, <4>2 DEF Inv, Brings, Threads
        <5>2. QED
          BY <2>3, <3>1, <4>2, <5>1, StoreData DEF MustWait
      <4>3. QED BY <4>1, <4>2
    <3>3. QED
      BY <2>3, <3>1, <3>2, Leaves DEF Inv, ControlOK, ToldOK
  <2>4. QED
    BY <2>1, <2>2, <2>3
<1>8. ASSUME NEW t \in Getters, NEW remove \in BOOLEAN, Peek(t, remove) PROVE Inv'
  <2>1. queue # <<>> /\ Tail(queue) \in Seq(Items) /\ Len(Tail(queue)) = count - 1
    BY <1>8 DEF Peek, Inv, DataOK
  <2>2. /\ UNCHANGED <<ring, array, stop, told, notEmpty, pc, arg>> /\ count > 0
        /\ \/ queue' = Tail(queue) /\ count' = count - 1 /\ notFull' = TRUE
           \/ UNCHANGED <<queue, count, notFull>>
    BY <1>8 DEF Peek, deque
  <2>3. queue' \in Seq(Items) /\ count' = Len(queue') /\ count' \in 0..Bound
    BY <2>1, <2>2, BoundedQueueAssumption DEF Inv, DataOK
  <2>4. notFull' \in BOOLEAN /\ UNCHANGED <<ring, buf, first, last, stop, told, notEmpty>>
    BY <2>2 DEF array, Inv, ControlOK
  <2>5. QED
    BY <2>2, <2>3, <2>4 DEF Inv, DataOK, ControlOK, HasArray, Brings, ToldOK
<1>9. ASSUME NEW sides \in SUBSET {"get", "put"}, Quit(sides) PROVE Inv'
  BY <1>9 DEF Quit, Inv, DataOK, ControlOK, HasArray, Brings, ToldOK, deque, array
<1>10. CASE Clear
  <2>1. /\ queue' = <<>> /\ count' = 0 /\ stop' = FALSE /\ told' = {} /\ ~ring
        /\ UNCHANGED <<ring, buf, first, last, pc, arg>>
        /\ UNCHANGED <<notFull, notEmpty>> \/ (notFull' = FALSE /\ notEmpty' = FALSE)
    BY <1>10 DEF Clear, array, events
  <2>2. queue' \in Seq(Items) /\ count' = Len(queue') /\ count' \in 0..Bound
    BY <2>1, BoundedQueueAssumption
  <2>3. QED
    BY <2>1, <2>2 DEF Inv, DataOK, ControlOK, HasArray, Brings, ToldOK
<1>11. CASE Free
  <2>1. /\ buf' = <<>> /\ stop
        /\ UNCHANGED <<ring, queue, count, first, last, stop, told, notFull, notEmpty,
                      pc, arg>>
    BY <1>11 DEF Free, deque, events
  <2>2. QED
    BY <2>1 DEF Inv, DataOK, ControlOK, HasArray, Brings, ToldOK
<1>12. CASE Reinit
  <2>1. buf' \in Slots /\ first' \in 0..Bound /\ last' \in 0..Bound
    BY <1>12, BoundedQueueAssumption DEF Reinit, Fresh, Slots, N
  <2>2. QED
    BY <1>12, <2>1
    DEF Reinit, Inv, DataOK, ControlOK, HasArray, Brings, ToldOK, deque
<1>13. CASE UNCHANGED vars
  BY <1>13 DEF vars, Inv, DataOK, ControlOK, HasArray, Brings, ToldOK, deque, array, events
<1>14. QED
  BY <1>1, <1>2, <1>3, <1>4, <1>5, <1>6, <1>7, <1>8, <1>9, <1>10, <1>11, <1>12,
     <1>13, BoundedQueueAssumption
  DEF Next, PutterCalls, GetterCalls, Threads

LEMMA InvHolds == Spec => []Inv
  BY InitInv, StepInv, PTL DEF Spec

\* Neither queue ever holds more than Bound elements, _count is the length of
\* the deque, and _first and _last stay within the array: in every order of
\* puts, gets, peeks, quits, clears and inits, of any number of threads.
THEOREM TypesHold == Spec => []TypeOK
<1>1. Inv => TypeOK
  BY DEF Inv, DataOK, ControlOK, TypeOK, Slots
<1>2. QED
  BY <1>1, InvHolds, PTL

-----------------------------------------------------------------------------
\* What Store and Fetch do to the conditions of the two sides.
LEMMA StoreSignals ==
  ASSUME Inv, ~Full, NEW t, NEW x, Store(t, x), UNCHANGED ring
  PROVE  notEmpty' /\ (notFull /\ ~Full' => notFull')
  BY DEF Store, Inv, ControlOK, Full

LEMMA FetchSignals ==
  ASSUME Inv, ~Empty, NEW t, Fetch(t), UNCHANGED ring
  PROVE  notFull' /\ (notEmpty /\ ~Empty' => notEmpty')
  BY DEF Fetch, FetchFrom, Inv, ControlOK, Empty

\* No wake-up is lost in either queue, for any number of threads on both sides:
\* whoever waits although it could go on, or has been told to quit, finds its
\* event set.  A thread of the same side that takes what had been signalled
\* resets the event of a deque only when nothing is left.
THEOREM NobodyMissesASignal == Spec => []NoLostWakeup
<1>1. Init => NoLostWakeup
  BY DEF Init, NoLostWakeup
<1>2. Inv /\ Inv' /\ NoLostWakeup /\ [Next]_vars => NoLostWakeup'
  <2> SUFFICES ASSUME Inv, Inv', NoLostWakeup, [Next]_vars,
                      NEW d \in Threads, pc'[d] = "wait", ~(MustWait(d)')
               PROVE  Event(d)'
    BY BoundedQueueAssumption DEF NoLostWakeup, Inv, ToldOK, Event, Threads
  <2>0. d \in Threads /\ pc[d] = "wait" /\ ~MustWait(d) => Event(d)
    BY DEF NoLostWakeup
  <2>1. ASSUME NEW t \in Putters, NEW x \in Items, Put(t, x) PROVE Event(d)'
    <3>1. ~Full /\ Store(t, x) /\ UNCHANGED ring /\ pc[d] = "wait"
      BY <2>1, BoundedQueueAssumption DEF Put, MustWait
    <3>2. QED
      BY <2>0, <3>1, StoreSignals DEF MustWait, Event
  <2>2. ASSUME NEW t \in Getters, Get(t) PROVE Event(d)'
    <3>1. ~Empty /\ Fetch(t) /\ UNCHANGED ring /\ pc[d] = "wait"
      BY <2>2 DEF Get, MustWait
    <3>2. QED
      BY <2>0, <3>1, FetchSignals DEF MustWait, Event
  <2>3. ASSUME UNCHANGED <<ring, deque, array, events>>,
               pc[d] = "wait" \/ MustWait(d)
        PROVE  Event(d)'
    BY <2>0, <2>3
    DEF deque, array, events, MustWait, Event, Full, Empty, RingSize
  <2>4. ASSUME NEW t, NEW o, Refuse(t, o) PROVE Event(d)'
    BY <2>3, <2>4 DEF Refuse
  <2>5. ASSUME NEW t, NEW o, Decline(t, o) PROVE Event(d)'
    BY <2>3, <2>5 DEF Decline
  <2>6. ASSUME NEW t \in Threads, NEW x, Block(t, x) PROVE Event(d)'
    <3>1. UNCHANGED <<ring, deque, array, events>>
      BY <2>6 DEF Block
    <3>2. pc[d] = "wait" \/ MustWait(d)
      BY <2>6 DEF Block, Inv, ControlOK
    <3>3. QED
      BY <2>3, <3>1, <3>2
  <2>7. ASSUME NEW t \in Threads, Wake(t) PROVE Event(d)'
    <3>1. UNCHANGED <<ring, deque, array, events>> /\ pc[d] = "wait"
      BY <2>7 DEF Wake, Inv, ControlOK
    <3>2. QED
      BY <2>3, <3>1
  <2>8. ASSUME NEW t \in Threads, Resume(t) PROVE Event(d)'
    <3>0. Relock(t, IF t \in Getters THEN "get" ELSE "put")
      BY <2>8 DEF Resume
    <3>1. CASE stop
      <4>1. UNCHANGED <<ring, deque, array, events>> /\ pc[d] = "wait"
        BY <3>0, <3>1 DEF Relock, Inv, ControlOK
      <4>2. QED
        BY <2>3, <4>1
    <3>2. CASE ~stop /\ MustWait(t)
      <4>1. UNCHANGED <<ring, deque, array, events>>
        BY <3>0, <3>2 DEF Relock
      <4>2. pc[d] = "wait" \/ MustWait(d)
        BY <3>0, <3>2 DEF Relock, Inv, ControlOK
      <4>3. QED
        BY <2>3, <4>1, <4>2
    <3>3. CASE ~stop /\ ~MustWait(t)
      <4>1. /\ pc' = [pc EXCEPT ![t] = "idle"] /\ UNCHANGED ring
            /\ IF t \in Getters THEN Fetch(t) ELSE Store(t, arg[t])
        BY <3>0, <3>3 DEF Relock
      <4>2. pc[d] = "wait"
        BY <4>1 DEF Inv, ControlOK
      <4>3. CASE t \in Getters
        BY <2>0, <3>3, <4>1, <4>2, <4>3, FetchSignals DEF MustWait, Event
      <4>4. CASE t \notin Getters
        BY <2>0, <3>3, <4>1, <4>2, <4>4, StoreSignals DEF MustWait, Event
      <4>5. QED BY <4>3, <4>4
    <3>4. QED BY <3>1, <3>2, <3>3
  <2>9. ASSUME NEW t \in Getters, NEW remove \in BOOLEAN, Peek(t, remove)
        PROVE  Event(d)'
    <3>1. /\ ~ring /\ count > 0 /\ UNCHANGED <<ring, pc, notEmpty>>
          /\ notFull' \/ UNCHANGED <<count, notFull>>
      BY <2>9 DEF Peek, deque
    <3>2. QED
      BY <2>0, <3>1 DEF MustWait, Event, Full, Empty, Inv, DataOK
  <2>10. ASSUME NEW sides \in SUBSET {"get", "put"}, Quit(sides) PROVE Event(d)'
    BY <2>0, <2>10
    DEF Quit, deque, array, MustWait, Event, Full, Empty, RingSize, Inv, ControlOK
  <2>11. CASE Clear BY <2>11 DEF Clear, Quiescent
  <2>12. CASE Free BY <2>12 DEF Free, Quiescent
  <2>13. CASE Reinit BY <2>13 DEF Reinit, Quiescent
  <2>14. CASE UNCHANGED vars
    BY <2>3, <2>14 DEF vars
  <2>15. QED
    BY <2>1, <2>2, <2>4, <2>5, <2>6, <2>7, <2>8, <2>9, <2>10, <2>11, <2>12,
       <2>13, <2>14
    DEF Next, PutterCalls, GetterCalls, Threads
<1>3. QED
  BY <1>1, <1>2, InvHolds, PTL DEF Spec

-----------------------------------------------------------------------------
(* The contents of a queue that is in use, in the order of arrival.        *)
InUse == ring => ~stop

LEMMA RingSizeRange ==
  ASSUME DataOK
  PROVE  RingSize = SizeOf(first, last) /\ RingSize \in 0..Bound
         /\ (RingSize = Bound <=> first = last)
<1>1. RingSize = SizeOf(first, last)
  BY Zenon DEF RingSize, SizeOf
<1>2. first \in 0..Bound /\ last \in 0..Bound
  BY DEF DataOK
<1>3. SizeOf(first, last) \in 0..Bound /\ (SizeOf(first, last) = Bound <=> first = last)
  BY <1>2, SizeOfRing
<1>4. QED
  BY <1>1, <1>3

LEMMA ContentsOfRing ==
  ASSUME Inv, ring, ~stop
  PROVE  /\ Contents = [i \in 1..RingSize |-> buf[Slot(last, i)]]
         /\ Contents \in Seq(Items \cup {Nil}) /\ Len(Contents) = RingSize
<1>1. buf \in Slots /\ 0 \in DOMAIN buf /\ last \in 0..Bound /\ RingSize \in 0..Bound
  BY RingSizeRange, BoundedQueueAssumption DEF Inv, DataOK, HasArray, Slots
<1>2. Contents = [i \in 1..RingSize |-> buf[Slot(last, i)]]
  BY <1>1 DEF Contents, Slot
<1>3. QED
  BY <1>1, <1>2, Held

LEMMA ContentsSeq ==
  ASSUME Inv, InUse
  PROVE  /\ Contents \in Seq(Items \cup {Nil})
         /\ Len(Contents) = IF ring THEN RingSize ELSE count
<1>1. CASE ~ring
  BY <1>1 DEF Contents, Inv, DataOK
<1>2. CASE ring
  BY <1>2, ContentsOfRing DEF InUse
<1>3. QED BY <1>1, <1>2

\* isfull() and isempty() say what the contents are.
LEMMA Readiness ==
  ASSUME Inv, InUse
  PROVE  /\ Empty <=> Contents = <<>>
         /\ Full <=> ~(Len(Contents) < Bound)
<1>1. Contents = <<>> <=> Len(Contents) = 0
  BY ContentsSeq
<1>2. RingSize \in 0..Bound /\ (RingSize = Bound <=> first = last)
      /\ count \in 0..Bound
  BY RingSizeRange DEF Inv, DataOK
<1>3. QED
  BY <1>1, <1>2, ContentsSeq, BoundedQueueAssumption DEF Empty, Full

\* What a put adds comes after all the rest, wherever the ring wraps.
LEMMA StoreAppends ==
  ASSUME Inv, Inv', ~stop, ~Full, NEW t, NEW x \in Items, Store(t, x),
         UNCHANGED <<ring, stop>>
  PROVE  Contents' = Append(Contents, x)
<1>1. CASE ~ring
  BY <1>1 DEF Store, Contents
<1>2. CASE ring
  <2>1. /\ buf' = [buf EXCEPT ![first] = x] /\ first' = Succ(first) /\ last' = last
        /\ buf \in Slots /\ first \in 0..Bound /\ last \in 0..Bound /\ first # last
    BY <1>2 DEF Store, Succ, Full, Inv, DataOK, HasArray
  <2>2. RingSize = SizeOf(first, last) /\ RingSize \in 0..(Bound - 1)
    BY <2>1, RingSizeRange, BoundedQueueAssumption DEF Inv
  <2>3. RingSize' = RingSize + 1
    <3>1. RingSize' = SizeOf(first', last')
      BY Zenon DEF RingSize, SizeOf
    <3>2. QED
      BY <2>1, <2>2, <3>1, AfterStore
  <2>4. /\ Contents = [i \in 1..RingSize |-> buf[Slot(last, i)]]
        /\ Contents \in Seq(Items \cup {Nil}) /\ Len(Contents) = RingSize
    BY <1>2, ContentsOfRing
  <2>5. /\ Contents' = [i \in 1..RingSize' |-> buf'[Slot(last', i)]]
        /\ Contents' \in Seq(Items \cup {Nil}) /\ Len(Contents') = RingSize'
    <3>1. /\ ring' /\ buf' \in Slots /\ 0 \in DOMAIN buf'
          /\ last' \in 0..Bound /\ RingSize' \in 0..Bound
      BY <1>2, <2>1, <2>2, <2>3, BoundedQueueAssumption
      DEF Inv, DataOK, HasArray, Slots
    <3>2. Contents' = [i \in 1..RingSize' |-> buf'[Slot(last', i)]]
      BY <3>1 DEF Contents, Slot
    <3>3. QED
      BY <3>1, <3>2, Held
  <2>6. ASSUME NEW i \in 1..RingSize PROVE Contents'[i] = Contents[i]
    <3>1. Slot(last, i) \in 0..Bound \ {first}
      BY <2>1, <2>2, AfterStore
    <3>2. buf'[Slot(last, i)] = buf[Slot(last, i)]
      BY <2>1, <3>1 DEF Slots
    <3>3. i \in 1..RingSize'
      BY <2>2, <2>3
    <3>4. QED
      BY <2>1, <2>4, <2>5, <3>2, <3>3
  <2>7. Contents'[RingSize'] = x
    <3>1. Slot(last, RingSize') = first
      BY <2>1, <2>2, <2>3, AfterStore
    <3>2. buf'[first] = x
      BY <2>1 DEF Slots
    <3>3. RingSize' \in 1..RingSize'
      BY <2>2, <2>3
    <3>4. QED
      BY <2>1, <2>5, <3>1, <3>2, <3>3
  <2> DEFINE u == Contents'
  <2>8. u \in Seq(Items \cup {Nil}) /\ Len(u) = Len(Contents) + 1
        /\ u[Len(u)] = x /\ \A i \in 1..Len(Contents) : u[i] = Contents[i]
    BY <2>3, <2>4, <2>5, <2>6, <2>7
  <2> HIDE DEF u
  <2>9. u = Append(Contents, x)
    BY <2>4, <2>8, IsAppend
  <2>10. QED
    BY <2>9 DEF u
<1>3. QED BY <1>1, <1>2

\* A get takes the oldest element.
LEMMA FetchTakes ==
  ASSUME Inv, Inv', ~stop, ~Empty, NEW t, Fetch(t), UNCHANGED <<ring, stop>>
  PROVE  /\ Contents' = Tail(Contents)
         /\ out' = [by |-> t, op |-> "get", item |-> Head(Contents),
                    ret |-> IF ring THEN 1 ELSE count - 1]
<1>1. CASE ~ring
  BY <1>1 DEF Fetch, FetchFrom, Contents, Return
<1>2. CASE ring
  <2>1. /\ last' = Succ(last) /\ buf' = buf /\ first' = first
        /\ first \in 0..Bound /\ last \in 0..Bound
        /\ out' = [by |-> t, op |-> "get", ret |-> 1, item |-> buf[Succ(last)]]
    BY <1>2 DEF Fetch, FetchFrom, Return, Succ, Inv, DataOK
  <2>2. RingSize = SizeOf(first, last) /\ RingSize \in 0..Bound /\ RingSize # 0
    BY <1>2, RingSizeRange DEF Inv, Empty
  <2>3. RingSize' = RingSize - 1
    <3>1. RingSize' = SizeOf(first', last')
      BY Zenon DEF RingSize, SizeOf
    <3>2. QED
      BY <2>1, <2>2, <3>1, AfterFetch
  <2>4. /\ Contents = [i \in 1..RingSize |-> buf[Slot(last, i)]]
        /\ Contents \in Seq(Items \cup {Nil}) /\ Len(Contents) = RingSize
    BY <1>2, ContentsOfRing
  <2>5. /\ Contents' = [i \in 1..RingSize' |-> buf'[Slot(last', i)]]
        /\ Contents' \in Seq(Items \cup {Nil}) /\ Len(Contents') = RingSize'
    <3>1. /\ ring' /\ buf' \in Slots /\ 0 \in DOMAIN buf'
          /\ last' \in 0..Bound /\ RingSize' \in 0..Bound
      BY <1>2, <2>1, <2>2, <2>3, BoundedQueueAssumption
      DEF Inv, DataOK, HasArray, Slots
    <3>2. Contents' = [i \in 1..RingSize' |-> buf'[Slot(last', i)]]
      BY <3>1 DEF Contents, Slot
    <3>3. QED
      BY <3>1, <3>2, Held
  <2>6. ASSUME NEW i \in 1..RingSize' PROVE Contents'[i] = Contents[i + 1]
    <3>0. \A j \in 1..(RingSize - 1) : Slot(Succ(last), j) = Slot(last, j + 1)
      BY <2>1, <2>2, AfterFetch
    <3>1. Slot(last', i) = Slot(last, i + 1)
      BY <2>1, <2>3, <3>0
    <3>2. i + 1 \in 1..RingSize
      BY <2>2, <2>3
    <3>3. QED
      BY <2>1, <2>4, <2>5, <3>1, <3>2
  <2> DEFINE u == Contents'
  <2>7. Contents # <<>>
    BY <2>2, <2>4
  <2>8. u \in Seq(Items \cup {Nil}) /\ Len(u) = Len(Contents) - 1
        /\ \A i \in 1..Len(u) : u[i] = Contents[i + 1]
    BY <2>3, <2>4, <2>5, <2>6
  <2> HIDE DEF u
  <2>9. u = Tail(Contents)
    BY <2>4, <2>7, <2>8, IsTail
  <2>10. Head(Contents) = buf[Succ(last)]
    <3>1. 1 \in 1..RingSize
      BY <2>2, BoundedQueueAssumption
    <3>2. Contents[1] = buf[Slot(last, 1)]
      BY <2>4, <3>1
    <3>3. QED
      BY <2>1, <2>2, <2>4, <2>7, <3>2, AfterFetch
  <2>11. QED
    BY <1>2, <2>1, <2>9, <2>10 DEF u
<1>3. QED BY <1>1, <1>2

-----------------------------------------------------------------------------
(* Steps of the queues as steps of the mailbox.                            *)

Waiting == {t \in Threads : pc[t] # "idle"}

\* How a call's return looks from outside.
LEMMA Outcomes ==
  ASSUME NEW t, NEW o, NEW r, NEW x, Return(t, o, r, x), UNCHANGED ring
  PROVE  [by |-> out.by, how |-> Outcome, item |-> out.item]'
           = [by |-> t, item |-> x,
              how |-> IF r = -1 THEN "refused"
                      ELSE IF r = 0 /\ ring THEN "declined" ELSE "done"]
  BY DEF Return, Outcome

\* A thread that returns no longer waits, and has nothing to bring.
LEMMA Returns ==
  ASSUME Inv, NEW t \in Threads,
         \/ pc[t] = "idle" /\ UNCHANGED <<pc, arg>>
         \/ pc' = [pc EXCEPT ![t] = "idle"] /\ arg' = [arg EXCEPT ![t] = Nil]
  PROVE  Waiting' = Waiting \ {t} /\ arg' = [arg EXCEPT ![t] = Nil]
  BY DEF Inv, ControlOK, Brings, Waiting

\* A thread is ready exactly when the mailbox has an item or room for it.
LEMMA ReadyThreads ==
  ASSUME Inv, InUse, NEW t \in Threads
  PROVE  MustWait(t) <=> ~M!Ready(t)
  BY Readiness DEF MustWait, M!Ready

LEMMA PutStep ==
  ASSUME Inv, Inv', ~stop, NEW t \in Putters, ~MustWait(t),
         NEW x \in Items, Store(t, x), UNCHANGED <<ring, stop, told>>,
         pc[t] # "idle" => x = arg[t],
         \/ pc[t] = "idle" /\ UNCHANGED <<pc, arg>>
         \/ pc' = [pc EXCEPT ![t] = "idle"] /\ arg' = [arg EXCEPT ![t] = Nil]
  PROVE  M!Put(t, x)
<1>0. t \in Threads /\ t \notin Getters /\ ~Full
  BY BoundedQueueAssumption DEF Threads, MustWait
<1>1. Contents' = Append(Contents, x)
  BY <1>0, StoreAppends
<1>2. Waiting' = Waiting \ {t} /\ arg' = [arg EXCEPT ![t] = Nil]
  BY <1>0, Returns
<1>3. M!Ready(t)
  BY <1>0, ReadyThreads DEF InUse
<1>4. [by |-> out.by, how |-> Outcome, item |-> out.item]'
        = [by |-> t, how |-> "done", item |-> Nil]
  <2>1. PICK r \in Nat \ {0} : Return(t, "put", r, Nil)
    BY DEF Store, Inv, DataOK
  <2>2. QED
    BY <2>1, Outcomes
<1>5. QED
  BY <1>1, <1>2, <1>3, <1>4 DEF M!Put, M!Return, Waiting

LEMMA TakeStep ==
  ASSUME Inv, Inv', ~stop, NEW t \in Getters, ~MustWait(t), Fetch(t),
         UNCHANGED <<ring, stop, told>>,
         \/ pc[t] = "idle" /\ UNCHANGED <<pc, arg>>
         \/ pc' = [pc EXCEPT ![t] = "idle"] /\ arg' = [arg EXCEPT ![t] = Nil]
  PROVE  M!Take(t)
<1>0. t \in Threads /\ ~Empty
  BY DEF Threads, MustWait
<1>1. /\ Contents' = Tail(Contents)
      /\ out' = [by |-> t, op |-> "get", item |-> Head(Contents),
                 ret |-> IF ring THEN 1 ELSE count - 1]
  BY <1>0, FetchTakes
<1>2. Waiting' = Waiting \ {t} /\ arg' = [arg EXCEPT ![t] = Nil]
  BY <1>0, Returns
<1>3. M!Ready(t)
  BY <1>0, ReadyThreads DEF InUse
<1>4. [by |-> out.by, how |-> Outcome, item |-> out.item]'
        = [by |-> t, how |-> "done", item |-> Head(Contents)]
  <2>1. CASE ring
    BY <1>1, <2>1 DEF Outcome
  <2>2. CASE ~ring
    <3>1. count - 1 # -1
      BY <1>0, <2>2 DEF Empty, Inv, DataOK
    <3>2. QED
      BY <1>1, <2>2, <3>1 DEF Outcome
  <2>3. QED BY <2>1, <2>2
<1>5. QED
  BY <1>1, <1>2, <1>3, <1>4 DEF M!Take, M!Return, Waiting

LEMMA RefuseStep ==
  ASSUME Inv, stop, NEW t \in Threads, NEW o, Return(t, o, -1, Nil),
         UNCHANGED <<ring, deque, array, stop, told>>,
         \/ pc[t] = "idle" /\ UNCHANGED <<pc, arg>>
         \/ pc' = [pc EXCEPT ![t] = "idle"] /\ arg' = [arg EXCEPT ![t] = Nil]
  PROVE  M!Refuse(t)
<1>1. Contents' = Contents
  BY DEF deque, array, Contents, RingSize
<1>2. Waiting' = Waiting \ {t} /\ arg' = [arg EXCEPT ![t] = Nil]
  BY Returns
<1>3. [by |-> out.by, how |-> Outcome, item |-> out.item]'
        = [by |-> t, how |-> "refused", item |-> Nil]
  BY Outcomes
<1>4. QED
  BY <1>1, <1>2, <1>3 DEF M!Refuse, M!Return, Waiting

\* queue_boundedT and ringbufT implement the bounded mailbox, for any threads
\* and any bound: items come out once each and in order, however the ring wraps
\* and whichever of several threads is woken; a refused or declined call brings
\* nothing; and a thread blocks or declines only when there is no item or room.
THEOREM RefinesBoundedMailbox == Spec => ImplementsBoundedMailboxSafety
<1>1. Init => M!Init
  <2> SUFFICES ASSUME Init PROVE M!Init
    OBVIOUS
  <2>1. Contents = <<>>
    <3>1. CASE ~ring
      BY <3>1 DEF Init, Contents
    <3>2. CASE ring
      <4>1. Inv /\ InUse
        BY InitInv DEF Init, InUse
      <4>2. RingSize = 0
        <5>1. RingSize = (0 - (N - 1) - 1 + N) % N
          BY DEF Init, RingSize
        <5>2. 0 - (N - 1) - 1 + N = 0 /\ 0 \in 0..(2 * N - 1)
          BY BoundedQueueAssumption DEF N
        <5>3. QED
          BY <5>1, <5>2, ModOnce, BoundedQueueAssumption DEF N
      <4>3. QED
        BY <4>1, <4>2, Readiness, <3>2 DEF Empty
    <3>3. QED BY <3>1, <3>2
  <2>2. Outcome = "done" /\ out.by = Nil /\ out.item = Nil
    BY DEF Init, Outcome
  <2>3. Waiting = {}
    BY DEF Init, Waiting
  <2>4. QED
    BY <2>1, <2>2, <2>3 DEF Init, M!Init, M!Threads, Threads, Waiting
<1>2. Inv /\ Inv' /\ [Next]_vars => [M!Next]_(M!vars)
  <2> SUFFICES ASSUME Inv, Inv', [Next]_vars PROVE [M!Next]_(M!vars)
    OBVIOUS
  <2>1. ASSUME NEW t \in Putters, NEW x \in Items, Put(t, x) PROVE M!Put(t, x)
    BY <2>1, PutStep DEF Put
  <2>2. ASSUME NEW t \in Getters, Get(t) PROVE M!Take(t)
    BY <2>2, TakeStep DEF Get
  <2>3. ASSUME NEW t \in Threads, NEW o, Refuse(t, o) PROVE M!Refuse(t)
    BY <2>3, RefuseStep DEF Refuse
  <2>4. ASSUME NEW t \in Threads, NEW o, Decline(t, o) PROVE M!Decline(t)
    <3>1. Contents' = Contents
      BY <2>4 DEF Decline, deque, array, Contents, RingSize
    <3>2. Waiting' = Waiting \ {t} /\ arg' = [arg EXCEPT ![t] = Nil]
      BY <2>4, Returns DEF Decline
    <3>3. ~M!Ready(t) /\ t \notin Waiting
      BY <2>4, ReadyThreads DEF Decline, InUse, Waiting
    <3>4. [by |-> out.by, how |-> Outcome, item |-> out.item]'
            = [by |-> t, how |-> "declined", item |-> Nil]
      BY <2>4, Outcomes DEF Decline
    <3>5. QED
      BY <2>4, <3>1, <3>2, <3>3, <3>4 DEF Decline, M!Decline, M!Return, Waiting
  <2>5. ASSUME NEW t \in Threads, NEW x, Block(t, x) PROVE M!Block(t, x)
    <3>1. Contents' = Contents /\ Outcome' = Outcome
      BY <2>5 DEF Block, deque, array, Contents, RingSize, Outcome
    <3>2. Waiting' = Waiting \cup {t} /\ t \notin Waiting
      BY <2>5 DEF Block, Waiting, Inv, ControlOK
    <3>3. ~M!Ready(t)
      BY <2>5, ReadyThreads DEF Block, InUse
    <3>4. QED
      BY <2>5, <3>1, <3>2, <3>3 DEF Block, M!Block, Waiting
  \* Waking, and waiting again, cannot be seen from outside.
  <2>6. ASSUME UNCHANGED <<ring, deque, array, stop, told, arg, out>>,
               Waiting' = Waiting
        PROVE  UNCHANGED M!vars
    <3>1. Contents' = Contents /\ Outcome' = Outcome
      BY <2>6 DEF deque, array, Contents, RingSize, Outcome
    <3>2. QED
      BY <2>6, <3>1 DEF M!vars, Waiting
  <2>7. ASSUME NEW t \in Threads, Wake(t) PROVE UNCHANGED M!vars
    <3>1. Waiting' = Waiting
      BY <2>7 DEF Wake, Waiting, Inv, ControlOK
    <3>2. QED
      BY <2>6, <2>7, <3>1 DEF Wake
  <2>8. ASSUME NEW t \in Threads, Resume(t)
        PROVE  \/ M!Refuse(t) \/ UNCHANGED M!vars
               \/ t \in Getters /\ M!Take(t)
               \/ t \in Putters /\ arg[t] \in Items /\ M!Put(t, arg[t])
    <3>0. Relock(t, IF t \in Getters THEN "get" ELSE "put")
      BY <2>8 DEF Resume
    <3>1. CASE stop
      BY <3>0, <3>1, RefuseStep DEF Relock
    <3>2. CASE ~stop /\ MustWait(t)
      <4>1. Waiting' = Waiting
        BY <3>0, <3>2 DEF Relock, Waiting, Inv, ControlOK
      <4>2. QED
        BY <2>6, <3>0, <3>2, <4>1 DEF Relock
    <3>3. CASE ~stop /\ ~MustWait(t)
      <4>1. /\ pc' = [pc EXCEPT ![t] = "idle"] /\ arg' = [arg EXCEPT ![t] = Nil]
            /\ pc[t] = "woken" /\ UNCHANGED <<ring, stop, told>>
            /\ IF t \in Getters THEN Fetch(t) ELSE Store(t, arg[t])
        BY <3>0, <3>3 DEF Relock
      <4>2. CASE t \in Getters
        BY <3>3, <4>1, <4>2, TakeStep
      <4>3. CASE t \notin Getters
        <5>1. t \in Putters /\ arg[t] \in Items
          BY <4>1, <4>3 DEF Threads, Inv, Brings
        <5>2. QED
          BY <3>3, <4>1, <4>3, <5>1, PutStep
      <4>4. QED BY <4>2, <4>3
    <3>4. QED BY <3>1, <3>2, <3>3
  <2>9. ASSUME NEW t \in Getters, NEW remove \in BOOLEAN, Peek(t, remove)
        PROVE  M!Look(t)
    <3>1. Contents = queue /\ Contents' = queue' /\ queue # <<>>
      BY <2>9 DEF Peek, Contents, Inv, DataOK
    <3>2. queue' \in {queue, Tail(queue)}
      BY <2>9 DEF Peek, deque
    <3>3. Waiting' = Waiting \ {t} /\ arg' = [arg EXCEPT ![t] = Nil]
          /\ t \notin Waiting
      BY <2>9, Returns DEF Peek, Threads, Waiting
    <3>4. [by |-> out.by, how |-> Outcome, item |-> out.item]'
            = [by |-> t, how |-> "done", item |-> Head(queue)]
      BY <2>9, Outcomes DEF Peek, Inv, DataOK
    <3>5. QED
      BY <2>9, <3>1, <3>2, <3>3, <3>4 DEF Peek, M!Look, M!Return, Waiting
  <2>10. ASSUME NEW sides \in SUBSET {"get", "put"}, Quit(sides)
         PROVE  M!Close(sides)
    <3>1. Contents' = Contents /\ Outcome' = Outcome
      BY <2>10 DEF Quit, deque, array, Contents, RingSize, Outcome
    <3>2. QED
      BY <2>10, <3>1 DEF Quit, M!Close
  <2>11. ASSUME Quiescent, UNCHANGED <<ring, pc, arg, out>>, Contents' = <<>>,
                \/ UNCHANGED <<stop, told>>
                \/ stop' = FALSE /\ told' = {}
         PROVE  M!Renew
    <3>1. Outcome' = Outcome
      BY <2>11 DEF Outcome
    <3>2. QED
      BY <2>11, <3>1 DEF Quiescent, M!Renew
  <2>12. CASE Clear
    BY <2>11, <2>12 DEF Clear, Contents, M!Next
  <2>13. CASE Free
    BY <2>11, <2>13 DEF Free, Contents, M!Next
  <2>14. CASE Reinit
    <3>1. RingSize' = 0
      <4>1. RingSize' = (0 - (N - 1) - 1 + N) % N
        BY <2>14 DEF Reinit, RingSize
      <4>2. 0 - (N - 1) - 1 + N = 0 /\ 0 \in 0..(2 * N - 1)
        BY BoundedQueueAssumption DEF N
      <4>3. QED
        BY <4>1, <4>2, ModOnce, BoundedQueueAssumption DEF N
    <3>2. Contents' = <<>>
      <4>1. Contents' = [i \in 1..0 |-> buf'[(last' + i) % N]]
            \/ Contents' = <<>>
        BY <2>14, <3>1 DEF Reinit, Contents
      <4>2. QED
        BY <4>1
    <3>3. QED
      BY <2>11, <2>14, <3>2 DEF Reinit, M!Next
  <2>15. CASE UNCHANGED vars
    <3>1. Waiting' = Waiting
      BY <2>15 DEF vars, Waiting
    <3>2. QED
      BY <2>6, <2>15, <3>1 DEF vars
  <2>16. ASSUME NEW t \in Putters, PutterCalls(t) PROVE M!Next
    BY <2>1, <2>3, <2>4, <2>5, <2>16
    DEF PutterCalls, M!Next, M!Threads, Threads
  <2>17. ASSUME NEW t \in Getters, GetterCalls(t) PROVE M!Next
    BY <2>2, <2>3, <2>4, <2>5, <2>9, <2>17
    DEF GetterCalls, M!Next, M!Threads, Threads
  <2>18. ASSUME NEW t \in Threads, Wake(t) \/ Resume(t) PROVE [M!Next]_(M!vars)
    <3>1. CASE Wake(t)
      BY <2>7, <3>1
    <3>2. CASE Resume(t)
      <4>1. M!Refuse(t) => M!Next
        BY DEF M!Next, M!Threads, Threads
      <4>2. t \in Getters /\ M!Take(t) => M!Next
        BY DEF M!Next
      <4>3. t \in Putters /\ arg[t] \in Items /\ M!Put(t, arg[t]) => M!Next
        BY Zenon DEF M!Next
      <4>4. QED
        BY <2>8, <3>2, <4>1, <4>2, <4>3, Zenon
    <3>3. QED BY <2>18, <3>1, <3>2
  <2>19. QED
    BY <2>10, <2>12, <2>13, <2>14, <2>15, <2>16, <2>17, <2>18 DEF Next, M!Next
<1>3. QED
  BY <1>1, <1>2, InvHolds, PTL
  DEF Spec, ImplementsBoundedMailboxSafety, M!SafeSpec

=============================================================================
