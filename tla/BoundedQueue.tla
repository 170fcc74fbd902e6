---------------------------- MODULE BoundedQueue ----------------------------
(***************************************************************************)
(* The bounded queues of sglib_queueT.h between any number of threads:     *)
(* queue_boundedT (a deque and a count) and ringbufT (a ring in an array). *)
(* They have the same structure: every method is a critical section, a     *)
(* thread that cannot go on gives the mutex up in wait_signal and starts   *)
(* over when it is woken.  Which of the two is run is chosen at the start. *)
(*                                                                         *)
(* Unlike the event of queueT these are MANUAL-RESET (condition(true)): an *)
(* event stays set, for every waiter, until somebody resets it.  A deque's *)
(* put and get reset the one they make false; peek(remove) and clear do    *)
(* not, and the ring never does, so that waiters may spin.                 *)
(***************************************************************************)
EXTENDS Integers, Sequences

CONSTANTS Items,    \* the values put into the queue
          Putters,  \* the threads that call put
          Getters,  \* the threads that call get and peek
          Nil,      \* no item
          Bound     \* the argument of queue_boundedT() and of ringbufT::init()

ASSUME BoundedQueueAssumption ==
  Bound \in Nat \ {0} /\ Nil \notin Items /\ Putters \cap Getters = {}

VARIABLES ring,              \* the object is a ringbufT
          queue, count,      \* _queue and _count of a deque
          buf, first, last,  \* _buf (<<>> when it is 0), _first, _last of a ring
          stop,              \* _stop
          told,              \* the sides whose quit method has been called
          notFull, notEmpty, \* the two events are set
          pc,                \* of a thread: "idle" (outside), "wait", "woken"
          arg,               \* the item a waiting putter brings
          out                \* the last call that returned

deque  == <<queue, count>>
array  == <<buf, first, last>>
events == <<notFull, notEmpty>>
vars   == <<ring, deque, array, stop, told, events, pc, arg, out>>

Threads == Putters \cup Getters
N == Bound + 1  \* _n, slots of the array

Fresh == [i \in 0..Bound |-> Nil]

Init ==
  /\ ring \in BOOLEAN
  /\ queue = <<>> /\ count = 0
  /\ buf = (IF ring THEN Fresh ELSE <<>>) /\ first = 0 /\ last = N - 1
  /\ stop = FALSE /\ told = {}
  /\ notFull = FALSE /\ notEmpty = FALSE
  /\ pc = [t \in Threads |-> "idle"]
  /\ arg = [t \in Threads |-> Nil]
  /\ out = [by |-> Nil, op |-> "none", ret |-> 1, item |-> Nil]

RingSize == (first - last - 1 + N) % N

Full_TooLate ==  \* fault: off by one
  IF ring THEN RingSize = N ELSE count > Bound
Full  == IF ring THEN first = last ELSE count = Bound
Empty == IF ring THEN RingSize = 0 ELSE count = 0

MustWait(t) == IF t \in Getters THEN Empty ELSE Full
Event(t)    == IF t \in Getters THEN notEmpty ELSE notFull
Return(t, o, r, x) == out' = [by |-> t, op |-> o, ret |-> r, item |-> x]

-----------------------------------------------------------------------------
\* The parts of put and get that store or fetch.  A deque returns its new
\* count, so that get() of the last element returns 0; a ring returns 1.
Store(t, x) ==
  /\ notEmpty' = TRUE
  /\ \/ /\ ~ring
        /\ queue' = Append(queue, x) /\ count' = count + 1
        /\ notFull' = (notFull /\ count' # Bound)
        /\ Return(t, "put", count', Nil)
        /\ UNCHANGED array
     \/ /\ ring
        /\ buf' = [buf EXCEPT ![first] = x] /\ first' = (first + 1) % N
        /\ Return(t, "put", 1, Nil)
        /\ UNCHANGED <<deque, last, notFull>>

\* slot is the one read by a ring.
FetchFrom(t, slot) ==
  \/ /\ ~ring
     /\ queue' = Tail(queue) /\ count' = count - 1
     /\ notEmpty' = (notEmpty /\ count' # 0)
     /\ Return(t, "get", count', Head(queue))
     /\ UNCHANGED array
  \/ /\ ring
     /\ last' = (last + 1) % N
     /\ Return(t, "get", 1, buf[slot])
     /\ UNCHANGED <<deque, buf, first, notEmpty>>

Fetch_NoSignal(t) ==  \* fault: waiting putters are not signalled
  FetchFrom(t, (last + 1) % N) /\ UNCHANGED notFull

Fetch_OldSlot(t) ==   \* fault: the slot is read before _last has moved on
  FetchFrom(t, last) /\ notFull' = TRUE

Fetch(t) == FetchFrom(t, (last + 1) % N) /\ notFull' = TRUE

-----------------------------------------------------------------------------
(* A call of put or get by a thread outside the queue.                     *)
Put(t, x) ==
  /\ pc[t] = "idle" /\ ~stop /\ ~MustWait(t)
  /\ Store(t, x)
  /\ UNCHANGED <<ring, stop, told, pc, arg>>

Get(t) ==
  /\ pc[t] = "idle" /\ ~stop /\ ~MustWait(t)
  /\ Fetch(t)
  /\ UNCHANGED <<ring, stop, told, pc, arg>>

\* A ring looks at _stop first, a deque only when it need not wait.
Refuse(t, o) ==
  /\ pc[t] = "idle" /\ stop /\ (ring \/ ~MustWait(t))
  /\ Return(t, o, -1, Nil)
  /\ UNCHANGED <<ring, deque, array, stop, told, events, pc, arg>>

\* put(t, false) and get(t, false), which only a ring has.
Decline(t, o) ==
  /\ ring /\ pc[t] = "idle" /\ ~stop /\ MustWait(t)
  /\ Return(t, o, 0, Nil)
  /\ UNCHANGED <<ring, deque, array, stop, told, events, pc, arg>>

Block(t, x) ==
  /\ pc[t] = "idle" /\ MustWait(t) /\ (ring => ~stop)
  /\ pc' = [pc EXCEPT ![t] = "wait"]
  /\ arg' = [arg EXCEPT ![t] = x]
  /\ UNCHANGED <<ring, deque, array, stop, told, events, out>>

\* The event lets the waiter go, and stays set.
Wake(t) ==
  /\ pc[t] = "wait" /\ Event(t)
  /\ pc' = [pc EXCEPT ![t] = "woken"]
  /\ UNCHANGED <<ring, deque, array, stop, told, events, arg, out>>

\* The waiter holds the mutex again: it gives up, waits again or goes on.
Relock(t, o) ==
  /\ pc[t] = "woken"
  /\ \/ /\ stop
        /\ Return(t, o, -1, Nil)
        /\ pc' = [pc EXCEPT ![t] = "idle"] /\ arg' = [arg EXCEPT ![t] = Nil]
        /\ UNCHANGED <<deque, array, events>>
     \/ /\ ~stop /\ MustWait(t)
        /\ pc' = [pc EXCEPT ![t] = "wait"]
        /\ UNCHANGED <<deque, array, events, arg, out>>
     \/ /\ ~stop /\ ~MustWait(t)
        /\ IF o = "get" THEN Fetch(t) ELSE Store(t, arg[t])
        /\ pc' = [pc EXCEPT ![t] = "idle"] /\ arg' = [arg EXCEPT ![t] = Nil]
  /\ UNCHANGED <<ring, stop, told>>

\* peek() of a deque: it works on a stopped queue, too, and leaves notEmpty set
\* when it removes the last element.
Peek(t, remove) ==
  /\ ~ring /\ pc[t] = "idle" /\ count > 0
  /\ Return(t, "peek", count, Head(queue))
  /\ IF remove THEN /\ queue' = Tail(queue) /\ count' = count - 1
                    /\ notFull' = TRUE
               ELSE UNCHANGED <<deque, notFull>>
  /\ UNCHANGED <<ring, array, stop, told, notEmpty, pc, arg>>

-----------------------------------------------------------------------------
\* quit() and stop() tell both sides, quit_thread_get() and quit_thread_put()
\* of a deque one; all of them set _stop, which refuses both.
Quit(sides) ==
  /\ sides = {"get", "put"} \/ (~ring /\ sides \in {{"get"}, {"put"}})
  /\ stop' = TRUE /\ told' = told \cup sides
  /\ notEmpty' = (notEmpty \/ "get" \in sides)
  /\ notFull'  = (notFull \/ "put" \in sides)
  /\ UNCHANGED <<ring, deque, array, pc, arg, out>>

\* As for queueT (25-33) the threads have been waited for.
Quiescent == \A t \in Threads : pc[t] = "idle"

\* clear() and reset() of a deque; reset() also resets the events.
Clear ==
  /\ ~ring /\ Quiescent
  /\ queue' = <<>> /\ count' = 0
  /\ stop' = FALSE /\ told' = {}
  /\ UNCHANGED events \/ (notFull' = FALSE /\ notEmpty' = FALSE)
  /\ UNCHANGED <<ring, array, pc, arg, out>>

\* clear() of a ring, after stop(): the array is freed.
Free ==
  /\ ring /\ stop /\ Quiescent
  /\ buf' = <<>>
  /\ UNCHANGED <<ring, deque, first, last, stop, told, events, pc, arg, out>>

\* init() of a ring.
Reinit ==
  /\ ring /\ Quiescent
  /\ buf' = Fresh /\ first' = 0 /\ last' = N - 1
  /\ stop' = FALSE /\ told' = {}
  /\ notFull' = FALSE /\ notEmpty' = FALSE
  /\ UNCHANGED <<ring, deque, pc, arg, out>>

PutterCalls(t) ==
  \/ \E x \in Items : Put(t, x) \/ Block(t, x)
  \/ Refuse(t, "put") \/ Decline(t, "put")
GetterCalls(t) ==
  \/ Get(t) \/ Block(t, Nil) \/ Refuse(t, "get") \/ Decline(t, "get")
  \/ \E remove \in BOOLEAN : Peek(t, remove)
Resume(t) == Relock(t, IF t \in Getters THEN "get" ELSE "put")

Next ==
  \/ \E t \in Putters : PutterCalls(t)
  \/ \E t \in Getters : GetterCalls(t)
  \/ \E t \in Threads : Wake(t) \/ Resume(t)
  \/ \E sides \in SUBSET {"get", "put"} : Quit(sides)
  \/ Clear \/ Free \/ Reinit

\* A thread runs, and gets past an event that stays set.
Fairness == \A t \in Threads : WF_vars(Wake(t)) /\ WF_vars(Resume(t))

Spec == Init /\ [][Next]_vars /\ Fairness
-----------------------------------------------------------------------------
\* Never more than Bound elements; _count is the deque's length.
TypeOK ==
  /\ ring \in BOOLEAN
  /\ queue \in Seq(Items) /\ count = Len(queue) /\ count \in 0..Bound
  /\ buf = <<>> \/ buf \in [0..Bound -> Items \cup {Nil}]
  /\ first \in 0..Bound /\ last \in 0..Bound
  /\ stop \in BOOLEAN /\ told \subseteq {"get", "put"}
  /\ notFull \in BOOLEAN /\ notEmpty \in BOOLEAN
  /\ pc \in [Threads -> {"idle", "wait", "woken"}]
  /\ arg \in [Threads -> Items \cup {Nil}]

\* Whoever waits although it could go on, or has been told to quit, finds its
\* event set: no reset by a thread of the other side, or of its own, has undone
\* the signal.  Unlike queueT's it holds for any number of threads.
NoLostWakeup ==
  \A t \in Threads : pc[t] = "wait" =>
    /\ ~MustWait(t) => Event(t)
    /\ (t \in Getters /\ "get" \in told) \/ (t \in Putters /\ "put" \in told)
         => Event(t)

\* What the queue holds, oldest first.
Contents ==
  IF ~ring THEN queue
  ELSE IF buf = <<>> THEN <<>>
  ELSE [i \in 1..RingSize |-> buf[(last + i) % N]]

\* Zero is "not now" of a ring, and the count get() of a deque leaves.
Outcome ==
  CASE out.ret = -1            -> "refused"
    [] out.ret = 0 /\ ring     -> "declined"
    [] OTHER                   -> "done"

M == INSTANCE BoundedMailbox WITH
       items <- Contents, open <- ~stop,
       blocked <- {t \in Threads : pc[t] # "idle"}, wanted <- arg,
       out <- [by |-> out.by, how |-> Outcome, item |-> out.item]

\* Both are the abstract mailbox: elements come out once each and in order
\* whoever of several getters is woken first, a refused or declined call brings
\* nothing, and no thread stays blocked on what it could take, on room, or on
\* a queue it has been told to leave.
ImplementsBoundedMailbox == M!Spec
ImplementsBoundedMailboxSafety == M!SafeSpec
=============================================================================
