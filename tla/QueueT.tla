------------------------------- MODULE QueueT -------------------------------
(***************************************************************************)
(* sglib::queueT<T> (sglib_queueT.h:37-129), the queue between the threads *)
(* that produce network events and the application's loop.                 *)
(*                                                                         *)
(* Every method runs under _mutex, so a critical section is one action.    *)
(* The exception is get(), which gives the mutex up inside                 *)
(* condition::wait_signal (sglib_cond.h:35-40): unlock, wait for the       *)
(* Windows event, lock again.  Those are the states "wait" (blocked on the *)
(* event) and "woken" (event consumed, mutex not yet taken again), and     *)
(* anything may happen in between.  The event is an AUTO-RESET event: one  *)
(* SetEvent releases at most one waiter and is remembered until then; two  *)
(* SetEvents in a row count as one.                                        *)
(***************************************************************************)
EXTENDS Integers, Sequences

CONSTANTS Items,      \* the values put into the queue
          Consumers,  \* the threads that call get()
          Nil,        \* the caller's buffer before get() first writes it
          MaxLen      \* bound on the queue's length, for model checking only

ASSUME QueueAssumption == MaxLen \in Nat /\ Nil \notin Items

VARIABLES queue,     \* _queue
          count,     \* _count
          stop,      \* _stop
          signaled,  \* state of the auto-reset event in _cond_not_empty
          pc,        \* where a consumer is: "idle" (outside), "wait", "woken"
          out        \* what its last get() returned, and its buffer *t

vars == <<queue, count, stop, signaled, pc, out>>

Init ==
  /\ queue = <<>> /\ count = 0
  /\ stop = FALSE /\ signaled = FALSE
  /\ pc = [c \in Consumers |-> "idle"]
  /\ out = [c \in Consumers |-> [ret |-> 0, item |-> Nil]]

-----------------------------------------------------------------------------
\* put().  On a stopped queue put() returns -1 and changes nothing.
Put_NoSignal(x) ==     \* fault: the element is queued but nobody is signalled
  /\ ~stop /\ count < MaxLen
  /\ queue' = Append(queue, x)
  /\ count' = count + 1
  /\ UNCHANGED <<stop, signaled, pc, out>>

Put_Front(x) ==        \* fault: push_front instead of push_back
  /\ ~stop /\ count < MaxLen
  /\ queue' = <<x>> \o queue
  /\ count' = count + 1
  /\ signaled' = TRUE
  /\ UNCHANGED <<stop, pc, out>>

Put_NoCount(x) ==      \* fault: _count is not kept
  /\ ~stop /\ count < MaxLen
  /\ queue' = Append(queue, x)
  /\ signaled' = TRUE
  /\ UNCHANGED <<count, stop, pc, out>>

Put(x) ==
  /\ ~stop /\ count < MaxLen
  /\ queue' = Append(queue, x)
  /\ count' = count + 1
  /\ signaled' = TRUE
  /\ UNCHANGED <<stop, pc, out>>

\* The element at the front goes to the caller's buffer and get() returns 1.
PopTo(c) ==
  /\ queue' = Tail(queue)
  /\ count' = count - 1
  /\ out' = [out EXCEPT ![c] = [ret |-> 1, item |-> Head(queue)]]

Return(c, r) == out' = [out EXCEPT ![c].ret = r]

\* get() on a stopped queue returns -1 at once; *t is not written.
GetStopped(c) ==
  /\ pc[c] = "idle" /\ stop
  /\ Return(c, -1)
  /\ UNCHANGED <<queue, count, stop, signaled, pc>>

\* get() finds an element: the fast path, the only one that resets the event.
GetFast(c) ==
  /\ pc[c] = "idle" /\ ~stop /\ count > 0
  /\ PopTo(c)
  /\ signaled' = IF count' = 0 THEN FALSE ELSE signaled
  /\ UNCHANGED <<stop, pc>>

\* get(t, false) on an empty queue.
GetEmpty(c) ==
  /\ pc[c] = "idle" /\ ~stop /\ count = 0
  /\ Return(c, 0)
  /\ UNCHANGED <<queue, count, stop, signaled, pc>>

\* get(t, true) on an empty queue: unlock and wait for the event.
GetBlock(c) ==
  /\ pc[c] = "idle" /\ ~stop /\ count = 0
  /\ pc' = [pc EXCEPT ![c] = "wait"]
  /\ UNCHANGED <<queue, count, stop, signaled, out>>

\* The event releases the waiter and resets itself.
Wake(c) ==
  /\ pc[c] = "wait" /\ signaled
  /\ signaled' = FALSE
  /\ pc' = [pc EXCEPT ![c] = "woken"]
  /\ UNCHANGED <<queue, count, stop, out>>

\* The waiter holds the mutex again and looks at _stop, then at isempty().
Relock_NoRecheck(c) ==  \* fault: `if` instead of `while` around the wait
  /\ pc[c] = "woken"
  /\ pc' = [pc EXCEPT ![c] = "idle"]
  /\ IF stop THEN Return(c, -1) /\ UNCHANGED <<queue, count>>
     ELSE IF queue # <<>> THEN PopTo(c)
     ELSE Return(c, 1) /\ UNCHANGED <<queue, count>>
  /\ UNCHANGED <<stop, signaled>>

Relock(c) ==
  /\ pc[c] = "woken"
  /\ \/ /\ stop
        /\ Return(c, -1)
        /\ pc' = [pc EXCEPT ![c] = "idle"]
        /\ UNCHANGED <<queue, count>>
     \/ /\ ~stop /\ count > 0
        /\ PopTo(c)
        /\ pc' = [pc EXCEPT ![c] = "idle"]
     \/ /\ ~stop /\ count = 0
        /\ pc' = [pc EXCEPT ![c] = "wait"]
        /\ UNCHANGED <<queue, count, out>>
  /\ UNCHANGED <<stop, signaled>>

-----------------------------------------------------------------------------
Quit_NoSignal ==        \* fault: quit() forgets to signal
  /\ stop' = TRUE
  /\ UNCHANGED <<queue, count, signaled, pc, out>>

Quit ==
  /\ stop' = TRUE
  /\ signaled' = TRUE
  /\ UNCHANGED <<queue, count, pc, out>>

\* clear() and init() are called once quit() has released every thread and the
\* threads have been waited for, as the header's usage note prescribes (25-33).
Quiescent == \A c \in Consumers : pc[c] = "idle"

Clear ==
  /\ Quiescent
  /\ queue' = <<>> /\ count' = 0
  /\ stop' = TRUE
  /\ UNCHANGED <<signaled, pc, out>>

Reinit ==
  /\ Quiescent
  /\ queue' = <<>> /\ count' = 0
  /\ stop' = FALSE
  /\ UNCHANGED <<signaled, pc, out>>

Get(c) == GetStopped(c) \/ GetFast(c) \/ GetEmpty(c) \/ GetBlock(c)

Next ==
  \/ \E x \in Items : Put(x)
  \/ \E c \in Consumers : Get(c) \/ Wake(c) \/ Relock(c)
  \/ Quit \/ Clear \/ Reinit

\* Windows releases a waiter of a signalled event and schedules a thread that
\* waits for a critical section nobody keeps.  Nothing obliges anybody to call
\* put(), get() or quit().
Fairness == \A c \in Consumers : WF_vars(Wake(c)) /\ WF_vars(Relock(c))

Spec == Init /\ [][Next]_vars /\ Fairness
-----------------------------------------------------------------------------
TypeOK ==
  /\ queue \in Seq(Items)
  /\ count = Len(queue)
  /\ stop \in BOOLEAN /\ signaled \in BOOLEAN
  /\ pc \in [Consumers -> {"idle", "wait", "woken"}]
  /\ out \in [Consumers -> [ret : {-1, 0, 1}, item : Items \cup {Nil}]]

\* A thread blocked in get() while the queue holds an element, or has been
\* stopped, has its wake-up pending: the signal was not consumed by somebody
\* else, reset by the fast path of get() or merged with an earlier one.  True
\* with one getter, the use the header recommends (15-16); not with two.
NoLostWakeup ==
  \A c \in Consumers : pc[c] = "wait" /\ (count > 0 \/ stop) => signaled

\* queueT is the abstract mailbox.  A consumer is "blocked" from the moment
\* get() gives the mutex up until it returns; waking up changes nothing that a
\* caller can see.
M == INSTANCE Mailbox WITH
       items <- queue, open <- ~stop,
       blocked <- {c \in Consumers : pc[c] # "idle"}

\* Elements are handed out once each, in the order they were put, a stopped
\* queue hands out none, and a refused or empty-handed get() leaves the
\* caller's buffer alone.
ImplementsMailboxSafety == M!SafeSpec

\* Moreover no getter stays blocked on a non-empty or stopped queue.
ImplementsMailbox == M!Spec
=============================================================================
