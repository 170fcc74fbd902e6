--------------------------- MODULE BoundedMailbox ---------------------------
(***************************************************************************)
(* What the two bounded queues of sglib_queueT.h promise to their callers: *)
(* a FIFO mailbox with room for Bound items that can be closed.  A thread  *)
(* that cannot go on (a putter that finds it full, a getter that finds it  *)
(* empty) blocks, or declines; it is served when the other side has made   *)
(* room or an item, and released when its side is told of the closing.     *)
(***************************************************************************)
EXTENDS Integers, Sequences

CONSTANTS Items, Putters, Getters, Nil, Bound

VARIABLES items,    \* what has been put and not yet taken, oldest first
          open,     \* FALSE between closing and reopening
          told,     \* the sides that have been told of the closing
          blocked,  \* the threads waiting inside a call
          wanted,   \* the item a blocked putter brings
          out       \* the last call that returned: who, how, with what item

vars == <<items, open, told, blocked, wanted, out>>

Threads == Putters \cup Getters
Side(t) == IF t \in Getters THEN "get" ELSE "put"
Ready(t) == IF t \in Getters THEN items # <<>> ELSE Len(items) < Bound

Init ==
  /\ items = <<>> /\ open = TRUE /\ told = {}
  /\ blocked = {} /\ wanted = [t \in Threads |-> Nil]
  /\ out = [by |-> Nil, how |-> "done", item |-> Nil]

\* A call of t ends; the first conjunct of whatever ends it.
Return(t, how, x) ==
  /\ out' = [by |-> t, how |-> how, item |-> x]
  /\ blocked' = blocked \ {t}
  /\ wanted' = [wanted EXCEPT ![t] = Nil]

Put(t, x) ==
  /\ open /\ Ready(t)
  /\ t \in blocked => x = wanted[t]
  /\ items' = Append(items, x)
  /\ Return(t, "done", Nil)
  /\ UNCHANGED <<open, told>>

Take(t) ==
  /\ open /\ Ready(t)
  /\ Return(t, "done", Head(items))
  /\ items' = Tail(items)
  /\ UNCHANGED <<open, told>>

Refuse(t) ==
  /\ ~open
  /\ Return(t, "refused", Nil)
  /\ UNCHANGED <<items, open, told>>

Decline(t) ==
  /\ t \notin blocked /\ ~Ready(t)
  /\ Return(t, "declined", Nil)
  /\ UNCHANGED <<items, open, told>>

Block(t, x) ==
  /\ t \notin blocked /\ ~Ready(t)
  /\ blocked' = blocked \cup {t}
  /\ wanted' = [wanted EXCEPT ![t] = x]
  /\ UNCHANGED <<items, open, told, out>>

\* A getter looks at the oldest item, and may remove it, open or not.
Look(t) ==
  /\ items # <<>> /\ t \notin blocked
  /\ Return(t, "done", Head(items))
  /\ items' \in {items, Tail(items)}
  /\ UNCHANGED <<open, told>>

Close(sides) ==
  /\ open' = FALSE /\ told' = told \cup sides
  /\ UNCHANGED <<items, blocked, wanted, out>>

\* Only once nobody waits any more is the mailbox emptied, and maybe reopened.
Renew ==
  /\ blocked = {} /\ items' = <<>>
  /\ (open' = open /\ told' = told) \/ (open' = TRUE /\ told' = {})
  /\ UNCHANGED <<blocked, wanted, out>>

Next ==
  \/ \E t \in Putters, x \in Items : Put(t, x) \/ Block(t, x)
  \/ \E t \in Getters : Take(t) \/ Block(t, Nil) \/ Look(t)
  \/ \E t \in Threads : Refuse(t) \/ Decline(t)
  \/ \E sides \in SUBSET {"get", "put"} : Close(sides)
  \/ Renew

\* What is owed to a blocked thread: the item or the room that is there, or
\* its release when its side has been told.
Serve(t) ==
  /\ t \in blocked
  /\ \/ t \in Putters /\ Put(t, wanted[t])
     \/ t \in Getters /\ Take(t)
     \/ (Ready(t) \/ Side(t) \in told) /\ Refuse(t)

SafeSpec == Init /\ [][Next]_vars
Spec == SafeSpec /\ \A t \in Threads : WF_vars(Serve(t))
=============================================================================
