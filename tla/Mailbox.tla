------------------------------ MODULE Mailbox ------------------------------
(***************************************************************************)
(* What sglib::queueT promises to its callers: an unbounded FIFO mailbox   *)
(* that can be closed.  A consumer either takes the oldest item, is told   *)
(* that the mailbox is empty or closed, or blocks; a blocked consumer is   *)
(* served when an item arrives and released when the mailbox is closed.    *)
(* There are no mutexes, events or wake-ups here: QueueT shows how the     *)
(* code gets there with a critical section and an auto-reset event.        *)
(***************************************************************************)
EXTENDS Integers, Sequences

CONSTANTS Items,      \* what is put into the mailbox
          Consumers,  \* the threads that take from it
          Nil         \* content of a consumer's buffer before its first take

VARIABLES items,    \* what has been put and not yet taken, oldest first
          open,     \* FALSE between close and reopen
          blocked,  \* consumers waiting inside a take
          out       \* each consumer's last result: return code and buffer

vars == <<items, open, blocked, out>>

Init ==
  /\ items = <<>>
  /\ open = TRUE
  /\ blocked = {}
  /\ out = [c \in Consumers |-> [ret |-> 0, item |-> Nil]]

Put(x) ==
  /\ open
  /\ items' = Append(items, x)
  /\ UNCHANGED <<open, blocked, out>>

\* The consumer receives the oldest item and leaves the mailbox.
Take(c) ==
  /\ open /\ items # <<>>
  /\ out' = [out EXCEPT ![c] = [ret |-> 1, item |-> Head(items)]]
  /\ items' = Tail(items)
  /\ blocked' = blocked \ {c}
  /\ UNCHANGED open

\* The consumer is told that the mailbox is closed; its buffer is not written.
Refuse(c) ==
  /\ ~open
  /\ out' = [out EXCEPT ![c].ret = -1]
  /\ blocked' = blocked \ {c}
  /\ UNCHANGED <<items, open>>

\* A consumer that does not want to wait finds nothing.
FindEmpty(c) ==
  /\ open /\ items = <<>> /\ c \notin blocked
  /\ out' = [out EXCEPT ![c].ret = 0]
  /\ UNCHANGED <<items, open, blocked>>

Block(c) ==
  /\ open /\ items = <<>> /\ c \notin blocked
  /\ blocked' = blocked \cup {c}
  /\ UNCHANGED <<items, open, out>>

Close == open' = FALSE /\ UNCHANGED <<items, blocked, out>>

\* Only once nobody waits any more are the leftovers dropped.
Drain ==
  /\ blocked = {}
  /\ items' = <<>> /\ open' = FALSE
  /\ UNCHANGED <<blocked, out>>

Reopen ==
  /\ blocked = {}
  /\ items' = <<>> /\ open' = TRUE
  /\ UNCHANGED <<blocked, out>>

Serve(c) == c \in blocked /\ (Take(c) \/ Refuse(c))

Next ==
  \/ \E x \in Items : Put(x)
  \/ \E c \in Consumers : Take(c) \/ Refuse(c) \/ FindEmpty(c) \/ Block(c)
  \/ Close \/ Drain \/ Reopen

SafeSpec == Init /\ [][Next]_vars

\* A consumer does not stay blocked while there is something to take, or once
\* the mailbox is closed.
Spec == SafeSpec /\ \A c \in Consumers : WF_vars(Serve(c))
=============================================================================
