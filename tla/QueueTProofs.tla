---------------------------- MODULE QueueTProofs ----------------------------
(***************************************************************************)
(* Proofs about QueueT, for any items, any consumers and any bound.        *)
(***************************************************************************)
EXTENDS QueueT, TLAPS

\* _count always equals the length of _queue, in whatever order put, get,
\* quit, clear and init interleave; together with the types of the state.
THEOREM TypeCorrect == Spec => []TypeOK
<1>0. <<>> \in Seq(Items) /\ Len(<<>>) = 0
  OBVIOUS
<1>1. Init => TypeOK
  <2> SUFFICES ASSUME Init PROVE TypeOK
    OBVIOUS
  <2>1. queue \in Seq(Items) /\ count = Len(queue)
    BY <1>0 DEF Init
  <2>2. out \in [Consumers -> [ret : {-1, 0, 1}, item : Items \cup {Nil}]]
    BY DEF Init
  <2>3. QED
    BY <2>1, <2>2, Zenon DEF Init, TypeOK
<1>2. TypeOK /\ [Next]_vars => TypeOK'
  <2> SUFFICES ASSUME TypeOK, [Next]_vars PROVE TypeOK'
    OBVIOUS
  <2> USE DEF TypeOK
  <2>0. count > 0 => /\ queue # <<>>
                     /\ Head(queue) \in Items
                     /\ Tail(queue) \in Seq(Items)
                     /\ Len(Tail(queue)) = count - 1
    OBVIOUS
  <2>1. ASSUME NEW x \in Items, Put(x) PROVE TypeOK'
    BY <2>1 DEF Put
  <2>2. ASSUME NEW c \in Consumers, GetStopped(c) PROVE TypeOK'
    BY <2>2 DEF GetStopped, Return
  <2>3. ASSUME NEW c \in Consumers, GetFast(c) PROVE TypeOK'
    BY <2>0, <2>3 DEF GetFast, PopTo
  <2>4. ASSUME NEW c \in Consumers, GetEmpty(c) PROVE TypeOK'
    BY <2>4 DEF GetEmpty, Return
  <2>5. ASSUME NEW c \in Consumers, GetBlock(c) PROVE TypeOK'
    BY <2>5 DEF GetBlock
  <2>6. ASSUME NEW c \in Consumers, Wake(c) PROVE TypeOK'
    BY <2>6 DEF Wake
  <2>7. ASSUME NEW c \in Consumers, Relock(c) PROVE TypeOK'
    <3>1. CASE stop
      <4>1. out' = [out EXCEPT ![c].ret = -1] /\ UNCHANGED <<queue, count, stop, signaled>>
        BY <2>7, <3>1, Zenon DEF Relock, Return
      <4>2. pc' = [pc EXCEPT ![c] = "idle"]
        BY <2>7, <3>1 DEF Relock
      <4>3. QED BY <4>1, <4>2
    <3>2. CASE ~stop /\ count > 0
      <4>1. /\ queue' = Tail(queue) /\ count' = count - 1
            /\ UNCHANGED <<stop, signaled>>
        BY <2>7, <3>2 DEF Relock, PopTo
      <4>2. out' = [out EXCEPT ![c] = [ret |-> 1, item |-> Head(queue)]]
        BY <2>7, <3>2 DEF Relock, PopTo
      <4>3. pc' = [pc EXCEPT ![c] = "idle"]
        BY <2>7, <3>2 DEF Relock
      <4>4. QED BY <2>0, <3>2, <4>1, <4>2, <4>3
    <3>3. CASE ~stop /\ count = 0
      <4>1. pc' = [pc EXCEPT ![c] = "wait"]
        BY <2>7, <3>3 DEF Relock
      <4>2. UNCHANGED <<queue, count, stop, signaled, out>>
        BY <2>7, <3>3 DEF Relock
      <4>3. QED BY <4>1, <4>2
    <3>4. QED BY <2>7, <3>1, <3>2, <3>3 DEF Relock
  <2>8. CASE Quit BY <2>8 DEF Quit
  <2>9. CASE Clear BY <2>9 DEF Clear
  <2>10. CASE Reinit BY <1>0, <2>10, Zenon DEF Reinit
  <2>11. CASE UNCHANGED vars BY <2>11 DEF vars
  <2>12. QED
    BY <2>1, <2>2, <2>3, <2>4, <2>5, <2>6, <2>7, <2>8, <2>9, <2>10, <2>11
    DEF Next, Get
<1>3. QED
  BY <1>1, <1>2, PTL DEF Spec

-----------------------------------------------------------------------------
OneConsumer == \A c, d \in Consumers : c = d

\* With one getter no wake-up is lost: whenever the getter is blocked and the
\* queue is not empty, or has been stopped, the event is set.
THEOREM OneGetterNeverMissesASignal == OneConsumer => (Spec => []NoLostWakeup)
<1> SUFFICES ASSUME OneConsumer PROVE Spec => []NoLostWakeup
  OBVIOUS
<1>1. Init => NoLostWakeup
  BY DEF Init, NoLostWakeup
<1>2. TypeOK /\ NoLostWakeup /\ [Next]_vars => NoLostWakeup'
  <2> SUFFICES ASSUME TypeOK, NoLostWakeup, [Next]_vars,
                      NEW d \in Consumers, pc'[d] = "wait", count' > 0 \/ stop'
               PROVE  signaled'
    BY DEF NoLostWakeup
  <2> USE DEF TypeOK, NoLostWakeup
  <2>1. ASSUME NEW x \in Items, Put(x) PROVE signaled'
    BY <2>1 DEF Put
  <2>2. ASSUME NEW c \in Consumers, GetStopped(c) PROVE signaled'
    BY <2>2 DEF GetStopped
  \* The getter is the only one, so nobody else is waiting while it pops.
  <2>3. ASSUME NEW c \in Consumers, GetFast(c) PROVE signaled'
    BY <2>3 DEF GetFast, OneConsumer
  <2>4. ASSUME NEW c \in Consumers, GetEmpty(c) PROVE signaled'
    BY <2>4 DEF GetEmpty
  <2>5. ASSUME NEW c \in Consumers, GetBlock(c) PROVE signaled'
    BY <2>5 DEF GetBlock
  <2>6. ASSUME NEW c \in Consumers, Wake(c) PROVE signaled'
    BY <2>6 DEF Wake, OneConsumer
  <2>7. ASSUME NEW c \in Consumers, Relock(c) PROVE signaled'
    BY <2>7 DEF Relock, OneConsumer
  <2>8. CASE Quit BY <2>8 DEF Quit
  <2>9. CASE Clear BY <2>9 DEF Clear, Quiescent
  <2>10. CASE Reinit BY <2>10 DEF Reinit, Quiescent
  <2>11. CASE UNCHANGED vars BY <2>11 DEF vars
  <2>12. QED
    BY <2>1, <2>2, <2>3, <2>4, <2>5, <2>6, <2>7, <2>8, <2>9, <2>10, <2>11
    DEF Next, Get
<1>3. QED
  BY <1>1, <1>2, TypeCorrect, PTL DEF Spec

-----------------------------------------------------------------------------
\* queueT implements the abstract mailbox, for any number of getters: every
\* step of the code is a step of the mailbox or invisible to its users.
THEOREM RefinesMailbox == Spec => ImplementsMailboxSafety
<1> DEFINE blk == {c \in Consumers : pc[c] # "idle"}
<1>1. Init => M!Init
  BY DEF Init, M!Init
<1>2. TypeOK /\ [Next]_vars => [M!Next]_(M!vars)
  <2> SUFFICES ASSUME TypeOK, [Next]_vars PROVE [M!Next]_(M!vars)
    OBVIOUS
  <2> USE DEF TypeOK
  <2>0. count > 0 <=> queue # <<>>
    OBVIOUS
  <2>1. ASSUME NEW x \in Items, Put(x) PROVE M!Put(x)
    BY <2>1 DEF Put, M!Put
  <2>2. ASSUME NEW c \in Consumers, GetStopped(c) PROVE M!Refuse(c)
    <3>1. blk' = blk \ {c} BY <2>2 DEF GetStopped
    <3>2. QED BY <2>2, <3>1 DEF GetStopped, Return, M!Refuse
  <2>3. ASSUME NEW c \in Consumers, GetFast(c) PROVE M!Take(c)
    <3>1. blk' = blk \ {c} BY <2>3 DEF GetFast
    <3>2. QED BY <2>0, <2>3, <3>1 DEF GetFast, PopTo, M!Take
  <2>4. ASSUME NEW c \in Consumers, GetEmpty(c) PROVE M!FindEmpty(c)
    BY <2>0, <2>4 DEF GetEmpty, Return, M!FindEmpty
  <2>5. ASSUME NEW c \in Consumers, GetBlock(c) PROVE M!Block(c)
    <3>1. blk' = blk \cup {c} BY <2>5 DEF GetBlock
    <3>2. QED BY <2>0, <2>5, <3>1 DEF GetBlock, M!Block
  <2>6. ASSUME NEW c \in Consumers, Wake(c) PROVE UNCHANGED M!vars
    <3>1. blk' = blk BY <2>6 DEF Wake
    <3>2. QED BY <2>6, <3>1 DEF Wake, M!vars
  <2>7. ASSUME NEW c \in Consumers, Relock(c) PROVE [M!Next]_(M!vars)
    <3>1. CASE stop
      <4>1. blk' = blk \ {c} BY <2>7, <3>1 DEF Relock
      <4>2. M!Refuse(c) BY <2>7, <3>1, <4>1 DEF Relock, Return, M!Refuse
      <4>3. QED BY <4>2 DEF M!Next
    <3>2. CASE ~stop /\ count > 0
      <4>1. blk' = blk \ {c} BY <2>7, <3>2 DEF Relock
      <4>2. M!Take(c) BY <2>0, <2>7, <3>2, <4>1 DEF Relock, PopTo, M!Take
      <4>3. QED BY <4>2 DEF M!Next
    <3>3. CASE ~stop /\ count = 0
      <4>1. blk' = blk BY <2>7, <3>3 DEF Relock
      <4>2. QED BY <2>7, <3>3, <4>1 DEF Relock, M!vars
    <3>4. QED BY <2>7, <3>1, <3>2, <3>3 DEF Relock
  <2>8. CASE Quit
    BY <2>8 DEF Quit, M!Close, M!Next
  <2>9. CASE Clear
    BY <2>9 DEF Clear, Quiescent, M!Drain, M!Next
  <2>10. CASE Reinit
    BY <2>10 DEF Reinit, Quiescent, M!Reopen, M!Next
  <2>11. CASE UNCHANGED vars
    BY <2>11 DEF vars, M!vars
  <2>12. QED
    BY <2>1, <2>2, <2>3, <2>4, <2>5, <2>6, <2>7, <2>8, <2>9, <2>10, <2>11
    DEF Next, Get, M!Next
<1>3. QED
  BY <1>1, <1>2, TypeCorrect, PTL DEF Spec, ImplementsMailboxSafety, M!SafeSpec
=============================================================================
