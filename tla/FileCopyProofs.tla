---------------------------- MODULE FileCopyProofs ----------------------------
(***************************************************************************)
(* The example programs, for any number of clients and copies, any size of *)
(* the pieces and of the file: the types, that the client's loop leaves    *)
(* nobody behind, and that the files it writes are the server's.           *)
(*                                                                         *)
(* Nobody is left behind: a session is a token, so at most one of its      *)
(* packages is queued on a side, and exactly while the token is there.     *)
(* main() queues every "connected" before its loop starts, so while the    *)
(* loop runs the queue begins with those that are left, in the order of the*)
(* sessions: connections counts the sessions announced, and once all of    *)
(* them are, the sessions not deleted.                                     *)
(*                                                                         *)
(* The files are copies: the two sides of a session hand one package to and*)
(* fro (Baton), which holds the bytes just before the server's position, or*)
(* the mark (InFlight); so what the client has written of the current copy *)
(* is the file up to there (Contents), provided that the FILE it writes is *)
(* its own (Streams).                                                      *)
(***************************************************************************)
EXTENDS FileCopy, FiniteSets, FiniteSetTheorems, SequenceTheorems, TLAPS

Statuses == {"connected", "send_finished", "recv_finished", "disconnected"}
Packages == [status : Statuses, ses : Sessions]
Bytes    == {x \in Seq(Int) : Len(x) <= Piece}

\* A queued package has its session's token, and a session has one at most.
Tokens(queue, at) ==
  \A i \in DOMAIN queue :
    /\ at[queue[i].ses] = "package"
    /\ \A j \in DOMAIN queue : queue[j].ses = queue[i].ses => j = i

Waits(queue, s, sts) ==
  \E i \in DOMAIN queue : queue[i].ses = s /\ queue[i].status \in sts

Handled == {"send_finished", "recv_finished", "disconnected"}

\* The client.
ClientTypes ==
  /\ main \in {"open", "loop", "quit", "close_sockets", "wait", "done"}
  /\ opened \in 0..Clients /\ connections \in 0..Clients /\ worker \in 0..Clients
  /\ cl \in [Sessions -> {"none", "package", "send", "recv", "quit", "deleted"}]
  /\ qc \in Seq(Packages)
  /\ id \in [Sessions -> Nat] /\ count \in [Sessions -> 0..CopyCount]

Opening ==
  main = "open" =>
    /\ connections = 0 /\ Len(qc) = opened
    /\ \A i \in 1..opened : qc[i] = Pack("connected", i)
    /\ \A s \in Sessions : cl[s] = IF s <= opened THEN "package" ELSE "none"

\* The queue begins with "connected" for the sessions after h.
Ahead(queue, h) ==
  /\ \A i \in 1..Clients - h :
       i \in DOMAIN queue /\ queue[i] = Pack("connected", h + i)
  /\ \A i \in DOMAIN queue : i > Clients - h => queue[i].status # "connected"

\* The loop has taken h packages "connected".
Announced(h) ==
  /\ Ahead(qc, h)
  /\ \/ h < Clients /\ connections = h /\ \A s \in Sessions : cl[s] # "deleted"
     \/ /\ h = Clients
        /\ connections = Cardinality({s \in Sessions : cl[s] # "deleted"})

Looping ==
  main = "loop" => opened = Clients /\ \E h \in 0..Clients : Announced(h)

ClientOpened == \A s \in Sessions : s > opened <=> cl[s] = "none"

Counting ==
  \A s \in Sessions :
    \/ count[s] < CopyCount
    \/ /\ cl[s] \in {"quit", "deleted", "package"}
       /\ ~Waits(qc, s, {"connected", "send_finished", "recv_finished"})

\* The ids are the sessions, because they are announced in their order.
Identity ==
  \A s \in Sessions :
    cl[s] \in {"send", "recv", "quit", "deleted"} \/ Waits(qc, s, Handled)
      => id[s] = s

ClientInv ==
  /\ ClientTypes /\ Tokens(qc, cl) /\ Opening /\ Looping /\ NobodyLeftBehind
  /\ ClientOpened /\ Counting /\ Identity

\* The server.
ServerTypes ==
  /\ sv \in [Sessions -> {"none", "backlog", "package", "send", "recv", "deleted"}]
  /\ qv \in Seq(Packages)
  /\ opened \in 0..Clients

Served ==
  {s \in Sessions : sv[s] \in {"send", "recv"} \/ Waits(qv, s, Handled)}

ServerInv ==
  /\ ServerTypes /\ Tokens(qv, sv)
  /\ \A s \in Sessions : s > opened => sv[s] = "none"
  /\ serverConnections = Cardinality(Served)

\* The files, the packages and the connections.
DataTypes ==
  /\ fileSize \in Nat \ {0} /\ pos \in [Sessions -> 0..fileSize]
  /\ inbox \in [Sessions -> Bytes] /\ wire \in [Sessions -> Bytes]
  /\ sending \in [Sessions -> Bytes] /\ _buf \in Bytes
  /\ link \in [Sessions -> {"up", "lost", "closed"}]
  /\ pf \in [Sessions -> 0..Clients]
  /\ stream \in [Sessions -> Names \cup {NoName}]

CopyInv == ClientInv /\ ServerInv /\ DataTypes

-----------------------------------------------------------------------------
(* Queues of packages, of either side.                                     *)

LEMMA Elements ==
  ASSUME NEW S, NEW x \in Seq(S)
  PROVE  /\ DOMAIN x = 1..Len(x) /\ Len(x) \in Nat
         /\ \A i \in DOMAIN x : x[i] \in S
OBVIOUS

LEMMA Appended ==
  ASSUME NEW S, NEW x \in Seq(S), NEW e \in S
  PROVE  /\ Append(x, e) \in Seq(S)
         /\ DOMAIN x = 1..Len(x) /\ DOMAIN Append(x, e) = 1..Len(x) + 1
         /\ Len(x) \in Nat /\ Len(Append(x, e)) = Len(x) + 1
         /\ \A i \in DOMAIN x : Append(x, e)[i] = x[i]
         /\ Append(x, e)[Len(x) + 1] = e
OBVIOUS

LEMMA Taken ==
  ASSUME NEW S, NEW x \in Seq(S), x # <<>>
  PROVE  /\ Tail(x) \in Seq(S) /\ Head(x) \in S
         /\ Len(x) \in Nat \ {0} /\ DOMAIN x = 1..Len(x)
         /\ Len(Tail(x)) = Len(x) - 1 /\ DOMAIN Tail(x) = 1..Len(x) - 1
         /\ Head(x) = x[1]
         /\ \A i \in DOMAIN Tail(x) : Tail(x)[i] = x[i + 1]
OBVIOUS

LEMMA PackType ==
  ASSUME NEW st \in Statuses, NEW s \in Sessions
  PROVE  /\ Pack(st, s) \in Packages
         /\ Pack(st, s).status = st /\ Pack(st, s).ses = s
BY DEF Pack, Packages

LEMMA PackEq ==
  ASSUME NEW st, NEW s, NEW st2, NEW s2, Pack(st, s) = Pack(st2, s2)
  PROVE  st = st2 /\ s = s2
<1>1. Pack(st, s).status = st /\ Pack(st, s).ses = s
  BY DEF Pack
<1>2. Pack(st2, s2).status = st2 /\ Pack(st2, s2).ses = s2
  BY DEF Pack
<1> QED BY <1>1, <1>2

LEMMA PackageFields ==
  ASSUME NEW p \in Packages
  PROVE  /\ p.status \in Statuses /\ p.ses \in Sessions
         /\ p = Pack(p.status, p.ses)
BY DEF Pack, Packages

\* A session whose token is elsewhere has no package queued.
LEMMA NoPackage ==
  ASSUME NEW queue, NEW at, Tokens(queue, at), NEW s, at[s] # "package", NEW sts
  PROVE  ~Waits(queue, s, sts)
BY DEF Tokens, Waits

\* put(): the token goes into the queue.
LEMMA TokenPut ==
  ASSUME NEW queue \in Seq(Packages), NEW V, NEW at \in [Sessions -> V],
         Tokens(queue, at), NEW s \in Sessions, at[s] # "package",
         NEW st \in Statuses,
         NEW at2, at2 = [at EXCEPT ![s] = "package"],
         NEW queue2, queue2 = Append(queue, Pack(st, s))
  PROVE  queue2 \in Seq(Packages) /\ Tokens(queue2, at2)
<1> DEFINE p == Pack(st, s)
<1>1. p \in Packages /\ p.status = st /\ p.ses = s
  BY PackType
<1> HIDE DEF p
<1>2. queue2 = Append(queue, p)
  BY DEF p
<1>3. /\ queue2 \in Seq(Packages)
      /\ DOMAIN queue = 1..Len(queue) /\ DOMAIN queue2 = 1..Len(queue) + 1
      /\ Len(queue) \in Nat
      /\ \A i \in DOMAIN queue : queue2[i] = queue[i]
      /\ queue2[Len(queue) + 1] = p
  BY <1>1, <1>2, Appended
<1>4. \A i \in DOMAIN queue : queue[i].ses \in Sessions /\ queue[i].ses # s
  BY Elements, PackageFields DEF Tokens
<1>5. \A r \in Sessions : at2[r] = IF r = s THEN "package" ELSE at[r]
  OBVIOUS
<1>6. \A i \in DOMAIN queue2 : i \in DOMAIN queue \/ i = Len(queue) + 1
  BY <1>3
<1>7. Tokens(queue2, at2)
  <2> SUFFICES ASSUME NEW i \in DOMAIN queue2
               PROVE  /\ at2[queue2[i].ses] = "package"
                      /\ \A j \in DOMAIN queue2 : queue2[j].ses = queue2[i].ses => j = i
    BY DEF Tokens
  <2>1. CASE i \in DOMAIN queue
    BY <2>1, <1>1, <1>3, <1>4, <1>5, <1>6 DEF Tokens
  <2>2. CASE i = Len(queue) + 1
    BY <2>2, <1>1, <1>3, <1>4, <1>5, <1>6
  <2> QED BY <1>6, <2>1, <2>2
<1> QED BY <1>3, <1>7

LEMMA WaitsPut ==
  ASSUME NEW queue \in Seq(Packages), NEW s \in Sessions, NEW st \in Statuses,
         NEW queue2, queue2 = Append(queue, Pack(st, s)), NEW r, NEW sts
  PROVE  Waits(queue2, r, sts) <=> Waits(queue, r, sts) \/ (r = s /\ st \in sts)
<1> DEFINE p == Pack(st, s)
<1>1. p \in Packages /\ p.status = st /\ p.ses = s
  BY PackType
<1> HIDE DEF p
<1>2. queue2 = Append(queue, p)
  BY DEF p
<1>3. /\ DOMAIN queue = 1..Len(queue) /\ DOMAIN queue2 = 1..Len(queue) + 1
      /\ Len(queue) \in Nat
      /\ \A i \in DOMAIN queue : queue2[i] = queue[i]
      /\ queue2[Len(queue) + 1] = p
  BY <1>1, <1>2, Appended
<1>4. /\ \A i \in DOMAIN queue2 : i \in DOMAIN queue \/ i = Len(queue) + 1
      /\ Len(queue) + 1 \in DOMAIN queue2 /\ \A i \in DOMAIN queue : i \in DOMAIN queue2
  BY <1>3
<1> QED BY <1>1, <1>3, <1>4 DEF Waits

\* put() on a queue that has been stopped.
LEMMA TokenRefused ==
  ASSUME NEW queue \in Seq(Packages), NEW V, NEW at \in [Sessions -> V],
         Tokens(queue, at), NEW s \in Sessions,
         NEW at2, at2 = [at EXCEPT ![s] = "package"]
  PROVE  Tokens(queue, at2)
BY Elements, PackageFields DEF Tokens

LEMMA TokenHead ==
  ASSUME NEW queue \in Seq(Packages), NEW at, Tokens(queue, at), queue # <<>>,
         NEW st, NEW s, Head(queue) = Pack(st, s)
  PROVE  st \in Statuses /\ s \in Sessions /\ at[s] = "package"
<1>1. Head(queue) \in Packages /\ 1 \in DOMAIN queue /\ Head(queue) = queue[1]
  BY Taken
<1>2. Pack(st, s).status = st /\ Pack(st, s).ses = s
  BY DEF Pack
<1> QED BY <1>1, <1>2, PackageFields DEF Tokens

\* get(): the session that is taken has no other package.
LEMMA TokenGet ==
  ASSUME NEW queue \in Seq(Packages), NEW V, NEW at \in [Sessions -> V],
         Tokens(queue, at), queue # <<>>,
         NEW st, NEW s, Head(queue) = Pack(st, s), NEW c,
         NEW at2, at2 = [at EXCEPT ![s] = c],
         NEW queue2, queue2 = Tail(queue)
  PROVE  Tokens(queue2, at2)
<1>1. /\ Len(queue) \in Nat \ {0} /\ DOMAIN queue = 1..Len(queue)
      /\ DOMAIN queue2 = 1..Len(queue) - 1
      /\ Head(queue) = queue[1]
      /\ \A i \in DOMAIN queue2 : queue2[i] = queue[i + 1]
  BY Taken
<1>2. s \in Sessions /\ queue[1].ses = s
  BY <1>1, TokenHead DEF Pack
<1>3. 1 \in DOMAIN queue /\ \A j \in DOMAIN queue : queue[j].ses = s => j = 1
  BY <1>1, <1>2 DEF Tokens
<1>4. \A i \in DOMAIN queue : queue[i].ses \in Sessions
  BY Elements, PackageFields
<1>5. \A r \in Sessions : r # s => at2[r] = at[r]
  BY <1>2
<1>6. \A i \in DOMAIN queue2 : i + 1 \in DOMAIN queue /\ i + 1 # 1 /\ i \in Int
  BY <1>1
<1>7. \A i \in DOMAIN queue2 : queue2[i].ses # s
  BY <1>1, <1>3, <1>6
<1> SUFFICES ASSUME NEW i \in DOMAIN queue2
             PROVE  /\ at2[queue2[i].ses] = "package"
                    /\ \A j \in DOMAIN queue2 : queue2[j].ses = queue2[i].ses => j = i
  BY DEF Tokens
<1>8. at2[queue2[i].ses] = "package"
  BY <1>1, <1>4, <1>5, <1>6, <1>7 DEF Tokens
<1>9. ASSUME NEW j \in DOMAIN queue2, queue2[j].ses = queue2[i].ses PROVE j = i
  <2>1. j + 1 = i + 1
    BY <1>9, <1>1, <1>6 DEF Tokens
  <2> QED BY <2>1, <1>6
<1> QED BY <1>8, <1>9

LEMMA WaitsGet ==
  ASSUME NEW queue \in Seq(Packages), NEW at, Tokens(queue, at), queue # <<>>,
         NEW st, NEW s, Head(queue) = Pack(st, s),
         NEW queue2, queue2 = Tail(queue), NEW r, NEW sts
  PROVE  /\ Waits(queue, s, sts) <=> st \in sts
         /\ Waits(queue2, r, sts) <=> r # s /\ Waits(queue, r, sts)
<1>1. /\ Len(queue) \in Nat \ {0} /\ DOMAIN queue = 1..Len(queue)
      /\ DOMAIN queue2 = 1..Len(queue) - 1
      /\ Head(queue) = queue[1]
      /\ \A i \in DOMAIN queue2 : queue2[i] = queue[i + 1]
  BY Taken
<1>2. queue[1].status = st /\ queue[1].ses = s
  BY <1>1 DEF Pack
<1>3. 1 \in DOMAIN queue /\ \A j \in DOMAIN queue : queue[j].ses = s => j = 1
  BY <1>1, <1>2 DEF Tokens
<1>4. \A i \in DOMAIN queue2 : i + 1 \in DOMAIN queue /\ i + 1 # 1
  BY <1>1
<1>5. \A i \in DOMAIN queue : i = 1 \/ (i - 1 \in DOMAIN queue2 /\ (i - 1) + 1 = i)
  BY <1>1
<1>6. Waits(queue, s, sts) <=> st \in sts
  BY <1>2, <1>3 DEF Waits
<1>7. ASSUME Waits(queue2, r, sts) PROVE r # s /\ Waits(queue, r, sts)
  BY <1>7, <1>1, <1>3, <1>4 DEF Waits
<1>8. ASSUME r # s, Waits(queue, r, sts) PROVE Waits(queue2, r, sts)
  <2>1. PICK i \in DOMAIN queue : queue[i].ses = r /\ queue[i].status \in sts
    BY <1>8 DEF Waits
  <2>2. i - 1 \in DOMAIN queue2 /\ (i - 1) + 1 = i
    BY <2>1, <1>8, <1>2, <1>5
  <2>3. queue2[i - 1] = queue[i]
    BY <2>2, <1>1
  <2> QED BY <2>1, <2>2, <2>3 DEF Waits
<1> QED BY <1>6, <1>7, <1>8

-----------------------------------------------------------------------------
(* The client.                                                             *)

LEMMA Undeleted ==
  ASSUME NEW V, NEW at \in [Sessions -> V]
  PROVE  /\ IsFiniteSet({s \in Sessions : at[s] # "deleted"})
         /\ Cardinality({s \in Sessions : at[s] # "deleted"}) \in 0..Clients
         /\ (\A s \in Sessions : at[s] # "deleted") =>
              Cardinality({s \in Sessions : at[s] # "deleted"}) = Clients
<1> DEFINE T == {s \in Sessions : at[s] # "deleted"}
<1>1. IsFiniteSet(Sessions) /\ Cardinality(Sessions) = Clients
  BY FileCopyAssumption, FS_Interval DEF Sessions
<1>2. T \in SUBSET Sessions
  OBVIOUS
<1>3. IsFiniteSet(T) /\ Cardinality(T) <= Clients
  BY <1>1, <1>2, FS_Subset
<1>4. Cardinality(T) \in Nat
  BY <1>3, FS_CardinalityType
<1>5. (\A s \in Sessions : at[s] # "deleted") => T = Sessions
  OBVIOUS
<1> QED BY <1>1, <1>3, <1>4, <1>5, FileCopyAssumption

LEMMA InitClient == Init => ClientInv
<1> SUFFICES ASSUME Init PROVE ClientInv
  OBVIOUS
<1>1. <<>> \in Seq(Packages) /\ Len(<<>>) = 0 /\ DOMAIN <<>> = {}
  OBVIOUS
<1>2. ClientTypes
  BY <1>1, FileCopyAssumption DEF Init, ClientTypes, All
<1>3. Tokens(qc, cl) /\ \A s, sts : ~Waits(qc, s, sts)
  BY <1>1 DEF Init, Tokens, Waits
<1>4. Opening
  BY <1>1, FileCopyAssumption DEF Init, Opening, All, Sessions
<1>5. Looping /\ NobodyLeftBehind
  BY DEF Init, Looping, NobodyLeftBehind
<1>6. ClientOpened
  BY FileCopyAssumption DEF Init, ClientOpened, All, Sessions
<1>7. Counting /\ Identity
  BY <1>3, FileCopyAssumption DEF Init, Counting, Identity, All
<1> QED BY <1>2, <1>3, <1>4, <1>5, <1>6, <1>7 DEF ClientInv

\* main() opens one session more.
LEMMA ClientConnect ==
  ASSUME ClientInv, Connect PROVE ClientInv'
<1> DEFINE n == opened + 1
           p == Pack("connected", n)
<1>1. /\ n \in Sessions /\ opened \in Nat /\ n <= Clients /\ opened' = n
      /\ main = "open" /\ main' = main /\ connections' = connections
      /\ worker' = worker /\ cl' = [cl EXCEPT ![n] = "package"]
      /\ id' = id /\ count' = count
  BY FileCopyAssumption DEF Connect, ClientInv, ClientTypes, Sessions, copies
<1>2. qc' = Append(qc, p)
  BY <1>1 DEF Connect, Queued, Stopped
<1>3. /\ Len(qc) = opened /\ connections = 0
      /\ \A i \in 1..opened : qc[i] = Pack("connected", i)
      /\ \A s \in Sessions : cl[s] = IF s <= opened THEN "package" ELSE "none"
  BY <1>1 DEF ClientInv, Opening
<1>4. cl[n] = "none" /\ qc \in Seq(Packages) /\ Tokens(qc, cl)
      /\ cl \in [Sessions -> {"none", "package", "send", "recv", "quit", "deleted"}]
  BY <1>1, <1>3 DEF ClientInv, ClientTypes
<1>5. /\ qc' \in Seq(Packages) /\ Tokens(qc', cl')
      /\ \A r, sts : Waits(qc', r, sts)
                       <=> Waits(qc, r, sts) \/ (r = n /\ "connected" \in sts)
  <2> DEFINE V == {"none", "package", "send", "recv", "quit", "deleted"}
             st == "connected"
  <2>1. /\ cl \in [Sessions -> V] /\ cl[n] # "package" /\ st \in Statuses
        /\ qc \in Seq(Packages) /\ n \in Sessions
        /\ qc' = Append(qc, Pack(st, n)) /\ st = "connected"
    BY <1>1, <1>2, <1>4 DEF Statuses
  <2> HIDE DEF n, V, st
  <2>2. qc' \in Seq(Packages) /\ Tokens(qc', cl')
    BY <2>1, <1>1, <1>4, TokenPut, Zenon
  <2>3. ASSUME NEW r, NEW sts
        PROVE  Waits(qc', r, sts) <=> Waits(qc, r, sts) \/ (r = n /\ st \in sts)
    <3>1. /\ qc \in Seq(Packages) /\ n \in Sessions /\ st \in Statuses
          /\ qc' = Append(qc, Pack(st, n))
      BY <2>1
    <3> QED BY <3>1, WaitsPut, Zenon
  <2> QED BY <2>1, <2>2, <2>3
<1>6. p \in Packages
  BY <1>1, PackType DEF Statuses
<1> HIDE DEF p
<1>7. /\ Len(qc') = Len(qc) + 1 /\ DOMAIN qc = 1..Len(qc)
      /\ \A i \in DOMAIN qc : qc'[i] = qc[i]
      /\ qc'[Len(qc) + 1] = p
  BY <1>2, <1>4, <1>6, Appended
<1>8. ClientTypes'
  BY <1>1, <1>5, FileCopyAssumption, SMTT(30) DEF ClientInv, ClientTypes, Sessions
<1>9. \A s \in Sessions : cl'[s] = IF s <= n THEN "package" ELSE "none"
  BY <1>1, <1>3, <1>4 DEF Sessions
<1>10. \A i \in 1..n : qc'[i] = Pack("connected", i)
  <2>1. \A i \in 1..n : i \in 1..opened \/ i = n
    BY <1>1
  <2> QED BY <2>1, <1>1, <1>3, <1>7 DEF p
<1>11. Opening'
  BY <1>1, <1>3, <1>7, <1>9, <1>10 DEF Opening
<1>12. Looping' /\ NobodyLeftBehind'
  BY <1>1 DEF Looping, NobodyLeftBehind
<1>13. ClientOpened'
  BY <1>1, <1>9 DEF ClientOpened, Sessions
<1>14. \A s \in Sessions : count[s] < CopyCount
  <2> SUFFICES ASSUME NEW s \in Sessions, ~(count[s] < CopyCount) PROVE FALSE
    OBVIOUS
  <2>1. cl[s] = "package" /\ s <= opened /\ s \in 1..opened
    BY <1>1, <1>3 DEF ClientInv, Counting, Sessions
  <2>2. s \in DOMAIN qc /\ qc[s].ses = s /\ qc[s].status = "connected"
    BY <2>1, <1>3, <1>7 DEF Pack
  <2> QED BY <2>2 DEF ClientInv, Counting, Waits
<1>15. Counting'
  BY <1>1, <1>14 DEF Counting
<1>16. Identity'
  BY <1>1, <1>5, <1>9 DEF ClientInv, Identity, Handled
<1> QED BY <1>5, <1>8, <1>11, <1>12, <1>13, <1>15, <1>16 DEF ClientInv

\* main() goes on; the queue and the sessions stay as they are.
LEMMA ClientMain ==
  ASSUME ClientInv,
         UNCHANGED <<opened, connections, qc, cl, id, count>>,
         \/ main' = main
         \/ main = "open" /\ opened = Clients /\ main' = "loop"
         \/ main' \in {"close_sockets", "wait", "done"},
         worker' \in 0..Clients
  PROVE  ClientInv'
<1>1. ClientTypes' /\ Tokens(qc', cl') /\ ClientOpened' /\ Counting' /\ Identity'
  BY DEF ClientInv, ClientTypes, ClientOpened, Counting, Identity
<1>2. Opening' /\ NobodyLeftBehind'
  BY DEF ClientInv, Opening, NobodyLeftBehind
<1>3. Looping'
  <2>1. CASE main = "open" /\ opened = Clients /\ main' = "loop"
    <3>1. Announced(0)
      <4>1. DOMAIN qc = 1..Clients
        BY <2>1, Elements DEF ClientInv, Opening, ClientTypes
      <4>2. \A s \in Sessions : cl[s] # "deleted"
        BY <2>1 DEF ClientInv, Opening
      <4>3. \A i \in 1..Clients - 0 : i \in DOMAIN qc /\ qc[i] = Pack("connected", 0 + i)
        BY <2>1, <4>1, FileCopyAssumption DEF ClientInv, Opening
      <4>4. \A i \in DOMAIN qc : ~(i > Clients - 0)
        BY <4>1, FileCopyAssumption
      <4>5. 0 < Clients /\ connections = 0
        BY <2>1, FileCopyAssumption DEF ClientInv, Opening
      <4> QED BY <4>2, <4>3, <4>4, <4>5 DEF Announced, Ahead
    <3>2. Announced(0)'
      BY <3>1 DEF Announced
    <3>3. 0 \in 0..Clients
      BY FileCopyAssumption
    <3> QED BY <2>1, <3>2, <3>3 DEF Looping
  <2>2. CASE main' = main \/ main' # "loop"
    BY <2>2 DEF ClientInv, Looping, Announced
  <2> QED BY <2>1, <2>2
<1> QED BY <1>1, <1>2, <1>3 DEF ClientInv

\* The thread of the port puts a package.
LEMMA ClientPut ==
  ASSUME ClientInv, NEW s \in Sessions, NEW st \in Handled,
         cl[s] \in {"send", "recv", "quit"}, st = "disconnected" \/ cl[s] # "quit",
         Queued(Pack(st, s)), Call(s, "package"),
         UNCHANGED <<main, opened, connections, id, count>>,
         worker' \in 0..Clients
  PROVE  ClientInv'
<1> DEFINE p == Pack(st, s)
<1>1. /\ cl' = [cl EXCEPT ![s] = "package"] /\ cl[s] # "package"
      /\ cl \in [Sessions -> {"none", "package", "send", "recv", "quit", "deleted"}]
      /\ qc \in Seq(Packages) /\ Tokens(qc, cl) /\ st \in Statuses
  BY DEF Call, ClientInv, ClientTypes, Handled, Statuses
<1>2. qc' = qc \/ qc' = Append(qc, p)
  BY DEF Queued
<1>3. /\ qc' \in Seq(Packages) /\ Tokens(qc', cl')
      /\ \A r, sts : Waits(qc', r, sts) => Waits(qc, r, sts) \/ (r = s /\ st \in sts)
  <2>1. CASE qc' = qc
    BY <2>1, <1>1, TokenRefused
  <2>2. CASE qc' = Append(qc, p)
    <3> DEFINE V == {"none", "package", "send", "recv", "quit", "deleted"}
    <3>1. cl \in [Sessions -> V]
      BY <1>1
    <3> HIDE DEF V
    <3>2. qc' \in Seq(Packages) /\ Tokens(qc', cl')
      BY <2>2, <3>1, <1>1, TokenPut, Zenon
    <3>3. ASSUME NEW r, NEW sts
          PROVE  Waits(qc', r, sts) <=> Waits(qc, r, sts) \/ (r = s /\ st \in sts)
      BY <2>2, <1>1, WaitsPut, ZenonT(30)
    <3> QED BY <3>2, <3>3
  <2> QED BY <1>2, <2>1, <2>2
<1>4. \A r \in Sessions : cl'[r] = IF r = s THEN "package" ELSE cl[r]
  BY <1>1
<1>5. ClientTypes'
  BY <1>1, <1>3 DEF ClientInv, ClientTypes
<1>6. main # "open" /\ main # "quit"
  <2>1. main # "open"
    BY DEF ClientInv, Opening
  <2>2. main # "quit"
    BY DEF ClientInv, NobodyLeftBehind, All
  <2> QED BY <2>1, <2>2
<1>7. Opening' /\ NobodyLeftBehind'
  BY <1>6 DEF Opening, NobodyLeftBehind
<1>8. Looping'
  <2> SUFFICES ASSUME main = "loop" PROVE opened = Clients /\ \E h \in 0..Clients : Announced(h)'
    BY DEF Looping
  <2>1. opened = Clients
    BY DEF ClientInv, Looping
  <2>2. PICK h \in 0..Clients : Announced(h)
    BY DEF ClientInv, Looping
  <2>3. st # "connected"
    BY DEF Handled
  <2>4. \A i \in 1..Clients - h : i \in DOMAIN qc' /\ qc'[i] = Pack("connected", h + i)
    <3>1. \A i \in DOMAIN qc : i \in DOMAIN qc' /\ qc'[i] = qc[i]
      BY <1>1, <1>2, PackType, Appended
    <3> QED BY <2>2, <3>1 DEF Announced, Ahead
  <2>5. \A i \in DOMAIN qc' : i > Clients - h => qc'[i].status # "connected"
    <3>1. CASE qc' = qc
      BY <2>2, <3>1 DEF Announced, Ahead
    <3>2. CASE qc' = Append(qc, p)
      <4>1. /\ \A i \in DOMAIN qc' : i \in DOMAIN qc \/ qc'[i] = p
            /\ \A i \in DOMAIN qc : qc'[i] = qc[i]
            /\ p.status = st
        BY <3>2, <1>1, PackType, Appended
      <4> QED BY <4>1, <2>2, <2>3 DEF Announced, Ahead
    <3> QED BY <1>2, <3>1, <3>2
  <2>6. /\ (\A r \in Sessions : cl[r] # "deleted") => \A r \in Sessions : cl'[r] # "deleted"
        /\ {r \in Sessions : cl'[r] # "deleted"} = {r \in Sessions : cl[r] # "deleted"}
    BY <1>4
  <2>7. Announced(h)'
    BY <2>2, <2>4, <2>5, <2>6 DEF Announced, Ahead
  <2> QED BY <2>1, <2>7
<1>9. ClientOpened'
  BY <1>4 DEF ClientInv, ClientOpened
<1>10. Counting'
  <2> SUFFICES ASSUME NEW r \in Sessions, ~(count[r] < CopyCount)
               PROVE  /\ cl'[r] \in {"quit", "deleted", "package"}
                      /\ ~Waits(qc', r, {"connected", "send_finished", "recv_finished"})
    BY DEF Counting
  <2>1. /\ cl[r] \in {"quit", "deleted", "package"}
        /\ ~Waits(qc, r, {"connected", "send_finished", "recv_finished"})
    BY DEF ClientInv, Counting
  <2>2. r = s => st = "disconnected"
    BY <2>1
  <2> QED BY <2>1, <2>2, <1>3, <1>4
<1>11. Identity'
  BY <1>3, <1>4 DEF ClientInv, Identity
<1> QED BY <1>3, <1>5, <1>7, <1>8, <1>9, <1>10, <1>11 DEF ClientInv

\* The loop takes a package, whose handler makes the next call or deletes.
LEMMA ClientTick ==
  ASSUME ClientInv, NEW st, NEW s, Tick(st, s),
         NEW c \in {"none", "package", "send", "recv", "quit", "deleted"},
         c \notin {"none", "package"}, Call(s, c)
  PROVE  /\ s \in Sessions /\ st \in Statuses /\ cl[s] = "package"
         /\ qc' \in Seq(Packages) /\ Tokens(qc', cl') /\ ClientOpened'
         /\ \A r \in Sessions : cl'[r] = IF r = s THEN c ELSE cl[r]
         /\ cl' \in [Sessions -> {"none", "package", "send", "recv", "quit", "deleted"}]
<1> DEFINE V == {"none", "package", "send", "recv", "quit", "deleted"}
<1>1. /\ cl \in [Sessions -> V] /\ qc \in Seq(Packages) /\ Tokens(qc, cl)
      /\ qc # <<>> /\ Head(qc) = Pack(st, s) /\ qc' = Tail(qc)
      /\ cl' = [cl EXCEPT ![s] = c] /\ c \in V /\ opened' = opened
  BY DEF ClientInv, ClientTypes, Tick, Call
<1> HIDE DEF V
<1>2. /\ st \in Statuses /\ s \in Sessions /\ cl[s] = "package"
      /\ qc' \in Seq(Packages) /\ Tokens(qc', cl')
  <2>1. st \in Statuses /\ s \in Sessions /\ cl[s] = "package"
    BY <1>1, TokenHead, Zenon
  <2>2. qc' \in Seq(Packages)
    BY <1>1, Taken
  <2>3. Tokens(qc', cl')
    BY <1>1, TokenGet, Zenon
  <2> QED BY <2>1, <2>2, <2>3
<1>3. cl' \in [Sessions -> V] /\ \A r \in Sessions : cl'[r] = IF r = s THEN c ELSE cl[r]
  BY <1>1, <1>2
<1>4. ClientOpened'
  BY <1>1, <1>2, <1>3 DEF ClientInv, ClientOpened
<1> QED BY <1>2, <1>3, <1>4 DEF V

LEMMA ClientWaits ==
  ASSUME ClientInv, NEW st, NEW s, Tick(st, s), NEW r, NEW sts
  PROVE  /\ Waits(qc, s, sts) <=> st \in sts
         /\ Waits(qc', r, sts) <=> r # s /\ Waits(qc, r, sts)
<1>1. /\ qc \in Seq(Packages) /\ Tokens(qc, cl) /\ qc # <<>>
      /\ Head(qc) = Pack(st, s) /\ qc' = Tail(qc)
  BY DEF ClientInv, ClientTypes, Tick
<1> QED BY <1>1, WaitsGet, Zenon

\* The order in which the loop announces the sessions.
LEMMA ClientOrder ==
  ASSUME ClientInv, NEW st, NEW s, Tick(st, s)
  PROVE  \E h \in 0..Clients :
           /\ Announced(h)
           /\ (st = "connected") <=> h < Clients
           /\ st = "connected" => s = h + 1 /\ connections = h
<1>1. main = "loop" /\ qc \in Seq(Packages) /\ qc # <<>> /\ Head(qc) = Pack(st, s)
  BY DEF ClientInv, ClientTypes, Tick
<1>2. PICK h \in 0..Clients : Announced(h)
  BY <1>1 DEF ClientInv, Looping
<1>3. /\ 1 \in DOMAIN qc /\ qc[1] = Pack(st, s) /\ qc[1].status = st
  BY <1>1, Taken DEF Pack
<1>4. CASE h < Clients
  <2>1. 1 \in 1..Clients - h
    BY <1>2, <1>4, FileCopyAssumption
  <2>2. qc[1] = Pack("connected", h + 1) /\ connections = h
    BY <1>2, <1>4, <2>1 DEF Announced, Ahead
  <2>3. st = "connected" /\ s = h + 1
    BY <2>2, <1>3, PackEq
  <2> QED BY <1>2, <1>4, <2>2, <2>3
<1>5. CASE h = Clients
  <2>1. 1 > Clients - h
    BY <1>5, FileCopyAssumption
  <2>2. st # "connected"
    BY <1>2, <1>3, <2>1 DEF Announced, Ahead
  <2> QED BY <1>2, <1>5, <2>2
<1> QED BY <1>4, <1>5, FileCopyAssumption

\* The queue after its first package has been taken.
LEMMA AheadTail ==
  ASSUME NEW queue \in Seq(Packages), queue # <<>>,
         NEW h \in 0..Clients, Ahead(queue, h),
         NEW h2 \in 0..Clients, h2 = h + 1 \/ (h = Clients /\ h2 = h)
  PROVE  Ahead(Tail(queue), h2)
<1> DEFINE queue2 == Tail(queue)
<1>1. /\ Len(queue) \in Nat \ {0} /\ DOMAIN queue = 1..Len(queue)
      /\ DOMAIN queue2 = 1..Len(queue) - 1
      /\ \A i \in DOMAIN queue2 : queue2[i] = queue[i + 1]
  BY Taken
<1> HIDE DEF queue2
<1>2. ASSUME NEW i \in 1..Clients - h2
      PROVE  i \in DOMAIN queue2 /\ queue2[i] = Pack("connected", h2 + i)
  <2>1. h2 = h + 1 /\ i + 1 \in 1..Clients - h /\ h + (i + 1) = h2 + i
    BY FileCopyAssumption
  <2>2. i + 1 \in DOMAIN queue /\ queue[i + 1] = Pack("connected", h2 + i)
    BY <2>1 DEF Ahead
  <2>3. i \in DOMAIN queue2
    BY <1>1, <2>2, FileCopyAssumption
  <2> QED BY <1>1, <2>2, <2>3
<1>3. ASSUME NEW i \in DOMAIN queue2, i > Clients - h2
      PROVE  queue2[i].status # "connected"
  <2>1. i + 1 \in DOMAIN queue /\ i + 1 > Clients - h
    BY <1>1, <1>3, FileCopyAssumption
  <2> QED BY <1>1, <2>1 DEF Ahead
<1> QED BY <1>2, <1>3 DEF Ahead, queue2

LEMMA ClientHandled ==
  ASSUME ClientInv, NEW st \in {"send_finished", "recv_finished"}, NEW s,
         Tick(st, s), NEW c \in {"send", "recv", "quit"}, Call(s, c),
         UNCHANGED <<main, connections, id>>,
         count' \in [Sessions -> 0..CopyCount],
         \A r \in Sessions : r # s => count'[r] = count[r],
         count'[s] < CopyCount \/ c = "quit"
  PROVE  ClientInv'
<1>1. /\ s \in Sessions /\ cl[s] = "package"
      /\ qc' \in Seq(Packages) /\ Tokens(qc', cl') /\ ClientOpened'
      /\ \A r \in Sessions : cl'[r] = IF r = s THEN c ELSE cl[r]
      /\ cl' \in [Sessions -> {"none", "package", "send", "recv", "quit", "deleted"}]
  BY ClientTick
<1>2. \A r, sts : /\ Waits(qc, s, sts) <=> st \in sts
                  /\ Waits(qc', r, sts) <=> r # s /\ Waits(qc, r, sts)
  BY ClientWaits
<1>3. main = "loop" /\ qc # <<>> /\ qc' = Tail(qc) /\ opened' = opened /\ worker' = worker
  BY DEF Tick
<1>4. ClientTypes'
  BY <1>1, <1>3 DEF ClientInv, ClientTypes
<1>5. Opening' /\ NobodyLeftBehind'
  BY <1>3 DEF Opening, NobodyLeftBehind
<1>6. Looping'
  <2>1. PICK h \in 0..Clients : Announced(h) /\ ~(h < Clients)
    BY ClientOrder
  <2>2. h = Clients
    BY <2>1, FileCopyAssumption
  <2>3. Ahead(qc', h)
    <3>1. qc \in Seq(Packages) /\ Ahead(qc, h)
      BY <2>1 DEF Announced, ClientInv, ClientTypes
    <3> QED BY <3>1, <1>3, <2>2, AheadTail
  <2>4. {r \in Sessions : cl'[r] # "deleted"} = {r \in Sessions : cl[r] # "deleted"}
    BY <1>1
  <2>5. Announced(h)'
    BY <2>1, <2>2, <2>3, <2>4 DEF Announced
  <2>6. opened = Clients
    BY <1>3 DEF ClientInv, Looping
  <2> QED BY <1>3, <2>5, <2>6 DEF Looping
<1>7. Counting'
  BY <1>1, <1>2 DEF ClientInv, Counting
<1>8. Identity'
  <2>1. id[s] = s
    BY <1>1, <1>2 DEF ClientInv, Identity, Handled
  <2> QED BY <2>1, <1>1, <1>2 DEF ClientInv, Identity
<1> QED BY <1>1, <1>4, <1>5, <1>6, <1>7, <1>8 DEF ClientInv

LEMMA ClientOnConnected ==
  ASSUME ClientInv, NEW s \in Sessions, OnConnected(s) PROVE ClientInv'
<1>1. /\ Tick("connected", s) /\ Call(s, "recv") /\ UNCHANGED <<main, count>>
      /\ connections' = connections + 1 /\ id' = [id EXCEPT ![s] = connections']
  BY DEF OnConnected
<1>2. /\ cl[s] = "package"
      /\ qc' \in Seq(Packages) /\ Tokens(qc', cl') /\ ClientOpened'
      /\ \A r \in Sessions : cl'[r] = IF r = s THEN "recv" ELSE cl[r]
      /\ cl' \in [Sessions -> {"none", "package", "send", "recv", "quit", "deleted"}]
  <2> DEFINE c == "recv"
  <2>1. /\ c \in {"none", "package", "send", "recv", "quit", "deleted"}
        /\ c \notin {"none", "package"} /\ Call(s, c)
    BY <1>1
  <2> HIDE DEF c
  <2>2. /\ cl[s] = "package"
        /\ qc' \in Seq(Packages) /\ Tokens(qc', cl') /\ ClientOpened'
        /\ \A r \in Sessions : cl'[r] = IF r = s THEN c ELSE cl[r]
        /\ cl' \in [Sessions -> {"none", "package", "send", "recv", "quit", "deleted"}]
    BY <1>1, <2>1, ClientTick
  <2> QED BY <2>2 DEF c
<1>3. \A r, sts : /\ Waits(qc, s, sts) <=> "connected" \in sts
                  /\ Waits(qc', r, sts) <=> r # s /\ Waits(qc, r, sts)
  BY <1>1, ClientWaits
<1>4. main = "loop" /\ qc # <<>> /\ qc' = Tail(qc) /\ opened' = opened /\ worker' = worker
  BY <1>1 DEF Tick
<1>5. PICK h \in 0..Clients : Announced(h) /\ h < Clients /\ s = h + 1 /\ connections = h
  <2> DEFINE st == "connected"
  <2>1. st = "connected" /\ Tick(st, s)
    BY <1>1
  <2> HIDE DEF st
  <2> QED BY <2>1, ClientOrder
<1>6. h + 1 \in 0..Clients /\ connections' = h + 1 /\ id' = [id EXCEPT ![s] = h + 1]
  BY <1>1, <1>5, FileCopyAssumption
<1>7. ClientTypes'
  <2>1. id' \in [Sessions -> Nat] /\ connections' \in 0..Clients
    BY <1>6 DEF ClientInv, ClientTypes
  <2> QED BY <2>1, <1>1, <1>2, <1>4 DEF ClientInv, ClientTypes
<1>8. Opening' /\ NobodyLeftBehind'
  BY <1>1, <1>4 DEF Opening, NobodyLeftBehind
<1>9. Looping'
  <2> DEFINE h2 == h + 1
  <2>1. h2 \in 0..Clients /\ h2 = h + 1 /\ connections' = h2
    BY <1>6
  <2>2. qc \in Seq(Packages) /\ Ahead(qc, h) /\ \A r \in Sessions : cl[r] # "deleted"
    BY <1>5, FileCopyAssumption DEF Announced, ClientInv, ClientTypes
  <2> HIDE DEF h2
  <2>3. Ahead(qc', h2)
    BY <2>1, <2>2, <1>4, AheadTail
  <2>4. \A r \in Sessions : cl'[r] # "deleted"
    BY <2>2, <1>2
  <2>5. Cardinality({r \in Sessions : cl'[r] # "deleted"}) = Clients
    BY <1>2, <2>4, Undeleted
  <2>6. Announced(h2)'
    BY <2>1, <2>3, <2>4, <2>5, FileCopyAssumption DEF Announced
  <2>7. opened = Clients
    BY <1>4 DEF ClientInv, Looping
  <2> QED BY <1>4, <2>1, <2>6, <2>7 DEF Looping
<1>10. Counting'
  BY <1>1, <1>2, <1>3 DEF ClientInv, Counting
<1>11. Identity'
  BY <1>2, <1>3, <1>5, <1>6 DEF ClientInv, ClientTypes, Identity
<1> QED BY <1>2, <1>7, <1>8, <1>9, <1>10, <1>11 DEF ClientInv

\* The loop ends when the last of all the sessions is deleted.
LEMMA ClientOnDisconnected ==
  ASSUME ClientInv, NEW s \in Sessions, OnDisconnected(s) PROVE ClientInv'
<1>1. /\ Tick("disconnected", s) /\ Call(s, "deleted") /\ UNCHANGED <<id, count>>
      /\ connections' = connections - 1
      /\ main' = IF connections' = 0 THEN "quit" ELSE "loop"
  BY DEF OnDisconnected, DeleteSession
<1>2. /\ cl[s] = "package"
      /\ qc' \in Seq(Packages) /\ Tokens(qc', cl') /\ ClientOpened'
      /\ \A r \in Sessions : cl'[r] = IF r = s THEN "deleted" ELSE cl[r]
      /\ cl' \in [Sessions -> {"none", "package", "send", "recv", "quit", "deleted"}]
  <2> DEFINE c == "deleted"
  <2>1. /\ c \in {"none", "package", "send", "recv", "quit", "deleted"}
        /\ c \notin {"none", "package"} /\ Call(s, c)
    BY <1>1
  <2> HIDE DEF c
  <2>2. /\ cl[s] = "package"
        /\ qc' \in Seq(Packages) /\ Tokens(qc', cl') /\ ClientOpened'
        /\ \A r \in Sessions : cl'[r] = IF r = s THEN c ELSE cl[r]
        /\ cl' \in [Sessions -> {"none", "package", "send", "recv", "quit", "deleted"}]
    BY <1>1, <2>1, ClientTick
  <2> QED BY <2>2 DEF c
<1>3. \A r, sts : /\ Waits(qc, s, sts) <=> "disconnected" \in sts
                  /\ Waits(qc', r, sts) <=> r # s /\ Waits(qc, r, sts)
  BY <1>1, ClientWaits
<1>4. main = "loop" /\ qc # <<>> /\ qc' = Tail(qc) /\ opened' = opened /\ worker' = worker
  BY <1>1 DEF Tick
<1>5. PICK h \in 0..Clients : Announced(h) /\ ~(h < Clients)
  <2> DEFINE st == "disconnected"
  <2>1. st # "connected" /\ Tick(st, s)
    BY <1>1
  <2> HIDE DEF st
  <2> QED BY <2>1, ClientOrder
<1>6. h = Clients
  BY <1>5, FileCopyAssumption
<1> DEFINE T  == {r \in Sessions : cl[r] # "deleted"}
           T2 == {r \in Sessions : cl'[r] # "deleted"}
<1>7. /\ IsFiniteSet(T) /\ IsFiniteSet(T2)
      /\ Cardinality(T) \in 0..Clients /\ Cardinality(T2) \in 0..Clients
  BY <1>2, Undeleted DEF ClientInv, ClientTypes
<1>8. Cardinality(T2) = Cardinality(T) - 1
  <2>1. T2 = T \ {s} /\ s \in T
    BY <1>2
  <2> QED BY <2>1, <1>7, FS_RemoveElement
<1>9. connections = Cardinality(T) /\ connections' = Cardinality(T2)
  BY <1>1, <1>5, <1>6, <1>8 DEF Announced
<1>10. ClientTypes'
  BY <1>1, <1>2, <1>4, <1>7, <1>9 DEF ClientInv, ClientTypes
<1>11. Opening'
  BY <1>1 DEF Opening
<1>12. NobodyLeftBehind'
  <2> SUFFICES ASSUME connections' = 0 PROVE cl' = All("deleted")
    BY <1>1 DEF NobodyLeftBehind, All
  <2>1. T2 = {}
    BY <1>7, <1>9, FS_EmptySet
  <2>2. \A r \in Sessions : cl'[r] = "deleted"
    BY <2>1
  <2> QED BY <2>2, <1>2 DEF All
<1>13. Looping'
  <2>1. Ahead(qc', h)
    <3>1. qc \in Seq(Packages) /\ Ahead(qc, h)
      BY <1>5 DEF Announced, ClientInv, ClientTypes
    <3> QED BY <3>1, <1>4, <1>6, AheadTail
  <2>2. Announced(h)'
    BY <1>6, <1>9, <2>1 DEF Announced
  <2>3. opened' = Clients
    BY <1>4 DEF ClientInv, Looping
  <2> QED BY <2>2, <2>3 DEF Looping
<1>14. Counting'
  BY <1>1, <1>2, <1>3 DEF ClientInv, Counting
<1>15. Identity'
  <2>1. id[s] = s
    BY <1>3 DEF ClientInv, Identity, Handled
  <2> QED BY <2>1, <1>1, <1>2, <1>3 DEF ClientInv, Identity
<1> QED BY <1>2, <1>10, <1>11, <1>12, <1>13, <1>14, <1>15 DEF ClientInv

LEMMA ClientOnRecvFinished ==
  ASSUME ClientInv, NEW s \in Sessions, OnRecvFinished(s) PROVE ClientInv'
<1>1. /\ Tick("recv_finished", s)
      /\ EndOfCopy(s) \/ PieceOfCopy(s)
      /\ UNCHANGED <<main, connections, id>>
  BY DEF OnRecvFinished
<1>2. /\ \A sts : Waits(qc, s, sts) <=> "recv_finished" \in sts
      /\ count \in [Sessions -> 0..CopyCount]
  BY <1>1, ClientWaits DEF ClientInv, ClientTypes
<1>3. count[s] < CopyCount
  BY <1>2 DEF ClientInv, Counting
<1> DEFINE st == "recv_finished"
<1>4. st \in {"send_finished", "recv_finished"} /\ Tick(st, s)
  BY <1>1
<1> HIDE DEF st
<1>5. CASE PieceOfCopy(s)
  <2>1. Call(s, "send") /\ count' = count
    BY <1>5 DEF PieceOfCopy
  <2> QED BY <2>1, <1>1, <1>2, <1>3, <1>4, ClientHandled
<1>6. CASE EndOfCopy(s)
  <2>1. /\ count' = [count EXCEPT ![s] = count[s] + 1]
        /\ \/ count'[s] < CopyCount /\ Call(s, "send")
           \/ Call(s, "quit")
    BY <1>6 DEF EndOfCopy
  <2>2. /\ count' \in [Sessions -> 0..CopyCount]
        /\ \A r \in Sessions : r # s => count'[r] = count[r]
    BY <2>1, <1>2, <1>3, FileCopyAssumption
  <2>3. CASE count'[s] < CopyCount /\ Call(s, "send")
    BY <2>2, <2>3, <1>1, <1>4, ClientHandled
  <2>4. CASE Call(s, "quit")
    BY <2>2, <2>4, <1>1, <1>4, ClientHandled
  <2> QED BY <2>1, <2>3, <2>4
<1> QED BY <1>1, <1>5, <1>6

LEMMA ClientInvStep ==
  ASSUME ClientInv, [Next]_vars PROVE ClientInv'
<1>1. worker \in 0..Clients /\ 0 \in 0..Clients
  BY FileCopyAssumption DEF ClientInv, ClientTypes
<1>2. CASE Connect
  BY <1>2, ClientConnect
<1>3. CASE ConnectFails \/ LoopStart \/ Quit \/ CloseSockets \/ Wait \/ Remove
  BY <1>1, <1>3, ClientMain
     DEF ConnectFails, LoopStart, Quit, CloseSockets, Wait, Remove, MainTo, copies
<1>4. ASSUME NEW s \in Sessions, Handler(s) PROVE ClientInv'
  <2>1. CASE OnSendFinished(s)
    <3>1. /\ Tick("send_finished", s) /\ Call(s, "recv")
          /\ UNCHANGED <<main, connections, id, count>>
      BY <2>1 DEF OnSendFinished, copies
    <3>2. count[s] < CopyCount /\ count \in [Sessions -> 0..CopyCount]
      BY <3>1, ClientWaits DEF ClientInv, ClientTypes, Counting
    <3> DEFINE st == "send_finished"
    <3>3. st \in {"send_finished", "recv_finished"} /\ Tick(st, s)
      BY <3>1
    <3> HIDE DEF st
    <3> QED BY <3>1, <3>2, <3>3, ClientHandled
  <2> QED BY <1>4, <2>1, ClientOnConnected, ClientOnRecvFinished,
             ClientOnDisconnected DEF Handler
<1>5. ASSUME NEW s \in Sessions, ThreadStep(s) PROVE ClientInv'
  <2>1. PICK st \in Handled :
          /\ cl[s] \in {"send", "recv", "quit"} /\ (st = "disconnected" \/ cl[s] # "quit")
          /\ Thread(s, st) /\ worker' \in {worker, s}
    BY <1>5 DEF ThreadStep, Received, Sent, Disconected, Ends, Handled
  <2>2. /\ Queued(Pack(st, s)) /\ Call(s, "package")
        /\ UNCHANGED <<main, opened, connections, id, count>>
        /\ worker' \in 0..Clients
    BY <1>1, <2>1 DEF Thread, copies, Sessions
  <2> QED BY <2>1, <2>2, ClientPut
<1>6. ASSUME NEW s \in Sessions,
             Accept(s) \/ ServerHandler(s) \/ ServerThread(s) \/ Lose(s)
      PROVE  ClientInv'
  <2>1. UNCHANGED <<clientVars, cl, copies>>
    BY <1>6 DEF Accept, ServerThread, ServerSent, Transmit, ServerReceived,
         ServerDisconected, ServerPut, ServerHandler, ServerOnConnected,
         ServerOnRecvFinished, ServerOnSendFinished, ServerOnDisconnected,
         ServerTick, Lose
  <2> QED BY <1>1, <2>1, ClientMain DEF clientVars, copies
<1>7. CASE UNCHANGED vars
  BY <1>1, <1>7, ClientMain DEF vars, clientVars, copies
<1> QED BY <1>2, <1>3, <1>4, <1>5, <1>6, <1>7 DEF Next, Progress

-----------------------------------------------------------------------------
(* The server.                                                             *)

LEMMA ServedFinite ==
  IsFiniteSet(Served) /\ Cardinality(Served) \in 0..Clients
<1>1. IsFiniteSet(Sessions) /\ Cardinality(Sessions) = Clients
  BY FileCopyAssumption, FS_Interval DEF Sessions
<1>2. Served \in SUBSET Sessions
  BY DEF Served
<1>3. IsFiniteSet(Served) /\ Cardinality(Served) <= Clients
  BY <1>1, <1>2, FS_Subset
<1>4. Cardinality(Served) \in Nat
  BY <1>3, FS_CardinalityType
<1> QED BY <1>3, <1>4, FileCopyAssumption

LEMMA InitServer == Init => ServerInv
<1> SUFFICES ASSUME Init PROVE ServerInv
  OBVIOUS
<1>1. <<>> \in Seq(Packages) /\ DOMAIN <<>> = {}
  OBVIOUS
<1>2. ServerTypes
  BY <1>1, FileCopyAssumption DEF Init, ServerTypes, All
<1>3. Tokens(qv, sv) /\ \A s, sts : ~Waits(qv, s, sts)
  BY <1>1 DEF Init, Tokens, Waits
<1>4. Served = {}
  BY <1>3 DEF Init, Served, All
<1>5. serverConnections = Cardinality(Served)
  BY <1>4, FS_EmptySet DEF Init
<1> QED BY <1>2, <1>3, <1>5 DEF ServerInv, Init, All

\* A session comes to the server, or nothing changes there.
LEMMA ServerStill ==
  ASSUME ServerInv, qv' = qv, serverConnections' = serverConnections,
         opened' \in 0..Clients, opened' >= opened,
         \/ sv' = sv
         \/ \E n \in Sessions : /\ n > opened /\ opened' >= n
                                 /\ sv' = [sv EXCEPT ![n] = "backlog"]
  PROVE  ServerInv'
<1>1. CASE sv' = sv
  <2>1. Served' = Served
    BY <1>1 DEF Served
  <2> QED BY <1>1, <2>1 DEF ServerInv, ServerTypes, Sessions
<1>2. ASSUME NEW n \in Sessions, n > opened, opened' >= n,
             sv' = [sv EXCEPT ![n] = "backlog"]
      PROVE  ServerInv'
  <2>1. /\ sv[n] = "none"
        /\ \A r \in Sessions : sv'[r] = IF r = n THEN "backlog" ELSE sv[r]
    BY <1>2 DEF ServerInv, ServerTypes
  <2>2. \A i \in DOMAIN qv : qv[i].ses \in Sessions
    BY Elements, PackageFields DEF ServerInv, ServerTypes
  <2>3. Tokens(qv', sv')
    BY <2>1, <2>2 DEF ServerInv, Tokens
  <2>4. Served' = Served
    <3>1. sv'[n] = "backlog" /\ sv[n] = "none"
      BY <2>1
    <3> QED BY <2>1, <3>1 DEF Served
  <2>5. ServerTypes'
    BY <1>2 DEF ServerInv, ServerTypes
  <2>6. \A s \in Sessions : s > opened' => sv'[s] = "none"
    BY <1>2, <2>1 DEF ServerInv, ServerTypes, Sessions
  <2> QED BY <2>3, <2>4, <2>5, <2>6 DEF ServerInv
<1> QED BY <1>1, <1>2

LEMMA ServerPutStep ==
  ASSUME ServerInv, NEW s \in Sessions, NEW st \in Statuses, ServerPut(s, st),
         \/ sv[s] \in {"send", "recv"} /\ st \in Handled
         \/ sv[s] = "backlog" /\ st = "connected"
  PROVE  ServerInv'
<1> DEFINE V == {"none", "backlog", "package", "send", "recv", "deleted"}
<1>1. /\ sv \in [Sessions -> V] /\ qv \in Seq(Packages) /\ Tokens(qv, sv)
      /\ sv[s] # "package" /\ sv' = [sv EXCEPT ![s] = "package"]
      /\ qv' = Append(qv, Pack(st, s))
      /\ opened' = opened /\ serverConnections' = serverConnections
  BY DEF ServerInv, ServerTypes, ServerPut, clientVars
<1> HIDE DEF V
<1>2. qv' \in Seq(Packages) /\ Tokens(qv', sv')
  BY <1>1, TokenPut, Zenon
<1>3. ASSUME NEW r, NEW sts
      PROVE  Waits(qv', r, sts) <=> Waits(qv, r, sts) \/ (r = s /\ st \in sts)
  BY <1>1, WaitsPut, ZenonT(30)
<1>4. \A r \in Sessions : sv'[r] = IF r = s THEN "package" ELSE sv[r]
  BY <1>1
<1>5. ASSUME NEW r \in Sessions PROVE r \in Served' <=> r \in Served
  <2>1. CASE r = s
    <3>1. ~Waits(qv, s, Handled)
      BY <1>1, NoPackage, Zenon
    <3>2. Waits(qv', s, Handled) <=> Waits(qv, s, Handled) \/ st \in Handled
      BY <1>3
    <3> QED BY <2>1, <3>1, <3>2, <1>4 DEF Served, Handled
  <2>2. CASE r # s
    BY <2>2, <1>3, <1>4 DEF Served
  <2> QED BY <2>1, <2>2
<1>6. Served' = Served
  BY <1>5 DEF Served
<1>7. ServerTypes' /\ \A r \in Sessions : r > opened' => sv'[r] = "none"
  BY <1>1, <1>2, <1>4 DEF ServerInv, ServerTypes, V
<1> QED BY <1>1, <1>2, <1>6, <1>7 DEF ServerInv

LEMMA ServerTickStep ==
  ASSUME ServerInv, NEW s \in Sessions, NEW st, ServerTick(st, s),
         NEW c \in {"send", "recv", "deleted"}, sv' = [sv EXCEPT ![s] = c],
         \/ st = "connected" /\ c # "deleted" /\ serverConnections' = serverConnections + 1
         \/ st \in Handled /\ c # "deleted" /\ serverConnections' = serverConnections
         \/ st \in Handled /\ c = "deleted" /\ serverConnections' = serverConnections - 1
  PROVE  ServerInv'
<1> DEFINE V == {"none", "backlog", "package", "send", "recv", "deleted"}
<1>1. /\ sv \in [Sessions -> V] /\ qv \in Seq(Packages) /\ Tokens(qv, sv)
      /\ qv # <<>> /\ Head(qv) = Pack(st, s) /\ qv' = Tail(qv)
      /\ opened' = opened
  BY DEF ServerInv, ServerTypes, ServerTick, clientVars
<1>2. sv' \in [Sessions -> V] /\ \A r \in Sessions : sv'[r] = IF r = s THEN c ELSE sv[r]
  BY <1>1
<1> HIDE DEF V
<1>3. qv' \in Seq(Packages) /\ Tokens(qv', sv') /\ sv[s] = "package"
  <2>1. qv' \in Seq(Packages)
    BY <1>1, Taken
  <2>2. Tokens(qv', sv')
    BY <1>1, TokenGet, Zenon
  <2>3. sv[s] = "package"
    BY <1>1, TokenHead, Zenon
  <2> QED BY <2>1, <2>2, <2>3
<1>4. ASSUME NEW r, NEW sts
      PROVE  /\ Waits(qv, s, sts) <=> st \in sts
             /\ Waits(qv', r, sts) <=> r # s /\ Waits(qv, r, sts)
  BY <1>1, WaitsGet, Zenon
<1>5. /\ \A r \in Sessions : r # s => (r \in Served' <=> r \in Served)
      /\ s \in Served <=> st \in Handled
      /\ s \in Served' <=> c # "deleted"
  BY <1>2, <1>3, <1>4 DEF Served
<1>6. serverConnections' = Cardinality(Served')
  <2>1. CASE st = "connected" /\ c # "deleted" /\ serverConnections' = serverConnections + 1
    <3>1. Served' = Served \cup {s} /\ s \notin Served
      BY <2>1, <1>5 DEF Served, Handled
    <3> QED BY <2>1, <3>1, ServedFinite, FS_AddElement DEF ServerInv
  <2>2. CASE st \in Handled /\ c # "deleted" /\ serverConnections' = serverConnections
    <3>1. Served' = Served
      BY <2>2, <1>5 DEF Served
    <3> QED BY <2>2, <3>1 DEF ServerInv
  <2>3. CASE st \in Handled /\ c = "deleted" /\ serverConnections' = serverConnections - 1
    <3>1. Served' = Served \ {s} /\ s \in Served
      BY <2>3, <1>5 DEF Served
    <3> QED BY <2>3, <3>1, ServedFinite, FS_RemoveElement DEF ServerInv
  <2> QED BY <2>1, <2>2, <2>3
<1>7. ServerTypes' /\ \A r \in Sessions : r > opened' => sv'[r] = "none"
  BY <1>1, <1>2, <1>3 DEF ServerInv, ServerTypes, V
<1> QED BY <1>3, <1>6, <1>7 DEF ServerInv

LEMMA ServerInvStep ==
  ASSUME ServerInv, [Next]_vars PROVE ServerInv'
<1>1. opened \in Nat /\ opened \in 0..Clients /\ opened >= opened
  BY FileCopyAssumption DEF ServerInv, ServerTypes
<1>2. CASE Connect
  <2>1. /\ opened + 1 \in Sessions /\ opened' = opened + 1 /\ opened' \in 0..Clients
        /\ sv' = [sv EXCEPT ![opened + 1] = "backlog"]
        /\ qv' = qv /\ serverConnections' = serverConnections
    BY <1>1, <1>2, FileCopyAssumption DEF Connect, Sessions
  <2>2. opened + 1 > opened /\ opened' >= opened + 1 /\ opened' >= opened
    BY <1>1, <2>1
  <2> QED BY <2>1, <2>2, ServerStill
<1>3. ASSUME UNCHANGED <<serverVars, opened>> PROVE ServerInv'
  BY <1>1, <1>3, ServerStill DEF serverVars
<1>4. CASE \/ ConnectFails \/ LoopStart \/ Quit \/ CloseSockets \/ Wait \/ Remove
           \/ UNCHANGED vars
  BY <1>3, <1>4 DEF ConnectFails, LoopStart, Quit, CloseSockets, Wait, Remove,
       MainTo, vars, clientVars
<1>5. ASSUME NEW s \in Sessions, Handler(s) \/ ThreadStep(s) \/ Lose(s)
      PROVE  ServerInv'
  <2>1. UNCHANGED <<serverVars, opened>>
    BY <1>5 DEF Handler, OnConnected, OnSendFinished, OnRecvFinished, OnDisconnected,
         DeleteSession, Tick, ThreadStep, Received, Sent, Disconected, Ends, Thread,
         Lose, clientVars
  <2> QED BY <2>1, <1>3
<1>6. ASSUME NEW s \in Sessions, Accept(s) \/ ServerThread(s) PROVE ServerInv'
  <2>1. PICK st \in Statuses :
          /\ ServerPut(s, st)
          /\ \/ sv[s] \in {"send", "recv"} /\ st \in Handled
             \/ sv[s] = "backlog" /\ st = "connected"
    BY <1>6 DEF Accept, ServerThread, ServerSent, Transmit, ServerReceived,
         ServerDisconected, Statuses, Handled
  <2> QED BY <2>1, ServerPutStep
<1>7. ASSUME NEW s \in Sessions, ServerHandler(s) PROVE ServerInv'
  <2>1. PICK st \in Statuses, c \in {"send", "recv", "deleted"} :
          /\ ServerTick(st, s) /\ sv' = [sv EXCEPT ![s] = c]
          /\ \/ st = "connected" /\ c # "deleted" /\ serverConnections' = serverConnections + 1
             \/ st \in Handled /\ c # "deleted" /\ serverConnections' = serverConnections
             \/ st \in Handled /\ c = "deleted" /\ serverConnections' = serverConnections - 1
    BY <1>7 DEF ServerHandler, ServerOnConnected, ServerOnRecvFinished,
         ServerOnSendFinished, ServerOnDisconnected, SendPiece, SendBytes,
         Statuses, Handled
  <2> QED BY <2>1, ServerTickStep
<1> QED BY <1>2, <1>4, <1>5, <1>6, <1>7 DEF Next, Progress

-----------------------------------------------------------------------------
(* The data.                                                               *)

LEMMA ByteTypes ==
  /\ Nothing \in Bytes /\ EndMark \in Bytes
  /\ \A p \in Nat, n \in 1..Piece : [i \in 1..n |-> p + i] \in Bytes
<1>1. Nothing \in Bytes
  <2>1. <<>> \in Seq(Int) /\ Len(<<>>) = 0
    OBVIOUS
  <2> QED BY <2>1, FileCopyAssumption DEF Nothing, Bytes
<1>2. EndMark \in Bytes
  <2>1. <<0>> \in Seq(Int) /\ Len(<<0>>) = 1
    OBVIOUS
  <2> QED BY <2>1, FileCopyAssumption DEF EndMark, Bytes
<1>3. ASSUME NEW p \in Nat, NEW n \in 1..Piece PROVE [i \in 1..n |-> p + i] \in Bytes
  <2>1. n \in Nat /\ n <= Piece
    BY FileCopyAssumption
  <2>2. [i \in 1..n |-> p + i] \in Seq(Int) /\ Len([i \in 1..n |-> p + i]) = n
    BY <2>1
  <2> QED BY <2>1, <2>2 DEF Bytes
<1> QED BY <1>1, <1>2, <1>3

LEMMA InitData == Init => DataTypes
<1> SUFFICES ASSUME Init PROVE DataTypes
  OBVIOUS
<1>1. fileSize \in Nat \ {0}
  BY FileCopyAssumption DEF Init
<1>2. /\ 0 \in 0..fileSize /\ 0 \in 0..Clients /\ Nothing \in Bytes
  BY <1>1, ByteTypes, FileCopyAssumption
<1> QED BY <1>1, <1>2 DEF Init, DataTypes, All

\* read() and send(): a piece that is not longer than the buffer, and a
\* position that is not beyond the end of the file.
LEMMA SendPieceTypes ==
  ASSUME DataTypes, NEW s \in Sessions, SendPiece(s)
  PROVE  /\ pos' \in [Sessions -> 0..fileSize] /\ _buf' \in Bytes
         /\ sending' \in [Sessions -> Bytes] /\ link' = link
<1> DEFINE n == IF fileSize - pos[s] < Piece THEN fileSize - pos[s] ELSE Piece
<1>1. pos[s] \in 0..fileSize /\ fileSize \in Nat /\ Piece \in Nat \ {0, 1}
  BY FileCopyAssumption DEF DataTypes
<1>2. /\ n \in 0..Piece /\ pos[s] + n \in 0..fileSize /\ 0 \in 0..fileSize
      /\ pos[s] \in Nat
      /\ n # 0 => n \in 1..Piece
  BY <1>1
<1>3. SendBytes(s, n)
  BY DEF SendPiece
<1> HIDE DEF n
<1>4. /\ _buf' = IF n = 0 THEN EndMark ELSE [i \in 1..n |-> pos[s] + i]
      /\ pos' = [pos EXCEPT ![s] = IF n = 0 THEN 0 ELSE pos[s] + n]
      /\ sending' = [sending EXCEPT ![s] = _buf'] /\ link' = link
  BY <1>3 DEF SendBytes
<1>5. _buf' \in Bytes
  BY <1>2, <1>4, ByteTypes
<1>6. pos' \in [Sessions -> 0..fileSize]
  BY <1>2, <1>4 DEF DataTypes
<1>7. sending' \in [Sessions -> Bytes]
  BY <1>4, <1>5 DEF DataTypes
<1> QED BY <1>4, <1>5, <1>6, <1>7

LEMMA FopenTypes ==
  ASSUME DataTypes, NEW s \in Sessions, NEW name \in Names,
         NEW table \in [Sessions -> Names \cup {NoName}], Fopen(s, name, table)
  PROVE  /\ pf' \in [Sessions -> 0..Clients]
         /\ stream' \in [Sessions -> Names \cup {NoName}]
<1>1. PICK f \in {0} \cup {g \in Sessions : table[g] = NoName} :
        /\ pf' = [pf EXCEPT ![s] = f]
        /\ stream' = [g \in Sessions |-> IF g = f THEN name ELSE table[g]]
  BY DEF Fopen
<1>2. f \in 0..Clients
  BY FileCopyAssumption DEF Sessions
<1> QED BY <1>1, <1>2 DEF DataTypes

LEMMA CloseTypes ==
  ASSUME DataTypes, NEW f
  PROVE  Closed(f) \in [Sessions -> Names \cup {NoName}]
BY DEF DataTypes, Closed

LEMMA DataTypesStep ==
  ASSUME CopyInv, [Next]_vars PROVE DataTypes'
<1>1. DataTypes /\ ClientInv
  BY DEF CopyInv
<1>2. ASSUME UNCHANGED <<fileSize, pos, inbox, wire, sending, _buf, pf, stream>>,
             link' \in [Sessions -> {"up", "lost", "closed"}]
      PROVE  DataTypes'
  BY <1>1, <1>2 DEF DataTypes
<1>3. CASE Connect \/ ConnectFails \/ LoopStart \/ Quit \/ CloseSockets \/ Wait \/ Remove
           \/ UNCHANGED vars
  <2>1. UNCHANGED <<fileSize, pos, inbox, wire, sending, _buf, pf, stream>>
    BY <1>3 DEF Connect, ConnectFails, LoopStart, Quit, CloseSockets, Wait, Remove,
         MainTo, vars, copies, serverVars, net
  <2>2. \/ link' = link
        \/ link' = [link EXCEPT ![opened'] = "up"]
        \/ link' = [s \in Sessions |-> IF link[s] = "up" THEN "closed" ELSE link[s]]
    BY <1>3 DEF Connect, ConnectFails, LoopStart, Quit, CloseSockets, Wait, Remove,
         MainTo, vars, net
  <2>3. link' \in [Sessions -> {"up", "lost", "closed"}]
    BY <2>2, <1>1 DEF DataTypes
  <2> QED BY <2>1, <2>3, <1>2
<1>4. ASSUME NEW s \in Sessions, Handler(s) PROVE DataTypes'
  <2>1. UNCHANGED <<fileSize, pos, wire, sending, _buf, link>>
        /\ inbox' \in {inbox, [inbox EXCEPT ![s] = Nothing]}
    BY <1>4 DEF Handler, OnConnected, OnSendFinished, OnRecvFinished, OnDisconnected,
         DeleteSession, Tick, serverVars, net
  <2>2. inbox' \in [Sessions -> Bytes]
    BY <2>1, <1>1, ByteTypes DEF DataTypes
  <2>3. /\ pf' \in [Sessions -> 0..Clients]
        /\ stream' \in [Sessions -> Names \cup {NoName}]
    <3>1. CASE OnConnected(s)
      <4>1. Tick("connected", s) /\ id' = [id EXCEPT ![s] = connections + 1]
            /\ Fopen(s, <<id'[s], 0>>, stream)
        BY <3>1 DEF OnConnected
      <4>2. s = connections + 1
        <5> DEFINE st == "connected"
        <5>1. st = "connected" /\ Tick(st, s)
          BY <4>1
        <5> HIDE DEF st
        <5>2. PICK h \in 0..Clients : s = h + 1 /\ connections = h
          BY <5>1, <1>1, ClientOrder
        <5> QED BY <5>2
      <4>3. id'[s] = s
        BY <4>1, <4>2, <1>1 DEF ClientInv, ClientTypes
      <4>4. <<id'[s], 0>> \in Names
        BY <4>3, FileCopyAssumption DEF Names
      <4> QED BY <4>1, <4>4, <1>1, FopenTypes DEF DataTypes
    <3>2. CASE OnSendFinished(s)
      BY <3>2, <1>1 DEF OnSendFinished, copies, DataTypes
    <3>3. CASE OnRecvFinished(s)
      <4>1. CASE PieceOfCopy(s)
        BY <4>1, <1>1 DEF PieceOfCopy, DataTypes
      <4>2. CASE EndOfCopy(s)
        <5> DEFINE table == IF pf[s] = 0 THEN stream ELSE Closed(pf[s])
        <5>1. /\ count' = [count EXCEPT ![s] = count[s] + 1]
              /\ \/ count'[s] < CopyCount /\ Fopen(s, <<id[s], count'[s]>>, table)
                 \/ stream' = table /\ pf' = pf
          BY <4>2 DEF EndOfCopy
        <5>2. table \in [Sessions -> Names \cup {NoName}]
          BY <1>1, CloseTypes DEF DataTypes
        <5> HIDE DEF table
        <5>3. CASE stream' = table /\ pf' = pf
          BY <5>2, <5>3, <1>1 DEF DataTypes
        <5>4. CASE count'[s] < CopyCount /\ Fopen(s, <<id[s], count'[s]>>, table)
          <6>1. Tick("recv_finished", s)
            BY <3>3 DEF OnRecvFinished
          <6>2. id[s] = s
            BY <6>1, <1>1, ClientWaits DEF ClientInv, Identity, Handled
          <6>3. count'[s] \in 0..CopyCount - 1
            BY <5>1, <5>4, <1>1, FileCopyAssumption DEF ClientInv, ClientTypes
          <6>4. <<id[s], count'[s]>> \in Names
            BY <6>2, <6>3 DEF Names
          <6> QED BY <5>2, <5>4, <6>4, <1>1, FopenTypes
        <5> QED BY <5>1, <5>3, <5>4
      <4> QED BY <3>3, <4>1, <4>2 DEF OnRecvFinished
    <3>4. CASE OnDisconnected(s)
      <4>1. pf' = pf /\ (stream' = stream \/ stream' = Closed(pf[s]))
        BY <3>4 DEF OnDisconnected, DeleteSession
      <4> QED BY <4>1, <1>1, CloseTypes DEF DataTypes
    <3> QED BY <1>4, <3>1, <3>2, <3>3, <3>4 DEF Handler
  <2> QED BY <2>1, <2>2, <2>3, <1>1 DEF DataTypes
<1>5. ASSUME NEW s \in Sessions, ThreadStep(s) PROVE DataTypes'
  <2>1. /\ UNCHANGED <<fileSize, pos, sending, _buf, pf, stream>>
        /\ \/ inbox' = inbox /\ wire' = wire
           \/ /\ inbox' = [inbox EXCEPT ![s] = wire[s]]
              /\ wire' = [wire EXCEPT ![s] = Nothing]
        /\ \/ link' = link
           \/ link' = [link EXCEPT ![s] = IF @ = "up" THEN "closed" ELSE @]
    BY <1>5 DEF ThreadStep, Received, Sent, Disconected, Ends, Thread, copies, serverVars
  <2>2. inbox \in [Sessions -> Bytes] /\ wire \in [Sessions -> Bytes]
        /\ link \in [Sessions -> {"up", "lost", "closed"}]
    BY <1>1 DEF DataTypes
  <2>3. wire[s] \in Bytes /\ Nothing \in Bytes
    BY <2>2, ByteTypes
  <2>4. inbox' \in [Sessions -> Bytes]
    BY <2>1, <2>2, <2>3
  <2>5. wire' \in [Sessions -> Bytes]
    BY <2>1, <2>2, <2>3
  <2>6. link' \in [Sessions -> {"up", "lost", "closed"}]
    BY <2>1, <2>2
  <2> QED BY <2>1, <2>4, <2>5, <2>6, <1>1 DEF DataTypes
<1>6. ASSUME NEW s \in Sessions, Accept(s) \/ ServerThread(s) PROVE DataTypes'
  <2>1. /\ UNCHANGED <<fileSize, pos, inbox, _buf, pf, stream, link>>
        /\ \/ sending' = sending /\ wire' = wire
           \/ /\ wire' = [wire EXCEPT ![s] = sending[s]]
              /\ sending' = [sending EXCEPT ![s] = Nothing]
    BY <1>6 DEF Accept, ServerThread, ServerSent, Transmit, ServerReceived,
         ServerDisconected, ServerPut, copies
  <2>2. sending \in [Sessions -> Bytes] /\ wire \in [Sessions -> Bytes]
    BY <1>1 DEF DataTypes
  <2>3. sending[s] \in Bytes /\ Nothing \in Bytes
    BY <2>2, ByteTypes
  <2>4. wire' \in [Sessions -> Bytes]
    BY <2>1, <2>2, <2>3
  <2>5. sending' \in [Sessions -> Bytes]
    BY <2>1, <2>2, <2>3
  <2> QED BY <2>1, <2>4, <2>5, <1>1 DEF DataTypes
<1>7. ASSUME NEW s \in Sessions, ServerHandler(s) PROVE DataTypes'
  <2>1. UNCHANGED <<fileSize, inbox, wire, pf, stream>>
    BY <1>7 DEF ServerHandler, ServerOnConnected, ServerOnRecvFinished,
         ServerOnSendFinished, ServerOnDisconnected, ServerTick, copies
  <2>2. CASE SendPiece(s)
    BY <2>1, <2>2, <1>1, SendPieceTypes DEF DataTypes
  <2>3. CASE /\ UNCHANGED <<pos, sending, _buf>>
             /\ \/ link' = link
                \/ link' = [r \in Sessions |-> IF link[r] = "up" THEN "lost" ELSE link[r]]
    BY <2>1, <2>3, <1>1 DEF DataTypes
  <2> QED BY <1>7, <2>2, <2>3 DEF ServerHandler, ServerOnConnected, ServerOnRecvFinished,
             ServerOnSendFinished, ServerOnDisconnected
<1>8. ASSUME NEW s \in Sessions, Lose(s) PROVE DataTypes'
  <2>1. /\ UNCHANGED <<fileSize, pos, inbox, wire, sending, _buf, pf, stream>>
        /\ link' = [link EXCEPT ![s] = "lost"]
    BY <1>8 DEF Lose, copies, serverVars
  <2> QED BY <2>1, <1>1, <1>2 DEF DataTypes
<1> QED BY <1>3, <1>4, <1>5, <1>6, <1>7, <1>8 DEF Next, Progress

-----------------------------------------------------------------------------
LEMMA InitCopy == Init => CopyInv
BY InitClient, InitServer, InitData DEF CopyInv

LEMMA CopyInvStep == CopyInv /\ [Next]_vars => CopyInv'
BY ClientInvStep, ServerInvStep, DataTypesStep DEF CopyInv

\* Every variable keeps its type: no counter of the two programs leaves its
\* range, no package is longer than the buffers, no FILE writes a file that
\* does not belong to a session.
THEOREM TypesHold == Spec => []TypeOK
<1>1. CopyInv => TypeOK
  <2> SUFFICES ASSUME CopyInv PROVE TypeOK
    OBVIOUS
  <2>1. ClientTypes /\ ServerTypes /\ DataTypes /\ serverConnections \in 0..Clients
    BY ServedFinite DEF CopyInv, ClientInv, ServerInv
  <2>2. \A s \in Sessions : Len(inbox[s]) <= Piece /\ Len(wire[s]) <= Piece
    BY <2>1 DEF DataTypes, Bytes
  <2> QED BY <2>1, <2>2 DEF TypeOK, ClientTypes, ServerTypes, DataTypes
<1> QED BY <1>1, InitCopy, CopyInvStep, PTL DEF Spec

\* The client's loop ends only when every session it has opened has been
\* disconnected and deleted.
THEOREM NobodyLeftBehindHolds == Spec => []NobodyLeftBehind
<1>1. CopyInv => NobodyLeftBehind
  BY DEF CopyInv, ClientInv
<1> QED BY <1>1, InitCopy, CopyInvStep, PTL DEF Spec

-----------------------------------------------------------------------------
(* The copies.  What a session and its peer do is one long hand-over: at   *)
(* any time the server is going to send, or a package is on the wire, or   *)
(* the client has it or is answering, or the answer is on its way; when the*)
(* connection ends, nobody.                                                *)

HandOver == CopyInv /\ reply \in [Sessions -> BOOLEAN]

AtServer(s) ==
  \/ sv[s] \in {"none", "backlog", "send"} \/ sending[s] # Nothing
  \/ Waits(qv, s, {"connected", "recv_finished"})
AtClient(s) == cl[s] = "send" \/ inbox[s] # Nothing

Baton(s) ==
  /\ AtServer(s) => wire[s] = Nothing /\ ~AtClient(s) /\ ~reply[s]
  /\ wire[s] # Nothing => ~AtClient(s) /\ ~reply[s]
  /\ AtClient(s) => ~reply[s]
  /\ sending[s] # Nothing =>
       /\ sv[s] \notin {"none", "backlog", "recv"}
       /\ ~Waits(qv, s, {"connected", "recv_finished", "send_finished"})
  /\ sv[s] = "send" => sending[s] # Nothing
  /\ inbox[s] # Nothing =>
       /\ cl[s] = "package"
       /\ ~Waits(qc, s, {"connected", "send_finished", "disconnected"})
  /\ Waits(qc, s, {"recv_finished"}) => inbox[s] # Nothing

\* The package on its way to the client's handler, and how many bytes of the
\* current copy the client has handled.
Flight(s) ==
  IF sending[s] # Nothing THEN sending[s]
  ELSE IF wire[s] # Nothing THEN wire[s] ELSE inbox[s]
Got(s) == IF Flight(s) = EndMark THEN fileSize ELSE pos[s] - Len(Flight(s))

FirstBytes(n) == [i \in 1..n |-> i]
PieceAt(p, n) == [i \in 1..n |-> p + i]

\* What is on its way is the mark, or the bytes before pos; it is one byte long
\* only if it is the mark, or the last piece of a file of that size.
InFlight(s) ==
  /\ \/ Flight(s) = Nothing
     \/ Flight(s) = EndMark /\ pos[s] = 0
     \/ \E n \in 1..pos[s] : Flight(s) = PieceAt(pos[s] - n, n) /\ (n = 1 => fileSize % Piece = 1)
  /\ pos[s] = fileSize \/ \E k \in Nat : pos[s] = k * Piece

\* Opened but not yet announced to the loop.
Unknown(s) == cl[s] = "none" \/ Waits(qc, s, {"connected"})

Fresh(s) ==
  /\ Unknown(s) => Got(s) = 0 /\ count[s] = 0 /\ pf[s] = 0
  /\ count[s] = 0 \/ id[s] = s

\* Sessions that are being copied write, and each FILE that is open is written
\* by one of them.
Copying(s) == cl[s] # "deleted" /\ count[s] < CopyCount
Streams ==
  /\ \A s \in Sessions : Copying(s) /\ pf[s] # 0 => stream[pf[s]] = <<s, count[s]>>
  /\ \A f \in Sessions : stream[f] # NoName =>
       \E s \in Sessions : Copying(s) /\ pf[s] = f /\ stream[f] = <<s, count[s]>>

Contents(s) ==
  /\ \A k \in 0..count[s] - 1 : files[<<s, k>>] \in {Missing, FirstBytes(fileSize)}
  /\ \A k \in count[s] + 1..CopyCount - 1 : files[<<s, k>>] = Missing
  /\ count[s] < CopyCount =>
       files[<<s, count[s]>>] = IF pf[s] = 0 THEN Missing ELSE FirstBytes(Got(s))

Story ==
  /\ HandOver
  /\ \A s \in Sessions : Baton(s) /\ InFlight(s) /\ Fresh(s)
  /\ files \in [Names -> Seq(Int)]
  /\ ~misclosed => Streams
  /\ ~misclosed /\ fileSize % Piece # 1 => \A s \in Sessions : Contents(s)

-----------------------------------------------------------------------------
(* One package is on its way at a time.                                    *)

\* Nothing of the session changes that Baton or Flight looks at.
Still(r) ==
  /\ sv'[r] = sv[r] /\ cl'[r] = cl[r] /\ sending'[r] = sending[r]
  /\ wire'[r] = wire[r] /\ inbox'[r] = inbox[r] /\ reply'[r] = reply[r]
  /\ pos'[r] = pos[r]
  /\ \A sts : Waits(qv', r, sts) <=> Waits(qv, r, sts)
  /\ \A sts : Waits(qc', r, sts) <=> Waits(qc, r, sts)

Keeps(r) == Flight(r)' = Flight(r) /\ pos'[r] = pos[r]
Sends(r) == SendPiece(r) /\ Flight(r) = Nothing /\ Flight(r)' = sending'[r]
Handles(r) ==
  /\ OnRecvFinished(r) /\ Flight(r) = inbox[r] /\ inbox[r] # Nothing
  /\ Flight(r)' = Nothing /\ pos'[r] = pos[r]

LEMMA StillBaton ==
  ASSUME NEW r \in Sessions, Baton(r), Still(r)
  PROVE  Baton(r)' /\ Keeps(r)
<1>1. AtServer(r)' <=> AtServer(r)
  BY DEF Still, AtServer
<1>2. AtClient(r)' <=> AtClient(r)
  BY DEF Still, AtClient
<1>3. Baton(r)'
  BY <1>1, <1>2 DEF Still, Baton
<1>4. Keeps(r)
  BY DEF Still, Keeps, Flight
<1> QED BY <1>3, <1>4

LEMMA ClientQueue ==
  ASSUME CopyInv, NEW s \in Sessions, NEW st \in Handled, Queued(Pack(st, s)),
         NEW r, NEW sts
  PROVE  /\ Waits(qc', r, sts) => Waits(qc, r, sts) \/ (r = s /\ st \in sts)
         /\ Waits(qc, r, sts) => Waits(qc', r, sts)
<1>1. qc \in Seq(Packages) /\ st \in Statuses
  BY DEF CopyInv, ClientInv, ClientTypes, Handled, Statuses
<1>2. CASE qc' = Append(qc, Pack(st, s))
  <2>1. Waits(qc', r, sts) <=> Waits(qc, r, sts) \/ (r = s /\ st \in sts)
    BY <1>1, <1>2, WaitsPut, Zenon
  <2> QED BY <2>1
<1>3. CASE qc' = qc
  BY <1>3
<1> QED BY <1>2, <1>3 DEF Queued

LEMMA ServerQueue ==
  ASSUME CopyInv, NEW s \in Sessions, NEW st \in Statuses, ServerPut(s, st),
         NEW r, NEW sts
  PROVE  Waits(qv', r, sts) <=> Waits(qv, r, sts) \/ (r = s /\ st \in sts)
<1>1. qv \in Seq(Packages) /\ qv' = Append(qv, Pack(st, s))
  BY DEF CopyInv, ServerInv, ServerTypes, ServerPut
<1> QED BY <1>1, WaitsPut, Zenon

LEMMA ServerWaits ==
  ASSUME CopyInv, NEW st, NEW s, ServerTick(st, s), NEW r, NEW sts
  PROVE  /\ Waits(qv, s, sts) <=> st \in sts
         /\ Waits(qv', r, sts) <=> r # s /\ Waits(qv, r, sts)
<1>1. /\ qv \in Seq(Packages) /\ Tokens(qv, sv) /\ qv # <<>>
      /\ Head(qv) = Pack(st, s) /\ qv' = Tail(qv)
  BY DEF CopyInv, ServerInv, ServerTypes, ServerTick
<1> QED BY <1>1, WaitsGet, Zenon

\* A session whose token is not in a queue.
LEMMA NotQueued ==
  ASSUME CopyInv, NEW s, NEW sts
  PROVE  /\ cl[s] # "package" => ~Waits(qc, s, sts)
         /\ sv[s] # "package" => ~Waits(qv, s, sts)
<1>1. Tokens(qc, cl) /\ Tokens(qv, sv)
  BY DEF CopyInv, ClientInv, ServerInv
<1>2. cl[s] # "package" => ~Waits(qc, s, sts)
  BY <1>1, NoPackage, Zenon
<1>3. sv[s] # "package" => ~Waits(qv, s, sts)
  BY <1>1, NoPackage, Zenon
<1> QED BY <1>2, <1>3

LEMMA ClientHandlerBaton ==
  ASSUME HandOver, NEW s \in Sessions, Handler(s), NEW r \in Sessions, Baton(r)
  PROVE  Baton(r)' /\ (Keeps(r) \/ Handles(r))
<1>1. PICK st \in Statuses, c \in {"recv", "send", "quit", "deleted"} :
        /\ Tick(st, s) /\ Call(s, c)
        /\ UNCHANGED <<serverVars, wire, reply>>
        /\ \/ st = "recv_finished" /\ inbox' = [inbox EXCEPT ![s] = Nothing]
              /\ OnRecvFinished(s) /\ c \in {"send", "quit"}
           \/ st \in {"connected", "send_finished", "disconnected"} /\ inbox' = inbox
              /\ c \in {"recv", "deleted"}
  <2>1. CASE OnConnected(s)
    BY <2>1 DEF OnConnected, Tick, net, Statuses
  <2>2. CASE OnSendFinished(s)
    BY <2>2 DEF OnSendFinished, Tick, net, Statuses
  <2>3. CASE OnRecvFinished(s)
    <3>1. \E c \in {"send", "quit"} : Call(s, c)
      BY <2>3 DEF OnRecvFinished, EndOfCopy, PieceOfCopy
    <3>2. /\ Tick("recv_finished", s) /\ UNCHANGED <<serverVars, wire, reply>>
          /\ inbox' = [inbox EXCEPT ![s] = Nothing]
      BY <2>3 DEF OnRecvFinished, Tick, net
    <3> QED BY <2>3, <3>1, <3>2 DEF Statuses
  <2>4. CASE OnDisconnected(s)
    BY <2>4 DEF OnDisconnected, DeleteSession, Tick, net, Statuses
  <2> QED BY <2>1, <2>2, <2>3, <2>4 DEF Handler
<1>2. /\ cl' = [cl EXCEPT ![s] = c] /\ cl[s] = "package"
      /\ cl \in [Sessions -> {"none", "package", "send", "recv", "quit", "deleted"}]
      /\ inbox \in [Sessions -> Bytes]
  BY <1>1, ClientTick DEF Call, HandOver, CopyInv, ClientInv, ClientTypes, DataTypes
<1>3. \A sts : /\ Waits(qc, s, sts) <=> st \in sts
               /\ Waits(qc', r, sts) <=> r # s /\ Waits(qc, r, sts)
  BY <1>1, ClientWaits DEF HandOver, CopyInv
<1>4. UNCHANGED <<sv, sending, qv, pos, wire, reply>>
  BY <1>1 DEF serverVars
<1>5. CASE r # s
  <2>1. Still(r)
    BY <1>1, <1>2, <1>3, <1>4, <1>5 DEF Still
  <2> QED BY <2>1, StillBaton
<1>6. CASE r = s
  <2>1. AtServer(s)' <=> AtServer(s)
    BY <1>4 DEF AtServer
  <2>2. cl'[s] = c /\ \A sts : ~Waits(qc', s, sts)
    BY <1>2, <1>3, <1>6
  <2>3. CASE st = "recv_finished"
    <3>1. inbox[s] # Nothing /\ inbox' = [inbox EXCEPT ![s] = Nothing] /\ OnRecvFinished(s)
          /\ c \in {"send", "quit"}
      BY <2>3, <1>1, <1>3, <1>6 DEF Baton
    <3>2. inbox'[s] = Nothing
      BY <3>1, <1>2
    <3>3. ~AtServer(s) /\ wire[s] = Nothing /\ sending[s] = Nothing /\ ~reply[s]
      BY <3>1, <1>6 DEF Baton, AtClient, AtServer
    <3>4. Baton(s)'
      BY <3>2, <3>3, <2>1, <2>2, <1>4, <1>6 DEF Baton
    <3>5. Handles(s)
      BY <3>1, <3>2, <3>3, <1>4 DEF Handles, Flight
    <3> QED BY <1>6, <3>4, <3>5
  <2>4. CASE st # "recv_finished"
    <3>1. /\ st \in {"connected", "send_finished", "disconnected"} /\ inbox' = inbox
          /\ c \in {"recv", "deleted"}
      BY <2>4, <1>1
    <3>2. inbox[s] = Nothing
      BY <3>1, <1>3, <1>6 DEF Baton
    <3>3. ~AtClient(s)'
      BY <3>1, <3>2, <2>2 DEF AtClient
    <3>4. Baton(s)'
      BY <3>1, <3>2, <3>3, <2>1, <2>2, <1>4, <1>6 DEF Baton
    <3>5. Keeps(s)
      BY <3>1, <1>4 DEF Keeps, Flight
    <3> QED BY <1>6, <3>4, <3>5
  <2> QED BY <2>3, <2>4
<1> QED BY <1>5, <1>6

LEMMA ThreadBaton ==
  ASSUME HandOver, NEW s \in Sessions, ThreadStep(s), NEW r \in Sessions, Baton(r)
  PROVE  Baton(r)' /\ Keeps(r)
<1>1. PICK st \in Handled :
        /\ cl[s] \in {"send", "recv", "quit"} /\ Thread(s, st)
        /\ \/ /\ st = "recv_finished" /\ cl[s] = "recv" /\ wire[s] # Nothing
              /\ inbox' = [inbox EXCEPT ![s] = wire[s]]
              /\ wire' = [wire EXCEPT ![s] = Nothing] /\ reply' = reply
           \/ /\ st = "send_finished" /\ cl[s] = "send"
              /\ reply' = [reply EXCEPT ![s] = TRUE] /\ UNCHANGED <<inbox, wire>>
           \/ st = "disconnected" /\ UNCHANGED <<inbox, wire, reply>>
  BY DEF ThreadStep, Received, Sent, Disconected, Ends, Handled
<1>2. /\ Queued(Pack(st, s)) /\ cl' = [cl EXCEPT ![s] = "package"]
      /\ UNCHANGED <<sv, sending, qv, pos>>
  BY <1>1 DEF Thread, Call, serverVars
<1>3. /\ cl \in [Sessions -> {"none", "package", "send", "recv", "quit", "deleted"}]
      /\ inbox \in [Sessions -> Bytes] /\ wire \in [Sessions -> Bytes]
      /\ reply \in [Sessions -> BOOLEAN]
  BY DEF HandOver, CopyInv, ClientInv, ClientTypes, DataTypes
<1>4. \A sts : /\ Waits(qc', r, sts) => Waits(qc, r, sts) \/ (r = s /\ st \in sts)
               /\ Waits(qc, r, sts) => Waits(qc', r, sts)
  BY <1>2, ClientQueue DEF HandOver
<1>5. CASE r # s
  <2>1. Still(r)
    BY <1>1, <1>2, <1>3, <1>4, <1>5 DEF Still
  <2> QED BY <2>1, StillBaton
<1>6. CASE r = s
  <2>1. \A sts : Waits(qc', s, sts) => st \in sts
    BY <1>1, <1>4, <1>6, NotQueued DEF HandOver
  <2>2. inbox[s] = Nothing
    BY <1>1, <1>6 DEF Baton
  <2>3. cl'[s] = "package" /\ (AtServer(s)' <=> AtServer(s))
    BY <1>2, <1>3 DEF AtServer
  <2>4. CASE st = "recv_finished"
    <3>1. /\ inbox'[s] = wire[s] /\ wire'[s] = Nothing /\ reply' = reply
          /\ wire[s] # Nothing
      BY <2>4, <1>1, <1>3
    <3>2. ~AtServer(s) /\ sending[s] = Nothing /\ ~reply[s]
      BY <3>1, <1>6 DEF Baton, AtServer
    <3>3. Baton(s)'
      BY <3>1, <3>2, <2>1, <2>3, <2>4, <1>2, <1>6 DEF Baton
    <3>4. Keeps(s)
      BY <3>1, <3>2, <1>2 DEF Keeps, Flight
    <3> QED BY <3>3, <3>4, <1>6
  <2>5. CASE st = "send_finished"
    <3>1. /\ inbox' = inbox /\ wire' = wire /\ AtClient(s)
      BY <2>5, <1>1 DEF AtClient
    <3>2. ~AtServer(s) /\ wire[s] = Nothing /\ sending[s] = Nothing
      BY <3>1, <1>6 DEF Baton, AtServer
    <3>3. ~AtClient(s)'
      BY <3>1, <2>2, <2>3 DEF AtClient
    <3>4. Baton(s)'
      BY <3>1, <3>2, <3>3, <2>1, <2>2, <2>3, <2>5, <1>2, <1>6 DEF Baton
    <3>5. Keeps(s)
      BY <3>1, <1>2 DEF Keeps, Flight
    <3> QED BY <3>4, <3>5, <1>6
  <2>6. CASE st = "disconnected"
    <3>1. /\ inbox' = inbox /\ wire' = wire /\ reply' = reply
      BY <2>6, <1>1
    <3>2. ~AtClient(s)'
      BY <3>1, <2>2, <2>3 DEF AtClient
    <3>3. Baton(s)'
      BY <3>1, <3>2, <2>1, <2>2, <2>3, <2>6, <1>2, <1>6 DEF Baton
    <3>4. Keeps(s)
      BY <3>1, <1>2 DEF Keeps, Flight
    <3> QED BY <3>3, <3>4, <1>6
  <2> QED BY <2>4, <2>5, <2>6 DEF Handled
<1> QED BY <1>5, <1>6

LEMMA ServerPutBaton ==
  ASSUME HandOver, NEW s \in Sessions, Accept(s) \/ ServerThread(s),
         NEW r \in Sessions, Baton(r)
  PROVE  Baton(r)' /\ Keeps(r)
<1>1. PICK st \in Statuses :
        /\ ServerPut(s, st)
        /\ \/ /\ st = "send_finished" /\ sv[s] = "send" /\ reply' = reply
              /\ wire' = [wire EXCEPT ![s] = sending[s]]
              /\ sending' = [sending EXCEPT ![s] = Nothing]
           \/ /\ st = "recv_finished" /\ sv[s] = "recv" /\ reply[s]
              /\ reply' = [reply EXCEPT ![s] = FALSE] /\ UNCHANGED <<sending, wire>>
           \/ /\ st = "disconnected" /\ sv[s] \in {"send", "recv"}
              /\ UNCHANGED <<sending, wire, reply>>
           \/ /\ st = "connected" /\ sv[s] = "backlog"
              /\ UNCHANGED <<sending, wire, reply>>
  BY DEF Accept, ServerThread, ServerSent, Transmit, ServerReceived,
         ServerDisconected, Statuses
<1>2. /\ sv' = [sv EXCEPT ![s] = "package"]
      /\ UNCHANGED <<cl, inbox, qc, pos>>
  BY <1>1 DEF ServerPut, clientVars
<1>3. /\ sv \in [Sessions -> {"none", "backlog", "package", "send", "recv", "deleted"}]
      /\ sending \in [Sessions -> Bytes] /\ wire \in [Sessions -> Bytes]
      /\ reply \in [Sessions -> BOOLEAN]
  BY DEF HandOver, CopyInv, ServerInv, ServerTypes, DataTypes
<1>4. \A sts : Waits(qv', r, sts) <=> Waits(qv, r, sts) \/ (r = s /\ st \in sts)
  BY <1>1, ServerQueue DEF HandOver
<1>5. CASE r # s
  <2>1. Still(r)
    BY <1>1, <1>2, <1>3, <1>4, <1>5 DEF Still
  <2> QED BY <2>1, StillBaton
<1>6. CASE r = s
  <2>1. \A sts : Waits(qv', s, sts) <=> st \in sts
    BY <1>1, <1>4, <1>6, NotQueued DEF HandOver
  <2>2. sv'[s] = "package" /\ (AtClient(s)' <=> AtClient(s))
    BY <1>2, <1>3 DEF AtClient
  <2>3. CASE st = "send_finished"
    <3>1. /\ wire'[s] = sending[s] /\ sending'[s] = Nothing /\ reply' = reply
          /\ sending[s] # Nothing /\ wire[s] = Nothing /\ ~AtClient(s) /\ ~reply[s]
          /\ inbox[s] = Nothing
      BY <2>3, <1>1, <1>3, <1>6 DEF Baton, AtServer, AtClient
    <3>2. ~AtServer(s)'
      BY <3>1, <2>1, <2>2, <2>3 DEF AtServer
    <3>3. Baton(s)'
      BY <3>1, <3>2, <2>1, <2>2, <2>3, <1>2, <1>6 DEF Baton
    <3>4. Keeps(s)
      BY <3>1, <1>2 DEF Keeps, Flight
    <3> QED BY <3>3, <3>4, <1>6
  <2>4. CASE st = "recv_finished"
    <3>1. /\ ~reply'[s] /\ sending' = sending /\ wire' = wire
          /\ sending[s] = Nothing /\ wire[s] = Nothing /\ ~AtClient(s)
      BY <2>4, <1>1, <1>3, <1>6 DEF Baton, AtServer, AtClient
    <3>2. Baton(s)'
      BY <3>1, <2>1, <2>2, <2>4, <1>2, <1>6 DEF Baton
    <3>3. Keeps(s)
      BY <3>1, <1>2 DEF Keeps, Flight
    <3> QED BY <3>2, <3>3, <1>6
  <2>5. CASE st = "disconnected"
    <3>1. sending' = sending /\ wire' = wire /\ reply' = reply
      BY <2>5, <1>1
    <3>2. AtServer(s)' => AtServer(s)
      BY <3>1, <2>1, <2>2, <2>5 DEF AtServer
    <3>3. Baton(s)'
      BY <3>1, <3>2, <2>1, <2>2, <2>5, <1>2, <1>6 DEF Baton
    <3>4. Keeps(s)
      BY <3>1, <1>2 DEF Keeps, Flight
    <3> QED BY <3>3, <3>4, <1>6
  <2>6. CASE st = "connected"
    <3>1. sending' = sending /\ wire' = wire /\ reply' = reply /\ sv[s] = "backlog"
      BY <2>6, <1>1
    <3>2. AtServer(s) /\ sending[s] = Nothing
      BY <3>1, <1>6 DEF AtServer, Baton
    <3>3. Baton(s)'
      BY <3>1, <3>2, <2>1, <2>2, <2>6, <1>2, <1>6 DEF Baton
    <3>4. Keeps(s)
      BY <3>1, <1>2 DEF Keeps, Flight
    <3> QED BY <3>3, <3>4, <1>6
  <2> QED BY <2>3, <2>4, <2>5, <2>6 DEF Statuses
<1> QED BY <1>5, <1>6

\* What read() and send() leave in the send buffer.
LEMMA SendPieceIs ==
  ASSUME DataTypes, NEW s \in Sessions, SendPiece(s)
  PROVE  /\ \A r \in Sessions : r # s => sending'[r] = sending[r] /\ pos'[r] = pos[r]
         /\ \/ pos[s] = fileSize /\ sending'[s] = EndMark /\ pos'[s] = 0
            \/ \E n \in 1..Piece :
                 /\ sending'[s] = PieceAt(pos[s], n) /\ pos'[s] = pos[s] + n
                 /\ n = Piece \/ pos'[s] = fileSize
<1> DEFINE n == IF fileSize - pos[s] < Piece THEN fileSize - pos[s] ELSE Piece
<1>1. pos[s] \in 0..fileSize /\ fileSize \in Nat /\ Piece \in Nat \ {0, 1}
  BY FileCopyAssumption DEF DataTypes
<1>2. /\ n = 0 => pos[s] = fileSize
      /\ n # 0 => n \in 1..Piece /\ (n = Piece \/ pos[s] + n = fileSize)
  BY <1>1
<1>3. SendBytes(s, n)
  BY DEF SendPiece
<1> HIDE DEF n
<1>4. /\ sending' = [sending EXCEPT ![s] = IF n = 0 THEN EndMark ELSE PieceAt(pos[s], n)]
      /\ pos' = [pos EXCEPT ![s] = IF n = 0 THEN 0 ELSE pos[s] + n]
  BY <1>3 DEF SendBytes, PieceAt
<1>5. /\ sending'[s] = IF n = 0 THEN EndMark ELSE PieceAt(pos[s], n)
      /\ pos'[s] = IF n = 0 THEN 0 ELSE pos[s] + n
      /\ \A r \in Sessions : r # s => sending'[r] = sending[r] /\ pos'[r] = pos[r]
  BY <1>4 DEF DataTypes
<1>6. CASE n = 0
  BY <1>2, <1>5, <1>6
<1>7. CASE n # 0
  BY <1>2, <1>5, <1>7
<1> QED BY <1>6, <1>7

LEMMA Pieces ==
  /\ EndMark # Nothing /\ Len(EndMark) = 1 /\ Len(Nothing) = 0
  /\ \A p \in Nat, n \in Nat \ {0} :
       /\ PieceAt(p, n) \in Seq(Int) /\ Len(PieceAt(p, n)) = n
       /\ PieceAt(p, n) # Nothing /\ PieceAt(p, n) # EndMark
       /\ \A i \in 1..n : PieceAt(p, n)[i] = p + i
<1>1. EndMark # Nothing /\ Len(EndMark) = 1 /\ Len(Nothing) = 0 /\ EndMark[1] = 0
  BY DEF EndMark, Nothing
<1>2. ASSUME NEW p \in Nat, NEW n \in Nat \ {0}
      PROVE  /\ PieceAt(p, n) \in Seq(Int) /\ Len(PieceAt(p, n)) = n
             /\ \A i \in 1..n : PieceAt(p, n)[i] = p + i
             /\ PieceAt(p, n) # Nothing /\ PieceAt(p, n) # EndMark
  <2>1. /\ PieceAt(p, n) \in Seq(Int) /\ Len(PieceAt(p, n)) = n
        /\ \A i \in 1..n : PieceAt(p, n)[i] = p + i
    BY DEF PieceAt
  <2>2. PieceAt(p, n)[1] = p + 1 /\ p + 1 # 0
    BY <2>1
  <2> QED BY <1>1, <2>1, <2>2
<1> QED BY <1>1, <1>2

LEMMA ServerHandlerBaton ==
  ASSUME HandOver, NEW s \in Sessions, ServerHandler(s), NEW r \in Sessions, Baton(r)
  PROVE  Baton(r)' /\ (Keeps(r) \/ Sends(r))
<1>1. PICK st \in Statuses, c \in {"send", "recv", "deleted"} :
        /\ ServerTick(st, s) /\ sv' = [sv EXCEPT ![s] = c]
        /\ \/ st \in {"connected", "recv_finished"} /\ c = "send" /\ SendPiece(s)
           \/ /\ st \in {"send_finished", "disconnected"} /\ c # "send"
              /\ c = "recv" => st = "send_finished"
              /\ UNCHANGED <<pos, sending>>
  BY DEF ServerHandler, ServerOnConnected, ServerOnRecvFinished,
         ServerOnSendFinished, ServerOnDisconnected, SendPiece, SendBytes, Statuses
<1>2. UNCHANGED <<cl, inbox, qc, wire, reply>>
  BY <1>1 DEF ServerTick, clientVars
<1>3. /\ sv \in [Sessions -> {"none", "backlog", "package", "send", "recv", "deleted"}]
      /\ DataTypes
  BY DEF HandOver, CopyInv, ServerInv, ServerTypes
<1>4. \A sts : /\ Waits(qv, s, sts) <=> st \in sts
               /\ Waits(qv', r, sts) <=> r # s /\ Waits(qv, r, sts)
  BY <1>1, ServerWaits DEF HandOver
<1>5. CASE r # s
  <2>1. sending'[r] = sending[r] /\ pos'[r] = pos[r] /\ sv'[r] = sv[r]
    BY <1>1, <1>3, <1>5, SendPieceIs
  <2>2. Still(r)
    BY <2>1, <1>2, <1>4, <1>5 DEF Still
  <2> QED BY <2>2, StillBaton
<1>6. CASE r = s
  <2>1. /\ sv'[s] = c /\ (AtClient(s)' <=> AtClient(s))
        /\ \A sts : ~Waits(qv', s, sts)
    BY <1>1, <1>2, <1>3, <1>4, <1>6 DEF AtClient
  <2>2. CASE st \in {"connected", "recv_finished"} /\ c = "send" /\ SendPiece(s)
    <3>1. /\ Waits(qv, s, {"connected", "recv_finished"})
          /\ Waits(qv, s, {"connected", "recv_finished", "send_finished"})
      BY <2>2, <1>4
    <3>2. /\ AtServer(s) /\ sending[s] = Nothing /\ wire[s] = Nothing /\ inbox[s] = Nothing
      BY <3>1, <1>6 DEF AtServer, AtClient, Baton
    <3>3. sending'[s] # Nothing
      <4>1. pos[s] \in Nat /\ \A n \in 1..Piece : n \in Nat \ {0}
        BY <1>3, FileCopyAssumption DEF DataTypes
      <4>2. \/ sending'[s] = EndMark
            \/ \E n \in 1..Piece : sending'[s] = PieceAt(pos[s], n)
        <5>1. \/ pos[s] = fileSize /\ sending'[s] = EndMark /\ pos'[s] = 0
              \/ \E n \in 1..Piece :
                   /\ sending'[s] = PieceAt(pos[s], n) /\ pos'[s] = pos[s] + n
                   /\ n = Piece \/ pos'[s] = fileSize
          BY <2>2, <1>3, SendPieceIs
        <5> QED BY <5>1
      <4>3. ASSUME NEW n \in 1..Piece PROVE PieceAt(pos[s], n) # Nothing
        BY <4>1, Pieces
      <4> QED BY <4>2, <4>3, Pieces
    <3>4. Baton(s)'
      BY <3>2, <3>3, <2>1, <2>2, <1>2, <1>6 DEF Baton
    <3>5. Sends(s)
      BY <3>2, <3>3, <2>2 DEF Sends, Flight
    <3> QED BY <3>4, <3>5, <1>6
  <2>3. CASE /\ st \in {"send_finished", "disconnected"} /\ c # "send"
             /\ UNCHANGED <<pos, sending>>
    <3>1. c = "recv" \/ c = "deleted"
      BY <2>3
    <3>2. AtServer(s)' => AtServer(s)
      BY <3>1, <2>1, <2>3 DEF AtServer
    <3>3. Keeps(s)
      BY <2>3, <1>2 DEF Keeps, Flight
    <3>4. st = "send_finished" => sending[s] = Nothing
      <4>1. st = "send_finished" =>
              Waits(qv, s, {"connected", "recv_finished", "send_finished"})
        BY <1>4
      <4> QED BY <4>1, <1>6 DEF Baton
    <3>5. c = "recv" => st = "send_finished"
      BY <2>3, <1>1
    <3>6. Baton(s)'
      BY <3>1, <3>2, <3>4, <3>5, <2>1, <2>3, <1>2, <1>6 DEF Baton
    <3> QED BY <3>3, <3>6, <1>6
  <2> QED BY <1>1, <2>2, <2>3
<1> QED BY <1>5, <1>6

LEMMA BatonStep ==
  ASSUME HandOver, [Next]_vars, NEW r \in Sessions, Baton(r)
  PROVE  Baton(r)' /\ (Keeps(r) \/ Sends(r) \/ Handles(r))
<1>1. CASE Connect
  <2> DEFINE n == opened + 1
  <2>1. /\ opened \in Nat /\ n \in Sessions /\ n > opened
        /\ sv' = [sv EXCEPT ![n] = "backlog"] /\ cl' = [cl EXCEPT ![n] = "package"]
        /\ UNCHANGED <<inbox, qv, pos, sending, wire, reply>>
    BY <1>1, FileCopyAssumption
       DEF Connect, HandOver, CopyInv, ClientInv, ClientTypes, Sessions
  <2>2. /\ cl \in [Sessions -> {"none", "package", "send", "recv", "quit", "deleted"}]
        /\ sv \in [Sessions -> {"none", "backlog", "package", "send", "recv", "deleted"}]
        /\ sv[n] = "none" /\ cl[n] = "none" /\ qc \in Seq(Packages)
    BY <2>1 DEF HandOver, CopyInv, ClientInv, ClientTypes, ServerInv, ServerTypes,
         ClientOpened
  <2>3. \A sts : Waits(qc', r, sts) <=> Waits(qc, r, sts) \/ (r = n /\ "connected" \in sts)
    <3> DEFINE st == "connected"
    <3>1. st \in Statuses /\ qc' = Append(qc, Pack(st, n)) /\ st = "connected"
      BY <1>1, <2>1 DEF Connect, Queued, Stopped, Statuses
    <3> HIDE DEF st, n
    <3>2. ASSUME NEW sts
          PROVE  Waits(qc', r, sts) <=> Waits(qc, r, sts) \/ (r = n /\ st \in sts)
      <4>1. /\ qc \in Seq(Packages) /\ n \in Sessions /\ st \in Statuses
            /\ qc' = Append(qc, Pack(st, n))
        BY <2>1, <2>2, <3>1
      <4> QED BY <4>1, WaitsPut, Zenon
    <3> QED BY <3>1, <3>2
  <2> HIDE DEF n
  <2>4. CASE r # n
    <3>1. Still(r)
      BY <2>1, <2>2, <2>3, <2>4 DEF Still
    <3> QED BY <3>1, StillBaton
  <2>5. CASE r = n
    <3>1. \A sts : Waits(qc', r, sts) <=> "connected" \in sts
      BY <2>2, <2>3, <2>5, NotQueued DEF HandOver
    <3>2. AtServer(r) /\ sv'[r] = "backlog" /\ cl'[r] = "package"
      BY <2>1, <2>2, <2>5 DEF AtServer
    <3>3. inbox[r] = Nothing /\ sending[r] = Nothing /\ wire[r] = Nothing /\ ~reply[r]
      BY <3>2, <2>2, <2>5 DEF Baton, AtClient
    <3>4. Baton(r)'
      BY <3>1, <3>2, <3>3, <2>1 DEF Baton, AtServer, AtClient
    <3>5. Keeps(r)
      BY <2>1 DEF Keeps, Flight
    <3> QED BY <3>4, <3>5
  <2> QED BY <2>4, <2>5
<1>2. CASE \/ ConnectFails \/ LoopStart \/ Quit \/ CloseSockets \/ Wait \/ Remove
           \/ UNCHANGED vars \/ \E s \in Sessions : Lose(s)
  <2>1. UNCHANGED <<sv, cl, sending, wire, inbox, reply, pos, qv, qc>>
    BY <1>2 DEF ConnectFails, LoopStart, Quit, CloseSockets, Wait, Remove, MainTo,
         vars, Lose, clientVars, serverVars, net
  <2>2. Still(r)
    BY <2>1 DEF Still
  <2> QED BY <2>2, StillBaton
<1>3. ASSUME NEW s \in Sessions, Handler(s)
      PROVE  Baton(r)' /\ (Keeps(r) \/ Handles(r))
  BY <1>3, ClientHandlerBaton
<1>4. ASSUME NEW s \in Sessions, ThreadStep(s) PROVE Baton(r)' /\ Keeps(r)
  BY <1>4, ThreadBaton
<1>5. ASSUME NEW s \in Sessions, Accept(s) \/ ServerThread(s) PROVE Baton(r)' /\ Keeps(r)
  BY <1>5, ServerPutBaton
<1>6. ASSUME NEW s \in Sessions, ServerHandler(s)
      PROVE  Baton(r)' /\ (Keeps(r) \/ Sends(r))
  BY <1>6, ServerHandlerBaton
<1> QED BY <1>1, <1>2, <1>3, <1>4, <1>5, <1>6 DEF Next, Progress

LEMMA HandOverStep ==
  ASSUME HandOver, [Next]_vars PROVE HandOver' /\ fileSize' = fileSize
<1>1. reply' = reply \/ \E s \in Sessions, b \in BOOLEAN : reply' = [reply EXCEPT ![s] = b]
  <2>1. CASE Connect \/ ConnectFails \/ LoopStart \/ Quit \/ CloseSockets \/ Wait \/ Remove
             \/ UNCHANGED vars
    BY <2>1 DEF Connect, ConnectFails, LoopStart, Quit, CloseSockets, Wait, Remove,
         MainTo, vars, net
  <2>2. ASSUME NEW s \in Sessions,
               \/ Handler(s) \/ ThreadStep(s) \/ Accept(s) \/ ServerHandler(s)
               \/ ServerThread(s) \/ Lose(s)
        PROVE  reply' = reply \/ \E b \in BOOLEAN : reply' = [reply EXCEPT ![s] = b]
    BY <2>2 DEF Handler, OnConnected, OnSendFinished, OnRecvFinished, OnDisconnected,
         DeleteSession, net, ThreadStep, Received, Sent, Disconected, Ends, Accept,
         ServerHandler, ServerOnConnected, ServerOnRecvFinished, ServerOnSendFinished,
         ServerOnDisconnected, ServerTick, ServerThread, ServerSent, Transmit,
         ServerReceived, ServerDisconected, Lose
  <2> QED BY <2>1, <2>2 DEF Next, Progress
<1>2. fileSize' = fileSize
  <2>1. CASE Connect \/ ConnectFails \/ LoopStart \/ Quit \/ CloseSockets \/ Wait \/ Remove
             \/ UNCHANGED vars
    BY <2>1 DEF Connect, ConnectFails, LoopStart, Quit, CloseSockets, Wait, Remove,
         MainTo, vars
  <2>2. ASSUME NEW s \in Sessions,
               \/ Handler(s) \/ ThreadStep(s) \/ Accept(s) \/ ServerHandler(s)
               \/ ServerThread(s) \/ Lose(s)
        PROVE  fileSize' = fileSize
    BY <2>2 DEF Handler, OnConnected, OnSendFinished, OnRecvFinished, OnDisconnected,
         DeleteSession, Tick, ThreadStep, Received, Sent, Disconected, Ends, Thread,
         Accept, ServerPut, ServerHandler, ServerOnConnected, ServerOnRecvFinished,
         ServerOnSendFinished, ServerOnDisconnected, ServerTick, ServerThread,
         ServerSent, Transmit, ServerReceived, ServerDisconected, Lose
  <2> QED BY <2>1, <2>2 DEF Next, Progress
<1> QED BY <1>1, <1>2, CopyInvStep DEF HandOver

-----------------------------------------------------------------------------
(* What is on its way.                                                     *)

LEMMA OneMore ==
  ASSUME NEW P \in Nat \ {0, 1}, NEW k \in Nat
  PROVE  (k * P + 1) % P = 1
<1> DEFINE a == k * P + 1
           q == a \div P
           m == a % P
<1>1. a \in Nat /\ q \in Int /\ m \in 0..P - 1 /\ a = P * q + m
  OBVIOUS
<1> HIDE DEF q, m
<1>2. P * (k - q) = m - 1 /\ k - q \in Int
  BY <1>1
<1> DEFINE d == k - q
<1>3. d \in Int /\ P * d = m - 1
  BY <1>2
<1> HIDE DEF d
<1>4. d >= 1 => P * d >= P
  BY <1>3
<1>5. d <= -1 => P * d <= -P
  BY <1>3
<1>6. d = 0
  BY <1>1, <1>3, <1>4, <1>5
<1> QED BY <1>1, <1>3, <1>6 DEF m

LEMMA InFlightStep ==
  ASSUME HandOver, [Next]_vars, NEW r \in Sessions, Baton(r), InFlight(r)
  PROVE  /\ InFlight(r)'
         /\ (Handles(r) /\ Got(r)' = pos[r]) \/ Got(r)' = Got(r)
<1>1. /\ Keeps(r) \/ Sends(r) \/ Handles(r)
      /\ fileSize' = fileSize /\ DataTypes /\ DataTypes'
  BY BatonStep, HandOverStep DEF HandOver, CopyInv
<1>2. /\ pos[r] \in 0..fileSize /\ pos'[r] \in 0..fileSize /\ fileSize \in Nat
      /\ Piece \in Nat \ {0, 1}
  BY <1>1, FileCopyAssumption DEF DataTypes
<1>3. CASE Keeps(r)
  BY <1>1, <1>3 DEF Keeps, InFlight, Got
<1>4. CASE Handles(r)
  <2>1. Flight(r)' = Nothing /\ pos'[r] = pos[r] /\ Nothing # EndMark /\ Len(Nothing) = 0
    BY <1>4, Pieces DEF Handles
  <2>2. InFlight(r)'
    BY <1>1, <2>1 DEF InFlight
  <2>3. Got(r)' = pos[r]
    BY <1>2, <2>1 DEF Got
  <2> QED BY <1>4, <2>2, <2>3
<1>5. CASE Sends(r)
  <2>1. Flight(r) = Nothing /\ Flight(r)' = sending'[r] /\ SendPiece(r)
    BY <1>5 DEF Sends
  <2>2. Got(r) = pos[r]
    <3>1. Nothing # EndMark /\ Len(Nothing) = 0
      BY Pieces
    <3> QED BY <2>1, <3>1, <1>2 DEF Got
  <2>3. \/ pos[r] = fileSize /\ sending'[r] = EndMark /\ pos'[r] = 0
        \/ \E n \in 1..Piece :
             /\ sending'[r] = PieceAt(pos[r], n) /\ pos'[r] = pos[r] + n
             /\ n = Piece \/ pos'[r] = fileSize
    BY <1>1, <2>1, SendPieceIs
  <2>4. CASE pos[r] = fileSize /\ sending'[r] = EndMark /\ pos'[r] = 0
    <3>1. Got(r)' = fileSize
      BY <2>1, <2>4, <1>1 DEF Got
    <3>2. pos'[r] = 0 * Piece
      BY <2>4, <1>2
    <3>3. InFlight(r)'
      BY <2>1, <2>4, <3>2 DEF InFlight
    <3> QED BY <2>2, <2>4, <3>1, <3>3
  <2>5. CASE \E n \in 1..Piece :
               /\ sending'[r] = PieceAt(pos[r], n) /\ pos'[r] = pos[r] + n
               /\ n = Piece \/ pos'[r] = fileSize
    <3>1. PICK n \in 1..Piece :
               /\ sending'[r] = PieceAt(pos[r], n) /\ pos'[r] = pos[r] + n
               /\ n = Piece \/ pos'[r] = fileSize
      BY <2>5
    <3>2. /\ n \in Nat \ {0} /\ pos[r] \in Nat /\ n \in 1..pos'[r] /\ pos'[r] - n = pos[r]
          /\ pos[r] # fileSize
      BY <3>1, <1>2
    <3>3. PICK k \in Nat : pos[r] = k * Piece
      BY <3>2 DEF InFlight
    <3>4. n = 1 => fileSize % Piece = 1
      <4>1. n = 1 => fileSize = k * Piece + 1
        BY <3>1, <3>3, <1>2
      <4>2. (k * Piece + 1) % Piece = 1
        BY <1>2, OneMore
      <4> QED BY <4>1, <4>2
    <3>5. pos'[r] = fileSize \/ \E j \in Nat : pos'[r] = j * Piece
      <4>1. CASE n = Piece
        <5>1. pos'[r] = (k + 1) * Piece /\ k + 1 \in Nat
          BY <4>1, <3>1, <3>3, <1>2
        <5> QED BY <5>1
      <4> QED BY <3>1, <4>1
    <3>6. Flight(r)' = PieceAt(pos'[r] - n, n)
      BY <2>1, <3>1, <3>2
    <3>7. InFlight(r)'
      BY <3>2, <3>4, <3>5, <3>6, <1>1 DEF InFlight
    <3>8. Got(r)' = pos[r]
      <4>1. PieceAt(pos[r], n) # EndMark /\ Len(PieceAt(pos[r], n)) = n
        BY <3>2, Pieces
      <4> QED BY <4>1, <2>1, <3>1, <3>2 DEF Got
    <3> QED BY <2>2, <3>7, <3>8
  <2> QED BY <2>3, <2>4, <2>5
<1> QED BY <1>1, <1>3, <1>4, <1>5

-----------------------------------------------------------------------------
(* The files.                                                              *)

\* What a session has and writes is as before, and nobody is deleted.
Aside ==
  /\ UNCHANGED <<id, count, pf, stream, files, misclosed>>
  /\ \A r \in Sessions : cl'[r] = "deleted" <=> cl[r] = "deleted"

LEMMA AsideStep ==
  ASSUME HandOver, [Next]_vars
  PROVE  \/ Aside
         \/ \E s \in Sessions : OnConnected(s) \/ OnRecvFinished(s) \/ OnDisconnected(s)
<1>1. cl \in [Sessions -> {"none", "package", "send", "recv", "quit", "deleted"}]
      /\ qc \in Seq(Packages)
  BY DEF HandOver, CopyInv, ClientInv, ClientTypes
<1>2. CASE Connect
  <2>1. /\ opened + 1 \in Sessions /\ cl' = [cl EXCEPT ![opened + 1] = "package"]
        /\ UNCHANGED <<id, count, pf, stream, files, misclosed>>
    BY <1>2, FileCopyAssumption
       DEF Connect, copies, ub, HandOver, CopyInv, ClientInv, ClientTypes, Sessions
  <2>2. cl[opened + 1] = "none"
    BY <2>1, FileCopyAssumption
       DEF HandOver, CopyInv, ClientInv, ClientTypes, ClientOpened, Sessions
  <2> QED BY <2>1, <2>2, <1>1 DEF Aside
<1>3. CASE ConnectFails \/ LoopStart \/ Quit \/ CloseSockets \/ Wait \/ Remove
           \/ UNCHANGED vars
  BY <1>3 DEF ConnectFails, LoopStart, Quit, CloseSockets, Wait, Remove, MainTo, vars,
       copies, ub, Aside
<1>4. ASSUME NEW s \in Sessions, OnSendFinished(s) PROVE Aside
  <2>1. /\ Tick("send_finished", s) /\ cl' = [cl EXCEPT ![s] = "recv"]
        /\ UNCHANGED <<id, count, pf, stream, files, misclosed>>
    BY <1>4 DEF OnSendFinished, Call, copies, ub
  <2>2. cl[s] = "package"
    BY <2>1, TokenHead, Zenon DEF Tick, HandOver, CopyInv, ClientInv, ClientTypes
  <2> QED BY <2>1, <2>2, <1>1 DEF Aside
<1>5. ASSUME NEW s \in Sessions, ThreadStep(s) PROVE Aside
  <2>1. /\ cl[s] \in {"send", "recv", "quit"} /\ cl' = [cl EXCEPT ![s] = "package"]
        /\ UNCHANGED <<id, count, pf, stream, files, misclosed>>
    BY <1>5 DEF ThreadStep, Received, Sent, Disconected, Ends, Thread, Call, copies, ub
  <2> QED BY <2>1, <1>1 DEF Aside
<1>6. ASSUME NEW s \in Sessions,
             Accept(s) \/ ServerThread(s) \/ ServerHandler(s) \/ Lose(s)
      PROVE  Aside
  <2>1. UNCHANGED <<cl, id, count, pf, stream, files, misclosed>>
    BY <1>6 DEF Accept, ServerThread, ServerSent, Transmit, ServerReceived,
         ServerDisconected, ServerPut, ServerHandler, ServerOnConnected,
         ServerOnRecvFinished, ServerOnSendFinished, ServerOnDisconnected,
         ServerTick, Lose, copies, ub
  <2> QED BY <2>1 DEF Aside
<1> QED BY <1>2, <1>3, <1>4, <1>5, <1>6 DEF Next, Progress, Handler

LEMMA UnknownStep ==
  ASSUME HandOver, [Next]_vars, NEW r \in Sessions, Unknown(r)'
  PROVE  Unknown(r) /\ ~Handler(r)
<1>1. /\ cl \in [Sessions -> {"none", "package", "send", "recv", "quit", "deleted"}]
      /\ qc \in Seq(Packages) /\ ClientInv
  BY DEF HandOver, CopyInv, ClientInv, ClientTypes
<1>2. ASSUME NEW s \in Sessions, Handler(s) PROVE r # s /\ Unknown(r)
  <2>1. PICK st \in Statuses, c \in {"recv", "send", "quit", "deleted"} :
          Tick(st, s) /\ cl' = [cl EXCEPT ![s] = c]
    <3>1. CASE OnRecvFinished(s)
      <4>1. Tick("recv_finished", s) /\ \E c \in {"send", "quit"} : Call(s, c)
        BY <3>1 DEF OnRecvFinished, EndOfCopy, PieceOfCopy
      <4> QED BY <4>1 DEF Call, Statuses
    <3> QED BY <1>2, <3>1 DEF Handler, OnConnected, OnSendFinished, OnDisconnected,
               DeleteSession, Call, Statuses
  <2>2. \A sts : Waits(qc', r, sts) <=> r # s /\ Waits(qc, r, sts)
    BY <2>1, <1>1, ClientWaits
  <2> QED BY <2>1, <2>2, <1>1 DEF Unknown
<1>3. ASSUME Connect PROVE Unknown(r)
  <2>1. CASE r = opened + 1
    <3>1. cl[r] = "none"
      BY <2>1, <1>1, FileCopyAssumption DEF ClientInv, ClientTypes, ClientOpened, Sessions
    <3> QED BY <3>1 DEF Unknown
  <2>2. CASE r # opened + 1
    <3>1. qc' = Append(qc, Pack("connected", opened + 1)) /\ opened + 1 \in Sessions
          /\ cl' = [cl EXCEPT ![opened + 1] = "package"]
      BY <1>3, <1>1, FileCopyAssumption
         DEF Connect, Queued, Stopped, ClientInv, ClientTypes, Sessions
    <3> DEFINE st == "connected"
               n == opened + 1
    <3>2. st \in Statuses /\ n \in Sessions /\ qc' = Append(qc, Pack(st, n))
      BY <3>1 DEF Statuses
    <3> HIDE DEF st, n
    <3>3. \A sts : Waits(qc', r, sts) <=> Waits(qc, r, sts) \/ (r = n /\ st \in sts)
      <4> SUFFICES ASSUME NEW sts
                   PROVE  Waits(qc', r, sts) <=> Waits(qc, r, sts) \/ (r = n /\ st \in sts)
        OBVIOUS
      <4> QED BY <3>2, <1>1, WaitsPut, Zenon
    <3>4. r # n
      BY <2>2 DEF n
    <3> QED BY <3>1, <3>3, <3>4, <2>2, <1>1 DEF Unknown
  <2> QED BY <2>1, <2>2
<1>4. ASSUME NEW s \in Sessions, ThreadStep(s) PROVE Unknown(r)
  <2>1. PICK st \in Handled : Thread(s, st)
    BY <1>4 DEF ThreadStep, Received, Sent, Disconected, Ends, Handled
  <2>2. Queued(Pack(st, s)) /\ cl' = [cl EXCEPT ![s] = "package"]
    BY <2>1 DEF Thread, Call
  <2>3. Waits(qc', r, {"connected"}) =>
          Waits(qc, r, {"connected"}) \/ (r = s /\ st \in {"connected"})
    BY <2>2, ClientQueue DEF HandOver
  <2>4. st # "connected"
    BY DEF Handled
  <2> QED BY <2>2, <2>3, <2>4, <1>1 DEF Unknown
<1>5. ASSUME \/ ConnectFails \/ LoopStart \/ Quit \/ CloseSockets \/ Wait \/ Remove
             \/ UNCHANGED vars
      PROVE  Unknown(r)
  BY <1>5 DEF ConnectFails, LoopStart, Quit, CloseSockets, Wait, Remove, MainTo, vars,
       clientVars, Unknown
<1>6. ASSUME NEW s \in Sessions,
             Accept(s) \/ ServerThread(s) \/ ServerHandler(s) \/ Lose(s)
      PROVE  Unknown(r)
  <2>1. UNCHANGED <<cl, qc>>
    BY <1>6 DEF Accept, ServerThread, ServerSent, Transmit, ServerReceived,
         ServerDisconected, ServerPut, ServerHandler, ServerOnConnected,
         ServerOnRecvFinished, ServerOnSendFinished, ServerOnDisconnected,
         ServerTick, Lose, clientVars
  <2> QED BY <2>1 DEF Unknown
<1>7. Unknown(r)
  BY <1>2, <1>3, <1>4, <1>5, <1>6 DEF Next, Progress
<1> QED BY <1>2, <1>7

\* The FILEs without those of session s.
Others(s, table) ==
  /\ \A r \in Sessions \ {s} :
       Copying(r) /\ pf[r] # 0 => table[pf[r]] = <<r, count[r]>>
  /\ \A f \in Sessions : table[f] # NoName =>
       \E r \in Sessions \ {s} :
         Copying(r) /\ pf[r] = f /\ table[f] = <<r, count[r]>>

LEMMA NameOf ==
  ASSUME NEW r \in Sessions, NEW k
  PROVE  <<r, k>> # NoName /\ <<r, k>>[1] = r
BY FileCopyAssumption DEF NoName, Sessions

\* fclose() of one's own FILE, or of none, leaves the others theirs.
LEMMA CloseOthers ==
  ASSUME DataTypes, Streams, NEW s \in Sessions,
         NEW table, table = IF pf[s] = 0 THEN stream ELSE Closed(pf[s]),
         pf[s] # 0 => stream[pf[s]] = NoName \/ stream[pf[s]][1] = s
  PROVE  Others(s, table) /\ table \in [Sessions -> Names \cup {NoName}]
<1>1. /\ pf \in [Sessions -> 0..Clients] /\ stream \in [Sessions -> Names \cup {NoName}]
      /\ \A r \in Sessions : pf[r] # 0 => pf[r] \in Sessions
  BY FileCopyAssumption DEF DataTypes, Sessions
<1>2. \A f \in Sessions : table[f] = IF f = pf[s] THEN NoName ELSE stream[f]
  BY <1>1, FileCopyAssumption DEF Closed, Sessions
<1>3. table \in [Sessions -> Names \cup {NoName}]
  BY <1>1 DEF Closed
<1>4. ASSUME NEW r \in Sessions \ {s}, Copying(r), pf[r] # 0
      PROVE  table[pf[r]] = <<r, count[r]>>
  <2>1. stream[pf[r]] = <<r, count[r]>> /\ pf[r] \in Sessions
    BY <1>1, <1>4 DEF Streams
  <2>2. pf[r] # pf[s]
    <3> SUFFICES ASSUME pf[r] = pf[s] PROVE FALSE
      OBVIOUS
    <3>1. <<r, count[r]>> # NoName /\ <<r, count[r]>>[1] = r
      BY NameOf
    <3>2. stream[pf[s]] = NoName \/ stream[pf[s]][1] = s
      BY <1>4
    <3> QED BY <2>1, <3>1, <3>2
  <2> QED BY <2>1, <2>2, <1>2
<1>5. ASSUME NEW f \in Sessions, table[f] # NoName
      PROVE  \E r \in Sessions \ {s} :
               Copying(r) /\ pf[r] = f /\ table[f] = <<r, count[r]>>
  <2>1. f # pf[s] /\ table[f] = stream[f]
    BY <1>2, <1>5
  <2>2. PICK r \in Sessions : Copying(r) /\ pf[r] = f /\ stream[f] = <<r, count[r]>>
    BY <2>1, <1>5 DEF Streams
  <2> QED BY <2>1, <2>2
<1> QED BY <1>3, <1>4, <1>5 DEF Others

LEMMA FopenStreams ==
  ASSUME DataTypes, NEW s \in Sessions, NEW k,
         NEW table \in [Sessions -> Names \cup {NoName}], Others(s, table),
         Fopen(s, <<s, k>>, table),
         count'[s] = k, k < CopyCount, cl'[s] # "deleted",
         \A r \in Sessions \ {s} :
           count'[r] = count[r] /\ (cl'[r] = "deleted" <=> cl[r] = "deleted")
  PROVE  Streams'
<1>1. PICK f \in {0} \cup Sessions :
        /\ pf' = [pf EXCEPT ![s] = f]
        /\ stream' = [g \in Sessions |-> IF g = f THEN <<s, k>> ELSE table[g]]
        /\ f # 0 => table[f] = NoName
  <2>1. PICK f \in {0} \cup {g \in Sessions : table[g] = NoName} :
          /\ pf' = [pf EXCEPT ![s] = f]
          /\ stream' = [g \in Sessions |-> IF g = f THEN <<s, k>> ELSE table[g]]
    BY DEF Fopen
  <2> QED BY <2>1
<1>2. /\ pf'[s] = f /\ \A r \in Sessions \ {s} : pf'[r] = pf[r]
      /\ \A r \in Sessions : pf[r] # 0 => pf[r] \in Sessions
      /\ 0 \notin Sessions
  BY <1>1, FileCopyAssumption DEF DataTypes, Sessions
<1>3. \A r \in Sessions \ {s} : Copying(r)' <=> Copying(r)
  BY DEF Copying
<1>4. ASSUME NEW r \in Sessions, Copying(r)', pf'[r] # 0
      PROVE  stream'[pf'[r]] = <<r, count'[r]>>
  <2>1. CASE r = s
    BY <2>1, <1>1, <1>2, <1>4
  <2>2. CASE r # s
    <3>1. table[pf[r]] = <<r, count[r]>> /\ pf[r] \in Sessions
      BY <2>2, <1>2, <1>3, <1>4 DEF Others
    <3>2. <<r, count[r]>> # NoName
      BY NameOf
    <3>3. pf[r] # f
      BY <3>1, <3>2, <1>1, <1>2
    <3> QED BY <2>2, <3>1, <3>3, <1>1, <1>2
  <2> QED BY <2>1, <2>2
<1>5. ASSUME NEW g \in Sessions, stream'[g] # NoName
      PROVE  \E r \in Sessions :
               Copying(r)' /\ pf'[r] = g /\ stream'[g] = <<r, count'[r]>>
  <2>1. CASE g = f
    <3>1. Copying(s)'
      BY DEF Copying
    <3> QED BY <2>1, <3>1, <1>1, <1>2
  <2>2. CASE g # f
    <3>1. stream'[g] = table[g]
      BY <2>2, <1>1
    <3>2. PICK r \in Sessions \ {s} :
            Copying(r) /\ pf[r] = g /\ table[g] = <<r, count[r]>>
      BY <3>1, <1>5 DEF Others
    <3> QED BY <3>1, <3>2, <1>2, <1>3
  <2> QED BY <2>1, <2>2
<1> QED BY <1>4, <1>5 DEF Streams

LEMMA NoMoreStreams ==
  ASSUME NEW s \in Sessions, NEW table, Others(s, table),
         stream' = table, pf' = pf, cl'[s] = "deleted" \/ ~(count'[s] < CopyCount),
         \A r \in Sessions \ {s} :
           count'[r] = count[r] /\ (cl'[r] = "deleted" <=> cl[r] = "deleted")
  PROVE  Streams'
<1>1. ~Copying(s)' /\ \A r \in Sessions \ {s} : Copying(r)' <=> Copying(r)
  BY DEF Copying
<1>2. ASSUME NEW r \in Sessions, Copying(r)', pf'[r] # 0
      PROVE  stream'[pf'[r]] = <<r, count'[r]>>
  BY <1>1, <1>2 DEF Others
<1>3. ASSUME NEW g \in Sessions, stream'[g] # NoName
      PROVE  \E r \in Sessions :
               Copying(r)' /\ pf'[r] = g /\ stream'[g] = <<r, count'[r]>>
  <2>1. PICK r \in Sessions \ {s} :
          Copying(r) /\ pf[r] = g /\ table[g] = <<r, count[r]>>
    BY <1>3 DEF Others
  <2> QED BY <2>1, <1>1
<1> QED BY <1>2, <1>3 DEF Streams

CopyHandler(s) == OnConnected(s) \/ OnRecvFinished(s) \/ OnDisconnected(s)

\* A handler changes what its session has, and nobody else's.
LEMMA Locals ==
  ASSUME CopyInv, NEW s \in Sessions, CopyHandler(s), NEW r \in Sessions \ {s}
  PROVE  /\ count'[r] = count[r] /\ pf'[r] = pf[r] /\ id'[r] = id[r]
         /\ cl'[r] = "deleted" <=> cl[r] = "deleted"
         /\ ~OnRecvFinished(r)
<1>1. /\ count \in [Sessions -> 0..CopyCount] /\ pf \in [Sessions -> 0..Clients]
      /\ id \in [Sessions -> Nat]
      /\ cl \in [Sessions -> {"none", "package", "send", "recv", "quit", "deleted"}]
  BY DEF CopyInv, ClientInv, ClientTypes, DataTypes
<1>2. /\ \E c \in {"recv", "send", "quit", "deleted"} : cl' = [cl EXCEPT ![s] = c]
      /\ count' = count \/ count' = [count EXCEPT ![s] = count[s] + 1]
      /\ pf' = pf \/ \E f \in {0} \cup Sessions : pf' = [pf EXCEPT ![s] = f]
      /\ id' = id \/ id' = [id EXCEPT ![s] = connections']
      /\ \E st \in Statuses : Tick(st, s)
  <2>1. CASE OnConnected(s)
    BY <2>1 DEF OnConnected, Fopen, Call, Statuses
  <2>2. CASE OnDisconnected(s)
    BY <2>2 DEF OnDisconnected, DeleteSession, Call, Statuses
  <2>3. CASE OnRecvFinished(s)
    <3>1. EndOfCopy(s) \/ PieceOfCopy(s)
      BY <2>3 DEF OnRecvFinished
    <3>2. id' = id /\ Tick("recv_finished", s)
      BY <2>3 DEF OnRecvFinished
    <3>3. CASE PieceOfCopy(s)
      BY <3>2, <3>3 DEF PieceOfCopy, Call, Statuses
    <3>4. CASE EndOfCopy(s)
      BY <3>2, <3>4 DEF EndOfCopy, Fopen, Call, Statuses
    <3> QED BY <3>1, <3>3, <3>4
  <2> QED BY <2>1, <2>2, <2>3 DEF CopyHandler
<1>3. ~OnRecvFinished(r)
  <2> SUFFICES ASSUME OnRecvFinished(r) PROVE FALSE
    OBVIOUS
  <2>1. PICK st \in Statuses : Head(qc) = Pack(st, s)
    BY <1>2 DEF Tick
  <2>2. Head(qc) = Pack("recv_finished", r)
    BY DEF OnRecvFinished, Tick
  <2>3. r = s
    BY <2>1, <2>2, PackEq
  <2> QED BY <2>3
<1> QED BY <1>1, <1>2, <1>3

\* What the loop knows of a session that it is about to handle.
LEMMA HandlerKnows ==
  ASSUME Story, NEW s \in Sessions, CopyHandler(s)
  PROVE  /\ cl[s] = "package"
         /\ OnConnected(s) => id'[s] = s /\ count[s] = 0 /\ pf[s] = 0 /\ Got(s) = 0
         /\ OnRecvFinished(s) => count[s] < CopyCount /\ id[s] = s
         /\ OnDisconnected(s) => id[s] = s
<1>1. ClientInv /\ Tokens(qc, cl) /\ qc \in Seq(Packages) /\ Fresh(s)
  BY DEF Story, HandOver, CopyInv, ClientInv, ClientTypes
<1>2. PICK st \in Statuses :
        /\ Tick(st, s)
        /\ OnConnected(s) => st = "connected"
        /\ OnRecvFinished(s) => st = "recv_finished"
        /\ OnDisconnected(s) => st = "disconnected"
  <2>1. \A st1, st2 : Tick(st1, s) /\ Tick(st2, s) => st1 = st2
    BY PackEq DEF Tick
  <2>2. PICK st \in Statuses : Tick(st, s)
    BY DEF CopyHandler, OnConnected, OnRecvFinished, OnDisconnected, DeleteSession, Statuses
  <2>3. /\ OnConnected(s) => Tick("connected", s)
        /\ OnRecvFinished(s) => Tick("recv_finished", s)
        /\ OnDisconnected(s) => Tick("disconnected", s)
    BY DEF OnConnected, OnRecvFinished, OnDisconnected, DeleteSession
  <2> QED BY <2>1, <2>2, <2>3
<1>3. cl[s] = "package"
  BY <1>1, <1>2, TokenHead, Zenon DEF Tick
<1>4. \A sts : Waits(qc, s, sts) <=> st \in sts
  BY <1>1, <1>2, ClientWaits
<1>5. ASSUME OnConnected(s) PROVE id'[s] = s /\ count[s] = 0 /\ pf[s] = 0 /\ Got(s) = 0
  <2>1. st = "connected" /\ Unknown(s)
    BY <1>2, <1>4, <1>5 DEF Unknown
  <2>2. PICK h \in 0..Clients : s = h + 1 /\ connections = h
    BY <2>1, <1>1, <1>2, ClientOrder
  <2>3. id' = [id EXCEPT ![s] = connections + 1] /\ id \in [Sessions -> Nat]
    BY <1>1, <1>5 DEF OnConnected, ClientInv, ClientTypes
  <2> QED BY <2>1, <2>2, <2>3, <1>1 DEF Fresh
<1>6. ASSUME OnRecvFinished(s) PROVE count[s] < CopyCount /\ id[s] = s
  BY <1>1, <1>2, <1>4, <1>6 DEF ClientInv, Counting, Identity, Handled
<1>7. ASSUME OnDisconnected(s) PROVE id[s] = s
  BY <1>1, <1>2, <1>4, <1>7 DEF ClientInv, Identity, Handled
<1> QED BY <1>3, <1>5, <1>6, <1>7

LEMMA FreshStep ==
  ASSUME Story, [Next]_vars, NEW r \in Sessions
  PROVE  Fresh(r)'
<1>1. HandOver /\ CopyInv /\ Fresh(r) /\ Baton(r) /\ InFlight(r)
  BY DEF Story, HandOver
<1>2. ASSUME Unknown(r)' PROVE (Got(r) = 0)' /\ count'[r] = 0 /\ pf'[r] = 0
  <2>1. Unknown(r) /\ ~Handler(r)
    BY <1>1, <1>2, UnknownStep
  <2>2. Got(r) = 0 /\ count[r] = 0 /\ pf[r] = 0
    BY <2>1, <1>1 DEF Fresh
  <2>3. Got(r)' = Got(r)
    BY <2>1, <1>1, InFlightStep DEF Handles, Handler
  <2>4. count'[r] = count[r] /\ pf'[r] = pf[r]
    <3>1. CASE Aside
      BY <3>1 DEF Aside
    <3>2. ASSUME NEW s \in Sessions, CopyHandler(s)
          PROVE  count'[r] = count[r] /\ pf'[r] = pf[r]
      <4>1. r # s
        BY <2>1, <3>2 DEF CopyHandler, Handler
      <4> QED BY <4>1, <3>2, <1>1, Locals
    <3> QED BY <3>1, <3>2, <1>1, AsideStep DEF CopyHandler
  <2> QED BY <2>2, <2>3, <2>4
<1>3. count'[r] = 0 \/ id'[r] = r
  <2>1. CASE Aside
    BY <2>1, <1>1 DEF Aside, Fresh
  <2>2. ASSUME NEW s \in Sessions, CopyHandler(s) PROVE count'[r] = 0 \/ id'[r] = r
    <3>1. CASE r # s
      BY <3>1, <2>2, <1>1, Locals DEF Fresh
    <3>2. CASE r = s
      <4>1. CASE OnConnected(s)
        BY <3>2, <4>1, <2>2, HandlerKnows
      <4>2. CASE OnRecvFinished(s)
        BY <3>2, <4>2, <2>2, HandlerKnows DEF OnRecvFinished
      <4>3. CASE OnDisconnected(s)
        BY <3>2, <4>3, <2>2, HandlerKnows DEF OnDisconnected, DeleteSession
      <4> QED BY <2>2, <4>1, <4>2, <4>3 DEF CopyHandler
    <3> QED BY <3>1, <3>2
  <2> QED BY <2>1, <2>2, <1>1, AsideStep DEF CopyHandler
<1> QED BY <1>2, <1>3 DEF Fresh

LEMMA StreamsStep ==
  ASSUME Story, [Next]_vars, ~misclosed'
  PROVE  Streams' /\ ~misclosed /\ Streams
<1>1. HandOver /\ CopyInv /\ DataTypes
  BY DEF Story, HandOver, CopyInv
<1>2. ASSUME UNCHANGED <<count, pf, stream>>, Streams,
             \A r \in Sessions : cl'[r] = "deleted" <=> cl[r] = "deleted"
      PROVE  Streams'
  BY <1>2 DEF Streams, Copying
<1>3. CASE Aside
  <2>1. ~misclosed /\ Streams
    BY <1>3 DEF Aside, Story
  <2> QED BY <2>1, <1>2, <1>3 DEF Aside
<1>4. ASSUME NEW s \in Sessions, CopyHandler(s)
      PROVE  Streams' /\ ~misclosed /\ Streams
  <2>1. \A r \in Sessions \ {s} :
          count'[r] = count[r] /\ (cl'[r] = "deleted" <=> cl[r] = "deleted")
    BY <1>1, <1>4, Locals
  <2>2. /\ cl \in [Sessions -> {"none", "package", "send", "recv", "quit", "deleted"}]
        /\ count \in [Sessions -> 0..CopyCount] /\ cl[s] = "package"
    BY <1>1, <1>4, HandlerKnows DEF CopyInv, ClientInv, ClientTypes
  <2>3. CASE OnConnected(s)
    <3>1. ~misclosed /\ Streams
      BY <2>3 DEF OnConnected, Story
    <3>2. /\ id'[s] = s /\ count[s] = 0 /\ pf[s] = 0 /\ count' = count
          /\ cl' = [cl EXCEPT ![s] = "recv"] /\ Fopen(s, <<id'[s], 0>>, stream)
      BY <2>3, <1>4, HandlerKnows DEF OnConnected, Call
    <3>3. Others(s, stream) /\ stream \in [Sessions -> Names \cup {NoName}]
      BY <3>1, <3>2, <1>1, CloseOthers
    <3>4. /\ Fopen(s, <<s, 0>>, stream) /\ count'[s] = 0 /\ 0 < CopyCount
          /\ cl'[s] # "deleted"
      BY <3>2, <2>2, FileCopyAssumption
    <3>5. Streams'
      BY <3>3, <3>4, <2>1, <1>1, FopenStreams
    <3> QED BY <3>1, <3>5
  <2>4. CASE OnRecvFinished(s)
    <3>1. ~misclosed /\ Streams
      BY <2>4 DEF OnRecvFinished, Story
    <3>2. EndOfCopy(s) \/ PieceOfCopy(s)
      BY <2>4 DEF OnRecvFinished
    <3>3. count[s] < CopyCount /\ id[s] = s
      BY <2>4, <1>4, HandlerKnows
    <3>4. CASE PieceOfCopy(s)
      <4>1. UNCHANGED <<count, pf, stream>> /\ cl' = [cl EXCEPT ![s] = "send"]
        BY <3>4 DEF PieceOfCopy, Call
      <4>2. \A r \in Sessions : cl'[r] = "deleted" <=> cl[r] = "deleted"
        BY <4>1, <2>2
      <4> QED BY <4>1, <4>2, <3>1, <1>2
    <3>5. CASE EndOfCopy(s)
      <4> DEFINE table == IF pf[s] = 0 THEN stream ELSE Closed(pf[s])
      <4>1. /\ count' = [count EXCEPT ![s] = count[s] + 1]
            /\ \/ /\ count'[s] < CopyCount /\ Fopen(s, <<id[s], count'[s]>>, table)
                  /\ cl' = [cl EXCEPT ![s] = "send"]
               \/ /\ count'[s] >= CopyCount /\ stream' = table /\ pf' = pf
                  /\ cl' = [cl EXCEPT ![s] = "quit"]
        BY <3>5 DEF EndOfCopy, Call
      <4>2. pf[s] # 0 => stream[pf[s]][1] = s
        <5>1. Copying(s)
          BY <2>2, <3>3 DEF Copying
        <5>2. pf[s] # 0 => stream[pf[s]] = <<s, count[s]>>
          BY <5>1, <3>1 DEF Streams
        <5>3. <<s, count[s]>>[1] = s
          OBVIOUS
        <5> QED BY <5>2, <5>3
      <4>3. table = IF pf[s] = 0 THEN stream ELSE Closed(pf[s])
        OBVIOUS
      <4> HIDE DEF table
      <4>4. Others(s, table) /\ table \in [Sessions -> Names \cup {NoName}]
        BY <4>2, <4>3, <3>1, <1>1, CloseOthers
      <4>5. CASE count'[s] < CopyCount /\ Fopen(s, <<id[s], count'[s]>>, table)
                 /\ cl' = [cl EXCEPT ![s] = "send"]
        <5> DEFINE k == count'[s]
        <5>1. /\ count'[s] = k /\ k < CopyCount /\ Fopen(s, <<s, k>>, table)
              /\ cl'[s] # "deleted"
          BY <4>5, <2>2, <3>3
        <5> HIDE DEF k
        <5>2. Streams'
          BY <5>1, <4>4, <2>1, <1>1, FopenStreams
        <5> QED BY <5>2, <3>1
      <4>6. CASE /\ count'[s] >= CopyCount /\ stream' = table /\ pf' = pf
                 /\ cl' = [cl EXCEPT ![s] = "quit"]
        <5>1. ~(count'[s] < CopyCount)
          BY <4>1, <4>6, <2>2, FileCopyAssumption
        <5> QED BY <5>1, <4>6, <4>4, <2>1, <3>1, NoMoreStreams
      <4> QED BY <4>1, <4>5, <4>6
    <3> QED BY <3>2, <3>4, <3>5
  <2>5. CASE OnDisconnected(s)
    <3>1. /\ cl' = [cl EXCEPT ![s] = "deleted"] /\ pf' = pf /\ id[s] = s
          /\ \/ /\ pf[s] # 0 /\ stream' = Closed(pf[s])
                /\ misclosed' = (misclosed \/ stream[pf[s]] \notin {NoName} \cup
                                                 {n \in Names : n[1] = id[s]})
             \/ pf[s] = 0 /\ stream' = stream /\ misclosed' = misclosed
      BY <2>5, <1>4, HandlerKnows DEF OnDisconnected, DeleteSession, Call
    <3>2. /\ ~misclosed
          /\ pf[s] # 0 => stream[pf[s]] = NoName \/ stream[pf[s]][1] = s
      <4> DEFINE own == {NoName} \cup {n \in Names : n[1] = id[s]}
      <4>1. \A x \in own : x = NoName \/ x[1] = s
        BY <3>1
      <4>2. \/ misclosed' = (misclosed \/ stream[pf[s]] \notin own)
            \/ (pf[s] = 0 /\ misclosed' = misclosed)
        BY <3>1
      <4> HIDE DEF own
      <4>3. ~misclosed'
        OBVIOUS
      <4>4. CASE misclosed' = (misclosed \/ stream[pf[s]] \notin own)
        BY <4>1, <4>3, <4>4, Zenon
      <4>5. CASE pf[s] = 0 /\ misclosed' = misclosed
        BY <4>3, <4>5, Zenon
      <4> QED BY <4>2, <4>4, <4>5
    <3>3. Streams
      BY <3>2 DEF Story
    <3> DEFINE table == IF pf[s] = 0 THEN stream ELSE Closed(pf[s])
    <3>4. table = (IF pf[s] = 0 THEN stream ELSE Closed(pf[s])) /\ stream' = table
      BY <3>1
    <3> HIDE DEF table
    <3>5. Others(s, table)
      BY <3>2, <3>3, <3>4, <1>1, CloseOthers
    <3>6. cl'[s] = "deleted"
      BY <3>1, <2>2
    <3>7. Streams'
      BY <3>1, <3>4, <3>5, <3>6, <2>1, NoMoreStreams
    <3> QED BY <3>2, <3>3, <3>7
  <2> QED BY <1>4, <2>3, <2>4, <2>5 DEF CopyHandler
<1> QED BY <1>1, <1>3, <1>4, AsideStep DEF CopyHandler

-----------------------------------------------------------------------------
(* What the files hold.                                                    *)

\* When the loop hands over a package, that package is all there is on its way.
LEMMA RecvHandles ==
  ASSUME HandOver, NEW s \in Sessions, Baton(s), OnRecvFinished(s)
  PROVE  Handles(s)
<1>1. /\ Tick("recv_finished", s) /\ inbox' = [inbox EXCEPT ![s] = Nothing]
      /\ UNCHANGED <<sending, wire, pos>>
  BY DEF OnRecvFinished, Tick, serverVars, net
<1>2. ClientInv /\ inbox \in [Sessions -> Bytes]
  BY DEF HandOver, CopyInv, DataTypes
<1>3. Waits(qc, s, {"recv_finished"})
  BY <1>1, <1>2, ClientWaits
<1>4. inbox[s] # Nothing /\ AtClient(s)
  BY <1>3 DEF Baton, AtClient
<1>5. wire[s] = Nothing /\ sending[s] = Nothing
  BY <1>4 DEF Baton, AtServer
<1>6. Flight(s) = inbox[s] /\ Flight(s)' = Nothing
  BY <1>1, <1>2, <1>5 DEF Flight
<1> QED BY <1>1, <1>4, <1>6 DEF Handles

\* fwrite() of a piece behind the bytes before it.
LEMMA Concat ==
  /\ FirstBytes(0) = <<>>
  /\ \A p \in Nat, n \in Nat : FirstBytes(p) \o PieceAt(p, n) = FirstBytes(p + n)
<1>1. FirstBytes(0) = <<>>
  BY DEF FirstBytes
<1>2. ASSUME NEW p \in Nat, NEW n \in Nat
      PROVE  FirstBytes(p) \o PieceAt(p, n) = FirstBytes(p + n)
  <2> DEFINE x == FirstBytes(p)
             y == PieceAt(p, n)
             z == FirstBytes(p + n)
  <2>1. /\ x \in Seq(Int) /\ Len(x) = p /\ \A i \in 1..p : x[i] = i
        /\ z \in Seq(Int) /\ Len(z) = p + n /\ \A i \in 1..p + n : z[i] = i
    BY DEF FirstBytes
  <2>2. y \in Seq(Int) /\ Len(y) = n /\ \A i \in 1..n : y[i] = p + i
    BY DEF PieceAt
  <2> HIDE DEF x, y, z
  <2>3. /\ x \o y \in Seq(Int) /\ Len(x \o y) = p + n
        /\ \A i \in 1..p + n : (x \o y)[i] = IF i <= p THEN x[i] ELSE y[i - p]
    BY <2>1, <2>2, SMTT(30)
  <2>4. \A i \in 1..p + n : (x \o y)[i] = z[i]
    BY <2>1, <2>2, <2>3
  <2>5. x \o y = z
    <3>1. Len(x \o y) = Len(z) /\ \A i \in 1..Len(x \o y) : (x \o y)[i] = z[i]
      BY <2>1, <2>3, <2>4
    <3> QED BY <2>1, <2>3, <3>1, SeqEqual, Zenon
  <2> QED BY <2>5 DEF x, y, z
<1> QED BY <1>1, <1>2

\* fopen() empties the file it opens, and no other.
LEMMA FopenFiles ==
  ASSUME DataTypes, files \in [Names -> Seq(Int)], NEW s \in Sessions,
         NEW name \in Names, NEW table, Fopen(s, name, table)
  PROVE  /\ files' \in [Names -> Seq(Int)]
         /\ files'[name] = IF pf'[s] = 0 THEN files[name] ELSE <<>>
         /\ \A n \in Names : n # name => files'[n] = files[n]
<1>1. PICK f \in {0} \cup {g \in Sessions : table[g] = NoName} :
        /\ pf' = [pf EXCEPT ![s] = f]
        /\ files' = IF f = 0 THEN files ELSE [files EXCEPT ![name] = <<>>]
  BY DEF Fopen
<1>2. pf'[s] = f /\ <<>> \in Seq(Int)
  BY <1>1 DEF DataTypes
<1> QED BY <1>1, <1>2

LEMMA FilesStep ==
  ASSUME Story, [Next]_vars
  PROVE  files' \in [Names -> Seq(Int)]
<1>1. HandOver /\ DataTypes /\ files \in [Names -> Seq(Int)]
  BY DEF Story, HandOver, CopyInv
<1>2. CASE Aside
  BY <1>1, <1>2 DEF Aside
<1>3. ASSUME NEW s \in Sessions, OnConnected(s) PROVE files' \in [Names -> Seq(Int)]
  <2> DEFINE name == <<s, 0>>
  <2>1. Fopen(s, name, stream)
    BY <1>3, HandlerKnows DEF OnConnected, CopyHandler
  <2>2. name \in Names
    BY FileCopyAssumption DEF Names
  <2> HIDE DEF name
  <2> QED BY <2>1, <2>2, <1>1, FopenFiles
<1>4. ASSUME NEW s \in Sessions, OnRecvFinished(s) PROVE files' \in [Names -> Seq(Int)]
  <2>1. count[s] < CopyCount /\ id[s] = s /\ count \in [Sessions -> 0..CopyCount]
    BY <1>1, <1>4, HandlerKnows DEF CopyHandler, HandOver, CopyInv, ClientInv, ClientTypes
  <2>2. CASE PieceOfCopy(s)
    <3>1. inbox[s] \in Seq(Int)
      BY <1>1 DEF DataTypes, Bytes
    <3>2. \A n \in Names : files[n] \o inbox[s] \in Seq(Int)
      BY <1>1, <3>1
    <3> QED BY <2>2, <1>1, <3>2 DEF PieceOfCopy
  <2>3. CASE EndOfCopy(s)
    <3> DEFINE name == <<s, count[s] + 1>>
               table == IF pf[s] = 0 THEN stream ELSE Closed(pf[s])
    <3>1. \/ count[s] + 1 < CopyCount /\ Fopen(s, name, table)
          \/ files' = files
      BY <2>1, <2>3 DEF EndOfCopy
    <3>2. count[s] + 1 < CopyCount => name \in Names
      BY <2>1, FileCopyAssumption DEF Names
    <3> HIDE DEF name, table
    <3> QED BY <3>1, <3>2, <1>1, FopenFiles
  <2> QED BY <1>4, <2>2, <2>3 DEF OnRecvFinished
<1>5. ASSUME NEW s \in Sessions, OnDisconnected(s) PROVE files' \in [Names -> Seq(Int)]
  BY <1>1, <1>5 DEF OnDisconnected, DeleteSession
<1> QED BY <1>1, <1>2, <1>3, <1>4, <1>5, AsideStep

\* The files of a session are as before.
FilesOf(r) == \A k \in 0..CopyCount - 1 : files'[<<r, k>>] = files[<<r, k>>]

LEMMA ContentsKept ==
  ASSUME NEW r \in Sessions, Contents(r), count[r] \in 0..CopyCount,
         count'[r] = count[r], pf'[r] = pf[r], Got(r)' = Got(r),
         fileSize' = fileSize, FilesOf(r)
  PROVE  Contents(r)'
<1>1. /\ \A k \in 0..count[r] - 1 : k \in 0..CopyCount - 1
      /\ \A k \in count[r] + 1..CopyCount - 1 : k \in 0..CopyCount - 1
      /\ count[r] < CopyCount => count[r] \in 0..CopyCount - 1
  BY FileCopyAssumption
<1> QED BY <1>1 DEF Contents, FilesOf

\* The handler of one session leaves the files of the others alone.
LEMMA OthersFiles ==
  ASSUME Story, NEW s \in Sessions, CopyHandler(s), ~misclosed, Streams,
         NEW r \in Sessions \ {s}
  PROVE  FilesOf(r)
<1>1. /\ DataTypes /\ files \in [Names -> Seq(Int)]
      /\ count \in [Sessions -> 0..CopyCount]
      /\ \A k \in 0..CopyCount - 1 : <<r, k>> \in Names
  BY DEF Story, HandOver, CopyInv, ClientInv, ClientTypes, Names
<1>2. ASSUME NEW k, <<s, k>> \in Names, NEW table, Fopen(s, <<s, k>>, table)
      PROVE  FilesOf(r)
  <2> DEFINE name == <<s, k>>
  <2>1. \A j : <<r, j>> # name
    OBVIOUS
  <2>2. name \in Names /\ Fopen(s, name, table)
    BY <1>2
  <2> HIDE DEF name
  <2>3. \A n \in Names : n # name => files'[n] = files[n]
    BY <1>1, <2>2, FopenFiles
  <2> QED BY <1>1, <2>1, <2>3 DEF FilesOf
<1>3. CASE OnConnected(s)
  <2>1. <<s, 0>> \in Names
    BY FileCopyAssumption DEF Names
  <2>2. Fopen(s, <<s, 0>>, stream)
    BY <1>3, HandlerKnows DEF OnConnected
  <2> QED BY <1>2, <2>1, <2>2
<1>4. CASE OnRecvFinished(s)
  <2>1. count[s] < CopyCount /\ id[s] = s /\ cl[s] = "package"
    BY <1>4, HandlerKnows
  <2>2. CASE PieceOfCopy(s)
    <3>1. pf[s] # 0 => stream[pf[s]] = <<s, count[s]>>
      BY <2>1 DEF Streams, Copying
    <3>2. files' = files \/ (pf[s] # 0 /\ files' = [files EXCEPT ![stream[pf[s]]] = @ \o inbox[s]])
      BY <2>2 DEF PieceOfCopy
    <3>3. CASE pf[s] # 0 /\ files' = [files EXCEPT ![stream[pf[s]]] = @ \o inbox[s]]
      <4> DEFINE name == stream[pf[s]]
      <4>1. \A k : name # <<r, k>>
        BY <3>1, <3>3
      <4>2. files' = [files EXCEPT ![name] = @ \o inbox[s]]
        BY <3>3
      <4> HIDE DEF name
      <4> QED BY <1>1, <4>1, <4>2 DEF FilesOf
    <3> QED BY <3>2, <3>3 DEF FilesOf
  <2>3. CASE EndOfCopy(s)
    <3>1. \/ /\ count[s] + 1 < CopyCount
             /\ Fopen(s, <<s, count[s] + 1>>, IF pf[s] = 0 THEN stream ELSE Closed(pf[s]))
          \/ files' = files
      BY <1>1, <2>1, <2>3 DEF EndOfCopy
    <3>2. count[s] + 1 < CopyCount => <<s, count[s] + 1>> \in Names
      BY <1>1, FileCopyAssumption DEF Names
    <3>3. CASE files' = files
      BY <3>3 DEF FilesOf
    <3> QED BY <1>2, <3>1, <3>2, <3>3
  <2> QED BY <1>4, <2>2, <2>3 DEF OnRecvFinished
<1>5. CASE OnDisconnected(s)
  BY <1>5 DEF OnDisconnected, DeleteSession, FilesOf
<1> QED BY <1>3, <1>4, <1>5 DEF CopyHandler

\* The mark: the copy is complete, and the next one begins.
LEMMA EndContents ==
  ASSUME Story, [Next]_vars, NEW s \in Sessions, OnRecvFinished(s), EndOfCopy(s),
         Len(inbox[s]) = 1, fileSize % Piece # 1, Contents(s)
  PROVE  Contents(s)'
<1>1. /\ HandOver /\ DataTypes /\ DataTypes' /\ files \in [Names -> Seq(Int)] /\ InFlight(s)
      /\ count \in [Sessions -> 0..CopyCount] /\ fileSize' = fileSize
      /\ pos[s] \in 0..fileSize /\ fileSize \in Nat
  BY HandOverStep DEF Story, HandOver, CopyInv, ClientInv, ClientTypes, DataTypes
<1>2. Handles(s) /\ count[s] < CopyCount /\ id[s] = s
  BY <1>1, RecvHandles, HandlerKnows DEF Story, CopyHandler
<1>3. Got(s) = fileSize /\ pos[s] = 0
  <2>1. Flight(s) # Nothing /\ Len(Flight(s)) = 1
    BY <1>2 DEF Handles
  <2>2. ASSUME NEW n \in 1..pos[s], Flight(s) = PieceAt(pos[s] - n, n),
               n = 1 => fileSize % Piece = 1
        PROVE  FALSE
    <3>1. pos[s] - n \in Nat /\ n \in Nat \ {0}
      BY <1>1
    <3>2. Len(PieceAt(pos[s] - n, n)) = n
      BY <3>1, Pieces
    <3> QED BY <3>2, <2>1, <2>2
  <2>3. Flight(s) = EndMark /\ pos[s] = 0
    BY <1>1, <2>1, <2>2 DEF InFlight
  <2> QED BY <2>3 DEF Got
<1>4. Got(s)' = 0
  <2>1. Flight(s)' = Nothing /\ pos'[s] = 0 /\ Nothing # EndMark /\ Len(Nothing) = 0
    BY <1>2, <1>3, Pieces DEF Handles
  <2> QED BY <2>1 DEF Got
<1> DEFINE k == count[s] + 1
           table == IF pf[s] = 0 THEN stream ELSE Closed(pf[s])
<1>5. /\ count'[s] = k /\ k \in 1..CopyCount
      /\ \/ k < CopyCount /\ Fopen(s, <<s, k>>, table)
         \/ ~(k < CopyCount) /\ files' = files
  BY <1>1, <1>2, FileCopyAssumption DEF EndOfCopy
<1>6. /\ \A j \in 0..k - 1 : files[<<s, j>>] \in {Missing, FirstBytes(fileSize)}
      /\ \A j \in k..CopyCount - 1 : files[<<s, j>>] = Missing
  <2>1. files[<<s, count[s]>>] \in {Missing, FirstBytes(fileSize)}
    BY <1>2, <1>3 DEF Contents
  <2>2. \A j \in 0..k - 1 : j \in 0..count[s] - 1 \/ j = count[s]
    BY <1>1
  <2> QED BY <2>1, <2>2 DEF Contents
<1> HIDE DEF k, table
<1>7. CASE k < CopyCount /\ Fopen(s, <<s, k>>, table)
  <2> DEFINE name == <<s, k>>
  <2>1. name \in Names /\ \A j : name = <<s, j>> <=> j = k
    <3>1. k \in 0..CopyCount - 1
      BY <1>5, <1>7, FileCopyAssumption
    <3> QED BY <3>1 DEF Names
  <2>2. Fopen(s, name, table)
    BY <1>7
  <2>3. \A j \in 0..CopyCount - 1 : <<s, j>> \in Names
    BY DEF Names
  <2>4. files[name] = Missing
    BY <1>5, <1>6, <1>7, FileCopyAssumption
  <2> HIDE DEF name
  <2>5. /\ files'[name] = IF pf'[s] = 0 THEN files[name] ELSE <<>>
        /\ \A n \in Names : n # name => files'[n] = files[n]
    BY <2>1, <2>2, <1>1, FopenFiles
  <2>6. \A j \in 0..CopyCount - 1 : j # k => files'[<<s, j>>] = files[<<s, j>>]
    BY <2>1, <2>3, <2>5
  <2>7. files'[<<s, k>>] = IF pf'[s] = 0 THEN Missing ELSE FirstBytes(Got(s)')
    BY <2>4, <2>5, <1>4, Concat DEF name
  <2>8. \A j \in 0..k - 1 : files'[<<s, j>>] \in {Missing, FirstBytes(fileSize)}
    BY <1>5, <1>6, <1>7, <2>6, FileCopyAssumption
  <2>9. \A j \in k + 1..CopyCount - 1 : files'[<<s, j>>] = Missing
    BY <1>5, <1>6, <1>7, <2>6, FileCopyAssumption
  <2> QED BY <1>1, <1>5, <2>7, <2>8, <2>9 DEF Contents, FirstBytes
<1>8. CASE ~(k < CopyCount) /\ files' = files
  <2>1. ~(count'[s] < CopyCount) /\ count'[s] + 1..CopyCount - 1 = {}
    BY <1>5, <1>8, FileCopyAssumption
  <2> QED BY <1>1, <1>5, <1>6, <1>8, <2>1 DEF Contents, FirstBytes
<1> QED BY <1>5, <1>7, <1>8

\* A piece: it goes where the copy has got to.
LEMMA PieceContents ==
  ASSUME Story, [Next]_vars, NEW s \in Sessions, OnRecvFinished(s), PieceOfCopy(s),
         Len(inbox[s]) # 1, ~misclosed, Contents(s)
  PROVE  Contents(s)'
<1>1. /\ HandOver /\ DataTypes /\ DataTypes' /\ files \in [Names -> Seq(Int)] /\ InFlight(s)
      /\ count \in [Sessions -> 0..CopyCount] /\ fileSize' = fileSize
      /\ pos[s] \in 0..fileSize /\ fileSize \in Nat /\ Streams
  BY HandOverStep DEF Story, HandOver, CopyInv, ClientInv, ClientTypes, DataTypes
<1>2. Handles(s) /\ count[s] < CopyCount /\ id[s] = s /\ cl[s] = "package"
  BY <1>1, RecvHandles, HandlerKnows DEF Story, CopyHandler
<1>3. Flight(s) # Nothing /\ Flight(s) = inbox[s] /\ Flight(s)' = Nothing /\ pos'[s] = pos[s]
  BY <1>2 DEF Handles
<1>4. PICK n \in 1..pos[s] : inbox[s] = PieceAt(pos[s] - n, n)
  BY <1>1, <1>3, Pieces DEF InFlight
<1>5. n \in Nat \ {0} /\ pos[s] - n \in Nat /\ pos[s] - n + n = pos[s]
  BY <1>1
<1>6. Got(s) = pos[s] - n
  <2>1. PieceAt(pos[s] - n, n) # EndMark /\ Len(PieceAt(pos[s] - n, n)) = n
    BY <1>5, Pieces
  <2> QED BY <1>3, <1>4, <2>1 DEF Got
<1>7. Got(s)' = pos[s]
  <2>1. Nothing # EndMark /\ Len(Nothing) = 0
    BY Pieces
  <2> QED BY <1>1, <1>3, <2>1 DEF Got
<1>8. FirstBytes(Got(s)) \o inbox[s] = FirstBytes(pos[s])
  BY <1>4, <1>5, <1>6, Concat
<1>9. UNCHANGED <<count, pf, stream>> /\ count[s] \in 0..CopyCount
  BY <1>1 DEF PieceOfCopy
<1>10. /\ \A k \in 0..CopyCount - 1 : <<s, k>> \in Names
       /\ count[s] \in 0..CopyCount - 1
  BY <1>2, <1>9, FileCopyAssumption DEF Names
<1>11. CASE pf[s] = 0
  <2>1. files' = files
    BY <1>11 DEF PieceOfCopy
  <2> QED BY <1>1, <1>9, <1>11, <2>1 DEF Contents, FirstBytes
<1>12. CASE pf[s] # 0
  <2>1. stream[pf[s]] = <<s, count[s]>> /\ <<s, count[s]>> # NoName
    BY <1>1, <1>2, <1>12, NameOf DEF Streams, Copying
  <2>2. files' = [files EXCEPT ![<<s, count[s]>>] = files[<<s, count[s]>>] \o inbox[s]]
    BY <1>12, <2>1 DEF PieceOfCopy
  <2>3. files'[<<s, count[s]>>] = FirstBytes(pos[s])
    <3>1. files[<<s, count[s]>>] = FirstBytes(Got(s))
      BY <1>2, <1>12 DEF Contents
    <3> QED BY <3>1, <2>2, <1>1, <1>8, <1>10
  <2>4. \A k \in 0..CopyCount - 1 : k # count[s] => files'[<<s, k>>] = files[<<s, k>>]
    BY <2>2, <1>1, <1>10
  <2>5. \A k \in 0..count[s] - 1 : files'[<<s, k>>] \in {Missing, FirstBytes(fileSize)}
    <3>1. \A k \in 0..count[s] - 1 : k \in 0..CopyCount - 1 /\ k # count[s]
      BY <1>9, FileCopyAssumption
    <3> QED BY <3>1, <2>4 DEF Contents
  <2>6. \A k \in count[s] + 1..CopyCount - 1 : files'[<<s, k>>] = Missing
    <3>1. \A k \in count[s] + 1..CopyCount - 1 : k \in 0..CopyCount - 1 /\ k # count[s]
      BY <1>9, FileCopyAssumption
    <3> QED BY <3>1, <2>4 DEF Contents
  <2> QED BY <1>1, <1>7, <1>9, <1>12, <2>3, <2>5, <2>6 DEF Contents, FirstBytes
<1> QED BY <1>11, <1>12

LEMMA ConnectedContents ==
  ASSUME Story, [Next]_vars, NEW s \in Sessions, OnConnected(s), Contents(s)
  PROVE  Contents(s)'
<1>1. /\ HandOver /\ DataTypes /\ files \in [Names -> Seq(Int)] /\ InFlight(s) /\ Baton(s)
      /\ fileSize' = fileSize
  BY HandOverStep DEF Story, HandOver, CopyInv
<1>2. /\ count[s] = 0 /\ count'[s] = 0 /\ pf[s] = 0 /\ Got(s) = 0
      /\ Fopen(s, <<s, 0>>, stream)
  BY HandlerKnows DEF CopyHandler, OnConnected
<1>3. Got(s)' = 0
  <2>1. ~OnRecvFinished(s)
    <3>1. OnRecvFinished(s) => Pack("recv_finished", s) = Pack("connected", s)
      BY DEF OnConnected, OnRecvFinished, Tick
    <3> QED BY <3>1, PackEq
  <2> QED BY <1>1, <1>2, <2>1, InFlightStep DEF Handles
<1>4. \A k \in 0..CopyCount - 1 : files[<<s, k>>] = Missing
  BY <1>2, FileCopyAssumption DEF Contents
<1> DEFINE name == <<s, 0>>
<1>5. name \in Names /\ \A j : name = <<s, j>> <=> j = 0
  BY FileCopyAssumption DEF Names
<1>6. Fopen(s, name, stream) /\ files[name] = Missing
  BY <1>2, <1>4, FileCopyAssumption
<1>7. \A k \in 0..CopyCount - 1 : <<s, k>> \in Names
  BY DEF Names
<1> HIDE DEF name
<1>8. /\ files'[name] = IF pf'[s] = 0 THEN files[name] ELSE <<>>
      /\ \A n \in Names : n # name => files'[n] = files[n]
  BY <1>1, <1>5, <1>6, FopenFiles
<1>9. \A k \in 1..CopyCount - 1 : files'[<<s, k>>] = Missing
  <2>1. \A k \in 1..CopyCount - 1 : k \in 0..CopyCount - 1 /\ k # 0
    BY FileCopyAssumption
  <2> QED BY <2>1, <1>4, <1>5, <1>7, <1>8
<1>10. files'[<<s, 0>>] = IF pf'[s] = 0 THEN Missing ELSE FirstBytes(Got(s)')
  BY <1>3, <1>6, <1>8, Concat DEF name
<1> QED BY <1>1, <1>2, <1>9, <1>10 DEF Contents, FirstBytes

LEMMA ContentsStep ==
  ASSUME Story, [Next]_vars, ~misclosed', fileSize % Piece # 1, NEW r \in Sessions
  PROVE  Contents(r)'
<1>1. ~misclosed /\ Streams
  BY StreamsStep
<1>2. /\ HandOver /\ CopyInv /\ Contents(r) /\ Baton(r) /\ InFlight(r)
      /\ count[r] \in 0..CopyCount /\ fileSize' = fileSize
  BY <1>1, HandOverStep DEF Story, HandOver, CopyInv, ClientInv, ClientTypes
<1>3. ~OnRecvFinished(r) => Got(r)' = Got(r)
  BY <1>2, InFlightStep DEF Handles
<1>4. ASSUME NEW s \in Sessions, CopyHandler(s) PROVE Contents(r)'
  <2>1. CASE r # s
    <3>1. FilesOf(r)
      BY <1>1, <1>4, <2>1, OthersFiles
    <3>2. count'[r] = count[r] /\ pf'[r] = pf[r] /\ ~OnRecvFinished(r)
      BY <1>2, <1>4, <2>1, Locals
    <3> QED BY <1>2, <1>3, <3>1, <3>2, ContentsKept
  <2>2. CASE r = s /\ OnConnected(s)
    BY <1>2, <2>2, ConnectedContents
  <2>3. CASE r = s /\ OnRecvFinished(s)
    <3>1. \/ Len(inbox[r]) = 1 /\ EndOfCopy(r)
          \/ Len(inbox[r]) # 1 /\ PieceOfCopy(r)
      BY <2>3 DEF OnRecvFinished
    <3> QED BY <1>1, <1>2, <2>3, <3>1, EndContents, PieceContents
  <2>4. CASE r = s /\ OnDisconnected(s)
    <3>1. UNCHANGED <<count, pf, files>>
      BY <2>4 DEF OnDisconnected, DeleteSession
    <3>2. ~OnRecvFinished(r)
      <4>1. OnRecvFinished(r) => Pack("recv_finished", r) = Pack("disconnected", r)
        BY <2>4 DEF OnDisconnected, DeleteSession, OnRecvFinished, Tick
      <4> QED BY <4>1, PackEq
    <3> QED BY <1>2, <1>3, <3>1, <3>2, ContentsKept DEF FilesOf
  <2> QED BY <1>4, <2>1, <2>2, <2>3, <2>4 DEF CopyHandler
<1>5. CASE Aside /\ ~OnRecvFinished(r)
  BY <1>2, <1>3, <1>5, ContentsKept DEF Aside, FilesOf
<1> QED BY <1>2, <1>4, <1>5, AsideStep DEF CopyHandler

LEMMA InitStory == Init => Story
<1> SUFFICES ASSUME Init PROVE Story
  OBVIOUS
<1>1. HandOver
  BY InitCopy DEF HandOver, Init, All
<1>2. ASSUME NEW s \in Sessions
      PROVE  /\ sv[s] = "none" /\ cl[s] = "none" /\ count[s] = 0 /\ pf[s] = 0
             /\ sending[s] = Nothing /\ wire[s] = Nothing /\ inbox[s] = Nothing
             /\ ~reply[s] /\ pos[s] = 0
             /\ \A sts : ~Waits(qc, s, sts) /\ ~Waits(qv, s, sts)
  <2>1. DOMAIN qc = {} /\ DOMAIN qv = {}
    BY DEF Init
  <2> QED BY <2>1 DEF Init, All, Waits
<1>3. Nothing # EndMark /\ Len(Nothing) = 0
  BY Pieces
<1>4. ASSUME NEW s \in Sessions PROVE Baton(s)
  BY <1>2 DEF Baton, AtServer, AtClient
<1>5. ASSUME NEW s \in Sessions PROVE Flight(s) = Nothing /\ Got(s) = 0
  <2>1. Flight(s) = Nothing
    BY <1>2 DEF Flight
  <2> QED BY <1>2, <1>3, <2>1 DEF Got
<1>6. ASSUME NEW s \in Sessions PROVE InFlight(s)
  <2>1. pos[s] = 0 * Piece
    BY <1>2, FileCopyAssumption
  <2> QED BY <1>5, <2>1 DEF InFlight
<1>7. ASSUME NEW s \in Sessions PROVE Fresh(s)
  BY <1>2, <1>5 DEF Fresh
<1>8. files \in [Names -> Seq(Int)]
  <2>1. <<-1>> \in Seq(Int)
    OBVIOUS
  <2> QED BY <2>1 DEF Init, Missing
<1>9. Streams
  BY <1>2 DEF Streams, Init, All
<1>10. ASSUME NEW s \in Sessions PROVE Contents(s)
  <2>1. \A k \in 0..CopyCount - 1 : files[<<s, k>>] = Missing
    BY DEF Init, Names
  <2> QED BY <1>2, <2>1, FileCopyAssumption DEF Contents
<1> QED BY <1>1, <1>4, <1>6, <1>7, <1>8, <1>9, <1>10 DEF Story

LEMMA StoryStep == Story /\ [Next]_vars => Story'
<1> SUFFICES ASSUME Story, [Next]_vars PROVE Story'
  OBVIOUS
<1>1. HandOver /\ \A s \in Sessions : Baton(s) /\ InFlight(s)
  BY DEF Story
<1>2. HandOver' /\ fileSize' = fileSize
  BY <1>1, HandOverStep
<1>3. ASSUME NEW s \in Sessions PROVE Baton(s)' /\ InFlight(s)'
  BY <1>1, BatonStep, InFlightStep
<1>4. ASSUME NEW s \in Sessions PROVE Fresh(s)'
  BY FreshStep
<1>5. files' \in [Names -> Seq(Int)]
  BY FilesStep
<1>6. ~misclosed' => Streams'
  BY StreamsStep
<1>7. ASSUME ~misclosed', fileSize' % Piece # 1, NEW s \in Sessions PROVE Contents(s)'
  BY <1>2, <1>7, ContentsStep
<1> QED BY <1>2, <1>3, <1>4, <1>5, <1>6, <1>7 DEF Story

\* The copies that a session has counted are the server's file, byte for byte:
\* for every size of the file and of the pieces, with any number of sessions
\* that share the server's FILE and buffer, and with links lost at any time.
THEOREM FilesAreCopiesHolds == Spec => []FilesAreCopies
<1>1. Story => FilesAreCopies
  <2> SUFFICES ASSUME Story, ~misclosed, fileSize % Piece # 1, NEW s \in Sessions,
                      NEW k \in 0..count[s] - 1
               PROVE  files[<<id[s], k>>] \in {Missing, [i \in 1..fileSize |-> i]}
    BY DEF FilesAreCopies
  <2>1. Contents(s) /\ Fresh(s)
    BY DEF Story
  <2>2. id[s] = s
    <3>1. count[s] # 0
      OBVIOUS
    <3> QED BY <2>1, <3>1 DEF Fresh
  <2> QED BY <2>1, <2>2 DEF Contents, FirstBytes
<1> QED BY <1>1, InitStory, StoryStep, PTL DEF Spec
=============================================================================
