---------------------------- MODULE ServerProofs ----------------------------
(***************************************************************************)
(* A server program, for any sessions and any limit: the types for any     *)
(* number of port threads, and for one thread, as in the programs of the   *)
(* repository, that a session is found in the list by the thread that ends *)
(* it and that the package queue goes last.                                *)
(*                                                                         *)
(* The argument: a session is a token, so it has one package in the queue, *)
(* one packet in the port, or one thread, and a thread that removes it is  *)
(* the only one that ever will.  It is listed from push_back() on, which   *)
(* the remover waits for, and sessions_clear comes when the only thread has*)
(* ended, or never will.  The references to the queue are those of the     *)
(* statements that main() has still to do.                                 *)
(***************************************************************************)
EXTENDS Server, FiniteSetTheorems, SequenceTheorems, TLAPS

Statuses == {"connected", "finished", "disconnected", "quit"}
Packages == [status : Statuses, ses : Sessions \cup {None}]
Packets  == [ses : Sessions \cup {None}, ok : BOOLEAN]
Stages   == {"none", "new", "package", "io", "packet", "worker", "rest", "deleted"}
Statements == {"open", "listen", "loop", "quit", "close_sockets", "post", "wait",
               "clear", "close_socket", "stop", "wait_listener", "post_quit",
               "release", "release_main", "release_loop", "done"}

\* What the main thread has done when it is about to do its next statement.
Cleared  == {"close_socket", "stop", "wait_listener", "post_quit", "release",
             "release_main", "release_loop", "done"}
Waited   == {"post_quit", "release", "release_main", "release_loop", "done"}
Released == {"release_main", "release_loop", "done"}
Posted   == {"release", "release_main", "release_loop", "done"}

Types ==
  /\ main \in Statements
  /\ listener \in {"off", "test", "accept", "join_iocp", "push", "ended"}
  /\ worker \in [Workers -> [at : {"get", "put", "remove", "ended"},
                             ses : Sessions \cup {None}, ok : BOOLEAN]]
  /\ at \in [Sessions -> Stages] /\ sock \in [Sessions -> BOOLEAN]
  /\ joining \in Sessions \cup {None}
  /\ _sessions \in Seq(Sessions) /\ next \in Nat \ {0}
  /\ port \in BOOLEAN /\ released \in Nat
  /\ packets \in Seq(Packets) /\ queue \in Seq(Packages)
  /\ stopped \in BOOLEAN
  /\ listening \in BOOLEAN /\ died \in BOOLEAN

\* The listener: what it has in hand, and that close() waits for it.
Listening ==
  /\ listener \in {"join_iocp", "push"} => joining \in Sessions
  /\ listener = "join_iocp" => at[joining] = "new"
  /\ _session_limit \in 0..Limit
  /\ listener \in {"accept", "join_iocp", "push"} => _session_limit > 0
  /\ _stop \in 0..1 /\ (main \notin {"wait_listener"} \cup Waited => _stop = 0)
  /\ main \in {"open", "listen"} => listener = "off"
  /\ main \in {"loop", "quit"} => listener # "off"
  /\ main \in Waited => listener \in {"off", "ended"}

References ==
  refs \in IF main = "open" THEN {1}
           ELSE IF main = "listen" THEN {2}
           ELSE IF main = "done" THEN (IF listener = "off" THEN {0, 1} ELSE {0})
           ELSE IF listener = "off" THEN {1, 2}
           ELSE IF main = "release_main" THEN {2}
           ELSE IF main = "release_loop" THEN {1}
           ELSE {3}

ReleasedOnce == main \in {"release_main", "release_loop"} => listener # "off"

\* A package of session s in q that announces one of sts.
Waits(q, s, sts) == \E i \in DOMAIN q : q[i].ses = s /\ q[i].status \in sts

\* The entries of q belong to sessions whose token is here, one entry each.
Tokens(q, a, here) ==
  \A i, j \in DOMAIN q : q[i].ses \in Sessions =>
    a[q[i].ses] = here /\ (q[j].ses = q[i].ses => i = j)

Queues ==
  /\ Tokens(queue, at, "package") /\ Tokens(packets, at, "packet")
  /\ \A i \in DOMAIN queue : queue[i].ses = None <=> queue[i].status = "quit"
  /\ \A i \in DOMAIN queue : queue[i].status = "quit" => main \in Posted
  /\ \A i \in DOMAIN packets : packets[i].ses = None => packets[i] = Quit
  /\ main \in {"open", "listen", "loop", "quit"} => ~stopped

\* The session has been ended, or is never going to be: no package of it that
\* makes the loop start another I/O is queued.
Served  == {"connected", "finished"}
Gone(s) == at[s] \in {"package", "rest", "deleted"} /\ ~Waits(queue, s, Served)

Threads ==
  /\ \A w \in Workers : worker[w].at \in {"put", "remove"} =>
       worker[w].ses \in Sessions
  /\ \A w, v \in Workers :
       worker[w].at \in {"put", "remove"} /\ worker[v].at \in {"put", "remove"} =>
         (worker[w].ses = worker[v].ses => w = v)
  /\ \A w \in Workers : worker[w].at = "put" => at[worker[w].ses] = "worker"
  /\ \A w \in Workers : worker[w].at = "remove" => Gone(worker[w].ses)

\* A session that is served, or about to be removed, is in the list.
Live(s) ==
  \/ at[s] \in {"io", "packet", "worker"} \/ Waits(queue, s, Served)
  \/ \E w \in Workers : worker[w].at = "remove" /\ worker[w].ses = s
Listed(s) ==
  \/ \E i \in DOMAIN _sessions : _sessions[i] = s
  \/ listener = "push" /\ joining = s

List == main \notin Cleared => \A s \in Sessions : Live(s) => Listed(s)

\* The loop has been told that the session is connected, and not yet that it is
\* disconnected.
Told     == {"finished", "disconnected"}
Known(s) == at[s] \in {"io", "packet", "worker", "rest"} \/ Waits(queue, s, Told)
Announced == {s \in Sessions : Known(s)}
Counted ==
  /\ _connect_count \in 0..Cardinality(Sessions)
  /\ ~stopped => _connect_count = Cardinality(Announced)

ServerInv ==
  /\ Types /\ Listening /\ References /\ ReleasedOnce /\ Queues /\ Threads /\ List
  /\ Counted

\* With one thread, a port that is closed has nobody left to serve it.
OneThread ==
  /\ main = "open" => ~port /\ released = 0
  /\ ~port => \A w \in Workers : worker[w].at = "ended"
  /\ released > 0 => \A w \in Workers : worker[w].at = "ended"

-----------------------------------------------------------------------------
(* Queues of tokens.                                                       *)

\* The token of s goes from one place to another, neither of them q.
LEMMA Elsewhere ==
  ASSUME NEW q, NEW a \in [Sessions -> Stages], NEW here, Tokens(q, a, here),
         NEW s \in Sessions, a[s] # here, NEW b, NEW x, b = [a EXCEPT ![s] = x]
  PROVE  Tokens(q, b, here)
BY DEF Tokens

LEMMA TokenAppend ==
  ASSUME NEW S, NEW q \in Seq(S), NEW a \in [Sessions -> Stages], NEW here,
         Tokens(q, a, here), NEW s \in Sessions, a[s] # here,
         NEW e \in S, e.ses = s, NEW b, b = [a EXCEPT ![s] = here]
  PROVE  Tokens(Append(q, e), b, here)
<1> DEFINE r == Append(q, e)
<1>1. /\ DOMAIN r = 1..Len(q) + 1 /\ DOMAIN q = 1..Len(q) /\ Len(q) \in Nat
      /\ r[Len(q) + 1] = e /\ \A i \in 1..Len(q) : r[i] = q[i]
  OBVIOUS
<1> HIDE DEF r
<1>2. \A i \in 1..Len(q) : r[i].ses # s
  BY <1>1 DEF Tokens
<1>3. ASSUME NEW i \in DOMAIN r, NEW j \in DOMAIN r, r[i].ses \in Sessions
      PROVE  b[r[i].ses] = here /\ (r[j].ses = r[i].ses => i = j)
  <2>1. CASE i = Len(q) + 1
    BY <2>1, <1>1, <1>2, <1>3
  <2>2. CASE i \in 1..Len(q)
    <3>1. r[i] = q[i] /\ q[i].ses # s
      BY <2>2, <1>1, <1>2
    <3>2. CASE j = Len(q) + 1
      BY <3>1, <3>2, <2>2, <1>1, <1>3 DEF Tokens
    <3>3. CASE j \in 1..Len(q)
      BY <3>1, <3>3, <2>2, <1>1, <1>3 DEF Tokens
    <3> QED BY <3>2, <3>3, <1>1
  <2> QED BY <2>1, <2>2, <1>1
<1> QED BY <1>3 DEF Tokens, r

\* Entries of no session.
LEMMA TokenConcat ==
  ASSUME NEW S, NEW q \in Seq(S), NEW r \in Seq(S), NEW a, NEW here,
         Tokens(q, a, here), \A i \in DOMAIN r : r[i].ses \notin Sessions
  PROVE  Tokens(q \o r, a, here)
<1> DEFINE m == q \o r
<1>1. /\ DOMAIN m = 1..Len(q) + Len(r) /\ DOMAIN q = 1..Len(q) /\ DOMAIN r = 1..Len(r)
      /\ Len(q) \in Nat /\ Len(r) \in Nat
      /\ \A i \in 1..Len(q) + Len(r) : m[i] = IF i <= Len(q) THEN q[i] ELSE r[i - Len(q)]
  <2>1. /\ m \in Seq(S) /\ Len(m) = Len(q) + Len(r)
        /\ \A i \in 1..Len(q) + Len(r) : m[i] = IF i <= Len(q) THEN q[i] ELSE r[i - Len(q)]
    BY ConcatProperties
  <2> QED BY <2>1
<1> HIDE DEF m
<1>2. ASSUME NEW i \in DOMAIN m, m[i].ses \in Sessions PROVE i \in DOMAIN q /\ m[i] = q[i]
  <2>1. CASE i <= Len(q)
    BY <2>1, <1>1
  <2>2. CASE ~(i <= Len(q))
    <3>1. m[i] = r[i - Len(q)] /\ i - Len(q) \in DOMAIN r
      BY <2>2, <1>1
    <3> QED BY <3>1, <1>2
  <2> QED BY <2>1, <2>2
<1>3. ASSUME NEW i \in DOMAIN m, NEW j \in DOMAIN m, m[i].ses \in Sessions
      PROVE  a[m[i].ses] = here /\ (m[j].ses = m[i].ses => i = j)
  BY <1>2, <1>3 DEF Tokens
<1> QED BY <1>3 DEF Tokens, m

LEMMA TokenOther ==
  ASSUME NEW S, NEW q \in Seq(S), NEW a, NEW here, Tokens(q, a, here),
         NEW e \in S, e.ses \notin Sessions
  PROVE  Tokens(Append(q, e), a, here)
<1> DEFINE r == Append(q, e)
<1>1. /\ DOMAIN r = 1..Len(q) + 1 /\ DOMAIN q = 1..Len(q) /\ Len(q) \in Nat
      /\ r[Len(q) + 1] = e /\ \A i \in 1..Len(q) : r[i] = q[i]
  OBVIOUS
<1> HIDE DEF r
<1>2. ASSUME NEW i \in DOMAIN r, r[i].ses \in Sessions PROVE i \in DOMAIN q /\ r[i] = q[i]
  BY <1>1, <1>2
<1>3. ASSUME NEW i \in DOMAIN r, NEW j \in DOMAIN r, r[i].ses \in Sessions
      PROVE  a[r[i].ses] = here /\ (r[j].ses = r[i].ses => i = j)
  BY <1>2, <1>3 DEF Tokens
<1> QED BY <1>3 DEF Tokens, r

LEMMA TokenTail ==
  ASSUME NEW S, NEW q \in Seq(S), q # <<>>, NEW a \in [Sessions -> Stages], NEW here,
         Tokens(q, a, here), NEW s \in Sessions, Head(q).ses = s,
         NEW b, NEW x, b = [a EXCEPT ![s] = x]
  PROVE  a[s] = here /\ Tokens(Tail(q), b, here)
<1> DEFINE r == Tail(q)
<1>1. /\ DOMAIN r = 1..Len(q) - 1 /\ DOMAIN q = 1..Len(q) /\ Len(q) \in Nat \ {0}
      /\ Head(q) = q[1] /\ \A i \in 1..Len(q) - 1 : r[i] = q[i + 1]
  OBVIOUS
<1> HIDE DEF r
<1>2. a[s] = here /\ \A j \in DOMAIN q : q[j].ses = s => j = 1
  BY <1>1 DEF Tokens
<1>3. \A i \in DOMAIN r : r[i].ses # s
  BY <1>1, <1>2, SMTT(30)
<1>4. ASSUME NEW i \in DOMAIN r, NEW j \in DOMAIN r, r[i].ses \in Sessions
      PROVE  b[r[i].ses] = here /\ (r[j].ses = r[i].ses => i = j)
  <2>1. i + 1 \in DOMAIN q /\ j + 1 \in DOMAIN q /\ r[i] = q[i + 1] /\ r[j] = q[j + 1]
    BY <1>1
  <2> QED BY <2>1, <1>1, <1>3, <1>4 DEF Tokens
<1> QED BY <1>2, <1>4 DEF Tokens, r

LEMMA TailOthers ==
  ASSUME NEW S, NEW q \in Seq(S), q # <<>>, NEW a, NEW here,
         Tokens(q, a, here), NEW s \in Sessions, Head(q).ses = s
  PROVE  \A i \in DOMAIN Tail(q) : Tail(q)[i].ses # s
<1> DEFINE r == Tail(q)
<1>1. /\ DOMAIN r = 1..Len(q) - 1 /\ DOMAIN q = 1..Len(q) /\ Len(q) \in Nat \ {0}
      /\ Head(q) = q[1] /\ \A i \in 1..Len(q) - 1 : r[i] = q[i + 1]
  OBVIOUS
<1> HIDE DEF r
<1>2. \A j \in DOMAIN q : q[j].ses = s => j = 1
  BY <1>1 DEF Tokens
<1>3. \A i \in DOMAIN r : r[i].ses # s
  BY <1>1, <1>2, SMTT(30)
<1> QED BY <1>3 DEF r

LEMMA TailTokens ==
  ASSUME NEW S, NEW q \in Seq(S), q # <<>>, NEW a, NEW here, Tokens(q, a, here)
  PROVE  Tokens(Tail(q), a, here)
<1> DEFINE r == Tail(q)
<1>1. /\ DOMAIN r = 1..Len(q) - 1 /\ DOMAIN q = 1..Len(q) /\ Len(q) \in Nat \ {0}
      /\ \A i \in 1..Len(q) - 1 : r[i] = q[i + 1]
  OBVIOUS
<1> HIDE DEF r
<1>2. ASSUME NEW i \in DOMAIN r, NEW j \in DOMAIN r, r[i].ses \in Sessions
      PROVE  a[r[i].ses] = here /\ (r[j].ses = r[i].ses => i = j)
  <2>1. i + 1 \in DOMAIN q /\ j + 1 \in DOMAIN q /\ r[i] = q[i + 1] /\ r[j] = q[j + 1]
    BY <1>1
  <2> QED BY <2>1, <1>1, <1>2 DEF Tokens
<1> QED BY <1>2 DEF Tokens, r

\* What waits after put() and after get().
LEMMA WaitsAppend ==
  ASSUME NEW S, NEW q \in Seq(S), NEW e \in S, NEW s, NEW sts
  PROVE  Waits(Append(q, e), s, sts) <=>
           Waits(q, s, sts) \/ (e.ses = s /\ e.status \in sts)
<1> DEFINE r == Append(q, e)
<1>1. /\ DOMAIN r = 1..Len(q) + 1 /\ DOMAIN q = 1..Len(q) /\ Len(q) \in Nat
      /\ r[Len(q) + 1] = e /\ \A i \in 1..Len(q) : r[i] = q[i]
  OBVIOUS
<1> HIDE DEF r
<1>2. Waits(r, s, sts) => Waits(q, s, sts) \/ (e.ses = s /\ e.status \in sts)
  BY <1>1 DEF Waits
<1>3. Waits(q, s, sts) => Waits(r, s, sts)
  BY <1>1 DEF Waits
<1>4. e.ses = s /\ e.status \in sts => Waits(r, s, sts)
  <2>1. Len(q) + 1 \in DOMAIN r
    BY <1>1
  <2> QED BY <2>1, <1>1 DEF Waits
<1> QED BY <1>2, <1>3, <1>4 DEF r

LEMMA WaitsTail ==
  ASSUME NEW S, NEW q \in Seq(S), q # <<>>, NEW s, NEW sts
  PROVE  /\ Waits(Tail(q), s, sts) => Waits(q, s, sts)
         /\ Head(q).ses # s => (Waits(Tail(q), s, sts) <=> Waits(q, s, sts))
         /\ Head(q).ses = s /\ Head(q).status \in sts => Waits(q, s, sts)
<1> DEFINE r == Tail(q)
<1>1. /\ DOMAIN r = 1..Len(q) - 1 /\ DOMAIN q = 1..Len(q) /\ Len(q) \in Nat \ {0}
      /\ Head(q) = q[1] /\ \A i \in 1..Len(q) - 1 : r[i] = q[i + 1]
  OBVIOUS
<1> HIDE DEF r
<1>2. Waits(r, s, sts) => Waits(q, s, sts)
  <2> SUFFICES ASSUME NEW i \in DOMAIN r, r[i].ses = s, r[i].status \in sts
               PROVE  Waits(q, s, sts)
    BY DEF Waits
  <2>1. i + 1 \in DOMAIN q /\ q[i + 1] = r[i]
    BY <1>1
  <2> QED BY <2>1 DEF Waits
<1>3. Head(q).ses # s /\ Waits(q, s, sts) => Waits(r, s, sts)
  <2> SUFFICES ASSUME Head(q).ses # s, NEW i \in DOMAIN q, q[i].ses = s,
  q[i].status \in sts
               PROVE  Waits(r, s, sts)
    BY DEF Waits
  <2>1. i - 1 \in DOMAIN r /\ r[i - 1] = q[i]
    BY <1>1
  <2> QED BY <2>1 DEF Waits
<1>4. Head(q).ses = s /\ Head(q).status \in sts => Waits(q, s, sts)
  <2>1. 1 \in DOMAIN q
    BY <1>1
  <2> QED BY <2>1, <1>1 DEF Waits
<1> QED BY <1>2, <1>3, <1>4 DEF r

\* Whatever waits in the queue has its token there.
LEMMA WaitsToken ==
  ASSUME NEW q, NEW a, NEW here, Tokens(q, a, here), NEW s \in Sessions, NEW sts,
         Waits(q, s, sts)
  PROVE  a[s] = here
BY DEF Waits, Tokens

\* The parts of a sequence before and after an item.
LEMMA Before ==
  ASSUME NEW S, NEW q \in Seq(S), NEW i \in 1..Len(q)
  PROVE  /\ SubSeq(q, 1, i - 1) \in Seq(S) /\ Len(SubSeq(q, 1, i - 1)) = i - 1
         /\ \A k \in 1..i - 1 : SubSeq(q, 1, i - 1)[k] = q[k]
<1> DEFINE x == SubSeq(q, 1, i - 1)
<1>1. /\ 1 \in Int /\ i - 1 \in Int /\ i \in Nat /\ i >= 1 /\ \A k \in 1..i - 1 : q[k] \in S
  OBVIOUS
<1>2. /\ x \in Seq(S) /\ Len(x) = IF 1 <= i - 1 THEN i - 1 - 1 + 1 ELSE 0
      /\ \A k \in 1..i - 1 - 1 + 1 : x[k] = q[1 + k - 1]
  BY <1>1, SubSeqProperties
<1> HIDE DEF x
<1>3. Len(x) = i - 1
  BY ONLY <1>1, <1>2
<1>4. \A k \in 1..i - 1 : x[k] = q[k]
  BY ONLY <1>1, <1>2
<1> QED BY <1>2, <1>3, <1>4 DEF x

LEMMA Behind ==
  ASSUME NEW S, NEW q \in Seq(S), NEW i \in 1..Len(q)
  PROVE  /\ SubSeq(q, i + 1, Len(q)) \in Seq(S)
         /\ Len(SubSeq(q, i + 1, Len(q))) = Len(q) - i
         /\ \A k \in 1..Len(q) - i : SubSeq(q, i + 1, Len(q))[k] = q[i + k]
<1> DEFINE n == Len(q)
           y == SubSeq(q, i + 1, n)
<1>1. /\ i + 1 \in Int /\ n \in Nat /\ i \in 1..n /\ \A k \in i + 1..n : q[k] \in S
  OBVIOUS
<1>2. /\ y \in Seq(S) /\ Len(y) = IF i + 1 <= n THEN n - (i + 1) + 1 ELSE 0
      /\ \A k \in 1..n - (i + 1) + 1 : y[k] = q[i + 1 + k - 1]
  BY <1>1, SubSeqProperties
<1> HIDE DEF y, n
<1>3. Len(y) = n - i
  BY ONLY <1>1, <1>2
<1>4. \A k \in 1..n - i : y[k] = q[i + k]
  BY ONLY <1>1, <1>2
<1> QED BY <1>2, <1>3, <1>4 DEF y, n

\* erase() of one item leaves the others.
LEMMA Erase ==
  ASSUME NEW S, NEW q \in Seq(S), NEW i \in 1..Len(q)
  PROVE  LET r == SubSeq(q, 1, i - 1) \o SubSeq(q, i + 1, Len(q)) IN
           /\ r \in Seq(S)
           /\ \A j \in DOMAIN q : j # i => \E k \in DOMAIN r : r[k] = q[j]
<1> DEFINE n == Len(q)
           x == SubSeq(q, 1, i - 1)
           y == SubSeq(q, i + 1, n)
           r == x \o y
<1>1. DOMAIN q = 1..n /\ n \in Nat /\ i \in 1..n
  OBVIOUS
<1>2. x \in Seq(S) /\ Len(x) = i - 1 /\ \A k \in 1..i - 1 : x[k] = q[k]
  BY Before
<1>3. y \in Seq(S) /\ Len(y) = n - i /\ \A k \in 1..n - i : y[k] = q[i + k]
  BY Behind
<1> HIDE DEF n, x, y
<1>4. x \in Seq(S) /\ y \in Seq(S)
  BY <1>2, <1>3
<1>5. /\ r \in Seq(S) /\ Len(r) = Len(x) + Len(y)
      /\ \A j \in 1..Len(x) + Len(y) : r[j] = IF j <= Len(x) THEN x[j] ELSE y[j - Len(x)]
  BY <1>4, ConcatProperties
<1> HIDE DEF r
<1>a. Len(x) \in Nat /\ Len(y) \in Nat
  BY ONLY <1>4
<1>6. \A k \in 1..Len(x) : r[k] = x[k]
  BY ONLY <1>a, <1>5
<1>7. \A k \in 1..Len(y) : r[Len(x) + k] = y[k]
  BY ONLY <1>a, <1>5
<1>8. ASSUME NEW j \in DOMAIN q, j # i PROVE \E k \in DOMAIN r : r[k] = q[j]
  <2>0. DOMAIN r = 1..n - 1
    BY <1>1, <1>2, <1>3, <1>5
  <2>1. CASE j < i
    <3>1. j \in 1..n - 1 /\ r[j] = q[j]
      BY ONLY <2>1, <1>1, <1>2, <1>6, j \in DOMAIN q
    <3> QED BY <3>1, <2>0
  <2>2. CASE j > i
    <3>0. j \in Int /\ i \in Int /\ n \in Int /\ Len(x) = i - 1 /\ j <= n /\ 1 <= i
      BY ONLY <1>1, <1>2, j \in DOMAIN q
    <3>1. j - i \in 1..n - i /\ j - 1 \in 1..n - 1 /\ Len(x) + (j - i) = j - 1
          /\ i + (j - i) = j
      BY ONLY <2>2, <3>0
    <3>2. y[j - i] = q[i + (j - i)] /\ r[Len(x) + (j - i)] = y[j - i]
      BY <3>1, <1>2, <1>3, <1>7
    <3>3. r[j - 1] = q[j]
      BY ONLY <3>1, <3>2
    <3> QED BY <3>1, <3>3, <2>0
  <2>3. j < i \/ j > i
    BY ONLY <1>1, <1>8, j \in DOMAIN q
  <2> QED BY <2>1, <2>2, <2>3
<1> QED BY <1>5, <1>8 DEF r, x, y, n
-----------------------------------------------------------------------------
(* The steps of the invariant, one part at a time. *)

\* Which actions change what.
LEMMA WhoMoves ==
  ASSUME [Next]_vars, at' # at
  PROVE  \/ Tick \/ JoinIocp \/ JoinFails
         \/ \E s \in Sessions : Accept(s)
         \/ \E s \in Sessions, ok \in BOOLEAN : Complete(s, ok)
         \/ \E w \in Workers : Get(w) \/ Put(w)
<1> USE DEF list, tokens, ports, queues, accepts
<1>1. CASE UNCHANGED vars
  BY <1>1 DEF vars
<1>2. CASE MainStep
  BY <1>2 DEF MainStep, Open, OpenFails, Listen, Tick, QueueQuit, CloseSockets, Post,
     Wait,
              Clear, CloseSocket, Stop, WaitListener, PostQuit, Release
<1>3. CASE ListenerStep
  BY <1>3 DEF ListenerStep, Test, AcceptFails, JoinIocp, JoinFails, Push
<1>4. ASSUME NEW s \in Sessions, Accept(s) PROVE \E c \in Sessions : Accept(c)
  BY <1>4
<1>5. ASSUME NEW s \in Sessions, NEW ok \in BOOLEAN, Complete(s, ok)
      PROVE  \E c \in Sessions, b \in BOOLEAN : Complete(c, b)
  BY <1>5
<1>6. ASSUME NEW w \in Workers, WorkerStep(w) PROVE \E u \in Workers : Get(u) \/ Put(u)
  BY <1>6 DEF WorkerStep, Get, Put, Remove
<1> QED BY <1>1, <1>2, <1>3, <1>4, <1>5, <1>6 DEF Next

LEMMA WhoQueues ==
  ASSUME [Next]_vars, queue' # queue
  PROVE  \/ Tick \/ PostQuit \/ JoinIocp
         \/ \E w \in Workers : Put(w)
<1> USE DEF list, tokens, ports, queues, accepts
<1>1. CASE UNCHANGED vars
  BY <1>1 DEF vars
<1>2. CASE MainStep
  BY <1>2 DEF MainStep, Open, OpenFails, Listen, Tick, QueueQuit, CloseSockets, Post,
     Wait,
              Clear, CloseSocket, Stop, WaitListener, PostQuit, Release
<1>3. CASE ListenerStep
  BY <1>3 DEF ListenerStep, Test, AcceptFails, JoinIocp, JoinFails, Push
<1>4. ASSUME NEW s \in Sessions, Accept(s) PROVE FALSE
  BY <1>4 DEF Accept
<1>5. ASSUME NEW s \in Sessions, NEW ok \in BOOLEAN, Complete(s, ok) PROVE FALSE
  BY <1>5 DEF Complete
<1>6. ASSUME NEW w \in Workers, WorkerStep(w) PROVE \E u \in Workers : Put(u)
  BY <1>6 DEF WorkerStep, Get, Put, Remove
<1> QED BY <1>1, <1>2, <1>3, <1>4, <1>5, <1>6 DEF Next

LEMMA WhoPosts ==
  ASSUME [Next]_vars, packets' # packets
  PROVE  \/ Post \/ Wait
         \/ \E s \in Sessions, ok \in BOOLEAN : Complete(s, ok)
         \/ \E w \in Workers : Get(w)
<1> USE DEF list, tokens, ports, queues, accepts
<1>1. CASE UNCHANGED vars
  BY <1>1 DEF vars
<1>2. CASE MainStep
  BY <1>2 DEF MainStep, Open, OpenFails, Listen, Tick, QueueQuit, CloseSockets, Post,
     Wait,
              Clear, CloseSocket, Stop, WaitListener, PostQuit, Release
<1>3. CASE ListenerStep
  BY <1>3 DEF ListenerStep, Test, AcceptFails, JoinIocp, JoinFails, Push
<1>4. ASSUME NEW s \in Sessions, Accept(s) PROVE FALSE
  BY <1>4 DEF Accept
<1>5. ASSUME NEW s \in Sessions, NEW ok \in BOOLEAN, Complete(s, ok)
      PROVE  \E c \in Sessions, b \in BOOLEAN : Complete(c, b)
  BY <1>5
<1>6. ASSUME NEW w \in Workers, WorkerStep(w) PROVE \E u \in Workers : Get(u)
  BY <1>6 DEF WorkerStep, Get, Put, Remove
<1> QED BY <1>1, <1>2, <1>3, <1>4, <1>5, <1>6 DEF Next

LEMMA WhoWorks ==
  ASSUME [Next]_vars, worker' # worker
  PROVE  \/ Open
         \/ \E w \in Workers : Get(w) \/ Put(w) \/ Remove(w)
<1> USE DEF list, tokens, ports, queues, accepts
<1>1. CASE UNCHANGED vars
  BY <1>1 DEF vars
<1>2. CASE MainStep
  BY <1>2 DEF MainStep, Open, OpenFails, Listen, Tick, QueueQuit, CloseSockets, Post,
     Wait,
              Clear, CloseSocket, Stop, WaitListener, PostQuit, Release
<1>3. CASE ListenerStep
  BY <1>3 DEF ListenerStep, Test, AcceptFails, JoinIocp, JoinFails, Push
<1>4. ASSUME NEW s \in Sessions, Accept(s) PROVE FALSE
  BY <1>4 DEF Accept
<1>5. ASSUME NEW s \in Sessions, NEW ok \in BOOLEAN, Complete(s, ok) PROVE FALSE
  BY <1>5 DEF Complete
<1>6. ASSUME NEW w \in Workers, WorkerStep(w)
      PROVE  \E u \in Workers : Get(u) \/ Put(u) \/ Remove(u)
  BY <1>6 DEF WorkerStep, Get, Put, Remove
<1> QED BY <1>1, <1>2, <1>3, <1>4, <1>5, <1>6 DEF Next

\* Types.
LEMMA TypesStep ==
  ASSUME ServerInv, [Next]_vars
  PROVE  Types'
<1> USE DEF Main, MainTo, Listener, Worker, list, tokens, ports, queues, accepts
<1>1. CASE UNCHANGED vars
  BY <1>1 DEF vars, ServerInv, Types, Listening, Queues, Threads, Statements, Stages,
     Packages, Packets, Statuses, Pack, Packet, Quit, Queued, Free
<1>2. CASE Open
  BY <1>2 DEF Open, ServerInv, Types, Listening, Queues, Threads, Statements, Stages,
     Packages, Packets, Statuses, Pack, Packet, Quit, Queued, Free
<1>3. CASE OpenFails
  BY <1>3 DEF OpenFails, ServerInv, Types, Listening, Queues, Threads, Statements,
     Stages, Packages, Packets, Statuses, Pack, Packet, Quit, Queued, Free
<1>4. CASE Listen
  BY <1>4 DEF Listen, ServerInv, Types, Listening, Queues, Threads, Statements,
     Stages, Packages, Packets, Statuses, Pack, Packet, Quit, Queued, Free
<1>5. CASE Tick
  <2>1. queue \in Seq(Packages) /\ queue # <<>>
    BY <1>5 DEF Tick, ServerInv, Types
  <2>2. queue' \in Seq(Packages)
    BY <1>5, <2>1 DEF Tick
  <2> QED BY <1>5, <2>2 DEF Tick, ServerInv, Types, Statements, Stages
<1>6. CASE QueueQuit
  BY <1>6 DEF QueueQuit, ServerInv, Types, Listening, Queues, Threads, Statements,
     Stages, Packages, Packets, Statuses, Pack, Packet, Quit, Queued, Free
<1>7. CASE CloseSockets
  <2>1. sock' \in [Sessions -> BOOLEAN]
    BY <1>7 DEF CloseSockets, ServerInv, Types
  <2>2. next' \in Nat \ {0}
    <3>1. next' = next \/ next' = next + 1
      BY <1>7, Zenon DEF CloseSockets
    <3> QED BY <3>1 DEF ServerInv, Types
  <2>3. died' \in BOOLEAN
    BY <1>7 DEF CloseSockets, ServerInv, Types
  <2> QED BY <1>7, <2>1, <2>2, <2>3 DEF CloseSockets, ServerInv, Types, Statements
<1>8. CASE Post
  <2>1. packets' \in Seq(Packets)
    <3>1. packets \in Seq(Packets) /\ Quit \in Packets /\ Cardinality(Workers) \in Nat
      BY ServerAssumption, FS_CardinalityType DEF ServerInv, Types, Quit, Packet,
         Packets
    <3>2. \A n \in Nat : [i \in 1..n |-> Quit] \in Seq(Packets)
      BY <3>1
    <3>3. ASSUME NEW n \in 0..Cardinality(Workers)
          PROVE  packets \o [i \in 1..n |-> Quit] \in Seq(Packets)
      <4>1. [i \in 1..n |-> Quit] \in Seq(Packets)
        BY <3>1, <3>2
      <4> QED BY <3>1, <4>1
    <3> QED BY <1>8, <3>1, <3>3, Zenon DEF Post
  <2> QED BY <1>8, <2>1 DEF Post, ServerInv, Types, Statements
<1>9. CASE Wait
  <2>1. <<>> \in Seq(Packets)
    OBVIOUS
  <2>2. packets' \in Seq(Packets)
    BY <1>9, <2>1, Zenon DEF Wait
  <2>3. released' \in Nat
    BY <1>9 DEF Wait, ServerInv, Types
  <2> QED BY <1>9, <2>2, <2>3 DEF Wait, ServerInv, Types, Statements
<1>10. CASE Clear
  BY <1>10 DEF Clear, ServerInv, Types, Listening, Queues, Threads, Statements,
     Stages, Packages, Packets, Statuses, Pack, Packet, Quit, Queued, Free
<1>11. CASE CloseSocket
  BY <1>11 DEF CloseSocket, ServerInv, Types, Listening, Queues, Threads, Statements,
     Stages, Packages, Packets, Statuses, Pack, Packet, Quit, Queued, Free
<1>12. CASE Stop
  BY <1>12 DEF Stop, ServerInv, Types, Listening, Queues, Threads, Statements, Stages,
     Packages, Packets, Statuses, Pack, Packet, Quit, Queued, Free
<1>13. CASE WaitListener
  BY <1>13 DEF WaitListener, ServerInv, Types, Listening, Queues, Threads, Statements,
     Stages, Packages, Packets, Statuses, Pack, Packet, Quit, Queued, Free
<1>14. CASE PostQuit
  <2>1. Pack("quit", None) \in Packages
    BY DEF Pack, Packages, Statuses
  <2>2. queue' \in Seq(Packages)
    BY <1>14, <2>1 DEF PostQuit, Queued, ServerInv, Types
  <2> QED BY <1>14, <2>2 DEF PostQuit, ServerInv, Types, Statements
<1>15. CASE Release
  BY <1>15 DEF Release, ServerInv, Types, Listening, Queues, Threads, Statements,
     Stages, Packages, Packets, Statuses, Pack, Packet, Quit, Queued, Free
<1>16. CASE Test
  BY <1>16 DEF Test, ServerInv, Types, Listening, Queues, Threads, Statements, Stages,
     Packages, Packets, Statuses, Pack, Packet, Quit, Queued, Free
<1>17. CASE AcceptFails
  BY <1>17 DEF AcceptFails, ServerInv, Types, Listening, Queues, Threads, Statements,
     Stages, Packages, Packets, Statuses, Pack, Packet, Quit, Queued, Free
<1>18. CASE JoinIocp
  <2>1. Pack("connected", joining) \in Packages
    BY DEF Pack, Packages, Statuses, ServerInv, Types
  <2>2. queue' \in Seq(Packages)
    BY <1>18, <2>1 DEF JoinIocp, Queued, ServerInv, Types
  <2> QED BY <1>18, <2>2 DEF JoinIocp, ServerInv, Types, Stages
<1>19. CASE JoinFails
  BY <1>19 DEF JoinFails, ServerInv, Types, Listening, Queues, Threads, Statements,
     Stages, Packages, Packets, Statuses, Pack, Packet, Quit, Queued, Free
<1>20. CASE Push
  BY <1>20 DEF Push, ServerInv, Types, Listening, Queues, Threads, Statements, Stages,
     Packages, Packets, Statuses, Pack, Packet, Quit, Queued, Free
<1>21. ASSUME NEW s \in Sessions, Accept(s) PROVE Types'
  BY <1>21 DEF Accept, ServerInv, Types, Listening, Queues, Threads, Statements,
     Stages, Packages, Packets, Statuses, Pack, Packet, Quit, Queued, Free
<1>22. ASSUME NEW s \in Sessions, NEW ok \in BOOLEAN, Complete(s, ok) PROVE Types'
  BY <1>22 DEF Complete, ServerInv, Types, Listening, Queues, Threads, Statements,
     Stages, Packages, Packets, Statuses, Pack, Packet, Quit, Queued, Free
<1>23. ASSUME NEW w \in Workers, Get(w) PROVE Types'
  <2>1. packets \in Seq(Packets) /\ packets # <<>>
    BY <1>23 DEF Get, ServerInv, Types
  <2>2. packets' \in Seq(Packets) /\ Head(packets) \in Packets
    BY <1>23, <2>1 DEF Get
  <2>3. CASE Head(packets) = Quit
    <3>1. worker' = [worker EXCEPT ![w].at = "ended"] /\ released' = released + 1
          /\ UNCHANGED tokens
      BY <1>23, <2>3, Zenon DEF Get
    <3>2. worker' \in [Workers -> [at : {"get", "put", "remove", "ended"},
                                  ses : Sessions \cup {None}, ok : BOOLEAN]]
      BY <3>1 DEF ServerInv, Types
    <3>3. at' = at /\ sock' = sock
      BY <3>1, Zenon
    <3> QED BY <1>23, <2>2, <3>1, <3>2, <3>3 DEF Get, ServerInv, Types
  <2>4. CASE Head(packets) # Quit
    <3>1. PICK p : p = Head(packets)
      OBVIOUS
    <3>2. /\ worker' = [worker EXCEPT ![w] = [at |-> "put", ses |-> p.ses, ok |-> p.ok]]
          /\ at' = [at EXCEPT ![p.ses] = "worker"]
          /\ sock' = [sock EXCEPT ![p.ses] = @ /\ p.ok]
          /\ released' = released
      BY <1>23, <2>4, <3>1, Zenon DEF Get
    <3>3. p.ses \in Sessions \cup {None} /\ p.ok \in BOOLEAN
      BY <2>2, <3>1 DEF Packets
    <3>4. sock' \in [Sessions -> BOOLEAN]
      BY <3>2, <3>3 DEF ServerInv, Types
    <3> QED BY <1>23, <2>2, <3>2, <3>3, <3>4 DEF Get, ServerInv, Types, Stages
  <2> QED BY <2>3, <2>4
<1>24. ASSUME NEW w \in Workers, Put(w) PROVE Types'
  <2>1. \A st \in Statuses : Pack(st, worker[w].ses) \in Packages
    BY DEF Pack, Packages, ServerInv, Types
  <2>2. queue' \in Seq(Packages)
    <3>1. PICK st \in Statuses : Queued(Pack(st, worker[w].ses))
      BY <1>24 DEF Put, Statuses
    <3> QED BY <3>1, <2>1 DEF Queued, ServerInv, Types
  <2>3. worker' \in [Workers -> [at : {"get", "put", "remove", "ended"},
                                ses : Sessions \cup {None}, ok : BOOLEAN]]
    BY <1>24, SMTT(30) DEF Put, ServerInv, Types
  <2>4. at' \in [Sessions -> Stages]
    BY <1>24 DEF Put, ServerInv, Types, Stages
  <2> QED BY <1>24, <2>2, <2>3, <2>4 DEF Put, ServerInv, Types
<1>25. ASSUME NEW w \in Workers, Remove(w) PROVE Types'
  <2>1. _sessions' \in Seq(Sessions)
    <3>1. _sessions \in Seq(Sessions)
      BY DEF ServerInv, Types
    <3>2. \A i \in 1..Len(_sessions) :
            SubSeq(_sessions, 1, i - 1) \o SubSeq(_sessions, i + 1, Len(_sessions))
              \in Seq(Sessions)
      BY <3>1, Erase, Zenon
    <3>3. DOMAIN _sessions = 1..Len(_sessions)
      BY <3>1
    <3> QED BY <1>25, <3>1, <3>2, <3>3, Zenon DEF Remove
  <2>2. worker' \in [Workers -> [at : {"get", "put", "remove", "ended"},
                                ses : Sessions \cup {None}, ok : BOOLEAN]]
    BY <1>25 DEF Remove, ServerInv, Types
  <2> QED BY <1>25, <2>1, <2>2 DEF Remove, ServerInv, Types
<1> QED
  BY <1>1, <1>2, <1>3, <1>4, <1>5, <1>6, <1>7, <1>8, <1>9, <1>10, <1>11, <1>12,
     <1>13, <1>14, <1>15, <1>16, <1>17, <1>18, <1>19, <1>20, <1>21, <1>22, <1>23,
     <1>24, <1>25
     DEF Next, MainStep, ListenerStep, WorkerStep

\* The token that a thread takes from the port, or the loop from the queue.
LEMMA Got ==
  ASSUME ServerInv, NEW w \in Workers, Get(w), Head(packets) # Quit
  PROVE  /\ packets \in Seq(Packets) /\ packets # <<>>
         /\ Head(packets).ses \in Sessions /\ Head(packets).ok \in BOOLEAN
         /\ at[Head(packets).ses] = "packet"
<1>1. packets \in Seq(Packets) /\ packets # <<>>
  BY DEF Get, ServerInv, Types
<1>2. 1 \in DOMAIN packets /\ Head(packets) = packets[1] /\ Head(packets) \in Packets
  BY <1>1
<1>3. Head(packets).ses \in Sessions
  BY <1>2 DEF ServerInv, Queues, Packets
<1> QED BY <1>1, <1>2, <1>3 DEF ServerInv, Queues, Tokens, Packets

LEMMA Ticked ==
  ASSUME ServerInv, Tick
  PROVE  /\ queue \in Seq(Packages) /\ queue # <<>>
         /\ Head(queue).ses \in Sessions
         /\ Head(queue).status \in {"connected", "finished", "disconnected"}
         /\ at[Head(queue).ses] = "package"
<1>1. queue \in Seq(Packages) /\ queue # <<>> /\ main = "loop"
  BY DEF Tick, Main, ServerInv, Types
<1>2. 1 \in DOMAIN queue /\ Head(queue) = queue[1] /\ Head(queue) \in Packages
  BY <1>1
<1>3. Head(queue).status # "quit"
  BY <1>1, <1>2 DEF ServerInv, Queues, Posted
<1>4. Head(queue).ses \in Sessions
  BY <1>2, <1>3 DEF ServerInv, Queues, Packages
<1> QED BY <1>1, <1>2, <1>3, <1>4 DEF ServerInv, Queues, Tokens, Packages, Statuses

\* The listener.
LEMMA ListeningStep ==
  ASSUME ServerInv, [Next]_vars
  PROVE  Listening'
<1> USE DEF Main, MainTo, Listener, Worker, list, tokens, ports, queues, accepts
<1>1. CASE UNCHANGED vars
  BY <1>1 DEF vars, ServerInv, Types, Listening, Statements, Waited, Threads
<1>2. CASE Open
  BY <1>2 DEF Open, ServerInv, Types, Listening, Statements, Waited, Threads
<1>3. CASE OpenFails
  BY <1>3 DEF OpenFails, ServerInv, Types, Listening, Statements, Waited, Threads
<1>4. CASE Listen
  BY <1>4 DEF Listen, ServerInv, Types, Listening, Statements, Waited, Threads
<1>5. CASE Tick
  <2>1. at[Head(queue).ses] = "package"
    BY <1>5, Ticked
  <2>2. joining' = joining /\ listener' = listener
    BY <1>5 DEF Tick
  <2>3. \A s \in Sessions : at[s] = "new" => at'[s] = "new"
    BY <1>5, <2>1 DEF Tick, ServerInv, Types
  <2>4. main = "loop" /\ main' \in {"loop", "quit"}
    BY <1>5 DEF Tick
  <2> QED BY <1>5, <2>2, <2>3, <2>4 DEF Tick, ServerInv, Types, Listening, Waited
<1>6. CASE QueueQuit
  BY <1>6 DEF QueueQuit, ServerInv, Types, Listening, Statements, Waited, Threads
<1>7. CASE CloseSockets
  BY <1>7 DEF CloseSockets, ServerInv, Types, Listening, Statements, Waited, Threads
<1>8. CASE Post
  BY <1>8 DEF Post, ServerInv, Types, Listening, Statements, Waited, Threads
<1>9. CASE Wait
  BY <1>9 DEF Wait, ServerInv, Types, Listening, Statements, Waited, Threads
<1>10. CASE Clear
  BY <1>10 DEF Clear, ServerInv, Types, Listening, Statements, Waited, Threads
<1>11. CASE CloseSocket
  BY <1>11 DEF CloseSocket, ServerInv, Types, Listening, Statements, Waited, Threads
<1>12. CASE Stop
  BY <1>12 DEF Stop, ServerInv, Types, Listening, Statements, Waited, Threads
<1>13. CASE WaitListener
  BY <1>13 DEF WaitListener, ServerInv, Types, Listening, Statements, Waited, Threads
<1>14. CASE PostQuit
  BY <1>14 DEF PostQuit, ServerInv, Types, Listening, Statements, Waited, Threads
<1>15. CASE Release
  BY <1>15 DEF Release, ServerInv, Types, Listening, Statements, Waited, Threads
<1>16. CASE Test
  BY <1>16 DEF Test, ServerInv, Types, Listening, Statements, Waited, Threads
<1>17. CASE AcceptFails
  BY <1>17 DEF AcceptFails, ServerInv, Types, Listening, Statements, Waited, Threads
<1>18. CASE JoinIocp
  BY <1>18 DEF JoinIocp, ServerInv, Types, Listening, Statements, Waited, Threads
<1>19. CASE JoinFails
  BY <1>19 DEF JoinFails, ServerInv, Types, Listening, Statements, Waited, Threads
<1>20. CASE Push
  <2>1. _session_limit > 0 /\ _session_limit \in 0..Limit /\ Limit \in Nat
    BY <1>20, ServerAssumption DEF Push, ServerInv, Listening
  <2>2. _session_limit' \in 0..Limit
    BY <1>20, <2>1 DEF Push
  <2>3. listener' = "test" /\ main' = main /\ _stop' = _stop
    BY <1>20 DEF Push
  <2>4. main \notin {"open", "listen"}
    BY <1>20 DEF Push, ServerInv, Listening
  <2>5. main \notin Waited
    BY <1>20 DEF Push, ServerInv, Listening
  <2> QED BY <2>2, <2>3, <2>4, <2>5 DEF ServerInv, Listening
<1>21. ASSUME NEW s \in Sessions, Accept(s) PROVE Listening'
  BY <1>21 DEF Accept, ServerInv, Types, Listening, Statements, Waited, Threads
<1>22. ASSUME NEW s \in Sessions, NEW ok \in BOOLEAN, Complete(s, ok) PROVE Listening'
  BY <1>22 DEF Complete, ServerInv, Types, Listening, Statements, Waited, Threads
<1>23. ASSUME NEW w \in Workers, Get(w) PROVE Listening'
  <2>1. \A s \in Sessions : at[s] = "new" => at'[s] = "new"
    <3>1. CASE Head(packets) = Quit
      BY <1>23, <3>1 DEF Get
    <3>2. CASE Head(packets) # Quit
      <4>1. at[Head(packets).ses] = "packet"
        BY <1>23, <3>2, Got
      <4> QED BY <1>23, <3>2, <4>1 DEF Get, ServerInv, Types
    <3> QED BY <3>1, <3>2
  <2> QED BY <1>23, <2>1 DEF Get, ServerInv, Listening
<1>24. ASSUME NEW w \in Workers, Put(w) PROVE Listening'
  BY <1>24 DEF Put, ServerInv, Types, Listening, Statements, Waited, Threads
<1>25. ASSUME NEW w \in Workers, Remove(w) PROVE Listening'
  BY <1>25 DEF Remove, ServerInv, Types, Listening, Statements, Waited, Threads
<1> QED
  BY <1>1, <1>2, <1>3, <1>4, <1>5, <1>6, <1>7, <1>8, <1>9, <1>10, <1>11, <1>12,
     <1>13, <1>14, <1>15, <1>16, <1>17, <1>18, <1>19, <1>20, <1>21, <1>22, <1>23,
     <1>24, <1>25
     DEF Next, MainStep, ListenerStep, WorkerStep

\* The references.
LEMMA ReferencesStep ==
  ASSUME ServerInv, [Next]_vars
  PROVE  References'
<1> USE DEF Main, MainTo, Listener, Worker, list, tokens, ports, queues, accepts
<1>1. CASE UNCHANGED vars
  BY <1>1 DEF vars, ServerInv, Types, Listening, References, ReleasedOnce, Statements,
     Waited
<1>2. CASE Open
  BY <1>2 DEF Open, ServerInv, Types, Listening, References, ReleasedOnce, Statements,
     Waited
<1>3. CASE OpenFails
  BY <1>3 DEF OpenFails, ServerInv, Types, Listening, References, ReleasedOnce,
     Statements, Waited
<1>4. CASE Listen
  BY <1>4 DEF Listen, ServerInv, Types, Listening, References, ReleasedOnce,
     Statements, Waited
<1>5. CASE Tick
  BY <1>5 DEF Tick, ServerInv, Types, Listening, References, ReleasedOnce, Statements,
     Waited
<1>6. CASE QueueQuit
  BY <1>6 DEF QueueQuit, ServerInv, Types, Listening, References, ReleasedOnce,
     Statements, Waited
<1>7. CASE CloseSockets
  BY <1>7 DEF CloseSockets, ServerInv, Types, Listening, References, ReleasedOnce,
     Statements, Waited
<1>8. CASE Post
  BY <1>8 DEF Post, ServerInv, Types, Listening, References, ReleasedOnce, Statements,
     Waited
<1>9. CASE Wait
  BY <1>9 DEF Wait, ServerInv, Types, Listening, References, ReleasedOnce, Statements,
     Waited
<1>10. CASE Clear
  BY <1>10 DEF Clear, ServerInv, Types, Listening, References, ReleasedOnce,
     Statements, Waited
<1>11. CASE CloseSocket
  BY <1>11 DEF CloseSocket, ServerInv, Types, Listening, References, ReleasedOnce,
     Statements, Waited
<1>12. CASE Stop
  BY <1>12 DEF Stop, ServerInv, Types, Listening, References, ReleasedOnce,
     Statements, Waited
<1>13. CASE WaitListener
  BY <1>13 DEF WaitListener, ServerInv, Types, Listening, References, ReleasedOnce,
     Statements, Waited
<1>14. CASE PostQuit
  BY <1>14 DEF PostQuit, ServerInv, Types, Listening, References, ReleasedOnce,
     Statements, Waited
<1>15. CASE Release
  BY <1>15 DEF Release, ServerInv, Types, Listening, References, ReleasedOnce,
     Statements, Waited
<1>16. CASE Test
  BY <1>16 DEF Test, ServerInv, Types, Listening, References, ReleasedOnce,
     Statements, Waited
<1>17. CASE AcceptFails
  BY <1>17 DEF AcceptFails, ServerInv, Types, Listening, References, ReleasedOnce,
     Statements, Waited
<1>18. CASE JoinIocp
  BY <1>18 DEF JoinIocp, ServerInv, Types, Listening, References, ReleasedOnce,
     Statements, Waited
<1>19. CASE JoinFails
  BY <1>19 DEF JoinFails, ServerInv, Types, Listening, References, ReleasedOnce,
     Statements, Waited
<1>20. CASE Push
  BY <1>20 DEF Push, ServerInv, Types, Listening, References, ReleasedOnce,
     Statements, Waited
<1>21. ASSUME NEW s \in Sessions, Accept(s) PROVE References'
  BY <1>21 DEF Accept, ServerInv, Types, Listening, References, ReleasedOnce,
     Statements, Waited
<1>22. ASSUME NEW s \in Sessions, NEW ok \in BOOLEAN, Complete(s, ok) PROVE References'
  BY <1>22 DEF Complete, ServerInv, Types, Listening, References, ReleasedOnce,
     Statements, Waited
<1>23. ASSUME NEW w \in Workers, Get(w) PROVE References'
  BY <1>23 DEF Get, ServerInv, Types, Listening, References, ReleasedOnce, Statements,
     Waited
<1>24. ASSUME NEW w \in Workers, Put(w) PROVE References'
  BY <1>24 DEF Put, ServerInv, Types, Listening, References, ReleasedOnce, Statements,
     Waited
<1>25. ASSUME NEW w \in Workers, Remove(w) PROVE References'
  BY <1>25 DEF Remove, ServerInv, Types, Listening, References, ReleasedOnce,
     Statements, Waited
<1> QED
  BY <1>1, <1>2, <1>3, <1>4, <1>5, <1>6, <1>7, <1>8, <1>9, <1>10, <1>11, <1>12,
     <1>13, <1>14, <1>15, <1>16, <1>17, <1>18, <1>19, <1>20, <1>21, <1>22, <1>23,
     <1>24, <1>25
     DEF Next, MainStep, ListenerStep, WorkerStep

\* Only a server that was opened has its references released by main().
LEMMA ReleasedOnceStep ==
  ASSUME ServerInv, [Next]_vars
  PROVE  ReleasedOnce'
<1> USE DEF Main, MainTo, Listener, Worker, list, tokens, ports, queues, accepts
<1>1. CASE UNCHANGED vars
  BY <1>1 DEF vars, ServerInv, Types, Listening, ReleasedOnce, Statements, Waited
<1>2. CASE Open
  BY <1>2 DEF Open, ServerInv, Types, Listening, ReleasedOnce, Statements, Waited
<1>3. CASE OpenFails
  BY <1>3 DEF OpenFails, ServerInv, Types, Listening, ReleasedOnce, Statements, Waited
<1>4. CASE Listen
  BY <1>4 DEF Listen, ServerInv, Types, Listening, ReleasedOnce, Statements, Waited
<1>5. CASE Tick
  BY <1>5 DEF Tick, ServerInv, Types, Listening, ReleasedOnce, Statements, Waited
<1>6. CASE QueueQuit
  BY <1>6 DEF QueueQuit, ServerInv, Types, Listening, ReleasedOnce, Statements, Waited
<1>7. CASE CloseSockets
  BY <1>7 DEF CloseSockets, ServerInv, Types, Listening, ReleasedOnce, Statements,
     Waited
<1>8. CASE Post
  BY <1>8 DEF Post, ServerInv, Types, Listening, ReleasedOnce, Statements, Waited
<1>9. CASE Wait
  BY <1>9 DEF Wait, ServerInv, Types, Listening, ReleasedOnce, Statements, Waited
<1>10. CASE Clear
  BY <1>10 DEF Clear, ServerInv, Types, Listening, ReleasedOnce, Statements, Waited
<1>11. CASE CloseSocket
  BY <1>11 DEF CloseSocket, ServerInv, Types, Listening, ReleasedOnce, Statements,
     Waited
<1>12. CASE Stop
  BY <1>12 DEF Stop, ServerInv, Types, Listening, ReleasedOnce, Statements, Waited
<1>13. CASE WaitListener
  BY <1>13 DEF WaitListener, ServerInv, Types, Listening, ReleasedOnce, Statements,
     Waited
<1>14. CASE PostQuit
  BY <1>14 DEF PostQuit, ServerInv, Types, Listening, ReleasedOnce, Statements, Waited
<1>15. CASE Release
  BY <1>15 DEF Release, ServerInv, Types, Listening, ReleasedOnce, Statements, Waited
<1>16. CASE Test
  BY <1>16 DEF Test, ServerInv, Types, Listening, ReleasedOnce, Statements, Waited
<1>17. CASE AcceptFails
  BY <1>17 DEF AcceptFails, ServerInv, Types, Listening, ReleasedOnce, Statements,
     Waited
<1>18. CASE JoinIocp
  BY <1>18 DEF JoinIocp, ServerInv, Types, Listening, ReleasedOnce, Statements, Waited
<1>19. CASE JoinFails
  BY <1>19 DEF JoinFails, ServerInv, Types, Listening, ReleasedOnce, Statements, Waited
<1>20. CASE Push
  BY <1>20 DEF Push, ServerInv, Types, Listening, ReleasedOnce, Statements, Waited
<1>21. ASSUME NEW s \in Sessions, Accept(s) PROVE ReleasedOnce'
  BY <1>21 DEF Accept, ServerInv, Types, Listening, ReleasedOnce, Statements, Waited
<1>22. ASSUME NEW s \in Sessions, NEW ok \in BOOLEAN, Complete(s, ok)
       PROVE  ReleasedOnce'
  BY <1>22 DEF Complete, ServerInv, Types, Listening, ReleasedOnce, Statements, Waited
<1>23. ASSUME NEW w \in Workers, Get(w) PROVE ReleasedOnce'
  BY <1>23 DEF Get, ServerInv, Types, Listening, ReleasedOnce, Statements, Waited
<1>24. ASSUME NEW w \in Workers, Put(w) PROVE ReleasedOnce'
  BY <1>24 DEF Put, ServerInv, Types, Listening, ReleasedOnce, Statements, Waited
<1>25. ASSUME NEW w \in Workers, Remove(w) PROVE ReleasedOnce'
  BY <1>25 DEF Remove, ServerInv, Types, Listening, ReleasedOnce, Statements, Waited
<1> QED
  BY <1>1, <1>2, <1>3, <1>4, <1>5, <1>6, <1>7, <1>8, <1>9, <1>10, <1>11, <1>12,
     <1>13, <1>14, <1>15, <1>16, <1>17, <1>18, <1>19, <1>20, <1>21, <1>22, <1>23,
     <1>24, <1>25
     DEF Next, MainStep, ListenerStep, WorkerStep

\* The packages of the sessions.
LEMMA QueueTokensStep ==
  ASSUME ServerInv, [Next]_vars
  PROVE  Tokens(queue', at', "package")
<1> USE DEF Main, MainTo, Listener, Worker, list, tokens, ports, queues, accepts
<1>1. CASE at' = at /\ queue' = queue
  BY <1>1 DEF ServerInv, Queues
<1>2. CASE Tick
  <2>1. Tokens(queue, at, "package") /\ at \in [Sessions -> Stages]
        /\ queue \in Seq(Packages)
    BY DEF ServerInv, Queues, Types
  <2>2. queue # <<>> /\ queue' = Tail(queue)
    BY <1>2 DEF Tick
  <2>3. PICK s \in Sessions : s = Head(queue).ses
    BY <1>2, Ticked, Zenon
  <2>4. PICK x : at' = [at EXCEPT ![s] = x]
    BY <1>2, <2>3 DEF Tick
  <2>5. Tokens(Tail(queue), at', "package")
    BY <2>1, <2>2, <2>3, <2>4, TokenTail, Zenon
  <2> QED BY <2>2, <2>5, Zenon
<1>3. CASE PostQuit
  <2>1. Tokens(queue, at, "package") /\ at \in [Sessions -> Stages]
        /\ queue \in Seq(Packages)
    BY DEF ServerInv, Queues, Types
  <2>2. at' = at
    BY <1>3 DEF PostQuit
  <2>3. CASE stopped
    BY <1>3, <2>1, <2>2, <2>3 DEF PostQuit, Queued
  <2>4. CASE ~stopped
    <3>1. PICK e : e = Pack("quit", None)
      OBVIOUS
    <3>2. e \in Packages /\ e.ses \notin Sessions
      BY <3>1, ServerAssumption DEF Pack, Packages, Statuses
    <3>3. queue' = Append(queue, e)
      BY <1>3, <2>4, <3>1 DEF PostQuit, Queued
    <3>4. Tokens(Append(queue, e), at, "package")
      BY <2>1, <3>2, TokenOther, Zenon
    <3> QED BY <2>2, <3>3, <3>4, Zenon
  <2> QED BY <2>3, <2>4
<1>4. CASE JoinIocp
  <2>1. Tokens(queue, at, "package") /\ at \in [Sessions -> Stages]
        /\ queue \in Seq(Packages)
    BY DEF ServerInv, Queues, Types
  <2>2. PICK s \in Sessions : s = joining /\ at[s] = "new"
    BY <1>4 DEF JoinIocp, ServerInv, Listening, Threads
  <2>3. at[s] # "package"
    BY <2>2
  <2>4. CASE stopped
    <3>1. at' = [at EXCEPT ![s] = "rest"] /\ queue' = queue
      BY <1>4, <2>2, <2>4 DEF JoinIocp, Queued
    <3> QED BY <2>1, <2>3, <3>1, Elsewhere, Zenon
  <2>5. CASE ~stopped
    <3>1. PICK st \in Statuses : queue' = Append(queue, Pack(st, s))
      BY <1>4, <2>2, <2>5 DEF JoinIocp, Queued, Statuses
    <3>2. PICK e : e = Pack(st, s)
      OBVIOUS
    <3>3. e \in Packages /\ e.ses = s
      BY <3>2 DEF Pack, Packages
    <3>4. at' = [at EXCEPT ![s] = "package"]
      BY <1>4, <2>2, <2>5 DEF JoinIocp
    <3>5. queue' = Append(queue, e)
      BY <3>1, <3>2, Zenon
    <3>6. Tokens(Append(queue, e), at', "package")
      BY <2>1, <2>3, <3>3, <3>4, TokenAppend, Zenon
    <3> QED BY <3>5, <3>6, Zenon
  <2> QED BY <2>4, <2>5
<1>5. CASE JoinFails
  <2>1. Tokens(queue, at, "package") /\ at \in [Sessions -> Stages]
        /\ queue \in Seq(Packages)
    BY DEF ServerInv, Queues, Types
  <2>2. joining \in Sessions /\ at[joining] = "new"
        /\ at' = [at EXCEPT ![joining] = "deleted"] /\ queue' = queue
    BY <1>5 DEF JoinFails, ServerInv, Listening, Threads
  <2>3. at[joining] # "package"
    BY <2>2
  <2> QED BY <2>1, <2>2, <2>3, Elsewhere, Zenon
<1>6. ASSUME NEW s \in Sessions, Accept(s) PROVE Tokens(queue', at', "package")
  <2>1. Tokens(queue, at, "package") /\ at \in [Sessions -> Stages]
        /\ queue \in Seq(Packages)
    BY DEF ServerInv, Queues, Types
  <2>2. s \in Sessions /\ at[s] = "none" /\ at' = [at EXCEPT ![s] = "new"]
        /\ queue' = queue
    BY <1>6 DEF Accept, ServerInv, Listening, Threads
  <2>3. at[s] # "package"
    BY <2>2
  <2> QED BY <2>1, <2>2, <2>3, Elsewhere, Zenon
<1>7. ASSUME NEW s \in Sessions, NEW ok \in BOOLEAN, Complete(s, ok)
      PROVE  Tokens(queue', at', "package")
  <2>1. Tokens(queue, at, "package") /\ at \in [Sessions -> Stages]
        /\ queue \in Seq(Packages)
    BY DEF ServerInv, Queues, Types
  <2>2. s \in Sessions /\ at[s] = "io" /\ at' = [at EXCEPT ![s] = "packet"]
        /\ queue' = queue
    BY <1>7 DEF Complete, ServerInv, Listening, Threads
  <2>3. at[s] # "package"
    BY <2>2
  <2> QED BY <2>1, <2>2, <2>3, Elsewhere, Zenon
<1>8. ASSUME NEW w \in Workers, Get(w) PROVE Tokens(queue', at', "package")
  <2>1. CASE Head(packets) = Quit
    BY <1>8, <2>1 DEF Get, ServerInv, Queues
  <2>2. CASE Head(packets) # Quit
    <3>1. Tokens(queue, at, "package") /\ at \in [Sessions -> Stages]
      BY DEF ServerInv, Queues, Types
    <3>2. PICK s \in Sessions : s = Head(packets).ses /\ at[s] = "packet"
      BY <1>8, <2>2, Got, Zenon
    <3>3. at' = [at EXCEPT ![s] = "worker"] /\ queue' = queue
      BY <1>8, <2>2, <3>2 DEF Get
    <3>4. at[s] # "package"
      BY <3>2
    <3> QED BY <3>1, <3>3, <3>4, Elsewhere, Zenon
  <2> QED BY <2>1, <2>2
<1>9. ASSUME NEW w \in Workers, Put(w) PROVE Tokens(queue', at', "package")
  <2>1. Tokens(queue, at, "package") /\ at \in [Sessions -> Stages]
        /\ queue \in Seq(Packages)
    BY DEF ServerInv, Queues, Types
  <2>2. PICK s \in Sessions : s = worker[w].ses /\ at[s] = "worker"
    BY <1>9 DEF Put, ServerInv, Listening, Threads
  <2>3. at[s] # "package"
    BY <2>2
  <2>4. CASE stopped
    <3>1. at' = [at EXCEPT ![s] = "rest"] /\ queue' = queue
      BY <1>9, <2>2, <2>4 DEF Put, Queued
    <3> QED BY <2>1, <2>3, <3>1, Elsewhere, Zenon
  <2>5. CASE ~stopped
    <3>1. PICK st \in Statuses : queue' = Append(queue, Pack(st, s))
      BY <1>9, <2>2, <2>5 DEF Put, Queued, Statuses
    <3>2. PICK e : e = Pack(st, s)
      OBVIOUS
    <3>3. e \in Packages /\ e.ses = s
      BY <3>2 DEF Pack, Packages
    <3>4. at' = [at EXCEPT ![s] = "package"]
      BY <1>9, <2>2, <2>5 DEF Put
    <3>5. queue' = Append(queue, e)
      BY <3>1, <3>2, Zenon
    <3>6. Tokens(Append(queue, e), at', "package")
      BY <2>1, <2>3, <3>3, <3>4, TokenAppend, Zenon
    <3> QED BY <3>5, <3>6, Zenon
  <2> QED BY <2>4, <2>5
<1> QED
  BY <1>1, <1>2, <1>3, <1>4, <1>5, <1>6, <1>7, <1>8, <1>9, WhoMoves, WhoQueues, Zenon

\* The packets of the sessions.
LEMMA PacketTokensStep ==
  ASSUME ServerInv, [Next]_vars
  PROVE  Tokens(packets', at', "packet")
<1> USE DEF Main, MainTo, Listener, Worker, list, tokens, ports, queues, accepts
<1>1. CASE at' = at /\ packets' = packets
  BY <1>1 DEF ServerInv, Queues
<1>2. CASE Tick
  <2>1. Tokens(packets, at, "packet") /\ at \in [Sessions -> Stages]
        /\ packets \in Seq(Packets)
    BY DEF ServerInv, Queues, Types
  <2>2. PICK s \in Sessions : s = Head(queue).ses /\ at[s] = "package"
    BY <1>2, Ticked, Zenon
  <2>3. PICK x : at' = [at EXCEPT ![s] = x]
    BY <1>2, <2>2 DEF Tick
  <2>4. at[s] # "packet" /\ packets' = packets
    BY <1>2, <2>2 DEF Tick
  <2> QED BY <2>1, <2>3, <2>4, Elsewhere, Zenon
<1>3. CASE Post
  <2>1. Tokens(packets, at, "packet") /\ at \in [Sessions -> Stages]
        /\ packets \in Seq(Packets)
    BY DEF ServerInv, Queues, Types
  <2>2. at' = at
    BY <1>3 DEF Post
  <2>3. CASE packets' = packets
    BY <2>1, <2>2, <2>3
  <2>4. CASE packets' # packets
    <3>1. PICK n \in 0..Cardinality(Workers) : packets' = packets \o [i \in 1..n |-> Quit]
      BY <1>3, <2>4, Zenon DEF Post
    <3>2. Quit \in Packets /\ n \in Nat /\ Quit.ses \notin Sessions
      BY ServerAssumption, FS_CardinalityType DEF Quit, Packet, Packets
    <3>3. PICK r : r = [i \in 1..n |-> Quit]
      OBVIOUS
    <3>4. r \in Seq(Packets) /\ \A i \in DOMAIN r : r[i].ses \notin Sessions
      BY <3>2, <3>3
    <3>5. Tokens(packets \o r, at, "packet")
      BY <2>1, <3>4, TokenConcat, Zenon
    <3> QED BY <2>2, <3>1, <3>3, <3>5, Zenon
  <2> QED BY <2>3, <2>4
<1>4. CASE Wait
  <2>1. packets' = <<>>
    BY <1>4 DEF Wait
  <2>2. DOMAIN packets' = {}
    BY <2>1
  <2> QED BY <2>2 DEF Tokens
<1>5. CASE JoinIocp
  <2>1. Tokens(packets, at, "packet") /\ at \in [Sessions -> Stages]
        /\ packets \in Seq(Packets)
    BY DEF ServerInv, Queues, Types
  <2>2. PICK s \in Sessions : s = joining /\ at[s] = "new"
    BY <1>5 DEF JoinIocp, ServerInv, Listening, Threads
  <2>3. PICK x : at' = [at EXCEPT ![s] = x]
    BY <1>5, <2>2 DEF JoinIocp
  <2>4. at[s] # "packet" /\ packets' = packets
    BY <1>5, <2>2 DEF JoinIocp
  <2> QED BY <2>1, <2>3, <2>4, Elsewhere, Zenon
<1>6. CASE JoinFails
  <2>1. Tokens(packets, at, "packet") /\ at \in [Sessions -> Stages]
        /\ packets \in Seq(Packets)
    BY DEF ServerInv, Queues, Types
  <2>2. joining \in Sessions /\ at[joining] = "new"
        /\ at' = [at EXCEPT ![joining] = "deleted"] /\ packets' = packets
    BY <1>6 DEF JoinFails, ServerInv, Listening, Threads
  <2>3. at[joining] # "packet"
    BY <2>2
  <2> QED BY <2>1, <2>2, <2>3, Elsewhere, Zenon
<1>7. ASSUME NEW s \in Sessions, Accept(s) PROVE Tokens(packets', at', "packet")
  <2>1. Tokens(packets, at, "packet") /\ at \in [Sessions -> Stages]
        /\ packets \in Seq(Packets)
    BY DEF ServerInv, Queues, Types
  <2>2. s \in Sessions /\ at[s] = "none" /\ at' = [at EXCEPT ![s] = "new"]
        /\ packets' = packets
    BY <1>7 DEF Accept, ServerInv, Listening, Threads
  <2>3. at[s] # "packet"
    BY <2>2
  <2> QED BY <2>1, <2>2, <2>3, Elsewhere, Zenon
<1>8. ASSUME NEW s \in Sessions, NEW ok \in BOOLEAN, Complete(s, ok)
      PROVE  Tokens(packets', at', "packet")
  <2>1. Tokens(packets, at, "packet") /\ at \in [Sessions -> Stages]
        /\ packets \in Seq(Packets)
    BY DEF ServerInv, Queues, Types
  <2>2. at[s] # "packet" /\ at' = [at EXCEPT ![s] = "packet"]
    BY <1>8 DEF Complete
  <2>3. PICK e : e = Packet(s, ok)
    OBVIOUS
  <2>4. e \in Packets /\ e.ses = s
    BY <1>8, <2>3 DEF Packet, Packets
  <2>5. packets' = Append(packets, e)
    BY <1>8, <2>3 DEF Complete
  <2>6. Tokens(Append(packets, e), at', "packet")
    BY <1>8, <2>1, <2>2, <2>4, TokenAppend, Zenon
  <2> QED BY <2>5, <2>6, Zenon
<1>9. ASSUME NEW w \in Workers, Get(w) PROVE Tokens(packets', at', "packet")
  <2>1. Tokens(packets, at, "packet") /\ at \in [Sessions -> Stages]
        /\ packets \in Seq(Packets)
    BY DEF ServerInv, Queues, Types
  <2>2. packets # <<>> /\ packets' = Tail(packets)
    BY <1>9 DEF Get
  <2>3. CASE Head(packets) = Quit
    <3>1. at' = at
      BY <1>9, <2>3 DEF Get
    <3>2. Tokens(Tail(packets), at, "packet")
      BY <2>1, <2>2, TailTokens, Zenon
    <3> QED BY <2>2, <3>1, <3>2, Zenon
  <2>4. CASE Head(packets) # Quit
    <3>1. PICK s \in Sessions : s = Head(packets).ses
      BY <1>9, <2>4, Got, Zenon
    <3>2. at' = [at EXCEPT ![s] = "worker"]
      BY <1>9, <2>4, <3>1 DEF Get
    <3>3. Tokens(Tail(packets), at', "packet")
      BY <2>1, <2>2, <3>1, <3>2, TokenTail, Zenon
    <3> QED BY <2>2, <3>3, Zenon
  <2> QED BY <2>3, <2>4
<1>10. ASSUME NEW w \in Workers, Put(w) PROVE Tokens(packets', at', "packet")
  <2>1. Tokens(packets, at, "packet") /\ at \in [Sessions -> Stages]
        /\ packets \in Seq(Packets)
    BY DEF ServerInv, Queues, Types
  <2>2. PICK s \in Sessions : s = worker[w].ses /\ at[s] = "worker"
    BY <1>10 DEF Put, ServerInv, Listening, Threads
  <2>3. PICK x : at' = [at EXCEPT ![s] = x]
    BY <1>10, <2>2 DEF Put
  <2>4. at[s] # "packet" /\ packets' = packets
    BY <1>10, <2>2 DEF Put
  <2> QED BY <2>1, <2>3, <2>4, Elsewhere, Zenon
<1> QED
  BY <1>1, <1>2, <1>3, <1>4, <1>5, <1>6, <1>7, <1>8, <1>9, <1>10, WhoMoves, WhoPosts,
     Zenon

\* What can be found in a queue after get().
LEMMA TailAt ==
  ASSUME NEW S, NEW q \in Seq(S), q # <<>>
  PROVE  \A i \in DOMAIN Tail(q) : \E j \in DOMAIN q : q[j] = Tail(q)[i]
<1>1. \A i \in DOMAIN Tail(q) : i + 1 \in DOMAIN q /\ q[i + 1] = Tail(q)[i]
  OBVIOUS
<1> QED BY <1>1, Zenon

\* The packages of the sessions, and of PostQuit.
Entries == \A i \in DOMAIN queue :
             /\ queue[i].ses = None <=> queue[i].status = "quit"
             /\ queue[i].status = "quit" => main \in Posted

LEMMA QueueEntriesStep ==
  ASSUME ServerInv, [Next]_vars
  PROVE  Entries'
<1> USE DEF Main, MainTo, Listener, Worker, list, tokens, ports, queues, accepts
<1>1. CASE UNCHANGED vars
  BY <1>1 DEF Entries, vars, ServerInv, Queues, Posted
<1>2. CASE Open
  BY <1>2 DEF Entries, Open, ServerInv, Queues, Posted
<1>3. CASE OpenFails
  BY <1>3 DEF Entries, OpenFails, ServerInv, Queues, Posted
<1>4. CASE Listen
  BY <1>4 DEF Entries, Listen, ServerInv, Queues, Posted
<1>5. CASE Tick
  <2>1. queue \in Seq(Packages) /\ queue # <<>> /\ queue' = Tail(queue) /\ main = "loop"
    BY <1>5 DEF Entries, Tick, ServerInv, Types
  <2>2. \A i \in DOMAIN queue' : \E j \in DOMAIN queue : queue[j] = queue'[i]
    BY <2>1, TailAt, Zenon
  <2> QED BY <2>1, <2>2 DEF Entries, ServerInv, Queues, Posted
<1>6. CASE QueueQuit
  BY <1>6 DEF Entries, QueueQuit, ServerInv, Queues, Posted
<1>7. CASE CloseSockets
  BY <1>7 DEF Entries, CloseSockets, ServerInv, Queues, Posted
<1>8. CASE Post
  BY <1>8 DEF Entries, Post, ServerInv, Queues, Posted
<1>9. CASE Wait
  BY <1>9 DEF Entries, Wait, ServerInv, Queues, Posted
<1>10. CASE Clear
  BY <1>10 DEF Entries, Clear, ServerInv, Queues, Posted
<1>11. CASE CloseSocket
  BY <1>11 DEF Entries, CloseSocket, ServerInv, Queues, Posted
<1>12. CASE Stop
  BY <1>12 DEF Entries, Stop, ServerInv, Queues, Posted
<1>13. CASE WaitListener
  BY <1>13 DEF Entries, WaitListener, ServerInv, Queues, Posted
<1>14. CASE PostQuit
  <2>0. main' = "release" /\ queue \in Seq(Packages)
    BY <1>14 DEF Entries, PostQuit, ServerInv, Types
  <2>1. CASE stopped
    BY <1>14, <2>0, <2>1 DEF Entries, PostQuit, Queued, ServerInv, Queues, Posted
  <2>2. CASE ~stopped
    <3>1. PICK e : e = Pack("quit", None)
      OBVIOUS
    <3>2. e \in Packages /\ e.ses = None /\ e.status = "quit"
      BY <3>1 DEF Entries, Pack, Packages, Statuses
    <3>3. queue' = Append(queue, e)
      BY <1>14, <2>2, <3>1 DEF Entries, PostQuit, Queued
    <3>4. \A i \in DOMAIN queue' : queue'[i] = e \/ \E j \in DOMAIN queue : queue[j] = queue'[i]
      BY ONLY <2>0, <3>2, <3>3
    <3> QED BY <2>0, <3>2, <3>4 DEF Entries, ServerInv, Queues, Posted
  <2> QED BY <2>1, <2>2
<1>15. CASE Release
  BY <1>15 DEF Entries, Release, ServerInv, Queues, Posted
<1>16. CASE Test
  BY <1>16 DEF Entries, Test, ServerInv, Queues, Posted
<1>17. CASE AcceptFails
  BY <1>17 DEF Entries, AcceptFails, ServerInv, Queues, Posted
<1>18. CASE JoinIocp
  <2>1. queue \in Seq(Packages) /\ joining \in Sessions
    BY <1>18 DEF Entries, JoinIocp, ServerInv, Types, Listening, Threads
  <2>2. CASE stopped
    BY <1>18, <2>2 DEF Entries, JoinIocp, Queued, ServerInv, Queues
  <2>3. CASE ~stopped
    <3>1. PICK st \in {"connected", "finished", "disconnected"} :
            queue' = Append(queue, Pack(st, joining))
      BY <1>18, <2>3 DEF Entries, JoinIocp, Queued
    <3>2. PICK e : e = Pack(st, joining)
      OBVIOUS
    <3>3. e \in Packages /\ e.ses # None /\ e.status # "quit"
      BY <2>1, <3>1, <3>2, ServerAssumption DEF Entries, Pack, Packages, Statuses
    <3>4. queue' = Append(queue, e) /\ main' = main
      BY <1>18, <3>1, <3>2 DEF Entries, JoinIocp
    <3>5. \A i \in DOMAIN queue' : queue'[i] = e \/ \E j \in DOMAIN queue : queue[j] = queue'[i]
      BY ONLY <2>1, <3>3, <3>4
    <3> QED BY <3>3, <3>4, <3>5 DEF Entries, ServerInv, Queues
  <2> QED BY <2>2, <2>3
<1>19. CASE JoinFails
  BY <1>19 DEF Entries, JoinFails, ServerInv, Queues, Posted
<1>20. CASE Push
  BY <1>20 DEF Entries, Push, ServerInv, Queues, Posted
<1>21. ASSUME NEW s \in Sessions, Accept(s)
       PROVE  Entries'
  BY <1>21 DEF Entries, Accept, ServerInv, Queues, Posted
<1>22. ASSUME NEW s \in Sessions, NEW ok \in BOOLEAN, Complete(s, ok)
       PROVE  Entries'
  BY <1>22 DEF Entries, Complete, ServerInv, Queues, Posted
<1>23. ASSUME NEW w \in Workers, Get(w)
       PROVE  Entries'
  BY <1>23 DEF Entries, Get, ServerInv, Queues, Posted
<1>24. ASSUME NEW w \in Workers, Put(w)
       PROVE  Entries'
  <2>1. queue \in Seq(Packages) /\ worker[w].ses \in Sessions
    BY <1>24 DEF Entries, Put, ServerInv, Types, Listening, Threads
  <2>2. CASE stopped
    BY <1>24, <2>2 DEF Entries, Put, Queued, ServerInv, Queues
  <2>3. CASE ~stopped
    <3>1. PICK st \in {"connected", "finished", "disconnected"} :
            queue' = Append(queue, Pack(st, worker[w].ses))
      BY <1>24, <2>3 DEF Entries, Put, Queued
    <3>2. PICK e : e = Pack(st, worker[w].ses)
      OBVIOUS
    <3>3. e \in Packages /\ e.ses # None /\ e.status # "quit"
      BY <2>1, <3>1, <3>2, ServerAssumption DEF Entries, Pack, Packages, Statuses
    <3>4. queue' = Append(queue, e) /\ main' = main
      BY <1>24, <3>1, <3>2 DEF Entries, Put
    <3>5. \A i \in DOMAIN queue' : queue'[i] = e \/ \E j \in DOMAIN queue : queue[j] = queue'[i]
      BY ONLY <2>1, <3>3, <3>4
    <3> QED BY <3>3, <3>4, <3>5 DEF Entries, ServerInv, Queues
  <2> QED BY <2>2, <2>3
<1>25. ASSUME NEW w \in Workers, Remove(w)
       PROVE  Entries'
  BY <1>25 DEF Entries, Remove, ServerInv, Queues, Posted
<1> QED
  BY <1>1, <1>2, <1>3, <1>4, <1>5, <1>6, <1>7, <1>8, <1>9, <1>10, <1>11, <1>12,
     <1>13, <1>14, <1>15, <1>16, <1>17, <1>18, <1>19, <1>20, <1>21, <1>22, <1>23,
     <1>24, <1>25
     DEF Entries, Next, MainStep, ListenerStep, WorkerStep

\* The packets.
LEMMA PacketEntriesStep ==
  ASSUME ServerInv, [Next]_vars
  PROVE  \A i \in DOMAIN packets' : packets'[i].ses = None => packets'[i] = Quit
<1> USE DEF Main, MainTo, Listener, Worker, list, tokens, ports, queues, accepts
<1>1. CASE packets' = packets
  BY <1>1 DEF ServerInv, Queues
<1>2. CASE Post
  <2>1. CASE packets' = packets
    BY <2>1 DEF ServerInv, Queues
  <2>2. CASE packets' # packets
    <3>1. PICK n \in 0..Cardinality(Workers) : packets' = packets \o [i \in 1..n |-> Quit]
      BY <1>2, <2>2, Zenon DEF Post
    <3>2. n \in Nat /\ packets \in Seq(Packets)
      BY ServerAssumption, FS_CardinalityType DEF ServerInv, Types
    <3>3. PICK r : r = [i \in 1..n |-> Quit]
      OBVIOUS
    <3>4. Quit \in Packets
      BY DEF Quit, Packet, Packets
    <3>5. r \in Seq(Packets) /\ DOMAIN r = 1..Len(r) /\ \A i \in DOMAIN r : r[i] = Quit
      BY <3>2, <3>3, <3>4
    <3>6. /\ packets' \in Seq(Packets) /\ Len(packets') = Len(packets) + Len(r)
          /\ \A i \in 1..Len(packets) + Len(r) :
               packets'[i] = IF i <= Len(packets) THEN packets[i] ELSE r[i - Len(packets)]
      <4>1. packets' = packets \o r
        BY <3>1, <3>3, Zenon
      <4> QED BY <3>2, <3>5, <4>1, ConcatProperties
    <3>7. DOMAIN packets' = 1..Len(packets) + Len(r) /\ DOMAIN packets = 1..Len(packets)
          /\ Len(packets) \in Nat /\ Len(r) \in Nat
      BY <3>2, <3>5, <3>6
    <3>8. ASSUME NEW i \in DOMAIN packets'
          PROVE  packets'[i] = Quit \/ (i \in DOMAIN packets /\ packets'[i] = packets[i])
      <4>1. i \in 1..Len(packets) + Len(r)
        BY <3>7, <3>8
      <4>2. CASE i <= Len(packets)
        BY ONLY <4>1, <4>2, <3>6, <3>7
      <4>3. CASE ~(i <= Len(packets))
        <5>1. i - Len(packets) \in 1..Len(r)
          BY ONLY <4>1, <4>3, <3>7
        <5> QED BY <5>1, <4>1, <4>3, <3>5, <3>6
      <4> QED BY <4>2, <4>3
    <3> QED BY <3>8 DEF ServerInv, Queues
  <2> QED BY <2>1, <2>2
<1>3. CASE Wait
  <2>1. packets' = <<>>
    BY <1>3 DEF Wait
  <2>2. DOMAIN packets' = {}
    BY <2>1
  <2> QED BY <2>2
<1>4. ASSUME NEW s \in Sessions, NEW ok \in BOOLEAN, Complete(s, ok)
      PROVE  \A i \in DOMAIN packets' : packets'[i].ses = None => packets'[i] = Quit
  <2>1. PICK e : e = Packet(s, ok)
    OBVIOUS
  <2>2. e \in Packets /\ e.ses # None /\ packets \in Seq(Packets)
    BY <1>4, <2>1, ServerAssumption DEF Packet, Packets, ServerInv, Types
  <2>3. packets' = Append(packets, e)
    BY <1>4, <2>1 DEF Complete
  <2>4. \A i \in DOMAIN packets' :
          packets'[i] = e \/ \E j \in DOMAIN packets : packets[j] = packets'[i]
    BY ONLY <2>2, <2>3
  <2> QED BY <2>2, <2>4 DEF ServerInv, Queues
<1>5. ASSUME NEW w \in Workers, Get(w)
      PROVE  \A i \in DOMAIN packets' : packets'[i].ses = None => packets'[i] = Quit
  <2>1. packets \in Seq(Packets) /\ packets # <<>> /\ packets' = Tail(packets)
    BY <1>5 DEF Get, ServerInv, Types
  <2>2. \A i \in DOMAIN packets' : \E j \in DOMAIN packets : packets[j] = packets'[i]
    BY <2>1, TailAt, Zenon
  <2> QED BY <2>2 DEF ServerInv, Queues
<1> QED
  BY <1>1, <1>2, <1>3, <1>4, <1>5, WhoPosts, Zenon

\* The queue is stopped by quit() only.
LEMMA StoppedStep ==
  ASSUME ServerInv, [Next]_vars
  PROVE  main' \in {"open", "listen", "loop", "quit"} => ~stopped'
<1> USE DEF Main, MainTo, Listener, Worker, list, tokens, ports, queues, accepts
<1>1. CASE UNCHANGED vars
  BY <1>1 DEF vars, ServerInv, Queues, Types
<1>2. CASE MainStep
  BY <1>2 DEF MainStep, Open, OpenFails, Listen, Tick, QueueQuit, CloseSockets, Post,
     Wait, Clear, CloseSocket, Stop, WaitListener, PostQuit, Release, ServerInv,
     Queues, Types
<1>3. CASE ListenerStep
  BY <1>3 DEF ListenerStep, Test, AcceptFails, JoinIocp, JoinFails, Push, ServerInv,
     Queues, Types
<1>4. ASSUME NEW s \in Sessions, Accept(s)
      PROVE  main' \in {"open", "listen", "loop", "quit"} => ~stopped'
  BY <1>4 DEF Accept, ServerInv, Queues, Types
<1>5. ASSUME NEW s \in Sessions, NEW ok \in BOOLEAN, Complete(s, ok)
      PROVE  main' \in {"open", "listen", "loop", "quit"} => ~stopped'
  BY <1>5 DEF Complete, ServerInv, Queues, Types
<1>6. ASSUME NEW w \in Workers, WorkerStep(w)
      PROVE  main' \in {"open", "listen", "loop", "quit"} => ~stopped'
  BY <1>6 DEF WorkerStep, Get, Put, Remove, ServerInv, Queues, Types
<1> QED BY <1>1, <1>2, <1>3, <1>4, <1>5, <1>6 DEF Next

LEMMA QueuesStep ==
  ASSUME ServerInv, [Next]_vars
  PROVE  Queues'
BY QueueTokensStep, PacketTokensStep, QueueEntriesStep, PacketEntriesStep, StoppedStep,
   Zenon
   DEF Queues, Entries

\* A session that has been ended stays so.
LEMMA GoneStays ==
  ASSUME ServerInv, [Next]_vars, NEW s \in Sessions, Gone(s)
  PROVE  Gone(s)'
<1> USE DEF Main, MainTo, Listener, Worker, list, tokens, ports, queues, accepts
<1>1. CASE at' = at /\ queue' = queue
  BY <1>1 DEF Gone, Waits
<1>2. CASE Tick
  <2>1. queue \in Seq(Packages) /\ queue # <<>> /\ queue' = Tail(queue)
    BY <1>2 DEF Tick, ServerInv, Types
  <2>2. /\ Waits(Tail(queue), s, Served) => Waits(queue, s, Served)
        /\ Head(queue).ses = s /\ Head(queue).status \in Served => Waits(queue, s, Served)
    BY <2>1, WaitsTail, Zenon
  <2>3. ~Waits(queue', s, Served)
    BY <2>1, <2>2, Zenon DEF Gone
  <2>4. Head(queue).ses = s => Head(queue).status = "disconnected"
    <3>1. Head(queue).status \in {"connected", "finished", "disconnected"}
      BY <1>2, Ticked
    <3> QED BY <2>2, <3>1 DEF Gone, Served
  <2>5. at'[s] \in {"package", "rest", "deleted"}
    <3>1. CASE Head(queue).ses = s
      BY <1>2, <2>4, <3>1 DEF Tick, ServerInv, Types
    <3>2. CASE Head(queue).ses # s
      <4>1. at'[s] = at[s]
        BY <1>2, <3>2 DEF Tick, ServerInv, Types
      <4> QED BY <4>1 DEF Gone
    <3> QED BY <3>1, <3>2
  <2> QED BY <2>3, <2>5, Zenon DEF Gone
<1>3. CASE PostQuit
  <2>1. at' = at /\ queue \in Seq(Packages)
    BY <1>3 DEF PostQuit, ServerInv, Types
  <2>2. CASE queue' = queue
    BY <2>1, <2>2 DEF Gone, Waits
  <2>3. CASE queue' # queue
    <3>1. PICK e : e = Pack("quit", None)
      OBVIOUS
    <3>2. e \in Packages /\ e.status \notin Served
      BY <3>1 DEF Pack, Packages, Statuses, Served
    <3>3. Waits(Append(queue, e), s, Served) <=>
            Waits(queue, s, Served) \/ (e.ses = s /\ e.status \in Served)
      BY <2>1, <3>2, WaitsAppend, Zenon
    <3>4. queue' = Append(queue, e)
      BY <1>3, <2>3, <3>1 DEF PostQuit, Queued
    <3> QED BY <2>1, <3>2, <3>3, <3>4, Zenon DEF Gone
  <2> QED BY <2>2, <2>3
<1>4. CASE JoinIocp
  <2>1. PICK t \in Sessions : t = joining /\ at[t] \notin {"package", "rest", "deleted"}
    BY <1>4 DEF JoinIocp, ServerInv, Listening, Threads
  <2>2. t # s /\ queue \in Seq(Packages)
    BY <2>1 DEF Gone, ServerInv, Types
  <2>3. at'[s] = at[s]
    BY <1>4, <2>1, <2>2 DEF JoinIocp, ServerInv, Types
  <2>4. CASE queue' = queue
    BY <2>3, <2>4 DEF Gone, Waits
  <2>5. CASE queue' # queue
    <3>1. PICK st \in Statuses : queue' = Append(queue, Pack(st, t))
      BY <1>4, <2>1, <2>5 DEF JoinIocp, Queued, Statuses
    <3>2. PICK e : e = Pack(st, t)
      OBVIOUS
    <3>3. e \in Packages /\ e.ses # s
      BY <2>2, <3>2 DEF Pack, Packages
    <3>4. Waits(Append(queue, e), s, Served) <=>
            Waits(queue, s, Served) \/ (e.ses = s /\ e.status \in Served)
      BY <2>2, <3>3, WaitsAppend, Zenon
    <3>5. queue' = Append(queue, e)
      BY <3>1, <3>2, Zenon
    <3>6. ~Waits(queue', s, Served)
      BY <3>3, <3>4, <3>5, Zenon DEF Gone
    <3> QED BY <2>3, <3>6, Zenon DEF Gone
  <2> QED BY <2>4, <2>5
<1>5. CASE JoinFails
  <2>1. at[joining] = "new" /\ at' = [at EXCEPT ![joining] = "deleted"] /\ queue' = queue
    BY <1>5 DEF JoinFails, ServerInv, Listening
  <2> QED BY <2>1 DEF Gone, Waits, ServerInv, Types
<1>6. ASSUME NEW c \in Sessions, Accept(c) PROVE Gone(s)'
  <2>1. at[c] = "none" /\ at' = [at EXCEPT ![c] = "new"] /\ queue' = queue
    BY <1>6 DEF Accept
  <2> QED BY <2>1 DEF Gone, Waits, ServerInv, Types
<1>7. ASSUME NEW c \in Sessions, NEW ok \in BOOLEAN, Complete(c, ok) PROVE Gone(s)'
  <2>1. at[c] = "io" /\ at' = [at EXCEPT ![c] = "packet"] /\ queue' = queue
    BY <1>7 DEF Complete
  <2> QED BY <2>1 DEF Gone, Waits, ServerInv, Types
<1>8. ASSUME NEW w \in Workers, Get(w) PROVE Gone(s)'
  <2>1. CASE Head(packets) = Quit
    BY <1>8, <2>1 DEF Get, Gone, Waits
  <2>2. CASE Head(packets) # Quit
    <3>1. at[Head(packets).ses] = "packet"
      BY <1>8, <2>2, Got
    <3>2. at' = [at EXCEPT ![Head(packets).ses] = "worker"] /\ queue' = queue
      BY <1>8, <2>2 DEF Get
    <3> QED BY <3>1, <3>2 DEF Gone, Waits, ServerInv, Types
  <2> QED BY <2>1, <2>2
<1>9. ASSUME NEW w \in Workers, Put(w) PROVE Gone(s)'
  <2>1. PICK t \in Sessions : t = worker[w].ses
        /\ at[t] \notin {"package", "rest", "deleted"}
    BY <1>9 DEF Put, ServerInv, Listening, Threads
  <2>2. t # s /\ queue \in Seq(Packages)
    BY <2>1 DEF Gone, ServerInv, Types
  <2>3. at'[s] = at[s]
    BY <1>9, <2>1, <2>2 DEF Put, ServerInv, Types
  <2>4. CASE queue' = queue
    BY <2>3, <2>4 DEF Gone, Waits
  <2>5. CASE queue' # queue
    <3>1. PICK st \in Statuses : queue' = Append(queue, Pack(st, t))
      BY <1>9, <2>1, <2>5 DEF Put, Queued, Statuses
    <3>2. PICK e : e = Pack(st, t)
      OBVIOUS
    <3>3. e \in Packages /\ e.ses # s
      BY <2>2, <3>2 DEF Pack, Packages
    <3>4. Waits(Append(queue, e), s, Served) <=>
            Waits(queue, s, Served) \/ (e.ses = s /\ e.status \in Served)
      BY <2>2, <3>3, WaitsAppend, Zenon
    <3>5. queue' = Append(queue, e)
      BY <3>1, <3>2, Zenon
    <3>6. ~Waits(queue', s, Served)
      BY <3>3, <3>4, <3>5, Zenon DEF Gone
    <3> QED BY <2>3, <3>6, Zenon DEF Gone
  <2> QED BY <2>4, <2>5
<1> QED
  BY <1>1, <1>2, <1>3, <1>4, <1>5, <1>6, <1>7, <1>8, <1>9, WhoMoves, WhoQueues, Zenon

Holds(w) == worker[w].at \in {"put", "remove"}
HoldsItsOwn ==
  \A u, v \in Workers :
    /\ Holds(u) => worker[u].ses \in Sessions
    /\ Holds(u) /\ Holds(v) /\ worker[u].ses = worker[v].ses => u = v
Serving  == \A w \in Workers : worker[w].at = "put" => at[worker[w].ses] = "worker"
Removing == \A w \in Workers : worker[w].at = "remove" => Gone(worker[w].ses)

LEMMA ThreadsParts == Threads <=> HoldsItsOwn /\ Serving /\ Removing
<1>1. Threads => HoldsItsOwn /\ Serving /\ Removing
  BY Zenon DEF Threads, HoldsItsOwn, Serving, Removing, Holds
<1>2. HoldsItsOwn => \A w \in Workers : worker[w].at \in {"put", "remove"} =>
                       worker[w].ses \in Sessions
  BY Zenon DEF HoldsItsOwn, Holds
<1>3. HoldsItsOwn => \A w, v \in Workers :
        worker[w].at \in {"put", "remove"} /\ worker[v].at \in {"put", "remove"} =>
          (worker[w].ses = worker[v].ses => w = v)
  BY Zenon DEF HoldsItsOwn, Holds
<1> QED BY <1>1, <1>2, <1>3, Zenon DEF Threads, Serving, Removing

\* No two threads have the same session.
LEMMA HoldsItsOwnStep ==
  ASSUME ServerInv, [Next]_vars
  PROVE  HoldsItsOwn'
<1> USE DEF Main, MainTo, Listener, Worker, list, tokens, ports, queues, accepts
<1>1. CASE worker' = worker
  BY <1>1, ThreadsParts DEF HoldsItsOwn, Holds, ServerInv
<1>2. CASE Open
  <2>1. \A v \in Workers : worker'[v].at = "get"
    BY <1>2 DEF Open, Free
  <2> QED BY <2>1 DEF HoldsItsOwn, Holds
<1>3. ASSUME NEW w \in Workers, Get(w) PROVE HoldsItsOwn'
  <2>0. worker \in [Workers -> [at : {"get", "put", "remove", "ended"},
                                ses : Sessions \cup {None}, ok : BOOLEAN]]
    BY DEF ServerInv, Types
  <2>1. CASE Head(packets) = Quit
    <3>1. worker' = [worker EXCEPT ![w].at = "ended"]
      BY <1>3, <2>1 DEF Get
    <3> QED BY <2>0, <3>1, ThreadsParts DEF HoldsItsOwn, Holds, ServerInv
  <2>2. CASE Head(packets) # Quit
    <3>1. PICK s \in Sessions : s = Head(packets).ses /\ at[s] = "packet"
      BY <1>3, <2>2, Got, Zenon
    <3>2. PICK b : worker' = [worker EXCEPT ![w] = [at |-> "put", ses |-> s, ok |-> b]]
      BY <1>3, <2>2, <3>1 DEF Get
    <3>3. ASSUME NEW v \in Workers, v # w, Holds(v) PROVE worker[v].ses # s
      <4>1. at[worker[v].ses] # "packet"
        BY <3>3 DEF Holds, ServerInv, Threads, Gone
      <4> QED BY <4>1, <3>1
    <3>4. /\ worker'[w].ses = s
          /\ \A v \in Workers : v # w => worker'[v] = worker[v]
      BY <2>0, <3>2
    <3>5. HoldsItsOwn
      BY ThreadsParts DEF ServerInv
    <3>6. \A v \in Workers : Holds(v)' => (v = w /\ worker'[v].ses = s) \/
            (v # w /\ Holds(v) /\ worker'[v].ses = worker[v].ses /\ worker[v].ses # s)
      BY <3>3, <3>4, Zenon DEF Holds
    <3>7. ASSUME NEW u \in Workers, NEW v \in Workers
          PROVE  /\ Holds(u)' => worker'[u].ses \in Sessions
                 /\ Holds(u)' /\ Holds(v)' /\ worker'[u].ses = worker'[v].ses => u = v
      <4>1. Holds(u)' => worker'[u].ses \in Sessions
        BY <3>1, <3>5, <3>6, Zenon DEF HoldsItsOwn
      <4>2. ASSUME Holds(u)', Holds(v)', worker'[u].ses = worker'[v].ses PROVE u = v
        BY <3>5, <3>6, <4>2, Zenon DEF HoldsItsOwn
      <4> QED BY <4>1, <4>2
    <3> QED BY <3>7, Zenon DEF HoldsItsOwn
  <2> QED BY <2>1, <2>2
<1>4. ASSUME NEW w \in Workers, Put(w) PROVE HoldsItsOwn'
  <2>1. worker \in [Workers -> [at : {"get", "put", "remove", "ended"},
                                ses : Sessions \cup {None}, ok : BOOLEAN]]
    BY DEF ServerInv, Types
  <2>2. PICK x \in {"get", "remove"} : worker' = [worker EXCEPT ![w].at = x]
    BY <1>4 DEF Put
  <2>3. /\ \A v \in Workers : worker'[v].ses = worker[v].ses
        /\ \A v \in Workers : v # w => worker'[v].at = worker[v].at
    BY <2>1, <2>2
  <2>4. Holds(w)
    BY <1>4 DEF Put, Holds
  <2>5. HoldsItsOwn
    BY ThreadsParts DEF ServerInv
  <2> QED BY <2>3, <2>4, <2>5, Zenon DEF HoldsItsOwn, Holds
<1>5. ASSUME NEW w \in Workers, Remove(w) PROVE HoldsItsOwn'
  <2>1. worker \in [Workers -> [at : {"get", "put", "remove", "ended"},
                                ses : Sessions \cup {None}, ok : BOOLEAN]]
    BY DEF ServerInv, Types
  <2>2. worker' = [worker EXCEPT ![w].at = "get"]
    BY <1>5 DEF Remove
  <2> QED BY <2>1, <2>2, ThreadsParts DEF HoldsItsOwn, Holds, ServerInv
<1> QED
  BY <1>1, <1>2, <1>3, <1>4, <1>5, WhoWorks, Zenon

\* A thread that is about to put has the session's token.
LEMMA ServingStep ==
  ASSUME ServerInv, [Next]_vars
  PROVE  Serving'
<1> USE DEF Main, MainTo, Listener, Worker, list, tokens, ports, queues, accepts
<1>1. CASE at' = at /\ worker' = worker
  BY <1>1, ThreadsParts DEF Serving, ServerInv
<1>2. CASE Open
  <2>1. \A v \in Workers : worker'[v].at = "get"
    BY <1>2 DEF Open, Free
  <2> QED BY <2>1 DEF Serving
<1>3. CASE Tick
  <2>1. PICK t \in Sessions : t = Head(queue).ses /\ at[t] = "package"
    BY <1>3, Ticked DEF Tick, ServerInv, Listening
  <2>2. worker' = worker /\ \A c \in Sessions : c # t => at'[c] = at[c]
    BY <1>3, <2>1 DEF Tick, ServerInv, Types
  <2>3. \A w \in Workers : worker[w].at = "put" =>
          worker[w].ses \in Sessions /\ at[worker[w].ses] = "worker"
    BY DEF ServerInv, Threads
  <2> QED BY <2>1, <2>2, <2>3 DEF Serving
<1>4. CASE JoinIocp
  <2>1. PICK t \in Sessions : t = joining /\ at[t] = "new"
    BY <1>4 DEF JoinIocp, ServerInv, Listening
  <2>2. worker' = worker /\ \A c \in Sessions : c # t => at'[c] = at[c]
    BY <1>4, <2>1 DEF JoinIocp, ServerInv, Types
  <2>3. \A w \in Workers : worker[w].at = "put" =>
          worker[w].ses \in Sessions /\ at[worker[w].ses] = "worker"
    BY DEF ServerInv, Threads
  <2> QED BY <2>1, <2>2, <2>3 DEF Serving
<1>5. CASE JoinFails
  <2>1. PICK t \in Sessions : t = joining /\ at[t] = "new"
    BY <1>5 DEF JoinFails, ServerInv, Listening
  <2>2. worker' = worker /\ \A c \in Sessions : c # t => at'[c] = at[c]
    BY <1>5, <2>1 DEF JoinFails, ServerInv, Types
  <2>3. \A w \in Workers : worker[w].at = "put" =>
          worker[w].ses \in Sessions /\ at[worker[w].ses] = "worker"
    BY DEF ServerInv, Threads
  <2> QED BY <2>1, <2>2, <2>3 DEF Serving
<1>6. ASSUME NEW s \in Sessions, Accept(s) PROVE Serving'
  <2>1. PICK t \in Sessions : t = s /\ at[t] = "none"
    BY <1>6 DEF Accept, ServerInv, Listening
  <2>2. worker' = worker /\ \A c \in Sessions : c # t => at'[c] = at[c]
    BY <1>6, <2>1 DEF Accept, ServerInv, Types
  <2>3. \A w \in Workers : worker[w].at = "put" =>
          worker[w].ses \in Sessions /\ at[worker[w].ses] = "worker"
    BY DEF ServerInv, Threads
  <2> QED BY <2>1, <2>2, <2>3 DEF Serving
<1>7. ASSUME NEW s \in Sessions, NEW ok \in BOOLEAN, Complete(s, ok) PROVE Serving'
  <2>1. PICK t \in Sessions : t = s /\ at[t] = "io"
    BY <1>7 DEF Complete, ServerInv, Listening
  <2>2. worker' = worker /\ \A c \in Sessions : c # t => at'[c] = at[c]
    BY <1>7, <2>1 DEF Complete, ServerInv, Types
  <2>3. \A w \in Workers : worker[w].at = "put" =>
          worker[w].ses \in Sessions /\ at[worker[w].ses] = "worker"
    BY DEF ServerInv, Threads
  <2> QED BY <2>1, <2>2, <2>3 DEF Serving
<1>8. ASSUME NEW w \in Workers, Get(w) PROVE Serving'
  <2>0. worker \in [Workers -> [at : {"get", "put", "remove", "ended"},
                                ses : Sessions \cup {None}, ok : BOOLEAN]]
    BY DEF ServerInv, Types
  <2>1. \A v \in Workers : worker[v].at = "put" =>
          worker[v].ses \in Sessions /\ at[worker[v].ses] = "worker"
    BY DEF ServerInv, Threads
  <2>2. CASE Head(packets) = Quit
    <3>1. worker' = [worker EXCEPT ![w].at = "ended"] /\ at' = at
      BY <1>8, <2>2 DEF Get
    <3> QED BY <2>0, <2>1, <3>1 DEF Serving
  <2>3. CASE Head(packets) # Quit
    <3>1. PICK s \in Sessions : s = Head(packets).ses
      BY <1>8, <2>3, Got, Zenon
    <3>2. PICK b : worker' = [worker EXCEPT ![w] = [at |-> "put", ses |-> s, ok |-> b]]
      BY <1>8, <2>3, <3>1 DEF Get
    <3>3. at'[s] = "worker" /\ \A c \in Sessions : c # s => at'[c] = at[c]
      BY <1>8, <2>3, <3>1 DEF Get, ServerInv, Types
    <3>4. /\ worker'[w].ses = s
          /\ \A v \in Workers : v # w => worker'[v] = worker[v]
      BY <2>0, <3>2
    <3> QED BY <2>1, <3>3, <3>4, ZenonT(30) DEF Serving
  <2> QED BY <2>2, <2>3
<1>9. ASSUME NEW w \in Workers, Put(w) PROVE Serving'
  <2>1. worker \in [Workers -> [at : {"get", "put", "remove", "ended"},
                                ses : Sessions \cup {None}, ok : BOOLEAN]]
        /\ HoldsItsOwn /\ Serving
    BY ThreadsParts DEF ServerInv, Types
  <2>2. PICK x \in {"get", "remove"} : worker' = [worker EXCEPT ![w].at = x]
    BY <1>9 DEF Put
  <2>3. /\ worker'[w].at # "put"
        /\ \A v \in Workers : v # w => worker'[v] = worker[v]
    BY <2>1, <2>2
  <2>4. PICK s \in Sessions : s = worker[w].ses /\ Holds(w)
    BY <1>9, <2>1 DEF Put, HoldsItsOwn, Holds
  <2>5. \A c \in Sessions : c # s => at'[c] = at[c]
    BY <1>9, <2>4 DEF Put, ServerInv, Types
  <2>6. \A v \in Workers : v # w /\ worker[v].at = "put" =>
          worker[v].ses \in Sessions /\ worker[v].ses # s
    BY <2>1, <2>4 DEF HoldsItsOwn, Holds
  <2>7. ASSUME NEW v \in Workers, worker'[v].at = "put"
        PROVE  at'[worker'[v].ses] = "worker"
    <3>1. v # w /\ worker'[v] = worker[v]
      BY <2>3, <2>7
    <3>2. worker[v].at = "put"
      BY <2>7, <3>1
    <3>3. at'[worker[v].ses] = at[worker[v].ses]
      BY <2>5, <2>6, <3>1, <3>2, Zenon
    <3>4. at[worker[v].ses] = "worker"
      BY <2>1, <3>2, Zenon DEF Serving
    <3> QED BY <3>1, <3>3, <3>4
  <2> QED BY <2>7, Zenon DEF Serving
<1>10. ASSUME NEW w \in Workers, Remove(w) PROVE Serving'
  <2>1. worker \in [Workers -> [at : {"get", "put", "remove", "ended"},
                                ses : Sessions \cup {None}, ok : BOOLEAN]]
        /\ Serving
    BY ThreadsParts DEF ServerInv, Types
  <2>2. worker' = [worker EXCEPT ![w].at = "get"] /\ at' = at
    BY <1>10 DEF Remove
  <2> QED BY <2>1, <2>2 DEF Serving
<1> QED
  BY <1>1, <1>2, <1>3, <1>4, <1>5, <1>6, <1>7, <1>8, <1>9, <1>10, WhoMoves, WhoWorks,
     Zenon

\* A thread that is about to remove a session is the last to have it.
LEMMA RemovingStep ==
  ASSUME ServerInv, [Next]_vars
  PROVE  Removing'
<1> USE DEF Main, MainTo, Listener, Worker, list, tokens, ports, queues, accepts
<1>0. /\ \A s \in Sessions : Gone(s) => Gone(s)'
      /\ \A v \in Workers : worker[v].at = "remove" =>
           worker[v].ses \in Sessions /\ Gone(worker[v].ses)
  <2>1. \A s \in Sessions : Gone(s) => Gone(s)'
    BY GoneStays, Zenon
  <2> QED BY <2>1 DEF ServerInv, Threads
<1>a. ASSUME \A v \in Workers : worker'[v].at = "remove" =>
               worker[v].at = "remove" /\ worker'[v].ses = worker[v].ses
      PROVE  Removing'
  <2> SUFFICES ASSUME NEW v \in Workers, worker'[v].at = "remove"
               PROVE  Gone(worker[v].ses)'
    BY DEF Removing
  <2>1. PICK s \in Sessions : s = worker[v].ses /\ s = worker'[v].ses /\ Gone(s)'
    BY <1>0, <1>a
  <2> QED BY <2>1
<1>1. CASE worker' = worker
  BY <1>1, <1>a
<1>2. CASE Open
  <2>1. \A v \in Workers : worker'[v].at = "get"
    BY <1>2 DEF Open, Free
  <2> QED BY <2>1 DEF Removing
<1>3. ASSUME NEW w \in Workers, Get(w) PROVE Removing'
  <2>1. worker \in [Workers -> [at : {"get", "put", "remove", "ended"},
                                ses : Sessions \cup {None}, ok : BOOLEAN]]
    BY DEF ServerInv, Types
  <2>2. PICK x : worker' = [worker EXCEPT ![w] = x] /\ x.at \in {"put", "ended"}
    BY <1>3, <2>1 DEF Get
  <2>3. \A v \in Workers : worker'[v].at = "remove" =>
          worker[v].at = "remove" /\ worker'[v].ses = worker[v].ses
    BY <2>1, <2>2
  <2> QED BY <2>3, <1>a
<1>4. ASSUME NEW w \in Workers, Put(w) PROVE Removing'
  <2>1. worker \in [Workers -> [at : {"get", "put", "remove", "ended"},
                                ses : Sessions \cup {None}, ok : BOOLEAN]]
    BY DEF ServerInv, Types
  <2>2. CASE worker[w].ok
    <3>1. worker' = [worker EXCEPT ![w].at = "get"]
      BY <1>4, <2>2 DEF Put
    <3>2. \A v \in Workers : worker'[v].at = "remove" =>
            worker[v].at = "remove" /\ worker'[v].ses = worker[v].ses
      BY <2>1, <3>1
    <3> QED BY <3>2, <1>a
  <2>3. CASE ~worker[w].ok
    <3>1. worker' = [worker EXCEPT ![w].at = "remove"]
      BY <1>4, <2>3 DEF Put
    <3>2. /\ \A v \in Workers : worker'[v].ses = worker[v].ses
          /\ \A v \in Workers : v # w => worker'[v].at = worker[v].at
      BY <2>1, <3>1
    <3>3. PICK s \in Sessions : s = worker[w].ses /\ at[s] = "worker"
      BY <1>4 DEF Put, ServerInv, Threads
    <3>4. ~Waits(queue, s, Served) /\ queue \in Seq(Packages)
      <4>1. Tokens(queue, at, "package") /\ at[s] # "package"
        BY <3>3 DEF ServerInv, Queues
      <4>2. ~Waits(queue, s, Served)
        BY <4>1, WaitsToken, Zenon
      <4> QED BY <4>2 DEF ServerInv, Types
    <3>5. at'[s] \in {"package", "rest"}
      BY <1>4, <3>3 DEF Put, ServerInv, Types
    <3>6. ~Waits(queue', s, Served)
      <4>1. CASE queue' = queue
        BY <3>4, <4>1 DEF Waits
      <4>2. CASE queue' # queue
        <5>1. PICK e : e = Pack("disconnected", s)
          OBVIOUS
        <5>2. e \in Packages /\ e.status \notin Served
          BY <5>1 DEF Pack, Packages, Statuses, Served
        <5>3. Waits(Append(queue, e), s, Served) <=>
                Waits(queue, s, Served) \/ (e.ses = s /\ e.status \in Served)
          BY <3>4, <5>2, WaitsAppend, Zenon
        <5>4. queue' = Append(queue, e)
          BY <1>4, <2>3, <3>3, <4>2, <5>1 DEF Put, Queued
        <5> QED BY <3>4, <5>2, <5>3, <5>4, Zenon
      <4> QED BY <4>1, <4>2
    <3>7. Gone(s)'
      BY <3>5, <3>6 DEF Gone
    <3>8. ASSUME NEW v \in Workers, worker'[v].at = "remove"
          PROVE  Gone(worker[v].ses)'
      <4>1. CASE v = w
        <5>1. worker'[v].ses = s
          BY <3>2, <3>3, <4>1
        <5> QED BY <3>7, <5>1
      <4>2. CASE v # w
        <5>1. PICK c \in Sessions : c = worker'[v].ses /\ Gone(c)'
          BY <1>0, <3>2, <3>8, <4>2
        <5> QED BY <5>1
      <4> QED BY <4>1, <4>2
    <3> QED BY <3>8 DEF Removing
  <2> QED BY <2>2, <2>3
<1>5. ASSUME NEW w \in Workers, Remove(w) PROVE Removing'
  <2>1. worker \in [Workers -> [at : {"get", "put", "remove", "ended"},
                                ses : Sessions \cup {None}, ok : BOOLEAN]]
    BY DEF ServerInv, Types
  <2>2. worker' = [worker EXCEPT ![w].at = "get"]
    BY <1>5 DEF Remove
  <2>3. \A v \in Workers : worker'[v].at = "remove" =>
          worker[v].at = "remove" /\ worker'[v].ses = worker[v].ses
    BY <2>1, <2>2
  <2> QED BY <2>3, <1>a
<1> QED
  BY <1>1, <1>2, <1>3, <1>4, <1>5, WhoWorks, Zenon

LEMMA ThreadsStep ==
  ASSUME ServerInv, [Next]_vars
  PROVE  Threads'
<1>1. (HoldsItsOwn /\ Serving /\ Removing)'
  BY HoldsItsOwnStep, ServingStep, RemovingStep
<1>2. (Threads <=> HoldsItsOwn /\ Serving /\ Removing)'
  BY ThreadsParts, PTL
<1> QED BY <1>1, <1>2

\* A session is served from the end of session_join on.
Joined(c) == listener' = "push" /\ joining' = c

\* No other session becomes live.
LEMMA LiveStep ==
  ASSUME ServerInv, [Next]_vars, NEW c \in Sessions, Live(c)'
  PROVE  Live(c) \/ Joined(c)
<1> USE DEF Main, MainTo, Listener, Worker, list, tokens, ports, queues, accepts
<1>1. CASE at' = at /\ queue' = queue /\ worker' = worker
  BY <1>1 DEF Live, Waits
<1>2. CASE Open
  <2>1. (\A v \in Workers : worker'[v].at = "get") /\ at' = at /\ queue' = queue
    BY <1>2 DEF Open, Free
  <2> QED BY <2>1 DEF Live, Waits
<1>3. CASE Tick
  <2>1. queue \in Seq(Packages) /\ queue # <<>> /\ queue' = Tail(queue)
        /\ worker' = worker
    BY <1>3 DEF Tick, ServerInv, Types
  <2>2. /\ Waits(Tail(queue), c, Served) => Waits(queue, c, Served)
        /\ Head(queue).ses = c /\ Head(queue).status \in Served => Waits(queue, c, Served)
    BY <2>1, WaitsTail, Zenon
  <2>3. Waits(queue', c, Served) => Waits(queue, c, Served)
    BY <2>1, <2>2, Zenon
  <2>4. at'[c] \in {"io", "packet", "worker"} => at'[c] = at[c] \/ Waits(queue, c, Served)
    <3>1. CASE Head(queue).ses # c
      BY <1>3, <3>1 DEF Tick, ServerInv, Types
    <3>2. CASE Head(queue).ses = c /\ Head(queue).status \in Served
      BY <2>2, <3>2
    <3>3. CASE Head(queue).ses = c /\ Head(queue).status \notin Served
      <4>1. Head(queue).status = "disconnected"
        BY <1>3, <3>3, Ticked DEF Served
      <4> QED BY <1>3, <3>3, <4>1 DEF Tick, ServerInv, Types
    <3> QED BY <3>1, <3>2, <3>3
  <2> QED BY <2>1, <2>3, <2>4 DEF Live
<1>4. CASE PostQuit
  <2>1. at' = at /\ worker' = worker /\ queue \in Seq(Packages)
    BY <1>4 DEF PostQuit, ServerInv, Types
  <2>2. CASE queue' = queue
    BY <2>1, <2>2 DEF Live, Waits
  <2>3. CASE queue' # queue
    <3>1. PICK e : e = Pack("quit", None)
      OBVIOUS
    <3>2. e \in Packages /\ e.status \notin Served
      BY <3>1 DEF Pack, Packages, Statuses, Served
    <3>3. Waits(Append(queue, e), c, Served) <=>
            Waits(queue, c, Served) \/ (e.ses = c /\ e.status \in Served)
      BY <2>1, <3>2, WaitsAppend, Zenon
    <3>4. queue' = Append(queue, e)
      BY <1>4, <2>3, <3>1 DEF PostQuit, Queued
    <3>5. Waits(queue', c, Served) => Waits(queue, c, Served)
      BY <3>2, <3>3, <3>4, Zenon
    <3> QED BY <2>1, <3>5 DEF Live
  <2> QED BY <2>2, <2>3
<1>5. CASE JoinIocp
  <2>0. queue \in Seq(Packages) /\ joining \in Sessions
    BY <1>5 DEF JoinIocp, ServerInv, Types, Listening
  <2>1. PICK t \in Sessions : t = joining
    BY <2>0
  <2>2. listener' = "push" /\ joining' = joining /\ worker' = worker
    BY <1>5 DEF JoinIocp
  <2>3. CASE c = t
    BY <2>1, <2>2, <2>3 DEF Joined
  <2>4. CASE c # t
    <3>a. Waits(queue', c, Served) => Waits(queue, c, Served)
      <4>1. CASE queue' = queue
        BY <2>4, <4>1 DEF Waits
      <4>2. CASE queue' # queue
        <5>1. PICK st \in Statuses : queue' = Append(queue, Pack(st, t))
          BY <1>5, <2>1, <4>2 DEF JoinIocp, Queued, Statuses
        <5>2. PICK e : e = Pack(st, t)
          OBVIOUS
        <5>3. e \in Packages /\ e.ses # c
          BY <2>1, <2>4, <5>2 DEF Pack, Packages
        <5>4. Waits(Append(queue, e), c, Served) <=>
                Waits(queue, c, Served) \/ (e.ses = c /\ e.status \in Served)
          BY <2>0, <5>3, WaitsAppend, Zenon
        <5>5. queue' = Append(queue, e)
          BY <5>1, <5>2, Zenon
        <5> QED BY <2>4, <5>3, <5>4, <5>5, Zenon
      <4> QED BY <4>1, <4>2
    <3>b. at'[c] = at[c]
      BY <1>5, <2>1, <2>4 DEF JoinIocp, ServerInv, Types
    <3> QED BY <2>2, <3>a, <3>b DEF Live
  <2> QED BY <2>3, <2>4
<1>6. CASE JoinFails
  <2>1. joining \in Sessions
    BY <1>6 DEF JoinFails, ServerInv, Listening
  <2>2. at' = [at EXCEPT ![joining] = "deleted"] /\ queue' = queue /\ worker' = worker
    BY <1>6 DEF JoinFails
  <2> QED BY <2>1, <2>2 DEF Live, Waits, ServerInv, Types
<1>7. ASSUME NEW s \in Sessions, Accept(s) PROVE Live(c) \/ Joined(c)
  <2>1. at' = [at EXCEPT ![s] = "new"] /\ queue' = queue /\ worker' = worker
    BY <1>7 DEF Accept
  <2> QED BY <2>1 DEF Live, Waits, ServerInv, Types
<1>8. ASSUME NEW s \in Sessions, NEW ok \in BOOLEAN, Complete(s, ok)
      PROVE  Live(c) \/ Joined(c)
  <2>1. at[s] = "io" /\ at' = [at EXCEPT ![s] = "packet"] /\ queue' = queue
        /\ worker' = worker
    BY <1>8 DEF Complete
  <2> QED BY <2>1 DEF Live, Waits, ServerInv, Types
<1>9. ASSUME NEW w \in Workers, Get(w) PROVE Live(c) \/ Joined(c)
  <2>0. worker \in [Workers -> [at : {"get", "put", "remove", "ended"},
                                ses : Sessions \cup {None}, ok : BOOLEAN]]
    BY DEF ServerInv, Types
  <2>1. PICK x : worker' = [worker EXCEPT ![w] = x] /\ x.at \in {"put", "ended"}
    BY <1>9, <2>0 DEF Get
  <2>2. \A v \in Workers : worker'[v].at = "remove" => worker'[v] = worker[v]
    BY <2>0, <2>1
  <2>3. CASE Head(packets) = Quit
    <3>1. at' = at /\ queue' = queue
      BY <1>9, <2>3 DEF Get
    <3> QED BY <2>2, <3>1 DEF Live, Waits
  <2>4. CASE Head(packets) # Quit
    <3>1. PICK t \in Sessions : t = Head(packets).ses /\ at[t] = "packet"
      BY <1>9, <2>4, Got, Zenon
    <3>2. queue' = queue /\ \A d \in Sessions : d # t => at'[d] = at[d]
      BY <1>9, <2>4, <3>1 DEF Get, ServerInv, Types
    <3> QED BY <2>2, <3>1, <3>2 DEF Live, Waits
  <2> QED BY <2>3, <2>4
<1>10. ASSUME NEW w \in Workers, Put(w) PROVE Live(c) \/ Joined(c)
  <2>0. queue \in Seq(Packages) /\ worker \in [Workers -> [at : {"get", "put", "remove", "ended"},
                                                           ses : Sessions \cup {None}, ok : BOOLEAN]]
    BY DEF ServerInv, Types
  <2>1. PICK t \in Sessions : t = worker[w].ses /\ at[t] = "worker"
    BY <1>10 DEF Put, ServerInv, Threads
  <2>2. PICK x : worker' = [worker EXCEPT ![w].at = x]
    BY <1>10 DEF Put
  <2>3. CASE c = t
    BY <2>1, <2>3 DEF Live
  <2>4. CASE c # t
    <3>a. Waits(queue', c, Served) => Waits(queue, c, Served)
      <4>1. CASE queue' = queue
        BY <2>4, <4>1 DEF Waits
      <4>2. CASE queue' # queue
        <5>1. PICK st \in Statuses : queue' = Append(queue, Pack(st, t))
          BY <1>10, <2>1, <4>2 DEF Put, Queued, Statuses
        <5>2. PICK e : e = Pack(st, t)
          OBVIOUS
        <5>3. e \in Packages /\ e.ses # c
          BY <2>1, <2>4, <5>2 DEF Pack, Packages
        <5>4. Waits(Append(queue, e), c, Served) <=>
                Waits(queue, c, Served) \/ (e.ses = c /\ e.status \in Served)
          BY <2>0, <5>3, WaitsAppend, Zenon
        <5>5. queue' = Append(queue, e)
          BY <5>1, <5>2, Zenon
        <5> QED BY <2>4, <5>3, <5>4, <5>5, Zenon
      <4> QED BY <4>1, <4>2
    <3>b. at'[c] = at[c]
      BY <1>10, <2>1, <2>4 DEF Put, ServerInv, Types
    <3>c. \A v \in Workers : worker'[v].at = "remove" /\ worker'[v].ses = c =>
            worker[v].at = "remove" /\ worker[v].ses = c
      BY <2>0, <2>1, <2>2, <2>4
    <3> QED BY <3>a, <3>b, <3>c DEF Live
  <2> QED BY <2>3, <2>4
<1>11. ASSUME NEW w \in Workers, Remove(w) PROVE Live(c) \/ Joined(c)
  <2>0. worker \in [Workers -> [at : {"get", "put", "remove", "ended"},
                                ses : Sessions \cup {None}, ok : BOOLEAN]]
    BY DEF ServerInv, Types
  <2>1. worker' = [worker EXCEPT ![w].at = "get"] /\ at' = at /\ queue' = queue
    BY <1>11 DEF Remove
  <2>2. \A v \in Workers : worker'[v].at = "remove" => worker'[v] = worker[v]
    BY <2>0, <2>1
  <2> QED BY <2>1, <2>2 DEF Live, Waits
<1> QED
  BY <1>1, <1>2, <1>3, <1>4, <1>5, <1>6, <1>7, <1>8, <1>9, <1>10, <1>11, WhoMoves,
     WhoQueues, WhoWorks, Zenon

\* No other session leaves the list before sessions_clear.
LEMMA ListedStep ==
  ASSUME ServerInv, [Next]_vars, NEW c \in Sessions, Listed(c), main' \notin Cleared
  PROVE  Listed(c)' \/ \E v \in Workers : Remove(v) /\ worker[v].ses = c
<1> USE DEF Main, MainTo, Listener, Worker, list, tokens, ports, queues, accepts
<1>1. CASE UNCHANGED vars
  BY <1>1 DEF vars, Listed, ServerInv, Listening
<1>2. CASE Open
  BY <1>2 DEF Open, Listed, ServerInv, Listening
<1>3. CASE OpenFails
  BY <1>3 DEF OpenFails, Listed, ServerInv, Listening
<1>4. CASE Listen
  BY <1>4 DEF Listen, Listed, ServerInv, Listening
<1>5. CASE Tick
  BY <1>5 DEF Tick, Listed, ServerInv, Listening
<1>6. CASE QueueQuit
  BY <1>6 DEF QueueQuit, Listed, ServerInv, Listening
<1>7. CASE CloseSockets
  BY <1>7 DEF CloseSockets, Listed, ServerInv, Listening
<1>8. CASE Post
  BY <1>8 DEF Post, Listed, ServerInv, Listening
<1>9. CASE Wait
  BY <1>9 DEF Wait, Listed, ServerInv, Listening
<1>10. CASE Clear
  <2>1. main' \in Cleared
    BY <1>10 DEF Clear, Cleared
  <2> QED BY <2>1
<1>11. CASE CloseSocket
  BY <1>11 DEF CloseSocket, Listed, ServerInv, Listening
<1>12. CASE Stop
  BY <1>12 DEF Stop, Listed, ServerInv, Listening
<1>13. CASE WaitListener
  BY <1>13 DEF WaitListener, Listed, ServerInv, Listening
<1>14. CASE PostQuit
  BY <1>14 DEF PostQuit, Listed, ServerInv, Listening
<1>15. CASE Release
  BY <1>15 DEF Release, Listed, ServerInv, Listening
<1>16. CASE Test
  BY <1>16 DEF Test, Listed, ServerInv, Listening
<1>17. CASE AcceptFails
  BY <1>17 DEF AcceptFails, Listed, ServerInv, Listening
<1>18. CASE JoinIocp
  BY <1>18 DEF JoinIocp, Listed, ServerInv, Listening
<1>19. CASE JoinFails
  BY <1>19 DEF JoinFails, Listed, ServerInv, Listening
<1>20. CASE Push
  <2>1. _sessions \in Seq(Sessions) /\ joining \in Sessions
    BY <1>20 DEF Push, ServerInv, Types, Listening
  <2>2. _sessions' = Append(_sessions, joining)
    BY <1>20 DEF Push
  <2>3. /\ DOMAIN _sessions' = 1..Len(_sessions) + 1
        /\ DOMAIN _sessions = 1..Len(_sessions)
        /\ Len(_sessions) \in Nat /\ _sessions'[Len(_sessions) + 1] = joining
        /\ \A i \in 1..Len(_sessions) : _sessions'[i] = _sessions[i]
    BY <2>1, <2>2
  <2>4. 1..Len(_sessions) \subseteq 1..Len(_sessions) + 1
        /\ Len(_sessions) + 1 \in 1..Len(_sessions) + 1
    BY <2>3
  <2> QED BY <2>3, <2>4, Zenon DEF Listed
<1>21. ASSUME NEW s \in Sessions, Accept(s)
       PROVE  Listed(c)' \/ \E v \in Workers : Remove(v) /\ worker[v].ses = c
  BY <1>21 DEF Accept, Listed, ServerInv, Listening
<1>22. ASSUME NEW s \in Sessions, NEW ok \in BOOLEAN, Complete(s, ok)
       PROVE  Listed(c)' \/ \E v \in Workers : Remove(v) /\ worker[v].ses = c
  BY <1>22 DEF Complete, Listed, ServerInv, Listening
<1>23. ASSUME NEW w \in Workers, Get(w)
       PROVE  Listed(c)' \/ \E v \in Workers : Remove(v) /\ worker[v].ses = c
  BY <1>23 DEF Get, Listed, ServerInv, Listening
<1>24. ASSUME NEW w \in Workers, Put(w)
       PROVE  Listed(c)' \/ \E v \in Workers : Remove(v) /\ worker[v].ses = c
  BY <1>24 DEF Put, Listed, ServerInv, Listening
<1>25. ASSUME NEW w \in Workers, Remove(w)
       PROVE  Listed(c)' \/ \E v \in Workers : Remove(v) /\ worker[v].ses = c
  <2>1. CASE worker[w].ses = c
    BY <1>25, <2>1
  <2>2. CASE worker[w].ses # c
    <3>1. \E j \in DOMAIN _sessions : _sessions[j] = c
      BY <1>25 DEF Remove, CsFree, Listed
    <3>2. CASE _sessions' = _sessions
      BY <3>1, <3>2 DEF Listed
    <3>3. CASE _sessions' # _sessions
      <4>1. _sessions \in Seq(Sessions) /\ DOMAIN _sessions = 1..Len(_sessions)
        BY DEF ServerInv, Types
      <4>2. PICK i \in DOMAIN _sessions :
              /\ _sessions[i] = worker[w].ses
              /\ _sessions' = SubSeq(_sessions, 1, i - 1)
                               \o SubSeq(_sessions, i + 1, Len(_sessions))
        BY <1>25, <3>3, Zenon DEF Remove
      <4>3. \A j \in DOMAIN _sessions : j # i =>
              \E k \in DOMAIN _sessions' : _sessions'[k] = _sessions[j]
        <5>1. i \in 1..Len(_sessions)
          BY <4>1
        <5>2. LET r == SubSeq(_sessions, 1, i - 1) \o SubSeq(_sessions, i + 1,
        Len(_sessions))
              IN \A j \in DOMAIN _sessions : j # i => \E k \in DOMAIN r : r[k] = _sessions[j]
          BY <4>1, <5>1, Erase, Zenon
        <5> QED BY <4>2, <5>2, Zenon
      <4>4. \E k \in DOMAIN _sessions' : _sessions'[k] = c
        BY <2>2, <3>1, <4>2, <4>3, Zenon
      <4> QED BY <4>4 DEF Listed
    <3> QED BY <3>2, <3>3
  <2> QED BY <2>1, <2>2
<1> QED
  BY <1>1, <1>2, <1>3, <1>4, <1>5, <1>6, <1>7, <1>8, <1>9, <1>10, <1>11, <1>12,
     <1>13, <1>14, <1>15, <1>16, <1>17, <1>18, <1>19, <1>20, <1>21, <1>22, <1>23,
     <1>24, <1>25
     DEF Next, MainStep, ListenerStep, WorkerStep

\* sessions_clear is not undone.
LEMMA NotCleared ==
  ASSUME [Next]_vars, main' \notin Cleared
  PROVE  main \notin Cleared
<1> USE DEF Main, MainTo, Listener, Worker, list, tokens, ports, queues, accepts
<1>1. CASE UNCHANGED vars
  BY <1>1 DEF vars, Cleared
<1>2. CASE MainStep
  BY <1>2 DEF MainStep, Open, OpenFails, Listen, Tick, QueueQuit, CloseSockets, Post,
     Wait, Clear, CloseSocket, Stop, WaitListener, PostQuit, Release, Cleared
<1>3. CASE ListenerStep
  BY <1>3 DEF ListenerStep, Test, AcceptFails, JoinIocp, JoinFails, Push, Cleared
<1>4. ASSUME NEW s \in Sessions, Accept(s) PROVE main \notin Cleared
  BY <1>4 DEF Accept, Cleared
<1>5. ASSUME NEW s \in Sessions, NEW ok \in BOOLEAN, Complete(s, ok)
      PROVE  main \notin Cleared
  BY <1>5 DEF Complete, Cleared
<1>6. ASSUME NEW w \in Workers, WorkerStep(w) PROVE main \notin Cleared
  BY <1>6 DEF WorkerStep, Get, Put, Remove, Cleared
<1> QED BY <1>1, <1>2, <1>3, <1>4, <1>5, <1>6 DEF Next

LEMMA ListStep ==
  ASSUME ServerInv, [Next]_vars
  PROVE  List'
<1> SUFFICES ASSUME main' \notin Cleared, NEW s \in Sessions, Live(s)'
             PROVE  Listed(s)'
  BY DEF List
<1>1. main \notin Cleared
  BY NotCleared
<1>2. Live(s) \/ Joined(s)
  BY LiveStep
<1>3. CASE Joined(s)
  BY <1>3 DEF Joined, Listed
<1>4. CASE Live(s)
  <2>1. Listed(s)
    BY <1>1, <1>4 DEF ServerInv, List
  <2>2. Listed(s)' \/ \E w \in Workers : Remove(w) /\ worker[w].ses = s
    BY <2>1, ListedStep
  <2>3. ASSUME NEW w \in Workers, Remove(w), worker[w].ses = s PROVE FALSE
    <3>1. worker[w].at = "remove" /\ at' = at /\ queue' = queue
      BY <2>3 DEF Remove, Worker, tokens, queues
    <3>2. Gone(s)
      BY <2>3, <3>1 DEF ServerInv, Threads
    <3>3. PICK v \in Workers : worker'[v].at = "remove" /\ worker'[v].ses = s
      BY <3>1, <3>2 DEF Live, Gone, Waits
    <3>4. worker \in [Workers -> [at : {"get", "put", "remove", "ended"},
                                 ses : Sessions \cup {None}, ok : BOOLEAN]]
      BY DEF ServerInv, Types
    <3>5. worker' = [worker EXCEPT ![w].at = "get"]
      BY <2>3 DEF Remove
    <3>6. v # w /\ worker'[v] = worker[v]
      BY <3>3, <3>4, <3>5
    <3> QED BY <2>3, <3>1, <3>3, <3>6 DEF ServerInv, Threads
  <2> QED BY <2>2, <2>3
<1> QED BY <1>2, <1>3, <1>4

\* Only the loop learns of a session, or forgets it.
LEMMA KnownStep ==
  ASSUME ServerInv, [Next]_vars, ~Tick, ~stopped', NEW c \in Sessions
  PROVE  Known(c)' <=> Known(c)
<1> USE DEF Main, MainTo, Listener, Worker, list, tokens, ports, queues, accepts
<1>1. CASE at' = at /\ queue' = queue
  BY <1>1 DEF Known, Waits
<1>2. CASE Tick
  BY <1>2
<1>3. CASE PostQuit
  <2>1. at' = at /\ queue \in Seq(Packages) /\ ~stopped
    BY <1>3 DEF PostQuit, ServerInv, Types
  <2>2. PICK e : e = Pack("quit", None)
    OBVIOUS
  <2>3. e \in Packages /\ e.status \notin Told
    BY <2>2 DEF Pack, Packages, Statuses, Told
  <2>4. Waits(Append(queue, e), c, Told) <=>
          Waits(queue, c, Told) \/ (e.ses = c /\ e.status \in Told)
    BY <2>1, <2>3, WaitsAppend, Zenon
  <2>5. queue' = Append(queue, e)
    BY <1>3, <2>1, <2>2 DEF PostQuit, Queued
  <2>6. Waits(queue', c, Told) <=> Waits(queue, c, Told)
    BY <2>3, <2>4, <2>5, Zenon
  <2> QED BY <2>1, <2>6 DEF Known
<1>4. CASE JoinIocp
  <2>1. PICK t \in Sessions : t = joining /\ at[t] = "new"
    BY <1>4 DEF JoinIocp, ServerInv, Listening, Threads
  <2>2. queue \in Seq(Packages) /\ ~stopped
    BY <1>4 DEF JoinIocp, ServerInv, Types
  <2>3. PICK st \in {"connected"} : queue' = Append(queue, Pack(st, t))
    BY <1>4, <2>1, <2>2 DEF JoinIocp, Queued
  <2>4. at' = [at EXCEPT ![t] = "package"]
    BY <1>4, <2>1, <2>2 DEF JoinIocp
  <2>5. PICK e : e = Pack(st, t)
    OBVIOUS
  <2>6. e \in Packages /\ e.ses = t /\ e.status = st
    BY <2>3, <2>5 DEF Pack, Packages, Statuses
  <2>7. Waits(Append(queue, e), c, Told) <=>
          Waits(queue, c, Told) \/ (e.ses = c /\ e.status \in Told)
    BY <2>2, <2>6, WaitsAppend, Zenon
  <2>8. Waits(queue', c, Told) <=> Waits(queue, c, Told) \/ (t = c /\ st \in Told)
    BY <2>3, <2>5, <2>6, <2>7, Zenon
  <2>9. CASE c # t
    BY <2>4, <2>8, <2>9 DEF Known, ServerInv, Types
  <2>10. CASE c = t
    <3>1. ~Waits(queue, c, Told)
      <4>1. Tokens(queue, at, "package") /\ at[c] # "package"
        BY <2>1, <2>10 DEF ServerInv, Queues
      <4> QED BY <4>1, WaitsToken, Zenon
    <3> QED BY <2>1, <2>3, <2>4, <2>8, <2>10, <3>1 DEF Known, Told, ServerInv, Types
  <2> QED BY <2>9, <2>10
<1>5. CASE JoinFails
  <2>1. PICK s \in Sessions : s = joining /\ at[s] = "new"
    BY <1>5 DEF JoinFails, ServerInv, Listening
  <2>2. at' = [at EXCEPT ![s] = "deleted"] /\ queue' = queue
    BY <1>5, <2>1 DEF JoinFails
  <2> QED BY <2>1, <2>2 DEF Known, Waits, ServerInv, Types
<1>6. ASSUME NEW s \in Sessions, Accept(s) PROVE Known(c)' <=> Known(c)
  <2>1. at[s] = "none" /\ at' = [at EXCEPT ![s] = "new"] /\ queue' = queue
    BY <1>6 DEF Accept
  <2> QED BY <2>1 DEF Known, Waits, ServerInv, Types
<1>7. ASSUME NEW s \in Sessions, NEW ok \in BOOLEAN, Complete(s, ok)
      PROVE  Known(c)' <=> Known(c)
  <2>1. at[s] = "io" /\ at' = [at EXCEPT ![s] = "packet"] /\ queue' = queue
    BY <1>7 DEF Complete
  <2> QED BY <2>1 DEF Known, Waits, ServerInv, Types
<1>8. ASSUME NEW w \in Workers, Get(w) PROVE Known(c)' <=> Known(c)
  <2>1. CASE Head(packets) = Quit
    BY <1>8, <2>1 DEF Get, Known, Waits
  <2>2. CASE Head(packets) # Quit
    <3>1. PICK s \in Sessions : s = Head(packets).ses /\ at[s] = "packet"
      BY <1>8, <2>2, Got, Zenon
    <3>2. at' = [at EXCEPT ![s] = "worker"] /\ queue' = queue
      BY <1>8, <2>2, <3>1 DEF Get
    <3> QED BY <3>1, <3>2 DEF Known, Waits, ServerInv, Types
  <2> QED BY <2>1, <2>2
<1>9. ASSUME NEW w \in Workers, Put(w) PROVE Known(c)' <=> Known(c)
  <2>1. PICK t \in Sessions : t = worker[w].ses /\ at[t] = "worker"
    BY <1>9 DEF Put, ServerInv, Listening, Threads
  <2>2. queue \in Seq(Packages) /\ ~stopped
    BY <1>9 DEF Put, ServerInv, Types
  <2>3. PICK st \in Told : queue' = Append(queue, Pack(st, t))
    BY <1>9, <2>1, <2>2 DEF Put, Queued, Told
  <2>4. at' = [at EXCEPT ![t] = "package"]
    BY <1>9, <2>1, <2>2 DEF Put
  <2>5. PICK e : e = Pack(st, t)
    OBVIOUS
  <2>6. e \in Packages /\ e.ses = t /\ e.status = st
    BY <2>3, <2>5 DEF Pack, Packages, Statuses, Told
  <2>7. Waits(Append(queue, e), c, Told) <=>
          Waits(queue, c, Told) \/ (e.ses = c /\ e.status \in Told)
    BY <2>2, <2>6, WaitsAppend, Zenon
  <2>8. Waits(queue', c, Told) <=> Waits(queue, c, Told) \/ (t = c /\ st \in Told)
    BY <2>3, <2>5, <2>6, <2>7, Zenon
  <2>9. CASE c # t
    BY <2>4, <2>8, <2>9 DEF Known, ServerInv, Types
  <2>10. CASE c = t
    <3>1. Known(c)
      BY <2>1, <2>10 DEF Known
    <3> QED BY <2>8, <2>10, <3>1 DEF Known
  <2> QED BY <2>9, <2>10
<1> QED
  BY <1>1, <1>2, <1>3, <1>4, <1>5, <1>6, <1>7, <1>8, <1>9, WhoMoves, WhoQueues, Zenon

\* Nobody else counts.
LEMMA CountStays ==
  ASSUME [Next]_vars, ~Tick
  PROVE  _connect_count' = _connect_count /\ (stopped' = stopped \/ stopped' = TRUE)
<1> USE DEF Main, MainTo, Listener, Worker, list, tokens, ports, queues, accepts
<1>1. CASE UNCHANGED vars
  BY <1>1 DEF vars
<1>2. CASE MainStep
  BY <1>2 DEF MainStep, Open, OpenFails, Listen, QueueQuit, CloseSockets, Post,
     Wait, Clear, CloseSocket, Stop, WaitListener, PostQuit, Release
<1>3. CASE ListenerStep
  BY <1>3 DEF ListenerStep, Test, AcceptFails, JoinIocp, JoinFails, Push
<1>4. ASSUME NEW s \in Sessions, Accept(s)
      PROVE  _connect_count' = _connect_count /\ (stopped' = stopped \/ stopped' = TRUE)
  BY <1>4 DEF Accept
<1>5. ASSUME NEW s \in Sessions, NEW ok \in BOOLEAN, Complete(s, ok)
      PROVE  _connect_count' = _connect_count /\ (stopped' = stopped \/ stopped' = TRUE)
  BY <1>5 DEF Complete
<1>6. ASSUME NEW w \in Workers, WorkerStep(w)
      PROVE  _connect_count' = _connect_count /\ (stopped' = stopped \/ stopped' = TRUE)
  BY <1>6 DEF WorkerStep, Get, Put, Remove
<1> QED BY <1>1, <1>2, <1>3, <1>4, <1>5, <1>6 DEF Next

LEMMA KnownTick ==
  ASSUME ServerInv, Tick, NEW c \in Sessions
  PROVE  /\ c # Head(queue).ses => (Known(c)' <=> Known(c))
         /\ c = Head(queue).ses => (Known(c) <=> Head(queue).status \in Told)
         /\ c = Head(queue).ses => (Known(c)' <=> Head(queue).status # "disconnected")
<1>1. /\ queue \in Seq(Packages) /\ queue # <<>> /\ queue' = Tail(queue)
      /\ at \in [Sessions -> Stages] /\ Tokens(queue, at, "package")
  BY DEF Tick, ServerInv, Types, Queues
<1>2. PICK s \in Sessions : s = Head(queue).ses
  BY Ticked
<1>3. at[s] = "package"
      /\ Head(queue).status \in {"connected", "finished", "disconnected"}
  BY Ticked, <1>2
<1>4. /\ Waits(Tail(queue), c, Told) => Waits(queue, c, Told)
      /\ Head(queue).ses # c => (Waits(Tail(queue), c, Told) <=> Waits(queue, c, Told))
      /\ Head(queue).ses = c /\ Head(queue).status \in Told => Waits(queue, c, Told)
  BY <1>1, WaitsTail, Zenon
<1>5. PICK x : at' = [at EXCEPT ![s] = x]
  BY <1>2 DEF Tick
<1>6. \A i \in DOMAIN Tail(queue) : Tail(queue)[i].ses # s
  BY <1>1, <1>2, TailOthers, Zenon
<1>7. ASSUME c # Head(queue).ses PROVE Known(c)' <=> Known(c)
  <2>1. at'[c] = at[c]
    BY <1>1, <1>2, <1>5, <1>7
  <2>2. Waits(queue', c, Told) <=> Waits(queue, c, Told)
    BY <1>1, <1>4, <1>7, Zenon
  <2> QED BY <2>1, <2>2 DEF Known
<1>8. ASSUME c = Head(queue).ses
      PROVE  /\ Known(c) <=> Head(queue).status \in Told
             /\ Known(c)' <=> Head(queue).status # "disconnected"
  <2>1. c = s
    BY <1>2, <1>8
  <2>2. Known(c) => Head(queue).status \in Told
    <3> SUFFICES ASSUME Known(c) PROVE Head(queue).status \in Told
      OBVIOUS
    <3>1. PICK i \in DOMAIN queue : queue[i].ses = c /\ queue[i].status \in Told
      BY <1>3, <2>1 DEF Known, Waits
    <3>2. 1 \in DOMAIN queue /\ Head(queue) = queue[1]
      BY <1>1
    <3>3. i = 1
      BY <1>1, <1>8, <3>1, <3>2, Zenon DEF Tokens
    <3> QED BY <3>1, <3>2, <3>3
  <2>3. Head(queue).status \in Told => Known(c)
    BY <1>4, <1>8 DEF Known
  <2>4. ~Waits(queue', c, Told)
    BY <1>1, <1>6, <2>1 DEF Waits
  <2>5. Known(c)' <=> at'[c] \in {"io", "packet", "worker", "rest"}
    BY <2>4 DEF Known
  <2>6. at'[c] = x
    BY <1>1, <1>5, <2>1
  <2>7. CASE Head(queue).status = "disconnected"
    <3>1. at'[c] = "deleted"
      BY <1>1, <1>8, <2>7 DEF Tick
    <3> QED BY <2>2, <2>3, <2>5, <2>7, <3>1
  <2>8. CASE Head(queue).status # "disconnected"
    <3>1. at'[c] \in {"io", "rest"}
      BY <1>1, <1>8, <2>8 DEF Tick
    <3> QED BY <2>2, <2>3, <2>5, <2>8, <3>1
  <2> QED BY <2>7, <2>8
<1> QED BY <1>7, <1>8, Zenon

LEMMA CountedStep ==
  ASSUME ServerInv, [Next]_vars
  PROVE  Counted'
<1> DEFINE Then == {s \in Sessions : Known(s)'}
<1>0. /\ IsFiniteSet(Sessions) /\ Announced \subseteq Sessions /\ Then \subseteq Sessions
      /\ Announced' = Then
  BY ServerAssumption DEF Announced
<1>1. /\ IsFiniteSet(Announced) /\ IsFiniteSet(Then) /\ Cardinality(Then) \in Nat
      /\ Cardinality(Announced) \in Nat /\ Cardinality(Sessions) \in Nat
      /\ Cardinality(Then) <= Cardinality(Sessions)
  <2>1. IsFiniteSet(Announced) /\ IsFiniteSet(Then)
        /\ Cardinality(Then) <= Cardinality(Sessions)
    BY <1>0, FS_Subset
  <2> QED BY <1>0, <2>1, FS_CardinalityType
<1>2. /\ _connect_count \in 0..Cardinality(Sessions)
      /\ ~stopped => _connect_count = Cardinality(Announced)
  BY DEF ServerInv, Counted
<1>3. CASE ~Tick
  <2>1. _connect_count' = _connect_count /\ (~stopped' => ~stopped)
    <3>1. _connect_count' = _connect_count /\ (stopped' = stopped \/ stopped' = TRUE)
      BY <1>3, CountStays, Zenon
    <3> QED BY <3>1
  <2>2. ASSUME ~stopped' PROVE Then = Announced
    <3>1. \A c \in Sessions : Known(c)' <=> Known(c)
      BY <1>3, <2>2, KnownStep
    <3> QED BY <3>1 DEF Announced
  <2> QED BY <1>0, <1>2, <2>1, <2>2 DEF Counted
<1>4. CASE Tick
  <2>1. PICK s \in Sessions : s = Head(queue).ses
    BY <1>4, Ticked
  <2>2. Head(queue).status \in {"connected", "finished", "disconnected"}
    BY <1>4, Ticked
  <2>3. ~stopped
    BY <1>4 DEF Tick, Main, ServerInv, Queues
  <2>4. \A c \in Sessions : c # s => (Known(c)' <=> Known(c))
    BY <1>4, <2>1, KnownTick, Zenon
  <2>5. /\ Known(s) <=> Head(queue).status \in Told
        /\ Known(s)' <=> Head(queue).status # "disconnected"
    BY <1>4, <2>1, KnownTick, Zenon
  <2>6. _connect_count' = Cardinality(Then)
    <3>1. CASE Head(queue).status = "connected"
      <4>1. Then = Announced \cup {s} /\ s \notin Announced
        BY <2>4, <2>5, <3>1 DEF Announced, Told
      <4>2. Cardinality(Announced \cup {s}) = Cardinality(Announced) + 1
        BY <1>1, <4>1, FS_AddElement
      <4>3. _connect_count' = _connect_count + 1
        BY <1>4, <3>1 DEF Tick
      <4> QED BY <1>2, <2>3, <4>1, <4>2, <4>3
    <3>2. CASE Head(queue).status = "finished"
      <4>1. Then = Announced
        BY <2>4, <2>5, <3>2 DEF Announced, Told
      <4>2. _connect_count' = _connect_count + 0
        BY <1>4, <3>2 DEF Tick
      <4> QED BY <1>2, <2>3, <4>1, <4>2
    <3>3. CASE Head(queue).status = "disconnected"
      <4>1. Then = Announced \ {s} /\ s \in Announced
        BY <2>4, <2>5, <3>3 DEF Announced, Told
      <4>2. Cardinality(Announced \ {s}) = Cardinality(Announced) - 1
        BY <1>1, <4>1, FS_RemoveElement
      <4>3. _connect_count' = _connect_count - 1
        BY <1>4, <3>3 DEF Tick
      <4> QED BY <1>2, <2>3, <4>1, <4>2, <4>3
    <3> QED BY <2>2, <3>1, <3>2, <3>3
  <2> QED BY <1>0, <1>1, <2>6 DEF Counted
<1> QED BY <1>3, <1>4

LEMMA ServerInit ==
  ASSUME Init
  PROVE  ServerInv /\ OneThread
<1>1. <<>> \in Seq(Packages) /\ <<>> \in Seq(Packets) /\ <<>> \in Seq(Sessions)
      /\ DOMAIN <<>> = {}
  OBVIOUS
<1>2. queue = <<>> /\ packets = <<>> /\ _sessions = <<>>
  BY DEF Init
<1>3. Types
  <2>1. _sessions \in Seq(Sessions) /\ packets \in Seq(Packets) /\ queue \in Seq(Packages)
    BY <1>1, <1>2
  <2>2. worker \in [Workers -> [at : {"get", "put", "remove", "ended"},
                               ses : Sessions \cup {None}, ok : BOOLEAN]]
    BY DEF Init, Free
  <2>3. at \in [Sessions -> Stages] /\ sock \in [Sessions -> BOOLEAN]
    BY DEF Init, Stages
  <2>4. /\ main \in Statements /\ joining \in Sessions \cup {None}
        /\ listener \in {"off", "test", "accept", "join_iocp", "push", "ended"}
    BY DEF Init, Statements
  <2>5. next \in Nat \ {0} /\ released \in Nat
    <3>1. next = 1 /\ released = 0
      BY DEF Init
    <3> QED BY ONLY <3>1
  <2>6. /\ port \in BOOLEAN /\ stopped \in BOOLEAN /\ listening \in BOOLEAN
        /\ died \in BOOLEAN
    BY Zenon DEF Init
  <2> QED BY <2>1, <2>2, <2>3, <2>4, <2>5, <2>6, Zenon DEF Types
<1>4. Listening /\ References /\ ReleasedOnce
  BY ServerAssumption DEF Init, Listening, References, ReleasedOnce, Waited
<1>5. Queues
  <2>1. DOMAIN queue = {} /\ DOMAIN packets = {}
    BY <1>1, <1>2
  <2> QED BY <2>1 DEF Init, Queues, Tokens
<1>6. \A w \in Workers : worker[w].at = "ended"
  BY DEF Init, Free
<1>7. Threads
  BY <1>6 DEF Threads
<1>8. \A s \in Sessions : ~Waits(queue, s, Served) /\ ~Waits(queue, s, Told)
  BY <1>1, <1>2 DEF Waits
<1>9. \A s \in Sessions : at[s] = "none"
  BY DEF Init
<1>10. List
  BY <1>6, <1>8, <1>9 DEF List, Live
<1>11. Counted
  <2>1. Announced = {}
    BY <1>8, <1>9 DEF Announced, Known
  <2>2. Cardinality(Announced) = 0 /\ Cardinality(Sessions) \in Nat
    BY <2>1, FS_EmptySet, FS_CardinalityType, ServerAssumption
  <2> QED BY <2>2 DEF Init, Counted
<1>12. OneThread
  BY <1>6 DEF OneThread, Init
<1> QED BY <1>3, <1>4, <1>5, <1>7, <1>10, <1>11, <1>12 DEF ServerInv

LEMMA ServerStep ==
  ASSUME ServerInv, [Next]_vars
  PROVE  ServerInv'
BY TypesStep, ListeningStep, ReferencesStep, ReleasedOnceStep, QueuesStep, ThreadsStep,
   ListStep, CountedStep, Zenon DEF ServerInv

\* The only thread ends once, and the port after it.
LEMMA OneThreadStep ==
  ASSUME ServerInv, OneThread, [Next]_vars, NEW t, Workers = {t}
  PROVE  OneThread'
<1> USE DEF Main, MainTo, Listener, Worker, list, tokens, ports, queues, accepts
<1>1. CASE UNCHANGED vars
  BY <1>1 DEF vars, OneThread
<1>2. CASE Open
  <2>1. port' = TRUE /\ released' = 0 /\ main' = "listen"
    BY <1>2 DEF Open, OneThread
  <2> QED BY <2>1 DEF OneThread
<1>3. CASE OpenFails
  BY <1>3 DEF OpenFails, OneThread
<1>4. CASE Listen
  BY <1>4 DEF Listen, OneThread
<1>5. CASE Tick
  BY <1>5 DEF Tick, OneThread
<1>6. CASE QueueQuit
  BY <1>6 DEF QueueQuit, OneThread
<1>7. CASE CloseSockets
  BY <1>7 DEF CloseSockets, OneThread
<1>8. CASE Post
  BY <1>8 DEF Post, OneThread
<1>9. CASE Wait
  <2>1. \A v \in Workers : worker'[v].at = "ended"
    BY <1>9 DEF Wait, OneThread
  <2>2. main' = "clear"
    BY <1>9 DEF Wait
  <2> QED BY <2>1, <2>2 DEF OneThread
<1>10. CASE Clear
  BY <1>10 DEF Clear, OneThread
<1>11. CASE CloseSocket
  BY <1>11 DEF CloseSocket, OneThread
<1>12. CASE Stop
  BY <1>12 DEF Stop, OneThread
<1>13. CASE WaitListener
  BY <1>13 DEF WaitListener, OneThread
<1>14. CASE PostQuit
  BY <1>14 DEF PostQuit, OneThread
<1>15. CASE Release
  BY <1>15 DEF Release, OneThread
<1>16. CASE Test
  BY <1>16 DEF Test, OneThread
<1>17. CASE AcceptFails
  BY <1>17 DEF AcceptFails, OneThread
<1>18. CASE JoinIocp
  BY <1>18 DEF JoinIocp, OneThread
<1>19. CASE JoinFails
  BY <1>19 DEF JoinFails, OneThread
<1>20. CASE Push
  BY <1>20 DEF Push, OneThread
<1>21. ASSUME NEW s \in Sessions, Accept(s) PROVE OneThread'
  BY <1>21 DEF Accept, OneThread
<1>22. ASSUME NEW s \in Sessions, NEW ok \in BOOLEAN, Complete(s, ok) PROVE OneThread'
  BY <1>22 DEF Complete, OneThread
<1>23. ASSUME NEW w \in Workers, Get(w) PROVE OneThread'
  <2>1. worker \in [Workers -> [at : {"get", "put", "remove", "ended"},
                                ses : Sessions \cup {None}, ok : BOOLEAN]]
        /\ w = t /\ worker[t].at = "get" /\ released \in Nat
    BY <1>23 DEF Get, ServerInv, Types
  <2>2. port = TRUE /\ released = 0 /\ port' = port /\ main' = main
    BY <1>23, <2>1 DEF Get, OneThread, ServerInv, Types
  <2>3. CASE Head(packets) = Quit
    <3>1. worker' = [worker EXCEPT ![t].at = "ended"]
      BY <1>23, <2>1, <2>3 DEF Get
    <3>2. \A v \in Workers : worker'[v].at = "ended"
      BY <2>1, <3>1
    <3> QED BY <2>2, <3>2 DEF OneThread
  <2>4. CASE Head(packets) # Quit
    <3>1. released' = released
      BY <1>23, <2>4 DEF Get
    <3> QED BY <2>2, <3>1 DEF OneThread
  <2> QED BY <2>3, <2>4
<1>24. ASSUME NEW w \in Workers, Put(w) PROVE OneThread'
  <2>1. worker[w].at # "ended" /\ released \in Nat
    BY <1>24 DEF Put, ServerInv, Types
  <2>2. port = TRUE /\ released = 0 /\ port' = port /\ main' = main
        /\ released' = released
    BY <1>24, <2>1 DEF Put, OneThread, ServerInv, Types
  <2> QED BY <2>2 DEF OneThread
<1>25. ASSUME NEW w \in Workers, Remove(w) PROVE OneThread'
  <2>1. worker[w].at # "ended" /\ released \in Nat
    BY <1>25 DEF Remove, ServerInv, Types
  <2>2. port = TRUE /\ released = 0 /\ port' = port /\ main' = main
        /\ released' = released
    BY <1>25, <2>1 DEF Remove, OneThread, ServerInv, Types
  <2> QED BY <2>2 DEF OneThread
<1> QED
  BY <1>1, <1>2, <1>3, <1>4, <1>5, <1>6, <1>7, <1>8, <1>9, <1>10, <1>11, <1>12,
     <1>13, <1>14, <1>15, <1>16, <1>17, <1>18, <1>19, <1>20, <1>21, <1>22, <1>23,
     <1>24, <1>25
     DEF Next, MainStep, ListenerStep, WorkerStep

-----------------------------------------------------------------------------
(* What the invariant shows.                                               *)

LEMMA ServerInvHolds == Spec => []ServerInv
<1>1. Init => ServerInv
  BY ServerInit
<1>2. ServerInv /\ [Next]_vars => ServerInv'
  BY ServerStep
<1> QED BY <1>1, <1>2, PTL DEF Spec

LEMMA OneThreadHolds ==
  ASSUME NEW t, Workers = {t}
  PROVE  Spec => [](ServerInv /\ OneThread)
<1>1. Init => ServerInv /\ OneThread
  BY ServerInit
<1>2. ServerInv /\ OneThread /\ [Next]_vars => (ServerInv /\ OneThread)'
  BY ServerStep, OneThreadStep
<1> QED BY <1>1, <1>2, PTL DEF Spec

\* For any number of sessions and of port threads: a queue holds packages of
\* the sessions only, and "quit", the references to the package queue, and the
\* connections that the loop counts, are never fewer than none, and never more
\* than their owners (server.cpp:141, iocp_server.h:45-135).
THEOREM TypesHold == Spec => []TypeOK
<1>1. ASSUME ServerInv PROVE TypeOK
  <2>1. refs \in 0..3
    BY <1>1 DEF ServerInv, References
  <2>2. queue \in Seq([status : {"connected", "finished", "disconnected", "quit"},
                       ses : Sessions \cup {None}])
    BY <1>1, Zenon DEF ServerInv, Types, Packages, Statuses
  <2>3. packets \in Seq([ses : Sessions \cup {None}, ok : BOOLEAN])
    BY <1>1, Zenon DEF ServerInv, Types, Packets
  <2>4. /\ _session_limit \in 0..Limit /\ _stop \in 0..1
        /\ _connect_count \in 0..Cardinality(Sessions)
    BY <1>1 DEF ServerInv, Listening, Counted
  <2> QED BY <1>1, <2>1, <2>2, <2>3, <2>4, Zenon
          DEF TypeOK, ServerInv, Types, Statements, Stages
<1> QED BY <1>1, ServerInvHolds, PTL

\* With one thread of the port, as in every program of the repository: the
\* thread that ends a session finds it in the list (ASSERT(0), "removed twice?",
\* iocp_session.h:207-208), also while the server closes.
THEOREM RemoveFindsSessionHolds ==
  ASSUME NEW t, Workers = {t}
  PROVE  Spec => []RemoveFindsSession
<1>1. ASSUME ServerInv, OneThread PROVE RemoveFindsSession
  <2> SUFFICES ASSUME ~Abandoned, NEW w \in Workers, worker[w].at = "remove", CsFree
               PROVE  \E i \in DOMAIN _sessions : _sessions[i] = worker[w].ses
    BY DEF RemoveFindsSession
  <2>1. port /\ main \notin Cleared
    BY <1>1 DEF OneThread, Abandoned, Cleared
  <2>2. PICK s \in Sessions : s = worker[w].ses
    BY <1>1 DEF ServerInv, Threads
  <2>3. Live(s)
    BY <2>2 DEF Live
  <2>4. Listed(s)
    BY <1>1, <2>1, <2>3 DEF ServerInv, List
  <2> QED BY <2>2, <2>4 DEF Listed, CsFree
<1> QED BY <1>1, OneThreadHolds, PTL

\* With one thread of the port: when the last reference to the package queue is
\* gone, main() is at its end and neither the listener nor the thread of the
\* port is left to put a package (server.cpp:158-163).
THEOREM QueueOutlivesItsUsersHolds ==
  ASSUME NEW t, Workers = {t}
  PROVE  Spec => []QueueOutlivesItsUsers
<1>1. ASSUME ServerInv, OneThread PROVE QueueOutlivesItsUsers
  <2> SUFFICES ASSUME refs <= 0, ~Abandoned
               PROVE  /\ main = "done" /\ listener \in {"off", "ended"}
                      /\ \A w \in Workers : worker[w].at = "ended"
    BY DEF QueueOutlivesItsUsers
  <2>1. main = "done"
    BY <1>1 DEF ServerInv, References, ReleasedOnce
  <2>2. listener \in {"off", "ended"}
    BY <1>1, <2>1 DEF ServerInv, Listening, Waited
  <2>3. \A w \in Workers : worker[w].at = "ended"
    BY <1>1, <2>1 DEF OneThread, Abandoned
  <2> QED BY <2>1, <2>2, <2>3
<1> QED BY <1>1, OneThreadHolds, PTL

=============================================================================
