---------------------------- MODULE FramingProofs ----------------------------
(***************************************************************************)
(* The ring buffer, for every size and every position of its pointers, and *)
(* the stream of packages that goes through two of them, for every size of *)
(* rings, headers and packages, however the stream is cut.                 *)
(*                                                                         *)
(* The stream is proved about for a sender that waits for the reply, and   *)
(* whose send buffer is not larger than the receive buffer, as both are by *)
(* default.  Then fewer bytes are out at a time than the receive buffer    *)
(* has room for, and it is never filled to its last byte, which would      *)
(* empty it.  What has been received, what is under way and what is still  *)
(* to be sent lie side by side in the send buffer, whose bytes stay where  *)
(* they are until the next round begins.                                   *)
(***************************************************************************)
EXTENDS Framing, SequenceTheorems, TLAPS

-----------------------------------------------------------------------------
(* The number of used bytes.                                               *)

LEMMA LengthRange ==
  ASSUME NEW b, IsRing(b)
  PROVE  /\ Length(b) \in 0..b.size - 1
         /\ b.trail >= b.head => Length(b) = b.trail - b.head
         /\ b.trail < b.head => Length(b) = b.trail - b.head + b.size
BY DEF IsRing, Length

\* A buffer as a record, which EXCEPT needs in order to change one field of it.
IsBuf(b) == /\ IsRing(b)
            /\ b = [size |-> b.size, data |-> b.data,
                    head |-> b.head, trail |-> b.trail]

LEMMA MoveFields ==
  ASSUME NEW b, IsBuf(b), NEW n
  PROVE  /\ HeadMove(b, n).size = b.size /\ TrailMove(b, n).size = b.size
         /\ HeadMove(b, n).trail = b.trail /\ TrailMove(b, n).head = b.head
         /\ HeadMove(b, n).data = b.data /\ TrailMove(b, n).data = b.data
         /\ HeadMove(b, n).head = Moved(b, b.head, n)
         /\ TrailMove(b, n).trail = Moved(b, b.trail, n)
BY DEF IsBuf, HeadMove, TrailMove

\* get_used_bufs: its two pieces lie inside the buffer, the second one begins
\* at _buf, and together they have length() bytes (iocp_buffer.h:29-40).
THEOREM UsedPieces ==
  ASSUME NEW b, IsRing(b)
  PROVE  LET u == UsedBufs(b) IN
         /\ u[1].len + u[2].len = Length(b)
         /\ u[1].at = b.head /\ u[1].at + u[1].len <= b.size
         /\ u[2].at = 0 /\ u[2].len <= b.head
BY LengthRange DEF UsedBufs, Piece, IsRing

\* get_unused_bufs (iocp_buffer.h:42-53) offers every byte that is not used, and the first piece is
\* never empty: ASSERT(len[0] > 0) of receive() (iocp_session_ioT.h:208).
THEOREM UnusedPieces ==
  ASSUME NEW b, IsRing(b)
  PROVE  LET u == UnusedBufs(b) IN
         /\ u[1].len + u[2].len = b.size - Length(b)
         /\ u[1].len > 0
         /\ u[1].at = b.trail /\ u[1].at + u[1].len <= b.size
         /\ u[2].at = 0 /\ u[2].len <= b.trail
BY LengthRange DEF UnusedBufs, Piece, IsRing

\* A receive that leaves at least one byte unused adds what it has received, and
\* one that fills the buffer to the last byte empties it: length() is 0 then,
\* and everything received and not yet taken is gone (iocp_buffer.h:61-72).
THEOREM TrailMoveLength ==
  ASSUME NEW b, IsBuf(b), NEW n \in 0..b.size - Length(b)
  PROVE  /\ IsRing(TrailMove(b, n))
         /\ n < b.size - Length(b) => Length(TrailMove(b, n)) = Length(b) + n
         /\ n = b.size - Length(b) => Length(TrailMove(b, n)) = 0
<1> DEFINE c == TrailMove(b, n)
<1>1. /\ b.size \in Nat \ {0} /\ b.head \in 0..b.size - 1 /\ b.trail \in 0..b.size - 1
      /\ Length(b) \in 0..b.size - 1 /\ n \in 0..b.size
  BY LengthRange DEF IsBuf, IsRing
<1>2. /\ c.size = b.size /\ c.head = b.head
      /\ c.trail = IF b.trail + n >= b.size THEN b.trail + n - b.size ELSE b.trail + n
  BY MoveFields DEF Moved
<1>3. IsRing(c)
  BY <1>1, <1>2 DEF IsRing
<1>4. /\ Length(c) = IF c.trail - c.head < 0 THEN c.trail - c.head + c.size
                                            ELSE c.trail - c.head
      /\ Length(b) = IF b.trail - b.head < 0 THEN b.trail - b.head + b.size
                                            ELSE b.trail - b.head
  BY DEF Length
<1> HIDE DEF c
<1>5. /\ n < b.size - Length(b) => Length(c) = Length(b) + n
      /\ n = b.size - Length(b) => Length(c) = 0
  <2>1. CASE b.trail >= b.head /\ b.trail + n >= b.size
    BY <1>1, <1>2, <1>4, <2>1
  <2>2. CASE b.trail >= b.head /\ b.trail + n < b.size
    BY <1>1, <1>2, <1>4, <2>2
  <2>3. CASE b.trail < b.head
    BY <1>1, <1>2, <1>4, <2>3
  <2>4. QED BY <1>1, <2>1, <2>2, <2>3
<1>6. QED
  BY <1>3, <1>5 DEF c

\* Taking n used bytes leaves the others used (iocp_buffer.h:55-60).
THEOREM HeadMoveLength ==
  ASSUME NEW b, IsBuf(b), NEW n \in 0..Length(b)
  PROVE  /\ IsRing(HeadMove(b, n))
         /\ Length(HeadMove(b, n)) = Length(b) - n
<1> DEFINE c == HeadMove(b, n)
<1>1. /\ b.size \in Nat \ {0} /\ b.head \in 0..b.size - 1 /\ b.trail \in 0..b.size - 1
      /\ Length(b) \in 0..b.size - 1 /\ n \in 0..b.size
  BY LengthRange DEF IsBuf, IsRing
<1>2. /\ c.size = b.size /\ c.trail = b.trail
      /\ c.head = IF b.head + n >= b.size THEN b.head + n - b.size ELSE b.head + n
  BY MoveFields DEF Moved
<1>3. IsRing(c)
  BY <1>1, <1>2 DEF IsRing
<1>4. QED
  BY <1>1, <1>2, <1>3 DEF Length

-----------------------------------------------------------------------------
(* The bytes of a ring of n bytes, each of them in S.                       *)

Ring(n, S) == [size : {n}, data : [0..n - 1 -> S], head : 0..n - 1, trail : 0..n - 1]

\* Where the i-th used byte is, and the byte.
Place(b, i)    == Moved(b, b.head, i - 1)
UsedByte(b, i) == b.data[Place(b, i)]

LEMMA RingFields ==
  ASSUME NEW n \in Nat \ {0}, NEW S, NEW b \in Ring(n, S)
  PROVE  /\ IsBuf(b) /\ b.size = n /\ b.data \in [0..n - 1 -> S]
         /\ b.head \in 0..n - 1 /\ b.trail \in 0..n - 1 /\ Length(b) \in 0..n - 1
<1>1. IsRing(b) /\ b.size = n
  BY DEF Ring, IsRing
<1> QED
  BY <1>1, LengthRange DEF Ring, IsBuf

LEMMA LengthIs ==
  ASSUME NEW n \in Nat \ {0}, NEW S, NEW b \in Ring(n, S)
  PROVE  Length(b) = IF b.trail >= b.head THEN b.trail - b.head ELSE b.trail - b.head + n
BY RingFields DEF Length

LEMMA PlaceIs ==
  ASSUME NEW n \in Nat \ {0}, NEW S, NEW b \in Ring(n, S), NEW i \in 1..n
  PROVE  /\ Place(b, i) = IF b.head + i - 1 >= n THEN b.head + i - 1 - n ELSE b.head + i - 1
         /\ Place(b, i) \in 0..n - 1 /\ UsedByte(b, i) \in S
<1>1. Place(b, i) = IF b.head + i - 1 >= n THEN b.head + i - 1 - n ELSE b.head + i - 1
  BY RingFields DEF Place, Moved
<1>2. Place(b, i) \in 0..n - 1
  BY <1>1, RingFields
<1> QED
  BY <1>1, <1>2, RingFields DEF UsedByte

-----------------------------------------------------------------------------
(* Copies out of it.                                                        *)

LEMMA BytesAre ==
  ASSUME NEW n \in Nat \ {0}, NEW S, NEW b \in Ring(n, S), NEW at \in Nat, NEW len \in Nat,
         at + len <= n
  PROVE  /\ Bytes(b, Piece(at, len)) \in Seq(S)
         /\ Len(Bytes(b, Piece(at, len))) = len
         /\ \A i \in 1..len : Bytes(b, Piece(at, len))[i] = b.data[at + i - 1]
<1>1. Bytes(b, Piece(at, len)) = [i \in 1..len |-> b.data[at + i - 1]]
  BY DEF Bytes, Piece
<1>2. \A i \in 1..len : at + i - 1 \in 0..n - 1
  OBVIOUS
<1>3. \A i \in 1..len : b.data[at + i - 1] \in S
  BY <1>2, RingFields
<1> QED
  BY <1>1, <1>3

LEMMA ModOnce ==
  ASSUME NEW n \in Nat \ {0}, NEW p \in Nat, p < 2 * n
  PROVE  p % n = IF p >= n THEN p - n ELSE p
<1>1. CASE p < n
  BY <1>1
<1>2. CASE p >= n
  BY <1>2
<1> QED BY <1>1, <1>2

\* copy_fast takes the first k used bytes, over the end of the buffer or not
\* (iocp_buffer.h:87-97).
LEMMA FastCopyIs ==
  ASSUME NEW n \in Nat \ {0}, NEW S, NEW b \in Ring(n, S), NEW k \in 0..Length(b)
  PROVE  /\ FastCopy(b, k) \in Seq(S)
         /\ Len(FastCopy(b, k)) = k
         /\ \A i \in 1..k : FastCopy(b, k)[i] = UsedByte(b, i)
<1> DEFINE used == UsedBufs(b)
           n1   == IF k >= used[1].len THEN used[1].len ELSE k
<1>1. /\ b.head \in 0..n - 1 /\ b.trail \in 0..n - 1 /\ b.size = n /\ Length(b) \in 0..n - 1
      /\ IsRing(b)
  BY RingFields DEF IsBuf
<1>2. /\ used[1].len + used[2].len = Length(b)
      /\ used[1].at = b.head /\ used[1].at + used[1].len <= n
      /\ used[2].at = 0 /\ used[2].len <= b.head
      /\ used[1].len \in Nat /\ used[2].len \in Nat
      /\ used[2].len > 0 => used[1].len = n - b.head
  BY <1>1, UsedPieces, LengthIs DEF UsedBufs, Piece
<1>3. FastCopy(b, k) = Bytes(b, Piece(b.head, n1)) \o Bytes(b, Piece(0, k - n1))
  BY <1>2 DEF FastCopy
<1> HIDE DEF used
<1>4. PICK h \in Nat, l1 \in Nat, l2 \in Nat :
        /\ h = b.head /\ l1 = n1 /\ l2 = k - n1 /\ h < n
        /\ h + l1 <= n /\ l2 <= n /\ k = l1 + l2 /\ l2 <= h
        /\ l2 > 0 => l1 = n - h
  <2>1. PICK h \in Nat, u1 \in Nat, u2 \in Nat, l \in Nat :
          h = b.head /\ u1 = used[1].len /\ u2 = used[2].len /\ l = Length(b)
    BY <1>1, <1>2
  <2>2. /\ h < n /\ u1 + u2 = l /\ h + u1 <= n /\ u2 <= h /\ k \in 0..l
        /\ u2 > 0 => u1 = n - h
    BY <1>1, <1>2, <2>1
  <2>3. n1 = IF k >= u1 THEN u1 ELSE k
    BY <2>1
  <2> HIDE DEF n1
  <2>4. /\ n1 \in Nat /\ k - n1 \in Nat /\ h + n1 <= n /\ k - n1 <= n /\ k = n1 + (k - n1)
        /\ k - n1 <= h /\ (k - n1 > 0 => n1 = n - h)
    BY <2>2, <2>3, SMTT(30)
  <2> QED BY <2>1, <2>2, <2>4
<1> HIDE DEF n1
<1> DEFINE x == Bytes(b, Piece(h, l1))
           y == Bytes(b, Piece(0, l2))
           z == x \o y
<1>5. FastCopy(b, k) = z
  BY <1>3, <1>4
<1>6. x \in Seq(S) /\ Len(x) = l1 /\ \A i \in 1..l1 : x[i] = b.data[h + i - 1]
  <2>0. h + l1 <= n
    BY <1>4
  <2>1. Bytes(b, Piece(h, l1)) \in Seq(S)
    BY <2>0, BytesAre
  <2>2. Len(Bytes(b, Piece(h, l1))) = l1
    BY <2>0, BytesAre
  <2>3. \A i \in 1..l1 : Bytes(b, Piece(h, l1))[i] = b.data[h + i - 1]
    BY <2>0, BytesAre
  <2> QED BY <2>1, <2>2, <2>3
<1>7. y \in Seq(S) /\ Len(y) = l2 /\ \A i \in 1..l2 : y[i] = b.data[0 + i - 1]
  <2>0. 0 \in Nat /\ 0 + l2 <= n
    BY <1>4
  <2>1. Bytes(b, Piece(0, l2)) \in Seq(S)
    BY <2>0, BytesAre
  <2>2. Len(Bytes(b, Piece(0, l2))) = l2
    BY <2>0, BytesAre
  <2>3. \A i \in 1..l2 : Bytes(b, Piece(0, l2))[i] = b.data[0 + i - 1]
    BY <2>0, BytesAre
  <2> QED BY <2>1, <2>2, <2>3
<1> HIDE DEF x, y
<1>8. /\ z \in Seq(S) /\ Len(z) = l1 + l2
      /\ \A i \in 1..l1 + l2 : z[i] = IF i <= l1 THEN x[i] ELSE y[i - l1]
  <2>1. z \in Seq(S) /\ Len(z) = Len(x) + Len(y)
    BY <1>6, <1>7, ConcatProperties
  <2>2. \A i \in 1..Len(x) + Len(y) : z[i] = IF i <= Len(x) THEN x[i] ELSE y[i - Len(x)]
    BY <1>6, <1>7, ConcatProperties
  <2> HIDE DEF z
  <2> QED BY <1>6, <1>7, <2>1, <2>2
<1> HIDE DEF z
<1>9. ASSUME NEW i \in 1..k PROVE z[i] = UsedByte(b, i)
  <2>1. i \in 1..n /\ i \in 1..l1 + l2
    BY <1>1, <1>4
  <2>2. Place(b, i) = IF h + i - 1 >= n THEN h + i - 1 - n ELSE h + i - 1
    BY <1>4, <2>1, PlaceIs
  <2>3. Place(b, i) = IF i <= l1 THEN h + i - 1 ELSE i - l1 - 1
    BY <1>4, <2>1, <2>2
  <2>4. CASE i <= l1
    BY <1>6, <1>8, <2>1, <2>3, <2>4 DEF UsedByte
  <2>5. CASE ~(i <= l1)
    <3>1. i - l1 \in 1..l2 /\ 0 + (i - l1) - 1 = i - l1 - 1
      BY <2>1, <2>5
    <3> QED BY <1>7, <1>8, <2>1, <2>3, <2>5, <3>1 DEF UsedByte
  <2> QED BY <2>4, <2>5
<1> QED BY <1>4, <1>5, <1>8, <1>9

\* and so does copy_safe (iocp_buffer.h:78-86).
LEMMA SafeCopyIs ==
  ASSUME NEW n \in Nat \ {0}, NEW S, NEW b \in Ring(n, S), NEW k \in 0..Length(b)
  PROVE  SafeCopy(b, k) = [i \in 1..k |-> UsedByte(b, i)]
<1>1. /\ b.head \in 0..n - 1 /\ b.size = n /\ Length(b) \in 0..n - 1
  BY RingFields
<1>2. CASE b.head + k <= n
  <2>1. ASSUME NEW i \in 1..k PROVE b.data[b.head + i - 1] = UsedByte(b, i)
    <3>1. i \in 1..n BY <1>1
    <3>2. Place(b, i) = b.head + i - 1 BY <1>1, <1>2, <3>1, PlaceIs
    <3> QED BY <3>2 DEF UsedByte
  <2> QED BY <1>1, <1>2, <2>1 DEF SafeCopy, Bytes, Piece
<1>3. CASE ~(b.head + k <= n)
  <2>1. ASSUME NEW i \in 1..k PROVE b.data[(b.head + i - 1) % n] = UsedByte(b, i)
    <3>1. i \in 1..n BY <1>1
    <3>2. Place(b, i) = IF b.head + i - 1 >= n THEN b.head + i - 1 - n ELSE b.head + i - 1
      BY <3>1, PlaceIs
    <3>3. (b.head + i - 1) % n = Place(b, i)
      <4>1. PICK p \in Nat : p = b.head + i - 1 /\ p < 2 * n
        BY <1>1, <3>1
      <4>2. p % n = IF p >= n THEN p - n ELSE p
        BY <4>1, ModOnce
      <4>3. Place(b, i) = IF p >= n THEN p - n ELSE p
        BY <3>2, <4>1, <1>1
      <4> QED BY <4>1, <4>2, <4>3
    <3> QED BY <3>3 DEF UsedByte
  <2> QED BY <1>1, <1>3, <2>1 DEF SafeCopy
<1> QED BY <1>1, <1>2, <1>3

-----------------------------------------------------------------------------
(* Moving its head and its trail.                                           *)

LEMMA HeadMoved ==
  ASSUME NEW n \in Nat \ {0}, NEW S, NEW b \in Ring(n, S), NEW k \in 0..Length(b)
  PROVE  /\ HeadMove(b, k) \in Ring(n, S)
         /\ Length(HeadMove(b, k)) = Length(b) - k
         /\ \A i \in 1..Length(b) - k : UsedByte(HeadMove(b, k), i) = UsedByte(b, k + i)
<1> DEFINE c == HeadMove(b, k)
<1>1. /\ b.head \in 0..n - 1 /\ b.size = n /\ Length(b) \in 0..n - 1 /\ IsBuf(b)
  BY RingFields
<1>2. /\ c.data = b.data
      /\ c.head = IF b.head + k >= n THEN b.head + k - n ELSE b.head + k
  BY <1>1, MoveFields DEF Moved
<1>3. c \in Ring(n, S)
  <2>1. Moved(b, b.head, k) \in 0..n - 1
    BY <1>1 DEF Moved
  <2> QED BY <2>1 DEF Ring, HeadMove
<1>4. Length(c) = Length(b) - k
  BY <1>1, HeadMoveLength
<1> HIDE DEF c
<1>5. ASSUME NEW i \in 1..Length(b) - k PROVE UsedByte(c, i) = UsedByte(b, k + i)
  <2>1. i \in 1..n /\ k + i \in 1..n
    BY <1>1
  <2>2. Place(c, i) = IF c.head + i - 1 >= n THEN c.head + i - 1 - n ELSE c.head + i - 1
    BY <1>3, <2>1, PlaceIs
  <2>3. Place(b, k + i) = IF b.head + (k + i) - 1 >= n THEN b.head + (k + i) - 1 - n
                                                     ELSE b.head + (k + i) - 1
    BY <2>1, PlaceIs
  <2>4. Place(c, i) = Place(b, k + i)
    BY <1>1, <1>2, <2>1, <2>2, <2>3
  <2> QED BY <1>2, <2>4 DEF UsedByte
<1> QED BY <1>3, <1>4, <1>5 DEF c

\* A write at p leaves the bytes elsewhere alone.
LEMMA StoreIs ==
  ASSUME NEW n \in Nat \ {0}, NEW S, NEW b \in Ring(n, S), NEW p \in 0..n - 1,
         NEW xs \in Seq(S), p + Len(xs) <= n
  PROVE  /\ Store(b, p, xs) \in Ring(n, S)
         /\ Store(b, p, xs).head = b.head /\ Store(b, p, xs).trail = b.trail
         /\ \A o \in 0..n - 1 : Store(b, p, xs).data[o] =
              IF o \in p..p + Len(xs) - 1 THEN xs[o - p + 1] ELSE b.data[o]
<1> DEFINE d == [o \in DOMAIN b.data |->
                   IF o \in p..p + Len(xs) - 1 THEN xs[o - p + 1] ELSE b.data[o]]
<1>1. b.data \in [0..n - 1 -> S] /\ Len(xs) \in Nat
  BY RingFields
<1>2. ASSUME NEW o \in 0..n - 1
      PROVE  (IF o \in p..p + Len(xs) - 1 THEN xs[o - p + 1] ELSE b.data[o]) \in S
  <2>1. CASE o \in p..p + Len(xs) - 1
    <3>1. o - p + 1 \in 1..Len(xs)
      BY <1>1, <2>1
    <3>2. xs[o - p + 1] \in S
      BY <3>1
    <3> QED BY <2>1, <3>2
  <2>2. CASE o \notin p..p + Len(xs) - 1
    BY <1>1, <2>2
  <2> QED BY <2>1, <2>2
<1>3. d \in [0..n - 1 -> S]
  BY <1>1, <1>2
<1>4. Store(b, p, xs) = [b EXCEPT !.data = d]
  BY DEF Store
<1>5. \A o \in 0..n - 1 : d[o] = IF o \in p..p + Len(xs) - 1 THEN xs[o - p + 1] ELSE b.data[o]
  BY <1>1
<1> HIDE DEF d
<1> QED BY <1>3, <1>4, <1>5 DEF Ring

\* Where the used bytes of a ring and those behind them are: h is its head, t its
\* trail, l its length; m bytes come, and k of them fit in behind t.
Slot(n, h, i) == IF h + i - 1 >= n THEN h + i - 1 - n ELSE h + i - 1

LEMMA UsedSlot ==
  ASSUME NEW n \in Nat, NEW h \in Nat, NEW t \in Nat, NEW l \in Nat, NEW m \in Nat,
         NEW k \in Nat, NEW i \in Nat, h < n, t < n,
         l = IF t >= h THEN t - h ELSE t - h + n, m < n - l, k <= m, t + k <= n,
         k < m => t >= h /\ k = n - t, 1 <= i, i <= l
  PROVE  /\ Slot(n, h, i) < t \/ Slot(n, h, i) >= t + k
         /\ Slot(n, h, i) >= m - k
BY DEF Slot

\* A scattered receive that does not fill the ring puts what it brings behind the
\* used bytes (iocp_buffer.h:42-53, 61-72).
LEMMA ScatterIs ==
  ASSUME NEW n \in Nat \ {0}, NEW S, NEW b \in Ring(n, S), NEW xs \in Seq(S),
         Len(xs) < n - Length(b)
  PROVE  /\ Scatter(b, xs) \in Ring(n, S)
         /\ Scatter(b, xs).head = b.head /\ Scatter(b, xs).trail = b.trail
         /\ \A i \in 1..Length(b) : UsedByte(Scatter(b, xs), i) = UsedByte(b, i)
         /\ \A j \in 1..Len(xs) : UsedByte(Scatter(b, xs), Length(b) + j) = xs[j]
<1> DEFINE piece == UnusedBufs(b)[1]
           n1    == IF Len(xs) >= piece.len THEN piece.len ELSE Len(xs)
           x     == SubSeq(xs, 1, n1)
           y     == SubSeq(xs, n1 + 1, Len(xs))
           a     == Store(b, piece.at, x)
           c     == Store(a, 0, y)
<1>1. /\ b.head \in 0..n - 1 /\ b.trail \in 0..n - 1 /\ b.size = n /\ Length(b) \in 0..n - 1
      /\ IsRing(b) /\ Len(xs) \in Nat
  BY RingFields DEF IsBuf
<1>2. Length(b) = IF b.trail >= b.head THEN b.trail - b.head ELSE b.trail - b.head + n
  BY LengthIs
<1>3. /\ piece.at = b.trail
      /\ piece.len = IF b.trail < b.head THEN b.head - b.trail ELSE n - b.trail
  BY <1>1 DEF UnusedBufs, Piece
<1>4. Scatter(b, xs) = c
  BY DEF Scatter
<1> HIDE DEF piece
<1>5. /\ n1 \in Nat /\ n1 <= Len(xs) /\ b.trail + n1 <= n
      /\ n1 < Len(xs) => b.trail >= b.head /\ n1 = n - b.trail /\ Len(xs) - n1 < b.head
  <2>1. PICK h \in 0..n - 1, t \in 0..n - 1, l \in Nat, k \in Nat :
          h = b.head /\ t = b.trail /\ l = Length(b) /\ k = Len(xs)
    BY <1>1
  <2>2. l = (IF t >= h THEN t - h ELSE t - h + n) /\ k < n - l
    BY <1>2, <2>1
  <2>3. n1 = IF k >= (IF t < h THEN h - t ELSE n - t)
             THEN (IF t < h THEN h - t ELSE n - t) ELSE k
    BY <1>3, <2>1
  <2> HIDE DEF n1
  <2>4. /\ n1 \in Nat /\ n1 <= k /\ t + n1 <= n
        /\ n1 < k => t >= h /\ n1 = n - t /\ k - n1 < h
    BY <2>2, <2>3, SMTT(30)
  <2> QED BY <2>1, <2>4
<1> HIDE DEF n1
<1>6. x \in Seq(S) /\ Len(x) = n1 /\ (\A i \in 1..n1 : x[i] = xs[i])
  BY <1>1, <1>5, SMTT(30)
<1>7. y \in Seq(S) /\ Len(y) = Len(xs) - n1 /\ (\A i \in 1..Len(xs) - n1 : y[i] = xs[n1 + i])
  <2>1. PICK k \in Nat : k = Len(xs) /\ n1 \in 0..k
    BY <1>1, <1>5
  <2>2. \A i \in n1 + 1..k : xs[i] \in S
    BY <2>1
  <2>3. n1 + 1 \in Int /\ k \in Int
    BY <2>1
  <2>4. y \in Seq(S)
    BY <2>1, <2>2, <2>3, SubSeqProperties
  <2>5. Len(y) = IF n1 + 1 <= k THEN k - (n1 + 1) + 1 ELSE 0
    BY <2>1, <2>2, <2>3, SubSeqProperties
  <2>6. \A i \in 1..k - (n1 + 1) + 1 : y[i] = xs[n1 + 1 + i - 1]
    BY <2>1, <2>2, <2>3, SubSeqProperties
  <2>7. /\ (IF n1 + 1 <= k THEN k - (n1 + 1) + 1 ELSE 0) = k - n1
        /\ k - (n1 + 1) + 1 = k - n1
        /\ \A i \in 1..k - n1 : n1 + 1 + i - 1 = n1 + i
    BY <2>1
  <2> HIDE DEF y
  <2> QED BY <2>1, <2>4, <2>5, <2>6, <2>7
<1> HIDE DEF x, y
<1>8. /\ a \in Ring(n, S) /\ a.head = b.head /\ a.trail = b.trail
      /\ \A o \in 0..n - 1 : a.data[o] =
           IF o \in b.trail..b.trail + n1 - 1 THEN x[o - b.trail + 1] ELSE b.data[o]
  <2>1. PICK p \in 0..n - 1 : p = b.trail
    BY <1>1
  <2>2. p + Len(x) <= n /\ x \in Seq(S)
    BY <1>5, <1>6, <2>1
  <2>3. a = Store(b, p, x)
    BY <1>3, <2>1
  <2> HIDE DEF a
  <2>4. Store(b, p, x) \in Ring(n, S)
    BY <2>2, StoreIs
  <2>5. Store(b, p, x).head = b.head
    BY <2>2, StoreIs
  <2>6. Store(b, p, x).trail = b.trail
    BY <2>2, StoreIs
  <2>7. \A o \in 0..n - 1 : Store(b, p, x).data[o] =
          IF o \in p..p + Len(x) - 1 THEN x[o - p + 1] ELSE b.data[o]
    BY <2>2, StoreIs
  <2> QED BY <1>6, <2>1, <2>3, <2>4, <2>5, <2>6, <2>7
<1> HIDE DEF a
<1>9. /\ c \in Ring(n, S) /\ c.head = b.head /\ c.trail = b.trail
      /\ \A o \in 0..n - 1 : c.data[o] =
           IF o \in 0..0 + (Len(xs) - n1) - 1 THEN y[o - 0 + 1] ELSE a.data[o]
  <2>1. 0 \in 0..n - 1 /\ 0 + Len(y) <= n
    BY <1>1, <1>5, <1>7
  <2> QED BY <1>7, <1>8, <2>1, StoreIs
<1> HIDE DEF c
<1>10. \A i \in 1..n : Place(c, i) = Slot(n, b.head, i)
  BY <1>9, PlaceIs DEF Slot
<1>m. PICK m \in Nat : m = Len(xs)
  BY <1>1
<1>n. PICK l \in Nat : l = Length(b)
  BY <1>1
<1>h. /\ b.head \in Nat /\ b.trail \in Nat /\ b.head < n /\ b.trail < n /\ n \in Nat
      /\ l = IF b.trail >= b.head THEN b.trail - b.head ELSE b.trail - b.head + n
      /\ m < n - l /\ n1 \in Nat /\ n1 <= m /\ b.trail + n1 <= n
      /\ n1 < m => b.trail >= b.head /\ n1 = n - b.trail
  BY <1>1, <1>2, <1>5, <1>m, <1>n
<1>11. ASSUME NEW i \in 1..Length(b) PROVE UsedByte(c, i) = UsedByte(b, i)
  <2>1. i \in 1..n
    BY <1>1
  <2>2. Place(b, i) = Slot(n, b.head, i)
    BY <2>1, PlaceIs DEF Slot
  <2>3. Place(c, i) = Place(b, i)
    BY <1>10, <2>1, <2>2
  <2>4. PICK o \in 0..n - 1 : o = Place(b, i)
    BY <2>1, PlaceIs
  <2>a. i \in Nat /\ 1 <= i /\ i <= l
    BY <1>n
  <2>b. (o < b.trail \/ o >= b.trail + n1) /\ o >= m - n1
    <3>1. /\ Slot(n, b.head, i) < b.trail \/ Slot(n, b.head, i) >= b.trail + n1
          /\ Slot(n, b.head, i) >= m - n1
      BY ONLY <1>h, <2>a, UsedSlot, l \in Nat, m \in Nat
    <3> QED BY ONLY <2>2, <2>4, <3>1
  <2>5. o \notin b.trail..b.trail + n1 - 1
    BY SMTT(30), <1>h, <2>b
  <2>6. o \notin 0..0 + (Len(xs) - n1) - 1
    BY <1>h, <1>m, <2>b
  <2>7. c.data[o] = b.data[o]
    BY <1>8, <1>9, <2>5, <2>6
  <2> QED BY <2>3, <2>4, <2>7 DEF UsedByte
<1>12. ASSUME NEW j \in 1..Len(xs) PROVE UsedByte(c, Length(b) + j) = xs[j]
  <2>1. PICK i \in 1..n : i = Length(b) + j
    BY <1>1
  <2>2. PICK o \in 0..n - 1 : o = Place(c, i)
    BY <1>9, PlaceIs
  <2>3. o = Slot(n, b.head, i)
    BY <1>10, <2>2
  <2>a. j \in Nat /\ i \in Nat /\ 1 <= j /\ j <= m /\ i = l + j
    BY <1>m, <1>n, <2>1
  <2>b. /\ j <= n1 => o = b.trail + j - 1 /\ b.trail + j - 1 >= m - n1
        /\ j > n1 => o = j - n1 - 1
    <3>1. PICK h \in Nat, t \in Nat, k \in Nat : h = b.head /\ t = b.trail /\ k = n1
      BY <1>h
    <3>2. /\ h < n /\ t < n /\ l = IF t >= h THEN t - h ELSE t - h + n
          /\ m < n - l /\ k <= m /\ t + k <= n /\ (k < m => t >= h /\ k = n - t)
      BY ONLY <1>h, <3>1
    <3>3. IF j <= k THEN Slot(n, h, i) = t + j - 1 /\ t + j - 1 >= m - k
                    ELSE Slot(n, h, i) = j - k - 1
      BY <2>a, <3>2 DEF Slot
    <3> QED BY ONLY <2>a, <2>3, <3>1, <3>2, <3>3, m \in Nat
  <2>4. CASE j <= n1
    <3>1. o = b.trail + j - 1 /\ o >= Len(xs) - n1
      BY <1>m, <2>b, <2>4
    <3>2. o \in b.trail..b.trail + n1 - 1 /\ o - b.trail + 1 = j /\ j \in 1..n1
      BY SMTT(30), <1>1, <1>5, <2>4, <3>1
    <3>3. o \notin 0..0 + (Len(xs) - n1) - 1
      BY <1>1, <1>5, <3>1
    <3>4. c.data[o] = x[j]
      BY <1>8, <1>9, <3>2, <3>3
    <3> QED BY <1>6, <2>1, <2>2, <3>2, <3>4 DEF UsedByte
  <2>5. CASE j > n1
    <3>1. o = j - n1 - 1 /\ n1 < Len(xs)
      BY <1>h, <1>m, <2>a, <2>b, <2>5
    <3>2. /\ o \in 0..0 + (Len(xs) - n1) - 1 /\ o - 0 + 1 = j - n1
          /\ j - n1 \in 1..Len(xs) - n1 /\ n1 + (j - n1) = j
      BY <1>1, <1>5, <2>5, <3>1
    <3>3. c.data[o] = y[j - n1]
      BY <1>9, <3>2
    <3>4. y[j - n1] = xs[j]
      BY <1>7, <3>2
    <3> QED BY <2>1, <2>2, <3>3, <3>4 DEF UsedByte
  <2> QED BY <1>5, <2>4, <2>5
<1> QED BY <1>4, <1>9, <1>11, <1>12

LEMMA TrailMoved ==
  ASSUME NEW n \in Nat \ {0}, NEW S, NEW b \in Ring(n, S), NEW k \in Nat, k < n - Length(b)
  PROVE  /\ TrailMove(b, k) \in Ring(n, S)
         /\ Length(TrailMove(b, k)) = Length(b) + k
         /\ \A i : UsedByte(TrailMove(b, k), i) = UsedByte(b, i)
<1>1. /\ b.trail \in 0..n - 1 /\ b.size = n /\ Length(b) \in 0..n - 1 /\ IsBuf(b)
  BY RingFields
<1>2. k \in 0..b.size - Length(b)
  BY <1>1
<1>3. TrailMove(b, k) \in Ring(n, S)
  <2>1. Moved(b, b.trail, k) \in 0..n - 1
    BY <1>1 DEF Moved
  <2> QED BY <2>1 DEF Ring, TrailMove
<1>4. Length(TrailMove(b, k)) = Length(b) + k
  BY <1>1, <1>2, TrailMoveLength
<1>5. /\ TrailMove(b, k).data = b.data /\ TrailMove(b, k).head = b.head
      /\ TrailMove(b, k).size = b.size
  BY <1>1, MoveFields
<1> QED BY <1>3, <1>4, <1>5 DEF UsedByte, Place, Moved

-----------------------------------------------------------------------------
(* The stream.  The bytes of the current round are in the send buffer, from *)
(* 0 to its trail, until the next round begins: a position in the stream    *)
(* since then is an index of the send buffer.                               *)

Marks == (0..MaxSent) \X Nat
Types ==
  /\ sent \in Seq(Sizes) /\ Len(sent) <= MaxSent
  /\ _send_buf \in Ring(SendSize, Marks) /\ _recv_buf \in Ring(RecvSize, Marks)
  /\ _send_buf.head <= _send_buf.trail
  /\ send_at \in {"idle", "fill", "sending", "sent", "failed"}
  /\ trans \in 0..SendSize
  /\ send_at = "sent" => trans <= _send_buf.trail - _send_buf.head
  /\ wire \in Seq((1..MaxSent) \X (Nat \ {0})) /\ Len(wire) <= WireSize
  /\ recv_at \in {"idle", "receiving", "parse", "failed"}
  /\ recv_trans \in 0..RecvSize
  /\ recv_at = "parse" => recv_trans < RecvSize - Length(_recv_buf)
  /\ _io_recv_buf_len \in {0} \cup UserSizes
  /\ _pack_size \in {0} \cup Sizes
  /\ got \in Seq(Seq(Marks))

\* The m-th package lies at f of d, which ends at e, and the next one behind it;
\* s are the sizes of the packages.
PackageAt(d, e, s, f, m) ==
  /\ f + Header + s[m] <= e
  /\ \A j \in 1..Header + s[m] : d[f + j - 1] = <<m, j>>
  /\ IF f + Header + s[m] = e THEN m = Len(s) ELSE d[f + Header + s[m]] = <<m + 1, 1>>
Whole(d, e, s) ==
  \A p \in 0..e - 1 : \E f \in 0..p, m \in DOMAIN s :
    p < f + Header + s[m] /\ PackageAt(d, e, s, f, m)

\* The used bytes of the ring r, and behind them the wire w, are the bytes of d
\* up to h.
Along(d, h, w, r) ==
  /\ Len(w) + Length(r) <= h
  /\ \A i \in 1..Len(w) : w[i] = d[h - Len(w) + i - 1]
  /\ \A i \in 1..Length(r) : UsedByte(r, i) = d[h - Len(w) - Length(r) + i - 1]

\* At c begins the package behind those in g.
Waits(d, e, c, s, g) == IF c = e THEN Len(g) = Len(s) ELSE d[c] = <<Len(g) + 1, 1>>

Taken == Unsent.head - Len(wire) - Length(Received)
FramingInv ==
  /\ Types
  /\ Whole(_send_buf.data, _send_buf.trail, sent)
  /\ Along(_send_buf.data, Unsent.head, wire, Received)
  /\ Waits(_send_buf.data, _send_buf.trail, Taken, sent, got)
  /\ GotWhatWasSent

-----------------------------------------------------------------------------
LEMMA Constants ==
  /\ Header \in Nat \ {0} /\ SendSize \in Nat \ {0} /\ RecvSize \in Nat \ {0}
  /\ Header < SendSize /\ Header < RecvSize
  /\ Sizes \subseteq Nat \ {0} /\ UserSizes \subseteq Nat \ {0}
  /\ MaxSent \in Nat /\ WireSize \in Nat \ {0} /\ Streaming \in BOOLEAN
BY FramingAssumption

LEMMA Elements ==
  ASSUME NEW S, NEW x \in Seq(S)
  PROVE  /\ DOMAIN x = 1..Len(x) /\ Len(x) \in Nat
         /\ \A i \in DOMAIN x : x[i] \in S
OBVIOUS

\* Where a package begins, it is.
LEMMA PackageThere ==
  ASSUME NEW s \in Seq(Nat \ {0}), NEW d, NEW e \in Nat, Whole(d, e, s),
         NEW c \in Nat, c < e, NEW m, d[c] = <<m, 1>>
  PROVE  m \in DOMAIN s /\ PackageAt(d, e, s, c, m)
<1>1. c \in 0..e - 1
  OBVIOUS
<1>2. PICK f \in 0..c, k \in DOMAIN s : c < f + Header + s[k] /\ PackageAt(d, e, s, f, k)
  BY <1>1 DEF Whole
<1>3. PICK l \in Nat : l = Header + s[k]
  BY Constants, Elements
<1>4. f + l = f + Header + s[k]
  BY <1>3, Constants, Elements
<1>5. PICK j \in 1..l : f + j - 1 = c
  <2>1. c - f + 1 \in 1..l /\ f + (c - f + 1) - 1 = c
    BY <1>2, <1>4
  <2> QED BY <2>1
<1>6. d[c] = <<k, j>>
  BY <1>2, <1>3, <1>5 DEF PackageAt
<1>7. k = m /\ j = 1
  BY <1>6
<1>8. f = c
  BY <1>5, <1>7
<1> QED BY <1>2, <1>7, <1>8

\* An application that has got every package has taken every byte.
LEMMA AllTaken ==
  ASSUME NEW s \in Seq(Nat \ {0}), NEW d, NEW e \in Nat, Whole(d, e, s),
         NEW c \in Nat, c <= e, NEW g, Len(g) = Len(s), Waits(d, e, c, s, g)
  PROVE  c = e
<1> SUFFICES ASSUME c # e PROVE FALSE
  OBVIOUS
<1>1. c < e /\ d[c] = <<Len(s) + 1, 1>>
  BY DEF Waits
<1>2. Len(s) + 1 \in DOMAIN s
  BY <1>1, PackageThere
<1> QED BY <1>2, Elements

\* A package is added behind the others.
LEMMA WholeAdded ==
  ASSUME NEW s \in Seq(Nat \ {0}), NEW d, NEW e \in Nat, Whole(d, e, s),
         NEW n \in Nat \ {0}, NEW x, NEW l \in Nat, l = e + Header + n,
         \A p \in 0..e - 1 : x[p] = d[p],
         \A j \in 1..Header + n : x[e + j - 1] = <<Len(s) + 1, j>>
  PROVE  Whole(x, l, Append(s, n))
<1> DEFINE t == Append(s, n)
<1>1. /\ t \in Seq(Nat \ {0}) /\ Len(t) = Len(s) + 1 /\ t[Len(s) + 1] = n
      /\ DOMAIN s = 1..Len(s) /\ DOMAIN t = 1..Len(s) + 1 /\ Len(s) \in Nat
      /\ \A m \in DOMAIN s : t[m] = s[m] /\ s[m] \in Nat \ {0}
  BY Elements
<1> HIDE DEF t
<1>2. Header \in Nat \ {0}
  BY Constants
<1>3. x[e] = <<Len(s) + 1, 1>>
  <2>1. 1 \in 1..Header + n /\ e + 1 - 1 = e
    BY <1>2
  <2> QED BY <2>1
<1>4. ASSUME NEW p \in 0..l - 1
      PROVE  \E f \in 0..p, m \in DOMAIN t :
               p < f + Header + t[m] /\ PackageAt(x, l, t, f, m)
  <2>1. CASE p < e
    <3>1. p \in 0..e - 1
      BY <2>1
    <3>2. PICK f \in 0..p, m \in DOMAIN s : p < f + Header + s[m] /\ PackageAt(d, e, s, f, m)
      BY <3>1 DEF Whole
    <3>3. m \in DOMAIN t /\ t[m] = s[m] /\ s[m] \in Nat \ {0}
      BY <1>1
    <3>4. f + Header + s[m] <= e /\ f + Header + s[m] < l
      BY <1>2, <3>2, <3>3 DEF PackageAt
    <3>5. ASSUME NEW j \in 1..Header + s[m] PROVE x[f + j - 1] = <<m, j>>
      <4>1. f + j - 1 \in 0..e - 1
        BY SMTT(30), <1>2, <3>3, <3>4
      <4> QED BY <3>2, <4>1 DEF PackageAt
    <3>6. x[f + Header + s[m]] = <<m + 1, 1>>
      <4>1. CASE f + Header + s[m] = e
        BY <1>3, <3>2, <4>1 DEF PackageAt
      <4>2. CASE f + Header + s[m] # e
        <5>1. PICK k \in Nat : k = f + Header + s[m]
          BY SMTT(30), <1>2, <3>3
        <5>2. k \in 0..e - 1 /\ d[k] = <<m + 1, 1>>
          BY SMTT(30), <3>2, <3>4, <4>2, <5>1 DEF PackageAt
        <5> QED BY <5>1, <5>2
      <4> QED BY <4>1, <4>2
    <3>7. PackageAt(x, l, t, f, m)
      BY SMTT(30), <1>2, <3>3, <3>4, <3>5, <3>6 DEF PackageAt
    <3> QED BY <3>2, <3>3, <3>7
  <2>2. CASE p >= e
    <3>1. PICK m \in DOMAIN t : m = Len(s) + 1 /\ t[m] = n
      BY <1>1
    <3>2. PackageAt(x, l, t, e, m)
      BY SMTT(30), <1>1, <1>2, <3>1 DEF PackageAt
    <3>3. e \in 0..p /\ p < e + Header + t[m]
      BY <1>2, <2>2, <3>1
    <3> QED BY <3>2, <3>3
  <2> QED BY <2>1, <2>2
<1> QED BY <1>4 DEF Whole, t

-----------------------------------------------------------------------------
(* What FramingInv says of the buffers.                                     *)

LEMMA Sender ==
  ASSUME Types
  PROVE  /\ _send_buf.head \in Nat /\ _send_buf.trail \in Nat
         /\ _send_buf.head <= _send_buf.trail /\ _send_buf.trail < SendSize
         /\ Length(_send_buf) = _send_buf.trail - _send_buf.head
         /\ Unsent \in Ring(SendSize, Marks)
         /\ Unsent.data = _send_buf.data /\ Unsent.trail = _send_buf.trail
         /\ Unsent.head = IF send_at = "sent" THEN _send_buf.head + trans ELSE _send_buf.head
         /\ Unsent.head \in Nat /\ Unsent.head <= _send_buf.trail
<1>1. /\ _send_buf.head \in 0..SendSize - 1 /\ _send_buf.trail \in 0..SendSize - 1
      /\ _send_buf.size = SendSize /\ IsBuf(_send_buf)
  BY Constants, RingFields DEF Types
<1>2. Length(_send_buf) = _send_buf.trail - _send_buf.head
  BY <1>1, Constants DEF Types, Length
<1>3. CASE send_at = "sent"
  <2>1. trans \in 0..Length(_send_buf)
    BY <1>2, <1>3 DEF Types
  <2>2. Unsent = HeadMove(_send_buf, trans)
    BY <1>3 DEF Unsent
  <2>3. Unsent \in Ring(SendSize, Marks)
    BY <2>1, <2>2, Constants, HeadMoved DEF Types
  <2>4. /\ Unsent.data = _send_buf.data /\ Unsent.trail = _send_buf.trail
        /\ Unsent.head = Moved(_send_buf, _send_buf.head, trans)
    BY <1>1, <2>2, MoveFields
  <2>5. Unsent.head = _send_buf.head + trans
    BY <1>1, <1>2, <2>1, <2>4, Constants DEF Moved
  <2> QED BY SMTT(30), <1>1, <1>2, <1>3, <2>1, <2>3, <2>4, <2>5, Constants DEF Types
<1>4. CASE send_at # "sent"
  BY <1>1, <1>2, <1>4, Constants DEF Types, Unsent
<1> QED BY <1>3, <1>4

LEMMA Receiver ==
  ASSUME Types
  PROVE  /\ _recv_buf.size = RecvSize /\ Length(_recv_buf) \in 0..RecvSize - 1
         /\ Received \in Ring(RecvSize, Marks)
         /\ Length(Received) \in 0..RecvSize - 1
<1>1. /\ _recv_buf.size = RecvSize /\ Length(_recv_buf) \in 0..RecvSize - 1
  BY Constants, RingFields DEF Types
<1>2. CASE recv_at = "parse"
  <2>1. recv_trans \in Nat /\ recv_trans < RecvSize - Length(_recv_buf)
    BY <1>2 DEF Types
  <2>2. Received \in Ring(RecvSize, Marks)
    BY <1>2, <2>1, Constants, TrailMoved DEF Types, Received
  <2> QED BY <1>1, <2>2, Constants, RingFields
<1>3. CASE recv_at # "parse"
  BY <1>1, <1>3 DEF Types, Received
<1> QED BY <1>2, <1>3

LEMMA SizesAre ==
  ASSUME Types
  PROVE  /\ sent \in Seq(Nat \ {0}) /\ DOMAIN sent = 1..Len(sent) /\ Len(sent) \in Nat
         /\ \A m \in DOMAIN sent : sent[m] \in Sizes /\ sent[m] \in Nat \ {0}
<1>1. sent \in Seq(Sizes) /\ Sizes \subseteq Nat \ {0}
  BY Constants DEF Types
<1>2. sent \in Seq(Nat \ {0})
  BY <1>1, SeqMonotonic
<1> QED BY <1>1, <1>2, Elements

\* The bytes that have been taken, those that wait and those under way are not
\* more than have been added, and fewer than either ring has room for.
LEMMA Counts ==
  ASSUME FramingInv, SendSize <= RecvSize
  PROVE  /\ Taken \in Nat /\ Taken <= _send_buf.trail /\ Len(wire) \in Nat
         /\ Taken + Length(Received) + Len(wire) = Unsent.head
         /\ Unsent.head <= _send_buf.trail /\ _send_buf.trail < RecvSize
         /\ _send_buf.trail \in Nat /\ Unsent.head \in Nat
<1>1. Types /\ Len(wire) + Length(Received) <= Unsent.head
  BY DEF FramingInv, Along
<1>2. Len(wire) \in Nat
  BY <1>1 DEF Types
<1>3. /\ Unsent.head \in Nat /\ Unsent.head <= _send_buf.trail /\ _send_buf.trail < SendSize
      /\ _send_buf.trail \in Nat
  BY <1>1, Sender
<1>4. Length(Received) \in Nat
  BY <1>1, Receiver, Constants
<1> QED BY <1>1, <1>2, <1>3, <1>4, Constants DEF Taken

-----------------------------------------------------------------------------
LEMMA InitFraming == Init => FramingInv
<1> SUFFICES ASSUME Init PROVE FramingInv
  OBVIOUS
<1>1. /\ _send_buf \in Ring(SendSize, Marks) /\ _recv_buf \in Ring(RecvSize, Marks)
      /\ _send_buf.head = 0 /\ _send_buf.trail = 0
      /\ _recv_buf.head = 0 /\ _recv_buf.trail = 0
  <2>1. 0 \in 0..SendSize - 1 /\ 0 \in 0..RecvSize - 1 /\ <<0, 0>> \in Marks
    BY Constants DEF Marks
  <2> QED BY <2>1 DEF Init, Created, Junk, Ring
<1>2. Length(_recv_buf) = 0
  BY <1>1 DEF Length
<1>3. /\ sent \in Seq(Sizes) /\ Len(sent) = 0 /\ Len(wire) = 0 /\ Len(got) = 0
      /\ wire \in Seq((1..MaxSent) \X (Nat \ {0})) /\ got \in Seq(Seq(Marks)) /\ got = <<>>
      /\ DOMAIN got = {}
  BY DEF Init
<1>4. Types
  BY <1>1, <1>2, <1>3, Constants DEF Init, Types
<1>5. Received = _recv_buf /\ Unsent = _send_buf
  BY DEF Init, Received, Unsent
<1>6. Whole(_send_buf.data, _send_buf.trail, sent)
  BY <1>1 DEF Whole
<1>7. Along(_send_buf.data, Unsent.head, wire, Received)
  BY <1>1, <1>2, <1>3, <1>5 DEF Along
<1>8. Waits(_send_buf.data, _send_buf.trail, Taken, sent, got)
  BY <1>1, <1>2, <1>3, <1>5 DEF Waits, Taken
<1>9. GotWhatWasSent
  BY <1>3 DEF GotWhatWasSent
<1> QED BY <1>4, <1>6, <1>7, <1>8, <1>9 DEF FramingInv

-----------------------------------------------------------------------------
(* The sender's steps.                                                      *)

LEMMA SendInitStep ==
  ASSUME ~Streaming, SendSize <= RecvSize, FramingInv, SendInit PROVE FramingInv'
<1>1. Types /\ GotWhatWasSent
  BY DEF FramingInv
<1>2. /\ _send_buf' = Reset(_send_buf) /\ send_at' = "fill" /\ Len(got) = Len(sent)
      /\ UNCHANGED <<sent, trans, wire, _recv_buf, recv_at, recv_trans, _io_recv_buf_len,
                     _pack_size, got>>
  BY DEF SendInit, recvVars
<1>3. /\ _send_buf' \in Ring(SendSize, Marks) /\ _send_buf'.head = 0 /\ _send_buf'.trail = 0
      /\ _send_buf'.data = _send_buf.data
  <2>1. 0 \in 0..SendSize - 1
    BY Constants
  <2> QED BY <1>1, <1>2, <2>1 DEF Types, Ring, Reset
<1>4. Unsent' = _send_buf' /\ Received' = Received
  BY <1>2 DEF Unsent, Received
<1>5. Taken = _send_buf.trail
  <2>1. /\ Whole(_send_buf.data, _send_buf.trail, sent)
        /\ Waits(_send_buf.data, _send_buf.trail, Taken, sent, got)
    BY DEF FramingInv
  <2>2. Taken \in Nat /\ _send_buf.trail \in Nat /\ Taken <= _send_buf.trail
    BY Counts
  <2>3. sent \in Seq(Nat \ {0})
    BY <1>1, SizesAre
  <2> QED BY <1>2, <2>1, <2>2, <2>3, AllTaken
<1>6. Len(wire) = 0 /\ Length(Received) = 0
  BY <1>1, <1>5, Counts, Receiver, Constants
<1>7. Taken' = 0
  BY <1>2, <1>3, <1>4, <1>6 DEF Taken
<1>8. Types'
  BY <1>1, <1>2, <1>3 DEF Types
<1>9. Whole(_send_buf.data, _send_buf.trail, sent)'
  BY <1>3 DEF Whole
<1>10. Along(_send_buf.data, Unsent.head, wire, Received)'
  BY <1>2, <1>3, <1>4, <1>6 DEF Along
<1>11. Waits(_send_buf.data, _send_buf.trail, Taken, sent, got)'
  BY <1>2, <1>3, <1>7 DEF Waits
<1>12. GotWhatWasSent'
  BY <1>1, <1>2 DEF GotWhatWasSent
<1> QED BY <1>8, <1>9, <1>10, <1>11, <1>12 DEF FramingInv

LEMMA SendAddStep ==
  ASSUME SendSize <= RecvSize, FramingInv, NEW n \in Sizes, SendAdd(n) PROVE FramingInv'
<1> DEFINE m == Len(sent) + 1
           x == Package(m, n)
           e == _send_buf.trail
<1>1. Types /\ GotWhatWasSent /\ n \in Nat \ {0} /\ Header \in Nat \ {0}
  BY Constants DEF FramingInv
<1>2. /\ send_at = "fill" /\ m <= MaxSent /\ DetectAdd(_send_buf, Header + n)
      /\ _send_buf' = TrailMove(Store(_send_buf, e, x), Header + n)
      /\ sent' = Append(sent, n)
      /\ UNCHANGED <<send_at, trans, wire, _recv_buf, recv_at, recv_trans,
                     _io_recv_buf_len, _pack_size, got>>
  <2>1. Len(sent) < MaxSent /\ Len(sent) \in Nat
    BY <1>1, SizesAre DEF SendAdd
  <2>2. m <= MaxSent
    BY <2>1, Constants
  <2> QED BY <2>2 DEF SendAdd, recvVars
<1>3. m \in 1..MaxSent
  BY <1>1, <1>2, SizesAre, Constants
<1>4. /\ x \in Seq(Marks) /\ Len(x) = Header + n
      /\ \A j \in 1..Header + n : x[j] = <<m, j>>
  <2>1. \A j \in 1..Header + n : <<m, j>> \in Marks
    BY <1>3, Constants DEF Marks
  <2> QED BY <1>1, <2>1 DEF Package
<1> HIDE DEF m, x
<1>5. /\ e \in 0..SendSize - 1 /\ e \in Nat /\ e + Header + n < SendSize
      /\ _send_buf.size = SendSize
  <2>1. _send_buf.size = SendSize /\ e \in 0..SendSize - 1
    BY <1>1, Constants, RingFields DEF Types
  <2> QED BY <1>1, <1>2, <2>1, Constants DEF DetectAdd
<1> DEFINE st == Store(_send_buf, e, x)
<1>6. /\ st \in Ring(SendSize, Marks) /\ st.head = _send_buf.head /\ st.trail = e
      /\ \A o \in 0..SendSize - 1 : st.data[o] =
           IF o \in e..e + Len(x) - 1 THEN x[o - e + 1] ELSE _send_buf.data[o]
  <2>1. e + Len(x) <= SendSize /\ _send_buf \in Ring(SendSize, Marks) /\ SendSize \in Nat \ {0}
    BY SMTT(30), <1>1, <1>4, <1>5, Constants DEF Types
  <2>2. PICK p \in 0..SendSize - 1 : p = e
    BY <1>5
  <2> HIDE DEF e
  <2>3. Store(_send_buf, p, x) \in Ring(SendSize, Marks)
    BY <1>4, <2>1, <2>2, StoreIs
  <2>4. Store(_send_buf, p, x).head = _send_buf.head
    BY <1>4, <2>1, <2>2, StoreIs
  <2>5. Store(_send_buf, p, x).trail = _send_buf.trail
    BY <1>4, <2>1, <2>2, StoreIs
  <2>6. \A o \in 0..SendSize - 1 : Store(_send_buf, p, x).data[o] =
           IF o \in p..p + Len(x) - 1 THEN x[o - p + 1] ELSE _send_buf.data[o]
    BY SMTT(30), <1>4, <2>1, <2>2, StoreIs
  <2> QED BY <2>2, <2>3, <2>4, <2>5, <2>6 DEF e
<1> HIDE DEF st
<1>7. /\ _send_buf' \in Ring(SendSize, Marks) /\ _send_buf'.head = _send_buf.head
      /\ _send_buf'.trail = e + Header + n /\ _send_buf'.data = st.data
  <2>1. _send_buf' = TrailMove(st, Header + n)
    BY <1>2 DEF st
  <2>2. Moved(st, st.trail, Header + n) = e + Header + n
    <3>1. st.size = SendSize /\ st.trail = e
      BY <1>6 DEF Ring
    <3>2. e + (Header + n) = e + Header + n /\ ~(e + (Header + n) >= SendSize)
      BY <1>1, <1>5, Constants
    <3> QED BY <3>1, <3>2 DEF Moved
  <2>3. e + Header + n \in 0..SendSize - 1
    BY <1>1, <1>5, Constants
  <2> QED BY <1>6, <2>1, <2>2, <2>3 DEF TrailMove, Ring
<1>8. /\ \A p \in 0..e - 1 : _send_buf'.data[p] = _send_buf.data[p]
      /\ \A j \in 1..Header + n : _send_buf'.data[e + j - 1] = <<m, j>>
  <2>1. ASSUME NEW p \in 0..e - 1 PROVE _send_buf'.data[p] = _send_buf.data[p]
    <3>1. p \in 0..SendSize - 1 /\ p \notin e..e + Len(x) - 1
      BY <1>1, <1>4, <1>5, Constants
    <3> QED BY <1>6, <1>7, <3>1
  <2>2. ASSUME NEW j \in 1..Header + n PROVE _send_buf'.data[e + j - 1] = <<m, j>>
    <3>1. PICK o \in 0..SendSize - 1 : o = e + j - 1
      BY <1>1, <1>5, Constants
    <3>2. o \in e..e + Len(x) - 1 /\ o - e + 1 = j
      BY <1>1, <1>4, <1>5, <3>1
    <3> QED BY <1>4, <1>6, <1>7, <3>1, <3>2
  <2> QED BY <2>1, <2>2
<1>9. Unsent'.head = Unsent.head /\ Received' = Received
  BY <1>2, <1>7 DEF Unsent, Received
<1>10. /\ Taken' = Taken /\ Taken \in Nat /\ Taken <= e /\ Unsent.head <= e
       /\ Unsent.head \in Nat /\ Len(wire) \in Nat /\ Length(Received) \in Nat
       /\ Taken + Length(Received) + Len(wire) = Unsent.head
  BY <1>1, <1>2, <1>9, Counts, Receiver, Constants DEF Taken
<1>11. Types'
  <2>1. sent' \in Seq(Sizes) /\ Len(sent') <= MaxSent
    BY <1>1, <1>2 DEF Types, m
  <2>2. _send_buf'.head <= _send_buf'.trail
    BY <1>1, <1>5, <1>7, Sender
  <2> QED BY <1>1, <1>2, <1>7, <2>1, <2>2 DEF Types
<1>12. Whole(_send_buf.data, _send_buf.trail, sent)'
  <2>1. Whole(_send_buf.data, e, sent) /\ sent \in Seq(Nat \ {0})
    BY <1>1, SizesAre DEF FramingInv
  <2>2. PICK l \in Nat : l = e + Header + n
    BY <1>1, <1>5
  <2>3. PICK y : y = _send_buf'.data
    OBVIOUS
  <2>4. /\ \A p \in 0..e - 1 : y[p] = _send_buf.data[p]
        /\ \A j \in 1..Header + n : y[e + j - 1] = <<Len(sent) + 1, j>>
    BY <1>8, <2>3 DEF m
  <2>5. Whole(y, l, Append(sent, n))
    BY <1>1, <1>5, <2>1, <2>2, <2>4, WholeAdded
  <2> QED BY <1>2, <1>7, <2>2, <2>3, <2>5
<1>13. Along(_send_buf.data, Unsent.head, wire, Received)'
  <2>1. /\ Len(wire) + Length(Received) <= Unsent.head
        /\ \A i \in 1..Len(wire) : wire[i] = _send_buf.data[Unsent.head - Len(wire) + i - 1]
        /\ \A i \in 1..Length(Received) : UsedByte(Received, i) =
             _send_buf.data[Unsent.head - Len(wire) - Length(Received) + i - 1]
    BY DEF FramingInv, Along
  <2>2. \A i \in 1..Len(wire) : Unsent.head - Len(wire) + i - 1 \in 0..e - 1
    BY SMTT(30), <1>5, <1>10
  <2>3. \A i \in 1..Length(Received) :
          Unsent.head - Len(wire) - Length(Received) + i - 1 \in 0..e - 1
    BY SMTT(30), <1>5, <1>10
  <2>4. wire' = wire
    BY <1>2
  <2> QED BY <1>8, <1>9, <2>1, <2>2, <2>3, <2>4 DEF Along
<1>14. Waits(_send_buf.data, _send_buf.trail, Taken, sent, got)'
  <2>1. Waits(_send_buf.data, e, Taken, sent, got)
    BY DEF FramingInv
  <2>2. Taken # e + Header + n
    BY <1>1, <1>5, <1>10
  <2>3. _send_buf'.data[Taken] = <<Len(got) + 1, 1>>
    <3>1. CASE Taken = e
      <4>1. 1 \in 1..Header + n /\ e + 1 - 1 = e
        BY <1>1, <1>5
      <4>2. _send_buf'.data[e] = <<m, 1>>
        BY <1>8, <4>1
      <4> QED BY <2>1, <3>1, <4>2 DEF Waits, m
    <3>2. CASE Taken # e
      <4>1. Taken \in 0..e - 1
        BY <1>5, <1>10, <3>2
      <4> QED BY <1>8, <2>1, <3>2, <4>1 DEF Waits
    <3> QED BY <3>1, <3>2
  <2> QED BY <1>2, <1>7, <1>10, <2>2, <2>3 DEF Waits
<1>15. GotWhatWasSent'
  <2>1. ASSUME NEW k \in DOMAIN got
        PROVE  k <= Len(sent') /\ got[k] = Content(k, sent'[k])
    <3>1. k <= Len(sent) /\ got[k] = Content(k, sent[k])
      BY <1>1 DEF GotWhatWasSent
    <3>2. k \in 1..Len(sent) /\ Len(sent) \in Nat
      BY SMTT(30), <1>1, <3>1, SizesAre DEF Types
    <3>3. sent'[k] = sent[k] /\ Len(sent') = Len(sent) + 1
      BY <1>1, <1>2, <3>2 DEF Types
    <3> QED BY <3>1, <3>2, <3>3
  <2> QED BY <1>2, <2>1 DEF GotWhatWasSent
<1> QED BY <1>11, <1>12, <1>13, <1>14, <1>15 DEF FramingInv

\* send() and the completion change what has been sent in name only.
LEMMA SameStream ==
  ASSUME FramingInv, Types', Unsent'.head = Unsent.head,
         _send_buf'.data = _send_buf.data, _send_buf'.trail = _send_buf.trail,
         Received' = Received, wire' = wire, sent' = sent, got' = got
  PROVE  FramingInv'
<1>1. Taken' = Taken
  BY DEF Taken
<1>2. GotWhatWasSent'
  BY DEF FramingInv, GotWhatWasSent
<1> QED BY <1>1, <1>2 DEF FramingInv

LEMMA SendPackagesStep ==
  ASSUME FramingInv, SendPackages PROVE FramingInv'
<1>1. Types
  BY DEF FramingInv
<1>2. /\ send_at = "fill" /\ send_at' \in {"failed", "sending"}
      /\ UNCHANGED <<sent, _send_buf, trans, wire, _recv_buf, recv_at, recv_trans,
                     _io_recv_buf_len, _pack_size, got>>
  BY DEF SendPackages, recvVars
<1>3. Types'
  BY <1>1, <1>2 DEF Types
<1>4. Unsent' = Unsent /\ Received' = Received
  BY <1>2 DEF Unsent, Received
<1> QED BY <1>2, <1>3, <1>4, SameStream

LEMMA SendRefusedStep ==
  ASSUME FramingInv, NEW n, SendRefused(n) PROVE FramingInv'
<1>1. Types
  BY DEF FramingInv
<1>2. /\ send_at = "fill" /\ send_at' = "idle"
      /\ UNCHANGED <<sent, _send_buf, trans, wire, _recv_buf, recv_at, recv_trans,
                     _io_recv_buf_len, _pack_size, got>>
  BY DEF SendRefused, recvVars
<1>3. Types'
  BY <1>1, <1>2 DEF Types
<1>4. Unsent' = Unsent /\ Received' = Received
  BY <1>2 DEF Unsent, Received
<1> QED BY <1>2, <1>3, <1>4, SameStream

LEMMA SendPackageStep ==
  ASSUME FramingInv, SendPackage PROVE FramingInv'
<1>1. Types
  BY DEF FramingInv
<1>2. /\ send_at = "sent" /\ send_at' \in {"idle", "sending"}
      /\ _send_buf' = Unsent
      /\ UNCHANGED <<sent, trans, wire, _recv_buf, recv_at, recv_trans,
                     _io_recv_buf_len, _pack_size, got>>
  BY DEF SendPackage, recvVars, Unsent
<1>3. /\ Unsent \in Ring(SendSize, Marks) /\ Unsent.data = _send_buf.data
      /\ Unsent.trail = _send_buf.trail /\ Unsent.head <= Unsent.trail
  BY <1>1, Sender
<1>4. Types'
  BY <1>1, <1>2, <1>3 DEF Types
<1>5. Unsent' = Unsent /\ Received' = Received
  BY <1>2 DEF Unsent, Received
<1> QED BY <1>2, <1>3, <1>4, <1>5, SameStream

\* The bytes that have been added are marked.
LEMMA Marked ==
  ASSUME Types, Whole(_send_buf.data, _send_buf.trail, sent), NEW p \in Nat, p < _send_buf.trail
  PROVE  _send_buf.data[p] \in (1..MaxSent) \X (Nat \ {0})
<1>1. _send_buf.trail \in Nat
  BY Sender
<1>2. p \in 0.._send_buf.trail - 1
  BY <1>1
<1>3. PICK f \in 0..p, m \in DOMAIN sent :
        p < f + Header + sent[m] /\ PackageAt(_send_buf.data, _send_buf.trail, sent, f, m)
  BY <1>2 DEF Whole
<1>4. PICK n \in Nat : n = sent[m]
  BY SizesAre
<1>5. PICK j \in 1..Header + n : j = p - f + 1
  BY <1>3, <1>4, Constants
<1>6. f + j - 1 = p
  BY <1>5, Constants
<1>7. _send_buf.data[p] = <<m, j>>
  BY <1>3, <1>4, <1>5, <1>6 DEF PackageAt
<1>8. m \in 1..MaxSent /\ j \in Nat \ {0}
  BY SMTT(30), <1>4, SizesAre, Constants DEF Types
<1> QED BY <1>7, <1>8

LEMMA TransmitStep ==
  ASSUME SendSize <= RecvSize, FramingInv, NEW n \in 1..UsedBufs(_send_buf)[1].len, Transmit(n)
  PROVE  FramingInv'
<1> DEFINE d  == _send_buf.data
           xs == Bytes(_send_buf, Piece(_send_buf.head, n))
<1>1. Types
  BY DEF FramingInv
<1>2. /\ send_at = "sending" /\ Len(wire) + n <= WireSize
      /\ wire' = wire \o xs /\ trans' = n /\ send_at' = "sent"
      /\ UNCHANGED <<sent, _send_buf, _recv_buf, recv_at, recv_trans,
                     _io_recv_buf_len, _pack_size, got>>
  BY DEF Transmit, recvVars
<1>3. PICK h \in Nat : h = _send_buf.head
  BY <1>1, Sender
<1>4. PICK e \in Nat : e = _send_buf.trail /\ h <= e /\ e < SendSize
  BY <1>1, <1>3, Sender
<1>5. n \in Nat \ {0} /\ h + n <= e
  <2>1. UsedBufs(_send_buf)[1].len = e - h
    BY <1>3, <1>4 DEF UsedBufs, Piece
  <2> QED BY <1>4, <2>1
<1>6. \A i \in 1..n : xs[i] = d[h + i - 1]
  BY <1>3 DEF Bytes, Piece
<1>7. xs \in Seq((1..MaxSent) \X (Nat \ {0})) /\ Len(xs) = n
  <2>1. xs = [i \in 1..n |-> d[h + i - 1]]
    BY <1>3 DEF Bytes, Piece
  <2>2. ASSUME NEW i \in 1..n PROVE d[h + i - 1] \in (1..MaxSent) \X (Nat \ {0})
    <3>1. PICK p \in Nat : p = h + i - 1 /\ p < e
      BY <1>5
    <3> QED BY <1>1, <1>4, <3>1, Marked DEF FramingInv
  <2> QED BY <1>5, <2>1, <2>2
<1> HIDE DEF xs
<1>8. PICK w \in Nat : w = Len(wire)
  BY <1>1 DEF Types
<1>9. /\ wire' \in Seq((1..MaxSent) \X (Nat \ {0})) /\ Len(wire') = w + n
      /\ \A i \in 1..w + n : wire'[i] = IF i <= w THEN wire[i] ELSE xs[i - w]
  <2>1. wire \in Seq((1..MaxSent) \X (Nat \ {0}))
    BY <1>1 DEF Types
  <2> QED BY <1>2, <1>7, <1>8, <2>1, ConcatProperties
<1>10. Types'
  <2>1. trans' \in 0..SendSize /\ trans' <= _send_buf.trail - _send_buf.head
    BY <1>2, <1>3, <1>4, <1>5, Constants
  <2>2. Len(wire') <= WireSize
    BY <1>2, <1>8, <1>9
  <2> QED BY <1>1, <1>2, <1>9, <2>1, <2>2 DEF Types
<1>11. Unsent.head = h /\ Unsent'.head = h + n /\ Received' = Received
  <2>1. Unsent.head = h
    BY <1>2, <1>3 DEF Unsent
  <2>2. Unsent'.head = h + n
    <3>1. Unsent' = HeadMove(_send_buf, n)
      BY <1>2 DEF Unsent
    <3>2. /\ HeadMove(_send_buf, n).head = Moved(_send_buf, h, n)
          /\ _send_buf.size = SendSize
      BY <1>1, <1>3, Constants, RingFields, MoveFields DEF Types
    <3>3. Moved(_send_buf, h, n) = h + n
      BY <1>4, <1>5, <3>2, Constants DEF Moved
    <3> QED BY <3>1, <3>2, <3>3
  <2> QED BY <1>2, <2>1, <2>2 DEF Received
<1>12. PICK r \in Nat : r = Length(Received)
  BY <1>1, Receiver, Constants
<1>13. Taken' = Taken
  BY <1>2, <1>5, <1>8, <1>9, <1>11, <1>12 DEF Taken
<1>14. Along(_send_buf.data, Unsent.head, wire, Received)'
  <2>1. /\ w + r <= h
        /\ \A i \in 1..w : wire[i] = d[h - w + i - 1]
        /\ \A i \in 1..r : UsedByte(Received, i) = d[h - w - r + i - 1]
    BY <1>8, <1>11, <1>12 DEF FramingInv, Along
  <2>2. ASSUME NEW i \in 1..w + n PROVE wire'[i] = d[(h + n) - (w + n) + i - 1]
    <3>1. CASE i <= w
      <4>1. i \in 1..w /\ (h + n) - (w + n) + i - 1 = h - w + i - 1
        BY <1>5, <3>1
      <4> QED BY <1>9, <2>1, <3>1, <4>1
    <3>2. CASE ~(i <= w)
      <4>1. i - w \in 1..n /\ h + (i - w) - 1 = (h + n) - (w + n) + i - 1
        BY <1>5, <3>2
      <4> QED BY <1>6, <1>9, <3>2, <4>1
    <3> QED BY <3>1, <3>2
  <2>3. (h + n) - (w + n) - r = h - w - r /\ (w + n) + r <= h + n
    BY <1>5, <2>1
  <2> QED BY ZenonT(30), <1>2, <1>9, <1>11, <1>12, <2>1, <2>2, <2>3 DEF Along
<1>15. GotWhatWasSent'
  BY <1>2 DEF FramingInv, GotWhatWasSent
<1>16. /\ Whole(_send_buf.data, _send_buf.trail, sent)'
       /\ Waits(_send_buf.data, _send_buf.trail, Taken, sent, got)'
  BY <1>2, <1>13 DEF FramingInv
<1> QED BY <1>10, <1>14, <1>15, <1>16 DEF FramingInv

-----------------------------------------------------------------------------
(* The receiver's steps.                                                    *)

\* Both move bytes from one place of the stream to another.
LEMMA SameSender ==
  ASSUME UNCHANGED sendVars PROVE Unsent' = Unsent
BY DEF sendVars, Unsent

LEMMA RecvStep ==
  ASSUME FramingInv, NEW n \in UserSizes, Recv(n) PROVE FramingInv'
<1>1. Types
  BY DEF FramingInv
<1>2. /\ recv_at \in {"idle", "failed"} /\ _io_recv_buf_len' = n /\ recv_trans' = 0
      /\ recv_at' = "parse"
      /\ UNCHANGED <<_recv_buf, _pack_size, got, wire, sent, _send_buf, send_at, trans>>
  BY DEF Recv, sendVars
<1>3. Length(_recv_buf) \in 0..RecvSize - 1
  BY <1>1, Receiver
<1>4. Types'
  <2>1. recv_trans' \in 0..RecvSize /\ recv_trans' < RecvSize - Length(_recv_buf')
    BY <1>2, <1>3, Constants
  <2> QED BY <1>1, <1>2, <2>1 DEF Types
<1>5. Received = _recv_buf /\ Received' = TrailMove(_recv_buf, 0) /\ Unsent' = Unsent
  BY <1>2 DEF Received, Unsent
<1>6. /\ Length(Received') = Length(Received)
      /\ \A i : UsedByte(Received', i) = UsedByte(Received, i)
  <2>1. 0 \in Nat /\ 0 < RecvSize - Length(_recv_buf) /\ _recv_buf \in Ring(RecvSize, Marks)
        /\ RecvSize \in Nat \ {0}
    BY <1>1, <1>3, Constants DEF Types
  <2>2. Length(TrailMove(_recv_buf, 0)) = Length(_recv_buf) + 0
    BY <2>1, TrailMoved
  <2>3. \A i : UsedByte(TrailMove(_recv_buf, 0), i) = UsedByte(_recv_buf, i)
    BY <2>1, TrailMoved
  <2> QED BY <1>3, <1>5, <2>2, <2>3
<1>7. Taken' = Taken
  BY <1>2, <1>5, <1>6 DEF Taken
<1>8. Along(_send_buf.data, Unsent.head, wire, Received)'
  BY <1>2, <1>5, <1>6 DEF FramingInv, Along
<1>9. GotWhatWasSent'
  BY <1>2 DEF FramingInv, GotWhatWasSent
<1> QED BY <1>2, <1>4, <1>7, <1>8, <1>9 DEF FramingInv

LEMMA ReceiveStep ==
  ASSUME SendSize <= RecvSize, FramingInv, NEW n \in Nat \ {0}, Receive(n)
  PROVE  FramingInv'
<1> DEFINE d  == _send_buf.data
           xs == SubSeq(wire, 1, n)
           b  == Scatter(_recv_buf, xs)
           r  == Received'
<1>1. Types
  BY DEF FramingInv
<1>2. /\ recv_at = "receiving" /\ n <= Len(wire) /\ _recv_buf' = b
      /\ wire' = SubSeq(wire, n + 1, Len(wire)) /\ recv_trans' = n /\ recv_at' = "parse"
      /\ UNCHANGED <<_io_recv_buf_len, _pack_size, got, sent, _send_buf, send_at, trans>>
  BY DEF Receive, sendVars
<1>3. Received = _recv_buf /\ Unsent' = Unsent /\ r = TrailMove(b, n)
  BY <1>2 DEF Received, Unsent
<1>4. PICK w \in Nat, l \in Nat, h \in Nat :
        w = Len(wire) /\ l = Length(_recv_buf) /\ h = Unsent.head
  BY <1>1, <1>3, Counts, Receiver, Constants
<1>5. l + w <= h /\ h < RecvSize /\ n <= w
  <2>1. PICK c \in Nat, e \in Nat :
          /\ c = Taken /\ e = _send_buf.trail /\ c + l + w = h /\ h <= e /\ e < RecvSize
    BY <1>3, <1>4, Counts
  <2>2. l + w <= h /\ h < RecvSize
    BY <2>1, Constants
  <2> QED BY <1>2, <1>4, <2>2
<1> DEFINE W == (1..MaxSent) \X (Nat \ {0})
<1>6. wire \in Seq(W)
  BY <1>1 DEF Types
<1> HIDE DEF W
<1>7. xs \in Seq(W) /\ Len(xs) = n /\ (\A i \in 1..n : xs[i] = wire[i])
  BY <1>4, <1>5, <1>6, SubSeqProperties
<1>8. wire' \in Seq(W) /\ Len(wire') = w - n /\ (\A i \in 1..w - n : wire'[i] = wire[n + i])
  <2>1. /\ SubSeq(wire, n + 1, Len(wire)) \in Seq(W)
        /\ Len(SubSeq(wire, n + 1, Len(wire))) = w - n
        /\ \A i \in 1..w - n : SubSeq(wire, n + 1, Len(wire))[i] = wire[n + i]
    BY <1>4, <1>5, <1>6
  <2> QED BY <1>2, <2>1
<1>9. xs \in Seq(Marks)
  <2>1. W \subseteq Marks
    BY Constants DEF W, Marks
  <2> QED BY <1>7, <2>1, SeqMonotonic
<1> HIDE DEF xs
<1>10. _recv_buf \in Ring(RecvSize, Marks) /\ RecvSize \in Nat \ {0} /\ Len(xs) < RecvSize - l
  <2>1. n < RecvSize - l
    BY <1>4, <1>5, Constants
  <2> QED BY <1>1, <1>7, <2>1, Constants DEF Types
<1>11. /\ b \in Ring(RecvSize, Marks)
       /\ b.head = _recv_buf.head /\ b.trail = _recv_buf.trail
       /\ \A i \in 1..l : UsedByte(b, i) = UsedByte(_recv_buf, i)
       /\ \A j \in 1..Len(xs) : UsedByte(b, l + j) = xs[j]
  <2>1. Len(xs) < RecvSize - Length(_recv_buf)
    BY <1>4, <1>10
  <2>2. Scatter(_recv_buf, xs) \in Ring(RecvSize, Marks)
    BY <1>9, <1>10, <2>1, ScatterIs
  <2>3. Scatter(_recv_buf, xs).head = _recv_buf.head
    BY <1>9, <1>10, <2>1, ScatterIs
  <2>4. Scatter(_recv_buf, xs).trail = _recv_buf.trail
    BY <1>9, <1>10, <2>1, ScatterIs
  <2>5. \A i \in 1..Length(_recv_buf) :
          UsedByte(Scatter(_recv_buf, xs), i) = UsedByte(_recv_buf, i)
    BY <1>9, <1>10, <2>1, ScatterIs
  <2>6. \A j \in 1..Len(xs) : UsedByte(Scatter(_recv_buf, xs), Length(_recv_buf) + j) = xs[j]
    BY <1>9, <1>10, <2>1, ScatterIs
  <2> QED BY <1>4, <2>2, <2>3, <2>4, <2>5, <2>6
<1> HIDE DEF b
<1>12. Length(b) = l
  <2>1. /\ Length(b) = IF b.trail >= b.head THEN b.trail - b.head
                                           ELSE b.trail - b.head + RecvSize
        /\ Length(_recv_buf) = IF _recv_buf.trail >= _recv_buf.head
                                 THEN _recv_buf.trail - _recv_buf.head
                                 ELSE _recv_buf.trail - _recv_buf.head + RecvSize
    BY <1>10, <1>11, LengthIs
  <2> QED BY <1>4, <1>11, <2>1
<1>13. Length(r) = l + n /\ \A i : UsedByte(r, i) = UsedByte(b, i)
  <2>1. n \in Nat /\ n < RecvSize - Length(b)
    BY <1>7, <1>10, <1>12
  <2>2. Length(TrailMove(b, n)) = Length(b) + n
    BY <1>10, <1>11, <2>1, TrailMoved
  <2>3. \A i : UsedByte(TrailMove(b, n), i) = UsedByte(b, i)
    BY <1>10, <1>11, <2>1, TrailMoved
  <2> QED BY <1>3, <1>12, <2>2, <2>3
<1> HIDE DEF r
<1>14. Types'
  <2>1. recv_trans' \in 0..RecvSize /\ recv_trans' < RecvSize - Length(_recv_buf')
    BY <1>2, <1>4, <1>5, <1>7, <1>10, <1>12, Constants
  <2>2. wire' \in Seq((1..MaxSent) \X (Nat \ {0})) /\ Len(wire') <= WireSize
    <3>1. Len(wire) <= WireSize
      BY <1>1 DEF Types
    <3> QED BY <1>4, <1>5, <1>8, <3>1, Constants DEF W
  <2> QED BY <1>1, <1>2, <1>11, <2>1, <2>2 DEF Types
<1>15. Taken' = Taken
  <2>1. Taken' = h - (w - n) - (l + n) /\ Taken = h - w - l
    BY <1>3, <1>4, <1>8, <1>13 DEF Taken, r
  <2> QED BY SMTT(30), <1>4, <2>1
<1>16. Along(d, h, wire', r)
  <2>1. /\ \A i \in 1..w : wire[i] = d[h - w + i - 1]
        /\ \A i \in 1..l : UsedByte(_recv_buf, i) = d[h - w - l + i - 1]
    BY <1>3, <1>4 DEF FramingInv, Along
  <2>2. ASSUME NEW i \in 1..w - n PROVE wire'[i] = d[h - (w - n) + i - 1]
    <3>1. PICK v \in Nat : v = w - n
      BY <1>5
    <3>2. i \in 1..v /\ w = n + v
      BY <3>1
    <3>3. n + i \in 1..w /\ h - w + (n + i) - 1 = h - (w - n) + i - 1
      BY <3>2
    <3> QED BY <1>8, <2>1, <3>3
  <2>3. ASSUME NEW i \in 1..l + n PROVE UsedByte(r, i) = d[h - (w - n) - (l + n) + i - 1]
    <3>0. h - (w - n) - (l + n) + i - 1 = h - w - l + i - 1
      BY SMTT(30), <1>4, <1>5
    <3>1. CASE i <= l
      <4>1. i \in 1..l
        BY <1>4, <3>1
      <4>2. UsedByte(b, i) = UsedByte(_recv_buf, i)
        BY <1>11, <4>1
      <4> QED BY <1>13, <2>1, <3>0, <4>1, <4>2
    <3>2. CASE ~(i <= l)
      <4>1. PICK j \in 1..n : i = l + j
        <5>1. i - l \in 1..n /\ i = l + (i - l)
          BY <1>4, <3>2
        <5> QED BY <5>1
      <4>2. j \in 1..w /\ h - w + j - 1 = h - w - l + i - 1
        BY SMTT(30), <1>4, <1>5, <4>1
      <4>3. UsedByte(b, i) = xs[j]
        BY <1>7, <1>11, <4>1
      <4>4. UsedByte(r, i) = xs[j]
        BY <1>13, <4>3
      <4>5. xs[j] = wire[j]
        BY <1>7
      <4> QED BY <2>1, <3>0, <4>2, <4>4, <4>5
    <3> QED BY <3>1, <3>2
  <2>4. (w - n) + (l + n) <= h
    BY <1>4, <1>5
  <2> QED BY <1>8, <1>13, <2>2, <2>3, <2>4 DEF Along
<1>17. Along(_send_buf.data, Unsent.head, wire, Received)'
  BY <1>2, <1>3, <1>4, <1>16 DEF r
<1>18. GotWhatWasSent'
  BY <1>2 DEF FramingInv, GotWhatWasSent
<1> QED BY <1>2, <1>14, <1>15, <1>17, <1>18 DEF FramingInv

LEMMA RecvPackageStep ==
  ASSUME SendSize <= RecvSize, FramingInv, RecvPackage PROVE FramingInv'
<1> DEFINE d    == _send_buf.data
           b    == TrailMove(_recv_buf, recv_trans)
           head == SafeCopy(b, Header)
           m    == head[1][1]
           size == IF Length(b) - Header <= 0 THEN 0 ELSE sent[m]
           body == HeadMove(b, Header)
           bad  == \/ head # SubSeq(Package(m, size), 1, Header)
                   \/ size <= 0 \/ size >= b.size
<1>1. Types
  BY DEF FramingInv
<1>2. /\ recv_at = "parse" /\ b = Received
      /\ UNCHANGED <<recv_trans, _io_recv_buf_len, wire, sent, _send_buf, send_at, trans>>
      /\ Unsent' = Unsent
  BY DEF RecvPackage, Received, sendVars, Unsent
<1>3. b \in Ring(RecvSize, Marks) /\ Length(b) \in 0..RecvSize - 1 /\ b.size = RecvSize
  <2>1. b \in Ring(RecvSize, Marks) /\ Length(b) \in 0..RecvSize - 1
    BY <1>1, <1>2, Receiver
  <2> QED BY <2>1, Constants, RingFields
<1>4. \/ /\ Length(b) - Header <= 0
         /\ recv_at' = "receiving" /\ _recv_buf' = b /\ _pack_size' = 0 /\ got' = got
      \/ /\ Length(b) - Header > 0 /\ bad
         /\ recv_at' = "broken" /\ _recv_buf' = b /\ _pack_size' = size /\ got' = got
      \/ /\ Length(b) - Header > 0 /\ ~bad /\ Incomplete(size, b)
         /\ recv_at' = "receiving" /\ _recv_buf' = b /\ _pack_size' = size /\ got' = got
      \/ /\ Length(b) - Header > 0 /\ ~bad /\ ~Incomplete(size, b)
         /\ recv_at' = "failed" /\ _recv_buf' = b /\ _pack_size' = size /\ got' = got
      \/ /\ Length(b) - Header > 0 /\ ~bad /\ ~Incomplete(size, b)
         /\ got' = Append(got, FastCopy(body, size))
         /\ recv_at' = "idle" /\ _recv_buf' = HeadMove(body, size) /\ _pack_size' = size
  BY DEF RecvPackage
<1>5. ASSUME _recv_buf' = b, got' = got, recv_at' \in {"receiving", "failed"},
             _pack_size' \in {0} \cup Sizes
      PROVE  FramingInv'
  <2>1. Types'
    BY <1>1, <1>2, <1>3, <1>5 DEF Types
  <2>2. Received' = Received
    BY <1>2, <1>5 DEF Received
  <2> QED BY <1>2, <1>5, <2>1, <2>2, SameStream
<1>6. CASE Length(b) - Header <= 0
  <2>1. recv_at' = "receiving" /\ _recv_buf' = b /\ _pack_size' = 0 /\ got' = got
    BY <1>3, <1>4, <1>6, Constants
  <2> QED BY <1>5, <2>1
<1>7. CASE Length(b) - Header > 0
  <2>1. PICK c \in Nat, l \in Nat, w \in Nat, h \in Nat, e \in Nat :
          /\ c = Taken /\ l = Length(b) /\ w = Len(wire) /\ h = Unsent.head
          /\ e = _send_buf.trail /\ c + l + w = h /\ h <= e /\ e < RecvSize /\ Header < l
    <3>1. Length(b) \in Nat /\ Header < Length(b)
      BY <1>3, <1>7, Constants
    <3> QED BY <1>2, <3>1, Counts
  <2>2. PICK k \in Nat : k = Len(got) + 1
    BY <1>1 DEF Types
  <2>3. d[c] = <<k, 1>> /\ c < e
    <3>1. c < e
      BY <2>1, Constants
    <3> QED BY <2>1, <2>2, <3>1 DEF FramingInv, Waits
  <2>4. k \in DOMAIN sent /\ PackageAt(d, e, sent, c, k)
    <3>1. Whole(d, e, sent) /\ sent \in Seq(Nat \ {0})
      BY <1>1, <2>1, SizesAre DEF FramingInv
    <3> QED BY <2>3, <3>1, PackageThere
  <2>5. PICK n \in Nat \ {0} : n = sent[k] /\ n \in Sizes
    BY <1>1, <2>4, SizesAre
  <2>6. /\ c + Header + n <= e
        /\ \A j \in 1..Header + n : d[c + j - 1] = <<k, j>>
        /\ IF c + Header + n = e THEN k = Len(sent) ELSE d[c + Header + n] = <<k + 1, 1>>
    BY <2>4, <2>5 DEF PackageAt
  <2>7. \A i \in 1..l : UsedByte(b, i) = d[c + i - 1]
    <3>1. \A i \in 1..Length(Received) :
            UsedByte(Received, i) = d[Unsent.head - Len(wire) - Length(Received) + i - 1]
      BY DEF FramingInv, Along
    <3>2. \A i \in 1..l : UsedByte(b, i) = d[h - w - l + i - 1]
      BY <1>2, <2>1, <3>1
    <3>3. h - w - l = c
      BY <2>1
    <3> QED BY <3>2, <3>3
  <2>8. head = [i \in 1..Header |-> <<k, i>>]
    <3>1. head = [i \in 1..Header |-> UsedByte(b, i)]
      <4>1. Header \in 0..Length(b)
        BY <2>1, Constants
      <4> QED BY <1>3, <4>1, Constants, SafeCopyIs
    <3>2. ASSUME NEW i \in 1..Header PROVE UsedByte(b, i) = <<k, i>>
      <4>1. i \in 1..l /\ i \in 1..Header + n
        BY <2>1, Constants
      <4> QED BY <2>6, <2>7, <4>1
    <3> QED BY <3>1, <3>2
  <2>9. m = k /\ size = n
    <3>1. 1 \in 1..Header
      BY Constants
    <3>2. head[1] = <<k, 1>>
      BY <2>8, <3>1
    <3> QED BY <1>3, <1>7, <2>5, <3>2, Constants
  <2> HIDE DEF head, m, size
  <2>10. ~bad
    <3>1. SubSeq(Package(k, n), 1, Header) = [i \in 1..Header |-> <<k, i>>]
      <4>1. Package(k, n) = [i \in 1..Header + n |-> <<k, i>>]
        BY DEF Package
      <4>2. Header \in Nat /\ Header <= Header + n
        BY Constants
      <4> QED BY <4>1, <4>2
    <3>2. ~(n <= 0) /\ ~(n >= b.size)
      <4>1. n < RecvSize
        BY SMTT(30), <2>1, <2>6, Constants
      <4> QED BY <1>3, <4>1, Constants
    <3> QED BY <2>8, <2>9, <3>1, <3>2
  <2> HIDE DEF bad
  <2>11. CASE Incomplete(size, b)
    <3>1. recv_at' = "receiving" /\ _recv_buf' = b /\ _pack_size' = size /\ got' = got
      BY <1>3, <1>4, <1>7, <2>10, <2>11, Constants
    <3> QED BY <1>5, <2>5, <2>9, <3>1
  <2>12. CASE recv_at' = "failed" /\ _recv_buf' = b /\ _pack_size' = size /\ got' = got
    BY <1>5, <2>5, <2>9, <2>12
  <2>13. CASE /\ ~Incomplete(size, b) /\ got' = Append(got, FastCopy(body, size))
              /\ recv_at' = "idle" /\ _recv_buf' = HeadMove(body, size) /\ _pack_size' = size
    <3>1. /\ body \in Ring(RecvSize, Marks) /\ Length(body) = l - Header
          /\ \A i \in 1..l - Header : UsedByte(body, i) = d[c + (Header + i) - 1]
      <4>1. Header \in 0..Length(b) /\ RecvSize \in Nat \ {0} /\ b \in Ring(RecvSize, Marks)
        BY <1>3, <2>1, Constants
      <4>2. HeadMove(b, Header) \in Ring(RecvSize, Marks)
        BY <4>1, HeadMoved
      <4>3. Length(HeadMove(b, Header)) = Length(b) - Header
        BY <4>1, HeadMoved
      <4>4. \A i \in 1..Length(b) - Header :
              UsedByte(HeadMove(b, Header), i) = UsedByte(b, Header + i)
        BY <4>1, HeadMoved
      <4>5. \A i \in 1..l - Header : Header + i \in 1..l
        BY <2>1, Constants
      <4> QED BY <2>1, <2>7, <4>2, <4>3, <4>4, <4>5
    <3> HIDE DEF body
    <3>2. n <= l - Header
      BY <1>3, <2>1, <2>9, <2>13, Constants DEF Incomplete
    <3> DEFINE y == FastCopy(body, n)
               q == HeadMove(body, n)
    <3>3. n \in 0..Length(body) /\ RecvSize \in Nat \ {0}
      BY <2>1, <3>1, <3>2, Constants
    <3>4. /\ y \in Seq(Marks) /\ Len(y) = n
          /\ \A i \in 1..n : y[i] = UsedByte(body, i)
      BY <3>1, <3>3, FastCopyIs
    <3>5. q \in Ring(RecvSize, Marks)
      BY <3>1, <3>3, HeadMoved
    <3>6. Length(q) = Length(body) - n
      BY <3>1, <3>3, HeadMoved
    <3>7. \A i \in 1..Length(body) - n : UsedByte(q, i) = UsedByte(body, n + i)
      BY <3>1, <3>3, HeadMoved
    <3> HIDE DEF y, q
    <3>8. /\ got' = Append(got, y) /\ recv_at' = "idle" /\ _recv_buf' = q
          /\ _pack_size' = n
      BY <2>9, <2>13 DEF y, q
    <3>9. Received' = q
      BY <3>8 DEF Received
    <3>10. y = Content(k, n)
      <4>1. ASSUME NEW i \in 1..n PROVE y[i] = <<k, Header + i>>
        <5>1. i \in 1..l - Header /\ Header + i \in 1..Header + n
          BY <2>1, <3>2, Constants
        <5> QED BY <2>6, <3>1, <3>4, <5>1
      <4>2. y = [i \in 1..n |-> <<k, Header + i>>]
        <5>1. y = [i \in 1..n |-> y[i]]
          BY <3>4
        <5> QED BY <4>1, <5>1
      <4> QED BY <4>2 DEF Content
    <3>11. /\ got' \in Seq(Seq(Marks)) /\ Len(got') = k /\ got'[k] = y
           /\ DOMAIN got' = 1..k /\ DOMAIN got = 1..k - 1
           /\ \A i \in DOMAIN got : got'[i] = got[i]
      <4>1. got \in Seq(Seq(Marks))
        BY <1>1 DEF Types
      <4> QED BY <2>2, <3>4, <3>8, <4>1, AppendProperties
    <3>12. Types'
      BY <1>1, <1>2, <2>5, <3>5, <3>8, <3>11 DEF Types
    <3>13. GotWhatWasSent'
      <4>1. ASSUME NEW i \in 1..k PROVE i <= Len(sent) /\ got'[i] = Content(i, sent[i])
        <5>1. CASE i = k
          BY <1>1, <2>4, <2>5, <3>10, <3>11, <5>1, SizesAre
        <5>2. CASE i # k
          <6>0. i \in 1..k - 1
            BY <5>2
          <6>1. i \in DOMAIN got
            BY <3>11, <6>0
          <6> QED BY <3>11, <6>1 DEF FramingInv, GotWhatWasSent
        <5> QED BY <5>1, <5>2
      <4> QED BY <1>2, <3>11, <4>1 DEF GotWhatWasSent
    <3>14. Length(q) = l - Header - n /\ Taken' = c + Header + n
      <4>1. Length(q) = l - Header - n
        BY <3>1, <3>6
      <4>2. Taken' = h - w - Length(q)
        BY <1>2, <2>1, <3>9 DEF Taken
      <4> QED BY SMTT(30), <2>1, <4>1, <4>2, Constants
    <3>15. Along(d, h, wire, q)
      <4>1. \A i \in 1..w : wire[i] = d[h - w + i - 1]
        BY <2>1 DEF FramingInv, Along
      <4>2. ASSUME NEW i \in 1..l - Header - n
            PROVE  UsedByte(q, i) = d[h - w - (l - Header - n) + i - 1]
        <5>1. PICK v \in Nat : v = l - Header - n
          BY <2>1, <3>2, Constants
        <5>2. i \in 1..v /\ l - Header = n + v /\ l = Header + n + v
          BY SMTT(30), <2>1, <5>1, Constants
        <5>3. i \in 1..Length(body) - n /\ n + i \in 1..l - Header
          BY <3>1, <5>2
        <5>4. c + (Header + (n + i)) - 1 = h - w - v + i - 1
          <6>1. PICK a \in Nat : a = Header
            BY Constants
          <6>2. c + (a + n + v) + w = h /\ i \in Nat
            BY <2>1, <5>2, <6>1
          <6>3. h - w - v = c + a + n
            BY ONLY <6>2, a \in Nat, c \in Nat, n \in Nat \ {0}, v \in Nat, w \in Nat, h \in Nat
          <6> QED BY <6>1, <6>2, <6>3
        <5> QED BY <3>1, <3>7, <5>1, <5>3, <5>4
      <4>3. w + (l - Header - n) <= h
        BY <2>1, Constants
      <4> QED BY <2>1, <3>14, <4>1, <4>2, <4>3 DEF Along
    <3>16. Along(_send_buf.data, Unsent.head, wire, Received)'
      BY <1>2, <2>1, <3>9, <3>15
    <3>17. Waits(d, e, c + Header + n, sent, got')
      BY <2>6, <3>11 DEF Waits
    <3>18. Waits(_send_buf.data, _send_buf.trail, Taken, sent, got)'
      BY <1>2, <2>1, <3>14, <3>17
    <3>19. Whole(_send_buf.data, _send_buf.trail, sent)'
      BY <1>2 DEF FramingInv
    <3> QED BY <3>12, <3>13, <3>16, <3>18, <3>19 DEF FramingInv
  <2> QED BY <1>3, <1>4, <1>7, <2>10, <2>11, <2>12, <2>13, Constants
<1> QED BY <1>3, <1>6, <1>7, Constants

LEMMA FramingStep ==
  ~Streaming /\ SendSize <= RecvSize => (FramingInv /\ [Next]_vars => FramingInv')
<1> SUFFICES ASSUME ~Streaming, SendSize <= RecvSize, FramingInv, [Next]_vars
             PROVE  FramingInv'
  OBVIOUS
<1>1. CASE SendInit
  BY <1>1, SendInitStep
<1>2. CASE \E n \in Sizes : SendAdd(n)
  BY <1>2, SendAddStep
<1>3. CASE SendPackages
  BY <1>3, SendPackagesStep
<1>4. CASE SendPackage
  BY <1>4, SendPackageStep
<1>5. CASE \E n \in UserSizes : Recv(n)
  BY <1>5, RecvStep
<1>6. CASE RecvPackage
  BY <1>6, RecvPackageStep
<1>7. CASE TransmitSome
  BY <1>7, TransmitStep DEF TransmitSome
<1>8. CASE ReceiveSome
  <2>1. PICK n \in Offered(UnusedBufs(_recv_buf)) : Receive(n)
    BY <1>8 DEF ReceiveSome
  <2>2. IsRing(_recv_buf) /\ _recv_buf.size - Length(_recv_buf) \in Nat
    <3>1. RecvSize \in Nat \ {0} /\ _recv_buf \in Ring(RecvSize, Marks)
      BY Constants DEF FramingInv, Types
    <3>2. IsBuf(_recv_buf) /\ _recv_buf.size = RecvSize
      BY <3>1, RingFields
    <3>3. Length(_recv_buf) \in 0..RecvSize - 1
      BY <3>1, RingFields
    <3> QED BY <3>1, <3>2, <3>3 DEF IsBuf
  <2>3. Offered(UnusedBufs(_recv_buf)) = 1.._recv_buf.size - Length(_recv_buf)
    BY <2>2, UnusedPieces DEF Offered
  <2>4. n \in Nat \ {0}
    BY <2>2, <2>3
  <2> QED BY <2>1, <2>4, ReceiveStep
<1>9. CASE \E n \in Sizes : SendRefused(n)
  BY <1>9, SendRefusedStep
<1>10. CASE UNCHANGED vars
  <2>1. Types' /\ Unsent' = Unsent /\ Received' = Received
    BY <1>10 DEF FramingInv, Types, Unsent, Received, vars, sendVars, recvVars
  <2> QED BY <1>10, <2>1, SameStream DEF vars, sendVars, recvVars
<1> QED BY <1>1, <1>2, <1>3, <1>4, <1>5, <1>6, <1>7, <1>8, <1>9, <1>10 DEF Next

-----------------------------------------------------------------------------
(* What holds of every behaviour.                                          *)

\* Every variable keeps its type, and the parser of a sender that waits for the
\* reply never announces protocol_error: a header is always right
\* (iocp_session_ioT.h:313-329).
THEOREM TypesHold ==
  ASSUME ~Streaming, SendSize <= RecvSize
  PROVE  Spec => []TypeOK
<1>1. ASSUME FramingInv PROVE TypeOK
  <2>1. Types
    BY <1>1 DEF FramingInv
  <2>2. IsBuffer(_send_buf, SendSize) /\ IsBuffer(_recv_buf, RecvSize)
    BY <2>1, Constants, RingFields DEF Types, IsBuffer, IsBuf, Marks
  <2>3. got \in Seq(Seq((0..MaxSent) \X Nat))
    BY <2>1 DEF Types, Marks
  <2> QED BY <2>1, <2>2, <2>3 DEF Types, TypeOK
<1>2. FramingInv => TypeOK
  BY <1>1
<1> QED BY <1>2, InitFraming, FramingStep, PTL DEF Spec

\* What an application receives is what was sent, whatever the sizes of the rings
\* and the packages are, wherever the stream is cut and the rings wrap
\* (iocp_session_ioT.h:283-342).
THEOREM GotWhatWasSentHolds ==
  ASSUME ~Streaming, SendSize <= RecvSize
  PROVE  Spec => []GotWhatWasSent
<1>1. FramingInv => GotWhatWasSent
  BY DEF FramingInv
<1> QED BY <1>1, InitFraming, FramingStep, PTL DEF Spec

LEMMA JoinedAlong ==
  ASSUME NEW S, NEW x \in Seq(S), NEW y \in Seq(S), NEW d, NEW c \in Nat,
         \A i \in 1..Len(x) : x[i] = d[c + i - 1],
         \A i \in 1..Len(y) : y[i] = d[c + Len(x) + i - 1],
         NEW z, z = x \o y
  PROVE  /\ z \in Seq(S) /\ Len(z) = Len(x) + Len(y)
         /\ \A i \in 1..Len(z) : z[i] = d[c + i - 1]
<1>1. /\ z \in Seq(S) /\ Len(z) = Len(x) + Len(y)
      /\ \A i \in 1..Len(x) + Len(y) : z[i] = IF i <= Len(x) THEN x[i] ELSE y[i - Len(x)]
  BY ConcatProperties
<1>2. PICK l \in Nat, k \in Nat : l = Len(x) /\ k = Len(y)
  OBVIOUS
<1>3. ASSUME NEW i \in 1..l + k PROVE z[i] = d[c + i - 1]
  <2>1. CASE i <= l
    <3>1. i \in 1..l
      BY <2>1
    <3> QED BY <1>1, <1>2, <2>1, <3>1
  <2>2. CASE ~(i <= l)
    <3>1. i - l \in 1..k /\ c + l + (i - l) - 1 = c + i - 1
      BY <2>2
    <3>2. y[i - l] = d[c + l + (i - l) - 1]
      BY <1>2, <3>1
    <3> QED BY <1>1, <1>2, <2>2, <3>1, <3>2
  <2> QED BY <2>1, <2>2
<1> QED BY <1>1, <1>2, <1>3

LEMMA NextByte ==
  ASSUME Types, Whole(_send_buf.data, _send_buf.trail, sent), NEW p \in Nat, p < _send_buf.trail
  PROVE  Follows(IF p + 1 = _send_buf.trail THEN <<Len(sent) + 1, 1>>
                                            ELSE _send_buf.data[p + 1], _send_buf.data[p])
<1> DEFINE d == _send_buf.data
<1>1. PICK e \in Nat : e = _send_buf.trail /\ p \in 0..e - 1
  BY Sender
<1>2. PICK f \in 0..p, m \in DOMAIN sent :
        p < f + Header + sent[m] /\ PackageAt(d, e, sent, f, m)
  BY <1>1 DEF Whole
<1>3. PICK n \in Nat : n = sent[m]
  BY SizesAre
<1>4. PICK l \in Nat : l = Header + n
  BY Constants
<1>5. PICK j \in 1..l : j = p - f + 1 /\ f + j - 1 = p
  <2>1. p < f + l
    BY <1>2, <1>3, <1>4, Constants
  <2>2. p - f + 1 \in 1..l /\ f + (p - f + 1) - 1 = p
    BY <2>1
  <2> QED BY <2>2
<1>6. /\ \A i \in 1..l : d[f + i - 1] = <<m, i>>
      /\ IF f + l = e THEN m = Len(sent) ELSE d[f + l] = <<m + 1, 1>>
      /\ f + l <= e
  <2>1. f + l = f + Header + sent[m]
    BY <1>3, <1>4, Constants
  <2> QED BY <1>2, <1>3, <1>4, <2>1 DEF PackageAt
<1>7. d[p] = <<m, j>>
  BY <1>5, <1>6
<1>8. CASE j < l
  <2>1. j + 1 \in 1..l /\ f + (j + 1) - 1 = p + 1 /\ p + 1 # e
    BY SMTT(30), <1>5, <1>6, <1>8
  <2>2. d[p + 1] = <<m, j + 1>>
    BY <1>6, <2>1
  <2> QED BY <1>1, <1>3, <1>4, <1>7, <1>8, <2>1, <2>2 DEF Follows
<1>9. CASE j = l
  <2>1. p + 1 = f + l
    BY <1>5, <1>9
  <2>2. (IF p + 1 = e THEN <<Len(sent) + 1, 1>> ELSE d[p + 1]) = <<m + 1, 1>>
    BY <1>6, <2>1
  <2> QED BY <1>1, <1>3, <1>4, <1>7, <1>9, <2>2 DEF Follows
<1> QED BY <1>8, <1>9

\* Nothing that was sent is lost on its way, doubled or put out of order
\* (iocp_buffer.h:20-28, iocp_session_ioT.h:104-127, 265-281).
THEOREM NoByteIsLostHolds ==
  ASSUME ~Streaming, SendSize <= RecvSize
  PROVE  Spec => []NoByteIsLost
<1>1. ASSUME FramingInv PROVE NoByteIsLost
  <2> DEFINE d == _send_buf.data
             x == FastCopy(Received, Length(Received))
             z == Bytes(Unsent, UsedBufs(Unsent)[1])
             rest == x \o wire \o z
  <2>1. Types
    BY <1>1 DEF FramingInv
  <2>2. PICK c \in Nat, l \in Nat, w \in Nat, h \in Nat, e \in Nat :
          /\ c = Taken /\ l = Length(Received) /\ w = Len(wire) /\ h = Unsent.head
          /\ e = _send_buf.trail /\ c + l + w = h /\ h <= e
    <3>1. Length(Received) \in Nat
      BY <2>1, Receiver, Constants
    <3> QED BY <1>1, <3>1, Counts
  <2>3. /\ \A i \in 1..w : wire[i] = d[h - w + i - 1]
        /\ \A i \in 1..l : UsedByte(Received, i) = d[h - w - l + i - 1]
    BY <1>1, <2>2 DEF FramingInv, Along
  <2>4. h - w = c + l /\ h - w - l = c
    BY <2>2
  <2>5. x \in Seq(Marks) /\ Len(x) = l /\ (\A i \in 1..l : x[i] = d[c + i - 1])
    <3>1. Received \in Ring(RecvSize, Marks) /\ Length(Received) \in 0..Length(Received)
      BY <2>1, <2>2, Receiver
    <3>2. FastCopy(Received, Length(Received)) \in Seq(Marks)
      BY <3>1, Constants, FastCopyIs
    <3>3. Len(FastCopy(Received, Length(Received))) = Length(Received)
      BY <3>1, Constants, FastCopyIs
    <3>4. \A i \in 1..Length(Received) :
            FastCopy(Received, Length(Received))[i] = UsedByte(Received, i)
      BY <3>1, Constants, FastCopyIs
    <3> QED BY <2>2, <2>3, <2>4, <3>2, <3>3, <3>4
  <2>6. z \in Seq(Marks) /\ Len(z) = e - h /\ (\A i \in 1..e - h : z[i] = d[h + i - 1])
    <3>1. /\ Unsent \in Ring(SendSize, Marks) /\ Unsent.data = d /\ Unsent.trail = e
          /\ e < SendSize
      BY <2>1, <2>2, Sender
    <3>2. PICK v \in Nat : v = e - h /\ h + v <= SendSize
      BY SMTT(30), <2>2, <3>1, Constants
    <3>3. z = Bytes(Unsent, Piece(h, v))
      BY <2>2, <3>1, <3>2 DEF UsedBufs
    <3>4. Bytes(Unsent, Piece(h, v)) \in Seq(Marks)
      BY <3>1, <3>2, Constants, BytesAre
    <3>5. Len(Bytes(Unsent, Piece(h, v))) = v
      BY <3>1, <3>2, Constants, BytesAre
    <3>6. \A i \in 1..v : Bytes(Unsent, Piece(h, v))[i] = Unsent.data[h + i - 1]
      BY SMTT(30), <3>1, <3>2, Constants, BytesAre
    <3> QED BY <3>1, <3>2, <3>3, <3>4, <3>5, <3>6
  <2>7. wire \in Seq(Marks)
    <3>1. (1..MaxSent) \X (Nat \ {0}) \subseteq Marks
      BY Constants DEF Marks
    <3> QED BY <2>1, <3>1, SeqMonotonic DEF Types
  <2> HIDE DEF d, x, z
  <2> DEFINE y == x \o wire
  <2>8. /\ y \in Seq(Marks) /\ Len(y) = l + w
        /\ \A i \in 1..l + w : y[i] = d[c + i - 1]
    <3>1. \A i \in 1..Len(wire) : wire[i] = d[c + Len(x) + i - 1]
      BY <2>2, <2>3, <2>4, <2>5
    <3>2. PICK v : v = x \o wire
      OBVIOUS
    <3>3. x \in Seq(Marks) /\ (\A i \in 1..Len(x) : x[i] = d[c + i - 1])
      BY <2>5
    <3>4. v \in Seq(Marks)
      BY <2>7, <3>1, <3>2, <3>3, JoinedAlong
    <3>5. Len(v) = Len(x) + Len(wire)
      BY <2>7, <3>1, <3>2, <3>3, JoinedAlong
    <3>6. \A i \in 1..Len(v) : v[i] = d[c + i - 1]
      BY <2>7, <3>1, <3>2, <3>3, JoinedAlong
    <3> QED BY <2>2, <2>5, <3>2, <3>4, <3>5, <3>6 DEF y
  <2> HIDE DEF y
  <2>9. /\ rest \in Seq(Marks) /\ Len(rest) = e - c
        /\ \A i \in 1..e - c : rest[i] = d[c + i - 1]
    <3>1. \A i \in 1..Len(z) : z[i] = d[c + Len(y) + i - 1]
      <4>1. c + (l + w) = h
        BY <2>2
      <4> QED BY <2>6, <2>8, <4>1
    <3>2. PICK v : v = y \o z
      OBVIOUS
    <3>3. /\ y \in Seq(Marks) /\ (\A i \in 1..Len(y) : y[i] = d[c + i - 1])
          /\ z \in Seq(Marks)
      BY <2>6, <2>8
    <3>4. v \in Seq(Marks)
      BY <3>1, <3>2, <3>3, JoinedAlong
    <3>5. Len(v) = Len(y) + Len(z)
      BY <3>1, <3>2, <3>3, JoinedAlong
    <3>6. \A i \in 1..Len(v) : v[i] = d[c + i - 1]
      BY <3>1, <3>2, <3>3, JoinedAlong
    <3>7. (l + w) + (e - h) = e - c
      <4>1. c + l + w = h
        BY <2>2
      <4> QED BY ONLY <4>1, c \in Nat, l \in Nat, w \in Nat, h \in Nat, e \in Nat
    <3>8. rest = v
      BY <3>2 DEF y
    <3> HIDE DEF rest
    <3> QED BY <2>6, <2>8, <3>4, <3>5, <3>6, <3>7, <3>8
  <2>10. NoByteIsLost <=>
           /\ rest = <<>> <=> Len(got) = Len(sent)
           /\ rest # <<>> => /\ rest[1] = <<Len(got) + 1, 1>>
                             /\ Follows(<<Len(sent) + 1, 1>>, rest[Len(rest)])
           /\ \A i \in 1..Len(rest) - 1 : Follows(rest[i + 1], rest[i])
    BY DEF NoByteIsLost, x, z
  <2> HIDE DEF rest
  <2>11. /\ Whole(d, e, sent) /\ Waits(d, e, c, sent, got)
    BY <1>1, <2>2 DEF FramingInv, d
  <2>12. c <= e /\ Len(got) \in Nat /\ Len(sent) \in Nat
    BY SMTT(30), <2>1, <2>2 DEF Types
  <2>13. CASE c = e
    <3>1. Len(got) = Len(sent) /\ Len(rest) = 0
      BY <2>9, <2>11, <2>13 DEF Waits
    <3>2. rest = <<>>
      BY <2>9, <3>1
    <3>3. 1..Len(rest) - 1 = {}
      BY <3>1
    <3> QED BY <2>10, <3>1, <3>2, <3>3
  <2>14. CASE c # e
    <3>1. d[c] = <<Len(got) + 1, 1>> /\ c < e
      BY <2>11, <2>12, <2>14 DEF Waits
    <3>2. Len(got) + 1 \in DOMAIN sent
      BY <2>1, <2>11, <3>1, PackageThere, SizesAre
    <3>3. Len(got) # Len(sent)
      BY <2>1, <2>12, <3>2, SizesAre
    <3>4. PICK v \in Nat \ {0} : v = e - c
      BY <3>1
    <3>5. Len(rest) = v /\ rest # <<>>
      BY <2>9, <3>4
    <3>6. ASSUME NEW i \in 1..v
          PROVE  /\ i < v => Follows(rest[i + 1], rest[i])
                 /\ i = v => Follows(<<Len(sent) + 1, 1>>, rest[i])
      <4>1. PICK p \in Nat : p = c + i - 1 /\ p < e
        BY <3>4
      <4>2. Follows(IF p + 1 = e THEN <<Len(sent) + 1, 1>> ELSE d[p + 1], d[p])
        BY <2>1, <2>2, <2>11, <4>1, NextByte DEF d
      <4>3. rest[i] = d[p]
        BY <2>9, <3>4, <4>1
      <4>4. CASE i = v
        <5>1. p + 1 = e
          BY <3>4, <4>1, <4>4
        <5> QED BY <4>2, <4>3, <4>4, <5>1
      <4>5. CASE i < v
        <5>1. p + 1 # e /\ i + 1 \in 1..v /\ c + (i + 1) - 1 = p + 1
          BY <3>4, <4>1, <4>5
        <5>2. rest[i + 1] = d[p + 1]
          BY <2>9, <3>4, <5>1
        <5> QED BY <4>2, <4>3, <4>5, <5>1, <5>2
      <4> QED BY <4>4, <4>5
    <3>7. rest[1] = <<Len(got) + 1, 1>>
      <4>1. 1 \in 1..v /\ c + 1 - 1 = c
        BY <3>4
      <4> QED BY <2>9, <3>1, <3>4, <4>1
    <3>8. Follows(<<Len(sent) + 1, 1>>, rest[Len(rest)])
      BY <3>5, <3>6
    <3>9. \A i \in 1..Len(rest) - 1 : Follows(rest[i + 1], rest[i])
      <4>1. \A i \in 1..v - 1 : i \in 1..v /\ i < v
        OBVIOUS
      <4> QED BY <3>5, <3>6, <4>1
    <3> QED BY <2>10, <3>3, <3>5, <3>7, <3>8, <3>9
  <2> QED BY <2>13, <2>14
<1>2. FramingInv => NoByteIsLost
  BY <1>1
<1> QED BY <1>2, InitFraming, FramingStep, PTL DEF Spec
=============================================================================
