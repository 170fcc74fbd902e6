------------------------------- MODULE IoBuf -------------------------------
(***************************************************************************)
(* The ring buffer iobuf.  Pointers are offsets from _buf: head is the     *)
(* first used byte, trail the first unused one, and head = trail means     *)
(* that nothing is used.                                                   *)
(***************************************************************************)
EXTENDS Integers, Sequences

\* A buffer of n bytes as its constructor leaves it; x is what `new` returned.
Created(n, x) == [size |-> n, data |-> [p \in 0..n - 1 |-> x],
                  head |-> 0, trail |-> 0]

IsRing(b) ==
  /\ b.size \in Nat \ {0}
  /\ b.head \in 0..b.size - 1 /\ b.trail \in 0..b.size - 1

Reset(b) == [b EXCEPT !.head = 0, !.trail = 0]

Moved_Late(b, p, step) ==  \* fault: > for >=
  IF p + step > b.size THEN p + step - b.size ELSE p + step
Moved(b, p, step) == IF p + step >= b.size THEN p + step - b.size ELSE p + step
HeadMove(b, step)  == [b EXCEPT !.head = Moved(b, b.head, step)]
TrailMove(b, step) == [b EXCEPT !.trail = Moved(b, b.trail, step)]

Length(b) == IF b.trail - b.head < 0 THEN b.trail - b.head + b.size
                                     ELSE b.trail - b.head

\* The used and the unused part, in two pieces: the second one starts at 0.
Piece(p, n) == [at |-> p, len |-> n]
UsedBufs(b) ==
  IF b.trail >= b.head
    THEN <<Piece(b.head, b.trail - b.head), Piece(0, 0)>>
    ELSE <<Piece(b.head, b.size - b.head), Piece(0, b.trail)>>
UnusedBufs(b) ==
  IF b.trail < b.head
    THEN <<Piece(b.trail, b.head - b.trail), Piece(0, 0)>>
    ELSE <<Piece(b.trail, b.size - b.trail), Piece(0, b.head)>>

\* Can n bytes be added in one piece?
DetectAdd(b, n) == b.trail + n < b.size

Bytes(b, piece) == [i \in 1..piece.len |-> b.data[piece.at + i - 1]]
SafeCopy(b, n) ==
  IF b.head + n <= b.size
    THEN Bytes(b, Piece(b.head, n))
    ELSE [i \in 1..n |-> b.data[(b.head + i - 1) % b.size]]
FastCopy(b, n) ==
  LET used == UsedBufs(b)
      n1   == IF n >= used[1].len THEN used[1].len ELSE n
  IN  Bytes(b, Piece(used[1].at, n1)) \o Bytes(b, Piece(used[2].at, n - n1))

\* The bytes xs are written from position p on.
Store(b, p, xs) ==
  [b EXCEPT !.data = [o \in DOMAIN b.data |->
     IF o \in p..p + Len(xs) - 1 THEN xs[o - p + 1] ELSE b.data[o]]]

\* A scattered receive: xs fills the unused part, first piece first.
Scatter(b, xs) ==
  LET piece == UnusedBufs(b)[1]
      n1    == IF Len(xs) >= piece.len THEN piece.len ELSE Len(xs)
  IN  Store(Store(b, piece.at, SubSeq(xs, 1, n1)),
            0, SubSeq(xs, n1 + 1, Len(xs)))
=============================================================================
