------------------------------ MODULE Framing ------------------------------
(***************************************************************************)
(* One direction of a connection: the packages an application gives to     *)
(* session_ioT::send(), or to send_init() .. send_packages(), become bytes *)
(* in the sender's _send_buf, travel over the TCP stream, gather in the    *)
(* receiver's _recv_buf and become packages again in recv_package().       *)
(*                                                                         *)
(* The i-th byte of the m-th package, its header included, is <<m, i>>: a  *)
(* byte knows where it belongs, so that the properties can tell whether    *)
(* one was lost, doubled or taken for another.                             *)
(*                                                                         *)
(* send_at: idle, fill (between send_init and send_packages), sending (the *)
(* WSASend is with the kernel), sent (its completion is with a worker),    *)
(* failed (a WSASend of no bytes has ended the sender's session).          *)
(* recv_at: idle (no recv() outstanding), parse (in recv_package),         *)
(* receiving (WSARecv is with the kernel), failed (recv_failed was         *)
(* announced), broken (protocol_error was).                                *)
(* All other errors of the connection are the subject of Session.          *)
(***************************************************************************)
EXTENDS IoBuf, FiniteSets

CONSTANTS Header,    \* sizeof(header_t)
          SendSize,  \* _send_bufsize of the sender
          RecvSize,  \* _recv_bufsize of the receiver
          Sizes,     \* sizes of packages the application sends
          UserSizes, \* lengths of the buffers it receives them in
          MaxSent,   \* packages sent (bound)
          WireSize,  \* bytes under way (bound)
          Streaming  \* FALSE: the sender waits for the reply to what it sent

ASSUME FramingAssumption ==
  /\ Header \in Nat \ {0}
  /\ SendSize \in Nat /\ Header < SendSize
  /\ RecvSize \in Nat /\ Header < RecvSize
  /\ Sizes \subseteq Nat \ {0} /\ UserSizes \subseteq Nat \ {0}
  /\ MaxSent \in Nat /\ WireSize \in Nat \ {0}
  /\ Streaming \in BOOLEAN

VARIABLES
  sent,      \* sizes of the packages added to the stream so far
  _send_buf,
  send_at,
  trans,     \* bytes the last WSASend has taken
  wire,      \* bytes under way
  _recv_buf,
  recv_at,
  recv_trans, \* bytes the last WSARecv has brought
  _io_recv_buf_len,
  _pack_size,
  got        \* packages recv_finished() has announced, as bytes

sendVars == <<sent, _send_buf, send_at, trans>>
recvVars == <<_recv_buf, recv_at, recv_trans, _io_recv_buf_len, _pack_size, got>>
vars     == <<sendVars, wire, recvVars>>

Junk == <<0, 0>>
Package(m, n) == [i \in 1..Header + n |-> <<m, i>>]
Content(m, n) == [i \in 1..n |-> <<m, Header + i>>]

Init ==
  /\ sent = <<>> /\ wire = <<>> /\ got = <<>>
  /\ _send_buf = Created(SendSize, Junk) /\ send_at = "idle" /\ trans = 0
  /\ _recv_buf = Created(RecvSize, Junk) /\ recv_at = "idle"
  /\ recv_trans = 0 /\ _io_recv_buf_len = 0 /\ _pack_size = 0

-----------------------------------------------------------------------------
(* The sender.                                                             *)
SendInit ==
  /\ send_at = "idle" /\ Len(sent) < MaxSent
  /\ Streaming \/ Len(got) = Len(sent)
  /\ _send_buf' = Reset(_send_buf)
  /\ send_at' = "fill"
  /\ UNCHANGED <<sent, trans, wire, recvVars>>

\* A package that does not fit is refused and the buffer stays as it is.
SendAdd(n) ==
  /\ send_at = "fill" /\ Len(sent) < MaxSent
  /\ DetectAdd(_send_buf, Header + n)
  /\ LET m == Len(sent) + 1 IN
       _send_buf' = TrailMove(Store(_send_buf, _send_buf.trail, Package(m, n)),
                              Header + n)
  /\ sent' = Append(sent, n)
  /\ UNCHANGED <<send_at, trans, wire, recvVars>>

\* send() of such a package, the only one, returns without a WSASend.
SendRefused(n) ==
  /\ send_at = "fill" /\ Length(_send_buf) = 0
  /\ ~DetectAdd(_send_buf, Header + n)
  /\ send_at' = "idle"
  /\ UNCHANGED <<sent, _send_buf, trans, wire, recvVars>>

\* send_packages(): send() of what has been added.  When nothing has, that is a
\* WSASend of no bytes, whose completion has trans = 0: an error, which ends the
\* sender's session.
SendPackages ==
  /\ send_at = "fill"
  /\ send_at' = IF Length(_send_buf) = 0 THEN "failed" ELSE "sending"
  /\ UNCHANGED <<sent, _send_buf, trans, wire, recvVars>>

\* The kernel (external) takes the first n of the bytes it was given.
Transmit(n) ==
  /\ send_at = "sending" /\ Len(wire) + n <= WireSize
  /\ wire' = wire \o Bytes(_send_buf, Piece(_send_buf.head, n))
  /\ trans' = n
  /\ send_at' = "sent"
  /\ UNCHANGED <<sent, _send_buf, recvVars>>

SendPackage_Restart ==  \* fault: the bytes that have been sent are not skipped
  /\ send_at = "sent"
  /\ send_at' = IF trans = Length(_send_buf) THEN "idle" ELSE "sending"
  /\ UNCHANGED <<sent, _send_buf, trans, wire, recvVars>>

\* send_package(trans): skip them, and send the rest or announce send_finished.
SendPackage ==
  /\ send_at = "sent"
  /\ _send_buf' = HeadMove(_send_buf, trans)
  /\ send_at' = IF Length(_send_buf') = 0 THEN "idle" ELSE "sending"
  /\ UNCHANGED <<sent, trans, wire, recvVars>>

-----------------------------------------------------------------------------
(* The receiver.                                                           *)

\* recv(): the next buffer of an application that was told of a larger package
\* holds it.
Recv(n) ==
  /\ recv_at \in {"idle", "failed"}
  /\ recv_at = "failed" => n >= _pack_size
  /\ _io_recv_buf_len' = n
  /\ recv_trans' = 0 /\ recv_at' = "parse"
  /\ UNCHANGED <<_recv_buf, _pack_size, got, wire, sendVars>>

\* The kernel (external) fills n unused bytes.
Receive(n) ==
  /\ recv_at = "receiving" /\ n <= Len(wire)
  /\ _recv_buf' = Scatter(_recv_buf, SubSeq(wire, 1, n))
  /\ wire' = SubSeq(wire, n + 1, Len(wire))
  /\ recv_trans' = n /\ recv_at' = "parse"
  /\ UNCHANGED <<_io_recv_buf_len, _pack_size, got, sendVars>>

Incomplete_Header(size, b) == Length(b) < Header  \* fault: size is ignored
Incomplete_Equal(size, b) == size >= Length(b) - Header  \* fault: off by one
Incomplete(size, b) == size > Length(b) - Header

\* recv_package(trans) with recv_extract_package: receive more, protocol_error,
\* recv_failed or recv_finished.
RecvPackage ==
  LET b    == TrailMove(_recv_buf, recv_trans)
      head == SafeCopy(b, Header)
      m    == head[1][1]
      size == IF Length(b) - Header <= 0 THEN 0 ELSE sent[m]
      body == HeadMove(b, Header)
      bad  == \/ head # SubSeq(Package(m, size), 1, Header)
              \/ size <= 0 \/ size >= b.size
  IN
  /\ recv_at = "parse"
  /\ \/ /\ Length(b) - Header <= 0
        /\ recv_at' = "receiving" /\ _recv_buf' = b /\ _pack_size' = 0
        /\ UNCHANGED got
     \/ /\ Length(b) - Header > 0 /\ bad
        /\ recv_at' = "broken" /\ _recv_buf' = b /\ _pack_size' = size
        /\ UNCHANGED got
     \/ /\ Length(b) - Header > 0 /\ ~bad /\ Incomplete(size, b)
        /\ recv_at' = "receiving" /\ _recv_buf' = b /\ _pack_size' = size
        /\ UNCHANGED got
     \/ /\ Length(b) - Header > 0 /\ ~bad /\ ~Incomplete(size, b)
        /\ size > _io_recv_buf_len
        /\ recv_at' = "failed" /\ _recv_buf' = b /\ _pack_size' = size
        /\ UNCHANGED got
     \/ /\ Length(b) - Header > 0 /\ ~bad /\ ~Incomplete(size, b)
        /\ size <= _io_recv_buf_len
        /\ got' = Append(got, FastCopy(body, size))
        /\ recv_at' = "idle" /\ _recv_buf' = HeadMove(body, size)
        /\ _pack_size' = size
  /\ UNCHANGED <<recv_trans, _io_recv_buf_len, wire, sendVars>>

Offered(pieces) == 1..pieces[1].len + pieces[2].len
TransmitSome == \E n \in 1..UsedBufs(_send_buf)[1].len : Transmit(n)
ReceiveSome  == \E n \in Offered(UnusedBufs(_recv_buf)) : Receive(n)
Next ==
  \/ SendInit \/ (\E n \in Sizes : SendAdd(n) \/ SendRefused(n))
  \/ SendPackages \/ SendPackage
  \/ (\E n \in UserSizes : Recv(n)) \/ RecvPackage
  \/ TransmitSome \/ ReceiveSome

\* TCP delivers, the workers run, and the application sends what it has added
\* and goes on receiving.
Fairness ==
  /\ WF_vars(SendPackages) /\ WF_vars(SendPackage) /\ WF_vars(RecvPackage)
  /\ WF_vars(TransmitSome) /\ WF_vars(ReceiveSome)
  /\ WF_vars(\E n \in UserSizes : Recv(n))

Spec == Init /\ [][Next]_vars /\ Fairness
-----------------------------------------------------------------------------
IsBuffer(b, n) ==
  /\ IsRing(b) /\ b.size = n
  /\ b.data \in [0..n - 1 -> (0..MaxSent) \X Nat]

TypeOK ==
  /\ sent \in Seq(Sizes) /\ Len(sent) <= MaxSent
  /\ IsBuffer(_send_buf, SendSize) /\ IsBuffer(_recv_buf, RecvSize)
  /\ send_at \in {"idle", "fill", "sending", "sent", "failed"}
  /\ trans \in 0..SendSize
  /\ wire \in Seq((1..MaxSent) \X (Nat \ {0})) /\ Len(wire) <= WireSize
  /\ recv_at \in {"idle", "receiving", "parse", "failed", "broken"}
  /\ recv_trans \in 0..RecvSize
  /\ _io_recv_buf_len \in {0} \cup UserSizes
  /\ _pack_size \in {0} \cup Sizes
  /\ got \in Seq(Seq((0..MaxSent) \X Nat))

\* What is received is what was sent, in that order and complete, no matter how
\* the stream was cut into pieces and where the rings wrapped.
GotWhatWasSent ==
  \A m \in DOMAIN got : m <= Len(sent) /\ got[m] = Content(m, sent[m])

\* y is the byte behind x: the next one of its package, or the first one of the
\* next package.
Follows(y, x) ==
  /\ x[1] \in DOMAIN sent
  /\ \/ x[2] < Header + sent[x[1]] /\ y = <<x[1], x[2] + 1>>
     \/ x[2] = Header + sent[x[1]] /\ y = <<x[1] + 1, 1>>

\* What is in the receive buffer when the parser has looked at it, and in the
\* send buffer when the completion has been handled.
Received == IF recv_at = "parse" THEN TrailMove(_recv_buf, recv_trans) ELSE _recv_buf
Unsent   == IF send_at = "sent" THEN HeadMove(_send_buf, trans) ELSE _send_buf

\* The "used" part of the receive buffer (iocp_buffer.h:20-28) is what has been
\* received and not yet given to the application: together with the bytes under
\* way and those still to be sent it is the rest of the stream, from the first
\* byte of the package the application waits for to the last byte sent.
NoByteIsLost ==
  LET rest == FastCopy(Received, Length(Received)) \o wire
                \o Bytes(Unsent, UsedBufs(Unsent)[1])
  IN  /\ rest = <<>> <=> Len(got) = Len(sent)
      /\ rest # <<>> => /\ rest[1] = <<Len(got) + 1, 1>>
                        /\ Follows(<<Len(sent) + 1, 1>>, rest[Len(rest)])
      /\ \A i \in 1..Len(rest) - 1 : Follows(rest[i + 1], rest[i])

\* Every package that is sent arrives.
AllArrive == \A n \in 1..MaxSent : Len(sent) >= n ~> Len(got) >= n
=============================================================================
