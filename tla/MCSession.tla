----------------------------- MODULE MCSession -----------------------------
(* Applications for checking Session.  An application is the set of scripts*)
(* each of its handlers may run.                                           *)
EXTENDS Session

\* One call at most per package: the sequence of calls that iocp_session.h
\* (267-276) calls safe and that both examples follow.
OneCall == {<<"send">>, <<"recv">>, <<"quit">>}
HalfDuplex ==
  [o \in Occasions |->
     CASE o = "recv_failed"    -> {<<>>, <<"recvmax">>, <<"quit">>}
       [] o = "protocol_error" -> {<<>>, <<"quit">>}
       [] o \in Errors         -> {<<>>}
       [] OTHER                -> {<<>>} \cup OneCall]

\* The same application when it never leaves a session without a call.  It does
\* not try to send what was refused.
Persistent ==
  [o \in Occasions |->
     CASE o = "recv_failed"    -> {<<"recvmax">>, <<"quit">>}
       [] o = "protocol_error" -> {<<"quit">>}
       [] o = "refused"        -> {<<"recv">>, <<"quit">>}
       [] o \in Errors         -> {<<>>}
       [] OTHER                -> OneCall]

\* A send and a receive outstanding at the same time.
FullDuplex ==
  [o \in Occasions |->
     CASE o = "connected"     -> {<<"send", "recv">>}
       [] o = "send_finished" -> {<<>>, <<"send">>}
       [] o = "recv_finished" -> {<<"recv">>}
       [] OTHER                -> {<<>>}]
=============================================================================
