------------------------------ MODULE FileCopy ------------------------------
(***************************************************************************)
(* The two example programs talking to each other.  The client opens its   *)
(* sessions one after the other; on each of them the server sends its file *)
(* piece by piece, the client answers every package with "ok", a package   *)
(* of one byte is the end of the file, and after CopyCount copies of it    *)
(* the client quits the session.  Each program has its package queue and   *)
(* its loop; the client has one thread of the port.                        *)
(*                                                                         *)
(* A session makes one call at a time (Session proves it for such          *)
(* handlers), so on each side it is a token, cl[s] and sv[s]:              *)
(*   none, backlog (connected, not yet accepted), package (one of its      *)
(*   packages is queued), send, recv, quit (that call is outstanding),     *)
(*   deleted                                                               *)
(* link[s]: up, lost (by the network, or with the server), closed (by the  *)
(*   client).  On a link that is not up outstanding calls fail, but what   *)
(*   has arrived before may still be received.                             *)
(* main: open (client.open and sessions_open), loop, quit, close_sockets,  *)
(*   wait (iocp_close), done                                               *)
(*                                                                         *)
(* Framing shows that a package arrives as it was sent; here it arrives in *)
(* one step.  An error package is only logged and precedes "disconnected": *)
(* left out.  The server's file exists and is not empty; its close() is in *)
(* Server.                                                                 *)
(***************************************************************************)
EXTENDS Integers, Sequences

CONSTANTS Clients,    \* CLIENT_COUNT
          CopyCount,  \* COPY_COUNT
          Piece,      \* _piece_size of the server, in bytes
          FileSizes,  \* the sizes tried, in bytes
          MaxFaults   \* bound: links lost by the network and fopen() calls that fail

ASSUME FileCopyAssumption ==
  /\ Clients \in Nat \ {0} /\ CopyCount \in Nat \ {0}
  /\ Piece \in Nat \ {0, 1} /\ FileSizes \subseteq Nat \ {0}
  /\ MaxFaults \in Nat

Sessions == 1..Clients
Names    == Sessions \X (0..CopyCount - 1)  \* client_session_<id>_<count>
NoName   == <<0, 0>>
Nothing  == <<>>     \* no package
EndMark  == <<0>>    \* the package "0"; byte i of the file is i
Missing  == <<-1>>   \* a file that has not been created

VARIABLES
  fileSize,
  main, opened, connections, qc, worker,  \* the client: session_join calls,
                    \* _connect_count, package queue, the session that its
                    \* thread is about to remove from the list (0: none)
  cl, id, count, pf, inbox, \* session_data_t: its id, count, pf (0: none), buf
  stream,           \* the open FILEs of the client: which file each writes
  files,            \* the files it has written
  serverUp, serverConnections, qv,
  sv, pos, sending, \* session_data_t::pos, and the session's send buffer
  _buf,             \* the buffer all sessions of the server share
  link, wire, reply,  \* the connection, and what is under way on it
  faults,           \* so far
  misclosed,        \* a session has closed another session's FILE
  died              \* the client was ended by undefined behaviour

clientVars == <<main, opened, connections, qc, worker>>
copies     == <<id, count, pf, stream, files>>
serverVars == <<serverUp, serverConnections, qv, sv, pos, sending, _buf>>
net        == <<link, wire, reply>>
ub         == <<faults, misclosed, died>>
vars == <<fileSize, clientVars, cl, inbox, copies, serverVars, net, ub>>

All(v) == [s \in Sessions |-> v]

Init ==
  /\ fileSize \in FileSizes
  /\ main = "open" /\ opened = 0 /\ connections = 0 /\ qc = <<>> /\ worker = 0
  /\ cl = All("none") /\ id = All(0) /\ count = All(0) /\ pf = All(0)
  /\ inbox = All(Nothing)
  /\ stream = All(NoName) /\ files = [n \in Names |-> Missing]
  /\ serverUp = TRUE /\ serverConnections = 0 /\ qv = <<>>
  /\ sv = All("none") /\ pos = All(0) /\ sending = All(Nothing) /\ _buf = Nothing
  /\ link = All("closed") /\ wire = All(Nothing) /\ reply = All(FALSE)
  /\ faults = 0 /\ misclosed = FALSE /\ died = FALSE

Pack(st, s) == [status |-> st, ses |-> s]
\* msg_queue::quit() has been called: put() is refused.
Stopped   == opened = Clients /\ main \in {"close_sockets", "wait", "done"}
Queued(p) == qc' = IF Stopped THEN qc ELSE Append(qc, p)

-----------------------------------------------------------------------------
(* The client's main(): sessions_open.                                     *)
Connect ==
  /\ main = "open" /\ opened < Clients /\ serverUp
  /\ opened' = opened + 1
  /\ link' = [link EXCEPT ![opened'] = "up"]
  /\ sv' = [sv EXCEPT ![opened'] = "backlog"]
  /\ cl' = [cl EXCEPT ![opened'] = "package"]
  /\ Queued(Pack("connected", opened'))
  /\ UNCHANGED <<fileSize, main, connections, worker, inbox, copies, serverUp,
                 serverConnections, qv, pos, sending, _buf, wire, reply, ub>>

MainTo(here, there) ==
  /\ main = here /\ main' = there
  /\ UNCHANGED <<fileSize, opened, connections, qc, worker, cl, inbox, copies,
                 serverVars, net, ub>>

\* No port, no socket, or connect() fails; the sessions opened so far remain.
ConnectFails == opened < Clients /\ MainTo("open", "close_sockets")
LoopStart    == opened = Clients /\ MainTo("open", "loop")

-----------------------------------------------------------------------------
(* The client's loop: tick() and its handlers.                             *)
Tick(st, s) ==
  /\ main = "loop" /\ qc # <<>> /\ Head(qc) = Pack(st, s)
  /\ qc' = Tail(qc)
  /\ UNCHANGED <<fileSize, opened, worker, serverVars>>

Call(s, c) == cl' = [cl EXCEPT ![s] = c]

\* fclose(): what the FILEs are after it, and whether it is undefined.
Closed(f) == [stream EXCEPT ![f] = NoName]
CloseIsUndefined(f) == stream[f] = NoName

\* fopen(name, "wb"): the first FILE that is free in `table`, or none.
Fopen(s, name, table) ==
  \E f \in {0} \cup {g \in Sessions : table[g] = NoName} :
    /\ \A g \in 1..f - 1 : table[g] # NoName
    /\ pf' = [pf EXCEPT ![s] = f]
    /\ stream' = [g \in Sessions |-> IF g = f THEN name ELSE table[g]]
    /\ files' = IF f = 0 THEN files ELSE [files EXCEPT ![name] = <<>>]
    /\ faults' = IF f = 0 THEN faults + 1 ELSE faults
    /\ f = 0 => faults < MaxFaults

OnConnected(s) ==
  /\ Tick("connected", s)
  /\ connections' = connections + 1
  /\ id' = [id EXCEPT ![s] = connections']
  /\ Fopen(s, <<id'[s], 0>>, stream)
  /\ Call(s, "recv")
  /\ UNCHANGED <<main, inbox, count, net, misclosed, died>>

OnSendFinished(s) ==
  /\ Tick("send_finished", s)
  /\ Call(s, "recv")
  /\ UNCHANGED <<main, connections, inbox, copies, net, ub>>

\* A package of one byte: the end of the file.  After the last copy pf keeps
\* pointing to the FILE that has been closed.
EndOfCopy(s) ==
  /\ count' = [count EXCEPT ![s] = @ + 1]
  /\ died' \in {FALSE, pf[s] # 0 /\ CloseIsUndefined(pf[s])}
  /\ LET table == IF pf[s] = 0 THEN stream ELSE Closed(pf[s]) IN
       \/ /\ count'[s] < CopyCount
          /\ Fopen(s, <<id[s], count'[s]>>, table)
          /\ Call(s, "send")
       \/ /\ count'[s] >= CopyCount
          /\ stream' = table
          /\ Call(s, "quit")
          /\ UNCHANGED <<pf, files, faults>>

PieceOfCopy(s) ==
  /\ \/ /\ pf[s] # 0 /\ stream[pf[s]] # NoName
        /\ files' = [files EXCEPT ![stream[pf[s]]] = @ \o inbox[s]]
        /\ died' = FALSE
     \/ /\ pf[s] # 0 /\ stream[pf[s]] = NoName
        /\ died' \in BOOLEAN
        /\ UNCHANGED files
     \/ /\ pf[s] = 0
        /\ UNCHANGED <<files, died>>
  /\ Call(s, "send")
  /\ UNCHANGED <<count, pf, stream, faults>>

OnRecvFinished_NoFile(s) ==  \* fault: no reply when the file is not open
  /\ Tick("recv_finished", s)
  /\ inbox' = [inbox EXCEPT ![s] = Nothing]
  /\ IF Len(inbox[s]) = 1 THEN EndOfCopy(s)
     ELSE IF pf[s] # 0 THEN PieceOfCopy(s)
     ELSE Call(s, "none") /\ UNCHANGED <<count, pf, stream, files, faults, died>>
  /\ UNCHANGED <<main, connections, id, net, misclosed>>

OnRecvFinished(s) ==
  /\ Tick("recv_finished", s)
  /\ inbox' = [inbox EXCEPT ![s] = Nothing]
  /\ IF Len(inbox[s]) = 1 THEN EndOfCopy(s) ELSE PieceOfCopy(s)
  /\ UNCHANGED <<main, connections, id, net, misclosed>>

\* fclose(pf) if pf is set, closed or not.
DeleteSession(s) ==
  /\ Tick("disconnected", s)
  /\ connections' = connections - 1
  /\ \/ /\ pf[s] # 0
        /\ stream' = Closed(pf[s])
        /\ died' \in {FALSE, CloseIsUndefined(pf[s])}
        /\ misclosed' = (misclosed \/ stream[pf[s]] \notin {NoName} \cup
                                        {n \in Names : n[1] = id[s]})
     \/ /\ pf[s] = 0
        /\ UNCHANGED <<stream, misclosed, died>>
  /\ Call(s, "deleted")
  /\ UNCHANGED <<inbox, id, count, pf, files, net, faults>>

OnDisconnected_QuitsAtOnce(s) ==  \* fault: the loop ends with any session
  DeleteSession(s) /\ main' = "quit"

OnDisconnected(s) ==
  DeleteSession(s) /\ main' = IF connections' = 0 THEN "quit" ELSE "loop"

-----------------------------------------------------------------------------
(* The client's thread of the port.                                        *)
Idle == worker = 0 /\ main # "done"

Thread(s, st) ==
  /\ Idle
  /\ Queued(Pack(st, s)) /\ Call(s, "package")
  /\ UNCHANGED <<fileSize, main, opened, connections, copies, serverVars, ub>>

Received(s) ==
  /\ cl[s] = "recv" /\ wire[s] # Nothing
  /\ Thread(s, "recv_finished")
  /\ inbox' = [inbox EXCEPT ![s] = wire[s]]
  /\ wire' = [wire EXCEPT ![s] = Nothing]
  /\ UNCHANGED <<worker, link, reply>>

Sent(s) ==
  /\ cl[s] = "send" /\ link[s] = "up"
  /\ Thread(s, "send_finished")
  /\ reply' = [reply EXCEPT ![s] = TRUE]
  /\ UNCHANGED <<worker, inbox, link, wire>>

\* One of the calls has failed, or the packet of quit(): disconected().
Ends(s, calls) ==
  /\ cl[s] = "quit" \/ (cl[s] \in calls /\ link[s] # "up")
  /\ Thread(s, "disconnected")
  /\ link' = [link EXCEPT ![s] = IF @ = "up" THEN "closed" ELSE @]
  /\ worker' = s
  /\ UNCHANGED <<inbox, wire, reply>>

Disconected_SendOnly(s) ==  \* fault: a receive that fails is not noticed
  Ends(s, {"send"})

Disconected(s) == Ends(s, {"send", "recv"})

\* Its last part, session_remove(this): the loop may have deleted the session.
Remove ==
  /\ worker # 0
  /\ died' \in {FALSE, cl[worker] = "deleted"}
  /\ worker' = 0
  /\ UNCHANGED <<fileSize, main, opened, connections, qc, cl, inbox, copies,
                 serverVars, net, faults, misclosed>>

(* The rest of main(): msg_queue::quit(), client.close().                  *)
Quit == MainTo("quit", "close_sockets")

\* The list may still hold the session that is being removed, deleted or not.
CloseSockets ==
  /\ main = "close_sockets"
  /\ main' = "wait"
  /\ link' = [s \in Sessions |-> IF link[s] = "up" THEN "closed" ELSE link[s]]
  /\ died' \in {FALSE, worker # 0 /\ cl[worker] = "deleted"}
  /\ UNCHANGED <<fileSize, opened, connections, qc, worker, cl, inbox, copies,
                 serverVars, wire, reply, faults, misclosed>>

\* The thread has taken the quit packet.
Wait == worker = 0 /\ MainTo("wait", "done")

-----------------------------------------------------------------------------
(* The server.                                                             *)
ServerPut(s, st) ==
  /\ serverUp
  /\ sv' = [sv EXCEPT ![s] = "package"]
  /\ qv' = Append(qv, Pack(st, s))
  /\ UNCHANGED <<fileSize, clientVars, cl, inbox, copies, serverUp,
                 serverConnections, pos, _buf, link, ub>>

Accept(s) ==
  /\ sv[s] = "backlog"
  /\ ServerPut(s, "connected")
  /\ UNCHANGED <<sending, wire, reply>>

Transmit(s, data) ==
  /\ sv[s] = "send" /\ link[s] = "up"
  /\ ServerPut(s, "send_finished")
  /\ wire' = [wire EXCEPT ![s] = data]
  /\ sending' = [sending EXCEPT ![s] = Nothing]
  /\ UNCHANGED reply

ServerSent_Shared(s) == Transmit(s, _buf)  \* fault: send() keeps the caller's buffer
ServerSent(s)        == Transmit(s, sending[s])

ServerReceived(s) ==
  /\ sv[s] = "recv" /\ reply[s]
  /\ ServerPut(s, "recv_finished")
  /\ reply' = [reply EXCEPT ![s] = FALSE]
  /\ UNCHANGED <<sending, wire>>

ServerDisconected(s) ==
  /\ sv[s] \in {"send", "recv"} /\ link[s] # "up"
  /\ ServerPut(s, "disconnected")
  /\ UNCHANGED <<sending, wire, reply>>

ServerTick(st, s) ==
  /\ serverUp /\ qv # <<>> /\ Head(qv) = Pack(st, s)
  /\ qv' = Tail(qv)
  /\ UNCHANGED <<fileSize, clientVars, cl, inbox, copies, wire, reply, ub>>

\* read() and send(): the next piece, which send() copies; at the end of the
\* file the mark, and the next copy starts.
SendBytes(s, n) ==
  /\ _buf' = IF n = 0 THEN EndMark ELSE [i \in 1..n |-> pos[s] + i]
  /\ pos' = [pos EXCEPT ![s] = IF n = 0 THEN 0 ELSE @ + n]
  /\ sending' = [sending EXCEPT ![s] = _buf']
  /\ sv' = [sv EXCEPT ![s] = "send"]
  /\ UNCHANGED <<serverUp, link>>

SendPiece_Whole(s) ==  \* fault: what fread() returns is not looked at
  SendBytes(s, IF pos[s] >= fileSize THEN 0 ELSE Piece)

SendPiece(s) ==
  SendBytes(s, IF fileSize - pos[s] < Piece THEN fileSize - pos[s] ELSE Piece)

ServerOnConnected(s) ==
  /\ ServerTick("connected", s)
  /\ SendPiece(s)
  /\ serverConnections' = serverConnections + 1

ServerOnRecvFinished(s) ==
  /\ ServerTick("recv_finished", s)
  /\ SendPiece(s)
  /\ UNCHANGED serverConnections

ServerOnSendFinished(s) ==
  /\ ServerTick("send_finished", s)
  /\ sv' = [sv EXCEPT ![s] = "recv"]
  /\ UNCHANGED <<serverUp, serverConnections, pos, sending, _buf, link>>

\* With its last session the server ends, whoever is waiting to be accepted.
ServerOnDisconnected(s) ==
  /\ ServerTick("disconnected", s)
  /\ sv' = [sv EXCEPT ![s] = "deleted"]
  /\ serverConnections' = serverConnections - 1
  /\ serverUp' = (serverConnections' > 0)
  /\ link' = IF serverUp' THEN link
             ELSE [r \in Sessions |-> IF link[r] = "up" THEN "lost" ELSE link[r]]
  /\ UNCHANGED <<pos, sending, _buf>>

\* The network (external).
Lose(s) ==
  /\ link[s] = "up" /\ faults < MaxFaults
  /\ link' = [link EXCEPT ![s] = "lost"]
  /\ faults' = faults + 1
  /\ UNCHANGED <<fileSize, clientVars, cl, inbox, copies, serverVars, wire,
                 reply, misclosed, died>>

-----------------------------------------------------------------------------
Handler(s)  == OnConnected(s) \/ OnSendFinished(s) \/ OnRecvFinished(s)
                 \/ OnDisconnected(s)
ThreadStep(s) == Received(s) \/ Sent(s) \/ Disconected(s)
ServerHandler(s) == ServerOnConnected(s) \/ ServerOnRecvFinished(s)
                      \/ ServerOnSendFinished(s) \/ ServerOnDisconnected(s)
ServerThread(s)  == ServerSent(s) \/ ServerReceived(s) \/ ServerDisconected(s)

\* Something that can happen in one of the programs or on a link that is up
\* happens in the end.  No link need be lost.
Progress ==
  /\ ~died
  /\ \/ Connect \/ ConnectFails \/ LoopStart \/ Quit \/ CloseSockets
     \/ Wait \/ Remove
     \/ \E s \in Sessions :
          \/ Handler(s) \/ ThreadStep(s)
          \/ Accept(s) \/ ServerHandler(s) \/ ServerThread(s)

Next == Progress \/ (~died /\ \E s \in Sessions : Lose(s))

Spec == Init /\ [][Next]_vars /\ WF_vars(Progress)
-----------------------------------------------------------------------------
TypeOK ==
  /\ main \in {"open", "loop", "quit", "close_sockets", "wait", "done"}
  /\ opened \in 0..Clients /\ connections \in 0..Clients
  /\ worker \in 0..Clients
  /\ cl \in [Sessions -> {"none", "package", "send", "recv", "quit", "deleted"}]
  /\ sv \in [Sessions -> {"none", "backlog", "package", "send", "recv", "deleted"}]
  /\ link \in [Sessions -> {"up", "lost", "closed"}]
  /\ count \in [Sessions -> 0..CopyCount] /\ pf \in [Sessions -> 0..Clients]
  /\ stream \in [Sessions -> Names \cup {NoName}]
  /\ serverConnections \in 0..Clients /\ pos \in [Sessions -> 0..fileSize]
  /\ \A s \in Sessions : Len(inbox[s]) <= Piece /\ Len(wire[s]) <= Piece

\* The copies a session has counted are the server's file, byte for byte, one
\* file each, although all sessions of the server read through one FILE and one
\* buffer.  Not when the last piece of the file has one byte, which the client
\* takes for the end, nor after a second fclose() has hit a FILE in use.
FilesAreCopies ==
  ~misclosed /\ fileSize % Piece # 1 =>
    \A s \in Sessions : \A k \in 0..count[s] - 1 :
      files[<<id[s], k>>] \in {Missing, [i \in 1..fileSize |-> i]}

\* The client's loop ends only when every session it has opened has been
\* disconnected and deleted: connections() is not 0 before, because all the
\* "connected" packages are queued before any other (main() opens all sessions
\* before its loop starts).
NobodyLeftBehind == main = "quit" => cl = All("deleted")

\* A session whose link stays up gets all its copies: the two programs never
\* wait for each other, not even when a file cannot be opened.
Copied ==
  main = "loop" ~>
    \/ died
    \/ \A s \in Sessions : count[s] = CopyCount \/ link[s] = "lost"

\* The client ends, whichever links are lost and when, whether or not connect()
\* fails, and if the server leaves.
ClientEnds == <>(main = "done" \/ died)
=============================================================================
