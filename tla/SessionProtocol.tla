--------------------------- MODULE SessionProtocol ---------------------------
(***************************************************************************)
(* One session from the mssh client to the command: client.py's run_session*)
(* and pumps, the ack and the frames (frame.py), msshd's proxy             *)
(* (ssh_proxy.py) and the channel to the inner sshd.                       *)
(*                                                                         *)
(* The two byte streams are FIFO queues of frames, or of chunks of bytes   *)
(* when one side is older than protocol 1.1 (framed = FALSE; the older     *)
(* side is taken to do what this code keeps for it).  Standard error takes *)
(* the way of standard output and is not told apart.  Chunks are numbered. *)
(***************************************************************************)
EXTENDS Naturals, Sequences

CONSTANTS MaxIn, MaxOut   \* bounds: chunks of standard input and of output

ASSUME SessionAssumption == MaxIn \in Nat /\ MaxOut \in Nat

\* How a command ends: with an exit code (0 or 1 stand for 0..255), or killed by
\* signal N, which a shell writes as 128 + N.
Status == {0, 1}
SignalDeaths == {137, 143}
\* The client's return values: an exit code of the command, usage, connect, TLS,
\* no ack, refused, network, a signal it does not know, killed.
UnknownSignal == 129
Killed == 130
Unset == 255
ReturnValue == Status \cup {2, 4, 5, 6, 7, 8, UnknownSignal, Killed, Unset}

VARIABLES
  framed,    \* typed frames (1.1) or raw bytes after the ack
  client,    \* [at, rc, exit, sent, eof]
  server,    \* [at, status, pumping]: proxy_to_inner_ssh
  toServer,  \* the outer stream, client to msshd
  toClient,  \* the outer stream, msshd to client
  reset,     \* the client wrote to a connection that msshd had closed
  inner,     \* from the inner sshd to msshd: output, status, close
  stdin,     \* from msshd to the command: chunks, eof
  command,   \* [at, status, emitted, forwarded, told, got]
  shown      \* what the client has printed

sessionVars == <<framed, client, server, toServer, toClient, reset, inner, stdin, command, shown>>

Frame == {"header", "ok", "refused", "banner", "stdin", "stdin_eof", "stdout", "exit", "signal",
          "close"}
Item == {"stdin", "stdin_eof", "stdout", "status", "signal", "close"}

\* Every variable has its type.
SessionTypeOK ==
  /\ framed \in BOOLEAN /\ reset \in BOOLEAN
  /\ client \in [at : {"start", "ack", "pump", "done"}, rc : ReturnValue, exit : ReturnValue,
                 sent : 0..MaxIn, eof : BOOLEAN]
  /\ client.at = "done" <=> client.rc # Unset
  /\ server \in [at : {"header", "connect", "acked", "session", "closed"},
                 status : Status \cup SignalDeaths \cup {Unset}, pumping : BOOLEAN]
  /\ toServer \in Seq(Frame \X Nat) /\ toClient \in Seq(Frame \X Nat)
  /\ inner \in Seq(Item \X Nat) /\ stdin \in Seq(Item \X Nat)
  /\ command \in [at : {"none", "running", "ended", "lost"},
                  status : Status \cup SignalDeaths \cup {Unset},
                  emitted : 0..MaxOut, forwarded : 0..MaxOut, told : BOOLEAN,
                  got : Seq(Item \X Nat)]
  /\ shown \in Seq(1..MaxOut)

SessionInit ==
  /\ framed \in BOOLEAN
  /\ client = [at |-> "start", rc |-> Unset, exit |-> Unset, sent |-> 0, eof |-> FALSE]
  /\ server = [at |-> "header", status |-> Unset, pumping |-> FALSE]
  /\ toServer = <<>> /\ toClient = <<>> /\ inner = <<>> /\ stdin = <<>>
  /\ reset = FALSE
  /\ command = [at |-> "none", status |-> Unset, emitted |-> 0, forwarded |-> 0,
                told |-> FALSE, got |-> <<>>]
  /\ shown = <<>>

Return(value) == client' = [client EXCEPT !.at = "done", !.rc = value]
Recorded(otherwise) == IF client.exit # Unset THEN client.exit ELSE otherwise
Gone == client.at = "done"
Closed == server.at = "closed"

-----------------------------------------------------------------------------
(* The client *)

\* main refuses its arguments, its config or its identity; no connection; no TLS.
RefuseToStart ==
  /\ client.at = "start"
  /\ \E value \in {2, 4, 5} : Return(value)
  /\ UNCHANGED <<framed, server, toServer, toClient, reset, inner, stdin, command, shown>>

SendHeader ==
  /\ client.at = "start"
  /\ client' = [client EXCEPT !.at = "ack"]
  /\ toServer' = <<<<"header", 0>>>>
  /\ UNCHANGED <<framed, server, toClient, reset, inner, stdin, command, shown>>

\* The ack, refused or not; or the connection ends first.
ReadAck ==
  /\ client.at = "ack"
  /\ \/ /\ toClient # <<>>
        /\ toClient' = Tail(toClient)
        /\ IF Head(toClient)[1] = "ok" THEN client' = [client EXCEPT !.at = "pump"]
                                      ELSE Return(7)
     \/ toClient = <<>> /\ Closed /\ Return(6) /\ UNCHANGED toClient
  /\ UNCHANGED <<framed, server, toServer, reset, inner, stdin, command, shown>>

\* The socket keeps the timeout of 5 s it was connected with; the exception
\* that _read_line then raises is caught nowhere.
AckTimeout ==
  /\ client.at = "ack" /\ toClient = <<>>
  /\ Return(1)
  /\ UNCHANGED <<framed, server, toServer, toClient, reset, inner, stdin, command, shown>>

\* A frame is sent: the first write after msshd's close goes out and brings a
\* reset, the next one fails.
Send(f, then) ==
  \/ ~Closed /\ toServer' = Append(toServer, f) /\ client' = then /\ UNCHANGED reset
  \/ Closed /\ reset' = TRUE /\ client' = then /\ UNCHANGED toServer
  \/ reset /\ Return(Recorded(8)) /\ UNCHANGED <<reset, toServer>>

SendStdin ==
  /\ client.at = "pump" /\ ~client.eof /\ client.sent < MaxIn
  /\ Send(<<"stdin", client.sent + 1>>, [client EXCEPT !.sent = @ + 1])
  /\ UNCHANGED <<framed, server, toClient, inner, stdin, command, shown>>

\* Without frames the end of standard input is not passed on.
SendEof ==
  /\ client.at = "pump" /\ ~client.eof /\ framed
  /\ Send(<<"stdin_eof", 0>>, [client EXCEPT !.eof = TRUE])
  /\ UNCHANGED <<framed, server, toClient, inner, stdin, command, shown>>

\* asyncssh names a signal KILL, signal.Signals knows SIGKILL: whichever it is, the
\* client does not know it.
ReadFrame ==
  /\ client.at = "pump" /\ toClient # <<>>
  /\ LET kind == Head(toClient)[1]
         value == Head(toClient)[2] IN
       \/ kind = "banner" /\ UNCHANGED <<client, shown>>
       \/ kind = "stdout" /\ shown' = Append(shown, value) /\ UNCHANGED client
       \/ kind = "exit" /\ client' = [client EXCEPT !.exit = value] /\ UNCHANGED shown
       \/ kind = "signal" /\ client' = [client EXCEPT !.exit = UnknownSignal] /\ UNCHANGED shown
       \/ kind = "close" /\ Return(Recorded(0)) /\ UNCHANGED shown
  /\ toClient' = Tail(toClient)
  /\ UNCHANGED <<framed, server, toServer, reset, inner, stdin, command>>

\* The connection ends without CLOSE; the raw pump knows no other end.
StreamEnds ==
  /\ client.at = "pump" /\ toClient = <<>> /\ Closed
  /\ Return(IF framed THEN Recorded(8) ELSE 0)
  /\ UNCHANGED <<framed, server, toServer, toClient, reset, inner, stdin, command, shown>>

\* The user kills the client, or its own output is closed.
ClientDies ==
  /\ client.at \in {"ack", "pump"}
  /\ \E value \in {8, Killed} : Return(value)
  /\ UNCHANGED <<framed, server, toServer, toClient, reset, inner, stdin, command, shown>>

-----------------------------------------------------------------------------
(* msshd *)

\* enforce_listener reads the header.
ReadHeader ==
  /\ server.at = "header" /\ toServer # <<>>
  /\ toServer' = Tail(toServer)
  /\ server' = [server EXCEPT !.at = "connect"]
  /\ UNCHANGED <<framed, client, toClient, reset, inner, stdin, command, shown>>

\* A bad or late header, a denial or an inner sshd that does not answer is
\* acked; a bad cert or an sshd that is not spawned is not.
Refuse ==
  /\ client.at # "start"
  /\ server.at \in {"header", "connect"}
  /\ server' = [server EXCEPT !.at = "closed"]
  /\ \/ toClient' = Append(toClient, <<"refused", 0>>)
     \/ server.at = "connect" /\ UNCHANGED toClient
  /\ UNCHANGED <<framed, client, toServer, reset, inner, stdin, command, shown>>

\* Connected to the inner sshd: the ack, and its banner.
Ack ==
  /\ server.at = "connect"
  /\ server' = [server EXCEPT !.at = "acked"]
  /\ \E banner \in {<<>>, <<<<"banner", 0>>>>} :
       /\ framed \/ banner = <<>>
       /\ toClient' = toClient \o <<<<"ok", 0>>>> \o banner
  /\ UNCHANGED <<framed, client, toServer, reset, inner, stdin, command, shown>>

\* create_session; when it raises, the connection is closed without a word.
OpenSession ==
  /\ server.at = "acked"
  /\ \/ /\ server' = [server EXCEPT !.at = "session", !.pumping = TRUE]
        /\ command' = [command EXCEPT !.at = "running"]
     \/ server' = [server EXCEPT !.at = "closed"] /\ UNCHANGED command
  /\ UNCHANGED <<framed, client, toServer, toClient, reset, inner, stdin, shown>>

\* A slip: the end of the input overtakes what is queued before it.
PumpInEofFirst ==
  /\ server.at = "session" /\ server.pumping /\ toServer # <<>>
  /\ LET ends == {n \in DOMAIN toServer : toServer[n][1] = "stdin_eof"}
         n == IF ends = {} THEN 1 ELSE CHOOSE m \in ends : TRUE
     IN /\ stdin' = Append(stdin, toServer[n])
        /\ toServer' = SubSeq(toServer, 1, n - 1) \o SubSeq(toServer, n + 1, Len(toServer))
  /\ UNCHANGED <<framed, client, server, toClient, reset, inner, command, shown>>

\* pump_outer_to_inner.
PumpIn ==
  /\ server.at = "session" /\ server.pumping /\ toServer # <<>>
  /\ stdin' = Append(stdin, Head(toServer))
  /\ toServer' = Tail(toServer)
  /\ UNCHANGED <<framed, client, server, toClient, reset, inner, command, shown>>

\* The client is gone: the channel is closed, and the command hangs up.
PumpEnds ==
  /\ server.at = "session" /\ server.pumping /\ toServer = <<>> /\ Gone
  /\ server' = [server EXCEPT !.pumping = FALSE]
  /\ \/ command.at = "running" /\ command' = [command EXCEPT !.at = "lost"]
     \/ command.at # "running" /\ UNCHANGED command
  /\ inner' = <<<<"close", 0>>>>
  /\ UNCHANGED <<framed, client, toServer, toClient, reset, stdin, shown>>

\* EXIT or SIGNAL, if the inner sshd told either, and CLOSE.
LastFrames(status) ==
  CASE status = Unset           -> <<<<"close", 0>>>>
    [] status \in SignalDeaths -> <<<<"signal", status>>, <<"close", 0>>>>
    [] OTHER                    -> <<<<"exit", status>>, <<"close", 0>>>>

\* A slip: the frames of the end are sent as soon as the status is known.
RelayStatusAtOnce ==
  /\ server.at = "session" /\ inner # <<>> /\ Head(inner)[1] # "close"
  /\ toClient' = IF Head(inner)[1] = "stdout" THEN Append(toClient, Head(inner))
                 ELSE toClient \o LastFrames(Head(inner)[2])
  /\ inner' = Tail(inner)
  /\ UNCHANGED <<framed, client, server, toServer, reset, stdin, command, shown>>

\* _OuterRelay.data_received, and the exit status that the channel keeps.
Relay ==
  /\ server.at = "session" /\ inner # <<>> /\ Head(inner)[1] # "close"
  /\ \/ Head(inner)[1] = "stdout" /\ toClient' = Append(toClient, Head(inner)) /\ UNCHANGED server
     \/ /\ Head(inner)[1] = "status" /\ UNCHANGED toClient
        /\ server' = [server EXCEPT !.status = Head(inner)[2]]
  /\ inner' = Tail(inner)
  /\ UNCHANGED <<framed, client, toServer, reset, stdin, command, shown>>

\* A slip: the outer connection stays open for the client to close.
EndSessionOpen ==
  /\ server.at = "session" /\ inner # <<>> /\ Head(inner)[1] = "close"
  /\ inner' = Tail(inner)
  /\ UNCHANGED <<framed, client, server, toServer, toClient, reset, stdin, command, shown>>

\* chan.wait_closed returns: the status, CLOSE, and the connection is closed.
EndSession ==
  /\ server.at = "session" /\ inner # <<>> /\ Head(inner)[1] = "close"
  /\ toClient' = IF framed THEN toClient \o LastFrames(server.status) ELSE toClient
  /\ inner' = Tail(inner)
  /\ server' = [server EXCEPT !.at = "closed", !.pumping = FALSE]
  /\ UNCHANGED <<framed, client, toServer, reset, stdin, command, shown>>

\* max_session_seconds: the wait is cancelled, no frame is sent.
MaxSession ==
  /\ server.at = "session"
  /\ server' = [server EXCEPT !.at = "closed", !.pumping = FALSE]
  /\ command' = [command EXCEPT !.at = IF @ = "running" THEN "lost" ELSE @]
  /\ UNCHANGED <<framed, client, toServer, toClient, reset, inner, stdin, shown>>

-----------------------------------------------------------------------------
(* External: the command and the inner sshd *)

ReadStdin ==
  /\ command.at = "running" /\ stdin # <<>>
  /\ command' = [command EXCEPT !.got = Append(@, Head(stdin))]
  /\ stdin' = Tail(stdin)
  /\ UNCHANGED <<framed, client, server, toServer, toClient, reset, inner, shown>>

Emit ==
  /\ command.at = "running" /\ command.emitted < MaxOut
  /\ command' = [command EXCEPT !.emitted = @ + 1]
  /\ UNCHANGED <<framed, client, server, toServer, toClient, reset, inner, stdin, shown>>

End ==
  /\ command.at = "running"
  /\ \E s \in Status \cup SignalDeaths :
       command' = [command EXCEPT !.at = "ended", !.status = s]
  /\ UNCHANGED <<framed, client, server, toServer, toClient, reset, inner, stdin, shown>>

\* The inner sshd or its connection dies, and with it the command and what is
\* still on its way to msshd, from any item on.
InnerLost ==
  /\ server.at = "session" /\ command.at \in {"running", "ended"}
  /\ command' = [command EXCEPT !.at = "lost"]
  /\ \E n \in 0 .. Len(inner) :
       /\ \A m \in 1 .. n : inner[m][1] # "close"
       /\ inner' = Append(SubSeq(inner, 1, n), <<"close", 0>>)
  /\ UNCHANGED <<framed, client, server, toServer, toClient, reset, stdin, shown>>

Forwarding == server.at = "session" /\ server.pumping /\ command.at \in {"running", "ended"}

ForwardOutput ==
  /\ Forwarding /\ command.forwarded < command.emitted
  /\ command' = [command EXCEPT !.forwarded = @ + 1]
  /\ inner' = Append(inner, <<"stdout", command.forwarded + 1>>)
  /\ UNCHANGED <<framed, client, server, toServer, toClient, reset, stdin, shown>>

\* sshd reports the status at once, even before the rest of the output.
TellStatus ==
  /\ Forwarding /\ command.at = "ended" /\ ~command.told
  /\ command' = [command EXCEPT !.told = TRUE]
  /\ inner' = Append(inner, <<"status", command.status>>)
  /\ UNCHANGED <<framed, client, server, toServer, toClient, reset, stdin, shown>>

CloseChannel ==
  /\ Forwarding /\ command.told /\ command.forwarded = command.emitted
  /\ \A n \in DOMAIN inner : inner[n][1] # "close"
  /\ inner' = Append(inner, <<"close", 0>>)
  /\ UNCHANGED <<framed, client, server, toServer, toClient, reset, stdin, command, shown>>

-----------------------------------------------------------------------------
(* Specification *)

\* What msshd's event loop and the client's loop do by themselves: nothing of the
\* inner sshd, which may keep a channel open as long as a process holds its output.
SessionProgress ==
  \/ ReadAck \/ ReadFrame \/ StreamEnds
  \/ ReadHeader \/ Ack \/ OpenSession \/ PumpIn \/ PumpEnds \/ Relay \/ EndSession

SessionNext ==
  \/ SessionProgress
  \/ RefuseToStart \/ SendHeader \/ AckTimeout \/ SendStdin \/ SendEof \/ ClientDies
  \/ Refuse \/ MaxSession
  \/ ReadStdin \/ Emit \/ End \/ InnerLost \/ ForwardOutput \/ TellStatus \/ CloseChannel

SessionSpec == SessionInit /\ [][SessionNext]_sessionVars

-----------------------------------------------------------------------------
(* Properties *)

\* What the client returns for a command that ended so.
Reported(status) == IF status \in SignalDeaths THEN UnknownSignal ELSE status

\* A return value that came with EXIT or SIGNAL is the command's, and by then
\* what has been printed is what the command wrote, in order; all of it, though
\* the status overtakes the output on its way (ssh_proxy.py:400-430), unless the
\* inner connection was lost in between.
StatusAfterOutput ==
  client.exit # Unset =>
    /\ client.exit = Reported(command.status)
    /\ Len(shown) <= command.emitted /\ shown = [n \in 1..Len(shown) |-> n]
    /\ command.at # "lost" => Len(shown) = command.emitted

\* A client that returns before or with a refusal has not run the command
\* (ssh_proxy.py:240-275); the client that stops waiting for the ack may have.
RefusedNeverRan == client.rc \in {2, 4, 5, 6, 7} => command.at = "none"

\* A caller of mssh may trust what it returns: these two ways, at least.
ReturnTellsTheTruth == StatusAfterOutput /\ RefusedNeverRan

\* The command reads the client's standard input, in order, and its end after
\* the last chunk.
StdinInOrder ==
  LET all == [n \in 1..client.sent |-> <<"stdin", n>>]
             \o (IF client.eof THEN <<<<"stdin_eof", 0>>>> ELSE <<>>) IN
    /\ Len(command.got) <= Len(all)
    /\ command.got = SubSeq(all, 1, Len(command.got))

\* The channel's close, on its way to msshd.
Closing == \E n \in DOMAIN inner : inner[n][1] = "close"

\* When the channel is closed from any side (by sshd after the command, by its
\* loss, by the limit on the session, by a refusal), the client returns.
ClientReturns == Closing \/ Closed ~> client.at = "done"

-----------------------------------------------------------------------------
(* Claims of the documentation that do not hold (ClaimNoExit, ClaimSignal) *)

\* docs/6-mssh.md:117 "Session succeeded; remote command's exit code", and
\* client.py:425 "return recorded exit code (or 1 if none)": 0 from a framed
\* session is the command's own.
ZeroIsTheCommands == framed /\ client.rc = 0 => command.status = 0

\* docs/6-mssh.md:30 "returns its exit code": a client that nobody kills returns
\* the exit code of a command that ended.  Its own output may be closed, or it
\* writes to a connection that msshd has closed before it reads EXIT.
StatusReturned ==
  framed /\ client.rc \notin {Unset, Killed} /\ command.status \in Status
    => client.rc = command.status

\* docs/6-mssh.md:121 "128+N: Remote killed by signal N", and
\* design/mssh_design_v1.md:4138 "mssh exits 128+N".
SignalIsTold ==
  client.exit # Unset /\ command.status \in SignalDeaths => client.exit = command.status

\* design/mssh_design_v1.md:4137, of EXIT: "remote exit code; sent immediately
\* before CLOSE on graceful end", so that whoever has an exit code has the output.
ExitIsGraceful == client.exit \in Status => Len(shown) = command.emitted
=============================================================================
