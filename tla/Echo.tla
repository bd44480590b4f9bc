-------------------------------- MODULE Echo --------------------------------
(***************************************************************************)
(* echoserver.c and echoclient.c.  The client sends one message and prints *)
(* what one recv returns; the server serves one connection at a time and   *)
(* sends back whatever each recv returns.  A message may arrive in pieces, *)
(* and so may its echo.  Byte i of the message of client c is <<c, i>>.    *)
(*                                                                         *)
(* Messages fit into one send on either side, and send and recv fail only  *)
(* because of their connection.  Only a client that is not this one can    *)
(* make the server's recv return more than Limit bytes.                    *)
(***************************************************************************)
EXTENDS Integers, Sequences, SequencesExt

CONSTANTS
    Clients,
    Length,         \* Length[c]: the length of the message of c
    Limit,          \* the longest message, 15 in the code
    Mortal          \* the clients that may be killed

Nobody == "nobody"

Constraints ==
    /\ Length \in [Clients -> Nat] /\ Limit \in Nat
    /\ Mortal \subseteq Clients /\ Nobody \notin Clients

Message(c) == [i \in 1 .. Length[c] |-> <<c, i>>]

VARIABLES
    cpc,        \* where the client's main is; "done" is exit 0, "failed" exit 1;
                \* "unsent" and "killed": killed before and after its send
    msg,        \* msgBuffer of the client
    output,     \* what it has printed
    conn,       \* conn[c]: see below
    up, down,   \* bytes on their way to the server and back
    spc, cur,   \* where the server's main is, and the client it serves
    rest        \* msgBuffer of the server

client == <<cpc, msg, output>>
server == <<spc, cur, rest>>
vars == <<client, server, conn, up, down>>

\* The client closed: "fin"; then something was sent to it: "poked"; it closed
\* before it had read everything: "rst".  The server closed: "closed"; the
\* server exited: "reset".
ConnStates == {"none", "open", "fin", "poked", "rst", "closed", "reset"}

TypeOK ==
    /\ cpc \in [Clients -> {"start", "send", "recv", "write",
                             "done", "failed", "killed", "unsent"}]
    /\ \A c \in Clients : msg[c] \in Seq({c} \X (1 .. Length[c]))
    /\ \A c \in Clients : output[c] \in Seq({c} \X (1 .. Length[c]))
    /\ conn \in [Clients -> ConnStates]
    /\ \A c \in Clients : Len(up[c]) <= Limit /\ Len(down[c]) <= Limit
    /\ spc \in {"accept", "recv", "send", "stopped"}
    /\ cur \in Clients \cup {Nobody}
    /\ Len(rest) <= Limit

Init ==
    /\ cpc = [c \in Clients |-> "start"]
    /\ msg = [c \in Clients |-> <<>>] /\ output = [c \in Clients |-> <<>>]
    /\ conn = [c \in Clients |-> "none"]
    /\ up = [c \in Clients |-> <<>>] /\ down = [c \in Clients |-> <<>>]
    /\ spc = "accept" /\ cur = Nobody /\ rest = <<>>

Ended(c) == cpc[c] \in {"done", "failed", "killed", "unsent"}

-----------------------------------------------------------------------------
(* echoclient.                                                             *)

\* The client exits: its socket is closed.
Exit(c, how) ==
    /\ cpc' = [cpc EXCEPT ![c] = how]
    /\ conn' = [conn EXCEPT ![c] = IF @ # "open" THEN @
                                   ELSE IF down[c] = <<>> THEN "fin" ELSE "rst"]

Connect(c) ==
    /\ cpc[c] = "start"
    /\ IF spc = "stopped"
       THEN cpc' = [cpc EXCEPT ![c] = "failed"] /\ UNCHANGED conn
       ELSE /\ cpc' = [cpc EXCEPT ![c] = "send"]
            /\ conn' = [conn EXCEPT ![c] = "open"]
    /\ UNCHANGED <<msg, output, up, down, server>>

\* A message that is too long is refused, after the client has connected.
TooLong(c) ==
    /\ cpc[c] = "send" /\ Length[c] > Limit
    /\ Exit(c, "failed")
    /\ UNCHANGED <<msg, output, up, down, server>>

\* An empty message sends nothing.  On a connection that the server has reset,
\* send fails, or raises SIGPIPE.
Send(c) ==
    /\ cpc[c] = "send" /\ Length[c] <= Limit
    /\ \/ /\ conn[c] = "open"
          /\ cpc' = [cpc EXCEPT ![c] = "recv"]
          /\ up' = [up EXCEPT ![c] = Message(c)]
          /\ UNCHANGED conn
       \/ /\ conn[c] = "reset"
          /\ Exit(c, "failed")
          /\ UNCHANGED up
    /\ UNCHANGED <<msg, output, down, server>>

\* One recv: it returns what has arrived.
Recv(c, k) ==
    /\ cpc[c] = "recv"
    /\ msg' = [msg EXCEPT ![c] = SubSeq(down[c], 1, k)]
    /\ down' = [down EXCEPT ![c] = SubSeq(@, k + 1, Len(@))]
    /\ cpc' = [cpc EXCEPT ![c] = "write"]
    /\ UNCHANGED <<output, conn, up, server>>

\* recv fails: the server has exited.
RecvFails(c) ==
    /\ cpc[c] = "recv" /\ conn[c] = "reset"
    /\ Exit(c, "failed")
    /\ UNCHANGED <<msg, output, up, down, server>>

\* write to the standard output, in full or not.
Write(c) ==
    /\ cpc[c] = "write"
    /\ \/ /\ output' = [output EXCEPT ![c] = msg[c]]
          /\ Exit(c, "done")
       \/ /\ Exit(c, "failed")
          /\ UNCHANGED output
    /\ UNCHANGED <<msg, up, down, server>>

\* The client's process is killed, before its send or after it.
Die(c) ==
    /\ c \in Mortal /\ cpc[c] \in {"send", "recv", "write"}
    /\ Exit(c, IF cpc[c] = "send" THEN "unsent" ELSE "killed")
    /\ UNCHANGED <<msg, output, up, down, server>>

ClientStep(c) ==
    \/ Connect(c) \/ TooLong(c) \/ Send(c) \/ RecvFails(c) \/ Write(c)
    \/ \E k \in 1 .. Len(down[c]) : Recv(c, k)

-----------------------------------------------------------------------------
(* echoserver.                                                             *)

\* The server exits: its connections are reset.
Stop ==
    /\ spc' = "stopped" /\ cur' = Nobody /\ rest' = <<>>
    /\ conn' = [c \in Clients |-> IF conn[c] \in {"none", "closed"} THEN conn[c]
                                  ELSE "reset"]
    /\ UNCHANGED <<client, up, down>>

Accept(c) ==
    /\ spc = "accept" /\ conn[c] \in {"open", "fin"}
    /\ spc' = "recv" /\ cur' = c
    /\ UNCHANGED <<client, rest, conn, up, down>>

\* accept fails: for want of descriptors, or for a connection that was aborted.
AcceptFails ==
    /\ spc = "accept"
    /\ Stop

\* Mutant: the buffer is as long as the last message.
ServerRecvStale(k) ==
    /\ spc = "recv"
    /\ rest' = SubSeq(up[cur], 1, k) \o SubSeq(rest, k + 1, Len(rest))
    /\ up' = [up EXCEPT ![cur] = SubSeq(@, k + 1, Len(@))]
    /\ spc' = "send"
    /\ UNCHANGED <<client, cur, conn, down>>

ServerRecv(k) ==
    /\ spc = "recv"
    /\ rest' = SubSeq(up[cur], 1, k)
    /\ up' = [up EXCEPT ![cur] = SubSeq(@, k + 1, Len(@))]
    /\ spc' = "send"
    /\ UNCHANGED <<client, cur, conn, down>>

\* Mutant: the end of the stream is an error.
StreamEndExits ==
    /\ spc = "recv" /\ up[cur] = <<>> /\ conn[cur] \in {"fin", "poked"}
    /\ Stop

\* recv returns 0: the connection is closed, and the next one is accepted.
StreamEnd ==
    /\ spc = "recv" /\ up[cur] = <<>> /\ conn[cur] \in {"fin", "poked"}
    /\ conn' = [conn EXCEPT ![cur] = "closed"]
    /\ spc' = "accept" /\ cur' = Nobody
    /\ UNCHANGED <<client, rest, up, down>>

\* Mutant: recv is tried again after an error.
RecvErrorRetries ==
    /\ spc = "recv" /\ conn[cur] \in {"poked", "rst"}
    /\ UNCHANGED vars

\* recv fails: a reset has come back.
RecvError ==
    /\ spc = "recv" /\ conn[cur] \in {"poked", "rst"}
    /\ Stop

\* One send of what was received.  What is sent to a client that is gone is
\* lost, and is answered by a reset.
ServerSend ==
    /\ spc = "send"
    /\ down' = IF conn[cur] = "open" THEN [down EXCEPT ![cur] = @ \o rest] ELSE down
    /\ conn' = IF conn[cur] = "fin" THEN [conn EXCEPT ![cur] = "poked"] ELSE conn
    /\ spc' = "recv"
    /\ UNCHANGED <<client, cur, rest, up>>

\* After a reset send fails, or raises SIGPIPE.
ServerSendFails ==
    /\ spc = "send" /\ conn[cur] \in {"poked", "rst"}
    /\ Stop

ServerStep ==
    \/ \E c \in Clients : Accept(c)
    \/ \E k \in 1 .. (IF cur = Nobody THEN 0 ELSE Len(up[cur])) : ServerRecv(k)
    \/ StreamEnd \/ RecvError \/ ServerSend \/ ServerSendFails

\* The operator starts the server again.
Restart ==
    /\ spc = "stopped"
    /\ spc' = "accept"
    /\ UNCHANGED <<client, cur, rest, conn, up, down>>

\* The client sent nothing and waits for its echo, for which the server waits.
BothWait ==
    /\ spc = "recv" /\ Length[cur] = 0
    /\ cpc[cur] = "recv" /\ conn[cur] = "open"

Idle == ((\A c \in Clients : Ended(c)) \/ BothWait) /\ UNCHANGED vars

Next ==
    \/ ServerStep \/ AcceptFails \/ Restart
    \/ \E c \in Clients : ClientStep(c) \/ Die(c)
    \/ Idle

-----------------------------------------------------------------------------
\* A client prints the beginning of its own message, and nothing of another
\* client's that the server's buffer still holds (echoserver.c:124-136),
\* however the two streams are cut and wherever the server exits.
EchoesOwnMessage ==
    \A c \in Clients :
        /\ IsPrefix(msg[c] \o down[c], Message(c))
        /\ IsPrefix(output[c], Message(c))

\* The client has sent its message and has ended without the whole echo: its one
\* recv returned a part of it (echoclient.c:130), or it was killed.
LeftEarly(c) ==
    /\ Ended(c) /\ Len(msg[c]) < Length[c]
    /\ msg[c] # <<>> \/ cpc[c] = "killed"

\* The server exits because accept failed (echoserver.c:117-121), or while it
\* serves a client that left early (echoserver.c:130-141): after a client that got
\* all of its echo, refused its message, or was killed before it sent, it goes on,
\* and no client makes it exit while it serves another one.
ExitStep ==
    spc # "stopped" /\ spc' = "stopped" => spc = "accept" \/ LeftEarly(cur)
=============================================================================
