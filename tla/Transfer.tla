------------------------------ MODULE Transfer ------------------------------
(***************************************************************************)
(* transferserver.c and transferclient.c: the server sends one file to one *)
(* connection after the other, the client writes what it receives until    *)
(* the stream ends.  Nothing in the stream tells its end from a stop of    *)
(* the server.  Byte i of the file is the number i; a send, a recv and a   *)
(* write may each take a part of what they are given.                      *)
(***************************************************************************)
EXTENDS Integers, Sequences, SequencesExt

CONSTANTS
    Clients,
    FileLength,
    BufSize,        \* BUFSIZE, 512 in the code
    Faults          \* what may go wrong: see AllFaults

\* fopen, fread and send of the server; its process ends; open and write of the
\* client.
AllFaults == {"fopen", "fread", "send", "kill", "open", "write"}

Nobody == "nobody"

Constraints ==
    /\ FileLength \in Nat /\ BufSize \in Nat \ {0}
    /\ Faults \subseteq AllFaults
    /\ Nobody \notin Clients

Bytes(first, last) == [i \in 1 .. last - first + 1 |-> first + i - 1]
Smaller(a, b) == IF a < b THEN a ELSE b

VARIABLES
    cpc,        \* where the client's main is; "done" is exit 0, "failed" exit 1
    msg,        \* msgBuffer: received and not yet written
    output,     \* the client's file
    conn,       \* conn[c]: "open", "eof" or "reset" (also refused) by the server
    down,       \* bytes on their way to the client
    spc, cur,   \* where the server's main is, and the client it serves
    pos,        \* bytes read from the file
    rest,       \* of the server's msgBuffer, what is still to send
    cut,        \* the clients whose stream the server ended early
    skipped     \* the clients in whose stream a failed send left a hole

client == <<cpc, msg, output>>
server == <<spc, cur, pos, rest, cut, skipped>>
vars == <<client, server, conn, down>>

TypeOK ==
    /\ cpc \in [Clients -> {"start", "recv", "write", "done", "failed"}]
    /\ \A c \in Clients : Len(msg[c]) <= BufSize
    /\ \A c \in Clients : Len(output[c]) <= FileLength
    /\ conn \in [Clients -> {"open", "eof", "reset"}]
    /\ down \in [Clients -> Seq(1 .. FileLength)]
    /\ spc \in {"accept", "read", "send", "stopped"}
    /\ cur \in Clients \cup {Nobody} /\ (cur = Nobody) = (spc \in {"accept", "stopped"})
    /\ pos \in 0 .. FileLength
    /\ Len(rest) <= BufSize
    /\ cut \subseteq Clients /\ skipped \subseteq Clients

Init ==
    /\ cpc = [c \in Clients |-> "start"]
    /\ msg = [c \in Clients |-> <<>>] /\ output = [c \in Clients |-> <<>>]
    /\ conn = [c \in Clients |-> "open"] /\ down = [c \in Clients |-> <<>>]
    /\ spc = "accept" /\ cur = Nobody /\ pos = 0 /\ rest = <<>>
    /\ cut = {} /\ skipped = {}

Ended(c) == cpc[c] \in {"done", "failed"}

-----------------------------------------------------------------------------
(* transferclient.                                                         *)

\* A running server lets it connect, a stopped one does not.  The file to write
\* is opened after that, and may fail.
Connect(c) ==
    /\ cpc[c] = "start"
    /\ \/ /\ spc = "stopped"
          /\ cpc' = [cpc EXCEPT ![c] = "failed"]
          /\ conn' = [conn EXCEPT ![c] = "reset"]
       \/ /\ spc # "stopped"
          /\ \/ cpc' = [cpc EXCEPT ![c] = "recv"]
             \/ "open" \in Faults /\ cpc' = [cpc EXCEPT ![c] = "failed"]
          /\ UNCHANGED conn
    /\ UNCHANGED <<msg, output, down, server>>

\* recv takes what has arrived, up to the size of the buffer.
Recv(c, k) ==
    /\ cpc[c] = "recv" /\ k <= BufSize
    /\ msg' = [msg EXCEPT ![c] = SubSeq(down[c], 1, k)]
    /\ down' = [down EXCEPT ![c] = SubSeq(@, k + 1, Len(@))]
    /\ cpc' = [cpc EXCEPT ![c] = "write"]
    /\ UNCHANGED <<output, conn, server>>

\* Mutants: a reset is taken for the end; only a negative result ends the loop.
StreamEndsWell(c) ==
    /\ cpc[c] = "recv" /\ down[c] = <<>> /\ conn[c] # "open"
    /\ cpc' = [cpc EXCEPT ![c] = "done"]
    /\ UNCHANGED <<msg, output, conn, down, server>>

StreamEndsOnError(c) ==
    /\ cpc[c] = "recv" /\ down[c] = <<>>
    /\ \/ conn[c] = "eof" /\ UNCHANGED cpc
       \/ conn[c] = "reset" /\ cpc' = [cpc EXCEPT ![c] = "failed"]
    /\ UNCHANGED <<msg, output, conn, down, server>>

\* recv returns 0 at the end of the stream and -1 after a reset.
StreamEnds(c) ==
    /\ cpc[c] = "recv" /\ down[c] = <<>>
    /\ \/ conn[c] = "eof" /\ cpc' = [cpc EXCEPT ![c] = "done"]
       \/ conn[c] = "reset" /\ cpc' = [cpc EXCEPT ![c] = "failed"]
    /\ UNCHANGED <<msg, output, conn, down, server>>

\* The buffer is written piece by piece, then comes the next recv.
Write(c, k) ==
    /\ cpc[c] = "write"
    /\ output' = [output EXCEPT ![c] = @ \o SubSeq(msg[c], 1, k)]
    /\ msg' = [msg EXCEPT ![c] = SubSeq(@, k + 1, Len(@))]
    /\ cpc' = [cpc EXCEPT ![c] = IF k = Len(msg[c]) THEN "recv" ELSE "write"]
    /\ UNCHANGED <<conn, down, server>>

WriteFails(c) ==
    /\ cpc[c] = "write" /\ "write" \in Faults
    /\ cpc' = [cpc EXCEPT ![c] = "failed"]
    /\ UNCHANGED <<msg, output, conn, down, server>>

ClientStep(c) ==
    \/ Connect(c) \/ StreamEnds(c) \/ WriteFails(c)
    \/ \E k \in 1 .. Len(down[c]) : Recv(c, k)
    \/ \E k \in 1 .. Len(msg[c]) : Write(c, k)

-----------------------------------------------------------------------------
(* transferserver.                                                         *)

\* The connections of the server: the clients that have not been served.
Open(c) == cpc[c] # "start" /\ conn[c] = "open"

\* The process ends.  The connection it serves ends as after a whole file, and
\* those that wait in the listening socket are reset.
Stop ==
    /\ spc' = "stopped" /\ cur' = Nobody /\ rest' = <<>>
    /\ conn' = [c \in Clients |->
                   IF ~ Open(c) THEN conn[c] ELSE IF c = cur THEN "eof" ELSE "reset"]
    /\ cut' = cut \cup {c \in Clients : c = cur}
    /\ UNCHANGED <<pos, down, skipped, client>>

Accept(c) ==
    /\ spc = "accept" /\ Open(c)
    /\ spc' = "read" /\ cur' = c /\ pos' = 0
    /\ UNCHANGED <<client, rest, cut, skipped, conn, down>>

\* fopen of the file fails, after the accept.
OpenFails ==
    /\ "fopen" \in Faults
    /\ spc = "read" /\ pos = 0
    /\ Stop

\* fread fills the buffer if the file has as much.
Read ==
    /\ spc = "read" /\ pos < FileLength
    /\ pos' = Smaller(pos + BufSize, FileLength)
    /\ rest' = Bytes(pos + 1, pos')
    /\ spc' = "send"
    /\ UNCHANGED <<client, cur, cut, skipped, conn, down>>

\* fread returns 0, at the end of the file or because of an error.
ReadEnds ==
    /\ spc = "read"
    /\ pos = FileLength \/ "fread" \in Faults
    /\ cut' = IF pos < FileLength THEN cut \cup {cur} ELSE cut
    /\ conn' = [conn EXCEPT ![cur] = "eof"]
    /\ spc' = "accept" /\ cur' = Nobody
    /\ UNCHANGED <<client, pos, rest, skipped, down>>

\* Mutant: after a short send the rest of the buffer is forgotten.
SendPart(k) ==
    /\ spc = "send"
    /\ down' = IF Ended(cur) THEN down ELSE [down EXCEPT ![cur] = @ \o SubSeq(rest, 1, k)]
    /\ rest' = <<>>
    /\ spc' = "read"
    /\ UNCHANGED <<client, cur, pos, cut, skipped, conn>>

\* send takes the next k bytes.  To a client that has exited they are lost.
Send(k) ==
    /\ spc = "send"
    /\ down' = IF Ended(cur) THEN down ELSE [down EXCEPT ![cur] = @ \o SubSeq(rest, 1, k)]
    /\ rest' = SubSeq(rest, k + 1, Len(rest))
    /\ spc' = IF k = Len(rest) THEN "read" ELSE "send"
    /\ UNCHANGED <<client, cur, pos, cut, skipped, conn>>

\* A failed send leaves only the inner loop: what is left of the buffer is
\* forgotten, and the server goes on with the next one.
LeaveInnerLoop ==
    /\ spc' = "read" /\ rest' = <<>>
    /\ UNCHANGED <<client, cur, pos, cut, conn, down>>

\* The client has exited and its reset is here: the first send fails, and the next
\* one raises SIGPIPE.
SendFails ==
    /\ spc = "send" /\ Ended(cur)
    /\ \/ LeaveInnerLoop /\ UNCHANGED skipped
       \/ Stop

\* A send fails for want of memory, and the client is there.
SendRefused ==
    /\ "send" \in Faults
    /\ spc = "send" /\ ~ Ended(cur)
    /\ skipped' = skipped \cup {cur}
    /\ LeaveInnerLoop

\* A signal ends the process, or accept fails.
Killed ==
    /\ spc # "stopped" /\ "kill" \in Faults
    /\ Stop

ServerStep ==
    \/ \E c \in Clients : Accept(c)
    \/ OpenFails \/ Read \/ ReadEnds
    \/ \E k \in 1 .. Len(rest) : Send(k)
    \/ SendFails

\* The operator starts the server again.
Restart ==
    /\ spc = "stopped"
    /\ spc' = "accept"
    /\ UNCHANGED <<client, cur, pos, rest, cut, skipped, conn, down>>

Idle == (\A c \in Clients : Ended(c)) /\ UNCHANGED vars

Next ==
    \/ ServerStep \/ SendRefused \/ Killed \/ Restart
    \/ \E c \in Clients : ClientStep(c)
    \/ Idle

-----------------------------------------------------------------------------
\* However sends, receives and writes are cut, and wherever the server stops,
\* what a client has written, holds and is about to receive is the beginning
\* of the file.  Only a send that fails for a client that stays leaves a hole,
\* in the stream of that client (transferserver.c:141-143).
NoHole ==
    \A c \in Clients \ skipped :
        LET stream == output[c] \o msg[c] \o down[c]
            sent   == stream \o (IF c = cur /\ ~ Ended(c) THEN rest ELSE <<>>)
        IN  IsPrefix(sent, Bytes(1, FileLength))

\* A client that exits with 0 has the whole file, unless the server ended its
\* own stream early or left a hole in it: a client that waits while the server
\* fails for another one never takes that for an empty file.
SuccessIsWhole ==
    \A c \in Clients : cpc[c] = "done" =>
        output[c] = Bytes(1, FileLength) \/ c \in cut \/ c \in skipped
=============================================================================
