------------------------------ MODULE GetFile ------------------------------
(***************************************************************************)
(* The getfile protocol of gflib: gfc_perform (gfclient.c) and the accept  *)
(* loop of gfserver_serve (gfserver.c) with the handler it calls.  A       *)
(* connection is a pair of byte streams.  The programs see them in pieces  *)
(* of any size: a header may arrive in parts, and the first bytes of the   *)
(* body together with the end of the header.  The server serves one        *)
(* connection at a time; the others wait in the listening socket's queue.  *)
(*                                                                         *)
(* A header is HeaderLength bytes, the last of which completes \r\n\r\n.   *)
(* The response's bytes are numbered from 1, so that byte HeaderLength + i *)
(* is byte i of the file.                                                  *)
(***************************************************************************)
EXTENDS Integers, Sequences

CONSTANTS
    Clients,        \* calls of gfc_perform, each on a connection of its own
    Paths,          \* the kinds of path they may ask for: see AllPaths
    HeaderLength,   \* of request and response
    FileLength,
    HeaderBuffer,   \* sizeof(headerBuffer), 1024 in the code
    BodyBuffer,     \* sizeof(bodyBuffer), 4096 in the code
    SocketBuffer    \* response bytes a connection holds before send blocks

\* "file" exists, "missing" does not, "bad" does not start with '/', and
\* "long" does not fit the client's request buffer.
AllPaths == {"file", "missing", "bad", "long"}

Nobody == "nobody"
Zeroed == 0         \* a byte that the client overwrote

ASSUME GetFileAssumption ==
    /\ Paths \subseteq AllPaths /\ Nobody \notin Clients
    /\ HeaderLength \in Nat \ {0} /\ FileLength \in Nat
    /\ HeaderBuffer \in Nat /\ HeaderLength < HeaderBuffer
    /\ BodyBuffer \in Nat \ {0} /\ SocketBuffer \in Nat \ {0}

VARIABLES
    path,       \* path[c]: what client c asks for
    cpc,        \* where gfc_perform is
    up,         \* up[c]: request bytes in flight
    asked,      \* asked[c]: request bytes sent
    gone,       \* gone[c]: the client has closed its socket
    down,       \* down[c]: response bytes in flight
    closed,     \* closed[c]: the server has closed its socket
    announced,  \* announced[c]: status in the header that the server sent
    buf,        \* buf[c]: headerBuffer of the client
    got,        \* got[c]: what writefunc received
    rstatus, rc,\* status and result of gfc_perform
    fileLen,    \* file_len of the request
    spc, cur,   \* where gfserver_serve is, and the client it serves
    parsed,     \* request bytes read
    offset,     \* bytes of the response sent
    chunk,      \* bytes that the running gfs_send has still to send
    ret         \* where the server goes on after it

client == <<path, cpc, asked, buf, got, rstatus, rc, fileLen>>
server == <<spc, cur, parsed, offset, chunk, ret, closed, announced>>
vars == <<client, server, up, gone, down>>

Statuses == {"OK", "FILE_NOT_FOUND", "ERROR", "INVALID"}

TypeOK ==
    /\ path \in [Clients -> Paths]
    /\ cpc \in [Clients -> {"start", "send", "header", "body",
                         "done", "dead", "silent"}]
    /\ up \in [Clients -> 0 .. HeaderLength]
    /\ asked \in [Clients -> 0 .. HeaderLength]
    /\ gone \in [Clients -> BOOLEAN] /\ closed \in [Clients -> BOOLEAN]
    /\ down \in [Clients -> Seq(1 .. HeaderLength + FileLength)]
    /\ \A c \in Clients : Len(down[c]) <= SocketBuffer
    /\ announced \in [Clients -> Statuses \cup {"none"}]
    /\ \A c \in Clients : Len(buf[c]) <= HeaderBuffer
    /\ \A c \in Clients : Len(got[c]) <= fileLen[c]
    /\ rstatus \in [Clients -> Statuses]
    /\ rc \in [Clients -> {0, -1}]
    /\ fileLen \in [Clients -> {0, FileLength}]
    /\ spc \in {"accept", "request", "handler", "sending", "body", "close", "killed"}
    /\ cur \in Clients \cup {Nobody}
    /\ parsed \in 0 .. HeaderLength
    /\ offset \in 0 .. HeaderLength + FileLength
    /\ chunk \in 0 .. HeaderLength + FileLength - offset
    /\ ret \in {"accept", "body", "close"}

Init ==
    /\ path \in [Clients -> Paths]
    /\ cpc = [c \in Clients |-> "start"]
    /\ up = [c \in Clients |-> 0] /\ asked = [c \in Clients |-> 0]
    /\ gone = [c \in Clients |-> FALSE] /\ closed = [c \in Clients |-> FALSE]
    /\ down = [c \in Clients |-> <<>>]
    /\ announced = [c \in Clients |-> "none"]
    /\ buf = [c \in Clients |-> <<>>] /\ got = [c \in Clients |-> <<>>]
    /\ rstatus = [c \in Clients |-> "INVALID"]
    /\ rc = [c \in Clients |-> -1]
    /\ fileLen = [c \in Clients |-> 0]
    /\ spc = "accept" /\ cur = Nobody /\ parsed = 0 /\ offset = 0
    /\ chunk = 0 /\ ret = "accept"

-----------------------------------------------------------------------------
(* gfc_perform.                                                            *)

\* gfc_perform closes its socket and returns.
Finish(c, result, s) ==
    /\ rc' = [rc EXCEPT ![c] = result]
    /\ rstatus' = [rstatus EXCEPT ![c] = s]
    /\ cpc' = [cpc EXCEPT ![c] = "done"]
    /\ gone' = [gone EXCEPT ![c] = TRUE]

Connect(c) ==
    /\ cpc[c] = "start"
    /\ IF spc = "killed" \/ path[c] = "long"
       THEN Finish(c, -1, "INVALID")
       ELSE /\ cpc' = [cpc EXCEPT ![c] = "send"]
            /\ UNCHANGED <<rc, rstatus, gone>>
    /\ UNCHANGED <<path, asked, buf, got, fileLen, up, down, server>>

\* send takes the next k bytes of the request.
SendRequest(c, k) ==
    /\ cpc[c] = "send"
    /\ asked' = [asked EXCEPT ![c] = @ + k]
    /\ up' = [up EXCEPT ![c] = @ + k]
    /\ cpc' = [cpc EXCEPT ![c] = IF asked'[c] = HeaderLength THEN "header" ELSE "send"]
    /\ UNCHANGED <<path, buf, got, rstatus, rc, fileLen, gone, down, server>>

SendRequestFails(c) ==
    /\ cpc[c] = "send" /\ closed[c]
    /\ Finish(c, -1, "ERROR")
    /\ UNCHANGED <<path, asked, buf, got, fileLen, up, down, server>>

HeaderComplete(c) == HeaderLength <= Len(buf[c])

\* recv takes the next k bytes of the response, whatever they belong to.  The
\* buffer cannot be full before the end of the header: the server's headers
\* are shorter (gfclient.c:164-168, 189-193).
RecvHeader(c, k) ==
    /\ cpc[c] = "header" /\ ~ HeaderComplete(c)
    /\ k <= HeaderBuffer - Len(buf[c])
    /\ buf' = [buf EXCEPT ![c] = @ \o SubSeq(down[c], 1, k)]
    /\ down' = [down EXCEPT ![c] = SubSeq(@, k + 1, Len(@))]
    /\ UNCHANGED <<path, cpc, asked, got, rstatus, rc, fileLen, up, gone, server>>

\* The connection ends before the header does: recv returns 0, or -1 when the
\* server was killed.
HeaderEnds(c) ==
    /\ cpc[c] = "header" /\ ~ HeaderComplete(c)
    /\ down[c] = <<>> /\ closed[c]
    /\ \/ Finish(c, -1, "INVALID")
       \/ spc = "killed" /\ Finish(c, -1, "ERROR")
    /\ UNCHANGED <<path, asked, buf, got, fileLen, up, down, server>>

\* A refusal is a success of the communication.
ParseRefusal(c) ==
    /\ cpc[c] = "header" /\ HeaderComplete(c)
    /\ announced[c] # "OK"
    /\ Finish(c, 0, announced[c])
    /\ UNCHANGED <<path, asked, buf, got, fileLen, up, down, server>>

Smaller(a, b) == IF a < b THEN a ELSE b

\* What follows the header in the buffer.  Line 196 ends the header with a zero
\* byte in headerBuffer itself, where the body begins.
PostHeader(c) ==
    [i \in 1 .. Len(buf[c]) - HeaderLength |->
        IF i = 1 THEN Zeroed ELSE buf[c][HeaderLength + i] - HeaderLength]

\* Mutant: what arrived with the header is forgotten.
ParseOkDropsRest(c) ==
    /\ cpc[c] = "header" /\ HeaderComplete(c)
    /\ announced[c] = "OK"
    /\ rstatus' = [rstatus EXCEPT ![c] = "OK"]
    /\ fileLen' = [fileLen EXCEPT ![c] = FileLength]
    /\ cpc' = [cpc EXCEPT ![c] = "body"]
    /\ UNCHANGED <<path, got, asked, buf, rc, up, gone, down, server>>

\* The header says OK and a length; bytes of the body that came with it are
\* written first.
ParseOk(c) ==
    /\ cpc[c] = "header" /\ HeaderComplete(c)
    /\ announced[c] = "OK"
    /\ rstatus' = [rstatus EXCEPT ![c] = "OK"]
    /\ fileLen' = [fileLen EXCEPT ![c] = FileLength]
    /\ got' = [got EXCEPT ![c] =
                  SubSeq(PostHeader(c), 1, Smaller(Len(PostHeader(c)), FileLength))]
    /\ cpc' = [cpc EXCEPT ![c] = "body"]
    /\ UNCHANGED <<path, asked, buf, rc, up, gone, down, server>>

RecvBody(c, k) ==
    /\ cpc[c] = "body"
    /\ k <= Smaller(BodyBuffer, fileLen[c] - Len(got[c]))
    /\ got' = [got EXCEPT ![c] = @ \o [i \in 1 .. k |-> down[c][i] - HeaderLength]]
    /\ down' = [down EXCEPT ![c] = SubSeq(@, k + 1, Len(@))]
    /\ UNCHANGED <<path, cpc, asked, buf, rstatus, rc, fileLen, up, gone, server>>

BodyComplete(c) ==
    /\ cpc[c] = "body" /\ Len(got[c]) = fileLen[c]
    /\ Finish(c, 0, "OK")
    /\ UNCHANGED <<path, asked, buf, got, fileLen, up, down, server>>

\* Mutants: the end of the stream is taken for the end of the file; only a
\* negative result of recv ends the loop.
BodyEndsWell(c) ==
    /\ cpc[c] = "body" /\ Len(got[c]) < fileLen[c]
    /\ down[c] = <<>> /\ closed[c]
    /\ Finish(c, 0, "OK")
    /\ UNCHANGED <<path, asked, buf, got, fileLen, up, down, server>>

BodyEndsRetries(c) ==
    /\ cpc[c] = "body" /\ Len(got[c]) < fileLen[c]
    /\ down[c] = <<>> /\ closed[c]
    /\ UNCHANGED vars

\* recv returns 0 or fails before the announced length: the status stays OK.
BodyEnds(c) ==
    /\ cpc[c] = "body" /\ Len(got[c]) < fileLen[c]
    /\ down[c] = <<>> /\ closed[c]
    /\ Finish(c, -1, "OK")
    /\ UNCHANGED <<path, asked, buf, got, fileLen, up, down, server>>

\* The client's process is killed.
Die(c) ==
    /\ cpc[c] \in {"send", "header", "body"}
    /\ cpc' = [cpc EXCEPT ![c] = "dead"]
    /\ gone' = [gone EXCEPT ![c] = TRUE]
    /\ UNCHANGED <<path, asked, buf, got, rstatus, rc, fileLen, up, down, server>>

\* The client's process stays, with its connection, and does nothing any more.
Stall(c) ==
    /\ cpc[c] \in {"send", "header", "body"}
    /\ cpc' = [cpc EXCEPT ![c] = "silent"]
    /\ UNCHANGED <<path, asked, buf, got, rstatus, rc, fileLen, up, gone, down, server>>

ClientStep(c) ==
    \/ Connect(c) \/ SendRequestFails(c)
    \/ \E k \in 1 .. HeaderLength - asked[c] : SendRequest(c, k)
    \/ \E k \in 1 .. Len(down[c]) : RecvHeader(c, k) \/ RecvBody(c, k)
    \/ HeaderEnds(c) \/ ParseRefusal(c) \/ ParseOk(c)
    \/ BodyComplete(c) \/ BodyEnds(c)

-----------------------------------------------------------------------------
(* gfserver_serve.                                                         *)

\* A connection waits in the listening socket.
Pending(c) == cpc[c] # "start" /\ ~ closed[c]

Accept(c) ==
    /\ spc = "accept" /\ Pending(c)
    /\ cur' = c
    /\ parsed' = 0 /\ offset' = 0
    /\ spc' = "request"
    /\ UNCHANGED <<client, chunk, ret, closed, announced, up, gone, down>>

RecvRequest(k) ==
    /\ spc = "request" /\ parsed < HeaderLength
    /\ parsed' = parsed + k
    /\ up' = [up EXCEPT ![cur] = @ - k]
    /\ UNCHANGED <<client, spc, cur, offset, chunk, ret, closed, announced, gone, down>>

\* gfs_send of len bytes of the response begins.
BeginSend(len, next) ==
    /\ spc' = "sending"
    /\ chunk' = len
    /\ ret' = next

\* One send of the loop in gfs_send takes the next k bytes, if there is room for
\* them.  What is sent to a client that is gone is lost.
SendPiece(k) ==
    /\ spc = "sending"
    /\ gone[cur] \/ Len(down[cur]) + k <= SocketBuffer
    /\ down' = IF gone[cur] THEN down
               ELSE [down EXCEPT ![cur] = @ \o [i \in 1 .. k |-> offset + i]]
    /\ offset' = offset + k
    /\ chunk' = chunk - k
    /\ spc' = IF chunk = k THEN ret ELSE "sending"
    /\ UNCHANGED <<client, cur, parsed, ret, closed, announced, up, gone>>

\* If something was sent to a client that is gone, a reset may have come back:
\* then send fails, or raises SIGPIPE, which nobody handles.
SendFails ==
    /\ spc = "sending" /\ gone[cur] /\ 0 < offset
    /\ chunk' = 0
    /\ \/ spc' = "close" /\ UNCHANGED closed
       \/ spc' = "killed" /\ closed' = [c \in Clients |-> TRUE]
    /\ UNCHANGED <<client, cur, parsed, offset, ret, announced, up, gone, down>>

\* gfs_sendheader: the header goes out in one gfs_send.
SendHeader(status, next) ==
    /\ announced' = [announced EXCEPT ![cur] = status]
    /\ BeginSend(HeaderLength, next)
    /\ UNCHANGED <<client, cur, parsed, offset, closed, up, gone, down>>

\* The client closed before the end of its header, or the header is malformed.
RefuseInvalid ==
    /\ spc = "request"
    /\ \/ parsed < HeaderLength /\ up[cur] = 0 /\ gone[cur]
       \/ parsed = HeaderLength /\ path[cur] = "bad"
    /\ SendHeader("INVALID", "close")

CallHandler ==
    /\ spc = "request" /\ parsed = HeaderLength /\ path[cur] # "bad"
    /\ spc' = "handler"
    /\ UNCHANGED <<client, cur, parsed, offset, chunk, ret, closed, announced, up,
                   gone, down>>

\* The registered handler: a header, and the body in chunks of any size.
HandlerRefuses ==
    /\ spc = "handler"
    /\ \/ path[cur] = "missing" /\ SendHeader("FILE_NOT_FOUND", "close")
       \/ SendHeader("ERROR", "close")

HandlerAnnounces ==
    /\ spc = "handler" /\ path[cur] = "file"
    /\ SendHeader("OK", "body")

HandlerSends(k) ==
    /\ spc = "body" /\ offset + k <= HeaderLength + FileLength
    /\ BeginSend(k, "body")
    /\ UNCHANGED <<client, cur, parsed, offset, closed, announced, up, gone, down>>

\* The handler returns: all is sent, or it gives up in the middle or before it
\* has sent anything.  What it returns is not looked at.
HandlerReturns ==
    /\ spc \in {"handler", "body"}
    /\ spc' = "close"
    /\ UNCHANGED <<client, cur, parsed, offset, chunk, ret, closed, announced, up,
                   gone, down>>

\* gfs_abort or the end of the loop: shutdown and close.
Close ==
    /\ spc = "close"
    /\ closed' = [closed EXCEPT ![cur] = TRUE]
    /\ cur' = Nobody
    /\ spc' = "accept"
    /\ UNCHANGED <<client, parsed, offset, chunk, ret, announced, up, gone, down>>

ServerStep ==
    \/ \E c \in Clients : Accept(c)
    \/ \E k \in 1 .. (IF cur = Nobody THEN 0 ELSE up[cur]) : RecvRequest(k)
    \/ \E k \in 1 .. chunk : SendPiece(k)
    \/ SendFails
    \/ RefuseInvalid \/ CallHandler
    \/ HandlerRefuses \/ HandlerAnnounces
    \/ \E k \in 1 .. FileLength : HandlerSends(k)
    \/ HandlerReturns \/ Close

\* The server waits, without a time limit, for a client that does nothing:
\* recv for its request, or send for room in its socket.
ServesSilent ==
    /\ cur # Nobody /\ cpc[cur] = "silent"
    /\ \/ spc = "request" /\ parsed < HeaderLength /\ up[cur] = 0
       \/ spc = "sending" /\ Len(down[cur]) = SocketBuffer

Ended(c) == cpc[c] \in {"done", "dead", "silent"}

\* No client is left, or the server waits for ever.
Idle == ((\A c \in Clients : Ended(c)) \/ ServesSilent) /\ UNCHANGED vars

Next == ServerStep \/ (\E c \in Clients : ClientStep(c) \/ Die(c) \/ Stall(c)) \/ Idle

Spec == Init /\ [][Next]_vars
FairSpec == Spec /\ WF_vars(ServerStep) /\ \A c \in Clients : WF_vars(ClientStep(c))

-----------------------------------------------------------------------------
\* A whole response arrived: a header and, if it says OK, as many bytes of the body
\* as it announces.
WholeResponse(c) ==
    HeaderComplete(c) /\ (announced[c] = "OK" => Len(got[c]) = FileLength)

\* gfclient.h:87-92: the result is 0 exactly when a whole response arrived, and
\* then the status is the one that the server announced.  A refusal counts, also
\* the answer INVALID (gfclient.c:228-232), which the header file does not list;
\* with any refusal the callback got nothing.  If the connection closed early the
\* result is -1, and the status is OK exactly when the header came through.
ResultTellsOutcome ==
    \A c \in Clients : cpc[c] = "done" =>
        /\ rc[c] = 0 <=> WholeResponse(c)
        /\ rc[c] = 0 => rstatus[c] = announced[c]
        /\ rc[c] = -1 => (rstatus[c] = "OK" <=> HeaderComplete(c))
        /\ announced[c] # "OK" => got[c] = <<>>

\* However the stream was cut, every byte of the body but the first is written
\* in its place, and the first is lost only if it arrived with the header.
BodyInPlace ==
    \A c \in Clients : \A i \in 1 .. Len(got[c]) :
        \/ got[c][i] = i
        \/ i = 1 /\ HeaderLength < Len(buf[c])

\* gfc_perform returns whatever the other clients do, as long as the server does
\* not wait for ever for one that keeps its connection and is silent: in recv
\* before its request is complete (gfserver.c:184), or in send when its socket is
\* full (gfserver.c:54).
EveryPerformReturns ==
    \A c \in Clients : <>Ended(c) \/ <>[]ServesSilent

\* gfclient.h:73-74: the write callback "will receive a pointer the chunk" of
\* the body: what it gets is the file from its beginning.
CallbackGetsChunks ==
    \A c \in Clients : \A i \in 1 .. Len(got[c]) : got[c][i] = i
=============================================================================
