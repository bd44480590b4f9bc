---------------------------- MODULE SimpleProxy ----------------------------
(***************************************************************************)
(* The simple proxy: the worker threads of the getfile library gfserver.o  *)
(* call handle_with_curl, which fetches a file from the origin into memory *)
(* and only then answers.  The library is an object file: what it does     *)
(* with a negative result is told by gfserver.h and by its code.           *)
(*                                                                         *)
(* What the client of request r is sent is a sequence of items: headers    *)
(* and bytes.  Byte i of what the origin has for r is <<r, i>>.            *)
(***************************************************************************)
EXTENDS Integers, Sequences, FiniteSets, SequencesExt

CONSTANTS
    Requests,
    Threads,        \* worker threads of the library
    BodyLength      \* of what the origin answers, its error pages included

Constraints == Threads \in Nat \ {0} /\ BodyLength \in Nat

\* What the origin has: the file, a 404, or another status of 400 or more.
Origins == {"file", "missing", "broken"}
Header(status, len) == [status |-> status, length |-> len]
Body(r) == [i \in 1 .. BodyLength |-> <<r, i>>]

VARIABLES
    origin,     \* origin[r]: what the origin has for r
    pc,         \* where the worker of r is
    response,   \* response[r]: MemoryBuf, what write_callback has stored
    curl,       \* curl[r]: how curl_easy_perform ended
    position,   \* bytes of the response sent
    stream,     \* stream[r]: the items sent to the client
    gone,       \* gone[r]: the client has left
    alive       \* the proxy runs

vars == <<origin, pc, response, curl, position, stream, gone, alive>>

TypeOK ==
    /\ origin \in [Requests -> Origins]
    /\ pc \in [Requests -> {"waiting", "fetch", "decide", "body", "blocked",
                            "failed", "closed"}]
    /\ \A r \in Requests : IsPrefix(response[r], Body(r))
    /\ curl \in [Requests -> {"none", "ok", "error", "silent"}]
    /\ position \in [Requests -> 0 .. BodyLength]
    /\ \A r \in Requests : Len(stream[r]) <= BodyLength + 2
    /\ gone \in [Requests -> BOOLEAN]
    /\ alive \in BOOLEAN

Init ==
    /\ origin \in [Requests -> Origins]
    /\ pc = [r \in Requests |-> "waiting"]
    /\ response = [r \in Requests |-> <<>>]
    /\ curl = [r \in Requests |-> "none"]
    /\ position = [r \in Requests |-> 0]
    /\ stream = [r \in Requests |-> <<>>]
    /\ gone = [r \in Requests |-> FALSE]
    /\ alive = TRUE

Active == {r \in Requests : pc[r] \notin {"waiting", "closed"}}

-----------------------------------------------------------------------------
(* handle_with_curl.                                                       *)

\* A worker calls the handler; malloc or curl_easy_init may fail.
Call(r) ==
    /\ alive /\ pc[r] = "waiting"
    /\ Cardinality(Active) < Threads
    /\ \E next \in {"fetch", "failed"} : pc' = [pc EXCEPT ![r] = next]
    /\ UNCHANGED <<origin, response, curl, position, stream, gone, alive>>

\* write_callback appends the next k bytes.
WriteCallback(r, k) ==
    /\ alive /\ pc[r] = "fetch" /\ curl[r] = "none"
    /\ response' = [response EXCEPT ![r] = @ \o SubSeq(Body(r), Len(@) + 1, Len(@) + k)]
    /\ UNCHANGED <<origin, pc, curl, position, stream, gone, alive>>

\* Mutant: the fetch begins again after an error.
PerformRetries(r) ==
    /\ alive /\ pc[r] = "fetch" /\ curl[r] = "none"
    /\ \/ /\ response[r] = Body(r)
          /\ curl' = [curl EXCEPT ![r] = "ok"]
          /\ pc' = [pc EXCEPT ![r] = "decide"]
          /\ UNCHANGED response
       \/ /\ response' = [response EXCEPT ![r] = <<>>]
          /\ UNCHANGED <<curl, pc>>
    /\ UNCHANGED <<origin, position, stream, gone, alive>>

\* curl_easy_perform returns: the whole answer is there; or the connection, or
\* realloc in write_callback, failed on the way.
PerformReturns(r) ==
    /\ alive /\ pc[r] = "fetch" /\ curl[r] = "none"
    /\ \/ response[r] = Body(r) /\ curl' = [curl EXCEPT ![r] = "ok"]
       \/ curl' = [curl EXCEPT ![r] = "error"]
    /\ pc' = [pc EXCEPT ![r] = "decide"]
    /\ UNCHANGED <<origin, response, position, stream, gone, alive>>

\* The origin keeps the connection and sends nothing more; no time limit is set.
OriginFallsSilent(r) ==
    /\ alive /\ pc[r] = "fetch" /\ curl[r] = "none"
    /\ curl' = [curl EXCEPT ![r] = "silent"]
    /\ UNCHANGED <<origin, pc, response, position, stream, gone, alive>>

\* gfs_sendheader or gfs_send of items.  What is sent to a client that has left
\* is lost; the call may fail, or SIGPIPE ends the proxy.
Deliver(r, items, next, failed) ==
    \/ /\ stream' = IF gone[r] THEN stream ELSE [stream EXCEPT ![r] = @ \o items]
       /\ pc' = [pc EXCEPT ![r] = next]
       /\ UNCHANGED alive
    \/ /\ gone[r]
       /\ \/ pc' = [pc EXCEPT ![r] = failed] /\ UNCHANGED alive
          \/ alive' = FALSE /\ UNCHANGED pc
       /\ UNCHANGED stream

\* The handler's own refusal, after which it returns -1.
Refuse(r) ==
    /\ alive /\ pc[r] = "decide"
    /\ \/ /\ curl[r] = "error" \/ origin[r] = "missing"
          /\ Deliver(r, <<Header("FILE_NOT_FOUND", 0)>>, "failed", "failed")
       \/ /\ curl[r] = "ok" /\ origin[r] = "broken"
          /\ Deliver(r, <<Header("ERROR", 0)>>, "failed", "failed")
    /\ UNCHANGED <<origin, response, curl, position, gone>>

\* Mutant: the status of the origin is not looked at.
AnnounceAnyStatus(r) ==
    /\ alive /\ pc[r] = "decide"
    /\ curl[r] = "ok"
    /\ Deliver(r, <<Header("OK", Len(response[r]))>>, "body", "failed")
    /\ UNCHANGED <<origin, response, curl, position, gone>>

Announce(r) ==
    /\ alive /\ pc[r] = "decide"
    /\ curl[r] = "ok" /\ origin[r] = "file"
    /\ Deliver(r, <<Header("OK", Len(response[r]))>>, "body", "failed")
    /\ UNCHANGED <<origin, response, curl, position, gone>>

\* send_all, piece by piece.
SendAll(r, k) ==
    /\ alive /\ pc[r] = "body" /\ position[r] + k <= Len(response[r])
    /\ Deliver(r, SubSeq(response[r], position[r] + 1, position[r] + k), "body", "failed")
    /\ position' = [position EXCEPT ![r] = @ + k]
    /\ UNCHANGED <<origin, response, curl, gone>>

\* The client stays and reads nothing more: once the socket is full gfs_send does
\* not return (server/gfserver.h:140-143), and no time limit is set.  A header
\* always fits.
SendBlocks(r) ==
    /\ alive /\ pc[r] = "body" /\ position[r] < Len(response[r])
    /\ ~ gone[r]
    /\ pc' = [pc EXCEPT ![r] = "blocked"]
    /\ UNCHANGED <<origin, response, curl, position, stream, gone, alive>>

\* The handler returns the size, and the library closes the connection.
ReturnsSize(r) ==
    /\ alive /\ pc[r] = "body" /\ position[r] = Len(response[r])
    /\ pc' = [pc EXCEPT ![r] = "closed"]
    /\ UNCHANGED <<origin, response, curl, position, stream, gone, alive>>

-----------------------------------------------------------------------------
(* The library and the client.                                             *)

\* After a negative result the library sends an error message and closes.
LibrarySendsError(r) ==
    /\ alive /\ pc[r] = "failed"
    /\ Deliver(r, <<Header("ERROR", 0)>>, "closed", "closed")
    /\ UNCHANGED <<origin, response, curl, position, gone>>

ClientLeaves(r) ==
    /\ ~ gone[r] /\ pc[r] # "blocked"
    /\ gone' = [gone EXCEPT ![r] = TRUE]
    /\ UNCHANGED <<origin, pc, response, curl, position, stream, alive>>

WorkerStep(r) ==
    \/ Call(r)
    \/ \E k \in 1 .. BodyLength - Len(response[r]) : WriteCallback(r, k)
    \/ PerformReturns(r)
    \/ Refuse(r) \/ Announce(r)
    \/ \E k \in 1 .. BodyLength : SendAll(r, k)
    \/ ReturnsSize(r) \/ LibrarySendsError(r)

\* The worker waits without a time limit, for its origin or for its client.
Held(r) == curl[r] = "silent" \/ pc[r] = "blocked"
AllThreadsHeld == Threads <= Cardinality({r \in Requests : Held(r)})
Answered(r) == pc[r] = "closed" \/ ~ alive
Settled(r) == pc[r] = "closed" \/ Held(r)

\* Nothing is left that a thread could do.
Idle ==
    /\ ~ alive \/ AllThreadsHeld \/ \A r \in Requests : Settled(r)
    /\ UNCHANGED vars

Next ==
    \/ \E r \in Requests :
          WorkerStep(r) \/ OriginFallsSilent(r) \/ SendBlocks(r) \/ ClientLeaves(r)
    \/ Idle

-----------------------------------------------------------------------------
\* gfserver.h:105-110 (server): what a client gets begins with the handler's own
\* answer.  OK is followed by the origin's bytes of this request, in order and
\* without another header, and by all of them if the client stays; the error
\* page of an origin and a fetch that failed half-way are never announced as a
\* file; and no client is left without an answer.
AnswerIsHonest ==
    \A r \in Requests :
        LET items == stream[r]
        IN  /\ items # <<>> => CASE
                  Head(items).status = "OK" ->
                      /\ origin[r] = "file" /\ Head(items).length = BodyLength
                      /\ IsPrefix(Tail(items), Body(r))
                [] Head(items).status = "FILE_NOT_FOUND" ->
                      origin[r] = "missing" \/ curl[r] = "error"
                [] Head(items).status = "ERROR" ->
                      curl[r] = "none" \/ (curl[r] = "ok" /\ origin[r] = "broken")
            /\ pc[r] = "closed" /\ ~ gone[r] =>
                  /\ items # <<>>
                  /\ Head(items).status = "OK" => Tail(items) = Body(r)
=============================================================================
