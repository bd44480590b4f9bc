---------------------------- MODULE CacheChannel ----------------------------
(***************************************************************************)
(* The heart of the caching proxy: how one request travels from a worker   *)
(* of the proxy (handle_with_cache.c) through the command socket to a      *)
(* worker of the cache process (simplecached.c) and how the file comes     *)
(* back through a shared memory segment, packet by packet, under a pair of *)
(* semaphores (shm_channel.c).                                             *)
(*                                                                         *)
(* A request r names both actors that work for it: ppc[r] is where the     *)
(* proxy worker that handles r is, cpc[r] where the cache worker that      *)
(* serves r is.  At most ProxyThreads and CacheThreads of them are active  *)
(* at any time.  Everything between two blocking points or two accesses to *)
(* shared memory is one step.                                              *)
(*                                                                         *)
(* The mutex and condition variable of the segment pool and of the work    *)
(* queue are the subject of SegmentPool and WorkQueue; here acquiring a    *)
(* segment and popping a connection are single steps.  Descriptors are the *)
(* subject of CacheDescriptors; here a stray close of the cache takes away *)
(* the listening socket, or something else in use, where the model ends.   *)
(***************************************************************************)
EXTENDS Integers, Sequences, FiniteSets

CONSTANTS
    Requests,       \* GET requests that reach the proxy
    NSegments,      \* size of the segment pool
    ProxyThreads,   \* worker threads of the proxy
    CacheThreads,   \* worker threads of the cache
    Backlog,        \* connections that may await accept(); 64 in the code
    DataCap,        \* bytes of file data that fit into a packet
    Paths,          \* names of files
    Wants,          \* Wants[r]: the file request r asks for
    Cached,         \* files the cache has
    Size,           \* Size[p]: length of file p
    Faults          \* which of the calls in AllFaults may fail

AllFaults == {"write", "header", "send", "stall", "setup", "dup", "pread"}

ASSUME CacheChannelAssumption ==
    /\ NSegments \in Nat \ {0}
    /\ ProxyThreads \in Nat \ {0}
    /\ CacheThreads \in Nat \ {0}
    /\ Backlog \in Nat
    /\ DataCap \in Nat \ {0}
    /\ Wants \in [Requests -> Paths]
    /\ Cached \subseteq Paths
    /\ Size \in [Paths -> Nat]
    /\ Faults \subseteq AllFaults

Segments == 1 .. NSegments

OK       == 0       \* CACHE_STATUS_OK
NOTFOUND == 1       \* CACHE_STATUS_NOTFOUND

\* The i-th byte of file p; a zero byte is what memset leaves.
Byte(p, i) == <<p, i>>
Zero == <<"zero", 0>>

Data == Seq(({"zero"} \cup Paths) \X Nat)

\* shm_packet_t.  data stands for the first validBytes bytes of buffer[].
Packet == [status : {OK, NOTFOUND}, fileSize : Nat, validBytes : Nat,
           streamDone : BOOLEAN, data : Data]

Cleared == [status |-> OK, fileSize |-> 0, validBytes |-> 0,
            streamDone |-> FALSE, data |-> <<>>]

VARIABLES
    \* The pool, in the proxy.
    inUse,      \* inUse[s]
    \* Shared between the two processes.
    pkt,        \* pkt[s]: the packet in segment s
    empty,      \* empty[s], full[s]: the semaphores of segment s
    full,
    \* The command channel.
    listening,  \* the cache has bound its socket
    backlog,    \* connections that await accept()
    conn,       \* conn[r]: what the cache finds when it reads r's connection
    workq,      \* the work queue of the cache
    stray,      \* what a stray close of the cache has hit
    \* The proxy's worker for r, and the client behind it.
    ppc,
    seg,        \* the segment of r; it stays in the request once sent
    header,     \* the status sent to the client
    length,     \* the length sent with it
    body,       \* the bytes sent to the client
    result,     \* how the handler ended
    \* The cache's worker for r.
    cpc,
    offset      \* totalBytesTransferred

proxyVars == <<ppc, seg, header, length, body, result>>
cacheVars == <<cpc, offset>>
shmVars   == <<pkt, empty, full>>
cmdVars   == <<listening, backlog, conn, workq, stray>>

vars == <<inUse, shmVars, cmdVars, proxyVars, cacheVars>>

-----------------------------------------------------------------------------
ProxyIdle    == {"idle", "done"}
\* The proxy worker holds the token of its segment: it may read the packet.
ProxyReading == {"packet", "body", "stalled", "post"}
ProxyOwning  == {"clear", "clearing", "connect", "write", "wait", "release"}
                    \cup ProxyReading
ProxyStates  == ProxyIdle \cup {"acquire", "reply"} \cup ProxyOwning

CacheIdle    == {"none", "done"}
\* The cache worker holds the token of the segment: it may write the packet.
CacheWriting == {"fill", "postData", "fillFail", "postFail"}
\* At "unset" the cache worker cleans up without having initialized reqfd.
CacheAttached == {"waitData", "check", "waitFail", "unset", "cleanup"}
                     \cup CacheWriting
CacheStates  == CacheIdle \cup {"read"} \cup CacheAttached

FreeSegments == {s \in Segments : ~inUse[s]}

ProxyActive == {r \in Requests : ppc[r] \notin ProxyIdle}
CacheActive == {r \in Requests : cpc[r] \notin CacheIdle}

TypeOK ==
    /\ inUse \in [Segments -> BOOLEAN]
    /\ pkt \in [Segments -> Packet]
    /\ empty \in [Segments -> Nat]
    /\ full \in [Segments -> Nat]
    /\ listening \in BOOLEAN
    /\ backlog \in Seq(Requests)
    /\ conn \in [Requests -> {"none", "open", "request", "eof"}]
    /\ workq \in Seq(Requests)
    /\ stray \in {"none", "socket", "other"}
    /\ ppc \in [Requests -> ProxyStates]
    /\ seg \in [Requests -> Segments \cup {0}]
    /\ header \in [Requests -> {"none", "OK", "FILE_NOT_FOUND"}]
    /\ length \in [Requests -> Nat]
    /\ body \in [Requests -> Data]
    /\ result \in [Requests -> {"none", "total", "notfound", "failure"}]
    /\ cpc \in [Requests -> CacheStates]
    /\ offset \in [Requests -> Nat]

-----------------------------------------------------------------------------
\* proxy_pool_init: every segment starts out free, with the one token of its
\* semaphore pair on the empty side.
Init ==
    /\ inUse = [s \in Segments |-> FALSE]
    /\ pkt = [s \in Segments |-> Cleared]
    /\ empty = [s \in Segments |-> 1]
    /\ full = [s \in Segments |-> 0]
    /\ listening = FALSE
    /\ backlog = <<>>
    /\ conn = [r \in Requests |-> "none"]
    /\ workq = <<>>
    /\ stray = "none"
    /\ ppc = [r \in Requests |-> "idle"]
    /\ seg = [r \in Requests |-> 0]
    /\ header = [r \in Requests |-> "none"]
    /\ length = [r \in Requests |-> 0]
    /\ body = [r \in Requests |-> <<>>]
    /\ result = [r \in Requests |-> "none"]
    /\ cpc = [r \in Requests |-> "none"]
    /\ offset = [r \in Requests |-> 0]

ToProxy(r, place) == ppc' = [ppc EXCEPT ![r] = place]
ToCache(r, place) == cpc' = [cpc EXCEPT ![r] = place]

Post(sem, s) == sem' = [sem EXCEPT ![s] = @ + 1]

Take(sem, s) ==
    /\ sem[s] > 0
    /\ sem' = [sem EXCEPT ![s] = @ - 1]

-----------------------------------------------------------------------------
(* The proxy: handle_with_cache.                                           *)

\* The gfserver library hands a request to one of its worker threads.
Start(r) ==
    /\ ppc[r] = "idle"
    /\ Cardinality(ProxyActive) < ProxyThreads
    /\ ToProxy(r, "acquire")
    /\ UNCHANGED <<inUse, shmVars, cmdVars, cacheVars, seg, header, length, body,
                   result>>

\* Mutant: the scan forgets to mark the segment it returns.
AcquireUnmarked(r, s) ==
    /\ ppc[r] = "acquire"
    /\ s \in FreeSegments
    /\ \A t \in FreeSegments : s <= t
    /\ seg' = [seg EXCEPT ![r] = s]
    /\ ToProxy(r, "clear")
    /\ UNCHANGED <<inUse, shmVars, cmdVars, cacheVars, header, length, body, result>>

\* proxy_seg_acq: the lowest free segment.
Acquire(r, s) ==
    /\ ppc[r] = "acquire"
    /\ s \in FreeSegments
    /\ \A t \in FreeSegments : s <= t
    /\ inUse' = [inUse EXCEPT ![s] = TRUE]
    /\ seg' = [seg EXCEPT ![r] = s]
    /\ ToProxy(r, "clear")
    /\ UNCHANGED <<shmVars, cmdVars, cacheVars, header, length, body, result>>

\* memset of the packet.  No token of the segment is held, so that a cache
\* worker that is still attached may write while the memset runs: the memset
\* lasts from Clear to Cleaned, and what Fill stores in between may be lost.
Clear(r) ==
    /\ ppc[r] = "clear"
    /\ pkt' = [pkt EXCEPT ![seg[r]] = Cleared]
    /\ ToProxy(r, "clearing")
    /\ UNCHANGED <<inUse, empty, full, cmdVars, cacheVars, seg, header, length,
                   body, result>>

Cleaned(r) ==
    /\ ppc[r] = "clearing"
    /\ ToProxy(r, "connect")
    /\ UNCHANGED <<inUse, shmVars, cmdVars, cacheVars, seg, header, length, body,
                   result>>

\* connect_to_cache_socket is retried every second until the cache listens.
Connect(r) ==
    /\ ppc[r] = "connect"
    /\ listening
    /\ Len(backlog) <= Backlog
    /\ backlog' = Append(backlog, r)
    /\ conn' = [conn EXCEPT ![r] = "open"]
    /\ ToProxy(r, "write")
    /\ UNCHANGED <<inUse, shmVars, listening, workq, stray, cacheVars, seg, header,
                   length, body, result>>

\* write() of the request, in full or (fault) not.
Write(r) ==
    /\ ppc[r] = "write"
    /\ \/ /\ conn' = [conn EXCEPT ![r] = "request"]
          /\ ToProxy(r, "wait")
          /\ UNCHANGED result
       \/ /\ "write" \in Faults
          /\ result' = [result EXCEPT ![r] = "failure"]
          /\ ToProxy(r, "release")
          /\ UNCHANGED conn
    /\ UNCHANGED <<inUse, shmVars, listening, backlog, workq, stray, cacheVars, seg,
                   header, length, body>>

\* sem_wait(sem_full)
WaitFull(r) ==
    /\ ppc[r] = "wait"
    /\ Take(full, seg[r])
    /\ ToProxy(r, "packet")
    /\ UNCHANGED <<inUse, pkt, empty, cmdVars, cacheVars, seg, header, length,
                   body, result>>

\* The first packet decides the header; later ones are not looked at for it.
SendHeader(r) ==
    /\ ppc[r] = "packet"
    /\ \/ /\ header[r] # "none"
          /\ ToProxy(r, "body")
          /\ UNCHANGED <<header, length, result>>
       \/ /\ header[r] = "none"
          /\ pkt[seg[r]].status = NOTFOUND
          /\ result' = [result EXCEPT ![r] = "notfound"]
          /\ ToProxy(r, "post")
          /\ UNCHANGED <<header, length>>
       \/ /\ header[r] = "none"
          /\ pkt[seg[r]].status = OK
          /\ header' = [header EXCEPT ![r] = "OK"]
          /\ length' = [length EXCEPT ![r] = pkt[seg[r]].fileSize]
          /\ ToProxy(r, "body")
          /\ UNCHANGED result
       \/ /\ header[r] = "none"
          /\ pkt[seg[r]].status = OK
          /\ "header" \in Faults
          /\ result' = [result EXCEPT ![r] = "failure"]
          /\ ToProxy(r, "post")
          /\ UNCHANGED <<header, length>>
    /\ UNCHANGED <<inUse, shmVars, cmdVars, cacheVars, seg, body>>

\* What gfs_send sends of a packet: validBytes bytes of the buffer.
Payload(p) ==
    [i \in 1 .. p.validBytes |-> IF i <= Len(p.data) THEN p.data[i] ELSE Zero]

SendBody(r) ==
    /\ ppc[r] = "body"
    /\ \/ /\ body' = [body EXCEPT ![r] = @ \o Payload(pkt[seg[r]])]
          /\ UNCHANGED result
       \/ /\ "send" \in Faults
          /\ pkt[seg[r]].validBytes > 0
          /\ result' = [result EXCEPT ![r] = "failure"]
          /\ UNCHANGED body
    /\ ToProxy(r, "post")
    /\ UNCHANGED <<inUse, shmVars, cmdVars, cacheVars, seg, header, length>>

\* gfs_send does not return while the client stays and does not read; nothing
\* sets a time limit.
SendStalls(r) ==
    /\ ppc[r] = "body"
    /\ "stall" \in Faults
    /\ pkt[seg[r]].validBytes > 0
    /\ ToProxy(r, "stalled")
    /\ UNCHANGED <<inUse, shmVars, cmdVars, cacheVars, seg, header, length, body,
                   result>>

\* Mutant: "goto failure" without the post.
PostEmptyNotOnFailure(r) ==
    /\ ppc[r] = "post"
    /\ \/ /\ result[r] # "none"
          /\ ToProxy(r, "release")
          /\ UNCHANGED <<empty, result>>
       \/ /\ result[r] = "none"
          /\ Post(empty, seg[r])
          /\ pkt[seg[r]].streamDone
          /\ result' = [result EXCEPT ![r] = "total"]
          /\ ToProxy(r, "release")
       \/ /\ result[r] = "none"
          /\ Post(empty, seg[r])
          /\ ~pkt[seg[r]].streamDone
          /\ ToProxy(r, "wait")
          /\ UNCHANGED result
    /\ UNCHANGED <<inUse, pkt, full, cmdVars, cacheVars, seg, header, length, body>>

\* sem_post(sem_empty), on every way out of the loop and before every further
\* round of it.
PostEmpty(r) ==
    /\ ppc[r] = "post"
    /\ Post(empty, seg[r])
    /\ \/ /\ result[r] # "none"
          /\ ToProxy(r, "release")
          /\ UNCHANGED result
       \/ /\ result[r] = "none"
          /\ pkt[seg[r]].streamDone
          /\ result' = [result EXCEPT ![r] = "total"]
          /\ ToProxy(r, "release")
       \/ /\ result[r] = "none"
          /\ ~pkt[seg[r]].streamDone
          /\ ToProxy(r, "wait")
          /\ UNCHANGED result
    /\ UNCHANGED <<inUse, pkt, full, cmdVars, cacheVars, seg, header, length, body>>

\* Mutant: a miss is answered before the segment is given back, by a path that
\* returns without giving it back.
ReleaseNotOnMiss(r) ==
    /\ ppc[r] = "release"
    /\ inUse' = [inUse EXCEPT ![seg[r]] = result[r] = "notfound"]
    /\ conn' = [conn EXCEPT ![r] = IF @ = "open" THEN "eof" ELSE @]
    /\ ToProxy(r, IF result[r] = "notfound" THEN "reply" ELSE "done")
    /\ UNCHANGED <<shmVars, listening, backlog, workq, stray, cacheVars, seg, header,
                   length, body, result>>

\* close(sock), then proxy_seg_release.
Release(r) ==
    /\ ppc[r] = "release"
    /\ inUse' = [inUse EXCEPT ![seg[r]] = FALSE]
    /\ conn' = [conn EXCEPT ![r] = IF @ = "open" THEN "eof" ELSE @]
    /\ ToProxy(r, IF result[r] = "notfound" THEN "reply" ELSE "done")
    /\ UNCHANGED <<shmVars, listening, backlog, workq, stray, cacheVars, seg, header,
                   length, body, result>>

\* A miss is reported to the client after the segment has been given back.
Reply(r) ==
    /\ ppc[r] = "reply"
    /\ \/ /\ header' = [header EXCEPT ![r] = "FILE_NOT_FOUND"]
          /\ UNCHANGED result
       \/ /\ "header" \in Faults
          /\ result' = [result EXCEPT ![r] = "failure"]
          /\ UNCHANGED header
    /\ ToProxy(r, "done")
    /\ UNCHANGED <<inUse, shmVars, cmdVars, cacheVars, seg, length, body>>

ProxyStep(r) ==
    \/ Start(r)
    \/ \E s \in Segments : Acquire(r, s)
    \/ Clear(r) \/ Cleaned(r)
    \/ Connect(r) \/ Write(r)
    \/ WaitFull(r) \/ SendHeader(r) \/ SendBody(r) \/ SendStalls(r) \/ PostEmpty(r)
    \/ Release(r) \/ Reply(r)

-----------------------------------------------------------------------------
(* The cache: main and handle_cache_request.                               *)

\* The cache may be started after the proxy.
CacheStart ==
    /\ ~listening
    /\ stray = "none"
    /\ listening' = TRUE
    /\ UNCHANGED <<inUse, shmVars, backlog, conn, workq, stray, proxyVars, cacheVars>>

\* accept() and work_q_push.
Accept ==
    /\ listening
    /\ backlog # <<>>
    /\ workq' = Append(workq, Head(backlog))
    /\ backlog' = Tail(backlog)
    /\ UNCHANGED <<inUse, shmVars, listening, conn, stray, proxyVars, cacheVars>>

\* A worker that is not serving pops the oldest connection.
Pop(r) ==
    /\ workq # <<>>
    /\ r = Head(workq)
    /\ Cardinality(CacheActive) < CacheThreads
    /\ workq' = Tail(workq)
    /\ ToCache(r, "read")
    /\ UNCHANGED <<inUse, shmVars, listening, backlog, conn, stray, proxyVars, offset>>

CacheUnchanged == UNCHANGED <<inUse, cmdVars, proxyVars>>

\* read_all meets the end of the stream: nothing to serve.  The goto jumps over
\* the declaration of reqfd.
ReadEof(r) ==
    /\ cpc[r] = "read"
    /\ conn[r] = "eof"
    /\ ToCache(r, "unset")
    /\ UNCHANGED <<shmVars, offset>>
    /\ CacheUnchanged

\* The request is read, but the segment or a semaphore cannot be opened: the
\* worker gives up without an answer, and with reqfd not initialized.
SetupFails(r) ==
    /\ cpc[r] = "read"
    /\ conn[r] = "request"
    /\ "setup" \in Faults
    /\ ToCache(r, "unset")
    /\ UNCHANGED <<shmVars, offset>>
    /\ CacheUnchanged

\* simplecache_get, dup and fstat decide between the file and a refusal.
Lookup(r) ==
    /\ cpc[r] = "read"
    /\ conn[r] = "request"
    /\ \/ /\ Wants[r] \in Cached
          /\ ToCache(r, "waitData")
       \/ /\ Wants[r] \notin Cached \/ "dup" \in Faults
          /\ ToCache(r, "waitFail")
    /\ UNCHANGED <<shmVars, offset>>
    /\ CacheUnchanged

\* Mutant: the cache fills the next packet without waiting for the proxy.
WaitEmptySkipped(r) ==
    /\ cpc[r] \in {"waitData", "waitFail"}
    /\ ToCache(r, IF cpc[r] = "waitData" THEN "fill" ELSE "fillFail")
    /\ UNCHANGED <<pkt, empty, full, offset>>
    /\ CacheUnchanged

\* sem_wait(sem_empty)
WaitEmpty(r) ==
    /\ cpc[r] \in {"waitData", "waitFail"}
    /\ Take(empty, seg[r])
    /\ ToCache(r, IF cpc[r] = "waitData" THEN "fill" ELSE "fillFail")
    /\ UNCHANGED <<pkt, full, offset>>
    /\ CacheUnchanged

BeingCleared(s) == \E r \in Requests : seg[r] = s /\ ppc[r] = "clearing"

\* Storing packet p into segment s.  While a memset of the same segment runs,
\* each field may end up as stored or cleared.
Store(p, s) ==
    \/ pkt' = [pkt EXCEPT ![s] = p]
    \/ /\ BeingCleared(s)
       /\ \E st \in {p.status, OK}, fs \in {p.fileSize, 0},
             vb \in {p.validBytes, 0}, sd \in {p.streamDone, FALSE},
             da \in {p.data, <<>>} :
             pkt' = [pkt EXCEPT ![s] =
                       [status |-> st, fileSize |-> fs, validBytes |-> vb,
                        streamDone |-> sd, data |-> da]]

Least(a, b) == IF a <= b THEN a ELSE b

\* What pread returns for r: the bytes from its offset, at most DataCap.
Remaining(r) ==
    IF offset[r] <= Size[Wants[r]] THEN Size[Wants[r]] - offset[r] ELSE 0

Chunk(r) ==
    [i \in 1 .. Least(DataCap, Remaining(r)) |-> Byte(Wants[r], offset[r] + i)]

DataPacket(r) ==
    LET response == Len(Chunk(r))
    IN  [status     |-> OK,
         fileSize   |-> Size[Wants[r]],
         validBytes |-> response,
         streamDone |-> \/ offset[r] + response >= Size[Wants[r]]
                        \/ response = 0,
         data       |-> Chunk(r)]

RefusalPacket(size) ==
    [status |-> NOTFOUND, fileSize |-> size, validBytes |-> 0,
     streamDone |-> TRUE, data |-> <<>>]

\* Mutant: the offset is not carried from packet to packet.
FillSameOffset(r) ==
    /\ cpc[r] = "fill"
    /\ Store(DataPacket(r), seg[r])
    /\ ToCache(r, "postData")
    /\ UNCHANGED <<empty, full, offset>>
    /\ CacheUnchanged

Fill(r) ==
    /\ cpc[r] = "fill"
    /\ Store(DataPacket(r), seg[r])
    /\ offset' = [offset EXCEPT ![r] = @ + Len(Chunk(r))]
    /\ ToCache(r, "postData")
    /\ UNCHANGED <<empty, full>>
    /\ CacheUnchanged

PreadFails(r) ==
    /\ cpc[r] = "fill"
    /\ "pread" \in Faults
    /\ Store(RefusalPacket(Size[Wants[r]]), seg[r])
    /\ ToCache(r, "postFail")
    /\ UNCHANGED <<empty, full, offset>>
    /\ CacheUnchanged

\* send_fail: the refusal of a miss.
Refuse(r) ==
    /\ cpc[r] = "fillFail"
    /\ Store(RefusalPacket(0), seg[r])
    /\ ToCache(r, "postFail")
    /\ UNCHANGED <<empty, full, offset>>
    /\ CacheUnchanged

\* Where the worker goes from its post.  Only a miss (simplecache_get < 0) has
\* jumped over the declaration of reqfd.
AfterPost(r) ==
    IF cpc[r] = "postData" THEN "check"
    ELSE IF Wants[r] \in Cached THEN "cleanup" ELSE "unset"

\* Mutant: the refusal is stored but not posted.
PostFullNotOnRefusal(r) ==
    /\ cpc[r] \in {"postData", "postFail"}
    /\ IF cpc[r] = "postData" THEN Post(full, seg[r]) ELSE UNCHANGED full
    /\ ToCache(r, AfterPost(r))
    /\ UNCHANGED <<pkt, empty, offset>>
    /\ CacheUnchanged

\* sem_post(sem_full)
PostFull(r) ==
    /\ cpc[r] \in {"postData", "postFail"}
    /\ Post(full, seg[r])
    /\ ToCache(r, AfterPost(r))
    /\ UNCHANGED <<pkt, empty, offset>>
    /\ CacheUnchanged

\* Mutant: the worker leaves the loop after the first packet.
CheckOnce(r) ==
    /\ cpc[r] = "check"
    /\ ToCache(r, "cleanup")
    /\ UNCHANGED <<shmVars, offset>>
    /\ CacheUnchanged

\* Only after the post does the worker look, in the shared packet, whether it
\* was the last one: the proxy may have released the segment by then, and the
\* next owner may have cleared the packet.  A worker that looks while the memset
\* runs may still see the flag it stored.
Check(r) ==
    /\ cpc[r] = "check"
    /\ \/ /\ pkt[seg[r]].streamDone
          /\ ToCache(r, "cleanup")
       \/ /\ ~pkt[seg[r]].streamDone
          /\ ToCache(r, "waitData")
       \/ /\ BeingCleared(seg[r])
          /\ Remaining(r) = 0
          /\ ToCache(r, "cleanup")
    /\ UNCHANGED <<shmVars, offset>>
    /\ CacheUnchanged

\* The descriptors, the semaphores and the mapping are closed.
Cleanup(r) ==
    /\ cpc[r] = "cleanup"
    /\ ToCache(r, "done")
    /\ UNCHANGED <<shmVars, offset>>
    /\ CacheUnchanged

\* The same with an indeterminate reqfd: no descriptor, the listening socket, with
\* the connections that have not been accepted (main's accept fails from then on),
\* or another descriptor in use, be it of a file or of another worker.
StrayCleanup(r) ==
    /\ cpc[r] = "unset"
    /\ ToCache(r, "done")
    /\ \/ UNCHANGED <<listening, backlog, stray>>
       \/ /\ listening
          /\ listening' = FALSE
          /\ backlog' = <<>>
          /\ stray' = "socket"
       \/ /\ stray' = "other"
          /\ UNCHANGED <<listening, backlog>>
    /\ UNCHANGED <<inUse, shmVars, conn, workq, proxyVars, offset>>

CacheStep(r) ==
    \/ Pop(r)
    \/ ReadEof(r) \/ SetupFails(r) \/ Lookup(r)
    \/ WaitEmpty(r) \/ Fill(r) \/ PreadFails(r) \/ Refuse(r)
    \/ PostFull(r) \/ Check(r) \/ Cleanup(r) \/ StrayCleanup(r)

-----------------------------------------------------------------------------
\* All requests of this behaviour have been answered and both servers idle on; or
\* main spins on accept and the proxy's workers try to connect again and again.
Idle ==
    /\ stray # "none" \/ \A r \in Requests : ppc[r] = "done"
    /\ UNCHANGED vars

\* No stray close has hit a descriptor of a file or of a worker.  What the cache
\* does after one, with other people's data, is not modelled.
Intact == stray # "other"

Next ==
    \/ /\ Intact
       /\ \/ CacheStart
          \/ Accept
          \/ \E r \in Requests : ProxyStep(r) \/ CacheStep(r)
    \/ Idle

Spec == Init /\ [][Next]_vars

-----------------------------------------------------------------------------
(* Properties.                                                             *)

\* Holders of the token of segment s.
Readers(s) == {r \in Requests : seg[r] = s /\ ppc[r] \in ProxyReading}
Writers(s) == {r \in Requests : seg[r] = s /\ cpc[r] \in CacheWriting}

\* The pair of semaphores of a segment carries one token: it is on the empty
\* side, on the full side, or with exactly one thread of either process.  Every
\* way out of the proxy's loop has to post what it took, and the stale worker
\* of an abandoned transfer competes for the same token.
OneToken ==
    \A s \in Segments :
        /\ empty[s] + full[s] \in {0, 1}
        /\ \A q, r \in Readers(s) : q = r
        /\ \A q, r \in Writers(s) : q = r
        /\ Readers(s) = {} \/ Writers(s) = {}
        /\ empty[s] + full[s] = 0 <=> Readers(s) \cup Writers(s) # {}

\* Two proxy workers never own the same segment, and a segment is marked in use
\* exactly while some worker owns it, on all the ways out of the handler.
SegmentExclusive ==
    \A s \in Segments :
        LET owners == {r \in Requests : seg[r] = s /\ ppc[r] \in ProxyOwning}
        IN  /\ \A q, r \in owners : q = r
            /\ inUse[s] <=> owners # {}

\* While a proxy worker is reading a packet nobody changes it, not even the
\* stale worker of an earlier request or the memset of another proxy worker.
PacketStable ==
    [][\A r \in Requests :
          ppc[r] \in ProxyReading /\ ppc'[r] \in ProxyReading
              => pkt'[seg[r]] = pkt[seg[r]]]_vars

\* gfserver.h:140-141, the header is sent "containing the appropriate status and
\* file length for the given inputs".
HonestHeader ==
    \A r \in Requests : header[r] = "OK" => length[r] = Size[Wants[r]]

\* The pool as the handlers use it, on every way out, implements exclusive
\* ownership of segments.
Ownership == INSTANCE SegmentOwnership
    WITH Workers <- Requests,
         owner <- [s \in Segments |->
                     {r \in Requests : seg[r] = s /\ ppc[r] \in ProxyOwning}]

ImplementsOwnership == Ownership!Spec
=============================================================================
