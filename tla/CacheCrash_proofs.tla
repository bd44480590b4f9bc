-------------------------- MODULE CacheCrash_proofs --------------------------
(***************************************************************************)
(* Proofs about the transfer: first with a cache that lasts, then over the *)
(* lives of the cache process, for any number of requests, segments,       *)
(* threads and stops, any files and any set of failing calls.              *)
(***************************************************************************)
EXTENDS CacheCrash, SequenceTheorems, FiniteSetTheorems, TLAPS

-----------------------------------------------------------------------------
(* Typing.                                                                 *)

Bytes == ({"zero"} \cup Paths) \X Nat

\* A tuple of n elements of S is a sequence over S.
LEMMA TupleSeq ==
  ASSUME NEW S, NEW n \in Nat, NEW f \in [1 .. n -> S]
  PROVE  f \in Seq(S) /\ Len(f) = n
OBVIOUS

\* What the cache stores and what the proxy sends are data of the right type.
LEMMA ChunkType ==
  ASSUME TypeOK, NEW r \in Requests
  PROVE  Chunk(r) \in Data /\ Len(Chunk(r)) \in Nat
<1>1. Size[Wants[r]] \in Nat /\ Wants[r] \in Paths
  BY CacheChannelAssumption
<1>2. offset[r] \in Nat
  BY DEF TypeOK
<1> DEFINE n == Least(DataCap, Remaining(r))
<1>3. n \in Nat
  BY <1>1, <1>2, CacheChannelAssumption DEF Least, Remaining
<1> HIDE DEF n
<1>4. [i \in 1 .. n |-> Byte(Wants[r], offset[r] + i)] \in [1 .. n -> Bytes]
  BY <1>1, <1>2, <1>3 DEF Byte, Bytes
<1>5. Chunk(r) \in Seq(Bytes) /\ Len(Chunk(r)) = n
  BY <1>3, <1>4, TupleSeq DEF Chunk, n
<1> QED
  BY <1>3, <1>5 DEF Data, Bytes

LEMMA PayloadType ==
  ASSUME NEW p \in Packet
  PROVE  Payload(p) \in Data
<1>1. p.validBytes \in Nat /\ p.data \in Seq(Bytes)
  BY DEF Packet, Data, Bytes
<1>2. \A i \in 1 .. p.validBytes : i <= Len(p.data) => p.data[i] \in Bytes
  BY <1>1
<1>3. Zero \in Bytes
  BY DEF Zero, Bytes
<1>4. Payload(p) \in [1 .. p.validBytes -> Bytes]
  BY <1>2, <1>3 DEF Payload
<1> QED
  BY <1>1, <1>4, TupleSeq DEF Data, Bytes

LEMMA PacketType ==
  ASSUME TypeOK, NEW r \in Requests
  PROVE  /\ DataPacket(r) \in Packet
         /\ RefusalPacket(Size[Wants[r]]) \in Packet
         /\ RefusalPacket(0) \in Packet
         /\ Cleared \in Packet
<1>1. Size[Wants[r]] \in Nat
  BY CacheChannelAssumption
<1>2. <<>> \in Data
  BY DEF Data
<1>3. offset[r] \in Nat
  BY DEF TypeOK
<1>4. DataPacket(r) \in Packet
  BY <1>1, <1>3, ChunkType DEF DataPacket, Packet, OK
<1> QED
  BY <1>1, <1>2, <1>4 DEF RefusalPacket, Cleared, Packet, OK, NOTFOUND

\* Whatever a concurrent memset leaves of a stored packet, it is a packet, and
\* it is in that segment.
LEMMA StoreType ==
  ASSUME NEW s \in Segments, NEW p \in Packet, Store(p, s)
  PROVE  \E q \in Packet : pkt' = [pkt EXCEPT ![s] = q]
<1>1. CASE pkt' = [pkt EXCEPT ![s] = p]
  BY <1>1
<1>2. CASE \E st \in {p.status, OK}, fs \in {p.fileSize, 0},
              vb \in {p.validBytes, 0}, sd \in {p.streamDone, FALSE},
              da \in {p.data, <<>>} :
              pkt' = [pkt EXCEPT ![s] =
                        [status |-> st, fileSize |-> fs, validBytes |-> vb,
                         streamDone |-> sd, data |-> da]]
  <2>1. PICK st \in {p.status, OK}, fs \in {p.fileSize, 0},
             vb \in {p.validBytes, 0}, sd \in {p.streamDone, FALSE},
             da \in {p.data, <<>>} :
             pkt' = [pkt EXCEPT ![s] =
                       [status |-> st, fileSize |-> fs, validBytes |-> vb,
                        streamDone |-> sd, data |-> da]]
    BY <1>2
  <2>2. <<>> \in Data
    BY DEF Data
  <2>h. p.status \in {OK, NOTFOUND} /\ p.fileSize \in Nat /\ p.validBytes \in Nat /\ p.streamDone \in BOOLEAN /\ p.data \in Data
    BY DEF Packet
  <2>3. /\ st \in {OK, NOTFOUND} /\ fs \in Nat /\ vb \in Nat
        /\ sd \in BOOLEAN /\ da \in Data
    <3>1. sd \in BOOLEAN
      BY <2>h, Zenon
    <3> QED
      BY <3>1, <2>2, <2>h
  <2> HIDE DEF OK, NOTFOUND
  <2>4. [status |-> st, fileSize |-> fs, validBytes |-> vb,
         streamDone |-> sd, data |-> da] \in Packet
    BY <2>3 DEF Packet
  <2> QED
    BY <2>1, <2>4
<1> QED
  BY <1>1, <1>2 DEF Store

LEMMA StoreKeepsType ==
  ASSUME TypeOK, NEW s \in Segments, NEW p \in Packet, Store(p, s)
  PROVE  pkt' \in [Segments -> Packet]
BY StoreType DEF TypeOK

-----------------------------------------------------------------------------
(* The segment of a request.                                               *)

\* A request has a segment from the moment the proxy acquires one for it, and
\* has one before it reaches the command channel; a connection waits in one
\* place of one queue and no worker serves it meanwhile.
Placed ==
    /\ \A r \in Requests : ppc[r] \in {"idle", "acquire"} => seg[r] = 0
    /\ \A r \in Requests : ppc[r] \in {"idle", "acquire", "clear", "clearing",
                                       "connect"} => conn[r] = "none"
    /\ \A r \in Requests : conn[r] # "none" => seg[r] # 0
    /\ \A r \in Requests : ppc[r] \in ProxyOwning => seg[r] # 0
    /\ \A r \in Requests : cpc[r] # "none" => conn[r] # "none"
    /\ \A i \in 1 .. Len(backlog) :
          conn[backlog[i]] # "none" /\ cpc[backlog[i]] = "none"
    /\ \A i \in 1 .. Len(workq) :
          conn[workq[i]] # "none" /\ cpc[workq[i]] = "none"
    /\ \A i, j \in 1 .. Len(backlog) : backlog[i] = backlog[j] => i = j
    /\ \A i, j \in 1 .. Len(workq) : workq[i] = workq[j] => i = j
    /\ \A i \in 1 .. Len(backlog), j \in 1 .. Len(workq) : backlog[i] # workq[j]

\* A request that somebody works for has a segment.
LEMMA HasSegment ==
  ASSUME TypeOK, Placed, NEW r \in Requests
  PROVE  /\ ppc[r] \in ProxyOwning => seg[r] \in Segments
         /\ cpc[r] # "none" => seg[r] \in Segments
BY DEF TypeOK, Placed

\* Every step keeps the types.
LEMMA TypeStep ==
  ASSUME TypeOK, Placed, [Next]_vars
  PROVE  TypeOK'
<1> USE DEF ToProxy, ToCache, Post, Take, CacheUnchanged, shmVars, cmdVars,
            proxyVars, cacheVars, ProxyStates, ProxyIdle, ProxyOwning,
            ProxyReading, CacheStates, CacheIdle, CacheAttached, CacheWriting
<1>1. ASSUME NEW r \in Requests, Start(r)
      PROVE  TypeOK'
  BY <1>1 DEF Start, TypeOK
<1>2. ASSUME NEW r \in Requests, NEW s \in Segments, Acquire(r, s)
      PROVE  TypeOK'
  BY <1>2 DEF Acquire, TypeOK
<1>3. ASSUME NEW r \in Requests, Clear(r)
      PROVE  TypeOK'
  BY <1>3, PacketType DEF Clear, TypeOK
<1>4. ASSUME NEW r \in Requests, Cleaned(r)
      PROVE  TypeOK'
  BY <1>4 DEF Cleaned, TypeOK
<1>5. ASSUME NEW r \in Requests, Connect(r)
      PROVE  TypeOK'
  BY <1>5 DEF Connect, TypeOK
<1>6. ASSUME NEW r \in Requests, Write(r)
      PROVE  TypeOK'
  BY <1>6 DEF Write, TypeOK
<1>7. ASSUME NEW r \in Requests, WaitFull(r)
      PROVE  TypeOK'
  <2>1. full' \in [Segments -> Nat]
    BY <1>7, HasSegment DEF WaitFull, TypeOK
  <2>2. ppc' \in [Requests -> ProxyStates]
    BY <1>7 DEF WaitFull, TypeOK
  <2> QED
    BY <1>7, <2>1, <2>2 DEF WaitFull, TypeOK
<1>8. ASSUME NEW r \in Requests, SendHeader(r)
      PROVE  TypeOK'
  <2>1. pkt[seg[r]].fileSize \in Nat
    BY <1>8, HasSegment DEF SendHeader, TypeOK, Packet
  <2>2. /\ header' \in [Requests -> {"none", "OK", "FILE_NOT_FOUND"}]
        /\ length' \in [Requests -> Nat]
        /\ result' \in [Requests -> {"none", "total", "notfound", "failure"}]
        /\ ppc' \in [Requests -> ProxyStates]
    BY <1>8, <2>1 DEF SendHeader, TypeOK
  <2> QED
    BY <1>8, <2>2 DEF SendHeader, TypeOK
<1>9. ASSUME NEW r \in Requests, SendBody(r)
      PROVE  TypeOK'
  <2>1. Payload(pkt[seg[r]]) \in Data
    BY <1>9, HasSegment, PayloadType DEF SendBody, TypeOK
  <2>2. body[r] \o Payload(pkt[seg[r]]) \in Data
    BY <2>1 DEF Data, TypeOK
  <2>3. /\ body' \in [Requests -> Data]
        /\ result' \in [Requests -> {"none", "total", "notfound", "failure"}]
        /\ ppc' \in [Requests -> ProxyStates]
    BY <1>9, <2>2 DEF SendBody, TypeOK
  <2> QED
    BY <1>9, <2>3 DEF SendBody, TypeOK
<1>10. ASSUME NEW r \in Requests, PostEmpty(r)
      PROVE  TypeOK'
  <2>1. empty' \in [Segments -> Nat]
    BY <1>10, HasSegment DEF PostEmpty, TypeOK
  <2>2. ppc' \in [Requests -> ProxyStates]
    <3>1. PICK place \in {"release", "wait"} : ppc' = [ppc EXCEPT ![r] = place]
      BY <1>10 DEF PostEmpty
    <3> QED
      BY <3>1 DEF TypeOK
  <2>3. result' \in [Requests -> {"none", "total", "notfound", "failure"}]
    BY <1>10 DEF PostEmpty, TypeOK
  <2> QED
    BY <1>10, <2>1, <2>2, <2>3 DEF PostEmpty, TypeOK
<1>11. ASSUME NEW r \in Requests, Release(r)
      PROVE  TypeOK'
  BY <1>11 DEF Release, TypeOK
<1>12. ASSUME NEW r \in Requests, Reply(r)
      PROVE  TypeOK'
  BY <1>12 DEF Reply, TypeOK
<1>13. ASSUME CacheStart
      PROVE  TypeOK'
  BY <1>13 DEF CacheStart, TypeOK
<1>14. ASSUME Accept
      PROVE  TypeOK'
  <2>1. backlog \in Seq(Requests) /\ workq \in Seq(Requests) /\ backlog # <<>>
    BY <1>14 DEF Accept, TypeOK
  <2>2. Tail(backlog) \in Seq(Requests) /\ Append(workq, Head(backlog)) \in Seq(Requests)
    BY <2>1
  <2>3. backlog' \in Seq(Requests) /\ workq' \in Seq(Requests)
    BY <1>14, <2>2 DEF Accept
  <2> QED
    BY <1>14, <2>3 DEF Accept, TypeOK
<1>15. ASSUME NEW r \in Requests, Pop(r)
      PROVE  TypeOK'
  <2>1. workq' \in Seq(Requests)
    BY <1>15 DEF Pop, TypeOK
  <2>2. cpc' \in [Requests -> CacheStates]
    BY <1>15 DEF Pop, TypeOK
  <2> QED
    BY <1>15, <2>1, <2>2 DEF Pop, TypeOK
<1>16. ASSUME NEW r \in Requests, ReadEof(r)
      PROVE  TypeOK'
  BY <1>16 DEF ReadEof, TypeOK
<1>17. ASSUME NEW r \in Requests, SetupFails(r)
      PROVE  TypeOK'
  BY <1>17 DEF SetupFails, TypeOK
<1>18. ASSUME NEW r \in Requests, Lookup(r)
      PROVE  TypeOK'
  BY <1>18 DEF Lookup, TypeOK
<1>19. ASSUME NEW r \in Requests, WaitEmpty(r)
      PROVE  TypeOK'
  <2>1. empty' \in [Segments -> Nat]
    BY <1>19, HasSegment DEF WaitEmpty, TypeOK
  <2>2. cpc' \in [Requests -> CacheStates]
    BY <1>19 DEF WaitEmpty, TypeOK
  <2> QED
    BY <1>19, <2>1, <2>2 DEF WaitEmpty, TypeOK
<1>20. ASSUME NEW r \in Requests, Fill(r)
      PROVE  TypeOK'
  <2>1. pkt' \in [Segments -> Packet]
    BY <1>20, PacketType, StoreKeepsType, HasSegment DEF Fill
  <2>2. offset' \in [Requests -> Nat]
    BY <1>20, ChunkType DEF Fill, TypeOK
  <2> QED
    BY <1>20, <2>1, <2>2 DEF Fill, TypeOK
<1>21. ASSUME NEW r \in Requests, PreadFails(r)
      PROVE  TypeOK'
  <2>1. pkt' \in [Segments -> Packet]
    BY <1>21, PacketType, StoreKeepsType, HasSegment DEF PreadFails
  <2>2. offset' \in [Requests -> Nat]
    BY <1>21, ChunkType DEF PreadFails, TypeOK
  <2> QED
    BY <1>21, <2>1, <2>2 DEF PreadFails, TypeOK
<1>22. ASSUME NEW r \in Requests, Refuse(r)
      PROVE  TypeOK'
  <2>1. pkt' \in [Segments -> Packet]
    BY <1>22, PacketType, StoreKeepsType, HasSegment DEF Refuse
  <2>2. offset' \in [Requests -> Nat]
    BY <1>22, ChunkType DEF Refuse, TypeOK
  <2> QED
    BY <1>22, <2>1, <2>2 DEF Refuse, TypeOK
<1>23. ASSUME NEW r \in Requests, PostFull(r)
      PROVE  TypeOK'
  <2>1. full' \in [Segments -> Nat]
    BY <1>23, HasSegment DEF PostFull, TypeOK
  <2>2. cpc' \in [Requests -> CacheStates]
    <3>1. PICK place \in {"check", "cleanup", "unset"} : cpc' = [cpc EXCEPT ![r] = place]
      BY <1>23 DEF PostFull, AfterPost
    <3> QED
      BY <3>1 DEF TypeOK
  <2> QED
    BY <1>23, <2>1, <2>2 DEF PostFull, TypeOK
<1>24. ASSUME NEW r \in Requests, Check(r)
      PROVE  TypeOK'
  BY <1>24 DEF Check, TypeOK
<1>25. ASSUME NEW r \in Requests, Cleanup(r)
      PROVE  TypeOK'
  BY <1>25 DEF Cleanup, TypeOK
<1>27. ASSUME NEW r \in Requests, SendStalls(r)
      PROVE  TypeOK'
  BY <1>27 DEF SendStalls, TypeOK
<1>28. ASSUME NEW r \in Requests, StrayCleanup(r)
      PROVE  TypeOK'
  <2>1. /\ listening' \in BOOLEAN /\ stray' \in {"none", "socket", "other"}
        /\ backlog' = <<>> \/ backlog' = backlog
    BY <1>28 DEF StrayCleanup, TypeOK
  <2>2. backlog' \in Seq(Requests)
    <3>1. backlog \in Seq(Requests)
      BY DEF TypeOK
    <3>2. <<>> \in Seq(Requests)
      OBVIOUS
    <3> QED
      BY <2>1, <3>1, <3>2
  <2>4. cpc' \in [Requests -> CacheStates]
    BY <1>28 DEF StrayCleanup, TypeOK
  <2>3. UNCHANGED <<inUse, shmVars, conn, workq, proxyVars, offset>>
    BY <1>28 DEF StrayCleanup
  <2> QED
    BY <2>1, <2>2, <2>3, <2>4 DEF TypeOK
<1>26. CASE UNCHANGED vars
  BY <1>26 DEF vars, TypeOK
<1> QED
  BY <1>1, <1>2, <1>3, <1>4, <1>5, <1>6, <1>7, <1>8, <1>9, <1>10, <1>11,
     <1>12, <1>13, <1>14, <1>15, <1>16, <1>17, <1>18, <1>19, <1>20, <1>21,
     <1>22, <1>23, <1>24, <1>25, <1>26, <1>27, <1>28
  DEF Next, ProxyStep, CacheStep, Idle

\* A step of a cache worker that has been given its connection disturbs no
\* other place.
LEMMA CacheMove ==
  ASSUME TypeOK, Placed, NEW r \in Requests, NEW place \in CacheStates \ {"none"},
         cpc[r] # "none", cpc' = [cpc EXCEPT ![r] = place],
         UNCHANGED <<ppc, seg, conn, backlog, workq>>
  PROVE  Placed'
<1>1. \A q \in Requests : cpc'[q] = "none" <=> cpc[q] = "none"
  BY DEF TypeOK
<1>2. backlog \in Seq(Requests) /\ workq \in Seq(Requests)
  BY DEF TypeOK
<1> QED
  BY <1>1, <1>2 DEF Placed

\* A step of a proxy worker that keeps its segment and its connection.
LEMMA ProxyMove ==
  ASSUME ppc \in [Requests -> ProxyStates], Placed, NEW r \in Requests, NEW place,
         ppc' = [ppc EXCEPT ![r] = place],
         UNCHANGED <<seg, conn, cpc, backlog, workq>>,
         place \in {"idle", "acquire"} => seg[r] = 0,
         place \in {"idle", "acquire", "clear", "clearing", "connect"} => conn[r] = "none",
         place \in ProxyOwning => seg[r] # 0
  PROVE  Placed'
<1>1. \A q \in Requests : ppc'[q] = IF q = r THEN place ELSE ppc[q]
  OBVIOUS
<1> QED
  BY <1>1 DEF Placed

\* Every step keeps requests, segments and queues in their places.
LEMMA PlacedStep ==
  ASSUME TypeOK, Placed, [Next]_vars
  PROVE  Placed'
<1> USE DEF ToProxy, ToCache, CacheUnchanged, shmVars, cmdVars, proxyVars,
            cacheVars, ProxyOwning, ProxyReading
<1>0. /\ ppc \in [Requests -> ProxyStates]
      /\ cpc \in [Requests -> CacheStates]
      /\ conn \in [Requests -> {"none", "open", "request", "eof"}]
      /\ seg \in [Requests -> Segments \cup {0}]
      /\ backlog \in Seq(Requests)
      /\ workq \in Seq(Requests)
  BY DEF TypeOK
<1>00. {"read", "waitData", "check", "waitFail", "unset", "cleanup", "fill",
        "postData", "fillFail", "postFail", "done"} \subseteq CacheStates \ {"none"}
  BY DEF CacheStates, CacheIdle, CacheAttached, CacheWriting
<1>1. ASSUME NEW r \in Requests, Start(r)
      PROVE  Placed'
  <2>1. /\ ppc[r] = "idle" /\ ppc' = [ppc EXCEPT ![r] = "acquire"]
        /\ UNCHANGED <<seg, conn, cpc, backlog, workq>>
    BY <1>1 DEF Start
  <2>2. conn[r] = "none" /\ seg[r] = 0
    BY <2>1 DEF Placed
  <2> QED
    BY <1>0, <2>1, <2>2, ProxyMove
<1>2. ASSUME NEW r \in Requests, NEW s \in Segments, Acquire(r, s)
      PROVE  Placed'
  <2>1. ppc[r] = "acquire" /\ \A q \in Requests : ppc'[q] = IF q = r THEN "clear" ELSE ppc[q]
    BY <1>2, <1>0 DEF Acquire
  <2>2. s # 0 /\ \A q \in Requests : seg'[q] = IF q = r THEN s ELSE seg[q]
    BY <1>2, <1>0 DEF Acquire, Segments
  <2>3. UNCHANGED <<conn, cpc, backlog, workq>>
    BY <1>2 DEF Acquire
  <2> QED
    BY <2>1, <2>2, <2>3 DEF Placed
<1>3. ASSUME NEW r \in Requests, Clear(r)
      PROVE  Placed'
  <2>1. /\ ppc[r] = "clear" /\ ppc' = [ppc EXCEPT ![r] = "clearing"]
        /\ UNCHANGED <<seg, conn, cpc, backlog, workq>>
    BY <1>3 DEF Clear
  <2>2. conn[r] = "none" /\ seg[r] # 0
    BY <2>1 DEF Placed
  <2> QED
    BY <1>0, <2>1, <2>2, ProxyMove
<1>4. ASSUME NEW r \in Requests, Cleaned(r)
      PROVE  Placed'
  <2>1. /\ ppc[r] = "clearing" /\ ppc' = [ppc EXCEPT ![r] = "connect"]
        /\ UNCHANGED <<seg, conn, cpc, backlog, workq>>
    BY <1>4 DEF Cleaned
  <2>2. conn[r] = "none" /\ seg[r] # 0
    BY <2>1 DEF Placed
  <2> QED
    BY <1>0, <2>1, <2>2, ProxyMove
<1>5. ASSUME NEW r \in Requests, Connect(r)
      PROVE  Placed'
  BY <1>5, <1>0 DEF Connect, Placed
<1>6. ASSUME NEW r \in Requests, Write(r)
      PROVE  Placed'
  BY <1>6, <1>0 DEF Write, Placed
<1>7. ASSUME NEW r \in Requests, WaitFull(r)
      PROVE  Placed'
  BY <1>7, <1>0 DEF WaitFull, Placed
<1>8. ASSUME NEW r \in Requests, SendHeader(r)
      PROVE  Placed'
  BY <1>8, <1>0 DEF SendHeader, Placed
<1>9. ASSUME NEW r \in Requests, SendBody(r)
      PROVE  Placed'
  BY <1>9, <1>0 DEF SendBody, Placed
<1>10. ASSUME NEW r \in Requests, PostEmpty(r)
      PROVE  Placed'
  <2>1. PICK place \in {"release", "wait"} : ppc' = [ppc EXCEPT ![r] = place]
    BY <1>10 DEF PostEmpty
  <2> QED
    BY <1>10, <1>0, <2>1 DEF PostEmpty, Placed
<1>11. ASSUME NEW r \in Requests, Release(r)
      PROVE  Placed'
  BY <1>11, <1>0 DEF Release, Placed
<1>12. ASSUME NEW r \in Requests, Reply(r)
      PROVE  Placed'
  BY <1>12, <1>0 DEF Reply, Placed
<1>13. ASSUME CacheStart
      PROVE  Placed'
  BY <1>13, <1>0 DEF CacheStart, Placed
<1>14. ASSUME Accept
      PROVE  Placed'
  <2>1. /\ backlog # <<>> /\ backlog' = Tail(backlog)
        /\ workq' = Append(workq, Head(backlog))
        /\ UNCHANGED <<ppc, seg, conn, cpc>>
    BY <1>14 DEF Accept
  <2>2. /\ Len(backlog') = Len(backlog) - 1 /\ Len(backlog) \in Nat \ {0}
        /\ \A i \in 1 .. Len(backlog') : backlog'[i] = backlog[i + 1]
    BY <1>0, <2>1
  <2>3. /\ Len(workq') = Len(workq) + 1 /\ Len(workq) \in Nat
        /\ \A i \in 1 .. Len(workq) : workq'[i] = workq[i]
        /\ workq'[Len(workq) + 1] = backlog[1]
    BY <1>0, <2>1
  <2>4. /\ \A i \in 1 .. Len(workq') : conn[workq'[i]] # "none" /\ cpc[workq'[i]] = "none"
        /\ \A i, j \in 1 .. Len(workq') : workq'[i] = workq'[j] => i = j
    BY <2>1, <2>2, <2>3 DEF Placed
  <2>5. /\ \A i, j \in 1 .. Len(backlog') : backlog'[i] = backlog'[j] => i = j
        /\ \A i \in 1 .. Len(backlog'), j \in 1 .. Len(workq') : backlog'[i] # workq'[j]
    <3>1. \A i \in 1 .. Len(backlog') : i + 1 \in 1 .. Len(backlog) /\ i + 1 # 1
      BY <2>2
    <3>2. \A j \in 1 .. Len(workq') : j \in 1 .. Len(workq) \/ j = Len(workq) + 1
      BY <2>3
    <3>3. /\ 1 \in 1 .. Len(backlog)
          /\ \A i, j \in 1 .. Len(backlog) : backlog[i] = backlog[j] => i = j
          /\ \A i \in 1 .. Len(backlog), j \in 1 .. Len(workq) : backlog[i] # workq[j]
      BY <2>2 DEF Placed
    <3>4. \A i, j \in 1 .. Len(backlog') : backlog'[i] = backlog'[j] => i = j
      BY <2>2, <3>1, <3>3
    <3>5. ASSUME NEW i \in 1 .. Len(backlog'), NEW j \in 1 .. Len(workq')
          PROVE  backlog'[i] # workq'[j]
      <4>1. backlog'[i] = backlog[i + 1] /\ i + 1 \in 1 .. Len(backlog) /\ i + 1 # 1
        BY <2>2, <3>1
      <4>2. CASE j \in 1 .. Len(workq)
        BY <2>3, <3>3, <4>1, <4>2
      <4>3. CASE j = Len(workq) + 1
        BY <2>3, <3>3, <4>1, <4>3
      <4> QED
        BY <3>2, <4>2, <4>3
    <3> QED
      BY <3>4, <3>5
  <2>6. \A i \in 1 .. Len(backlog') :
           conn[backlog'[i]] # "none" /\ cpc[backlog'[i]] = "none"
    BY <2>2 DEF Placed
  <2> QED
    BY <2>1, <2>4, <2>5, <2>6 DEF Placed
<1>15. ASSUME NEW r \in Requests, Pop(r)
      PROVE  Placed'
  BY <1>15, <1>0 DEF Pop, Placed
<1>16. ASSUME NEW r \in Requests, ReadEof(r)
      PROVE  Placed'
  BY <1>16, <1>00, CacheMove DEF ReadEof
<1>17. ASSUME NEW r \in Requests, SetupFails(r)
      PROVE  Placed'
  BY <1>17, <1>00, CacheMove DEF SetupFails
<1>18. ASSUME NEW r \in Requests, Lookup(r)
      PROVE  Placed'
  <2>1. PICK place \in {"waitData", "waitFail"} : cpc' = [cpc EXCEPT ![r] = place]
    BY <1>18 DEF Lookup
  <2> QED
    BY <1>18, <2>1, <1>00, CacheMove DEF Lookup
<1>19. ASSUME NEW r \in Requests, WaitEmpty(r)
      PROVE  Placed'
  BY <1>19, <1>00, CacheMove DEF WaitEmpty
<1>20. ASSUME NEW r \in Requests, Fill(r)
      PROVE  Placed'
  BY <1>20, <1>00, CacheMove DEF Fill
<1>21. ASSUME NEW r \in Requests, PreadFails(r)
      PROVE  Placed'
  BY <1>21, <1>00, CacheMove DEF PreadFails
<1>22. ASSUME NEW r \in Requests, Refuse(r)
      PROVE  Placed'
  BY <1>22, <1>00, CacheMove DEF Refuse
<1>23. ASSUME NEW r \in Requests, PostFull(r)
      PROVE  Placed'
  <2>1. PICK place \in {"check", "cleanup", "unset"} : cpc' = [cpc EXCEPT ![r] = place]
    BY <1>23 DEF PostFull, AfterPost
  <2> QED
    BY <1>23, <2>1, <1>00, CacheMove DEF PostFull
<1>24. ASSUME NEW r \in Requests, Check(r)
      PROVE  Placed'
  <2>1. PICK place \in {"cleanup", "waitData"} : cpc' = [cpc EXCEPT ![r] = place]
    BY <1>24 DEF Check
  <2> QED
    BY <1>24, <2>1, <1>00, CacheMove DEF Check
<1>25. ASSUME NEW r \in Requests, Cleanup(r)
      PROVE  Placed'
  BY <1>25, <1>00, CacheMove DEF Cleanup
<1>27. ASSUME NEW r \in Requests, SendStalls(r)
      PROVE  Placed'
  BY <1>27, <1>0 DEF SendStalls, Placed
<1>28. ASSUME NEW r \in Requests, StrayCleanup(r)
      PROVE  Placed'
  <2>1. /\ cpc[r] = "unset" /\ cpc' = [cpc EXCEPT ![r] = "done"]
        /\ backlog' = backlog \/ backlog' = <<>>
        /\ UNCHANGED <<ppc, seg, conn, workq>>
    BY <1>28 DEF StrayCleanup
  <2>2. \A q \in Requests : cpc'[q] = "none" <=> cpc[q] = "none"
    BY <1>0, <2>1
  <2> QED
    BY <1>0, <2>1, <2>2 DEF Placed
<1>26. CASE UNCHANGED vars
  BY <1>26 DEF vars, Placed
<1> QED
  BY <1>1, <1>2, <1>3, <1>4, <1>5, <1>6, <1>7, <1>8, <1>9, <1>10, <1>11,
     <1>12, <1>13, <1>14, <1>15, <1>16, <1>17, <1>18, <1>19, <1>20, <1>21,
     <1>22, <1>23, <1>24, <1>25, <1>26, <1>27, <1>28
  DEF Next, ProxyStep, CacheStep, Idle

LEMMA InitTypes ==
  ASSUME Init
  PROVE  TypeOK /\ Placed
<1>1. <<>> \in Data /\ Cleared \in Packet
  BY DEF Data, Cleared, Packet, OK
<1>2. TypeOK
  <2>1. "idle" \in ProxyStates /\ "none" \in CacheStates
    BY DEF ProxyStates, ProxyIdle, CacheStates, CacheIdle
  <2>2. pkt \in [Segments -> Packet] /\ body \in [Requests -> Data]
    BY <1>1 DEF Init
  <2>3. backlog \in Seq(Requests) /\ workq \in Seq(Requests)
    BY DEF Init
  <2>4. ppc \in [Requests -> ProxyStates] /\ cpc \in [Requests -> CacheStates]
    BY <2>1 DEF Init
  <2>5. /\ inUse \in [Segments -> BOOLEAN] /\ listening \in BOOLEAN
        /\ stray \in {"none", "socket", "other"}
    BY DEF Init
  <2>6. /\ empty \in [Segments -> Nat] /\ full \in [Segments -> Nat]
        /\ length \in [Requests -> Nat] /\ offset \in [Requests -> Nat]
        /\ seg \in [Requests -> Segments \cup {0}]
    BY DEF Init
  <2>7. /\ conn \in [Requests -> {"none", "open", "request", "eof"}]
        /\ header \in [Requests -> {"none", "OK", "FILE_NOT_FOUND"}]
        /\ result \in [Requests -> {"none", "total", "notfound", "failure"}]
    BY DEF Init
  <2> QED
    BY <2>2, <2>3, <2>4, <2>5, <2>6, <2>7 DEF TypeOK
<1>3. Placed
  BY DEF Init, Placed, ProxyOwning, ProxyReading
<1> QED
  BY <1>2, <1>3

\* The values of all variables stay within their types.
THEOREM Typing == Spec => [](TypeOK /\ Placed)
<1>1. Init => TypeOK /\ Placed
  BY InitTypes
<1>2. TypeOK /\ Placed /\ [Next]_vars => (TypeOK /\ Placed)'
  BY TypeStep, PlacedStep
<1> QED
  BY <1>1, <1>2, PTL DEF Spec

-----------------------------------------------------------------------------
(* One token per segment.                                                  *)

\* OneToken for a single segment.
Token(s) ==
    /\ empty[s] + full[s] \in {0, 1}
    /\ \A q, r \in Readers(s) : q = r
    /\ \A q, r \in Writers(s) : q = r
    /\ Readers(s) = {} \/ Writers(s) = {}
    /\ empty[s] + full[s] = 0 <=> Readers(s) \cup Writers(s) # {}

\* The segments of L have their token, the others have none.
Tokens(L) ==
    /\ \A s \in L : Token(s)
    /\ \A s \in Segments \ L :
          empty[s] + full[s] = 0 /\ Readers(s) = {} /\ Writers(s) = {}

LEMMA TokenFrame ==
  ASSUME NEW L \in SUBSET Segments, Tokens(L), empty' = empty, full' = full,
         \A s \in Segments :
            (Readers(s))' = Readers(s) /\ (Writers(s))' = Writers(s)
  PROVE  (Tokens(L))'
BY DEF Tokens, Token

\* A proxy worker that neither gets nor gives up the token.
LEMMA ProxyFrame ==
  ASSUME TypeOK, NEW L \in SUBSET Segments, Tokens(L),
         NEW r \in Requests, NEW place,
         ppc' = [ppc EXCEPT ![r] = place],
         ppc[r] \in ProxyReading <=> place \in ProxyReading,
         UNCHANGED <<seg, cpc, empty, full>>
  PROVE  (Tokens(L))'
<1>1. \A q \in Requests : ppc'[q] \in ProxyReading <=> ppc[q] \in ProxyReading
  BY DEF TypeOK
<1>2. \A s \in Segments :
         (Readers(s))' = Readers(s) /\ (Writers(s))' = Writers(s)
  BY <1>1 DEF Readers, Writers
<1> QED
  BY <1>2, TokenFrame

\* A cache worker that neither gets nor gives up the token.
LEMMA CacheFrame ==
  ASSUME TypeOK, NEW L \in SUBSET Segments, Tokens(L),
         NEW r \in Requests, NEW place,
         cpc' = [cpc EXCEPT ![r] = place],
         cpc[r] \in CacheWriting <=> place \in CacheWriting,
         UNCHANGED <<seg, ppc, empty, full>>
  PROVE  (Tokens(L))'
<1>1. \A q \in Requests : cpc'[q] \in CacheWriting <=> cpc[q] \in CacheWriting
  BY DEF TypeOK
<1>2. \A s \in Segments :
         (Readers(s))' = Readers(s) /\ (Writers(s))' = Writers(s)
  BY <1>1 DEF Readers, Writers
<1> QED
  BY <1>2, TokenFrame

\* Only segment s changes hands.
LEMMA TokenAt ==
  ASSUME TypeOK, NEW L \in SUBSET Segments, Tokens(L),
         NEW s \in L, (Token(s))',
         \A t \in Segments \ {s} :
            /\ empty'[t] = empty[t] /\ full'[t] = full[t]
            /\ (Readers(t))' = Readers(t) /\ (Writers(t))' = Writers(t)
  PROVE  (Tokens(L))'
BY DEF Tokens, Token

LEMMA TokenStep ==
  ASSUME TypeOK, Placed, [Next]_vars, NEW L \in SUBSET Segments, Tokens(L)
  PROVE  (Tokens(L))'
<1> USE DEF ToProxy, ToCache, Post, Take, CacheUnchanged, shmVars, cmdVars,
            proxyVars, cacheVars
<1>0. \A r \in Requests : /\ ppc[r] \in ProxyOwning => seg[r] \in Segments
                          /\ cpc[r] # "none" => seg[r] \in Segments
  BY HasSegment
<1>a. \A r \in Requests :
         ppc[r] \in ProxyReading /\ seg[r] \in Segments
             => seg[r] \in L /\ Token(seg[r]) /\ r \in Readers(seg[r])
  BY DEF Tokens, Token, Readers
<1>b. \A r \in Requests :
         cpc[r] \in CacheWriting /\ seg[r] \in Segments
             => seg[r] \in L /\ Token(seg[r]) /\ r \in Writers(seg[r])
  BY DEF Tokens, Token, Writers
<1>1. ASSUME NEW r \in Requests, Start(r)
      PROVE  (Tokens(L))'
  BY <1>1, ProxyFrame DEF Start, ProxyReading
<1>2. ASSUME NEW r \in Requests, NEW s \in Segments, Acquire(r, s)
      PROVE  (Tokens(L))'
  <2>1. /\ ppc[r] = "acquire" /\ cpc[r] = "none"
        /\ ppc' = [ppc EXCEPT ![r] = "clear"]
        /\ seg' = [seg EXCEPT ![r] = s]
        /\ UNCHANGED <<empty, full, cpc>>
    BY <1>2 DEF Acquire, Placed
  <2>2. \A q \in Requests : q # r => seg'[q] = seg[q] /\ ppc'[q] = ppc[q]
    BY <2>1 DEF TypeOK
  <2>3. ppc'[r] \notin ProxyReading /\ ppc[r] \notin ProxyReading
    BY <2>1 DEF TypeOK, ProxyReading
  <2>4. cpc[r] \notin CacheWriting
    BY <2>1 DEF CacheWriting
  <2>5. \A t \in Segments :
           (Readers(t))' = Readers(t) /\ (Writers(t))' = Writers(t)
    BY <2>1, <2>2, <2>3, <2>4 DEF Readers, Writers
  <2> QED
    BY <2>1, <2>5, TokenFrame
<1>3. ASSUME NEW r \in Requests, Clear(r)
      PROVE  (Tokens(L))'
  BY <1>3, ProxyFrame DEF Clear, ProxyReading
<1>4. ASSUME NEW r \in Requests, Cleaned(r)
      PROVE  (Tokens(L))'
  BY <1>4, ProxyFrame DEF Cleaned, ProxyReading
<1>5. ASSUME NEW r \in Requests, Connect(r)
      PROVE  (Tokens(L))'
  BY <1>5, ProxyFrame DEF Connect, ProxyReading
<1>6. ASSUME NEW r \in Requests, Write(r)
      PROVE  (Tokens(L))'
  BY <1>6, ProxyFrame DEF Write, ProxyReading
<1>7. ASSUME NEW r \in Requests, WaitFull(r)
      PROVE  (Tokens(L))'
  <2>1. PICK s \in Segments : s = seg[r]
    BY <1>7, <1>0 DEF WaitFull, ProxyOwning
  <2>2. /\ full[s] > 0 /\ full' = [full EXCEPT ![s] = @ - 1]
        /\ ppc[r] = "wait" /\ ppc' = [ppc EXCEPT ![r] = "packet"]
        /\ UNCHANGED <<seg, cpc, empty>>
    BY <1>7, <2>1 DEF WaitFull
  <2>3. /\ s \in L
        /\ empty[s] = 0 /\ full[s] = 1 /\ Readers(s) = {} /\ Writers(s) = {}
    <3>2. empty[s] \in Nat /\ full[s] \in Nat
      BY DEF TypeOK
    <3>0. s \in L
      BY <2>2, <3>2 DEF Tokens
    <3>1. Token(s)
      BY <3>0 DEF Tokens
    <3>3. empty[s] = 0 /\ full[s] = 1
      BY <2>2, <3>1, <3>2 DEF Token
    <3>4. Readers(s) \cup Writers(s) = {}
      BY <3>1, <3>3 DEF Token
    <3> QED
      BY <3>0, <3>3, <3>4
  <2>4. \A q \in Requests : ppc'[q] \in ProxyReading <=>
                               ppc[q] \in ProxyReading \/ q = r
    BY <2>2 DEF TypeOK, ProxyReading
  <2>5. /\ (Readers(s))' = {r}
        /\ \A t \in Segments \ {s} : (Readers(t))' = Readers(t)
        /\ \A t \in Segments : (Writers(t))' = Writers(t)
    BY <2>1, <2>2, <2>3, <2>4 DEF Readers, Writers
  <2>6. empty'[s] = 0 /\ full'[s] = 0
    BY <2>2, <2>3 DEF TypeOK
  <2>7. (Token(s))'
    BY <2>3, <2>5, <2>6 DEF Token
  <2> QED
    BY <2>2, <2>3, <2>5, <2>7, TokenAt DEF TypeOK
<1>8. ASSUME NEW r \in Requests, SendHeader(r)
      PROVE  (Tokens(L))'
  <2>1. PICK place \in {"body", "post"} : ppc' = [ppc EXCEPT ![r] = place]
    BY <1>8 DEF SendHeader
  <2> QED
    BY <1>8, <2>1, ProxyFrame DEF SendHeader, ProxyReading
<1>9. ASSUME NEW r \in Requests, SendBody(r)
      PROVE  (Tokens(L))'
  BY <1>9, ProxyFrame DEF SendBody, ProxyReading
<1>9s. ASSUME NEW r \in Requests, SendStalls(r)
       PROVE  (Tokens(L))'
  BY <1>9s, ProxyFrame DEF SendStalls, ProxyReading
<1>10. ASSUME NEW r \in Requests, PostEmpty(r)
       PROVE  (Tokens(L))'
  <2>1. PICK s \in Segments : s = seg[r]
    BY <1>10, <1>0 DEF PostEmpty, ProxyOwning, ProxyReading
  <2>2. PICK place \in {"release", "wait"} : ppc' = [ppc EXCEPT ![r] = place]
    BY <1>10 DEF PostEmpty
  <2>3. /\ empty' = [empty EXCEPT ![s] = @ + 1]
        /\ ppc[r] \in ProxyReading
        /\ UNCHANGED <<seg, cpc, full>>
    BY <1>10, <2>1 DEF PostEmpty, ProxyReading
  <2>4. s \in L /\ Token(s) /\ r \in Readers(s)
    BY <1>a, <2>1, <2>3
  <2>5. empty[s] = 0 /\ full[s] = 0 /\ Readers(s) = {r} /\ Writers(s) = {}
    BY <2>4 DEF Token, TypeOK
  <2>6. \A q \in Requests : ppc'[q] \in ProxyReading <=>
                               ppc[q] \in ProxyReading /\ q # r
    BY <2>2 DEF TypeOK, ProxyReading
  <2>7. /\ (Readers(s))' = {}
        /\ \A t \in Segments \ {s} : (Readers(t))' = Readers(t)
        /\ \A t \in Segments : (Writers(t))' = Writers(t)
    BY <2>1, <2>3, <2>5, <2>6 DEF Readers, Writers
  <2>8. empty'[s] = 1 /\ full'[s] = 0
    BY <2>3, <2>5 DEF TypeOK
  <2>9. (Token(s))'
    BY <2>5, <2>7, <2>8 DEF Token
  <2> QED
    BY <2>3, <2>4, <2>7, <2>9, TokenAt DEF TypeOK
<1>11. ASSUME NEW r \in Requests, Release(r)
       PROVE  (Tokens(L))'
  BY <1>11, ProxyFrame DEF Release, ProxyReading
<1>12. ASSUME NEW r \in Requests, Reply(r)
       PROVE  (Tokens(L))'
  BY <1>12, ProxyFrame DEF Reply, ProxyReading
<1>13. ASSUME CacheStart \/ Accept
       PROVE  (Tokens(L))'
  BY <1>13, TokenFrame DEF CacheStart, Accept, Readers, Writers
<1>14. ASSUME NEW r \in Requests, Pop(r)
       PROVE  (Tokens(L))'
  <2>1. cpc[r] = "none" /\ cpc' = [cpc EXCEPT ![r] = "read"]
    BY <1>14 DEF Pop, Placed, TypeOK
  <2> QED
    BY <1>14, <2>1, CacheFrame DEF Pop, CacheWriting
<1>15. ASSUME NEW r \in Requests, ReadEof(r) \/ SetupFails(r)
       PROVE  (Tokens(L))'
  BY <1>15, CacheFrame DEF ReadEof, SetupFails, CacheWriting
<1>16. ASSUME NEW r \in Requests, Lookup(r)
       PROVE  (Tokens(L))'
  <2>1. PICK place \in {"waitData", "waitFail"} : cpc' = [cpc EXCEPT ![r] = place]
    BY <1>16 DEF Lookup
  <2> QED
    BY <1>16, <2>1, CacheFrame DEF Lookup, CacheWriting
<1>17. ASSUME NEW r \in Requests, WaitEmpty(r)
       PROVE  (Tokens(L))'
  <2>1. PICK s \in Segments : s = seg[r]
    BY <1>17, <1>0 DEF WaitEmpty
  <2>2. PICK place \in {"fill", "fillFail"} : cpc' = [cpc EXCEPT ![r] = place]
    BY <1>17 DEF WaitEmpty
  <2>3. /\ empty[s] > 0 /\ empty' = [empty EXCEPT ![s] = @ - 1]
        /\ UNCHANGED <<seg, ppc, full>>
    BY <1>17, <2>1 DEF WaitEmpty
  <2>4. /\ s \in L
        /\ empty[s] = 1 /\ full[s] = 0 /\ Readers(s) = {} /\ Writers(s) = {}
    <3>2. empty[s] \in Nat /\ full[s] \in Nat
      BY DEF TypeOK
    <3>0. s \in L
      BY <2>3, <3>2 DEF Tokens
    <3>1. Token(s)
      BY <3>0 DEF Tokens
    <3>3. empty[s] = 1 /\ full[s] = 0
      BY <2>3, <3>1, <3>2 DEF Token
    <3>4. Readers(s) \cup Writers(s) = {}
      BY <3>1, <3>3 DEF Token
    <3> QED
      BY <3>0, <3>3, <3>4
  <2>5. \A q \in Requests : cpc'[q] \in CacheWriting <=>
                               cpc[q] \in CacheWriting \/ q = r
    BY <2>2 DEF TypeOK, CacheWriting
  <2>6. /\ (Writers(s))' = {r}
        /\ \A t \in Segments \ {s} : (Writers(t))' = Writers(t)
        /\ \A t \in Segments : (Readers(t))' = Readers(t)
    BY <2>1, <2>3, <2>4, <2>5 DEF Readers, Writers
  <2>7. empty'[s] = 0 /\ full'[s] = 0
    BY <2>3, <2>4 DEF TypeOK
  <2>8. (Token(s))'
    BY <2>4, <2>6, <2>7 DEF Token
  <2> QED
    BY <2>3, <2>4, <2>6, <2>8, TokenAt DEF TypeOK
<1>18. ASSUME NEW r \in Requests, Fill(r) \/ PreadFails(r) \/ Refuse(r)
       PROVE  (Tokens(L))'
  BY <1>18, CacheFrame DEF Fill, PreadFails, Refuse, CacheWriting
<1>19. ASSUME NEW r \in Requests, PostFull(r)
       PROVE  (Tokens(L))'
  <2>1. PICK s \in Segments : s = seg[r]
    BY <1>19, <1>0 DEF PostFull
  <2>2. PICK place \in {"check", "cleanup", "unset"} : cpc' = [cpc EXCEPT ![r] = place]
    BY <1>19 DEF PostFull, AfterPost
  <2>3. /\ full' = [full EXCEPT ![s] = @ + 1]
        /\ cpc[r] \in CacheWriting
        /\ UNCHANGED <<seg, ppc, empty>>
    BY <1>19, <2>1 DEF PostFull, CacheWriting
  <2>4. s \in L /\ Token(s) /\ r \in Writers(s)
    BY <1>b, <2>1, <2>3
  <2>5. empty[s] = 0 /\ full[s] = 0 /\ Writers(s) = {r} /\ Readers(s) = {}
    BY <2>4 DEF Token, TypeOK
  <2>6. \A q \in Requests : cpc'[q] \in CacheWriting <=>
                               cpc[q] \in CacheWriting /\ q # r
    BY <2>2 DEF TypeOK, CacheWriting
  <2>7. /\ (Writers(s))' = {}
        /\ \A t \in Segments \ {s} : (Writers(t))' = Writers(t)
        /\ \A t \in Segments : (Readers(t))' = Readers(t)
    BY <2>1, <2>3, <2>5, <2>6 DEF Readers, Writers
  <2>8. empty'[s] = 0 /\ full'[s] = 1
    BY <2>3, <2>5 DEF TypeOK
  <2>9. (Token(s))'
    BY <2>5, <2>7, <2>8 DEF Token
  <2> QED
    BY <2>3, <2>4, <2>7, <2>9, TokenAt DEF TypeOK
<1>20. ASSUME NEW r \in Requests, Check(r)
       PROVE  (Tokens(L))'
  <2>1. PICK place \in {"cleanup", "waitData"} : cpc' = [cpc EXCEPT ![r] = place]
    BY <1>20 DEF Check
  <2> QED
    BY <1>20, <2>1, CacheFrame DEF Check, CacheWriting
<1>21. ASSUME NEW r \in Requests, Cleanup(r)
       PROVE  (Tokens(L))'
  BY <1>21, CacheFrame DEF Cleanup, CacheWriting
<1>21s. ASSUME NEW r \in Requests, StrayCleanup(r)
        PROVE  (Tokens(L))'
  BY <1>21s, CacheFrame DEF StrayCleanup, CacheWriting
<1>22. CASE UNCHANGED vars
  BY <1>22, TokenFrame DEF vars, Readers, Writers
<1> QED
  BY <1>1, <1>2, <1>3, <1>4, <1>5, <1>6, <1>7, <1>8, <1>9, <1>9s, <1>10, <1>11, <1>12,
     <1>13, <1>14, <1>15, <1>16, <1>17, <1>18, <1>19, <1>20, <1>21, <1>21s, <1>22
  DEF Next, ProxyStep, CacheStep, Idle

\* The semaphores of a segment carry one token, on every path through the two
\* handlers and with any number of stale cache workers attached.
THEOREM TokenConserved == Spec => []OneToken
<1>1. Init => OneToken
  BY DEF Init, OneToken, Readers, Writers, ProxyReading, CacheWriting
<1>2. TypeOK /\ Placed /\ OneToken /\ [Next]_vars => OneToken'
  <2> SUFFICES ASSUME TypeOK, Placed, OneToken, [Next]_vars
               PROVE  OneToken'
    OBVIOUS
  <2>1. Tokens(Segments)
    BY DEF OneToken, Tokens, Token
  <2>2. (Tokens(Segments))'
    BY <2>1, TokenStep
  <2> QED
    BY <2>2 DEF OneToken, Tokens, Token
<1> QED
  BY <1>1, <1>2, Typing, PTL DEF Spec

-----------------------------------------------------------------------------
(* Exclusive ownership of the segments by the proxy's workers.             *)

Owners(s) == {r \in Requests : seg[r] = s /\ ppc[r] \in ProxyOwning}

LEMMA OwnersUnique ==
  SegmentExclusive <=>
      \A s \in Segments : /\ \A q, r \in Owners(s) : q = r
                          /\ inUse[s] <=> Owners(s) # {}
BY DEF SegmentExclusive, Owners

LEMMA OwnersFrame ==
  ASSUME SegmentExclusive, inUse' = inUse,
         \A s \in Segments : (Owners(s))' = Owners(s)
  PROVE  SegmentExclusive'
<1>1. \A s \in Segments : /\ \A q, r \in Owners(s) : q = r
                          /\ inUse[s] <=> Owners(s) # {}
  BY OwnersUnique
<1>2. \A s \in Segments : /\ \A q, r \in (Owners(s))' : q = r
                          /\ inUse'[s] <=> (Owners(s))' # {}
  BY <1>1
<1> QED
  BY <1>2 DEF SegmentExclusive, Owners

\* A proxy worker that neither gets nor gives up its segment.
LEMMA OwnersMove ==
  ASSUME TypeOK, NEW r \in Requests, NEW place,
         ppc' = [ppc EXCEPT ![r] = place],
         ppc[r] \in ProxyOwning <=> place \in ProxyOwning,
         UNCHANGED seg
  PROVE  \A s \in Segments : (Owners(s))' = Owners(s)
<1>1. \A q \in Requests : ppc'[q] \in ProxyOwning <=> ppc[q] \in ProxyOwning
  BY DEF TypeOK
<1> QED
  BY <1>1 DEF Owners

\* What an acquisition and a release do to the owners.
LEMMA AcquireOwners ==
  ASSUME TypeOK, SegmentExclusive,
         NEW r \in Requests, NEW s \in Segments, Acquire(r, s)
  PROVE  /\ Owners(s) = {} /\ (Owners(s))' = {r}
         /\ \A t \in Segments \ {s} : (Owners(t))' = Owners(t)
         /\ \A t \in Segments : r \notin Owners(t)
<1>1. /\ ppc[r] = "acquire" /\ ppc' = [ppc EXCEPT ![r] = "clear"]
      /\ seg' = [seg EXCEPT ![r] = s] /\ ~inUse[s]
  BY DEF Acquire, ToProxy, FreeSegments
<1>2. Owners(s) = {}
  BY <1>1, OwnersUnique
<1>3. \A q \in Requests : q # r => seg'[q] = seg[q] /\ ppc'[q] = ppc[q]
  BY <1>1 DEF TypeOK
<1>4. seg'[r] = s /\ ppc'[r] \in ProxyOwning /\ ppc[r] \notin ProxyOwning
  BY <1>1 DEF TypeOK, ProxyOwning, ProxyReading
<1> QED
  BY <1>2, <1>3, <1>4 DEF Owners

LEMMA ReleaseOwners ==
  ASSUME TypeOK, Placed, SegmentExclusive, NEW r \in Requests, Release(r)
  PROVE  \E s \in Segments :
            /\ s = seg[r]
            /\ Owners(s) = {r} /\ (Owners(s))' = {}
            /\ \A t \in Segments \ {s} : (Owners(t))' = Owners(t)
<1>1. ppc[r] = "release" /\ UNCHANGED seg
  BY DEF Release
<1>2. PICK place \in {"reply", "done"} : ppc' = [ppc EXCEPT ![r] = place]
  BY DEF Release, ToProxy
<1>3. seg[r] \in Segments
  BY <1>1, HasSegment DEF ProxyOwning
<1>4. r \in Owners(seg[r])
  BY <1>1 DEF Owners, ProxyOwning
<1>5. Owners(seg[r]) = {r}
  BY <1>3, <1>4, OwnersUnique
<1>6. \A q \in Requests :
         ppc'[q] \in ProxyOwning <=> ppc[q] \in ProxyOwning /\ q # r
  BY <1>2 DEF TypeOK, ProxyOwning, ProxyReading
<1> QED
  <2>1. PICK s \in Segments : s = seg[r]
    BY <1>3
  <2> QED
    BY <1>1, <1>5, <1>6, <2>1 DEF Owners

\* No other step changes who owns what.
LEMMA OwnersStep ==
  ASSUME TypeOK, Placed, [Next]_vars
  PROVE  \/ \E r \in Requests, s \in Segments : Acquire(r, s)
         \/ \E r \in Requests : Release(r)
         \/ inUse' = inUse /\ \A s \in Segments : (Owners(s))' = Owners(s)
<1> USE DEF ToProxy, ToCache, CacheUnchanged, shmVars, cmdVars, proxyVars,
            cacheVars
<1> DEFINE Same == inUse' = inUse /\ \A s \in Segments : (Owners(s))' = Owners(s)
<1>1. ASSUME NEW r \in Requests,
             \/ Start(r) \/ Clear(r) \/ Cleaned(r) \/ Connect(r) \/ WaitFull(r)
             \/ SendBody(r) \/ SendStalls(r) \/ Reply(r)
      PROVE  Same
  <2>1. PICK place :
           /\ ppc' = [ppc EXCEPT ![r] = place]
           /\ ppc[r] \in ProxyOwning <=> place \in ProxyOwning
    BY <1>1 DEF Start, Clear, Cleaned, Connect, WaitFull, SendBody, SendStalls, Reply,
                ProxyOwning, ProxyReading
  <2>2. UNCHANGED <<seg, inUse>>
    BY <1>1 DEF Start, Clear, Cleaned, Connect, WaitFull, SendBody, SendStalls, Reply
  <2> QED
    BY <2>1, <2>2, OwnersMove
<1>2. ASSUME NEW r \in Requests, Write(r) \/ SendHeader(r) \/ PostEmpty(r)
      PROVE  Same
  <2>1. PICK place \in {"wait", "release", "body", "post"} :
           ppc' = [ppc EXCEPT ![r] = place]
    BY <1>2 DEF Write, SendHeader, PostEmpty
  <2>2. ppc[r] \in {"write", "packet", "post"} /\ UNCHANGED <<seg, inUse>>
    BY <1>2 DEF Write, SendHeader, PostEmpty
  <2>3. ppc[r] \in ProxyOwning /\ place \in ProxyOwning
    BY <2>1, <2>2 DEF ProxyOwning, ProxyReading
  <2> QED
    BY <2>1, <2>2, <2>3, OwnersMove
<1>3. ASSUME UNCHANGED <<inUse, ppc, seg>>
      PROVE  Same
  BY <1>3 DEF Owners
<1>4. ASSUME CacheStart \/ Accept \/ \E r \in Requests : CacheStep(r)
      PROVE  UNCHANGED <<inUse, ppc, seg>>
  BY <1>4 DEF CacheStart, Accept, CacheStep, Pop, ReadEof, SetupFails, Lookup,
              WaitEmpty, Fill, PreadFails, Refuse, PostFull, Check, Cleanup,
              StrayCleanup
<1>5. CASE UNCHANGED vars
  BY <1>3, <1>5 DEF vars
<1> QED
  BY <1>1, <1>2, <1>3, <1>4, <1>5 DEF Next, ProxyStep, Idle

LEMMA ExclusiveStep ==
  ASSUME TypeOK, Placed, SegmentExclusive, [Next]_vars
  PROVE  SegmentExclusive'
<1>1. ASSUME NEW r \in Requests, NEW s \in Segments, Acquire(r, s)
      PROVE  SegmentExclusive'
  <2>1. inUse' = [inUse EXCEPT ![s] = TRUE]
    BY <1>1 DEF Acquire
  <2>2. (Owners(s))' = {r} /\ inUse'[s]
    BY <1>1, <2>1, AcquireOwners DEF TypeOK
  <2>3. \A t \in Segments \ {s} :
           (Owners(t))' = Owners(t) /\ inUse'[t] = inUse[t]
    BY <1>1, <2>1, AcquireOwners DEF TypeOK
  <2>4. \A t \in Segments : /\ \A q, p \in (Owners(t))' : q = p
                            /\ inUse'[t] <=> (Owners(t))' # {}
    BY <2>2, <2>3, OwnersUnique
  <2> QED
    BY <2>4 DEF SegmentExclusive, Owners
<1>2. ASSUME NEW r \in Requests, Release(r)
      PROVE  SegmentExclusive'
  <2>1. PICK s \in Segments :
           /\ s = seg[r]
           /\ Owners(s) = {r} /\ (Owners(s))' = {}
           /\ \A t \in Segments \ {s} : (Owners(t))' = Owners(t)
    BY <1>2, ReleaseOwners
  <2>2. inUse' = [inUse EXCEPT ![s] = FALSE]
    BY <1>2, <2>1 DEF Release
  <2>3. ~inUse'[s] /\ \A t \in Segments \ {s} : inUse'[t] = inUse[t]
    BY <2>2 DEF TypeOK
  <2>4. \A t \in Segments : /\ \A q, p \in (Owners(t))' : q = p
                            /\ inUse'[t] <=> (Owners(t))' # {}
    BY <2>1, <2>3, OwnersUnique
  <2> QED
    BY <2>4 DEF SegmentExclusive, Owners
<1> QED
  BY <1>1, <1>2, OwnersStep, OwnersFrame

\* Two proxy workers never own the same segment, and inUse tells the truth.
THEOREM ExclusiveSegments == Spec => []SegmentExclusive
<1>1. Init => SegmentExclusive
  BY DEF Init, SegmentExclusive, ProxyOwning, ProxyReading
<1>2. TypeOK /\ Placed /\ SegmentExclusive /\ [Next]_vars => SegmentExclusive'
  BY ExclusiveStep
<1> QED
  BY <1>1, <1>2, Typing, PTL DEF Spec

-----------------------------------------------------------------------------
(* What a reader may rely on.                                              *)

\* Only an owner that clears and a cache worker with the token write a packet.
LEMMA WhoWrites ==
  ASSUME TypeOK, Placed, [Next]_vars, NEW s \in Segments, pkt'[s] # pkt[s]
  PROVE  \E q \in Requests : seg[q] = s /\ (ppc[q] = "clear" \/ q \in Writers(s))
<1> USE DEF ToProxy, ToCache, CacheUnchanged, shmVars, cmdVars, proxyVars,
            cacheVars
<1>1. ASSUME NEW q \in Requests, Clear(q)
      PROVE  seg[q] = s /\ ppc[q] = "clear"
  BY <1>1 DEF Clear, TypeOK
<1>2. ASSUME NEW q \in Requests, Fill(q) \/ PreadFails(q) \/ Refuse(q)
      PROVE  seg[q] = s /\ q \in Writers(s)
  <2>1. cpc[q] \in CacheWriting /\ cpc[q] # "none"
    BY <1>2 DEF Fill, PreadFails, Refuse, CacheWriting
  <2>2. seg[q] \in Segments
    BY <2>1, HasSegment
  <2>3. \E p \in Packet : pkt' = [pkt EXCEPT ![seg[q]] = p]
    BY <1>2, <2>2, PacketType, StoreType DEF Fill, PreadFails, Refuse
  <2>4. seg[q] = s
    BY <2>2, <2>3 DEF TypeOK
  <2> QED
    BY <2>1, <2>4 DEF Writers
<1>3. ASSUME NEW q \in Requests,
             \/ Start(q) \/ Cleaned(q) \/ Connect(q) \/ Write(q)
             \/ WaitFull(q) \/ SendHeader(q) \/ SendBody(q) \/ SendStalls(q)
             \/ PostEmpty(q)
             \/ Release(q) \/ Reply(q) \/ \E t \in Segments : Acquire(q, t)
      PROVE  FALSE
  BY <1>3 DEF Start, Cleaned, Connect, Write, WaitFull, SendHeader, SendBody,
              SendStalls, PostEmpty, Release, Reply, Acquire
<1>4. ASSUME NEW q \in Requests,
             \/ Pop(q) \/ ReadEof(q) \/ SetupFails(q) \/ Lookup(q)
             \/ WaitEmpty(q) \/ PostFull(q) \/ Check(q) \/ Cleanup(q)
             \/ StrayCleanup(q)
      PROVE  FALSE
  BY <1>4 DEF Pop, ReadEof, SetupFails, Lookup, WaitEmpty, PostFull, Check,
              Cleanup, StrayCleanup
<1>5. ASSUME CacheStart \/ Accept \/ Idle \/ UNCHANGED vars
      PROVE  FALSE
  BY <1>5 DEF CacheStart, Accept, Idle, vars
<1> QED
  BY <1>1, <1>2, <1>3, <1>4, <1>5 DEF Next, ProxyStep, CacheStep

\* A packet that nobody else may write does not change under its reader.
LEMMA ReadsStable ==
  ASSUME TypeOK, Placed, SegmentExclusive, [Next]_vars,
         NEW r \in Requests, ppc[r] \in ProxyReading, Writers(seg[r]) = {}
  PROVE  pkt'[seg[r]] = pkt[seg[r]]
<1> SUFFICES ASSUME pkt'[seg[r]] # pkt[seg[r]]
             PROVE  FALSE
  OBVIOUS
<1>1. ppc[r] \in ProxyOwning /\ seg[r] \in Segments
  BY HasSegment DEF ProxyOwning
<1>2. PICK q \in Requests : seg[q] = seg[r] /\ ppc[q] = "clear"
  BY <1>1, WhoWrites
<1>3. q \in Owners(seg[r]) /\ r \in Owners(seg[r])
  BY <1>1, <1>2 DEF Owners, ProxyOwning
<1>4. q = r
  BY <1>1, <1>3, OwnersUnique
<1> QED
  BY <1>2, <1>4 DEF ProxyReading

\* A packet does not change under the proxy worker that reads it.
THEOREM ReadersUndisturbed == Spec => PacketStable
<1> DEFINE Stable ==
      \A r \in Requests : ppc[r] \in ProxyReading /\ ppc'[r] \in ProxyReading
                              => pkt'[seg[r]] = pkt[seg[r]]
<1>1. TypeOK /\ Placed /\ OneToken /\ SegmentExclusive /\ [Next]_vars
        => [Stable]_vars
  <2> SUFFICES ASSUME TypeOK, Placed, OneToken, SegmentExclusive, [Next]_vars,
                      NEW r \in Requests, ppc[r] \in ProxyReading
               PROVE  pkt'[seg[r]] = pkt[seg[r]]
    OBVIOUS
  <2>1. r \in Readers(seg[r]) /\ seg[r] \in Segments
    BY HasSegment DEF Readers, ProxyOwning
  <2>2. Writers(seg[r]) = {}
    BY <2>1 DEF OneToken
  <2> QED
    BY <2>2, ReadsStable
<1> QED
  BY <1>1, Typing, TokenConserved, ExclusiveSegments, PTL DEF Spec, PacketStable

-----------------------------------------------------------------------------
\* The handlers use the pool as SegmentOwnership allows, on every way out.
THEOREM ChannelImplementsOwnership == Spec => ImplementsOwnership
<1> DEFINE owner == [s \in Segments |->
                       {r \in Requests : seg[r] = s /\ ppc[r] \in ProxyOwning}]
<1>1. Init => Ownership!Init
  BY DEF Init, Ownership!Init, ProxyOwning, ProxyReading
<1>2. TypeOK /\ Placed /\ SegmentExclusive /\ [Next]_vars
        => [Ownership!Next]_owner
  <2> SUFFICES ASSUME TypeOK, Placed, SegmentExclusive, [Next]_vars
               PROVE  Ownership!Next \/ owner' = owner
    OBVIOUS
  <2>0. /\ owner = [s \in Segments |-> Owners(s)]
        /\ owner' = [s \in Segments |-> (Owners(s))']
    BY DEF Owners
  <2> HIDE DEF owner
  <2>1. ASSUME NEW r \in Requests, NEW s \in Segments, Acquire(r, s)
        PROVE  Ownership!Next
    <3>1. owner[s] = {} /\ \A t \in Segments : r \notin owner[t]
      BY <2>0, <2>1, AcquireOwners
    <3>2. owner' = [owner EXCEPT ![s] = {r}]
      BY <2>0, <2>1, AcquireOwners
    <3>3. Ownership!Take(r, s)
      BY <3>1, <3>2
      DEF owner, Ownership!Take, Ownership!Free, Ownership!HoldsNothing
    <3> QED
      BY <3>3 DEF Ownership!Next
  <2>2. ASSUME NEW r \in Requests, Release(r)
        PROVE  Ownership!Next
    <3>1. PICK s \in Segments :
             /\ Owners(s) = {r} /\ (Owners(s))' = {}
             /\ \A t \in Segments \ {s} : (Owners(t))' = Owners(t)
      BY <2>2, ReleaseOwners
    <3>2. owner[s] = {r} /\ owner' = [owner EXCEPT ![s] = {}]
      BY <2>0, <3>1
    <3>3. Ownership!Drop(r, s)
      BY <3>2 DEF owner, Ownership!Drop
    <3> QED
      BY <3>3 DEF Ownership!Next
  <2>3. ASSUME \A s \in Segments : (Owners(s))' = Owners(s)
        PROVE  owner' = owner
    BY <2>0, <2>3
  <2> QED
    BY <2>1, <2>2, <2>3, OwnersStep
<1> QED
  BY <1>1, <1>2, Typing, ExclusiveSegments, PTL
  DEF Spec, ImplementsOwnership, Ownership!Spec

-----------------------------------------------------------------------------
(* The steps of the two processes as steps of the transfer.                *)

\* To the transfer a step of the lives of the processes is one of its own
\* steps, none, or one of the five events below.
Event == Signal \/ Exit \/ Kill \/ \E r \in Requests : BrokenPipe(r) \/ LookupClosed(r)

LEMMA TransferPart ==
  ASSUME [CrashNext]_crashVars
  PROVE  Event \/ ([Next]_vars /\ lost' = lost)
<1>1. CASE Intact /\ \E r \in Requests : ProxyRuns(r) \/ CacheRuns(r)
  BY <1>1 DEF ProxyRuns, CacheRuns, Next, historyVars
<1>2. CASE Intact /\ (StartCache \/ AcceptRuns)
  BY <1>2 DEF StartCache, AcceptRuns, Next, historyVars
<1>3. CASE \/ Destroy \/ Rest \/ UNCHANGED crashVars
           \/ Idle /\ UNCHANGED <<processVars, historyVars>>
  BY <1>3 DEF Destroy, Rest, crashVars, Idle, historyVars
<1> QED
  BY <1>1, <1>2, <1>3 DEF CrashNext, Event, processVars, historyVars

\* What the end of the process does to the transfer.
LEMMA DiesPart ==
  ASSUME Exit \/ Kill
  PROVE  Dies
BY DEF Exit, Kill

-----------------------------------------------------------------------------
(* Typing.                                                                 *)

LEMMA CacheActiveIn ==
  ASSUME TypeOK, NEW r \in Requests
  PROVE  cpc[r] \in CacheWriting => r \in CacheActive
BY DEF CacheActive, CacheIdle, CacheWriting

LEMMA DiesTypes ==
  ASSUME TypeOK, Placed, Dies
  PROVE  /\ TypeOK' /\ Placed'
         /\ \A r \in Requests :
               cpc'[r] = IF r \in CacheActive THEN "done" ELSE cpc[r]
<1> USE DEF shmVars, proxyVars
<1>1. /\ cpc' = [r \in Requests |-> IF r \in CacheActive THEN "done" ELSE cpc[r]]
      /\ backlog' = <<>> /\ workq' = <<>> /\ listening' = FALSE
      /\ stray' = "none"
      /\ UNCHANGED <<inUse, shmVars, conn, proxyVars, offset>>
  BY DEF Dies
<1>2. "done" \in CacheStates
  BY DEF CacheStates, CacheIdle
<1>3. cpc' \in [Requests -> CacheStates]
  BY <1>1, <1>2 DEF TypeOK
<1>4. backlog' \in Seq(Requests) /\ workq' \in Seq(Requests)
  BY <1>1
<1>5. TypeOK'
  BY <1>1, <1>3, <1>4 DEF TypeOK
<1>6. \A r \in Requests : cpc'[r] = IF r \in CacheActive THEN "done" ELSE cpc[r]
  BY <1>1
<1>7. \A r \in Requests : cpc'[r] # "none" => cpc[r] # "none"
  BY <1>6 DEF CacheActive, CacheIdle
<1>8. Placed'
  BY <1>1, <1>7 DEF Placed
<1> QED
  BY <1>5, <1>6, <1>8

\* A lookup in the destroyed table is refused, or it ends the model.
LEMMA LookedUp ==
  ASSUME TypeOK, NEW r \in Requests, LookupClosed(r)
  PROVE  \E place \in {"read", "waitFail"} :
            /\ cpc[r] = "read" /\ cpc' = [cpc EXCEPT ![r] = place]
            /\ place = "waitFail" => r \in broken'
            /\ stray' \in {stray, "other"} /\ broken \subseteq broken'
            /\ broken' \subseteq broken \cup {r}
            /\ UNCHANGED <<inUse, shmVars, listening, backlog, conn, workq, proxyVars,
                           offset, processVars, dropped, lost>>
BY DEF LookupClosed, ToCache, TypeOK

LEMMA EventTypes ==
  ASSUME TypeOK, Placed, Event
  PROVE  TypeOK' /\ Placed'
<1> USE DEF shmVars, proxyVars, cmdVars, cacheVars
<1>1. CASE Signal
  <2>1. /\ backlog' = <<>> /\ listening' = FALSE
        /\ stray' \in {"none", "socket", "other"}
        /\ UNCHANGED <<inUse, shmVars, conn, workq, proxyVars, cacheVars>>
    BY <1>1 DEF Signal, TypeOK
  <2>2. TypeOK'
    <3>1. backlog' \in Seq(Requests)
      BY <2>1
    <3> QED
      BY <2>1, <3>1 DEF TypeOK
  <2>3. Placed'
    BY <2>1 DEF Placed
  <2> QED
    BY <2>2, <2>3
<1>2. CASE Exit \/ Kill
  BY <1>2, DiesPart, DiesTypes
<1>3. ASSUME NEW r \in Requests, BrokenPipe(r)
      PROVE  TypeOK' /\ Placed'
  <2>1. /\ conn' = [q \in Requests |-> IF conn[q] = "open" THEN "eof" ELSE conn[q]]
        /\ UNCHANGED <<inUse, shmVars, listening, backlog, workq, stray, proxyVars,
                       cacheVars>>
    BY <1>3 DEF BrokenPipe
  <2>2. conn' \in [Requests -> {"none", "open", "request", "eof"}]
    BY <2>1 DEF TypeOK
  <2>3. \A q \in Requests : conn'[q] = "none" <=> conn[q] = "none"
    BY <2>1
  <2>4. TypeOK'
    BY <2>1, <2>2 DEF TypeOK
  <2>5. backlog \in Seq(Requests) /\ workq \in Seq(Requests)
    BY DEF TypeOK
  <2>6. Placed'
    BY <2>1, <2>3, <2>5 DEF Placed
  <2> QED
    BY <2>4, <2>6
<1>4. ASSUME NEW r \in Requests, LookupClosed(r)
      PROVE  TypeOK' /\ Placed'
  <2>1. PICK place \in {"read", "waitFail"} :
           /\ cpc[r] = "read" /\ cpc' = [cpc EXCEPT ![r] = place]
           /\ stray' \in {stray, "other"}
           /\ UNCHANGED <<inUse, shmVars, listening, backlog, conn, workq, proxyVars,
                          offset>>
    BY <1>4, LookedUp
  <2>2. place \in CacheStates \ {"none"}
    BY DEF CacheStates, CacheIdle, CacheAttached
  <2>3. TypeOK'
    BY <2>1, <2>2 DEF TypeOK
  <2>4. Placed'
    BY <2>1, <2>2, CacheMove
  <2> QED
    BY <2>3, <2>4
<1> QED
  BY <1>1, <1>2, <1>3, <1>4 DEF Event

LEMMA CrashTypeStep ==
  ASSUME CrashTypeOK, Placed, [CrashNext]_crashVars
  PROVE  CrashTypeOK' /\ Placed'
<1>1. TypeOK' /\ Placed'
  BY TransferPart, EventTypes, TypeStep, PlacedStep DEF CrashTypeOK
<1>2. /\ life' \in LifeStates /\ stops' \in 0 .. MaxStops /\ proxyUp' \in BOOLEAN
      /\ listening' => life' = "up"
  <2> USE CacheCrashAssumption DEF CrashTypeOK, LifeStates, processVars
  <2>1. CASE StartCache
    BY <2>1 DEF StartCache, CacheStart
  <2>2. CASE Signal
    BY <2>2 DEF Signal
  <2>3. CASE Destroy
    BY <2>3 DEF Destroy, vars, cmdVars
  <2>4. CASE Exit
    BY <2>4 DEF Exit, Dies
  <2>5. CASE Kill
    BY <2>5 DEF Kill, Dies
  <2>6. CASE AcceptRuns
    BY <2>6 DEF AcceptRuns, Accept
  <2>7. ASSUME NEW r \in Requests, BrokenPipe(r)
        PROVE  /\ life' \in LifeStates /\ stops' \in 0 .. MaxStops
               /\ proxyUp' \in BOOLEAN
               /\ listening' => life' = "up"
    BY <2>7 DEF BrokenPipe
  <2>8. ASSUME NEW r \in Requests, ProxyRuns(r)
        PROVE  listening' = listening /\ UNCHANGED processVars
    BY <2>8 DEF ProxyRuns, ProxyStep, Start, Acquire, Clear, Cleaned, Connect,
                Write, WaitFull, SendHeader, SendBody, SendStalls, PostEmpty, Release,
                Reply,
                cmdVars
  <2>9. ASSUME NEW r \in Requests, CacheRuns(r) \/ LookupClosed(r)
        PROVE  (listening' => listening) /\ UNCHANGED processVars
    BY <2>9 DEF CacheRuns, LookupClosed, CacheStep, Pop, ReadEof, SetupFails,
                Lookup, WaitEmpty, Fill, PreadFails, Refuse, PostFull, Check,
                Cleanup, StrayCleanup, CacheUnchanged, cmdVars
  <2>10. CASE \/ Rest \/ UNCHANGED crashVars
              \/ Idle /\ UNCHANGED <<processVars, historyVars>>
    BY <2>10 DEF Rest, crashVars, Idle, vars, cmdVars
  <2> QED
    BY <2>1, <2>2, <2>3, <2>4, <2>5, <2>6, <2>7, <2>8, <2>9, <2>10 DEF CrashNext, historyVars
<1>3. dropped' \subseteq Requests
  <2> USE DEF historyVars, processVars, CrashTypeOK
  <2>1. CASE Signal
    BY <2>1 DEF Signal, Elements, TypeOK
  <2>2. CASE Exit \/ Kill
    BY <2>2, DiesPart DEF Dies
  <2>3. ASSUME NEW r \in Requests, CacheRuns(r)
        PROVE  dropped' \subseteq Requests
    <3>1. Elements(backlog) \subseteq Requests
      BY DEF TypeOK, Elements
    <3> QED
      BY <2>3, <3>1 DEF CacheRuns
  <2>4. ASSUME NEW r \in Requests, ProxyRuns(r) \/ BrokenPipe(r) \/ LookupClosed(r)
        PROVE  dropped' = dropped
    BY <2>4 DEF ProxyRuns, BrokenPipe, LookupClosed
  <2>5. CASE \/ StartCache \/ Destroy \/ AcceptRuns \/ Rest \/ UNCHANGED crashVars
             \/ Idle /\ UNCHANGED <<processVars, historyVars>>
    BY <2>5 DEF StartCache, Destroy, AcceptRuns, Rest, crashVars
  <2> QED
    BY <2>1, <2>2, <2>3, <2>4, <2>5 DEF CrashNext
<1>4. lost' \subseteq Segments
  <2>1. CASE Exit \/ Kill
    <3>1. \A r \in Requests : cpc[r] \in CacheWriting => seg[r] \in Segments
      BY HasSegment DEF CacheWriting, CrashTypeOK
    <3>2. lost' = lost \cup {seg[r] : r \in {q \in Requests : cpc[q] \in CacheWriting}}
      BY <2>1, DiesPart DEF Dies
    <3> QED
      BY <3>1, <3>2 DEF CrashTypeOK
  <2>2. CASE Signal \/ \E r \in Requests : BrokenPipe(r) \/ LookupClosed(r)
    BY <2>2 DEF Signal, BrokenPipe, LookupClosed, historyVars, CrashTypeOK
  <2>3. CASE lost' = lost
    BY <2>3 DEF CrashTypeOK
  <2> QED
    BY <2>1, <2>2, <2>3, TransferPart DEF Event
<1>5. broken' \subseteq Requests
  <2> USE DEF CrashTypeOK
  <2>1. ASSUME NEW r \in Requests, CacheRuns(r) \/ LookupClosed(r)
        PROVE  broken' \subseteq Requests
    BY <2>1 DEF CacheRuns, LookupClosed
  <2>2. ASSUME NEW r \in Requests, ProxyRuns(r) \/ BrokenPipe(r)
        PROVE  broken' = broken
    BY <2>2 DEF ProxyRuns, BrokenPipe, historyVars
  <2>3. CASE \/ StartCache \/ Signal \/ Destroy \/ Exit \/ Kill \/ AcceptRuns \/ Rest
             \/ UNCHANGED crashVars
             \/ Idle /\ UNCHANGED <<processVars, historyVars>>
    BY <2>3, DiesPart DEF StartCache, Signal, Destroy, Dies, AcceptRuns, Rest, crashVars,
       historyVars
  <2> QED
    BY <2>1, <2>2, <2>3 DEF CrashNext
<1> QED
  BY <1>1, <1>2, <1>3, <1>4, <1>5 DEF CrashTypeOK

\* The values of all variables stay within their types, and a request and its
\* segment stay where a transfer has put them, over all lives of the cache.
THEOREM CrashTyping == CrashSpec => [](CrashTypeOK /\ Placed)
<1>1. CrashInit => CrashTypeOK /\ Placed
  <2> SUFFICES ASSUME CrashInit
               PROVE  CrashTypeOK /\ Placed
    OBVIOUS
  <2>1. TypeOK /\ Placed
    BY InitTypes DEF CrashInit
  <2>2. listening = FALSE
    BY DEF CrashInit, Init
  <2> QED
    BY <2>1, <2>2, CacheCrashAssumption DEF CrashInit, CrashTypeOK, LifeStates
<1>2. CrashTypeOK /\ Placed /\ [CrashNext]_crashVars => (CrashTypeOK /\ Placed)'
  BY CrashTypeStep
<1> QED
  BY <1>1, <1>2, PTL DEF CrashSpec

-----------------------------------------------------------------------------
(* Tokens that die with a worker.                                          *)

\* Every segment has its token, but for those whose token is lost.
Conserved == Tokens(Segments \ lost)

\* The end of the process takes the tokens of its workers away.
LEMMA DiesTokens ==
  ASSUME CrashTypeOK, Placed, Conserved, Dies
  PROVE  Conserved'
<1>1. /\ \A r \in Requests :
            cpc'[r] = IF r \in CacheActive THEN "done" ELSE cpc[r]
      /\ UNCHANGED <<empty, full, seg, ppc>>
      /\ lost' = lost \cup {seg[r] : r \in {q \in Requests : cpc[q] \in CacheWriting}}
  BY DiesTypes DEF Dies, shmVars, proxyVars, CrashTypeOK
<1>2. \A r \in Requests : cpc'[r] \notin CacheWriting
  BY <1>1 DEF CacheActive, CacheIdle, CacheWriting
<1>3. \A s \in Segments : /\ (Readers(s))' = Readers(s)
                          /\ (Writers(s))' = {}
                          /\ s \in lost' <=> s \in lost \/ Writers(s) # {}
  BY <1>1, <1>2 DEF Readers, Writers
<1>4. ASSUME NEW s \in Segments \ lost'
      PROVE  (Token(s))'
  <2>1. Token(s) /\ Writers(s) = {}
    BY <1>3, <1>4 DEF Conserved, Tokens
  <2> QED
    BY <1>1, <1>3, <2>1 DEF Token
<1>5. ASSUME NEW s \in Segments, s \in lost'
      PROVE  empty'[s] + full'[s] = 0 /\ (Readers(s))' = {} /\ (Writers(s))' = {}
  <2>1. CASE s \in lost
    BY <1>1, <1>3, <2>1 DEF Conserved, Tokens
  <2>2. CASE s \notin lost
    <3>1. Token(s) /\ Writers(s) # {}
      BY <1>3, <1>5, <2>2 DEF Conserved, Tokens
    <3>2. empty[s] + full[s] = 0 /\ Readers(s) = {}
      BY <3>1 DEF Token
    <3> QED
      BY <1>1, <1>3, <3>2
  <2> QED
    BY <2>1, <2>2
<1> QED
  BY <1>4, <1>5 DEF Conserved, Tokens

LEMMA ConservedStep ==
  ASSUME CrashTypeOK, Placed, Conserved, [CrashNext]_crashVars
  PROVE  Conserved'
<1>1. PICK L \in SUBSET Segments : L = Segments \ lost
  OBVIOUS
<1>2. Tokens(L) /\ TypeOK
  BY <1>1 DEF Conserved, CrashTypeOK
<1>3. ASSUME lost' = lost, (Tokens(L))'
      PROVE  Conserved'
  BY <1>1, <1>3 DEF Conserved, Tokens
<1>4. CASE [Next]_vars /\ lost' = lost
  BY <1>2, <1>3, <1>4, TokenStep
<1>5. CASE Signal
  <2>1. UNCHANGED <<seg, ppc, cpc, empty, full, lost>>
    BY <1>5 DEF Signal, shmVars, proxyVars, cacheVars
  <2> QED
    BY <1>2, <1>3, <2>1, TokenFrame DEF Readers, Writers
<1>6. CASE Exit \/ Kill
  BY <1>6, DiesPart, DiesTokens
<1>7. ASSUME NEW r \in Requests, BrokenPipe(r)
      PROVE  Conserved'
  <2>1. UNCHANGED <<seg, ppc, cpc, empty, full, lost>>
    BY <1>7 DEF BrokenPipe, shmVars, proxyVars, cacheVars, historyVars
  <2> QED
    BY <1>2, <1>3, <2>1, TokenFrame DEF Readers, Writers
<1>8. ASSUME NEW r \in Requests, LookupClosed(r)
      PROVE  Conserved'
  <2>1. PICK place \in {"read", "waitFail"} :
           /\ cpc[r] = "read" /\ cpc' = [cpc EXCEPT ![r] = place]
           /\ UNCHANGED <<seg, ppc, empty, full, lost>>
    BY <1>2, <1>8, LookedUp DEF shmVars, proxyVars
  <2> QED
    BY <1>2, <1>3, <2>1, CacheFrame DEF CacheWriting
<1> QED
  BY <1>4, <1>5, <1>6, <1>7, <1>8, TransferPart DEF Event

\* How many members a set has of which any two are equal.
LEMMA AtMostOne ==
  ASSUME NEW S, \A q, r \in S : q = r
  PROVE  Cardinality(S) = IF S = {} THEN 0 ELSE 1
<1>1. CASE S = {}
  BY <1>1, FS_EmptySet
<1>2. CASE S # {}
  <2>1. PICK x : S = {x}
    BY <1>2
  <2> QED
    BY <2>1, FS_Singleton
<1> QED
  BY <1>1, <1>2

LEMMA ConservedCounts ==
  ASSUME TypeOK, Conserved
  PROVE  TokenOrLost
<1> SUFFICES ASSUME NEW s \in Segments
             PROVE  empty[s] + full[s] + (Cardinality(Readers(s)) + Cardinality(Writers(s)))
                       = IF s \in lost THEN 0 ELSE 1
  BY DEF TokenOrLost
<1>1. empty[s] \in Nat /\ full[s] \in Nat
  BY DEF TypeOK
<1>2. CASE s \in lost
  <2>1. empty[s] + full[s] = 0 /\ Readers(s) = {} /\ Writers(s) = {}
    BY <1>2 DEF Conserved, Tokens
  <2>2. Cardinality(Readers(s)) = 0 /\ Cardinality(Writers(s)) = 0
    BY <2>1, FS_EmptySet
  <2> QED
    BY <1>1, <1>2, <2>1, <2>2
<1>3. CASE s \notin lost
  <2>1. Token(s)
    BY <1>3 DEF Conserved, Tokens
  <2>2. /\ Cardinality(Readers(s)) = IF Readers(s) = {} THEN 0 ELSE 1
        /\ Cardinality(Writers(s)) = IF Writers(s) = {} THEN 0 ELSE 1
    BY <2>1, AtMostOne DEF Token
  <2>3. \/ empty[s] + full[s] = 1 /\ Readers(s) = {} /\ Writers(s) = {}
        \/ empty[s] + full[s] = 0 /\ Readers(s) = {} /\ Writers(s) # {}
        \/ empty[s] + full[s] = 0 /\ Readers(s) # {} /\ Writers(s) = {}
    BY <1>1, <2>1 DEF Token
  <2> QED
    BY <1>1, <1>3, <2>2, <2>3
<1> QED
  BY <1>2, <1>3

THEOREM CrashConserved == CrashSpec => []Conserved
<1>1. CrashInit => Conserved
  BY DEF CrashInit, Init, Conserved, Tokens, Token, Readers, Writers,
         ProxyReading, CacheWriting
<1>2. CrashTypeOK /\ Placed /\ Conserved /\ [CrashNext]_crashVars => Conserved'
  BY ConservedStep
<1> QED
  BY <1>1, <1>2, CrashTyping, PTL DEF CrashSpec

\* A stop of the cache at any moment loses the tokens its workers hold and
\* duplicates none, and nothing ever brings a lost one back.
THEOREM TokenNeverDuplicated == CrashSpec => []TokenOrLost
<1>1. CrashTypeOK /\ Conserved => TokenOrLost
  BY ConservedCounts DEF CrashTypeOK
<1> QED
  BY <1>1, CrashTyping, CrashConserved, PTL

-----------------------------------------------------------------------------
(* Ownership and stable packets do not depend on the life of the cache.    *)

LEMMA EventOwners ==
  ASSUME Event
  PROVE  UNCHANGED <<inUse, seg, ppc, pkt>>
BY DEF Event, Signal, Exit, Kill, Dies, BrokenPipe, LookupClosed, CacheUnchanged,
       shmVars, proxyVars

LEMMA CrashExclusiveStep ==
  ASSUME CrashTypeOK, Placed, SegmentExclusive, [CrashNext]_crashVars
  PROVE  SegmentExclusive'
<1>1. CASE [Next]_vars
  BY <1>1, ExclusiveStep DEF CrashTypeOK
<1>2. CASE Event
  BY <1>2, EventOwners, OwnersFrame DEF Owners
<1> QED
  BY <1>1, <1>2, TransferPart

\* Wherever the cache stops, two proxy workers never own the same segment.
THEOREM CrashExclusiveSegments == CrashSpec => []SegmentExclusive
<1>1. CrashInit => SegmentExclusive
  BY DEF CrashInit, Init, SegmentExclusive, ProxyOwning, ProxyReading
<1>2. CrashTypeOK /\ Placed /\ SegmentExclusive /\ [CrashNext]_crashVars
        => SegmentExclusive'
  BY CrashExclusiveStep
<1> QED
  BY <1>1, <1>2, CrashTyping, PTL DEF CrashSpec

\* And a packet does not change under the proxy worker that reads it, not even
\* by a worker of a cache that was started in between.
THEOREM CrashReadersUndisturbed == CrashSpec => PacketStable
<1> DEFINE Stable ==
      \A r \in Requests : ppc[r] \in ProxyReading /\ ppc'[r] \in ProxyReading
                              => pkt'[seg[r]] = pkt[seg[r]]
<1>1. CrashTypeOK /\ Placed /\ Conserved /\ SegmentExclusive
        /\ [CrashNext]_crashVars => [Stable]_vars
  <2> SUFFICES ASSUME CrashTypeOK, Placed, Conserved, SegmentExclusive,
                      [CrashNext]_crashVars,
                      NEW r \in Requests, ppc[r] \in ProxyReading
               PROVE  pkt'[seg[r]] = pkt[seg[r]]
    OBVIOUS
  <2>e. CASE Event
    BY <2>e, EventOwners
  <2> SUFFICES ASSUME [Next]_vars
               PROVE  pkt'[seg[r]] = pkt[seg[r]]
    BY <2>e, TransferPart
  <2>0. TypeOK
    BY DEF CrashTypeOK
  <2>1. r \in Readers(seg[r]) /\ seg[r] \in Segments
    BY <2>0, HasSegment DEF Readers, ProxyOwning
  <2>2. Writers(seg[r]) = {}
    <3>1. Token(seg[r])
      BY <2>1 DEF Conserved, Tokens
    <3> QED
      BY <2>1, <3>1 DEF Token
  <2> QED
    BY <2>0, <2>2, ReadsStable
<1> QED
  BY <1>1, CrashTyping, CrashConserved, CrashExclusiveSegments, PTL
  DEF CrashSpec, PacketStable

-----------------------------------------------------------------------------
(* Why a proxy worker sleeps.                                              *)

Attending == {"wait"} \cup ProxyReading
Unread == {"clearing", "connect", "write", "wait"}

\* A connection that the proxy has not closed is with the cache, or the cache
\* had it and will never answer, or the cache has served it to the end.
Connections ==
    /\ \A r \in Requests : ppc[r] = "write" /\ proxyUp => conn[r] = "open"
    /\ \A r \in Requests : ppc[r] \in Attending => conn[r] = "request"
    /\ \A r \in Requests :
          conn[r] = "open" => \/ cpc[r] \in {"none", "read"}
                             \/ (cpc[r] = "done" /\ r \in dropped)
    /\ \A r \in Requests :
          conn[r] \in {"open", "request"}
              => Connected(r) \/ r \in dropped \/ cpc[r] = "done"

\* The worker of the cache has served r to the end.
Served(r) ==
    conn[r] = "request" /\ cpc[r] \in {"unset", "cleanup", "done"} /\ r \notin dropped

\* A packet that is marked as the last one is not overwritten before the proxy
\* has read it, and a worker leaves its loop, while its request is being
\* attended, only when the last packet is there.
LastPacket ==
    /\ \A r \in Requests :
          ppc[r] \in Unread /\ pkt[seg[r]].streamDone
              => /\ empty[seg[r]] = 0
                 /\ \A q \in Requests :
                       seg[q] = seg[r] => cpc[q] \notin {"fill", "fillFail"}
    /\ \A r \in Requests :
          Served(r) /\ ppc[r] \in Attending
              => \/ pkt[seg[r]].streamDone
                 \/ (ppc[r] = "wait" /\ seg[r] \in lost)
    /\ \A r \in Requests :
          ppc[r] = "wait" /\ cpc[r] = "postFail" => pkt[seg[r]].streamDone

\* A step of a proxy worker that leaves the connections alone.
LEMMA ProxyMoveConnections ==
  ASSUME TypeOK, Connections, NEW r \in Requests, NEW place,
         ppc' = [ppc EXCEPT ![r] = place], place # "write",
         place \in Attending => ppc[r] \in Attending,
         UNCHANGED <<conn, backlog, workq, cpc, dropped, proxyUp>>
  PROVE  Connections'
<1>1. \A q \in Requests : /\ ppc'[q] = "write" => ppc[q] = "write"
                          /\ ppc'[q] \in Attending => ppc[q] \in Attending
  BY DEF TypeOK
<1>2. \A q \in Requests : Connected(q)' <=> Connected(q)
  BY DEF Connected, Elements, CacheActive
<1> QED
  BY <1>1, <1>2 DEF Connections

\* A step of a cache worker.
LEMMA CacheMoveConnections ==
  ASSUME TypeOK, Connections, NEW r \in Requests, NEW place,
         cpc' = [cpc EXCEPT ![r] = place], place # "none",
         r \in CacheActive, conn[r] # "open",
         dropped \subseteq dropped',
         backlog' = backlog \/ Elements(backlog) \subseteq dropped',
         UNCHANGED <<ppc, conn, workq, proxyUp>>
  PROVE  Connections'
<1>1. /\ \A q \in Requests : q # r => cpc'[q] = cpc[q]
      /\ cpc'[r] = place
  BY DEF TypeOK
<1>2. \A q \in Requests : Connected(q) => Connected(q)' \/ cpc'[q] = "done" \/ q \in dropped'
  BY <1>1 DEF Connected, Elements, CacheActive, CacheIdle
<1>3. cpc[r] # "done"
  BY DEF CacheActive, CacheIdle
<1> QED
  BY <1>1, <1>2, <1>3 DEF Connections

LEMMA QueueElements ==
  ASSUME NEW S, NEW q \in Seq(S), NEW e \in S
  PROVE  /\ Elements(Append(q, e)) = Elements(q) \cup {e}
         /\ q # <<>> => Elements(q) = {Head(q)} \cup Elements(Tail(q))
<1>1. Elements(Append(q, e)) = Elements(q) \cup {e}
  <2>1. /\ Append(q, e) \in Seq(S) /\ Len(Append(q, e)) = Len(q) + 1
        /\ \A i \in 1 .. Len(q) : Append(q, e)[i] = q[i]
        /\ Append(q, e)[Len(q) + 1] = e
    BY AppendProperties
  <2>2. DOMAIN Append(q, e) = 1 .. Len(q) + 1 /\ DOMAIN q = 1 .. Len(q) /\ Len(q) \in Nat
    BY <2>1
  <2> QED
    BY <2>1, <2>2 DEF Elements
<1>2. ASSUME q # <<>>
      PROVE  Elements(q) = {Head(q)} \cup Elements(Tail(q))
  <2>1. /\ Len(q) \in Nat \ {0} /\ Head(q) = q[1]
        /\ Tail(q) \in Seq(S) /\ Len(Tail(q)) = Len(q) - 1
        /\ \A i \in 1 .. Len(q) - 1 : Tail(q)[i] = q[i + 1]
    BY <1>2
  <2>2. DOMAIN Tail(q) = 1 .. Len(q) - 1 /\ DOMAIN q = 1 .. Len(q)
    BY <2>1
  <2>3. Elements(q) \subseteq {Head(q)} \cup Elements(Tail(q))
    <3> SUFFICES ASSUME NEW i \in 1 .. Len(q)
                 PROVE  q[i] \in {Head(q)} \cup Elements(Tail(q))
      BY <2>2 DEF Elements
    <3>1. CASE i = 1
      BY <2>1, <3>1
    <3>2. CASE i # 1
      <4>1. i - 1 \in 1 .. Len(q) - 1 /\ Tail(q)[i - 1] = q[i]
        BY <2>1, <3>2
      <4> QED
        BY <2>2, <4>1 DEF Elements
    <3> QED
      BY <3>1, <3>2
  <2>4. {Head(q)} \cup Elements(Tail(q)) \subseteq Elements(q)
    <3>1. Head(q) \in Elements(q)
      BY <2>1, <2>2 DEF Elements
    <3>2. ASSUME NEW i \in 1 .. Len(q) - 1
          PROVE  Tail(q)[i] \in Elements(q)
      <4>1. i + 1 \in 1 .. Len(q) /\ Tail(q)[i] = q[i + 1]
        BY <2>1, <3>2
      <4> QED
        BY <2>2, <4>1 DEF Elements
    <3> QED
      BY <2>2, <3>1, <3>2 DEF Elements
  <2> QED
    BY <2>3, <2>4
<1> QED
  BY <1>1, <1>2

LEMMA ConnectionsStep ==
  ASSUME CrashTypeOK, Placed, Connections, [CrashNext]_crashVars
  PROVE  Connections'
<1> USE DEF ToProxy, ToCache, CacheUnchanged, shmVars, cmdVars, proxyVars,
            cacheVars, processVars, historyVars
<1>0. TypeOK
  BY DEF CrashTypeOK
<1>a. backlog \in Seq(Requests) /\ workq \in Seq(Requests)
  BY <1>0 DEF TypeOK
\* The proxy.
<1>1. ASSUME NEW r \in Requests, ProxyRuns(r),
             \/ Start(r) \/ (\E s \in Segments : Acquire(r, s)) \/ Clear(r)
             \/ Cleaned(r) \/ WaitFull(r) \/ SendBody(r) \/ SendStalls(r) \/ Reply(r)
      PROVE  Connections'
  <2>1. PICK place :
           /\ ppc' = [ppc EXCEPT ![r] = place] /\ place # "write"
           /\ place \in Attending => ppc[r] \in Attending
    <3>1. CASE Start(r) \/ (\E s \in Segments : Acquire(r, s)) \/ Clear(r) \/ Cleaned(r)
      BY <3>1 DEF Start, Acquire, Clear, Cleaned, Attending, ProxyReading
    <3>2. CASE WaitFull(r)
      BY <3>2 DEF WaitFull, Attending, ProxyReading
    <3>3. CASE SendBody(r) \/ SendStalls(r)
      BY <3>3 DEF SendBody, SendStalls, Attending, ProxyReading
    <3>4. CASE Reply(r)
      <4>1. ppc' = [ppc EXCEPT ![r] = "done"] /\ "done" \notin Attending
        BY <3>4 DEF Reply, Attending, ProxyReading
      <4> QED
        BY <4>1
    <3> QED
      BY <1>1, <3>1, <3>2, <3>3, <3>4
  <2>2. UNCHANGED <<conn, backlog, workq, cpc, dropped, proxyUp>>
    BY <1>1 DEF Start, Acquire, Clear, Cleaned, WaitFull, SendBody, SendStalls, Reply,
                ProxyRuns
  <2> QED
    BY <1>0, <2>1, <2>2, ProxyMoveConnections
<1>2. ASSUME NEW r \in Requests, ProxyRuns(r), SendHeader(r) \/ PostEmpty(r)
      PROVE  Connections'
  <2>1. PICK place \in {"body", "post", "release", "wait"} :
           ppc' = [ppc EXCEPT ![r] = place]
    BY <1>2 DEF SendHeader, PostEmpty
  <2>2. ppc[r] \in Attending
    BY <1>2 DEF SendHeader, PostEmpty, Attending, ProxyReading
  <2>3. UNCHANGED <<conn, backlog, workq, cpc, dropped, proxyUp>>
    BY <1>2 DEF SendHeader, PostEmpty, ProxyRuns
  <2> QED
    BY <1>0, <2>1, <2>2, <2>3, ProxyMoveConnections
<1>3. ASSUME NEW r \in Requests, ProxyRuns(r), Connect(r)
      PROVE  Connections'
  <2>1. /\ ppc' = [ppc EXCEPT ![r] = "write"]
        /\ conn' = [conn EXCEPT ![r] = "open"]
        /\ backlog' = Append(backlog, r)
        /\ ppc[r] = "connect"
        /\ UNCHANGED <<workq, cpc, dropped, proxyUp>>
    BY <1>3 DEF Connect, ProxyRuns
  <2>2. \A q \in Requests :
           q # r => ppc'[q] = ppc[q] /\ conn'[q] = conn[q]
    BY <1>0, <2>1 DEF TypeOK
  <2>3. ppc'[r] = "write" /\ conn'[r] = "open" /\ cpc[r] = "none"
    BY <1>0, <2>1 DEF TypeOK, Placed
  <2>4. Elements(backlog') = Elements(backlog) \cup {r}
    BY <1>a, <2>1, QueueElements
  <2>5. \A q \in Requests : Connected(q)' <=> Connected(q) \/ q = r
    BY <2>1, <2>4 DEF Connected, Elements, CacheActive
  <2> QED
    BY <2>1, <2>2, <2>3, <2>5 DEF Connections, Attending, ProxyReading
<1>4. ASSUME NEW r \in Requests, ProxyRuns(r), Write(r)
      PROVE  Connections'
  <2>1. /\ ppc[r] = "write" /\ proxyUp /\ Connected(r)
        /\ UNCHANGED <<backlog, workq, cpc, dropped, proxyUp>>
    BY <1>4 DEF Write, ProxyRuns
  <2>2. PICK place \in {"wait", "release"} :
           /\ ppc' = [ppc EXCEPT ![r] = place]
           /\ conn' = IF place = "wait" THEN [conn EXCEPT ![r] = "request"] ELSE conn
    BY <1>4 DEF Write
  <2>3. /\ \A q \in Requests : q # r => ppc'[q] = ppc[q] /\ conn'[q] = conn[q]
        /\ ppc'[r] = place
        /\ place = "wait" => conn'[r] = "request"
        /\ place = "release" => conn'[r] = conn[r]
    BY <1>0, <2>2 DEF TypeOK
  <2>4. \A q \in Requests : Connected(q)' <=> Connected(q)
    BY <2>1 DEF Connected, Elements, CacheActive
  <2>5. "release" \notin Attending
    BY DEF Attending, ProxyReading
  <2> QED
    BY <2>1, <2>3, <2>4, <2>5 DEF Connections
<1>5. ASSUME NEW r \in Requests, ProxyRuns(r), Release(r)
      PROVE  Connections'
  <2>1. /\ conn' = [conn EXCEPT ![r] = IF @ = "open" THEN "eof" ELSE @]
        /\ UNCHANGED <<backlog, workq, cpc, dropped, proxyUp>>
    BY <1>5 DEF Release, ProxyRuns
  <2>2. PICK place \in {"reply", "done"} : ppc' = [ppc EXCEPT ![r] = place]
    BY <1>5 DEF Release
  <2>3. /\ \A q \in Requests : q # r => ppc'[q] = ppc[q] /\ conn'[q] = conn[q]
        /\ ppc'[r] = place
        /\ conn'[r] # "open" /\ (conn'[r] = "request" => conn[r] = "request")
    BY <1>0, <2>1, <2>2 DEF TypeOK
  <2>4. \A q \in Requests : Connected(q)' <=> Connected(q)
    BY <2>1 DEF Connected, Elements, CacheActive
  <2>5. place # "write" /\ place \notin Attending
    BY DEF Attending, ProxyReading
  <2> QED
    BY <2>1, <2>3, <2>4, <2>5 DEF Connections
\* The cache.
<1>6. ASSUME NEW r \in Requests, CacheRuns(r), Pop(r)
      PROVE  Connections'
  <2>1. /\ workq # <<>> /\ r = Head(workq) /\ workq' = Tail(workq)
        /\ cpc' = [cpc EXCEPT ![r] = "read"]
        /\ UNCHANGED <<ppc, conn, backlog, proxyUp>>
        /\ dropped \subseteq dropped'
    BY <1>6 DEF Pop, CacheRuns
  <2>2. /\ \A q \in Requests : q # r => cpc'[q] = cpc[q]
        /\ cpc'[r] = "read"
    BY <1>0, <2>1 DEF TypeOK
  <2>3. Elements(workq) = {r} \cup Elements(workq')
    BY <1>a, <2>1, QueueElements
  <2>4. \A q \in Requests : Connected(q) => Connected(q)'
    BY <2>1, <2>2, <2>3 DEF Connected, Elements, CacheActive, CacheIdle
  <2>5. Connected(r)'
    BY <2>2 DEF Connected, CacheActive, CacheIdle
  <2> QED
    BY <2>1, <2>2, <2>4, <2>5 DEF Connections
<1>7. ASSUME NEW r \in Requests, CacheRuns(r),
             \/ ReadEof(r) \/ SetupFails(r) \/ Lookup(r) \/ WaitEmpty(r)
             \/ Fill(r) \/ PreadFails(r) \/ Refuse(r) \/ PostFull(r)
             \/ Check(r) \/ Cleanup(r) \/ StrayCleanup(r)
      PROVE  Connections'
  <2>1. PICK place : cpc' = [cpc EXCEPT ![r] = place] /\ place # "none"
    BY <1>7 DEF ReadEof, SetupFails, Lookup, WaitEmpty, Fill, PreadFails, Refuse,
                PostFull, AfterPost, Check, Cleanup, StrayCleanup
  <2>2. \/ cpc[r] = "read" /\ conn[r] # "open"
        \/ cpc[r] \in CacheAttached
    BY <1>7 DEF ReadEof, SetupFails, Lookup, WaitEmpty, Fill, PreadFails, Refuse,
                PostFull, Check, Cleanup, StrayCleanup, CacheAttached, CacheWriting
  <2>3. r \in CacheActive /\ conn[r] # "open"
    BY <2>2 DEF Connections, CacheActive, CacheIdle, CacheAttached, CacheWriting
  <2>4. /\ UNCHANGED <<ppc, conn, workq, proxyUp>>
        /\ dropped \subseteq dropped'
        /\ backlog' = backlog \/ Elements(backlog) \subseteq dropped'
    BY <1>7 DEF ReadEof, SetupFails, Lookup, WaitEmpty, Fill, PreadFails, Refuse,
                PostFull, Check, Cleanup, StrayCleanup, CacheRuns
  <2> QED
    BY <1>0, <2>1, <2>3, <2>4, CacheMoveConnections
<1>8. ASSUME NEW r \in Requests, LookupClosed(r)
      PROVE  Connections'
  <2>1. PICK place \in {"read", "waitFail"} :
           /\ cpc[r] = "read" /\ cpc' = [cpc EXCEPT ![r] = place]
           /\ UNCHANGED <<ppc, conn, backlog, workq, proxyUp, dropped>>
    BY <1>0, <1>8, LookedUp
  <2>3. conn[r] # "open" /\ place # "none"
    BY <1>8 DEF LookupClosed
  <2>2. r \in CacheActive
    BY <2>1 DEF CacheActive, CacheIdle
  <2> QED
    BY <1>0, <2>1, <2>2, <2>3, CacheMoveConnections
\* The lives of the processes.
<1>9. CASE AcceptRuns
  <2>1. /\ backlog # <<>>
        /\ workq' = Append(workq, Head(backlog)) /\ backlog' = Tail(backlog)
        /\ UNCHANGED <<conn, ppc, cpc, dropped, proxyUp>>
    BY <1>9 DEF AcceptRuns, Accept
  <2>2. Head(backlog) \in Requests
    BY <1>a, <2>1
  <2>3. /\ Elements(workq') = Elements(workq) \cup {Head(backlog)}
        /\ Elements(backlog) = {Head(backlog)} \cup Elements(backlog')
    BY <1>a, <2>1, <2>2, QueueElements
  <2>4. \A q \in Requests : Connected(q)' <=> Connected(q)
    BY <2>1, <2>3 DEF Connected, Elements, CacheActive
  <2> QED
    BY <2>1, <2>4 DEF Connections
<1>10. CASE Signal
  <2>1. /\ dropped' = dropped \cup Elements(backlog)
        /\ UNCHANGED <<conn, ppc, cpc, workq, proxyUp>>
    BY <1>10 DEF Signal
  <2>2. \A q \in Requests : Connected(q) => Connected(q)' \/ q \in dropped'
    BY <2>1 DEF Connected, Elements, CacheActive
  <2> QED
    BY <2>1, <2>2 DEF Connections
<1>11. CASE Exit \/ Kill
  <2>1. /\ \A q \in Requests :
              cpc'[q] = IF q \in CacheActive THEN "done" ELSE cpc[q]
        /\ dropped' = dropped \cup {q \in Requests : Connected(q)}
        /\ UNCHANGED <<conn, ppc, proxyUp>>
    BY <1>0, <1>11, DiesPart, DiesTypes DEF Dies
  <2>2. \A q \in Requests : q \in CacheActive => q \in dropped'
    BY <2>1 DEF Connected
  <2> QED
    BY <2>1, <2>2 DEF Connections, CacheActive, CacheIdle
<1>12. ASSUME NEW r \in Requests, BrokenPipe(r)
       PROVE  Connections'
  <2>1. /\ ~proxyUp'
        /\ conn' = [q \in Requests |-> IF conn[q] = "open" THEN "eof" ELSE conn[q]]
        /\ UNCHANGED <<ppc, cpc, backlog, workq, dropped>>
    BY <1>12 DEF BrokenPipe
  <2>2. \A q \in Requests : /\ conn'[q] # "open"
                            /\ conn'[q] = "request" <=> conn[q] = "request"
    BY <2>1
  <2>3. \A q \in Requests : Connected(q)' <=> Connected(q)
    BY <2>1 DEF Connected, Elements, CacheActive
  <2> QED
    BY <2>1, <2>2, <2>3 DEF Connections
<1>13. CASE \/ StartCache \/ Destroy \/ Rest \/ UNCHANGED crashVars
            \/ Idle /\ UNCHANGED <<processVars, historyVars>>
  <2>1. UNCHANGED <<ppc, cpc, conn, backlog, workq, proxyUp, dropped>>
    BY <1>13 DEF StartCache, CacheStart, Destroy, Rest, crashVars, Idle, vars
  <2>2. \A q \in Requests : Connected(q)' <=> Connected(q)
    BY <2>1 DEF Connected, Elements, CacheActive
  <2> QED
    BY <2>1, <2>2 DEF Connections
<1>14. ASSUME NEW r \in Requests, ProxyRuns(r)
       PROVE  Connections'
  <2>1. ProxyStep(r)
    BY <1>14 DEF ProxyRuns
  <2> QED
    BY <1>1, <1>2, <1>3, <1>4, <1>5, <1>14, <2>1 DEF ProxyStep
<1>15. ASSUME NEW r \in Requests, CacheRuns(r)
       PROVE  Connections'
  <2>1. CacheStep(r)
    BY <1>15 DEF CacheRuns
  <2> QED
    BY <1>6, <1>7, <1>15, <2>1 DEF CacheStep
<1> QED
  BY <1>8, <1>9, <1>10, <1>11, <1>12, <1>13, <1>14, <1>15 DEF CrashNext

\* A step that brings nobody closer to the packet.
LEMMA LastPacketFrame ==
  ASSUME LastPacket,
         \A r \in Requests : /\ ppc'[r] \in Unread => ppc[r] \in Unread
                             /\ ppc'[r] = "wait" => ppc[r] = "wait"
                             /\ ppc'[r] \in ProxyReading => ppc[r] \in ProxyReading,
         \A q \in Requests :
            /\ cpc'[q] \in {"fill", "fillFail"} => cpc[q] \in {"fill", "fillFail"}
            /\ cpc'[q] = "postFail" => cpc[q] = "postFail"
            /\ Served(q)' => Served(q),
         lost \subseteq lost', UNCHANGED <<seg, pkt, empty>>
  PROVE  LastPacket'
<1>1. ASSUME NEW r \in Requests, ppc'[r] \in Unread, pkt'[seg'[r]].streamDone
      PROVE  /\ empty'[seg'[r]] = 0
             /\ \A q \in Requests :
                   seg'[q] = seg'[r] => cpc'[q] \notin {"fill", "fillFail"}
  BY <1>1 DEF LastPacket
<1>2. ASSUME NEW r \in Requests, Served(r)', ppc'[r] \in Attending
      PROVE  pkt'[seg'[r]].streamDone \/ (ppc'[r] = "wait" /\ seg'[r] \in lost')
  <2>1. Served(r) /\ ppc[r] \in Attending
    BY <1>2 DEF Attending
  <2>2. pkt[seg[r]].streamDone \/ (ppc[r] = "wait" /\ seg[r] \in lost)
    BY <2>1 DEF LastPacket
  <2>3. ppc'[r] # "wait" => ppc[r] # "wait"
    BY <1>2 DEF Attending, ProxyReading
  <2> QED
    BY <2>2, <2>3
<1>3. ASSUME NEW r \in Requests, ppc'[r] = "wait", cpc'[r] = "postFail"
      PROVE  pkt'[seg'[r]].streamDone
  BY <1>3 DEF LastPacket
<1> QED
  BY <1>1, <1>2, <1>3 DEF LastPacket

\* Two requests whose proxy workers own one segment are the same.
LEMMA SameOwner ==
  ASSUME TypeOK, Placed, SegmentExclusive, NEW q \in Requests, NEW r \in Requests,
         ppc[q] \in ProxyOwning, ppc[r] \in ProxyOwning, seg[q] = seg[r]
  PROVE  q = r
<1>1. seg[r] \in Segments
  BY HasSegment
<1> QED
  BY <1>1, OwnersUnique DEF Owners

\* While a request has the token of its segment in the cache, or in the proxy,
\* nobody else has.
LEMMA WriterAlone ==
  ASSUME TypeOK, Placed, Conserved, NEW q \in Requests, cpc[q] \in CacheWriting
  PROVE  /\ seg[q] \in Segments \ lost
         /\ empty[seg[q]] = 0 /\ full[seg[q]] = 0
         /\ \A r \in Requests : seg[r] = seg[q] =>
               /\ ppc[r] \notin ProxyReading
               /\ cpc[r] \in CacheWriting => r = q
<1>1. seg[q] \in Segments
  BY HasSegment DEF CacheWriting
<1>2. q \in Writers(seg[q])
  BY DEF Writers
<1>3. seg[q] \notin lost /\ Token(seg[q])
  BY <1>1, <1>2 DEF Conserved, Tokens
<1>4. empty[seg[q]] \in Nat /\ full[seg[q]] \in Nat
  BY <1>1 DEF TypeOK
<1>5. empty[seg[q]] + full[seg[q]] = 0 /\ Readers(seg[q]) = {}
  BY <1>2, <1>3 DEF Token
<1>6. \A r \in Writers(seg[q]) : r = q
  BY <1>2, <1>3 DEF Token
<1> QED
  BY <1>1, <1>3, <1>4, <1>5, <1>6 DEF Readers, Writers

LEMMA Places ==
  /\ Unread \subseteq ProxyOwning /\ Attending \subseteq ProxyOwning
  /\ ProxyReading \subseteq ProxyOwning
  /\ {"fill", "fillFail", "postData", "postFail"} = CacheWriting
BY DEF Unread, Attending, ProxyOwning, ProxyReading, CacheWriting

LEMMA ProxyLastPacket ==
  ASSUME CrashTypeOK, Placed, Conserved, SegmentExclusive, Connections, LastPacket,
         NEW r \in Requests, ProxyRuns(r)
  PROVE  LastPacket'
<1> USE DEF ToProxy, shmVars, cmdVars, cacheVars, historyVars
<1>0. TypeOK /\ ppc \in [Requests -> ProxyStates] /\ seg \in [Requests -> Segments \cup {0}]
  BY DEF CrashTypeOK, TypeOK
<1>a. lost' = lost /\ dropped' = dropped
  BY DEF ProxyRuns
<1>1. ASSUME NEW place, ppc' = [ppc EXCEPT ![r] = place],
             place \in Unread => ppc[r] \in Unread,
             place = "wait" => ppc[r] = "wait",
             place \in ProxyReading => ppc[r] \in ProxyReading,
             \A q \in Requests : conn'[q] = "request" => conn[q] = "request",
             UNCHANGED <<seg, pkt, empty, cpc>>
      PROVE  LastPacket'
  BY <1>0, <1>1, <1>a, LastPacketFrame DEF Served
<1>2. CASE \/ Start(r) \/ Cleaned(r) \/ SendHeader(r) \/ SendBody(r) \/ SendStalls(r)
           \/ Reply(r)
  <2>1. PICK place \in {"acquire", "connect", "body", "stalled", "post", "done"} :
           ppc' = [ppc EXCEPT ![r] = place]
    BY <1>2 DEF Start, Cleaned, SendHeader, SendBody, SendStalls, Reply
  <2>2. /\ place = "connect" => ppc[r] = "clearing"
        /\ place \in {"body", "stalled", "post"} => ppc[r] \in {"packet", "body"}
        /\ UNCHANGED <<seg, pkt, empty, cpc, conn>>
    BY <1>2, <1>0, <2>1 DEF Start, Cleaned, SendHeader, SendBody, SendStalls,
                             Reply
  <2> QED
    BY <1>1, <2>1, <2>2 DEF Unread, ProxyReading
<1>3. CASE Connect(r)
  <2>1. /\ ppc[r] = "connect" /\ ppc' = [ppc EXCEPT ![r] = "write"]
        /\ conn' = [conn EXCEPT ![r] = "open"]
        /\ UNCHANGED <<seg, pkt, empty, cpc>>
    BY <1>3 DEF Connect
  <2>2. \A q \in Requests : conn'[q] = "request" => conn[q] = "request"
    BY <1>0, <2>1 DEF TypeOK
  <2> QED
    BY <1>1, <2>1, <2>2 DEF Unread, ProxyReading
<1>4. CASE Release(r)
  <2>1. PICK place \in {"reply", "done"} : ppc' = [ppc EXCEPT ![r] = place]
    BY <1>4 DEF Release
  <2>2. /\ conn' = [conn EXCEPT ![r] = IF @ = "open" THEN "eof" ELSE @]
        /\ UNCHANGED <<seg, pkt, empty, cpc>>
    BY <1>4 DEF Release
  <2>3. \A q \in Requests : conn'[q] = "request" => conn[q] = "request"
    BY <1>0, <2>2 DEF TypeOK
  <2> QED
    BY <1>1, <2>1, <2>2, <2>3 DEF Unread, ProxyReading
<1>5. ASSUME NEW s \in Segments, Acquire(r, s)
      PROVE  LastPacket'
  <2>1. /\ ppc[r] = "acquire" /\ ppc' = [ppc EXCEPT ![r] = "clear"]
        /\ seg' = [seg EXCEPT ![r] = s]
        /\ cpc[r] = "none" /\ conn[r] = "none"
        /\ UNCHANGED <<pkt, empty, cpc, conn>>
    BY <1>5 DEF Acquire, Placed
  <2>2. /\ \A q \in Requests : q # r => seg'[q] = seg[q] /\ ppc'[q] = ppc[q]
        /\ ppc'[r] \notin Unread /\ ppc'[r] \notin Attending
        /\ ppc'[r] # "wait"
    BY <1>0, <2>1 DEF Unread, Attending, ProxyReading
  <2>3. \A q \in Requests : Served(q)' <=> Served(q)
    BY <1>a, <2>1 DEF Served
  <2> QED
    BY <1>a, <2>1, <2>2, <2>3 DEF LastPacket
<1>6. CASE Clear(r)
  <2>1. /\ ppc[r] = "clear" /\ ppc' = [ppc EXCEPT ![r] = "clearing"]
        /\ pkt' = [pkt EXCEPT ![seg[r]] = Cleared]
        /\ UNCHANGED <<seg, empty, cpc, conn>>
    BY <1>6 DEF Clear
  <2>2. seg[r] \in Segments /\ ppc[r] \in ProxyOwning
    BY <1>0, <2>1, HasSegment DEF ProxyOwning
  <2>3. /\ \A q \in Requests : q # r => ppc'[q] = ppc[q]
        /\ ppc'[r] = "clearing" /\ "clearing" \notin Attending
    BY <1>0, <2>1 DEF Attending, ProxyReading
  <2>4. pkt'[seg[r]].streamDone = FALSE
    BY <1>0, <2>1, <2>2 DEF TypeOK, Cleared
  <2>5. \A q \in Requests : q # r /\ ppc[q] \in Unread \cup Attending
                                => pkt'[seg[q]] = pkt[seg[q]]
    <3> SUFFICES ASSUME NEW q \in Requests, q # r, ppc[q] \in Unread \cup Attending
                 PROVE  pkt'[seg[q]] = pkt[seg[q]]
      OBVIOUS
    <3>1. ppc[q] \in ProxyOwning
      BY Places
    <3>2. seg[q] # seg[r] /\ seg[q] \in Segments
      BY <1>0, <2>2, <3>1, SameOwner, HasSegment
    <3> QED
      BY <1>0, <2>1, <3>2 DEF TypeOK
  <2>6. \A q \in Requests : Served(q)' <=> Served(q)
    BY <1>a, <2>1 DEF Served
  <2>7. "wait" \in Attending
    BY DEF Attending
  <2> QED
    BY <1>a, <2>1, <2>3, <2>4, <2>5, <2>6, <2>7 DEF LastPacket
<1>7. CASE Write(r)
  <2>1. PICK place \in {"wait", "release"} :
           /\ ppc' = [ppc EXCEPT ![r] = place]
           /\ conn' = IF place = "wait" THEN [conn EXCEPT ![r] = "request"] ELSE conn
    BY <1>7 DEF Write
  <2>2. ppc[r] = "write" /\ proxyUp /\ UNCHANGED <<seg, pkt, empty, cpc>>
    BY <1>7 DEF Write, ProxyRuns
  <2>3. /\ conn[r] = "open"
        /\ \/ cpc[r] \in {"none", "read"}
           \/ (cpc[r] = "done" /\ r \in dropped)
    BY <2>2 DEF Connections
  <2>4. \A q \in Requests : q # r => ppc'[q] = ppc[q] /\ conn'[q] = conn[q]
    BY <1>0, <2>1 DEF TypeOK
  <2>5. /\ ppc'[r] = place /\ ppc[r] \in Unread
        /\ "release" \notin Unread /\ "release" \notin Attending
    BY <1>0, <2>1, <2>2 DEF Unread, Attending, ProxyReading
  <2>6. ~Served(r)' /\ \A q \in Requests : q # r => (Served(q)' <=> Served(q))
    BY <1>a, <2>2, <2>3, <2>4 DEF Served
  <2> QED
    BY <1>a, <2>2, <2>3, <2>4, <2>5, <2>6 DEF LastPacket
<1>8. CASE WaitFull(r)
  <2>1. /\ ppc[r] = "wait" /\ ppc' = [ppc EXCEPT ![r] = "packet"]
        /\ full[seg[r]] > 0
        /\ UNCHANGED <<seg, pkt, empty, cpc, conn>>
    BY <1>8 DEF WaitFull, Take
  <2>2. seg[r] \in Segments
    BY <1>0, <2>1, HasSegment DEF ProxyOwning
  <2>3. seg[r] \notin lost
    BY <1>0, <2>1, <2>2 DEF Conserved, Tokens, TypeOK
  <2>4. /\ \A q \in Requests : q # r => ppc'[q] = ppc[q]
        /\ ppc'[r] = "packet" /\ ppc[r] \in Attending /\ "packet" \notin Unread
    BY <1>0, <2>1 DEF Unread, Attending
  <2>5. \A q \in Requests : Served(q)' <=> Served(q)
    BY <1>a, <2>1 DEF Served
  <2> QED
    BY <1>a, <2>1, <2>3, <2>4, <2>5 DEF LastPacket
<1>9. CASE PostEmpty(r)
  <2>1. PICK place \in {"release", "wait"} :
           /\ ppc' = [ppc EXCEPT ![r] = place]
           /\ place = "wait" => ~pkt[seg[r]].streamDone
    BY <1>9 DEF PostEmpty
  <2>2. /\ ppc[r] = "post" /\ empty' = [empty EXCEPT ![seg[r]] = @ + 1]
        /\ UNCHANGED <<seg, pkt, cpc, conn>>
    BY <1>9 DEF PostEmpty, Post
  <2>3. /\ \A q \in Requests : q # r => ppc'[q] = ppc[q]
        /\ ppc'[r] = place /\ ppc[r] \in ProxyReading
        /\ ppc[r] \in ProxyOwning /\ ppc[r] \in Attending
        /\ "release" \notin Unread /\ "release" \notin Attending
    BY <1>0, <2>1, <2>2 DEF Unread, Attending, ProxyReading, ProxyOwning
  <2>4. \A q \in Requests : q # r /\ ppc[q] \in Unread
                                => empty'[seg[q]] = empty[seg[q]]
    <3> SUFFICES ASSUME NEW q \in Requests, q # r, ppc[q] \in Unread
                 PROVE  empty'[seg[q]] = empty[seg[q]]
      OBVIOUS
    <3>1. ppc[q] \in ProxyOwning
      BY Places
    <3>2. seg[q] # seg[r] /\ seg[q] \in Segments
      BY <1>0, <2>3, <3>1, SameOwner, HasSegment
    <3> QED
      BY <1>0, <2>2, <3>2 DEF TypeOK
  <2>5. \A q \in Requests : Served(q)' <=> Served(q)
    BY <1>a, <2>2 DEF Served
  <2>6. cpc[r] # "postFail"
    BY <1>0, <2>3, WriterAlone DEF CacheWriting
  <2>7. Served(r) => pkt[seg[r]].streamDone
    BY <2>2, <2>3 DEF LastPacket
  <2> QED
    BY <1>a, <2>1, <2>2, <2>3, <2>4, <2>5, <2>6, <2>7 DEF LastPacket
<1> QED
  BY <1>2, <1>3, <1>4, <1>5, <1>6, <1>7, <1>8, <1>9 DEF ProxyRuns, ProxyStep

LEMMA CacheLastPacket ==
  ASSUME CrashTypeOK, Placed, Conserved, SegmentExclusive, Connections, LastPacket,
         NEW q \in Requests, CacheRuns(q)
  PROVE  LastPacket'
<1> USE DEF ToCache, CacheUnchanged, shmVars, cmdVars, proxyVars, historyVars,
            processVars
<1>0. TypeOK /\ cpc \in [Requests -> CacheStates]
  BY DEF CrashTypeOK, TypeOK
<1>a. /\ lost' = lost /\ UNCHANGED <<seg, ppc, conn>>
      /\ dropped \subseteq dropped' /\ (GivesUp(q) => q \in dropped')
  BY DEF CacheRuns, CacheStep, Pop, ReadEof, SetupFails, Lookup, WaitEmpty, Fill,
         PreadFails, Refuse, PostFull, Check, Cleanup, StrayCleanup
\* The steps that do not touch the packet or the token.
<1>1. ASSUME NEW place, cpc' = [cpc EXCEPT ![q] = place],
             place \notin {"fill", "fillFail", "postFail"},
             place \in {"unset", "cleanup", "done"}
                => \/ q \in dropped' \/ conn[q] # "request"
                   \/ cpc[q] \in {"unset", "cleanup"},
             UNCHANGED <<pkt, empty>>
      PROVE  LastPacket'
  <2>1. \A r \in Requests : Served(r)' => Served(r)
    BY <1>0, <1>1, <1>a DEF Served
  <2>2. \A r \in Requests :
           /\ cpc'[r] \in {"fill", "fillFail"} => cpc[r] \in {"fill", "fillFail"}
           /\ cpc'[r] = "postFail" => cpc[r] = "postFail"
    BY <1>0, <1>1
  <2> QED
    BY <1>1, <1>a, <2>1, <2>2, LastPacketFrame
<1>2. CASE Pop(q)
  BY <1>1, <1>2 DEF Pop
<1>3. CASE ReadEof(q)
  BY <1>1, <1>3 DEF ReadEof
<1>4. CASE SetupFails(q)
  <2>1. cpc' = [cpc EXCEPT ![q] = "unset"] /\ UNCHANGED <<pkt, empty>>
    BY <1>4 DEF SetupFails
  <2>2. q \in dropped'
    BY <1>0, <1>4, <1>a, <2>1 DEF SetupFails, GivesUp
  <2> QED
    BY <1>1, <2>1, <2>2
<1>5. CASE Lookup(q)
  <2>1. PICK place \in {"waitData", "waitFail"} : cpc' = [cpc EXCEPT ![q] = place]
    BY <1>5 DEF Lookup
  <2> QED
    BY <1>1, <1>5, <2>1 DEF Lookup
<1>6. CASE Cleanup(q) \/ StrayCleanup(q)
  BY <1>1, <1>6 DEF Cleanup, StrayCleanup
<1>7. CASE WaitEmpty(q)
  <2>1. PICK place \in {"fill", "fillFail"} : cpc' = [cpc EXCEPT ![q] = place]
    BY <1>7 DEF WaitEmpty
  <2>2. /\ cpc[q] \in {"waitData", "waitFail"}
        /\ empty[seg[q]] > 0 /\ empty' = [empty EXCEPT ![seg[q]] = @ - 1]
        /\ pkt' = pkt
    BY <1>7 DEF WaitEmpty, Take
  <2>3. seg[q] \in Segments /\ empty[seg[q]] # 0
    BY <1>0, <2>2, HasSegment DEF TypeOK
  <2>4. /\ \A r \in Requests : r # q => cpc'[r] = cpc[r]
        /\ cpc'[q] = place
    BY <1>0, <2>1
  <2>5. \A r \in Requests : Served(r)' => Served(r)
    BY <1>a, <2>1, <2>2, <2>4 DEF Served, GivesUp
  <2>6. ASSUME NEW r \in Requests, ppc[r] \in Unread, pkt[seg[r]].streamDone
        PROVE  /\ empty'[seg[r]] = 0
               /\ \A p \in Requests :
                     seg[p] = seg[r] => cpc'[p] \notin {"fill", "fillFail"}
    <3>1. /\ empty[seg[r]] = 0
          /\ \A p \in Requests :
                seg[p] = seg[r] => cpc[p] \notin {"fill", "fillFail"}
      BY <2>6 DEF LastPacket
    <3>2. seg[r] # seg[q]
      BY <2>3, <3>1
    <3>3. seg[r] \in Segments
      BY <1>0, <2>6, HasSegment, Places
    <3> QED
      BY <1>0, <2>2, <2>4, <3>1, <3>2, <3>3 DEF TypeOK
  <2>7. \A r \in Requests : cpc'[r] = "postFail" => cpc[r] = "postFail"
    BY <2>4
  <2> QED
    BY <1>a, <2>2, <2>5, <2>6, <2>7 DEF LastPacket
<1>8. CASE Fill(q) \/ PreadFails(q) \/ Refuse(q)
  <2>1. PICK place \in {"postData", "postFail"} : cpc' = [cpc EXCEPT ![q] = place]
    BY <1>8 DEF Fill, PreadFails, Refuse
  <2>2. cpc[q] \in {"fill", "fillFail"} /\ cpc[q] \in CacheWriting /\ UNCHANGED empty
    BY <1>8 DEF Fill, PreadFails, Refuse, CacheWriting
  <2>3. /\ seg[q] \in Segments \ lost /\ empty[seg[q]] = 0
        /\ \A r \in Requests : seg[r] = seg[q] =>
              /\ ppc[r] \notin ProxyReading
              /\ cpc[r] \in CacheWriting => r = q
    BY <1>0, <2>2, WriterAlone
  <2>4. \E p \in Packet : pkt' = [pkt EXCEPT ![seg[q]] = p]
    BY <1>0, <1>8, <2>3, PacketType, StoreType DEF Fill, PreadFails, Refuse
  <2>5. \A s \in Segments : s # seg[q] => pkt'[s] = pkt[s]
    BY <1>0, <2>4 DEF TypeOK
  <2>6. /\ \A r \in Requests : r # q => cpc'[r] = cpc[r]
        /\ cpc'[q] = place
    BY <1>0, <2>1
  <2>7. \A r \in Requests : Served(r)' => Served(r)
    BY <1>a, <2>2, <2>6 DEF Served, GivesUp
  <2>8. ASSUME NEW r \in Requests, ppc[r] \in Unread, pkt'[seg[r]].streamDone
        PROVE  /\ empty[seg[r]] = 0
               /\ \A p \in Requests :
                     seg[p] = seg[r] => cpc'[p] \notin {"fill", "fillFail"}
    <3>1. CASE seg[r] = seg[q]
      BY <2>3, <2>6, <3>1 DEF CacheWriting
    <3>2. CASE seg[r] # seg[q]
      <4>1. seg[r] \in Segments
        BY <1>0, <2>8, HasSegment, Places
      <4>2. pkt[seg[r]].streamDone
        BY <2>5, <2>8, <3>2, <4>1
      <4> QED
        BY <2>6, <2>8, <3>2, <4>2 DEF LastPacket
    <3> QED
      BY <3>1, <3>2
  <2>9. ASSUME NEW r \in Requests, Served(r), ppc[r] \in Attending
        PROVE  pkt'[seg[r]].streamDone \/ (ppc[r] = "wait" /\ seg[r] \in lost)
    <3>1. pkt[seg[r]].streamDone \/ (ppc[r] = "wait" /\ seg[r] \in lost)
      BY <2>9 DEF LastPacket
    <3>2. seg[r] \in Segments
      BY <1>0, <2>9, HasSegment, Places
    <3>3. CASE seg[r] # seg[q]
      BY <2>5, <3>1, <3>2, <3>3
    <3>4. CASE seg[r] = seg[q]
      <4>1. ppc[r] = "wait"
        BY <2>3, <2>9, <3>4 DEF Attending
      <4>2. ~pkt[seg[r]].streamDone
        BY <2>2, <3>4, <4>1 DEF LastPacket, Unread
      <4> QED
        BY <2>3, <3>1, <3>4, <4>2
    <3> QED
      BY <3>3, <3>4
  <2>10. ASSUME NEW r \in Requests, ppc[r] = "wait", cpc'[r] = "postFail"
         PROVE  pkt'[seg[r]].streamDone
    <3>1. CASE r # q
      <4>1. cpc[r] = "postFail" /\ pkt[seg[r]].streamDone
        BY <2>6, <2>10, <3>1 DEF LastPacket
      <4>2. seg[r] \in Segments /\ seg[r] # seg[q]
        BY <1>0, <2>3, <3>1, <4>1, HasSegment DEF CacheWriting
      <4> QED
        BY <2>5, <4>1, <4>2
    <3>2. CASE r = q
      <4>1. ~BeingCleared(seg[q])
        BY <1>0, <2>10, <3>2, SameOwner DEF BeingCleared, ProxyOwning
      <4>2. PreadFails(q) \/ Refuse(q)
        BY <1>0, <1>8, <2>10, <3>2 DEF Fill
      <4>3. PICK n \in Nat : pkt' = [pkt EXCEPT ![seg[q]] = RefusalPacket(n)]
        BY <4>1, <4>2, CacheChannelAssumption DEF PreadFails, Refuse, Store
      <4>4. pkt'[seg[q]] = RefusalPacket(n)
        BY <1>0, <2>3, <4>3 DEF TypeOK
      <4> QED
        BY <3>2, <4>4 DEF RefusalPacket
    <3> QED
      BY <3>1, <3>2
  <2> QED
    BY <1>a, <2>2, <2>7, <2>8, <2>9, <2>10 DEF LastPacket
<1>9. CASE PostFull(q)
  <2>1. PICK place \in {"check", "unset", "cleanup"} :
           /\ cpc' = [cpc EXCEPT ![q] = place]
           /\ place \in {"unset", "cleanup"} => cpc[q] = "postFail"
    BY <1>0, <1>9 DEF PostFull, AfterPost
  <2>2. cpc[q] \in CacheWriting /\ UNCHANGED <<pkt, empty>>
    BY <1>9 DEF PostFull, CacheWriting
  <2>3. /\ \A r \in Requests : r # q => cpc'[r] = cpc[r]
        /\ cpc'[q] = place
    BY <1>0, <2>1
  <2>4. ppc[q] \notin ProxyReading
    BY <1>0, <2>2, WriterAlone
  <2>5. \A r \in Requests : r # q => (Served(r)' => Served(r))
    BY <1>a, <2>3 DEF Served, GivesUp
  <2>6. Served(q)' /\ ppc[q] \in Attending => pkt[seg[q]].streamDone
    BY <2>1, <2>3, <2>4 DEF Served, Attending, LastPacket
  <2> QED
    BY <1>a, <2>2, <2>3, <2>5, <2>6 DEF LastPacket
<1>10. CASE Check(q)
  <2>1. PICK place \in {"cleanup", "waitData"} :
           /\ cpc' = [cpc EXCEPT ![q] = place]
           /\ place = "cleanup" => pkt[seg[q]].streamDone \/ BeingCleared(seg[q])
    BY <1>10 DEF Check
  <2>2. cpc[q] = "check" /\ UNCHANGED <<pkt, empty>>
    BY <1>10 DEF Check
  <2>3. /\ \A r \in Requests : r # q => cpc'[r] = cpc[r]
        /\ cpc'[q] = place
    BY <1>0, <2>1
  <2>4. \A r \in Requests : r # q => (Served(r)' => Served(r))
    BY <1>a, <2>3 DEF Served, GivesUp
  <2>5. ASSUME ppc[q] \in Attending
        PROVE  ~BeingCleared(seg[q])
    <3>1. ppc[q] \in ProxyOwning /\ ppc[q] # "clearing"
      BY <2>5, Places DEF Attending, ProxyReading
    <3> QED
      BY <1>0, <3>1, SameOwner DEF BeingCleared, ProxyOwning
  <2>6. Served(q)' /\ ppc[q] \in Attending => pkt[seg[q]].streamDone
    BY <2>1, <2>3, <2>5 DEF Served
  <2> QED
    BY <1>a, <2>2, <2>3, <2>4, <2>6 DEF LastPacket
<1> QED
  BY <1>2, <1>3, <1>4, <1>5, <1>6, <1>7, <1>8, <1>9, <1>10 DEF CacheRuns, CacheStep

LEMMA LastPacketStep ==
  ASSUME CrashTypeOK, Placed, Conserved, SegmentExclusive, Connections, LastPacket,
         [CrashNext]_crashVars
  PROVE  LastPacket'
<1> USE DEF ToCache, CacheUnchanged, shmVars, cmdVars, proxyVars, cacheVars,
            historyVars, processVars
<1>0. TypeOK
  BY DEF CrashTypeOK
<1>1. ASSUME UNCHANGED <<ppc, seg, pkt, empty>>, lost \subseteq lost',
             \A q \in Requests :
                /\ cpc'[q] \in {"fill", "fillFail"} => cpc[q] \in {"fill", "fillFail"}
                /\ cpc'[q] = "postFail" => cpc[q] = "postFail"
                /\ Served(q)' => Served(q)
      PROVE  LastPacket'
  BY <1>1, LastPacketFrame
<1>2. CASE Signal
  <2>1. UNCHANGED <<ppc, seg, pkt, empty, cpc, conn, lost>> /\ dropped \subseteq dropped'
    BY <1>2 DEF Signal
  <2> QED
    BY <1>1, <2>1 DEF Served
<1>3. CASE Exit \/ Kill
  <2>1. /\ \A q \in Requests :
              cpc'[q] = IF q \in CacheActive THEN "done" ELSE cpc[q]
        /\ dropped' = dropped \cup {q \in Requests : Connected(q)}
        /\ lost \subseteq lost'
        /\ UNCHANGED <<ppc, seg, pkt, empty, conn>>
    BY <1>0, <1>3, DiesPart, DiesTypes DEF Dies
  <2>2. \A q \in Requests : q \in CacheActive => q \in dropped'
    BY <2>1 DEF Connected
  <2> QED
    BY <1>1, <2>1, <2>2 DEF Served
<1>4. ASSUME NEW r \in Requests, BrokenPipe(r)
      PROVE  LastPacket'
  <2>1. /\ conn' = [q \in Requests |-> IF conn[q] = "open" THEN "eof" ELSE conn[q]]
        /\ UNCHANGED <<ppc, seg, pkt, empty, cpc, lost, dropped>>
    BY <1>4 DEF BrokenPipe
  <2>2. \A q \in Requests : conn'[q] = "request" => conn[q] = "request"
    BY <2>1
  <2> QED
    BY <1>1, <2>1, <2>2 DEF Served
<1>5. ASSUME NEW r \in Requests, LookupClosed(r)
      PROVE  LastPacket'
  <2>1. PICK place \in {"read", "waitFail"} :
           /\ cpc[r] = "read" /\ cpc' = [cpc EXCEPT ![r] = place]
           /\ UNCHANGED <<ppc, seg, pkt, empty, conn, lost, dropped>>
    BY <1>0, <1>5, LookedUp
  <2>2. \A q \in Requests : cpc'[q] = IF q = r THEN place ELSE cpc[q]
    BY <1>0, <2>1 DEF TypeOK
  <2> QED
    BY <1>1, <2>1, <2>2 DEF Served
<1>6. CASE \/ StartCache \/ AcceptRuns \/ Destroy \/ Rest \/ UNCHANGED crashVars
           \/ Idle /\ UNCHANGED <<processVars, historyVars>>
  <2>1. UNCHANGED <<ppc, seg, pkt, empty, cpc, conn, lost, dropped>>
    BY <1>6 DEF StartCache, CacheStart, AcceptRuns, Accept, Destroy, Rest,
                crashVars, Idle, vars
  <2> QED
    BY <1>1, <2>1 DEF Served
<1>7. ASSUME NEW r \in Requests, ProxyRuns(r) \/ CacheRuns(r)
      PROVE  LastPacket'
  BY <1>7, ProxyLastPacket, CacheLastPacket
<1> QED
  BY <1>2, <1>3, <1>4, <1>5, <1>6, <1>7 DEF CrashNext

\* A worker that sleeps although its segment has no packet for it, and nobody
\* is going to fill one, was with the cache when it stopped, or its token was.
LEMMA Explained ==
  ASSUME CrashTypeOK, Placed, Conserved, SegmentExclusive, Connections, LastPacket
  PROVE  SleeperExplained
<1> SUFFICES ASSUME NEW r \in Requests, ppc[r] = "wait",
                    full[seg[r]] = 0, ~(conn[r] = "request" /\ Connected(r)),
                    r \notin dropped, seg[r] \notin lost
             PROVE  \E q \in Requests : seg[q] = seg[r] /\ cpc[q] \in CacheWriting
  <2>1. ASSUME NEW r \in Requests, ppc[r] = "wait"
        PROVE  full[seg[r]] \in Nat
    BY <2>1, HasSegment DEF CrashTypeOK, TypeOK, ProxyOwning
  <2> QED
    BY <2>1 DEF SleeperExplained, Stranded
<1>0. TypeOK /\ seg[r] \in Segments
  BY HasSegment DEF CrashTypeOK, ProxyOwning
<1>1. ppc[r] \in Attending /\ ppc[r] \in Unread /\ ppc[r] \in ProxyOwning
  BY DEF Attending, Unread, ProxyOwning
<1>2. conn[r] = "request" /\ cpc[r] = "done"
  BY <1>1 DEF Connections
<1>3. pkt[seg[r]].streamDone
  BY <1>1, <1>2 DEF LastPacket, Served
<1>4. empty[seg[r]] = 0
  BY <1>1, <1>3 DEF LastPacket
<1>5. Token(seg[r])
  BY <1>0 DEF Conserved, Tokens
<1>6. Readers(seg[r]) \cup Writers(seg[r]) # {}
  BY <1>4, <1>5 DEF Token
<1>7. Readers(seg[r]) = {}
  <2> SUFFICES ASSUME NEW q \in Readers(seg[r])
               PROVE  FALSE
    OBVIOUS
  <2>1. q \in Requests /\ seg[q] = seg[r] /\ ppc[q] \in ProxyReading
    BY DEF Readers
  <2>2. q = r
    BY <1>0, <1>1, <2>1, SameOwner, Places
  <2> QED
    BY <2>1, <2>2 DEF ProxyReading
<1> QED
  BY <1>6, <1>7 DEF Writers

\* The conjunction that the steps preserve.
Sleepers == SegmentExclusive /\ Connections /\ LastPacket

\* A proxy worker asleep on sem_full is woken, or the cache stopped while it
\* had the request or the token.
THEOREM SleepersExplained == CrashSpec => []SleeperExplained
<1>1. CrashInit => Sleepers
  BY DEF CrashInit, Init, Sleepers, SegmentExclusive, Connections, LastPacket,
         Served, Attending, Unread, ProxyOwning, ProxyReading
<1>2. CrashTypeOK /\ Placed /\ Conserved /\ Sleepers /\ [CrashNext]_crashVars
        => Sleepers'
  BY CrashExclusiveStep, ConnectionsStep, LastPacketStep DEF Sleepers
<1>3. CrashTypeOK /\ Placed /\ Conserved /\ Sleepers => SleeperExplained
  BY Explained DEF Sleepers
<1> QED
  BY <1>1, <1>2, <1>3, CrashTyping, CrashConserved, PTL DEF CrashSpec

-----------------------------------------------------------------------------
(* What the client gets through a segment that nobody used before.         *)

\* What allows the cache to refuse r, and where in the service of r it is.
Refusable(r) == Wants[r] \notin Cached \/ r \in broken

Service ==
    \A r \in Requests :
        /\ cpc[r] \in {"waitData", "fill", "postData", "check"} => Wants[r] \in Cached
        /\ cpc[r] \in {"waitFail", "fillFail"} => Refusable(r)
        /\ cpc[r] = "none" => offset[r] = 0
        /\ offset[r] <= Size[Wants[r]]
        /\ ppc[r] \in {"idle", "acquire"} => header[r] = "none" /\ body[r] = <<>>
        /\ ppc[r] \notin {"post", "release", "reply", "done"} => result[r] = "none"
        /\ ppc[r] = "body" => header[r] # "none"
        /\ ppc[r] = "reply" => result[r] = "notfound"

\* The semaphore of a segment that no request has used is as it was created.
Unused ==
    \A s \in Segments : (\A r \in Requests : seg[r] # s) => full[s] = 0

\* The segment of r holds a packet that has not been sent to the client.
Fresh(r) ==
    \/ full[seg[r]] > 0
    \/ ppc[r] \in {"packet", "body", "stalled"}
    \/ cpc[r] \in {"postData", "postFail"}

\* It is the next piece of the file, or a refusal.
NextPiece(r) ==
    LET p == pkt[seg[r]]
    IN  /\ p.status = OK /\ Wants[r] \in Cached /\ p.fileSize = Size[Wants[r]]
        /\ p.validBytes = offset[r] - Len(body[r]) /\ Len(p.data) = p.validBytes
        /\ \A i \in 1 .. p.validBytes : p.data[i] = Byte(Wants[r], Len(body[r]) + i)
        /\ p.streamDone <=> offset[r] = Size[Wants[r]]

Refusal(r) ==
    LET p == pkt[seg[r]]
    IN  /\ p.status = NOTFOUND /\ p.validBytes = 0 /\ p.streamDone
        /\ Refusable(r) /\ offset[r] = Len(body[r])
        /\ header[r] # "none" => r \in broken

\* What the client of r has so far.
Delivered(r) ==
    /\ header[r] = "OK" => Wants[r] \in Cached /\ length[r] = Size[Wants[r]]
    /\ Len(body[r]) <= offset[r]
    /\ \A i \in 1 .. Len(body[r]) : body[r][i] = Byte(Wants[r], i)
    /\ result[r] = "notfound" => Refusable(r)
    /\ result[r] = "total" => Len(body[r]) = Size[Wants[r]] \/ r \in broken

\* Nothing has come from the cache yet.
Early(r) ==
    /\ full[seg[r]] = 0 /\ ppc[r] \notin ProxyReading
    /\ header[r] = "none" /\ result[r] \in {"none", "failure"}

\* The transfer is under way: what has been read of the file has been sent, but
\* for the packet in the segment.
UnderWay(r) ==
    /\ Fresh(r) => NextPiece(r) \/ Refusal(r)
    /\ ~Fresh(r) /\ seg[r] \notin lost => offset[r] = Len(body[r])
    /\ ppc[r] = "post" /\ pkt[seg[r]].streamDone
          => Len(body[r]) = Size[Wants[r]] \/ r \in broken

FirstTransfer(r) ==
    /\ Delivered(r)
    /\ cpc[r] \in {"none", "read", "waitFail", "fillFail"} => Early(r)
    /\ result[r] = "none" => UnderWay(r)

FirstTransfers == \A r \in Requests : FirstUse(r) => FirstTransfer(r)

\* What the next packet takes of the file.
LEMMA ChunkBounds ==
  ASSUME TypeOK, NEW r \in Requests, offset[r] <= Size[Wants[r]]
  PROVE  LET n == Len(Chunk(r))
         IN  /\ n \in Nat /\ offset[r] + n <= Size[Wants[r]]
             /\ n = 0 => offset[r] = Size[Wants[r]]
             /\ \A i \in 1 .. n : Chunk(r)[i] = Byte(Wants[r], offset[r] + i)
<1>1. Size[Wants[r]] \in Nat /\ offset[r] \in Nat /\ DataCap \in Nat \ {0}
  BY CacheChannelAssumption DEF TypeOK
<1> DEFINE n == Least(DataCap, Remaining(r))
<1>2. /\ n \in Nat /\ offset[r] + n <= Size[Wants[r]]
      /\ n = 0 => offset[r] = Size[Wants[r]]
  BY <1>1 DEF Least, Remaining
<1> HIDE DEF n
<1>3. Chunk(r) = [i \in 1 .. n |-> Byte(Wants[r], offset[r] + i)]
  BY DEF Chunk, n
<1>4. Len(Chunk(r)) = n
  BY <1>2, <1>3
<1> QED
  BY <1>2, <1>3, <1>4

LEMMA ServiceStep ==
  ASSUME CrashTypeOK, Placed, Connections, Service, [CrashNext]_crashVars
  PROVE  Service'
<1> USE DEF ToProxy, ToCache, CacheUnchanged, shmVars, cmdVars, proxyVars,
            cacheVars, historyVars, processVars
<1>0. TypeOK
  BY DEF CrashTypeOK
<1>00. /\ ppc \in [Requests -> ProxyStates] /\ cpc \in [Requests -> CacheStates]
       /\ offset \in [Requests -> Nat]
       /\ header \in [Requests -> {"none", "OK", "FILE_NOT_FOUND"}]
       /\ result \in [Requests -> {"none", "total", "notfound", "failure"}]
       /\ body \in [Requests -> Data]
  BY <1>0 DEF TypeOK
<1>1. ASSUME NEW r \in Requests, ProxyRuns(r)
      PROVE  Service'
  <2>1. UNCHANGED <<broken, cpc, offset>>
    BY <1>1 DEF ProxyRuns, ProxyStep, Start, Acquire, Clear, Cleaned, Connect,
                Write, WaitFull, SendHeader, SendBody, SendStalls, PostEmpty, Release,
                Reply
  <2>2. \A q \in Requests : q # r =>
           /\ ppc'[q] = ppc[q] /\ header'[q] = header[q]
           /\ body'[q] = body[q] /\ result'[q] = result[q]
    BY <1>00, <1>1 DEF ProxyRuns, ProxyStep, Start, Acquire, Clear, Cleaned,
                Connect, Write, WaitFull, SendHeader, SendBody, SendStalls, PostEmpty,
                Release, Reply
  <2>3. /\ ppc'[r] \in {"idle", "acquire"} => header'[r] = "none" /\ body'[r] = <<>>
        /\ ppc'[r] \notin {"post", "release", "reply", "done"} => result'[r] = "none"
        /\ ppc'[r] = "body" => header'[r] # "none"
        /\ ppc'[r] = "reply" => result'[r] = "notfound"
    <3>1. CASE Start(r)
      BY <1>00, <3>1 DEF Start, Service
    <3>2. CASE SendHeader(r)
      BY <1>00, <3>2 DEF SendHeader, Service
    <3>3. CASE PostEmpty(r)
      BY <1>00, <3>3 DEF PostEmpty
    <3>4. CASE Release(r)
      BY <1>00, <3>4 DEF Release
    <3>5. CASE \/ Clear(r) \/ Cleaned(r) \/ Connect(r) \/ Write(r) \/ WaitFull(r)
               \/ SendBody(r) \/ SendStalls(r) \/ Reply(r) \/ \E s \in Segments : Acquire(r, s)
      BY <1>00, <3>5 DEF Clear, Cleaned, Connect, Write, WaitFull, SendBody,
                  SendStalls, Reply, Acquire, Service
    <3> QED
      BY <1>1, <3>1, <3>2, <3>3, <3>4, <3>5 DEF ProxyRuns, ProxyStep
  <2> QED
    BY <2>1, <2>2, <2>3 DEF Service, Refusable
<1>2. ASSUME NEW r \in Requests, CacheRuns(r) \/ LookupClosed(r)
      PROVE  Service'
  <2>1. UNCHANGED <<ppc, header, body, result>> /\ broken \subseteq broken'
    BY <1>2 DEF CacheRuns, LookupClosed, CacheStep, Pop, ReadEof, SetupFails,
                Lookup, WaitEmpty, Fill, PreadFails, Refuse, PostFull, Check, Cleanup,
                StrayCleanup
  <2>2. \A q \in Requests : q # r => cpc'[q] = cpc[q] /\ offset'[q] = offset[q]
    BY <1>00, <1>2 DEF CacheRuns, LookupClosed, CacheStep, Pop, ReadEof, SetupFails,
                Lookup, WaitEmpty, Fill, PreadFails, Refuse, PostFull, Check, Cleanup,
                StrayCleanup
  <2>3. /\ cpc'[r] \in {"waitData", "fill", "postData", "check"} => Wants[r] \in Cached
        /\ cpc'[r] \in {"waitFail", "fillFail"} => Refusable(r)'
        /\ cpc'[r] # "none"
    <3>1. CASE Lookup(r) /\ CacheRuns(r)
      <4>1. cpc[r] = "read" /\ cpc'[r] \in {"waitData", "waitFail"}
            /\ (cpc'[r] = "waitData" => Wants[r] \in Cached)
        BY <1>00, <3>1 DEF Lookup
      <4> QED
        BY <3>1, <4>1 DEF CacheRuns, ReadFails, Refusable
    <3>2. CASE LookupClosed(r)
      <4>1. PICK place \in {"read", "waitFail"} :
               /\ cpc' = [cpc EXCEPT ![r] = place]
               /\ place = "waitFail" => r \in broken'
        BY <1>0, <3>2, LookedUp
      <4> QED
        BY <1>00, <4>1 DEF Refusable
    <3>3. CASE \/ WaitEmpty(r) \/ Fill(r) \/ PreadFails(r) \/ Refuse(r)
               \/ PostFull(r) \/ Check(r)
      BY <1>00, <2>1, <3>3 DEF WaitEmpty, Fill, PreadFails, Refuse, PostFull, AfterPost,
                  Check, Service, Refusable
    <3>4. CASE Pop(r) \/ ReadEof(r) \/ SetupFails(r) \/ Cleanup(r) \/ StrayCleanup(r)
      BY <1>00, <3>4 DEF Pop, ReadEof, SetupFails, Cleanup, StrayCleanup
    <3> QED
      BY <1>2, <3>1, <3>2, <3>3, <3>4 DEF CacheRuns, CacheStep
  <2>4. offset'[r] <= Size[Wants[r]]
    <3>1. offset[r] <= Size[Wants[r]]
      BY DEF Service
    <3>2. CASE Fill(r)
      <4>1. offset'[r] = offset[r] + Len(Chunk(r))
        BY <1>00, <3>2 DEF Fill
      <4> QED
        BY <1>0, <3>1, <4>1, ChunkBounds
    <3>3. CASE UNCHANGED offset
      BY <3>1, <3>3
    <3> QED
      BY <1>2, <3>2, <3>3 DEF CacheRuns, LookupClosed, CacheStep, Pop, ReadEof,
         SetupFails, Lookup, WaitEmpty, PreadFails, Refuse, PostFull, Check, Cleanup,
         StrayCleanup
  <2> QED
    BY <2>1, <2>2, <2>3, <2>4 DEF Service, Refusable
<1>3. CASE Signal \/ Destroy
  <2>1. UNCHANGED <<cpc, offset, ppc, header, body, result, broken>>
    BY <1>3 DEF Signal, Destroy, vars
  <2> QED
    BY <2>1 DEF Service, Refusable
<1>4. CASE Exit \/ Kill
  <2>1. UNCHANGED <<offset, ppc, header, body, result, broken>>
    BY <1>4 DEF Exit, Kill, Dies
  <2>2. \A q \in Requests : cpc'[q] = IF q \in CacheActive THEN "done" ELSE cpc[q]
    BY <1>0, <1>4, DiesPart, DiesTypes
  <2> QED
    BY <2>1, <2>2 DEF Service, Refusable
<1>5. CASE \/ StartCache \/ AcceptRuns \/ (\E r \in Requests : BrokenPipe(r))
           \/ Rest \/ UNCHANGED crashVars
           \/ Idle /\ UNCHANGED <<processVars, historyVars>>
  <2>1. UNCHANGED <<cpc, offset, ppc, header, body, result, broken>>
    BY <1>5 DEF StartCache, CacheStart, AcceptRuns, Accept, BrokenPipe, Rest,
                crashVars, vars, Idle
  <2> QED
    BY <2>1 DEF Service, Refusable
<1> QED
  BY <1>1, <1>2, <1>3, <1>4, <1>5 DEF CrashNext

LEMMA UnusedStep ==
  ASSUME CrashTypeOK, Placed, Unused, [CrashNext]_crashVars
  PROVE  Unused'
<1> USE DEF ToProxy, ToCache, CacheUnchanged, shmVars, cmdVars, proxyVars, cacheVars
<1>0. TypeOK
  BY DEF CrashTypeOK
<1>1. ASSUME UNCHANGED <<full, seg>>
      PROVE  Unused'
  BY <1>1 DEF Unused
<1>2. CASE Event
  BY <1>1, <1>2 DEF Event, Signal, Exit, Kill, Dies, BrokenPipe, LookupClosed
<1>3. ASSUME NEW r \in Requests, NEW s \in Segments, Acquire(r, s)
      PROVE  Unused'
  <2>1. /\ seg' = [seg EXCEPT ![r] = s] /\ seg[r] = 0 /\ UNCHANGED full
    BY <1>3 DEF Acquire, Placed
  <2>2. \A q \in Requests : seg[q] = seg'[q] \/ seg[q] = 0
    BY <1>0, <2>1 DEF TypeOK
  <2> QED
    BY <2>1, <2>2 DEF Unused, Segments
<1>4. ASSUME NEW r \in Requests, WaitFull(r) \/ PostFull(r)
      PROVE  Unused'
  <2>1. UNCHANGED seg /\ \A s \in Segments : s # seg[r] => full'[s] = full[s]
    BY <1>0, <1>4 DEF WaitFull, PostFull, Take, Post, TypeOK
  <2> QED
    BY <1>4, <2>1 DEF Unused
<1>5. ASSUME NEW r \in Requests,
             \/ Start(r) \/ Clear(r) \/ Cleaned(r) \/ Connect(r) \/ Write(r)
             \/ SendHeader(r) \/ SendBody(r) \/ SendStalls(r) \/ PostEmpty(r)
             \/ Release(r) \/ Reply(r)
             \/ Pop(r) \/ ReadEof(r) \/ SetupFails(r) \/ Lookup(r) \/ WaitEmpty(r)
             \/ Fill(r) \/ PreadFails(r) \/ Refuse(r) \/ Check(r) \/ Cleanup(r)
             \/ StrayCleanup(r)
      PROVE  UNCHANGED <<full, seg>>
  BY <1>5 DEF Start, Clear, Cleaned, Connect, Write, SendHeader, SendBody,
     SendStalls, PostEmpty, Release, Reply, Pop, ReadEof, SetupFails, Lookup, WaitEmpty, Fill, PreadFails,
     Refuse, Check, Cleanup, StrayCleanup
<1>6. CASE CacheStart \/ Accept \/ Idle \/ UNCHANGED vars
  BY <1>1, <1>6 DEF CacheStart, Accept, Idle, vars
<1> QED
  BY <1>1, <1>2, <1>3, <1>4, <1>5, <1>6, TransferPart DEF Next, ProxyStep, CacheStep

\* A request that is alone on its segment was so before, but when it is given
\* the segment.
LEMMA FirstUseBefore ==
  ASSUME TypeOK, Placed, [Next]_vars \/ Event, NEW r \in Requests, FirstUse(r)'
  PROVE  \/ FirstUse(r) /\ seg'[r] = seg[r]
         \/ \E s \in Segments : Acquire(r, s)
<1>1. CASE UNCHANGED seg
  BY <1>1 DEF FirstUse
<1>2. ASSUME NEW q \in Requests, NEW s \in Segments, Acquire(q, s), q # r
      PROVE  FirstUse(r) /\ seg'[r] = seg[r]
  <2>1. seg' = [seg EXCEPT ![q] = s] /\ seg[q] = 0
    BY <1>2 DEF Acquire, Placed
  <2>2. \A p \in Requests : seg[p] = seg'[p] \/ seg[p] = 0
    BY <2>1 DEF TypeOK
  <2>3. seg'[r] = seg[r]
    BY <1>2, <2>1 DEF TypeOK
  <2> QED
    BY <2>2, <2>3 DEF FirstUse
<1>3. UNCHANGED seg \/ \E q \in Requests, s \in Segments : Acquire(q, s)
  <2> USE DEF CacheUnchanged, proxyVars, vars
  <2>1. CASE Event
    BY <2>1, EventOwners
  <2>2. ASSUME NEW q \in Requests, ProxyStep(q), ~\E s \in Segments : Acquire(q, s)
        PROVE  UNCHANGED seg
    BY <2>2 DEF ProxyStep, Start, Clear, Cleaned, Connect, Write, WaitFull,
                SendHeader, SendBody, SendStalls, PostEmpty, Release, Reply
  <2>3. ASSUME NEW q \in Requests, CacheStep(q)
        PROVE  UNCHANGED seg
    BY <2>3 DEF CacheStep, Pop, ReadEof, SetupFails, Lookup, WaitEmpty, Fill,
                PreadFails, Refuse, PostFull, Check, Cleanup, StrayCleanup
  <2>4. CASE CacheStart \/ Accept \/ Idle \/ UNCHANGED vars
    BY <2>4 DEF CacheStart, Accept, Idle
  <2> QED
    BY <2>1, <2>2, <2>3, <2>4 DEF Next
<1> QED
  BY <1>1, <1>2, <1>3

\* What the transfer of r is about.
View(r) == <<ppc[r], cpc[r], seg[r], header[r], length[r], body[r], result[r], offset[r],
             pkt[seg[r]], full[seg[r]]>>

LEMMA ViewFrame ==
  ASSUME NEW r \in Requests, FirstTransfer(r), View(r)' = View(r),
         broken \subseteq broken', lost \subseteq lost'
  PROVE  FirstTransfer(r)'
<1>1. /\ ppc'[r] = ppc[r] /\ cpc'[r] = cpc[r] /\ seg'[r] = seg[r]
      /\ header'[r] = header[r] /\ length'[r] = length[r] /\ body'[r] = body[r]
      /\ result'[r] = result[r] /\ offset'[r] = offset[r]
      /\ pkt'[seg'[r]] = pkt[seg[r]] /\ full'[seg'[r]] = full[seg[r]]
  BY DEF View
<1>2. Fresh(r)' <=> Fresh(r)
  BY <1>1 DEF Fresh
<1>3. NextPiece(r)' <=> NextPiece(r)
  BY <1>1 DEF NextPiece
<1>4. Refusal(r) => Refusal(r)'
  BY <1>1 DEF Refusal, Refusable
<1>5. Delivered(r)'
  BY <1>1 DEF Delivered, FirstTransfer, Refusable
<1>6. Early(r) => Early(r)'
  BY <1>1 DEF Early
<1>7. UnderWay(r) => UnderWay(r)'
  BY <1>1, <1>2, <1>3, <1>4 DEF UnderWay
<1> QED
  BY <1>1, <1>5, <1>6, <1>7 DEF FirstTransfer

\* The workers of another request do not disturb it.
LEMMA OtherWorkers ==
  ASSUME TypeOK, Placed, NEW r \in Requests, NEW q \in Requests, q # r, FirstUse(r),
         ProxyStep(q) \/ CacheStep(q)
  PROVE  View(r)' = View(r)
<1> USE DEF ToProxy, ToCache, CacheUnchanged, Take, Post, shmVars, cmdVars,
            proxyVars, cacheVars
<1>0. /\ ppc \in [Requests -> ProxyStates] /\ cpc \in [Requests -> CacheStates]
      /\ seg \in [Requests -> Segments \cup {0}]
      /\ offset \in [Requests -> Nat] /\ length \in [Requests -> Nat]
      /\ header \in [Requests -> {"none", "OK", "FILE_NOT_FOUND"}]
      /\ result \in [Requests -> {"none", "total", "notfound", "failure"}]
      /\ body \in [Requests -> Data]
      /\ pkt \in [Segments -> Packet] /\ full \in [Segments -> Nat]
  BY DEF TypeOK
<1>1. seg[r] \in Segments /\ seg[q] # seg[r]
  BY <1>0 DEF FirstUse
<1> SUFFICES /\ ppc'[r] = ppc[r] /\ cpc'[r] = cpc[r] /\ seg'[r] = seg[r]
             /\ header'[r] = header[r] /\ length'[r] = length[r] /\ body'[r] = body[r]
             /\ result'[r] = result[r] /\ offset'[r] = offset[r]
             /\ pkt'[seg[r]] = pkt[seg[r]] /\ full'[seg[r]] = full[seg[r]]
  BY DEF View
<1>2. CASE ProxyStep(q)
  <2>1. /\ UNCHANGED cacheVars
        /\ ppc'[r] = ppc[r] /\ seg'[r] = seg[r]
        /\ header'[r] = header[r] /\ length'[r] = length[r] /\ body'[r] = body[r]
        /\ result'[r] = result[r]
    BY <1>0, <1>2 DEF ProxyStep, Start, Acquire, Clear, Cleaned, Connect, Write,
       WaitFull, SendHeader, SendBody, SendStalls, PostEmpty, Release, Reply
  <2>2. pkt'[seg[r]] = pkt[seg[r]] /\ full'[seg[r]] = full[seg[r]]
    BY <1>0, <1>1, <1>2 DEF ProxyStep, Start, Acquire, Clear, Cleaned, Connect, Write,
       WaitFull, SendHeader, SendBody, SendStalls, PostEmpty, Release, Reply
  <2> QED
    BY <2>1, <2>2
<1>3. CASE CacheStep(q)
  <2>1. /\ UNCHANGED proxyVars /\ cpc'[r] = cpc[r] /\ offset'[r] = offset[r]
    BY <1>0, <1>3 DEF CacheStep, Pop, ReadEof, SetupFails, Lookup, WaitEmpty, Fill,
                PreadFails, Refuse, PostFull, Check, Cleanup, StrayCleanup
  <2>2. CASE UNCHANGED <<pkt, full>>
    BY <2>1, <2>2
  <2>3. CASE PostFull(q)
    BY <1>0, <1>1, <2>1, <2>3 DEF PostFull
  <2>4. CASE Fill(q) \/ PreadFails(q) \/ Refuse(q)
    <3>1. cpc[q] # "none" /\ UNCHANGED full
      BY <2>4 DEF Fill, PreadFails, Refuse
    <3>2. \E p \in Packet : pkt' = [pkt EXCEPT ![seg[q]] = p]
      BY <2>4, <3>1, HasSegment, PacketType, StoreType DEF Fill, PreadFails, Refuse
    <3> QED
      BY <1>0, <1>1, <2>1, <3>1, <3>2
  <2> QED
    BY <1>3, <2>2, <2>3, <2>4 DEF CacheStep, Pop, ReadEof, SetupFails, Lookup,
       WaitEmpty, Check, Cleanup, StrayCleanup
<1> QED
  BY <1>2, <1>3

LEMMA Extended ==
  ASSUME NEW S, NEW b \in Seq(S), NEW n \in Nat, NEW f \in [1 .. n -> S]
  PROVE  /\ Len(b \o f) = Len(b) + n
         /\ \A i \in 1 .. Len(b) : (b \o f)[i] = b[i]
         /\ \A i \in 1 .. n : (b \o f)[Len(b) + i] = f[i]
<1>1. f \in Seq(S) /\ Len(f) = n
  BY TupleSeq
<1> QED
  BY <1>1

LEMMA WholePayload ==
  ASSUME NEW p, p.validBytes \in Nat, p.data \in Seq(Bytes),
         \A i \in 1 .. p.validBytes : i <= Len(p.data)
  PROVE  /\ Payload(p) \in [1 .. p.validBytes -> Bytes]
         /\ \A i \in 1 .. p.validBytes : Payload(p)[i] = p.data[i]
<1>1. \A i \in 1 .. p.validBytes : p.data[i] \in Bytes
  OBVIOUS
<1>2. Payload(p) = [i \in 1 .. p.validBytes |-> p.data[i]]
  BY DEF Payload
<1> QED
  BY <1>1, <1>2

\* While the proxy worker of r reads, nobody else has the token.
LEMMA ReaderAlone ==
  ASSUME TypeOK, Placed, Conserved, NEW r \in Requests, ppc[r] \in ProxyReading
  PROVE  seg[r] \notin lost /\ full[seg[r]] = 0 /\ cpc[r] \notin CacheWriting
<1>1. seg[r] \in Segments
  BY HasSegment, Places
<1>2. r \in Readers(seg[r])
  BY DEF Readers
<1>3. seg[r] \notin lost /\ Token(seg[r])
  BY <1>1, <1>2 DEF Conserved, Tokens
<1>4. empty[seg[r]] + full[seg[r]] = 0 /\ Writers(seg[r]) = {}
  BY <1>2, <1>3 DEF Token
<1>5. empty[seg[r]] \in Nat /\ full[seg[r]] \in Nat
  BY <1>1 DEF TypeOK
<1> QED
  BY <1>3, <1>4, <1>5 DEF Writers

\* A step that neither brings nor takes a packet.
LEMMA QuietStep ==
  ASSUME NEW r \in Requests, FirstTransfer(r),
         ppc[r] \notin ProxyReading, ppc'[r] \notin ProxyReading,
         seg'[r] = seg[r], full'[seg[r]] = full[seg[r]],
         header'[r] = header[r], length'[r] = length[r], body'[r] = body[r],
         offset'[r] = offset[r], cpc'[r] = cpc[r],
         result'[r] \in {result[r], "failure"}, UNCHANGED <<broken, lost>>,
         \/ pkt'[seg[r]] = pkt[seg[r]]
         \/ cpc[r] = "none"
  PROVE  FirstTransfer(r)'
<1>1. Delivered(r)'
  BY DEF FirstTransfer, Delivered, Refusable
<1>2. Early(r) => Early(r)'
  BY DEF Early
<1>3. Fresh(r)' <=> Fresh(r)
  BY DEF Fresh, ProxyReading
<1>4. CASE pkt'[seg[r]] = pkt[seg[r]]
  <2>1. NextPiece(r) => NextPiece(r)'
    BY <1>4 DEF NextPiece
  <2>2. Refusal(r) => Refusal(r)'
    BY <1>4 DEF Refusal, Refusable
  <2>3. result[r] = "none" => result'[r] # "none" \/ UnderWay(r)'
    BY <1>3, <2>1, <2>2 DEF FirstTransfer, UnderWay, ProxyReading
  <2>4. result[r] # "none" => result'[r] # "none"
    OBVIOUS
  <2> QED
    BY <1>1, <1>2, <2>3, <2>4 DEF FirstTransfer
<1>5. CASE cpc[r] = "none"
  <2>1. ~Fresh(r)
    BY <1>5 DEF FirstTransfer, Early, Fresh, ProxyReading
  <2>2. UnderWay(r) => UnderWay(r)'
    BY <1>3, <2>1 DEF UnderWay, ProxyReading
  <2> QED
    BY <1>1, <1>2, <2>2 DEF FirstTransfer
<1> QED
  BY <1>4, <1>5

LEMMA OwnProxyStep ==
  ASSUME TypeOK, Placed, Conserved, Service, UNCHANGED <<broken, lost>>,
         NEW r \in Requests, FirstUse(r), FirstTransfer(r), ProxyStep(r)
  PROVE  FirstTransfer(r)'
<1> USE DEF ToProxy, Take, Post, shmVars, cmdVars, cacheVars
<1>0. /\ ppc \in [Requests -> ProxyStates]
      /\ length \in [Requests -> Nat] /\ body \in [Requests -> Data]
      /\ header \in [Requests -> {"none", "OK", "FILE_NOT_FOUND"}]
      /\ result \in [Requests -> {"none", "total", "notfound", "failure"}]
      /\ pkt \in [Segments -> Packet] /\ full \in [Segments -> Nat]
  BY DEF TypeOK
<1>a. seg[r] \in Segments
  BY DEF FirstUse, TypeOK
<1>b. /\ seg[r] # 0 /\ Delivered(r)
      /\ cpc[r] \in {"none", "read", "waitFail", "fillFail"} => Early(r)
      /\ result[r] = "none" => UnderWay(r)
  BY DEF FirstUse, FirstTransfer
<1>1. CASE Start(r) \/ \E s \in Segments : Acquire(r, s)
  BY <1>1, <1>b DEF Start, Acquire, Placed
<1>2. CASE Clear(r) \/ Cleaned(r) \/ Connect(r)
  <2>1. cpc[r] = "none"
    BY <1>2 DEF Clear, Cleaned, Connect, Placed
  <2>2. /\ ppc[r] \notin ProxyReading /\ ppc'[r] \notin ProxyReading
        /\ UNCHANGED <<seg, full, header, length, body, offset, cpc, result>>
    BY <1>0, <1>2 DEF Clear, Cleaned, Connect, ProxyReading
  <2> QED
    BY <2>1, <2>2, QuietStep
<1>3. CASE Write(r)
  <2>1. /\ ppc[r] \notin ProxyReading /\ ppc'[r] \notin ProxyReading
        /\ result'[r] \in {result[r], "failure"}
        /\ UNCHANGED <<seg, pkt, full, header, length, body, offset, cpc>>
    BY <1>0, <1>3 DEF Write, ProxyReading
  <2> QED
    BY <2>1, QuietStep
<1>4. CASE Release(r)
  <2>1. /\ ppc[r] \notin ProxyReading /\ ppc'[r] \notin ProxyReading
        /\ UNCHANGED <<seg, pkt, full, header, length, body, offset, cpc, result>>
    BY <1>0, <1>4 DEF Release, ProxyReading
  <2> QED
    BY <2>1, QuietStep
<1>5. CASE Reply(r)
  <2>1. /\ result[r] = "notfound" /\ result'[r] \in {"notfound", "failure"}
        /\ header'[r] \in {header[r], "FILE_NOT_FOUND"}
        /\ UNCHANGED <<seg, length, body, offset, cpc>>
    BY <1>0, <1>5 DEF Reply, Service
  <2>2. Delivered(r)'
    BY <1>b, <2>1 DEF Delivered, Refusable
  <2>3. cpc[r] \notin {"none", "read", "waitFail", "fillFail"}
    BY <1>b, <2>1 DEF Early
  <2> QED
    BY <2>1, <2>2, <2>3 DEF FirstTransfer
<1>6. CASE WaitFull(r)
  <2>1. /\ ppc[r] = "wait" /\ ppc'[r] = "packet" /\ full[seg[r]] > 0
        /\ UNCHANGED <<seg, pkt, header, length, body, offset, cpc, result>>
    BY <1>0, <1>6 DEF WaitFull
  <2>2. cpc[r] \notin {"none", "read", "waitFail", "fillFail"}
    BY <1>0, <1>a, <1>b, <2>1 DEF Early
  <2>3. Delivered(r)'
    BY <1>b, <2>1 DEF Delivered, Refusable
  <2>4. Fresh(r) /\ Fresh(r)'
    BY <2>1 DEF Fresh
  <2>5. NextPiece(r) \/ Refusal(r) => (NextPiece(r) \/ Refusal(r))'
    BY <2>1 DEF NextPiece, Refusal, Refusable
  <2>6. UnderWay(r) => UnderWay(r)'
    BY <2>1, <2>4, <2>5 DEF UnderWay
  <2> QED
    BY <1>b, <2>1, <2>2, <2>3, <2>6 DEF FirstTransfer
<1>7. CASE SendHeader(r)
  <2>1. /\ ppc[r] = "packet" /\ ppc[r] \in ProxyReading
        /\ UNCHANGED <<seg, pkt, full, body, offset, cpc>>
    BY <1>7 DEF SendHeader, ProxyReading
  <2>2. cpc[r] \notin {"none", "read", "waitFail", "fillFail"}
    BY <1>b, <2>1 DEF Early
  <2>3. CASE result'[r] = "failure"
    <3>1. header'[r] = header[r] /\ length'[r] = length[r]
      BY <1>0, <1>7, <2>1, <2>3 DEF SendHeader, Service
    <3>2. Delivered(r)'
      BY <1>b, <2>1, <2>3, <3>1 DEF Delivered, Refusable
    <3> QED
      BY <2>1, <2>2, <2>3, <3>2 DEF FirstTransfer
  <2>4. NextPiece(r) \/ Refusal(r)
    BY <1>b, <2>1 DEF Service, UnderWay, Fresh
  <2>5. CASE /\ header[r] # "none" /\ ppc'[r] = "body"
             /\ UNCHANGED <<header, length, result>>
    <3>1. Delivered(r)'
      BY <1>b, <2>1, <2>5 DEF Delivered, Refusable
    <3>2. (NextPiece(r) \/ Refusal(r))'
      BY <2>1, <2>4, <2>5 DEF NextPiece, Refusal, Refusable
    <3>3. UnderWay(r)'
      BY <2>5, <3>2 DEF UnderWay, Fresh
    <3> QED
      BY <2>1, <2>2, <3>1, <3>3 DEF FirstTransfer
  <2>6. CASE /\ pkt[seg[r]].status = NOTFOUND /\ result'[r] = "notfound"
             /\ UNCHANGED <<header, length>>
    <3>1. Refusable(r)
      BY <2>4, <2>6 DEF NextPiece, Refusal, OK, NOTFOUND
    <3>2. Delivered(r)'
      BY <1>b, <2>1, <2>6, <3>1 DEF Delivered, Refusable
    <3> QED
      BY <2>1, <2>2, <2>6, <3>2 DEF FirstTransfer
  <2>7. CASE /\ header[r] = "none" /\ pkt[seg[r]].status = OK /\ ppc'[r] = "body"
             /\ header'[r] = "OK" /\ length'[r] = pkt[seg[r]].fileSize
             /\ UNCHANGED result
    <3>1. NextPiece(r)
      BY <2>4, <2>7 DEF Refusal, OK, NOTFOUND
    <3>2. Wants[r] \in Cached /\ pkt[seg[r]].fileSize = Size[Wants[r]]
      BY <3>1 DEF NextPiece
    <3>3. Delivered(r)'
      BY <1>b, <2>1, <2>7, <3>2 DEF Delivered, Refusable
    <3>4. NextPiece(r)'
      BY <2>1, <3>1 DEF NextPiece
    <3>5. UnderWay(r)'
      BY <2>7, <3>4 DEF UnderWay, Fresh
    <3> QED
      BY <2>1, <2>2, <3>3, <3>5 DEF FirstTransfer
  <2> QED
    BY <1>0, <1>7, <2>3, <2>5, <2>6, <2>7 DEF SendHeader
<1>8. CASE SendBody(r)
  <2>1. /\ ppc[r] = "body" /\ ppc[r] \in ProxyReading /\ ppc'[r] = "post"
        /\ UNCHANGED <<seg, pkt, full, header, length, offset, cpc>>
    BY <1>0, <1>8 DEF SendBody, ProxyReading
  <2>2. cpc[r] \notin {"none", "read", "waitFail", "fillFail"}
    BY <1>b, <2>1 DEF Early
  <2>3. /\ seg[r] \notin lost /\ full[seg[r]] = 0 /\ cpc[r] \notin CacheWriting
        /\ header[r] # "none"
    BY <2>1, ReaderAlone DEF Service
  <2>4. CASE result'[r] = "failure" /\ body'[r] = body[r]
    <3>1. Delivered(r)'
      BY <1>b, <2>1, <2>4 DEF Delivered, Refusable
    <3> QED
      BY <2>1, <2>2, <2>4, <3>1 DEF FirstTransfer
  <2>5. CASE body'[r] = body[r] \o Payload(pkt[seg[r]]) /\ result'[r] = result[r]
    <3> DEFINE p == pkt[seg[r]]
    <3>0. /\ p \in Packet /\ p.validBytes \in Nat /\ p.data \in Seq(Bytes)
          /\ body[r] \in Seq(Bytes) /\ offset[r] \in Nat /\ Zero \in Bytes
      BY <1>0, <1>a DEF TypeOK, Packet, Data, Bytes, Zero
    <3>1. result[r] = "none"
      BY <2>1 DEF Service
    <3>2. NextPiece(r) \/ Refusal(r)
      BY <1>b, <2>1, <3>1 DEF UnderWay, Fresh
    <3>3. /\ p.validBytes = offset[r] - Len(body[r])
          /\ \A i \in 1 .. p.validBytes :
                i <= Len(p.data) /\ p.data[i] = Byte(Wants[r], Len(body[r]) + i)
          /\ p.streamDone => \/ offset[r] = Size[Wants[r]]
                             \/ r \in broken
      <4>1. CASE NextPiece(r)
        BY <3>0, <4>1 DEF NextPiece
      <4>2. CASE Refusal(r)
        BY <2>3, <3>0, <4>2 DEF Refusal
      <4> QED
        BY <3>2, <4>1, <4>2
    <3> HIDE DEF p
    <3>4. /\ Payload(p) \in [1 .. p.validBytes -> Bytes]
          /\ \A i \in 1 .. p.validBytes : Payload(p)[i] = Byte(Wants[r], Len(body[r]) + i)
      BY <3>0, <3>3, WholePayload
    <3>5. /\ Len(body'[r]) = Len(body[r]) + p.validBytes
          /\ \A i \in 1 .. Len(body[r]) : body'[r][i] = body[r][i]
          /\ \A i \in 1 .. p.validBytes : body'[r][Len(body[r]) + i] = Payload(p)[i]
      <4>1. \A b \in Seq(Bytes), n \in Nat : \A f \in [1 .. n -> Bytes] :
               /\ Len(b \o f) = Len(b) + n
               /\ \A i \in 1 .. Len(b) : (b \o f)[i] = b[i]
               /\ \A i \in 1 .. n : (b \o f)[Len(b) + i] = f[i]
        BY Extended, Zenon
      <4>2. body'[r] = body[r] \o Payload(p)
        BY <2>5 DEF p
      <4>3. body[r] \in Seq(Bytes) /\ p.validBytes \in Nat
        BY <3>0
      <4>4. Payload(p) \in [1 .. p.validBytes -> Bytes]
        BY <3>4
      <4>5. /\ Len(body[r] \o Payload(p)) = Len(body[r]) + p.validBytes
            /\ \A i \in 1 .. Len(body[r]) : (body[r] \o Payload(p))[i] = body[r][i]
            /\ \A i \in 1 .. p.validBytes :
                  (body[r] \o Payload(p))[Len(body[r]) + i] = Payload(p)[i]
        BY <4>1, <4>3, <4>4, Zenon
      <4> QED
        BY <4>2, <4>5, Zenon
    <3>6. Len(body'[r]) = offset[r] /\ Len(body[r]) \in Nat
      BY <3>0, <3>3, <3>5
    <3>7. \A i \in 1 .. Len(body'[r]) : body'[r][i] = Byte(Wants[r], i)
      <4> SUFFICES ASSUME NEW i \in 1 .. Len(body'[r])
                   PROVE  body'[r][i] = Byte(Wants[r], i)
        OBVIOUS
      <4>1. CASE i <= Len(body[r])
        BY <1>b, <3>5, <3>6, <3>0, <4>1 DEF Delivered
      <4>2. CASE i > Len(body[r])
        <5>1. i - Len(body[r]) \in 1 .. p.validBytes
          BY <3>0, <3>5, <3>6, <4>2
        <5>2. PICK j \in 1 .. p.validBytes : i = Len(body[r]) + j
          BY <3>0, <3>6, <5>1
        <5>3. body'[r][Len(body[r]) + j] = Byte(Wants[r], Len(body[r]) + j)
          BY <3>4, <3>5
        <5> QED
          BY <5>2, <5>3
      <4> QED
        BY <3>0, <3>6, <4>1, <4>2
    <3>8. Delivered(r)'
      <4>1. header[r] = "OK" => Wants[r] \in Cached /\ length[r] = Size[Wants[r]]
        BY <1>b DEF Delivered
      <4>2. result'[r] = "none" /\ header'[r] = header[r] /\ length'[r] = length[r]
            /\ Len(body'[r]) <= offset'[r]
        BY <2>1, <2>5, <3>1, <3>0, <3>6
      <4> QED
        BY <3>7, <4>1, <4>2 DEF Delivered
    <3>9. ~Fresh(r)'
      BY <2>1, <2>3 DEF Fresh, CacheWriting
    <3>10. UnderWay(r)'
      BY <2>1, <3>3, <3>6, <3>9 DEF UnderWay, p
    <3> QED
      BY <2>1, <2>2, <3>8, <3>10 DEF FirstTransfer
  <2> QED
    BY <1>0, <1>8, <2>4, <2>5 DEF SendBody
<1>8s. CASE SendStalls(r)
  <2>1. /\ ppc[r] = "body" /\ ppc'[r] = "stalled"
        /\ UNCHANGED <<seg, pkt, full, header, length, body, offset, cpc, result>>
    BY <1>0, <1>8s DEF SendStalls
  <2>2. cpc[r] \notin {"none", "read", "waitFail", "fillFail"}
    BY <1>b, <2>1 DEF Early, ProxyReading
  <2>3. Delivered(r)'
    BY <1>b, <2>1 DEF Delivered, Refusable
  <2>4. (NextPiece(r) \/ Refusal(r)) => (NextPiece(r) \/ Refusal(r))'
    BY <2>1 DEF NextPiece, Refusal, Refusable
  <2>5. UnderWay(r) => UnderWay(r)'
    BY <2>1, <2>4 DEF UnderWay, Fresh
  <2> QED
    BY <1>b, <2>1, <2>2, <2>3, <2>5 DEF FirstTransfer
<1>9. CASE PostEmpty(r)
  <2>1. /\ ppc[r] = "post" /\ ppc[r] \in ProxyReading /\ ppc'[r] \in {"wait", "release"}
        /\ UNCHANGED <<seg, pkt, full, header, length, body, offset, cpc>>
    BY <1>0, <1>9 DEF PostEmpty, ProxyReading
  <2>2. cpc[r] \notin {"none", "read", "waitFail", "fillFail"}
    BY <1>b, <2>1 DEF Early
  <2>3. seg[r] \notin lost /\ full[seg[r]] = 0 /\ cpc[r] \notin CacheWriting
    BY <2>1, ReaderAlone
  <2>4. ~Fresh(r) /\ ~Fresh(r)'
    BY <2>1, <2>3, <1>0, <1>a DEF Fresh, CacheWriting
  <2>5. CASE result'[r] = result[r]
    <3>1. Delivered(r)'
      BY <1>b, <2>1, <2>5 DEF Delivered, Refusable
    <3>2. UnderWay(r) => UnderWay(r)'
      BY <2>1, <2>3, <2>4 DEF UnderWay
    <3> QED
      BY <1>b, <2>1, <2>2, <2>5, <3>1, <3>2 DEF FirstTransfer
  <2>6. CASE result[r] = "none" /\ pkt[seg[r]].streamDone /\ result'[r] = "total"
    <3>1. Len(body[r]) = Size[Wants[r]] \/ r \in broken
      BY <1>b, <2>1, <2>6 DEF UnderWay
    <3>2. Delivered(r)'
      BY <1>b, <2>1, <2>6, <3>1 DEF Delivered, Refusable
    <3> QED
      BY <2>1, <2>2, <2>6, <3>2 DEF FirstTransfer
  <2> QED
    BY <1>0, <1>9, <2>5, <2>6 DEF PostEmpty
<1> QED
  BY <1>1, <1>2, <1>3, <1>4, <1>5, <1>6, <1>7, <1>8, <1>8s, <1>9 DEF ProxyStep

\* A step of the cache's worker for r that neither brings nor takes a packet.
LEMMA QuietCacheStep ==
  ASSUME NEW r \in Requests, FirstTransfer(r),
         seg'[r] = seg[r], full'[seg[r]] = full[seg[r]], pkt'[seg[r]] = pkt[seg[r]],
         ppc'[r] = ppc[r], header'[r] = header[r], length'[r] = length[r],
         body'[r] = body[r], offset'[r] = offset[r], result'[r] = result[r],
         broken \subseteq broken', lost \subseteq lost',
         cpc'[r] \in {"none", "read", "waitFail", "fillFail"}
             => cpc[r] \in {"none", "read", "waitFail", "fillFail"},
         cpc'[r] \in {"postData", "postFail"} => cpc[r] \in {"postData", "postFail"},
         cpc[r] \in {"postData", "postFail"} =>
            \/ cpc'[r] \in {"postData", "postFail"} \/ full[seg[r]] > 0
            \/ seg[r] \in lost'
  PROVE  FirstTransfer(r)'
<1>1. Delivered(r)' /\ (Early(r) => Early(r)')
  BY DEF FirstTransfer, Delivered, Early, Refusable
<1>2. (NextPiece(r) => NextPiece(r)') /\ (Refusal(r) => Refusal(r)')
  BY DEF NextPiece, Refusal, Refusable
<1>3. /\ Fresh(r)' => Fresh(r)
      /\ Fresh(r) => Fresh(r)' \/ seg[r] \in lost'
  BY DEF Fresh
<1>4. UnderWay(r) => UnderWay(r)'
  BY <1>2, <1>3 DEF UnderWay
<1> QED
  BY <1>1, <1>4 DEF FirstTransfer

LEMMA OwnCacheStep ==
  ASSUME TypeOK, Placed, Conserved, Service, lost' = lost, broken \subseteq broken',
         NEW r \in Requests, FirstUse(r), FirstTransfer(r), CacheStep(r),
         ReadFails(r) => r \in broken'
  PROVE  FirstTransfer(r)'
<1> USE DEF ToCache, CacheUnchanged, Take, Post, shmVars, cmdVars, proxyVars
<1>0. /\ cpc \in [Requests -> CacheStates] /\ offset \in [Requests -> Nat]
      /\ pkt \in [Segments -> Packet] /\ full \in [Segments -> Nat]
      /\ body \in [Requests -> Data]
  BY DEF TypeOK
<1>a. seg[r] \in Segments /\ \A q \in Requests : seg[q] = seg[r] => q = r
  BY DEF FirstUse, TypeOK
<1>b. /\ Delivered(r)
      /\ cpc[r] \in {"none", "read", "waitFail", "fillFail"} => Early(r)
      /\ result[r] = "none" => UnderWay(r)
  BY DEF FirstTransfer
<1>c. /\ Refusable(r) => Refusable(r)'
      /\ r \in broken => r \in broken'
  BY DEF Refusable
<1>1. CASE \/ ReadEof(r) \/ SetupFails(r) \/ Lookup(r) \/ WaitEmpty(r)
           \/ Check(r) \/ Cleanup(r) \/ StrayCleanup(r)
  <2>1. /\ cpc[r] \notin {"postData", "postFail"}
        /\ cpc'[r] \notin {"postData", "postFail"}
        /\ cpc'[r] \in {"none", "read", "waitFail", "fillFail"}
             => cpc[r] \in {"none", "read", "waitFail", "fillFail"}
    BY <1>0, <1>1 DEF ReadEof, SetupFails, Lookup, WaitEmpty, Check, Cleanup, StrayCleanup
  <2>2. UNCHANGED <<seg, full, pkt, ppc, header, length, body, offset, result, lost>>
    BY <1>1 DEF ReadEof, SetupFails, Lookup, WaitEmpty, Check, Cleanup, StrayCleanup
  <2> QED
    BY <1>c, <2>1, <2>2, QuietCacheStep
<1>2. CASE Pop(r)
  <2>1. cpc[r] = "none" /\ cpc'[r] = "read"
    <3>1. workq \in Seq(Requests) /\ workq # <<>> /\ r = Head(workq)
      BY <1>2 DEF Pop, TypeOK
    <3>2. 1 \in 1..Len(workq) /\ r = workq[1]
      BY <3>1
    <3>3. cpc[r] = "none"
      BY <3>2 DEF Placed
    <3>4. cpc'[r] = "read"
      BY <1>0, <1>2 DEF Pop
    <3> QED
      BY <3>3, <3>4
  <2>2. UNCHANGED <<seg, full, pkt, ppc, header, length, body, offset, result, lost>>
    BY <1>2 DEF Pop
  <2> QED
    BY <1>c, <2>1, <2>2, QuietCacheStep
<1>3. CASE PostFull(r)
  <2>1. /\ cpc[r] \in {"postData", "postFail"}
        /\ cpc'[r] \in {"check", "unset", "cleanup"}
        /\ full'[seg[r]] = full[seg[r]] + 1
        /\ UNCHANGED <<seg, pkt, ppc, header, length, body, offset, result>>
    BY <1>0, <1>a, <1>3 DEF PostFull, AfterPost
  <2>2. Fresh(r) /\ Fresh(r)'
    BY <1>0, <1>a, <2>1 DEF Fresh
  <2>3. NextPiece(r) \/ Refusal(r) => (NextPiece(r) \/ Refusal(r))'
    BY <1>c, <2>1 DEF NextPiece, Refusal
  <2>4. UnderWay(r) => UnderWay(r)'
    BY <2>1, <2>2, <2>3 DEF UnderWay
  <2>5. Delivered(r)'
    BY <1>b, <1>c, <2>1 DEF Delivered
  <2> QED
    BY <1>b, <2>1, <2>4, <2>5 DEF FirstTransfer
<1>4. CASE Fill(r) \/ PreadFails(r) \/ Refuse(r)
  <2>1. /\ cpc[r] \in {"fill", "fillFail"} /\ cpc'[r] \in {"postData", "postFail"}
        /\ UNCHANGED <<seg, full, ppc, header, length, body, result>>
    BY <1>0, <1>4 DEF Fill, PreadFails, Refuse
  <2>2. /\ seg[r] \notin lost /\ full[seg[r]] = 0 /\ ppc[r] \notin ProxyReading
    BY <2>1, WriterAlone DEF CacheWriting
  <2>3. ~BeingCleared(seg[r])
    <3>1. cpc[r] # "none"
      BY <2>1
    <3> QED
      BY <1>a, <3>1 DEF BeingCleared, Placed
  <2>4. ~Fresh(r) /\ Fresh(r)'
    BY <2>1, <2>2 DEF Fresh, ProxyReading
  <2>5. result[r] = "none" => offset[r] = Len(body[r])
    BY <1>b, <2>2, <2>4 DEF UnderWay
  <2>t. Len(body[r]) \in Nat /\ offset[r] \in Nat
    BY <1>0 DEF Data
  <2>6. CASE Fill(r)
    <3>1. /\ cpc[r] = "fill" /\ offset'[r] = offset[r] + Len(Chunk(r))
          /\ pkt'[seg[r]] = DataPacket(r)
      BY <1>0, <1>a, <2>3, <2>6 DEF Fill, Store
    <3>2. /\ Wants[r] \in Cached /\ offset[r] <= Size[Wants[r]]
          /\ Wants[r] \in Paths /\ Size[Wants[r]] \in Nat
      BY <3>1, CacheChannelAssumption DEF Service
    <3>3. /\ Len(Chunk(r)) \in Nat /\ offset'[r] <= Size[Wants[r]]
          /\ Len(Chunk(r)) = 0 => offset[r] = Size[Wants[r]]
          /\ \A i \in 1 .. Len(Chunk(r)) : Chunk(r)[i] = Byte(Wants[r], offset[r] + i)
      BY <3>1, <3>2, ChunkBounds
    <3>4. result[r] = "none" => NextPiece(r)'
      <4> SUFFICES ASSUME result[r] = "none"
                   PROVE  NextPiece(r)'
        OBVIOUS
      <4> DEFINE p == pkt'[seg[r]]
      <4>1. /\ p.status = OK /\ p.fileSize = Size[Wants[r]]
            /\ p.validBytes = Len(Chunk(r)) /\ p.data = Chunk(r)
            /\ p.streamDone <=> \/ offset[r] + Len(Chunk(r)) >= Size[Wants[r]]
                               \/ Len(Chunk(r)) = 0
        BY <3>1 DEF DataPacket
      <4>2. p.streamDone <=> offset'[r] = Size[Wants[r]]
        <5> DEFINE o == offset[r]
                   n == Len(Chunk(r))
                   size == Size[Wants[r]]
        <5>1. /\ o \in Nat /\ n \in Nat /\ size \in Nat
              /\ o + n <= size /\ (n = 0 => o = size) /\ offset'[r] = o + n
          BY <2>t, <3>1, <3>2, <3>3
        <5>2. p.streamDone <=> o + n >= size \/ n = 0
          BY <4>1
        <5> HIDE DEF o, n, size, p
        <5>3. p.streamDone <=> o + n = size
          BY <5>1, <5>2
        <5> QED
          BY <5>1, <5>3 DEF size
      <4>3. p.validBytes = offset'[r] - Len(body[r])
        BY <2>t, <2>5, <3>1, <3>3, <4>1
      <4>4. \A i \in 1 .. p.validBytes : p.data[i] = Byte(Wants[r], Len(body[r]) + i)
        BY <2>5, <3>3, <4>1
      <4> QED
        BY <2>1, <3>2, <4>1, <4>2, <4>3, <4>4 DEF NextPiece
    <3>5. Delivered(r)'
      <4>1. Len(body'[r]) <= offset'[r]
        BY <1>b, <2>1, <2>t, <3>1, <3>3 DEF Delivered
      <4> QED
        BY <1>b, <1>c, <2>1, <4>1 DEF Delivered
    <3>6. result[r] = "none" => UnderWay(r)'
      BY <2>1, <2>2, <2>4, <3>4 DEF UnderWay, ProxyReading
    <3> QED
      BY <2>1, <3>5, <3>6 DEF FirstTransfer
  <2>7. CASE PreadFails(r) \/ Refuse(r)
    <3>1. /\ UNCHANGED offset
          /\ \E n : pkt'[seg[r]] = RefusalPacket(n)
      BY <1>0, <1>a, <2>3, <2>7 DEF PreadFails, Refuse, Store
    <3>2. /\ Refusable(r)'
          /\ header[r] # "none" => r \in broken'
      <4>1. CASE PreadFails(r)
        BY <1>0, <4>1 DEF PreadFails, ReadFails, Refusable
      <4>2. CASE Refuse(r)
        BY <1>b, <1>c, <4>2 DEF Refuse, Service, Early
      <4> QED
        BY <2>7, <4>1, <4>2
    <3>3. result[r] = "none" => Refusal(r)'
      BY <1>c, <2>1, <2>5, <3>1, <3>2 DEF Refusal, RefusalPacket
    <3>4. Delivered(r)'
      BY <1>b, <1>c, <2>1, <3>1 DEF Delivered
    <3>5. result[r] = "none" => UnderWay(r)'
      BY <2>1, <2>2, <2>4, <3>3 DEF UnderWay, ProxyReading
    <3> QED
      BY <2>1, <3>4, <3>5 DEF FirstTransfer
  <2> QED
    BY <1>4, <2>6, <2>7
<1> QED
  BY <1>1, <1>2, <1>3, <1>4 DEF CacheStep

\* The transfer of r begins with an unused segment.
LEMMA FirstAcquire ==
  ASSUME TypeOK, Placed, Service, Unused,
         NEW r \in Requests, NEW s \in Segments, Acquire(r, s), FirstUse(r)'
  PROVE  FirstTransfer(r)'
<1>1. /\ ppc[r] = "acquire" /\ seg[r] = 0 /\ ppc'[r] = "clear" /\ seg'[r] = s
      /\ \A q \in Requests : q # r => seg'[q] = seg[q]
      /\ UNCHANGED <<full, header, length, body, result, cpc, offset>>
  BY DEF Acquire, ToProxy, Placed, TypeOK, shmVars, cacheVars
<1>2. full[s] = 0
  <2>1. \A q \in Requests : seg[q] # s
    BY <1>1 DEF FirstUse, Segments
  <2> QED
    BY <2>1 DEF Unused
<1>3. cpc[r] = "none" /\ offset[r] = 0
  BY <1>1 DEF Placed, Service
<1>4. header[r] = "none" /\ body[r] = <<>> /\ result[r] = "none"
  BY <1>1 DEF Service
<1>5. Delivered(r)'
  BY <1>1, <1>3, <1>4 DEF Delivered
<1>6. Early(r)' /\ ~Fresh(r)'
  BY <1>1, <1>2, <1>3, <1>4 DEF Early, Fresh, ProxyReading
<1>7. UnderWay(r)'
  BY <1>1, <1>3, <1>4, <1>6 DEF UnderWay
<1> QED
  BY <1>5, <1>6, <1>7 DEF FirstTransfer

LEMMA FirstTransfersStep ==
  ASSUME CrashTypeOK, Placed, Conserved, Service, Unused, FirstTransfers,
         [CrashNext]_crashVars
  PROVE  FirstTransfers'
<1> SUFFICES ASSUME NEW r \in Requests, FirstUse(r)'
             PROVE  FirstTransfer(r)'
  BY DEF FirstTransfers
<1> USE DEF ToCache, CacheUnchanged, shmVars, cmdVars, proxyVars, cacheVars,
            historyVars, processVars
<1>0. TypeOK
  BY DEF CrashTypeOK
<1>1. CASE \E s \in Segments : Acquire(r, s)
  BY <1>0, <1>1, FirstAcquire
<1> SUFFICES ASSUME ~\E s \in Segments : Acquire(r, s)
             PROVE  FirstTransfer(r)'
  BY <1>1
<1>2. FirstUse(r) /\ seg'[r] = seg[r]
  BY <1>0, FirstUseBefore, TransferPart
<1>3. FirstTransfer(r)
  BY <1>2 DEF FirstTransfers
<1>4. ASSUME NEW q \in Requests, ProxyRuns(q) \/ CacheRuns(q)
      PROVE  FirstTransfer(r)'
  <2>1. /\ lost' = lost /\ broken \subseteq broken'
        /\ \/ ProxyStep(q) /\ UNCHANGED broken
           \/ CacheStep(q) /\ (ReadFails(q) => q \in broken')
    BY <1>4 DEF ProxyRuns, CacheRuns
  <2>2. CASE q = r
    BY <1>0, <1>2, <1>3, <2>1, <2>2, OwnProxyStep, OwnCacheStep
  <2>3. CASE q # r
    <3>1. View(r)' = View(r)
      BY <1>0, <1>2, <2>1, <2>3, OtherWorkers
    <3> QED
      BY <1>3, <2>1, <3>1, ViewFrame
  <2> QED
    BY <2>2, <2>3
<1>5. CASE Signal
  <2>1. UNCHANGED <<ppc, cpc, seg, header, length, body, result, offset, pkt, full, lost,
                    broken>>
    BY <1>5 DEF Signal
  <2> QED
    BY <1>3, <2>1, ViewFrame DEF View
<1>6. CASE Exit \/ Kill
  <2>1. /\ UNCHANGED <<ppc, seg, header, length, body, result, offset, pkt, full, broken>>
        /\ lost' = lost \cup {seg[q] : q \in {p \in Requests : cpc[p] \in CacheWriting}}
    BY <1>6 DEF Exit, Kill, Dies
  <2>2. cpc'[r] = IF r \in CacheActive THEN "done" ELSE cpc[r]
    BY <1>0, <1>6, DiesPart, DiesTypes
  <2>3. cpc[r] \in CacheWriting => seg[r] \in lost'
    BY <2>1
  <2>5. /\ cpc'[r] \in {"none", "read", "waitFail", "fillFail"} => cpc'[r] = cpc[r]
        /\ cpc'[r] \in {"postData", "postFail"} => cpc'[r] = cpc[r]
        /\ cpc[r] \in {"postData", "postFail"} => seg[r] \in lost'
    BY <2>2, <2>3 DEF CacheWriting
  <2> QED
    BY <1>3, <2>1, <2>5, QuietCacheStep
<1>7. ASSUME NEW q \in Requests, LookupClosed(q)
      PROVE  FirstTransfer(r)'
  <2>1. PICK place \in {"read", "waitFail"} :
           /\ UNCHANGED <<ppc, seg, header, length, body, result, offset, pkt, full, lost>>
           /\ cpc[q] = "read" /\ cpc' = [cpc EXCEPT ![q] = place]
           /\ broken \subseteq broken'
    BY <1>0, <1>7, LookedUp
  <2>2. cpc'[r] = cpc[r] \/ (cpc[r] = "read" /\ cpc'[r] = "waitFail")
    BY <1>0, <2>1 DEF TypeOK
  <2> QED
    BY <1>3, <2>1, <2>2, QuietCacheStep
<1>8. CASE \/ StartCache \/ AcceptRuns \/ Destroy \/ Rest \/ UNCHANGED crashVars
           \/ (\E q \in Requests : BrokenPipe(q))
           \/ Idle /\ UNCHANGED <<processVars, historyVars>>
  <2>1. UNCHANGED <<ppc, cpc, seg, header, length, body, result, offset, pkt, full,
                    lost, broken>>
    BY <1>8 DEF StartCache, CacheStart, AcceptRuns, Accept, Destroy, Rest, crashVars,
                BrokenPipe, Idle, vars
  <2> QED
    BY <1>3, <2>1, ViewFrame DEF View
<1> QED
  BY <1>4, <1>5, <1>6, <1>7, <1>8 DEF CrashNext

\* What has been delivered, as the property says it.
LEMMA DeliveredIntegrity ==
  ASSUME CrashTypeOK, Service, NEW r \in Requests, Delivered(r)
  PROVE  LET file == FileBytes(Wants[r])
         IN  /\ header[r] = "OK" => Wants[r] \in Cached /\ length[r] = Len(file)
             /\ Len(body[r]) <= Len(file)
             /\ body[r] = SubSeq(file, 1, Len(body[r]))
             /\ result[r] = "notfound" => Wants[r] \notin Cached \/ r \in broken
             /\ result[r] = "total" => body[r] = file \/ r \in broken
<1> DEFINE file == FileBytes(Wants[r])
           size == Size[Wants[r]]
           n    == Len(body[r])
<1>1. /\ size \in Nat /\ offset[r] \in Nat /\ n \in Nat /\ Wants[r] \in Paths
      /\ body[r] \in Seq(Bytes) /\ offset[r] <= size
  BY CacheChannelAssumption DEF CrashTypeOK, TypeOK, Data, Bytes, Service
<1>2. \A i \in 1 .. size : Byte(Wants[r], i) \in Bytes
  BY <1>1 DEF Byte, Bytes
<1>3. file = [i \in 1 .. size |-> Byte(Wants[r], i)]
  BY DEF FileBytes
<1>4. n <= size /\ \A i \in 1 .. n : body[r][i] = Byte(Wants[r], i)
  BY <1>1 DEF Delivered
<1> HIDE DEF file, size, n
<1>5. /\ file \in Seq(Bytes) /\ Len(file) = size
      /\ \A i \in 1 .. size : file[i] = Byte(Wants[r], i)
  BY <1>1, <1>2, <1>3, TupleSeq
<1>6. body[r] = SubSeq(file, 1, n)
  <2>1. /\ SubSeq(file, 1, n) \in Seq(Bytes) /\ Len(SubSeq(file, 1, n)) = n
        /\ \A i \in 1 .. n : SubSeq(file, 1, n)[i] = file[i]
    BY <1>1, <1>4, <1>5
  <2>2. \A i \in 1 .. n : body[r][i] = SubSeq(file, 1, n)[i]
    BY <1>1, <1>4, <1>5, <2>1
  <2> QED
    BY <1>1, <2>1, <2>2, SeqEqual DEF n
<1>7. n = size => body[r] = file
  BY <1>1, <1>4, <1>5, SeqEqual DEF n
<1>8. /\ header[r] = "OK" => Wants[r] \in Cached /\ length[r] = size
      /\ result[r] = "notfound" => Refusable(r)
      /\ result[r] = "total" => n = size \/ r \in broken
  BY DEF Delivered, size, n
<1>9. /\ header[r] = "OK" => Wants[r] \in Cached /\ length[r] = Len(file)
      /\ n <= Len(file)
      /\ body[r] = SubSeq(file, 1, n)
      /\ result[r] = "notfound" => Wants[r] \notin Cached \/ r \in broken
      /\ result[r] = "total" => body[r] = file \/ r \in broken
  BY <1>4, <1>5, <1>6, <1>7, <1>8 DEF Refusable
<1> QED
  BY <1>9 DEF file, n

\* The conjunction that the steps preserve.
Transfers == Connections /\ Service /\ Unused /\ FirstTransfers

\* On a segment that no request used before, the client gets what the cache has,
\* whatever fails on the way and wherever the cache stops: a file the cache has is
\* refused or cut short only by a failed lookup or read for this very request.  The
\* model ends where a stray close or a freed number has given a worker's descriptor
\* to another (Intact), and so does this promise.
THEOREM FirstUseSound == CrashSpec => []FirstUseIntegrity
<1>1. CrashInit => Transfers
  <2> SUFFICES ASSUME CrashInit
               PROVE  Transfers
    OBVIOUS
  <2>1. Connections
    BY DEF CrashInit, Init, Connections, Attending, ProxyReading
  <2>2. Service
    BY CacheChannelAssumption DEF CrashInit, Init, Service
  <2>3. Unused /\ FirstTransfers
    BY DEF CrashInit, Init, Unused, FirstTransfers, FirstUse
  <2> QED
    BY <2>1, <2>2, <2>3 DEF Transfers
<1>2. CrashTypeOK /\ Placed /\ Conserved /\ Transfers /\ [CrashNext]_crashVars
        => Transfers'
  BY ConnectionsStep, ServiceStep, UnusedStep, FirstTransfersStep DEF Transfers
<1>3. CrashTypeOK /\ Transfers => FirstUseIntegrity
  BY DeliveredIntegrity DEF Transfers, FirstTransfers, FirstTransfer, FirstUseIntegrity
<1> QED
  BY <1>1, <1>2, <1>3, CrashTyping, CrashConserved, PTL DEF CrashSpec
=============================================================================
