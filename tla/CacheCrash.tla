----------------------------- MODULE CacheCrash -----------------------------
(***************************************************************************)
(* The transfer of CacheChannel when the cache process does not last: it   *)
(* is killed, or stopped by SIGINT or SIGTERM (_sig_handler), and started  *)
(* again, while the proxy runs on.  The segments and their semaphores      *)
(* outlive the cache; its queue, its connections and its workers, with the *)
(* tokens they hold, do not.                                               *)
(*                                                                         *)
(* The handler of the cache runs in the main thread, so that nothing is    *)
(* accepted meanwhile; its workers go on until exit, and their descriptors *)
(* may get the numbers that the handler frees.                             *)
(***************************************************************************)
EXTENDS CacheChannel

CONSTANT MaxStops       \* how often the cache is stopped or killed

ASSUME CacheCrashAssumption == MaxStops \in Nat

VARIABLES
    life,       \* where the cache process is
    stops,      \* how often it has been stopped or killed
    proxyUp,    \* the proxy process lives
    dropped,    \* requests the cache had and will never answer
    lost,       \* segments whose token died with a worker of the cache
    broken      \* requests for which the cache failed to look up or to read the file

processVars == <<life, stops, proxyUp>>
historyVars == <<dropped, lost, broken>>

crashVars == <<vars, processVars, historyVars>>

\* "closing": cache_socket_cleanup is done, "closed": simplecache_destroy too.
LifeStates == {"down", "up", "closing", "closed"}

CrashTypeOK ==
    /\ TypeOK
    /\ life \in LifeStates
    /\ stops \in 0 .. MaxStops
    /\ proxyUp \in BOOLEAN
    /\ dropped \subseteq Requests
    /\ lost \subseteq Segments
    /\ broken \subseteq Requests
    /\ listening => life = "up"

CrashInit ==
    /\ Init
    /\ life = "down"
    /\ stops = 0
    /\ proxyUp = TRUE
    /\ dropped = {}
    /\ lost = {}
    /\ broken = {}

Elements(q) == {q[i] : i \in DOMAIN q}

\* The cache has r's connection: unaccepted, queued or with a worker.
Connected(r) ==
    r \in Elements(backlog) \cup Elements(workq) \cup CacheActive

-----------------------------------------------------------------------------
(* Starting and stopping the cache.                                        *)

\* main: the table of files, the workers, the socket.
StartCache ==
    /\ life = "down"
    /\ CacheStart
    /\ life' = "up"
    /\ UNCHANGED <<stops, proxyUp, historyVars>>

\* _sig_handler, cache_socket_cleanup: the listening socket goes, and with it
\* the connections that have not been accepted.  If a stray close has taken it
\* already, its number may be somebody else's by now.
Signal ==
    /\ life = "up"
    /\ stops < MaxStops
    /\ life' = "closing"
    /\ stops' = stops + 1
    /\ listening' = FALSE
    /\ dropped' = dropped \cup Elements(backlog)
    /\ backlog' = <<>>
    /\ stray' \in IF stray = "socket" THEN {"socket", "other"} ELSE {stray}
    /\ UNCHANGED <<inUse, shmVars, conn, workq, proxyVars, cacheVars, proxyUp, lost,
                   broken>>

\* simplecache_destroy closes the descriptors of the files.
Destroy ==
    /\ life = "closing"
    /\ life' = "closed"
    /\ UNCHANGED <<vars, stops, proxyUp, historyVars>>

\* What the end of the process takes away.
Dies ==
    /\ life' = "down"
    /\ listening' = FALSE
    /\ backlog' = <<>>
    /\ workq' = <<>>
    /\ stray' = "none"
    /\ cpc' = [r \in Requests |-> IF r \in CacheActive THEN "done" ELSE cpc[r]]
    /\ dropped' = dropped \cup {r \in Requests : Connected(r)}
    /\ lost' = lost \cup {seg[r] : r \in {q \in Requests : cpc[q] \in CacheWriting}}
    /\ UNCHANGED <<inUse, shmVars, conn, proxyVars, offset, proxyUp, broken>>

\* _sig_handler: exit.
Exit ==
    /\ life = "closed"
    /\ Dies
    /\ UNCHANGED stops

\* An end without the handler: SIGKILL, or a fault in the process.
Kill ==
    /\ life # "down"
    /\ stops < MaxStops
    /\ stops' = stops + 1
    /\ Dies

-----------------------------------------------------------------------------
(* The workers of both processes between these events.                     *)

\* The write of a request to a connection that the cache no longer has raises
\* SIGPIPE, which the proxy (unlike the cache) does not ignore.
BrokenPipe(r) ==
    /\ proxyUp
    /\ ppc[r] = "write"
    /\ ~Connected(r)
    /\ proxyUp' = FALSE
    /\ conn' = [q \in Requests |-> IF conn[q] = "open" THEN "eof" ELSE conn[q]]
    /\ UNCHANGED <<inUse, shmVars, listening, backlog, workq, stray, proxyVars,
                   cacheVars, life, stops, historyVars>>

ProxyRuns(r) ==
    /\ proxyUp
    /\ ppc[r] = "write" => Connected(r)
    /\ ProxyStep(r)
    /\ UNCHANGED <<processVars, historyVars>>

\* After simplecache_destroy the descriptors of the files are closed and the table
\* is freed: the lookup or dup fails, or what it finds, or what the cleanup of the
\* failed lookup closes (see StrayCleanup), is in use again.
LookupClosed(r) ==
    /\ life = "closed"
    /\ cpc[r] = "read"
    /\ conn[r] = "request"
    /\ \/ /\ ToCache(r, "waitFail")
          /\ broken' = broken \cup {r}
          /\ UNCHANGED stray
       \/ /\ stray' = "other"
          /\ UNCHANGED <<cpc, broken>>
    /\ UNCHANGED <<inUse, shmVars, listening, backlog, conn, workq, proxyVars, offset,
                   processVars, dropped, lost>>

GivesUp(r) == cpc[r] = "read" /\ conn[r] = "request" /\ cpc'[r] = "unset"

\* dup or fstat fails for a file that the cache has, or pread does.
ReadFails(r) ==
    \/ cpc[r] = "read" /\ cpc'[r] = "waitFail" /\ Wants[r] \in Cached
    \/ cpc[r] = "fill" /\ cpc'[r] = "postFail"

CacheRuns(r) ==
    /\ life # "down"
    /\ CacheStep(r)
    /\ life = "closed" => ~(cpc[r] = "read" /\ cpc'[r] \in {"waitData", "waitFail"})
    /\ dropped' = dropped \cup (IF GivesUp(r) THEN {r} ELSE {})
                          \cup (IF listening' THEN {} ELSE Elements(backlog))
    /\ broken' = broken \cup (IF ReadFails(r) THEN {r} ELSE {})
    /\ UNCHANGED <<processVars, lost>>

AcceptRuns == Accept /\ UNCHANGED <<processVars, historyVars>>

Rest == ~proxyUp /\ UNCHANGED crashVars

CrashNext ==
    \/ /\ Intact
       /\ \/ StartCache \/ Signal \/ Destroy \/ Exit \/ Kill
          \/ AcceptRuns
          \/ \E r \in Requests :
                BrokenPipe(r) \/ ProxyRuns(r) \/ LookupClosed(r) \/ CacheRuns(r)
    \/ Idle /\ UNCHANGED <<processVars, historyVars>>
    \/ Rest

\* The operator starts a cache that is down, a handler that has begun ends, and
\* threads that can run do run.  Signals and kills are not fair, and a send may
\* stall: a header, unlike a body, fits into the buffer of a fresh connection.
CrashFairness ==
    /\ WF_crashVars(Intact /\ StartCache)
    /\ WF_crashVars(Intact /\ Destroy)
    /\ WF_crashVars(Intact /\ Exit)
    /\ WF_crashVars(Intact /\ AcceptRuns)
    /\ \A r \in Requests :
          /\ WF_crashVars(Intact /\ (ProxyRuns(r) \/ BrokenPipe(r)))
          /\ WF_crashVars(Intact /\ (CacheRuns(r) \/ LookupClosed(r)))

CrashSpec == CrashInit /\ [][CrashNext]_crashVars

CrashFairSpec == CrashSpec /\ CrashFairness

-----------------------------------------------------------------------------
(* Properties.                                                             *)

\* The token of a segment (simplecached.c:143-163 against
\* handle_with_cache.c:52-89) is in one place, or it died with the worker that
\* held it: a stop never duplicates it, and neither a restart nor a new owner of
\* the segment brings it back.
TokenOrLost ==
    \A s \in Segments :
        LET holders == Cardinality(Readers(s)) + Cardinality(Writers(s))
        IN  empty[s] + full[s] + holders = IF s \in lost THEN 0 ELSE 1

\* No other request has used the segment of r so far.
FirstUse(r) ==
    /\ seg[r] # 0
    /\ \A q \in Requests \ {r} : seg[q] # seg[r]

FileBytes(p) == [i \in 1 .. Size[p] |-> Byte(p, i)]

\* On a segment that no request used before, the client gets what the cache has,
\* whatever fails on the way and wherever the cache stops: the right length in
\* the header, the bytes of the file in order and without gap or repetition, and
\* all of it when the handler returns the total, unless reading the file failed
\* half-way.  A file that the cache has is refused only if the cache failed to read
\* it for this very request, or looked it up after its table was destroyed
\* (simplecached.c:39-46, 124-161).  All this until a stray close or a freed number
\* has given one worker's descriptor to another, which ends the model.
FirstUseIntegrity ==
    \A r \in Requests : FirstUse(r) =>
        LET file == FileBytes(Wants[r])
        IN  /\ header[r] = "OK" => Wants[r] \in Cached /\ length[r] = Len(file)
            /\ Len(body[r]) <= Len(file)
            /\ body[r] = SubSeq(file, 1, Len(body[r]))
            /\ result[r] = "notfound" => Wants[r] \notin Cached \/ r \in broken
            /\ result[r] = "total" => body[r] = file \/ r \in broken

\* All cache workers sleep on sem_empty for transfers whose proxy worker is gone
\* (handle_with_cache.c:77-80) or stalled: the queue is not served any more.
Exhausted ==
    CacheThreads <=
        Cardinality({q \in Requests : cpc[q] \in {"waitData", "waitFail"}
                                      /\ ppc[q] \in {"reply", "done", "stalled"}
                                      /\ empty[seg[q]] = 0})

\* A stray close (simplecached.c:186) has taken the listening socket: the cache
\* runs on without it, and nobody restarts it.
Deaf == life = "up" /\ stray = "socket"

\* A proxy worker that can never go on: its request, or the token of its
\* segment, was with the cache when it stopped, or nobody pops its connection;
\* or it tries to connect to a deaf cache; or its client does not read.
Stranded(r) ==
    \/ ppc[r] = "wait" /\ (r \in dropped \/ seg[r] \in lost \/ Exhausted)
    \/ ppc[r] = "connect" /\ Deaf
    \/ ppc[r] = "stalled"

\* A proxy worker asleep on sem_full (handle_with_cache.c:52) is woken, or there
\* is one of three reasons for its waiting for ever: its request was dropped, the
\* token of its segment is lost, or the cache's workers are exhausted.
SleeperExplained ==
    \A r \in Requests : proxyUp /\ ppc[r] = "wait" =>
        \/ full[seg[r]] > 0
        \/ \E q \in Requests :
              /\ seg[q] = seg[r]
              /\ \/ cpc[q] \in CacheWriting \cup {"waitData", "waitFail"}
                 \/ cpc[q] = "check" /\ ~pkt[seg[r]].streamDone
        \/ conn[r] = "request" /\ Connected(r)
        \/ Stranded(r)

\* All segments are with stranded requests, and r waits for one.
NoSegment(r) ==
    /\ ppc[r] = "acquire"
    /\ \A s \in Segments : \E q \in Requests : seg[q] = s /\ Stranded(q)

\* r waits for a segment or a thread, and stranded requests, or others that wait
\* for the segments of those, hold them all.
Starved(r) ==
    \/ NoSegment(r)
    \/ /\ ppc[r] = "idle"
       /\ Cardinality(ProxyActive) = ProxyThreads
       /\ \A q \in ProxyActive : Stranded(q) \/ NoSegment(q)

\* Every request is answered although the cache is started late, is stopped and
\* is started again (handle_with_cache.c:41-45).  There are these exceptions: the
\* proxy has died of a write to the stopped cache; the request is stranded, or
\* starved by stranded ones, for good; or a stray close, or a number freed by the
\* handler, has mixed up the descriptors of the cache.
EndsOrStranded ==
    \A r \in Requests :
        \/ <>(ppc[r] = "done" \/ ~proxyUp \/ ~Intact)
        \/ <>[](Stranded(r) \/ Starved(r))
=============================================================================
