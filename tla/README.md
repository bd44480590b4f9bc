# Verification of the proxy, cache and getfile programs

This directory holds TLA+ specifications of the C programs of this repository,
the TLC configurations that check them on small instances, and proofs for TLAPS.
Source paths are relative to `src/`; the caching proxy is
`projects/proxycacheserver/cache/`, called `cache/` below.

## The system

The repository is a set of C programs on one theme: file servers.

| part | sources | state | hard behaviour |
|---|---|---|---|
| segment pool | `cache/shm_channel.c` | table of segments with `inUse`, mutex, condition variable; named objects that outlive the process | sleepers and wake-ups, barging; a stop or a kill at any point of start-up, work and teardown, process ids used again |
| transfer protocol | `cache/handle_with_cache.c`, `cache/simplecached.c` | per segment a packet and two semaphores, per request a command connection, a proxy worker and a cache worker | two processes, failing calls, abandoned transfers, reuse of segments, a cache that stops and restarts |
| work queue of the cache | `cache/simplecached.c` | `steque`, mutex, condition variable, the table of descriptors | wake-ups, order; a full table, a close of an indeterminate descriptor |
| start-up and signal handlers | `cache/webproxy.c`, `cache/simplecached.c` | global pointers, the pool, the socket | signals while workers run |
| key lookup | `cache/simplecache.c`, `mtgf/content.c` | sorted table of keys and descriptors | capacity of the table, boundaries of the binary search |
| steque | `steque.c` (three copies) | linked list with two end pointers and a count | the last node, `cycle`, `destroy` |
| multithreaded getfile server | `mtgf/handler.c`, `mtgf/gfserver_main.c` | job queue, `queueingDone`, worker threads | shutdown while jobs are queued, a signal inside the handler, failing reads and sends |
| multithreaded getfile client | `mtgf/gfclient_download.c` | request queue, shared download counter | data race, joins |
| getfile library | `gflib/gfserver.c`, `gflib/gfclient.c` | sockets, header buffer, parser | header split over reads, body behind the header, short bodies, silent clients |
| simple proxies | `proxycacheserver/server/handle_with_curl.c`, `handle_with_file.c` | one download per worker thread | two answers to one request, silent origins, clients that do not read |
| echo, transfer | `projects/echoProject`, `projects/transferProject` | one socket, one buffer | partial reads and writes, clients that are killed, a server that exits and restarts |
| exercises | `exercises/` | small programs | linked list, signals |

The request path of the caching proxy is the core.  A worker of the proxy takes
a segment from the pool, clears its packet, connects to the cache's socket
(retrying until the cache is up) and writes a request that names the file, the
segment and its two semaphores.  The cache's main thread accepts the connection
and queues it; a cache worker pops it, reads the request, maps the segment and
streams the file: it waits on `sem_empty`, stores a packet, posts `sem_full`.
The proxy's worker waits on `sem_full`, sends the packet to the client and posts
`sem_empty`.  Nothing but the semaphores tells the cache worker how the proxy
fares; the proxy closes its connection and releases the segment without waiting
for the cache worker to detach.

## Modules

* `SegmentOwnership` is the abstract promise of the pool: a worker takes a
  segment nobody has and gives back the one it holds.
* `SegmentPool` is the pool of `shm_channel.c`.  A critical section of the mutex
  is one action; a thread in `"waiting"` sleeps in `pthread_cond_wait`, a
  `"woken"` one has been signalled (or woke up spuriously) and must scan again.
  `Acquire`/`Wait` are the two outcomes of the scan in `proxy_seg_acq`,
  `Release` is `proxy_seg_release` with its signal.
* `PoolLifecycle` extends it with the process around the pool, several times over:
  `StartProxy` and `Create` are `proxy_pool_init` step by step (the names, the
  shared memory, the two semaphores, for each segment), `InitFails` its failures,
  `Signal`, `Teardown` and `Exit` the handler with `proxy_pool_destroy`, `Kill` an
  end without handler, `Fault` a worker that touches an unmapped segment while the
  handler runs.  `object` are the named objects, which outlive the process.
* `WorkQueue` is the queue of `simplecached.c`: `Push` is `accept` and
  `work_q_push`, `Pop`/`Wait` are `work_q_pop`, `Finish` the return of
  `handle_cache_request`.
* `CacheDescriptors` extends it with the descriptor table of the cache process:
  `AcceptJob` needs a free number, `OpenShm`, `Get`, `Dup` take theirs, and
  `CloseReq`, `CloseShm`, `CloseClient` are the cleanup in the code's order.
  `CloseReq` closes whatever `reqfd` holds: on the paths that jump over its
  declaration (`simplecached.c:129`) that is any number, and `strayed` records
  that it was somebody's.  In `OpenShm` and `LeaveTransfer` the worker waits for the
  proxy, which may have abandoned it (`WaitsForProxy`).
* `CacheChannel` composes the two processes.  `ppc[r]` and `cpc[r]` are the
  positions of the proxy worker and the cache worker of request `r`; the other
  variables are the pool's flags, the packet and semaphores of every segment,
  the command channel (listening socket, backlog, connections, work queue) and
  what the client has received.  A step reaches from one blocking point or access
  to shared memory to the next.  The calls that may fail are a constant, `Faults`:
  `write` of the request, `gfs_sendheader` (`header`), `gfs_send` (`send`), the
  cache worker's `shm_open`/`mmap`/`sem_open` (`setup`), `dup`/`fstat` (`dup`) and
  `pread`; with `stall` a `gfs_send` does not return.  A cache worker that took a
  goto over `reqfd` (a connection without a request, `setup`, a miss: `cpc[r]` is
  `"unset"`) cleans up by `StrayCleanup`, which closes nothing, the listening socket,
  or another descriptor; `stray` says which.  In the last case the model ends
  (`Intact`): whose file or connection a number then means is the subject of
  `CacheDescriptors`.  The `memset` that clears a packet holds no semaphore token, so a stale
  cache worker may store into the packet meanwhile: `Clear` and `Cleaned` bound
  the `memset`, and a store between them may lose any of its fields.
* `CacheCrash` extends it with a cache process that does not last: `StartCache`,
  `Signal`, `Destroy` and `Exit` are `main` and `_sig_handler`, `Kill` ends it at any
  point.  Segments and semaphores stay, with whatever token a dead worker held
  (`lost`); queue, connections and workers go (`dropped` are the requests that
  went with them); the proxy goes on connecting, or dies of SIGPIPE (`BrokenPipe`).
  Between `simplecache_destroy` and `exit` a lookup fails (`LookupClosed`), or finds a
  number that is in use again, which ends the model like a stray close.  `broken`
  are the requests for which the cache failed to look up or to read its file.
* `ContentMap` is the table of keys of `simplecache.c` and `content.c`: `ReadLine`
  and `EndOfFile` load and sort it (`AppendItem` grows the array), `Get`, `GoLeft`,
  `GoRight`, `Found` and `NotFound` are the binary search, step by step, in threads
  of their own.  A descriptor stands for the line it was opened for.
* `Steque` is `steque.c` with its heap: `node[a]` is the node at address `a`, also
  after `free`, and a call takes any free address.  `Deque` is the sequence that
  `steque.h` promises; `Contents` follows the list from `front`, and is `Broken`
  when the chain, the count, `back` and the allocated nodes do not agree.
* `JobPool` is the abstract promise of a boss and its workers: jobs start once and
  in order, none is queued after the end is announced, the program ends when all
  are done.  `MtgfClient` and `MtgfServer` both implement it.
* `MtgfClient` is `mtgf/gfclient_download.c`: `Enqueue`, `Close` and `Join` are
  `main`; `Wait`, `Leave` and `Pop` the head of `client_worker_job`, whose mutex
  makes each a step; `LoadCounter` and `StoreCounter` are the unlocked `counter++`
  of `localPath`; `Perform` is `gfc_perform` with any result its header allows;
  `Unlink` and `CheckStatus` are the two places that remove a file.
* `MtgfServer` is `mtgf/handler.c` with `gfserver_main.c`.  `queue_mtx` is a
  variable here, because a signal may interrupt `main` while it owns it:
  `HandlerLock`, `Enqueue` and `Signalled` are the points inside `gfs_handler`,
  `Signal` is `_sig_handler` with `exit`, `CleanupThreads` and `JoinThreads` are
  `cleanup_threads`.  A worker sends through `Announce`, `Read`, `Send` and ends
  with `Done` or `Abort`.
* `GetFile` is `gflib`: `gfc_perform` (from `Connect` to `BodyEnds`) against the
  loop of `gfserver_serve` (from `Accept` to `Close`) over a pair of byte streams
  that are cut anywhere; `BeginSend`, `SendPiece` and `SendFails` are the loop of
  `gfs_send`, which blocks while the client's socket is full.  The handler it
  calls is any handler that sends a header and part of a body, or nothing.  A
  client may die or stay connected in silence.
* `Transfer` is `transferserver.c` and `transferclient.c`, `Echo` is `echoserver.c`
  and `echoclient.c`, each with a server that is started again when it has ended.
  In `Transfer` a failed `send` leaves only the inner loop (`LeaveInnerLoop`): for a
  client that has exited (`SendFails`) or, by the fault `send`, for one that is there
  (`SendRefused`, recorded in `skipped`).  In `Echo` a client may be killed at any
  point (`Die`), and `accept` may fail (`AcceptFails`).
* `SimpleProxy` is `handle_with_curl.c` on the worker threads of the library, with
  origins that answer, miss, answer with an error page, break off or fall silent,
  and clients that leave or stay without reading (`SendBlocks`);
  what the library does after a negative result is external.
* `MCCacheChannel`, `MCCacheCrash`, `MCMtgfClient` and `MCMtgfServer` give the files,
  requests and workload of the checked instances.  `MCPrograms` runs one of
  `Transfer`, `Echo` and `SimpleProxy` per behaviour, `MCStructures` one of
  `ContentMap` and `Steque`.
* `PoolLifecycle_proofs` (which begins with those of `SegmentPool`),
  `WorkQueue_proofs` (with those of `CacheDescriptors`), `CacheCrash_proofs` (which
  begins with those of `CacheChannel`), `ContentMap_proofs`, `MtgfServer_proofs`,
  `MtgfClient_proofs`, `GetFile_proofs` and `Programs_proofs` (`Transfer`, `SimpleProxy`
  and `Echo` as `MCPrograms` runs them) hold the proofs.

Operators named after a defect (`ReleaseSilently`, `PostEmptyNotOnFailure`, ...)
and marked "Mutant" are not part of any specification; each is the slip in the
code that the property next to it in `PROJECT.json` would catch.

## Runs

| run | instance | shows |
|---|---|---|
| `pool` | 4 workers, 2 segments, 2 starts of the proxy with one process id | exclusive use, no lost wake-up, no stall, refinement of `SegmentOwnership`; no named object outlives a proxy that ends as it should, a pool starts with its tokens |
| `workqueue` | 2 workers, 3 connections, 5 descriptors | every descriptor has one owner until a stray close; every connection is taken by a worker, with three lasting states as exceptions |
| `channel_faults` | 2 requests (a file the cache has, one it has not), 2 segments, 1 cache worker, every fault, stray closes, 1 stop of the cache | exclusive segments, integrity on a segment's first use, refinement of `SegmentOwnership`, every request ends or is stranded for a named reason |
| `channel_reuse` | 3 requests, 1 segment, clients that disconnect, a cache that is not stopped (`MaxStops` 0) | one token per segment, stable packets, nobody forgotten (no deadlock) |
| `channel_crash` | 2 requests, 1 segment, every fault but `dup` and `pread`, stray closes, 2 stops of the cache | the token is kept or recorded as lost, every sleeper is explained, every request ends or is stranded |
| `channel_header` (violation) | 2 requests, 1 segment, no fault | a client is told the length of another's file |
| `structures` | files of up to 4 lines over 4 keys with repetitions, first capacity 2; lists of up to 4 nodes over 2 items | loading stays in the array, the comment in the search loop, exact and terminating lookup; refinement of `Deque` |
| `mtgf_client` | 2 workers, 3 requests, one path twice | refinement of `JobPool`, files agree with results, `main` returns |
| `mtgf_server` | 2 workers, 3 requests, every fault, 2 signals | refinement of `JobPool`, whole or aborted answers, every job answered, a signal stops the server |
| `getfile` | 2 clients, headers of 2 bytes, a file of 3, header and socket buffers of 3, clients that die or fall silent | honest results, bytes in place, every call returns |
| `getfile_body` (violation) | 1 client | the first byte of the body is lost |
| `programs` | 2 clients, a file of 3 bytes, buffers of 2; 4 echo clients; 2 proxy requests on 1 thread | transfer: no hole, success is a whole file, every client ends; echo: own message, explained exits, clients that are killed, every client ends; proxy: honest and eventual answers |

Bounds.  A packet holds one byte (`DataCap`), files have one or two, so that a
transfer has a first, a last and a repeated packet.  Two requests on one segment
are enough for a stale worker to meet a new owner; three let two stale workers
compete for one token.  Two stops let a cache that was started again be stopped
while the requests of the first one are stranded.  Four workers on two segments
give two sleepers, a woken thread and a newcomer at once; two starts with one
process id make the second pool find what the first one left.  Five descriptors
are the file, the listening socket and three more, fewer than two workers and a
third connection ask for, so that the table is full on every path (6 and 7 have
been run as well).  Four lines over
a first capacity of two grow the table twice and end it on and off its capacity;
searches end at both ends and in the middle.  Four addresses are a list of up to
four nodes with freed addresses used again; a freed node keeps its old fields, so
that a use after free is seen.  Two workers and three jobs leave one job queued
while both are busy; `BufferSize` 2 makes a file of one, two or no reads.  In
`GetFile` a header of two bytes can be cut, a file of three can arrive with the
header whole, in part or not at all, and the header and socket buffers of three can
be full.  In `Transfer` a file of three over buffers of two is a full buffer, a
partial one, and every cut of both.  The messages of `Echo` are empty, shorter than
the limit, of its length and longer.  One thread for two proxy requests lets a
silent origin hold up the second one.  In `CacheDescriptors` connections are alike
and come in one fixed order.

Runs of a cfg carry the properties that no other one implies; the type invariants
(`TypeOK`, `LifeTypeOK`, `DescTypeOK`, `CrashTypeOK`) and `FifoOnce` and `NoLostWakeup`
of `WorkQueue` are stated in the modules and, for the modules with proofs, proved
instead of run.

Deadlock is checked in all runs but two: `CHECK_DEADLOCK FALSE` stands in
`ChannelFaults.cfg` and `ChannelCrash.cfg`, where proxy workers whose request or token
was with a stopped cache, or whose cache worker failed in its set-up, really wait
for ever.  Elsewhere TLC reports any state in which somebody unanswered cannot go
on; `Idle`, `Rest` and `Stopped` are the states in which the work is done.

Fairness.  Weak fairness of every thread's next step: the operating system runs
threads that can run, and in a sequential program that has not stopped the next
call is made.  Requests arrive because `Start` is part of a proxy step; `StartCache`
is fair because the operator starts the cache again (`MaxStops` bounds how often it
ends).  A stop, a kill, a signal, a death, a client that falls silent or does not
read, a restart of the other servers, a new start of the proxy, a spurious wake-up, an
optional fault, in `CacheDescriptors` the two steps of a handler that wait for the proxy
(`WaitingStep`) and (in `SegmentPool`) a new call are not fair.

What a call of an external library does is an assumption where its source is missing.
In the mtgf models fairness of `Perform` and `Send` says that `gfc_perform` and
`gfs_send` return.  In the two proxies, `CacheCrash` and `SimpleProxy`, `gfs_send` of body
bytes need not: its client may stay and not read, and nothing sets a time limit
(`SendStalls`, `SendBlocks`); only a header, which fits into the send buffer of a
fresh connection, is assumed to be sent, or to fail, at once.

A liveness property that the code does not keep without exception names its
exceptions as states that last, within its model:

* `EndsOrStranded`: a request whose connection or token was with a cache that
  ended, gave up in its set-up or lost its socket (`dropped`, `lost`); all cache
  workers asleep on `sem_empty` for transfers whose client left or does not read
  (`Exhausted`); a client of this request that does not read; a cache that runs on
  without a listening socket, to which the proxy's workers try to connect for ever
  (`Deaf`); requests that wait behind those; a proxy that died of SIGPIPE; and the end
  of the model (`~Intact`), when a stray close or a freed number has mixed up the
  descriptors of the cache;
* `EveryConnectionServed`: every cache worker waits for its proxy worker
  (`simplecached.c:96`, `143`, `176`), which has abandoned the transfer or does not go on;
  those that wait hold the whole table; or a stray close has hit the listening socket;
* `EveryPerformReturns`: the server waits in `recv` or `send`, without a time limit,
  for a client that is silent;
* `EveryEchoEnds`: an empty message sends nothing, both ends wait;
* `EveryRequestAnswered`: a silent origin, or a client that stays and does not read,
  holds the thread, or such ones hold all threads.

## What the violations show

1. `channel_header`, `simplecached.c:163-167`: after posting its last packet the
   cache worker looks at `pkt->streamDone` in shared memory.  By then the proxy may
   have released the segment and the next owner may have cleared it.  The worker
   sees 0, goes round, takes the empty token, and posts one more packet with its
   own file's size and no data; the new owner announces that size to its client.
   No call has to fail.
2. `getfile_body`, `gflib/gfclient.c:196`: the zero that ends the header for
   `sscanf` is written into `headerBuffer`, where the body begins, instead of its
   copy.  If bytes of the body arrived with the header, the callback receives zero
   for the first of them and `gfc_perform` returns 0.

The passing properties say where they stop, and each of these limits is a behaviour
of the code:

* `FirstUseIntegrity` is about a segment's first use.  When a client disconnects
  (`handle_with_cache.c:77-80`) the cache worker is not told and keeps filling
  packets into a segment that has a new owner, whose client may receive them.  Its
  exceptions are the requests in `broken`, for which reading failed in the cache: a
  failed `dup` refuses a file that the cache has, and a failed `pread` is reported by
  `CACHE_STATUS_NOTFOUND` in a packet whose status is not read after the header has
  gone out, so that the handler returns a total.  And it ends with the model: a stray
  close can give the number of a worker's `reqfd` to another file, and a number that
  `simplecache_destroy` has freed may be used again before `exit`, while workers still
  look up in the freed table.
* `FilesMatchOutcomes` is about paths requested once.  Two workers may make the same
  local name for one path, because `counter++` (`mtgf/gfclient_download.c:35`) is a
  load and a store without a lock: one file is missing at the end, or is unlinked by
  the other's failure.
* `SignalStops` and `EveryJobAnswered` except `SelfLocked`: a signal that interrupts
  `main` while it owns `queue_mtx` calls `exit`, whose handler locks that mutex again.
* `SuccessIsWhole` excepts the clients in `cut`: the end of the stream is all that
  tells the end of the file.  It and `NoHole` except those in `skipped`: a `send` that
  fails (`transferserver.c:141-143`) while its client stays leaves a hole, behind which
  the next chunk is sent.
* `ResultTellsOutcome` counts every refusal as a whole response, also `INVALID`, for which
  `gflib/gfclient.c:228-232` returns 0 although `gfclient.h:87-92` does not list it.
* `DescriptorsOwned` holds until `strayed`: the gotos of `handle_cache_request` to its
  cleanup jump over `int reqfd = -1` (`simplecached.c:129`), and the cleanup closes
  whatever number is there.
* `NamesExplained` and `FreshPool` except the ids in `unclean`: a proxy that was killed,
  failed in `proxy_pool_init` (`webproxy.c:142-149` exits without a teardown) or
  faulted in the handler leaves its names, and `sem_open` without `O_EXCL` takes over
  their values in a later process of the same id.  `TokenOrLost` is the same about
  the tokens that a stopped cache held.
* `BodyInPlace` leaves out the byte that `getfile_body` shows lost, and
  `ExitExplained`, an action property, says when `echoserver` exits for everybody: when
  `accept` fails (`echoserver.c:117-121`), or while it serves a client that sent its
  message and ended without the whole echo (`LeftEarly`), because its one `recv`
  returned a part or because it was killed.  The rest of the echo is answered by a
  reset, and `recv` or `send` fails.

## Proofs

The first part of `PoolLifecycle_proofs` proves of `SegmentPool`, for any finite set of workers and any number of
segments, the type invariant, `ExclusiveUse`, `NoLostWakeup` and the refinement
of `SegmentOwnership`.  `NoLostWakeup` is a count: while somebody sleeps, free
segments are no more than woken threads.  It is inductive together with
`ExclusiveUse` (a release frees a segment that was not free) because a release
adds one to both sides, a woken thread that takes a segment subtracts one from
both, a newcomer that takes one subtracts from the left only, and a thread goes
to sleep only when the left side is 0.  Each of these is a lemma about one step of
`Next`, so that it serves the next module too.

Its second part proves the same for any number of process ids and starts, with
a process that may end anywhere, and two theorems of its own.  A step of the life is
a step of the pool (`PoolPart`, in a phase in which workers run), the disappearance
of a thread, or leaves the pool alone; `Phases` ties the phases to the counters
`made` and `torn` and to workers that do not run before the pool is made.
`LifeNamesExplained` and `LifeFreshPool` rest on `NamesInv`, which says for every
object whether it exists, by the place (`Index`) of the step that makes and removes
it: `CreateEffect` and `TeardownEffect` are what a step of `proxy_pool_init` and of
`proxy_pool_destroy` does to one object.

`WorkQueue_proofs` proves for any number of workers and connections that connections
are served once and in order (`QueueFifoOnce`) and that no wake-up is lost
(`QueueNoLostWakeup`, the count of the pool with queued connections in the place of
free segments), and that `CacheDescriptors` implements `WorkQueue`
(`DescriptorsUseQueue`), so that both hold of the cache with its descriptors.
`DescriptorsHaveOwners` (`DescriptorsOwned`) is proved from `DescIInv`: the place of a
worker in the handler tells which of its variables may hold a descriptor
(`StepVariables`); a connection that was not accepted has none (`NumbersAccepted`);
and until a stray close every number refers to what it was opened for, no two
variables hold the same one, and nothing open is without an owner (`Owners`).
`OwnersOpen` and `OwnersClose` are what one open and one close do to that; a close of
an indeterminate number either hits a free one or sets `strayed`.

The first part of `CacheCrash_proofs` proves of `CacheChannel`, for any requests, segments, threads, files and
faults:

* `Typing`: the type invariant with `Placed`, the strengthening that ties a
  request's places together (a request has a segment before it reaches the
  command channel and keeps it; a connection waits in one place of one queue and
  no worker serves it meanwhile).  Without it, `Pop` could restart a worker that
  holds a token.
* `TokenConserved` (`OneToken`) from `Typing`: the four semaphore operations move
  the token between `empty`, `full`, one reader and one writer, everything else
  leaves the holders alone.
* `ExclusiveSegments` (`SegmentExclusive`) and `ChannelImplementsOwnership`: only
  `Acquire` and `Release` change the owners.
* `ReadersUndisturbed` (`PacketStable`): a packet is written by an owner that
  clears or by a writer; the first is the reader itself, by `SegmentExclusive`,
  the second excludes a reader, by `OneToken`.

Its second part proves for any number of stops and kills of the cache:

* `CrashTyping`, and `TokenNeverDuplicated` (`TokenOrLost`) from `CrashConserved`: a
  segment that is not `lost` has its one token, as in `CacheChannel`, of whose lemmas
  the steps of the two processes (`TransferPart`) are instances; a process that dies
  moves the tokens of its workers to `lost`, and a lost one is nowhere.
* `CrashExclusiveSegments` and `CrashReadersUndisturbed`: exclusive use and stable
  packets outlive the cache.
* `SleepersExplained` (`SleeperExplained`).  `Connections` says where a connection that
  the proxy has not closed may be, `LastPacket` that a packet marked as the last one
  stays until the proxy has read it, and that a cache worker leaves its loop only when
  it is there.  The second needs the token: a worker that would overwrite the packet
  holds what the reader, or `empty`, has.
* `FirstUseSound` (`FirstUseIntegrity`), until the model ends.  `FirstTransfer` relates the file, the packet
  in the segment and what the client has: an unsent packet (`Fresh`) is the next piece
  or a refusal, and without one as much was sent as was read.  It is stated of
  requests whose segment nobody used before, because then no cache worker but its
  own can hold the token (`ReaderAlone`, `OtherWorkers`).  `Service` says which requests
  the cache may refuse (those for a file it has not, and those in `broken`), `Unused` that the semaphores of a segment are as created
  until its first use.

`MtgfServer_proofs` proves, for any number of workers, jobs and signals and any
bodies, `ServerTyping`, `ServerHonestAnswer` (`HonestAnswer`) and
`ServerImplementsJobPool`.  The invariant ties the phases of `main` to the signals that
came and to `queueingDone` (`Phases`), puts every queued job in one place, the queue, one
worker or `finished` (`JobsPlaced`), and says for every place of a worker what its client
has and what its buffer holds (`Progress`: the buffer is the body from the next
byte on).  `JobsPlaced` makes each step one of `JobPool` or a stutter; that the program
ends when all are done needs `Phases` as well: a worker leaves only behind an empty
queue that nobody fills.

`MtgfClient_proofs` proves in the same way `ClientTyping`, `ClientFilesMatch`
(`FilesMatchOutcomes`) and `ClientImplementsJobPool`, for any number of workers and any
workload.  The type invariant is not inductive without `CounterBehind`: the
unlocked counter loses increments, but never runs ahead of the jobs that were
numbered, so a name has a number below the number of requests.  `FilePlaced` follows
the file of a request whose path is requested once through `Perform`, `CheckStatus` and
`Unlink`; other workers write other names (`OtherFile`).

`GetFile_proofs` proves, for any number of clients and any lengths of header, file and
buffers, `GetFileTyping`, `GetFileResultTells` (`ResultTellsOutcome`) and
`GetFileBodyInPlace` (`BodyInPlace`).  The invariant counts and places the bytes of one
connection: what the client has taken and what is under way are together what the
server has sent, unless the client is gone (`Counts`); byte `i` is byte `i` of the
response wherever it is, but for the one that `gfclient.c:196` zeroes (`Positions`).  A
whole header in the buffer is then one the server has announced (`HeaderSeen`), which
makes `Outcomes`, the result of `gfc_perform` at each of its returns, inductive;
`WholeResponse` is what it counts as 0.  The
steps are sorted by what they do to a connection (`StepKinds`): receive header or body,
parse, send a piece, or leave the bytes alone.

`Programs_proofs` proves the safety properties of the stand-alone programs.  Each is
about a stream that is cut and joined again, and one group of lemmas serves all of
them: `Follows(w, n, t)` says that `t` holds the items of the stream `w` behind the
first `n`, `CutPieces`, `JoinPieces` and `MiddlePiece` what a partial call does to that,
and `StreamBegins` turns it into the prefix that the properties speak of.

* `TransferNoHole` (`NoHole`) and `TransferIsWhole` (`SuccessIsWhole`): what a client has
  written, holds and is about to receive, and what the server still has in its
  buffer, follow each other and end at `pos` (`Flows`, `Progress`).  A client that waits
  has got nothing, and an end of the stream comes with the whole file or with `cut`;
  for this the server's own client is one that has connected (`Serving`).
* `ProxyIsHonest` (`AnswerIsHonest`): `Fetched` says what the worker has stored, `Told`
  how much it has told at each place, nothing before it decides and the header with
  the first `position` bytes behind it, and `Reason` that the header is deserved.
* `EchoIsOwn` (`EchoesOwnMessage`): while the connection is open, what the server holds
  and what is on its way to it is the next part of the message (`Underway`), so that
  the stale rest of the server's buffer is never sent.  `EchoExitExplained`
  (`ExitExplained`) needs `Speaking`: a client that closes with echo still to come has
  got only a part of it or was killed, and only such a client is answered by a reset.

`ContentMap_proofs` proves for any file, keys, first capacity and threads:

* `LoadingWritesInside` (`WritesInside`): the invariant is that the number of items
  is below the capacity whenever `fgets` may be called.
* `SearchKeepsKey` (`KeyInWindow`), the comment of `simplecache.c:91`: a matching
  item can only be in `items[lo..hi]`.  It is inductive with the order of the table
  and the bounds of the window (`0 <= lo`, `hi < nitems`).
* `LookupIsExact` (`GetIsExact`) from it, together with `Faithful`: the sorted table
  is a permutation of the lines that were read.  That `qsort` sorts is what
  `EndOfFile` says of it.

The assumptions are those on the constants (`SegmentPoolAssumption`,
`PoolLifecycleAssumption`, `WorkQueueAssumption`, `CacheChannelAssumption`,
`ContentMapAssumption`, `MtgfServerAssumption`, `MtgfClientAssumption`,
`GetFileAssumption`, `ProgramsAssumption`, ...).  Model-checked only are

* all liveness properties and the absence of deadlock: fairness and `ENABLED` are out
  of the prover's reach;
* that `Steque` implements `Deque`: `Contents` follows the list from `front` by a
  recursive function, and what that computes is an induction over the list.

## Not modelled

* The exercises, the test script of mtgf, options of command lines, output, and
  reading the workload file.  An empty workload file divides by zero
  (`mtgf/workload.c:51`); `MtgfClientAssumption` excludes it.
* The programs of `gflib` (`handler.c`, `gfserver_main.c`, `gfclient_download.c`), a
  draft that the project's Makefile cannot build: `-Werror` on pointer and integer
  comparisons, and both mains include `handler.c`, which is linked as well.
* `handle_with_file.c`, which no Makefile links.
* The libraries `gfserver.o` and `gfclient.o`, which come without source; the models
  take any result that their headers allow.
* Foreign peers: a server that sends an unknown status word, for which
  `gfc_perform` returns 0 (`gflib/gfclient.c:233`), and clients with requests longer
  than the header buffer in any other way than the path `"long"`.
* In the transfer: what the cache does with descriptors that a stray close or a freed
  number has given to somebody else (`CacheDescriptors` has the stray close, without
  the packets).  A connection that `accept` returns because `main` was already in it
  when the listening socket was closed counts as accepted before the close.
* In the handlers of the proxy and the cache: a signal that arrives while the
  handler runs or while its thread is inside `malloc`, and the last steps behind
  `free(pool->segment)`.  Other proxies that use the cache at the same time.
* `malloc` that returns NULL in `steque.c`.

## Plan

Done: the modules above, their runs, and the theorems of eight proof modules, which
state every safety invariant and every refinement that the passing runs check but one.
Next: `ImplementsDeque`.  The invariant is a sequence of addresses from `front` to `back`
without a repetition; that `Chain` is this sequence follows from `WFMin` of
`WellFoundedInduction`, applied to the set of places where the two differ.
