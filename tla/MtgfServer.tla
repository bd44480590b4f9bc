----------------------------- MODULE MtgfServer -----------------------------
(***************************************************************************)
(* The multithreaded getfile server (mtgf/handler.c, gfserver_main.c).     *)
(* main runs the getfile library, which calls gfs_handler for every        *)
(* request; the handler queues a job, worker threads answer it.  SIGINT or *)
(* SIGTERM interrupts main wherever it is and calls exit, which runs       *)
(* cleanup_threads through atexit.  queue_mtx is explicit because main may *)
(* be interrupted while it owns it; a worker's critical section is one     *)
(* step.                                                                   *)
(***************************************************************************)
EXTENDS Integers, Sequences, FiniteSets

CONSTANTS
    Workers,    \* the threads of init_threads
    Jobs,       \* the requests that arrive
    Size,       \* Size[j]: length of the requested file, Absent if no key
    BufferSize, \* sizeof(buffer), 4096 in the code
    MaxSignals, \* how many signals the process receives at most
    Faults      \* the calls that may fail: see AllFaults

AllFaults == {"calloc", "dup", "fstat", "header", "send", "pread"}
Absent == -1

ASSUME MtgfServerAssumption ==
    /\ IsFiniteSet(Workers) /\ Workers # {}     \* gfserver_main.c:82-84
    /\ Size \in [Jobs -> Nat \cup {Absent}]
    /\ BufferSize \in Nat \ {0}
    /\ MaxSignals \in Nat
    /\ Faults \subseteq AllFaults

Main == "main"
Free == "free"
None == "none"

ASSUME NamesDiffer == None \notin Jobs

VARIABLES
    mtx,        \* who owns queue_mtx
    queue,      \* the steque of jobs
    queueingDone,
    queued,     \* every job queued so far, in order
    started,    \* every job popped so far, in order
    finished,   \* the jobs that were freed
    mpc, mjob,  \* where main is, and the request it handles
    signals,    \* how many signals main has received
    wpc, job,   \* where each worker is, and with which job
    offset,     \* offset[w]: where the next pread starts
    buffer,     \* buffer[w]: the bytes read and not yet sent, as positions
    answer,     \* answer[j]: the status in the header that was sent
    body,       \* body[j]: the positions of the bytes that were sent
    aborted     \* the jobs whose connection gfs_abort closed

vars == <<mtx, queue, queueingDone, queued, started, finished, mpc, mjob,
          signals, wpc, job, offset, buffer, answer, body, aborted>>

\* Groups of variables, for UNCHANGED.
mainVars == <<mtx, queueingDone, queued, mpc, mjob, signals>>
poolVars == <<queue, started, finished>>
sendVars == <<offset, buffer, answer, body, aborted>>

Waiting == {w \in Workers : wpc[w] = "waiting"}

TypeOK ==
    /\ mtx \in {Main, Free}
    /\ queue \in Seq(Jobs) /\ queued \in Seq(Jobs) /\ started \in Seq(Jobs)
    /\ finished \subseteq Jobs
    /\ queueingDone \in BOOLEAN
    /\ mpc \in {"accept", "lock", "locked", "cleanup", "join", "gone"}
    /\ mjob \in Jobs \cup {None}
    /\ signals \in 0 .. MaxSignals
    /\ wpc \in [Workers -> {"check", "waiting", "lookup", "read", "send", "abort",
                            "done", "left"}]
    /\ job \in [Workers -> Jobs \cup {None}]
    /\ \A w \in Workers : offset[w] \in Nat /\ Len(buffer[w]) <= BufferSize
    /\ answer \in [Jobs -> {"none", "OK", "FILE_NOT_FOUND", "ERROR"}]
    /\ aborted \subseteq Jobs

-----------------------------------------------------------------------------
Init ==
    /\ mtx = Free
    /\ queue = <<>> /\ queued = <<>> /\ started = <<>> /\ finished = {}
    /\ queueingDone = FALSE
    /\ mpc = "accept" /\ mjob = None /\ signals = 0
    /\ wpc = [w \in Workers |-> "check"]
    /\ job = [w \in Workers |-> None]
    /\ offset = [w \in Workers |-> 0]
    /\ buffer = [w \in Workers |-> <<>>]
    /\ answer = [j \in Jobs |-> "none"]
    /\ body = [j \in Jobs |-> <<>>]
    /\ aborted = {}

Requested == {queued[i] : i \in 1 .. Len(queued)}

\* The library accepts a request and calls gfs_handler.
Accept(j) ==
    /\ mpc = "accept"
    /\ j \notin Requested /\ answer[j] = "none"
    /\ mjob' = j
    /\ mpc' = "lock"
    /\ UNCHANGED <<mtx, queueingDone, queued, signals, wpc, job>>
    /\ UNCHANGED poolVars /\ UNCHANGED sendVars

\* calloc fails: the handler answers ERROR itself.
HandlerFails ==
    /\ "calloc" \in Faults
    /\ mpc = "lock"
    /\ answer' = [answer EXCEPT ![mjob] = "ERROR"]
    /\ mpc' = "accept" /\ mjob' = None
    /\ UNCHANGED <<mtx, queueingDone, queued, signals, wpc, job, offset, buffer,
                   body, aborted>>
    /\ UNCHANGED poolVars

HandlerLock ==
    /\ mpc = "lock" /\ mtx = Free
    /\ mtx' = Main
    /\ mpc' = "locked"
    /\ UNCHANGED <<queueingDone, queued, mjob, signals, wpc, job>>
    /\ UNCHANGED poolVars /\ UNCHANGED sendVars

\* pthread_cond_signal wakes one sleeper, if there is one.
Signalled ==
    \/ Waiting = {} /\ wpc' = wpc
    \/ \E w \in Waiting : wpc' = [wpc EXCEPT ![w] = "check"]

\* Mutant: no signal.
EnqueueSilently ==
    /\ mpc = "locked"
    /\ queue' = Append(queue, mjob)
    /\ queued' = Append(queued, mjob)
    /\ mtx' = Free
    /\ mpc' = "accept" /\ mjob' = None
    /\ UNCHANGED <<queueingDone, started, finished, signals, wpc, job>>
    /\ UNCHANGED sendVars

\* steque_enqueue, signal and unlock; the handler returns.
Enqueue ==
    /\ mpc = "locked"
    /\ queue' = Append(queue, mjob)
    /\ queued' = Append(queued, mjob)
    /\ Signalled
    /\ mtx' = Free
    /\ mpc' = "accept" /\ mjob' = None
    /\ UNCHANGED <<queueingDone, started, finished, signals, job>>
    /\ UNCHANGED sendVars

\* The signal handler calls exit.  A second exit, from the handler of the other
\* signal, finds no exit handler left to run and ends the process.
Signal ==
    /\ mpc # "gone" /\ signals < MaxSignals
    /\ signals' = signals + 1
    /\ mpc' = IF signals = 0 THEN "cleanup" ELSE "gone"
    /\ UNCHANGED <<mtx, queueingDone, queued, mjob, wpc, job>>
    /\ UNCHANGED poolVars /\ UNCHANGED sendVars

\* Mutant: no broadcast in cleanup_threads.
CleanupSilently ==
    /\ mpc = "cleanup" /\ mtx = Free
    /\ queueingDone' = TRUE
    /\ mpc' = "join"
    /\ UNCHANGED <<mtx, queued, mjob, signals, wpc, job>>
    /\ UNCHANGED poolVars /\ UNCHANGED sendVars

\* cleanup_threads up to the unlock: queueingDone is set, all sleepers wake.
CleanupThreads ==
    /\ mpc = "cleanup" /\ mtx = Free
    /\ queueingDone' = TRUE
    /\ wpc' = [w \in Workers |-> IF wpc[w] = "waiting" THEN "check" ELSE wpc[w]]
    /\ mpc' = "join"
    /\ UNCHANGED <<mtx, queued, mjob, signals, job>>
    /\ UNCHANGED poolVars /\ UNCHANGED sendVars

\* All workers are joined and the process ends.
JoinThreads ==
    /\ mpc = "join" /\ \A w \in Workers : wpc[w] = "left"
    /\ mpc' = "gone"
    /\ UNCHANGED <<mtx, queueingDone, queued, mjob, signals, wpc, job>>
    /\ UNCHANGED poolVars /\ UNCHANGED sendVars

-----------------------------------------------------------------------------
At(w, place) == mpc # "gone" /\ wpc[w] = place

Wait(w) ==
    /\ At(w, "check") /\ mtx = Free
    /\ queue = <<>> /\ ~ queueingDone
    /\ wpc' = [wpc EXCEPT ![w] = "waiting"]
    /\ UNCHANGED job
    /\ UNCHANGED mainVars /\ UNCHANGED poolVars /\ UNCHANGED sendVars

SpuriousWake(w) ==
    /\ At(w, "waiting")
    /\ wpc' = [wpc EXCEPT ![w] = "check"]
    /\ UNCHANGED job
    /\ UNCHANGED mainVars /\ UNCHANGED poolVars /\ UNCHANGED sendVars

\* Mutant: a worker leaves as soon as queueingDone is set.
LeaveAtOnce(w) ==
    /\ At(w, "check") /\ mtx = Free
    /\ queueingDone
    /\ wpc' = [wpc EXCEPT ![w] = "left"]
    /\ UNCHANGED job
    /\ UNCHANGED mainVars /\ UNCHANGED poolVars /\ UNCHANGED sendVars

Leave(w) ==
    /\ At(w, "check") /\ mtx = Free
    /\ queue = <<>> /\ queueingDone
    /\ wpc' = [wpc EXCEPT ![w] = "left"]
    /\ UNCHANGED job
    /\ UNCHANGED mainVars /\ UNCHANGED poolVars /\ UNCHANGED sendVars

Pop(w) ==
    /\ At(w, "check") /\ mtx = Free
    /\ queue # <<>>
    /\ job' = [job EXCEPT ![w] = Head(queue)]
    /\ started' = Append(started, Head(queue))
    /\ queue' = Tail(queue)
    /\ offset' = [offset EXCEPT ![w] = 0]
    /\ buffer' = [buffer EXCEPT ![w] = <<>>]
    /\ wpc' = [wpc EXCEPT ![w] = "lookup"]
    /\ UNCHANGED <<finished, answer, body, aborted>>
    /\ UNCHANGED mainVars

\* gfs_sendheader for worker w, and where the worker goes after it; if it fails
\* the connection is aborted.
SendHeader(w, status, next) ==
    /\ \/ /\ answer' = [answer EXCEPT ![job[w]] = status]
          /\ wpc' = [wpc EXCEPT ![w] = next]
       \/ /\ "header" \in Faults
          /\ wpc' = [wpc EXCEPT ![w] = "abort"]
          /\ UNCHANGED answer
    /\ UNCHANGED <<job, offset, buffer, body, aborted>>
    /\ UNCHANGED mainVars /\ UNCHANGED poolVars

\* content_get does not know the path.
RefuseMissing(w) ==
    /\ At(w, "lookup") /\ Size[job[w]] = Absent
    /\ SendHeader(w, "FILE_NOT_FOUND", "done")

DupFails(w) ==
    /\ "dup" \in Faults
    /\ At(w, "lookup") /\ Size[job[w]] # Absent
    /\ SendHeader(w, "ERROR", "done")

FstatFails(w) ==
    /\ "fstat" \in Faults
    /\ At(w, "lookup") /\ Size[job[w]] # Absent
    /\ SendHeader(w, "FILE_NOT_FOUND", "done")

Announce(w) ==
    /\ At(w, "lookup") /\ Size[job[w]] # Absent
    /\ SendHeader(w, "OK", "read")

Smaller(a, b) == IF a < b THEN a ELSE b

\* pread returns 0 at the end of the file, and otherwise what fits the buffer.
Read(w) ==
    /\ At(w, "read")
    /\ LET n == Smaller(BufferSize, Size[job[w]] - offset[w])
       IN  /\ buffer' = [buffer EXCEPT ![w] = [i \in 1 .. n |-> offset[w] + i]]
           /\ wpc' = [wpc EXCEPT ![w] = IF n = 0 THEN "done" ELSE "send"]
    /\ UNCHANGED <<job, offset, answer, body, aborted>>
    /\ UNCHANGED mainVars /\ UNCHANGED poolVars

\* Mutant: a failed pread ends the loop like the end of the file.
ReadFailsQuietly(w) ==
    /\ "pread" \in Faults
    /\ At(w, "read")
    /\ wpc' = [wpc EXCEPT ![w] = "done"]
    /\ UNCHANGED job
    /\ UNCHANGED mainVars /\ UNCHANGED poolVars /\ UNCHANGED sendVars

ReadFails(w) ==
    /\ "pread" \in Faults
    /\ At(w, "read")
    /\ wpc' = [wpc EXCEPT ![w] = "abort"]
    /\ UNCHANGED job
    /\ UNCHANGED mainVars /\ UNCHANGED poolVars /\ UNCHANGED sendVars

\* One gfs_send of send_all takes the first k bytes; when all of them are sent
\* the offset moves on and the next chunk is read.
Send(w, k) ==
    /\ At(w, "send")
    /\ body' = [body EXCEPT ![job[w]] = @ \o SubSeq(buffer[w], 1, k)]
    /\ buffer' = [buffer EXCEPT ![w] = SubSeq(@, k + 1, Len(@))]
    /\ IF k = Len(buffer[w])
       THEN /\ offset' = [offset EXCEPT ![w] = buffer[w][k]]
            /\ wpc' = [wpc EXCEPT ![w] = "read"]
       ELSE UNCHANGED <<offset, wpc>>
    /\ UNCHANGED <<job, answer, aborted>>
    /\ UNCHANGED mainVars /\ UNCHANGED poolVars

SendFails(w) ==
    /\ "send" \in Faults
    /\ At(w, "send")
    /\ wpc' = [wpc EXCEPT ![w] = "abort"]
    /\ UNCHANGED job
    /\ UNCHANGED mainVars /\ UNCHANGED poolVars /\ UNCHANGED sendVars

\* send_abort is set: gfs_abort.
Abort(w) ==
    /\ At(w, "abort")
    /\ aborted' = aborted \cup {job[w]}
    /\ wpc' = [wpc EXCEPT ![w] = "done"]
    /\ UNCHANGED <<job, offset, buffer, answer, body>>
    /\ UNCHANGED mainVars /\ UNCHANGED poolVars

\* The job is freed and the worker goes round.
Done(w) ==
    /\ At(w, "done")
    /\ finished' = finished \cup {job[w]}
    /\ job' = [job EXCEPT ![w] = None]
    /\ wpc' = [wpc EXCEPT ![w] = "check"]
    /\ UNCHANGED <<queue, started>>
    /\ UNCHANGED mainVars /\ UNCHANGED sendVars

Answer(w) ==
    \/ RefuseMissing(w) \/ DupFails(w) \/ FstatFails(w) \/ Announce(w)
    \/ Read(w) \/ ReadFails(w)
    \/ \E k \in 1 .. Len(buffer[w]) : Send(w, k)
    \/ SendFails(w) \/ Abort(w) \/ Done(w)

WorkerStep(w) == Wait(w) \/ Leave(w) \/ Pop(w) \/ Answer(w)

MainStep == HandlerFails \/ HandlerLock \/ Enqueue \/ CleanupThreads \/ JoinThreads

\* No request is left, or the process has ended or cannot go on.
Rest == (mpc \in {"accept", "cleanup", "gone"}) /\ UNCHANGED vars

Next ==
    \/ MainStep \/ Signal \/ Rest
    \/ \E j \in Jobs : Accept(j)
    \/ \E w \in Workers : WorkerStep(w) \/ SpuriousWake(w)

Spec == Init /\ [][Next]_vars
FairSpec == Spec /\ WF_vars(MainStep) /\ \A w \in Workers : WF_vars(WorkerStep(w))

-----------------------------------------------------------------------------
\* Jobs are started in order and once, and when cleanup_threads has joined the
\* workers every queued job has been answered: a drain, not a drop.  A second
\* signal ends the process without that promise.
Pool == INSTANCE JobPool WITH
    closed <- queueingDone, ended <- (mpc = "gone" /\ signals = 1)
ImplementsJobPool == Pool!Spec

\* What a client has received is the beginning of its file, each byte once and
\* in order, however the reads and sends are cut; and a job ends with its whole
\* file, with a refusal, or with an abort the client sees.
HonestAnswer ==
    \A j \in Jobs :
        /\ body[j] = [i \in 1 .. Len(body[j]) |-> i]
        /\ body[j] # <<>> => answer[j] = "OK"
        /\ j \in finished =>
              \/ answer[j] = "OK" /\ Len(body[j]) = Size[j]
              \/ answer[j] \in {"FILE_NOT_FOUND", "ERROR"}
              \/ j \in aborted

\* main was interrupted inside gfs_handler while it owned queue_mtx: its exit
\* waits for the mutex that it owns itself.
SelfLocked == mpc = "cleanup" /\ mtx = Main

\* Every queued job is answered, unless a signal has locked the server up or a
\* second one has ended it.
EveryJobAnswered ==
    \A j \in Jobs :
        j \in Requested ~> (j \in finished \/ SelfLocked \/ mpc = "gone")

\* A signal ends the server, unless it hits main while it owns queue_mtx.
SignalStops == signals > 0 ~> (mpc = "gone" \/ SelfLocked)
=============================================================================
