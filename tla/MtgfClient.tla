----------------------------- MODULE MtgfClient -----------------------------
(***************************************************************************)
(* The multithreaded download client (mtgf/gfclient_download.c).  main     *)
(* queues one job per request, closes the queue and joins the workers.  A  *)
(* worker pops a job, makes a local file name from the path and a counter  *)
(* that all workers share without a lock, opens the file, downloads into   *)
(* it, and unlinks it when the download failed.  A critical section of     *)
(* queue_mtx is one step; the counter's load and store are two.            *)
(***************************************************************************)
EXTENDS Integers, Sequences, FiniteSets

CONSTANTS
    Workers,    \* nthreads threads
    NRequests,  \* -n
    Workload,   \* the paths of the workload file, in order
    Outcomes,   \* how gfc_perform may end: see AllOutcomes
    OpenFails   \* whether mkdir or fopen may fail

\* "ok": 0 and GF_OK; "short": negative and GF_OK; "invalid": negative and
\* another status; "notfound": 0 and another status.
AllOutcomes == {"ok", "short", "invalid", "notfound"}

ASSUME MtgfClientAssumption ==
    /\ IsFiniteSet(Workers) /\ Workers # {}         \* lines 137-140
    /\ NRequests \in Nat
    /\ Workload \in Seq(STRING) /\ Workload # <<>>
    /\ Outcomes \subseteq AllOutcomes
    /\ OpenFails \in BOOLEAN

Jobs == 1 .. NRequests
Path(j) == Workload[((j - 1) % Len(Workload)) + 1]
None == 0

VARIABLES
    queued,     \* how many jobs main has queued
    queue,      \* the steque
    started,    \* the jobs that workers popped, in order
    finished,   \* the jobs whose iteration is over
    queueingDone,
    mpc,        \* main: "queueing", "joining", "returned" or "exited"
    wpc, job,   \* where each worker is, and with which job
    counter,    \* the static counter of localPath
    loaded,     \* the value a worker has loaded from it
    name,       \* name[j]: the number in the local path of job j
    files,      \* the local files that exist
    outcome     \* outcome[j]: how the download of job j ended

vars == <<queued, queue, started, finished, queueingDone, mpc, wpc, job,
          counter, loaded, name, files, outcome>>

LocalPath(j) == <<Path(j), name[j]>>
Waiting == {w \in Workers : wpc[w] = "waiting"}

TypeOK ==
    /\ queued \in 0 .. NRequests
    /\ queue \in Seq(Jobs) /\ started \in Seq(Jobs) /\ finished \subseteq Jobs
    /\ queueingDone \in BOOLEAN
    /\ mpc \in {"queueing", "joining", "returned", "exited"}
    /\ wpc \in [Workers -> {"check", "waiting", "load", "store", "open",
                            "perform", "unlink", "status", "left"}]
    /\ job \in [Workers -> Jobs \cup {None}]
    /\ counter \in 0 .. NRequests
    /\ loaded \in [Workers -> 0 .. NRequests]
    /\ name \in [Jobs -> 0 .. NRequests]
    /\ files \subseteq {<<Path(j), n>> : j \in Jobs, n \in 0 .. NRequests}
    /\ outcome \in [Jobs -> AllOutcomes \cup {"none"}]

-----------------------------------------------------------------------------
Init ==
    /\ queued = 0 /\ queue = <<>> /\ started = <<>> /\ finished = {}
    /\ queueingDone = FALSE
    /\ mpc = "queueing"
    /\ wpc = [w \in Workers |-> "check"]
    /\ job = [w \in Workers |-> None]
    /\ counter = 0
    /\ loaded = [w \in Workers |-> 0]
    /\ name = [j \in Jobs |-> 0]
    /\ files = {}
    /\ outcome = [j \in Jobs |-> "none"]

\* pthread_cond_broadcast: all sleepers will check again.
Broadcast == wpc' = [w \in Workers |-> IF wpc[w] = "waiting" THEN "check" ELSE wpc[w]]

Enqueue ==
    /\ mpc = "queueing" /\ queued < NRequests
    /\ queued' = queued + 1
    /\ queue' = Append(queue, queued')
    /\ Broadcast
    /\ UNCHANGED <<started, finished, queueingDone, mpc, job, counter, loaded,
                   name, files, outcome>>

\* Mutant: no broadcast after queueingDone.
CloseSilently ==
    /\ mpc = "queueing" /\ queued = NRequests
    /\ queueingDone' = TRUE
    /\ mpc' = "joining"
    /\ UNCHANGED <<queued, queue, started, finished, wpc, job, counter, loaded,
                   name, files, outcome>>

Close ==
    /\ mpc = "queueing" /\ queued = NRequests
    /\ queueingDone' = TRUE
    /\ mpc' = "joining"
    /\ Broadcast
    /\ UNCHANGED <<queued, queue, started, finished, job, counter, loaded,
                   name, files, outcome>>

Join ==
    /\ mpc = "joining" /\ \A w \in Workers : wpc[w] = "left"
    /\ mpc' = "returned"
    /\ UNCHANGED <<queued, queue, started, finished, queueingDone, wpc, job,
                   counter, loaded, name, files, outcome>>

Main == Enqueue \/ Close \/ Join

Alive == mpc # "exited"

Wait(w) ==
    /\ Alive /\ wpc[w] = "check"
    /\ queue = <<>> /\ ~ queueingDone
    /\ wpc' = [wpc EXCEPT ![w] = "waiting"]
    /\ UNCHANGED <<queued, queue, started, finished, queueingDone, mpc, job,
                   counter, loaded, name, files, outcome>>

\* A spurious wake-up, which POSIX allows at any time.
SpuriousWake(w) ==
    /\ Alive /\ wpc[w] = "waiting"
    /\ wpc' = [wpc EXCEPT ![w] = "check"]
    /\ UNCHANGED <<queued, queue, started, finished, queueingDone, mpc, job,
                   counter, loaded, name, files, outcome>>

\* Mutant: a worker leaves as soon as queueingDone is set.
LeaveAtOnce(w) ==
    /\ Alive /\ wpc[w] = "check"
    /\ queueingDone
    /\ wpc' = [wpc EXCEPT ![w] = "left"]
    /\ UNCHANGED <<queued, queue, started, finished, queueingDone, mpc, job,
                   counter, loaded, name, files, outcome>>

\* The worker signals once more before it ends; a signal wakes one sleeper.
Leave(w) ==
    /\ Alive /\ wpc[w] = "check"
    /\ queue = <<>> /\ queueingDone
    /\ \/ /\ Waiting = {}
          /\ wpc' = [wpc EXCEPT ![w] = "left"]
       \/ \E v \in Waiting : wpc' = [wpc EXCEPT ![w] = "left", ![v] = "check"]
    /\ UNCHANGED <<queued, queue, started, finished, queueingDone, mpc, job,
                   counter, loaded, name, files, outcome>>

Pop(w) ==
    /\ Alive /\ wpc[w] = "check"
    /\ queue # <<>>
    /\ job' = [job EXCEPT ![w] = Head(queue)]
    /\ started' = Append(started, Head(queue))
    /\ queue' = Tail(queue)
    /\ wpc' = [wpc EXCEPT ![w] = "load"]
    /\ UNCHANGED <<queued, finished, queueingDone, mpc, counter, loaded, name,
                   files, outcome>>

\* counter++ is a load and a store: a data race, whose outcomes on the builds
\* of the Makefile are the interleavings of the two.
LoadCounter(w) ==
    /\ Alive /\ wpc[w] = "load"
    /\ loaded' = [loaded EXCEPT ![w] = counter]
    /\ wpc' = [wpc EXCEPT ![w] = "store"]
    /\ UNCHANGED <<queued, queue, started, finished, queueingDone, mpc, job,
                   counter, name, files, outcome>>

StoreCounter(w) ==
    /\ Alive /\ wpc[w] = "store"
    /\ counter' = loaded[w] + 1
    /\ name' = [name EXCEPT ![job[w]] = loaded[w]]
    /\ wpc' = [wpc EXCEPT ![w] = "open"]
    /\ UNCHANGED <<queued, queue, started, finished, queueingDone, mpc, job,
                   loaded, files, outcome>>

\* mkdir and fopen: the file is created, or truncated when it exists.
Open(w) ==
    /\ Alive /\ wpc[w] = "open"
    /\ files' = files \cup {LocalPath(job[w])}
    /\ wpc' = [wpc EXCEPT ![w] = "perform"]
    /\ UNCHANGED <<queued, queue, started, finished, queueingDone, mpc, job,
                   counter, loaded, name, outcome>>

\* openFile ends the whole program.
OpenExits(w) ==
    /\ OpenFails
    /\ Alive /\ wpc[w] = "open"
    /\ mpc' = "exited"
    /\ UNCHANGED <<queued, queue, started, finished, queueingDone, wpc, job,
                   counter, loaded, name, files, outcome>>

\* gfc_perform returns; a negative result leads to the first unlink.
Perform(w, o) ==
    /\ Alive /\ wpc[w] = "perform"
    /\ outcome' = [outcome EXCEPT ![job[w]] = o]
    /\ wpc' = [wpc EXCEPT ![w] = IF o \in {"short", "invalid"} THEN "unlink"
                                                             ELSE "status"]
    /\ UNCHANGED <<queued, queue, started, finished, queueingDone, mpc, job,
                   counter, loaded, name, files>>

Unlink(w) ==
    /\ Alive /\ wpc[w] = "unlink"
    /\ files' = files \ {LocalPath(job[w])}
    /\ wpc' = [wpc EXCEPT ![w] = "status"]
    /\ UNCHANGED <<queued, queue, started, finished, queueingDone, mpc, job,
                   counter, loaded, name, outcome>>

\* Mutant: only a negative result removes the file.
CheckStatusKeeps(w) ==
    /\ Alive /\ wpc[w] = "status"
    /\ finished' = finished \cup {job[w]}
    /\ job' = [job EXCEPT ![w] = None]
    /\ wpc' = [wpc EXCEPT ![w] = "check"]
    /\ UNCHANGED <<queued, queue, started, queueingDone, mpc, counter, loaded,
                   name, files, outcome>>

\* Any status but GF_OK unlinks the file, for the second time if gfc_perform
\* had failed.  The job is freed.
CheckStatus(w) ==
    /\ Alive /\ wpc[w] = "status"
    /\ files' = IF outcome[job[w]] \in {"invalid", "notfound"}
                THEN files \ {LocalPath(job[w])} ELSE files
    /\ finished' = finished \cup {job[w]}
    /\ job' = [job EXCEPT ![w] = None]
    /\ wpc' = [wpc EXCEPT ![w] = "check"]
    /\ UNCHANGED <<queued, queue, started, queueingDone, mpc, counter, loaded,
                   name, outcome>>

WorkerStep(w) ==
    \/ Wait(w) \/ Leave(w) \/ Pop(w) \/ LoadCounter(w) \/ StoreCounter(w)
    \/ Open(w) \/ (\E o \in Outcomes : Perform(w, o)) \/ Unlink(w)
    \/ CheckStatus(w)

Stopped == mpc \in {"returned", "exited"} /\ UNCHANGED vars

Next ==
    \/ Main \/ Stopped
    \/ \E w \in Workers : WorkerStep(w) \/ SpuriousWake(w) \/ OpenExits(w)

Spec == Init /\ [][Next]_vars
FairSpec == Spec /\ WF_vars(Main) /\ \A w \in Workers : WF_vars(WorkerStep(w))

-----------------------------------------------------------------------------
\* The worker pool keeps its promise: jobs in order, once, all done at the end.
Pool == INSTANCE JobPool WITH
    queued <- [i \in 1 .. queued |-> i], closed <- queueingDone,
    ended <- (mpc = "returned")
ImplementsJobPool == Pool!Spec

\* When the program returns, a request for a path that no other request has
\* left its file exactly if it was successful: the two unlinks remove the
\* file of every failed download, whatever the counter's race did.
FilesMatchOutcomes ==
    mpc = "returned" =>
        \A j \in Jobs :
            (\A k \in Jobs \ {j} : Path(k) # Path(j)) =>
                (LocalPath(j) \in files <=> outcome[j] = "ok")

\* main returns, or openFile has ended the program: no worker sleeps for ever.
MainReturns == <>(mpc \in {"returned", "exited"})
=============================================================================
