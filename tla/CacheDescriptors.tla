-------------------------- MODULE CacheDescriptors --------------------------
(***************************************************************************)
(* The descriptor table of the cache process, which all of its threads     *)
(* share: main's accept takes the lowest free number, the work queue       *)
(* carries it to a worker, and the worker opens a shared memory object,    *)
(* duplicates the descriptor of the file and closes all three.             *)
(*                                                                         *)
(* handle_cache_request declares reqfd behind the gotos of its error paths *)
(* (simplecached.c:97-129), so that the cleanup of a request that took one *)
(* of them closes whatever number is in that memory, or nothing.           *)
(***************************************************************************)
EXTENDS WorkQueue

CONSTANT MaxFds         \* descriptors besides standard input, output and error

ASSUME CacheDescriptorsAssumption == MaxFds \in Nat /\ 2 < MaxFds

Fds == 1 .. MaxFds
FileFd   == 1           \* of the one file in simplecache's table
ListenFd == 2           \* cache_server_fd
NoFd     == 0           \* -1 in the code
Indeterminate == -1     \* not initialized

Resource(what, of) == [what |-> what, of |-> of]
Closed == Resource("nothing", None)

VARIABLES
    desc,       \* desc[x]: what descriptor x refers to
    number,     \* number[j]: the descriptor accept returned for connection j
    step,       \* step[w]: where handle_cache_request is
    shmfd,      \* its variables
    reqfd,
    strayed     \* an indeterminate number was closed and was an open descriptor

handlerVars == <<step, shmfd, reqfd>>
descVars == <<vars, desc, number, handlerVars, strayed>>

Kinds == {"nothing", "file", "listener", "client", "shm", "copy"}

DescTypeOK ==
    /\ TypeOK
    /\ desc \in [Fds -> [what : Kinds, of : Jobs \cup {None}]]
    /\ number \in [Jobs -> Fds \cup {NoFd}]
    /\ step \in [Workers -> {"none", "open", "get", "dup", "transfer", "refuse",
                             "closeReq", "closeShm", "closeClient"}]
    /\ shmfd \in [Workers -> Fds \cup {NoFd}]
    /\ reqfd \in [Workers -> Fds \cup {NoFd, Indeterminate}]
    /\ strayed \in BOOLEAN
    /\ \A w \in Workers : pc[w] = "serving" <=> step[w] # "none"

DescInit ==
    /\ Init
    /\ desc = [x \in Fds |-> CASE x = FileFd -> Resource("file", None)
                               [] x = ListenFd -> Resource("listener", None)
                               [] OTHER -> Closed]
    /\ number = [j \in Jobs |-> NoFd]
    /\ step = [w \in Workers |-> "none"]
    /\ shmfd = [w \in Workers |-> NoFd]
    /\ reqfd = [w \in Workers |-> NoFd]
    /\ strayed = FALSE

\* A call that makes a descriptor takes the lowest free number.
Lowest(x) ==
    /\ desc[x] = Closed
    /\ \A y \in Fds : desc[y] = Closed => x <= y

Goto(w, label) == step' = [step EXCEPT ![w] = label]

\* close of descriptor x, or of a negative number.
Close(x) == desc' = IF x \in Fds THEN [desc EXCEPT ![x] = Closed] ELSE desc

-----------------------------------------------------------------------------
(* main and the queue.                                                     *)

\* The connections are alike, so that they come in one order, whatever it is.
NextJob == CHOOSE j \in Jobs : j \notin Accepted

\* accept and work_q_push.  While the table is full, or the listening socket has
\* been closed, accept fails and main tries again.
AcceptJob(j) ==
    /\ j \notin Accepted /\ j = NextJob
    /\ desc[ListenFd].what = "listener"
    /\ \E x \in Fds :
          /\ Lowest(x)
          /\ desc' = [desc EXCEPT ![x] = Resource("client", j)]
          /\ number' = [number EXCEPT ![j] = x]
    /\ Push(j)
    /\ UNCHANGED <<handlerVars, strayed>>

\* work_q_pop, and the declarations of handle_cache_request.
PopJob(w) ==
    /\ Pop(w)
    /\ Goto(w, "open")
    /\ shmfd' = [shmfd EXCEPT ![w] = NoFd]
    /\ reqfd' = [reqfd EXCEPT ![w] = Indeterminate]
    /\ UNCHANGED <<desc, number, strayed>>

QueueRests(w) ==
    /\ Wait(w) \/ SpuriousWake(w)
    /\ UNCHANGED <<desc, number, handlerVars, strayed>>

-----------------------------------------------------------------------------
(* handle_cache_request.                                                   *)

\* read_all waits for the request; then shm_open.  A request that does not arrive
\* whole and an object that is not there leave alike.
OpenShm(w) ==
    /\ step[w] = "open"
    /\ \/ \E x \in Fds :
             /\ Lowest(x)
             /\ desc' = [desc EXCEPT ![x] = Resource("shm", job[w])]
             /\ shmfd' = [shmfd EXCEPT ![w] = x]
             /\ Goto(w, "get")
       \/ Goto(w, "closeReq") /\ UNCHANGED <<desc, shmfd>>
    /\ UNCHANGED <<vars, number, reqfd, strayed>>

\* mmap, the size of the segment, the semaphores and simplecache_get: a call that
\* fails, a miss, or a hit, before which reqfd is initialized.
Get(w) ==
    /\ step[w] = "get"
    /\ \/ Goto(w, "dup") /\ reqfd' = [reqfd EXCEPT ![w] = NoFd]
       \/ Goto(w, "refuse") /\ UNCHANGED reqfd
       \/ Goto(w, "closeReq") /\ UNCHANGED reqfd
    /\ UNCHANGED <<vars, desc, number, shmfd, strayed>>

\* dup of the file's descriptor, whatever that refers to now, and fstat.
Dup(w) ==
    /\ step[w] = "dup"
    /\ \/ /\ desc[FileFd] # Closed
          /\ \E x \in Fds :
                /\ Lowest(x)
                /\ desc' = [desc EXCEPT ![x] =
                               IF desc[FileFd].what = "file"
                               THEN Resource("copy", job[w]) ELSE desc[FileFd]]
                /\ reqfd' = [reqfd EXCEPT ![w] = x]
          /\ \/ Goto(w, "transfer")
             \/ Goto(w, "refuse")
       \/ Goto(w, "refuse") /\ UNCHANGED <<desc, reqfd>>
    /\ UNCHANGED <<vars, number, shmfd, strayed>>

\* The packets, or the refusal, each behind a sem_wait(sem_empty): the worker goes
\* on when the proxy has posted, and leaves on any of the ways out.
LeaveTransfer(w) ==
    /\ step[w] \in {"transfer", "refuse"}
    /\ Goto(w, "closeReq")
    /\ UNCHANGED <<vars, desc, number, shmfd, reqfd, strayed>>

\* if (reqfd >= 0) close(reqfd)
CloseReq(w) ==
    /\ step[w] = "closeReq"
    /\ \E x \in IF reqfd[w] = Indeterminate THEN Fds \cup {NoFd} ELSE {reqfd[w]} :
          /\ Close(x)
          /\ strayed' = (strayed \/ (reqfd[w] = Indeterminate /\ desc' # desc))
    /\ reqfd' = [reqfd EXCEPT ![w] = NoFd]
    /\ Goto(w, "closeShm")
    /\ UNCHANGED <<vars, number, shmfd>>

\* Mutant: the descriptor of the segment is kept, as its mapping would be enough.
CloseShmKept(w) ==
    /\ step[w] = "closeShm"
    /\ shmfd' = [shmfd EXCEPT ![w] = NoFd]
    /\ Goto(w, "closeClient")
    /\ UNCHANGED <<vars, desc, number, reqfd, strayed>>

CloseShm(w) ==
    /\ step[w] = "closeShm"
    /\ Close(shmfd[w])
    /\ shmfd' = [shmfd EXCEPT ![w] = NoFd]
    /\ Goto(w, "closeClient")
    /\ UNCHANGED <<vars, number, reqfd, strayed>>

\* close(clientfd), and back to work_q_pop.
CloseClient(w) ==
    /\ step[w] = "closeClient"
    /\ Close(number[job[w]])
    /\ number' = [number EXCEPT ![job[w]] = NoFd]
    /\ Goto(w, "none")
    /\ Finish(w)
    /\ UNCHANGED <<shmfd, reqfd, strayed>>

\* What the worker does when nothing holds it up,
RunningStep(w) ==
    Get(w) \/ Dup(w) \/ CloseReq(w) \/ CloseShm(w) \/ CloseClient(w)

\* and what it does only if the proxy does its part.
WaitingStep(w) == OpenShm(w) \/ LeaveTransfer(w)

HandlerStep(w) == RunningStep(w) \/ WaitingStep(w)

\* Nobody connects any more, or the cache is deaf.
Quiet ==
    /\ queue = <<>> /\ \A w \in Workers : pc[w] = "waiting"
    /\ UNCHANGED descVars

DescNext ==
    \/ \E j \in Jobs : AcceptJob(j)
    \/ \E w \in Workers : PopJob(w) \/ QueueRests(w) \/ HandlerStep(w)
    \/ Quiet

\* Threads that can run do run, main included.  A worker that waits for the proxy, in
\* read or in sem_wait (simplecached.c:96, 143, 176), may wait for ever.
DescFairness ==
    /\ WF_descVars(\E j \in Jobs : AcceptJob(j))
    /\ \A w \in Workers :
          /\ WF_descVars(PopJob(w))
          /\ WF_descVars(Wait(w) /\ QueueRests(w))
          /\ WF_descVars(RunningStep(w))

DescSpec == DescInit /\ [][DescNext]_descVars /\ DescFairness

-----------------------------------------------------------------------------
\* What the workers and the queue hold: each its own.
Owned ==
    {<<FileFd, Resource("file", None)>>, <<ListenFd, Resource("listener", None)>>}
    \cup {<<number[j], Resource("client", j)>> : j \in {i \in Jobs : number[i] \in Fds}}
    \cup {<<shmfd[w], Resource("shm", job[w])>> : w \in {v \in Workers : shmfd[v] \in Fds}}
    \cup {<<reqfd[w], Resource("copy", job[w])>> : w \in {v \in Workers : reqfd[v] \in Fds}}

\* Until a request that took a goto over the declaration of reqfd closes a
\* stranger's descriptor (simplecached.c:186), every open descriptor has exactly
\* one owner, which will close it, and every owner's descriptor refers to what it
\* was opened for: no path closes twice, too early or not at all, although the
\* numbers are used again by all threads.
DescriptorsOwned ==
    ~ strayed =>
        {<<x, desc[x]>> : x \in {y \in Fds : desc[y] # Closed}} = Owned

WaitsForProxy(w) == step[w] \in {"open", "transfer", "refuse"}

TableFull == \A x \in Fds : desc[x] # Closed

\* A full table is no end, and no wake-up is lost: every connection is accepted as
\* descriptors are given back, and taken by a worker (simplecached.c:60-77, 323-332).
\* Three lasting states are in its way: every worker waits for the proxy, whose
\* transfers may be abandoned; the workers that wait hold the whole table; and a
\* stray close has hit the listening socket (simplecached.c:143, 176, 186).
EveryConnectionServed ==
    \A j \in Jobs :
        \/ <>(\E i \in DOMAIN popped : popped[i] = j)
        \/ <>[](\A w \in Workers : WaitsForProxy(w))
        \/ <>[](/\ j \notin Accepted /\ TableFull
                /\ \A w \in Workers : pc[w] = "serving" => WaitsForProxy(w))
        \/ <>[](j \notin Accepted /\ desc[ListenFd].what # "listener")
=============================================================================
