--------------------------- MODULE PoolLifecycle ---------------------------
(***************************************************************************)
(* The segment pool over the life of the proxy process, and of the next    *)
(* ones: proxy_pool_init creates the shared memory and the two semaphores  *)
(* of every segment under names made of the process id, proxy_pool_destroy *)
(* removes them.  It is called only from the handler of SIGINT and SIGTERM *)
(* (webproxy.c), which runs in the main thread while the workers go on.    *)
(* The named objects outlive a process that ends in any other way, and     *)
(* process ids are used again.                                             *)
(***************************************************************************)
EXTENDS SegmentPool

CONSTANTS
    Pids,           \* process ids that the proxy may get
    MaxStarts       \* how often it is started

ASSUME PoolLifecycleAssumption == MaxStarts \in Nat

Kinds == {"shm", "empty", "full"}
None  == -1         \* there is no object of that name

VARIABLES
    phase,      \* where the process is
    pid,        \* its process id
    starts,
    made,       \* steps that proxy_pool_init has done, four for a segment
    torn,       \* steps that proxy_pool_destroy has done, four for a segment
    object,     \* object[p, s, k]: the value of the named object, or None
    unclean     \* process ids whose names the last process of that id left

processVars == <<phase, pid, starts, made, torn>>
nameVars == <<object, unclean>>
lifeVars == <<vars, processVars, nameVars>>

Steps == 4 * NSegments
SegmentAt(step) == (step \div 4) + 1

\* What the step does: make the names or give up the mapping, then an object.
KindAt(step) == <<"local", "shm", "empty", "full">>[(step % 4) + 1]

LifeTypeOK ==
    /\ TypeOK
    /\ phase \in {"down", "init", "up", "handler", "dying"}
    /\ pid \in Pids
    /\ starts \in 0 .. MaxStarts
    /\ made \in 0 .. Steps
    /\ torn \in 0 .. Steps
    /\ object \in [Pids \X Segments \X Kinds -> {None, 0, 1}]
    /\ unclean \subseteq Pids
    /\ phase \in {"down", "init"} => \A w \in Workers : pc[w] = "idle"

LifeInit ==
    /\ Init
    /\ phase = "down" /\ pid \in Pids /\ starts = 0
    /\ made = 0 /\ torn = 0
    /\ object = [n \in Pids \X Segments \X Kinds |-> None]
    /\ unclean = {}

-----------------------------------------------------------------------------
(* proxy_pool_init.                                                        *)

StartProxy(p) ==
    /\ phase = "down" /\ starts < MaxStarts
    /\ phase' = "init" /\ pid' = p
    /\ starts' = starts + 1
    /\ made' = 0 /\ torn' = 0
    /\ UNCHANGED <<vars, nameVars>>

\* O_CREAT without O_EXCL: an object of that name is taken as it is.
Opened(n) ==
    IF object[n] # None THEN object[n] ELSE IF n[3] = "empty" THEN 1 ELSE 0

\* The next step of the loop: snprintf of the names, shm_open, or one of the two
\* sem_open.  After the last one the workers start.
Create ==
    /\ phase = "init"
    /\ made' = made + 1
    /\ phase' = IF made' = Steps THEN "up" ELSE "init"
    /\ LET n == <<pid, SegmentAt(made), KindAt(made)>>
       IN  object' = IF n[3] = "local" THEN object
                     ELSE [object EXCEPT ![n] = Opened(n)]
    /\ UNCHANGED <<vars, pid, starts, torn, unclean>>

-----------------------------------------------------------------------------
(* The ends of the process.                                                *)

\* The threads end: first those that hold nothing, then one holder after the
\* other (ThreadEnds).
Dies ==
    /\ phase' = "dying"
    /\ pc' = [w \in Workers |-> IF pc[w] = "holding" THEN "holding" ELSE "idle"]
    /\ UNCHANGED <<inUse, holds, pid, starts, made, torn, object>>

ThreadEnds(w) ==
    /\ phase = "dying" /\ pc[w] = "holding"
    /\ inUse' = [inUse EXCEPT ![holds[w]] = FALSE]
    /\ holds' = [holds EXCEPT ![w] = 0]
    /\ pc' = [pc EXCEPT ![w] = "idle"]
    /\ UNCHANGED <<processVars, nameVars>>

Gone ==
    /\ phase = "dying" /\ \A w \in Workers : pc[w] = "idle"
    /\ phase' = "down"
    /\ UNCHANGED <<vars, pid, starts, made, torn, nameVars>>

\* main: a call in proxy_pool_init failed, and main exits.
InitFails ==
    /\ phase = "init"
    /\ Dies
    /\ unclean' = unclean \cup {pid}

\* SIGKILL, or SIGPIPE.
Kill ==
    /\ phase \in {"init", "up", "handler"}
    /\ Dies
    /\ unclean' = unclean \cup {pid}

\* _sig_handler, in the main thread, wherever that is.
Signal ==
    /\ phase \in {"init", "up"}
    /\ phase' = "handler"
    /\ UNCHANGED <<vars, pid, starts, made, torn, nameVars>>

Named(s)    == 4 * (s - 1) < made
Unmapped(s) == 4 * (s - 1) < torn

\* Mutant: a segment that is not mapped yet is passed over.
TeardownMapped ==
    /\ phase = "handler" /\ torn < Steps
    /\ torn' = torn + 1
    /\ LET n == <<pid, SegmentAt(torn), KindAt(torn)>>
       IN  object' = IF n[3] = "local" \/ made < 4 * n[2] - 1 THEN object
                     ELSE [object EXCEPT ![n] = None]
    /\ UNCHANGED <<vars, phase, pid, starts, made, unclean>>

\* Mutant: sem_unlink of the full semaphore is forgotten.
TeardownKeepsFull ==
    /\ phase = "handler" /\ torn < Steps
    /\ torn' = torn + 1
    /\ LET n == <<pid, SegmentAt(torn), KindAt(torn)>>
       IN  object' = IF n[3] \in {"local", "full"} \/ ~ Named(n[2]) THEN object
                     ELSE [object EXCEPT ![n] = None]
    /\ UNCHANGED <<vars, phase, pid, starts, made, unclean>>

\* The next step of proxy_pool_destroy: munmap and the closes, or an unlink.
\* Where proxy_pool_init had not come the names are empty.
Teardown ==
    /\ phase = "handler" /\ torn < Steps
    /\ torn' = torn + 1
    /\ LET n == <<pid, SegmentAt(torn), KindAt(torn)>>
       IN  object' = IF n[3] = "local" \/ ~ Named(n[2]) THEN object
                     ELSE [object EXCEPT ![n] = None]
    /\ UNCHANGED <<vars, phase, pid, starts, made, unclean>>

\* _sig_handler: free and exit.  A process that is stopped before it made all the
\* names leaves those that an earlier one of its id had left.
Exit ==
    /\ phase = "handler" /\ torn = Steps
    /\ Dies
    /\ unclean' = IF \A s \in Segments : Named(s) THEN unclean \ {pid} ELSE unclean

\* A worker uses a segment that the handler has unmapped.
Fault ==
    /\ phase = "handler"
    /\ \E w \in Workers : holds[w] # 0 /\ Unmapped(holds[w])
    /\ Dies
    /\ unclean' = unclean \cup {pid}

-----------------------------------------------------------------------------
(* The workers.                                                            *)

\* The workers run, and go on beside the handler.
Working == phase \in {"up", "handler"} /\ made = Steps

PoolRuns(action) ==
    /\ Working
    /\ action
    /\ UNCHANGED <<processVars, nameVars>>

PoolStep(w) ==
    \/ Call(w) \/ Wait(w) \/ Release(w) \/ SpuriousWake(w)
    \/ \E s \in Segments : Acquire(w, s)

\* The semaphores of a segment in use: both workers of a transfer move its one
\* token (CacheChannel) to the one side, to the other, or hold it.
UseSemaphores(s) ==
    /\ Working
    /\ inUse[s] /\ ~ Unmapped(s)
    /\ \E e, f \in {0, 1} :
          /\ e + f <= 1
          /\ object' = [object EXCEPT ![<<pid, s, "empty">>] = e,
                                    ![<<pid, s, "full">>] = f]
    /\ UNCHANGED <<vars, processVars, unclean>>

\* The operator does not start the proxy again.
Rest == phase = "down" /\ UNCHANGED lifeVars

LifeNext ==
    \/ \E p \in Pids : StartProxy(p)
    \/ Create \/ InitFails
    \/ Signal \/ Teardown \/ Exit \/ Fault \/ Kill
    \/ \E w \in Workers : PoolRuns(PoolStep(w)) \/ ThreadEnds(w)
    \/ \E s \in Segments : UseSemaphores(s)
    \/ Gone \/ Rest

\* SegmentPool's fairness while the process lives; the main thread and the end of
\* a process go on.  Nothing makes the operator start or stop the proxy.
LifeFairness ==
    /\ \A w \in Workers :
          /\ WF_lifeVars(PoolRuns(\E s \in Segments : Acquire(w, s)))
          /\ WF_lifeVars(PoolRuns(Wait(w)))
          /\ WF_lifeVars(PoolRuns(Release(w)))
          /\ WF_lifeVars(ThreadEnds(w))
    /\ WF_lifeVars(Create) /\ WF_lifeVars(Teardown)
    /\ WF_lifeVars(Exit) /\ WF_lifeVars(Gone)

LifeSpec == LifeInit /\ [][LifeNext]_lifeVars /\ LifeFairness

-----------------------------------------------------------------------------
\* A signal at any moment, in the middle of proxy_pool_init and while workers use
\* the pool, leaves no object behind: a name exists only while its process
\* lives, or because a process of that id was killed, faulted in the handler, or
\* failed in proxy_pool_init (shm_channel.c:74-104, webproxy.c:53-60, 146-149).
NamesExplained ==
    \A n \in Pids \X Segments \X Kinds :
        object[n] # None => n[1] \in unclean \/ (n[1] = pid /\ phase # "down")

\* The pool of a proxy that gets an id nobody left unclean starts with one token
\* in every segment, however many processes of that id there were before
\* (shm_channel.c:61-69).
FreshPool ==
    [][phase = "init" /\ phase' = "up" /\ pid \notin unclean =>
          \A s \in Segments :
              object'[pid, s, "empty"] = 1 /\ object'[pid, s, "full"] = 0]_lifeVars
=============================================================================
