---------------------------- MODULE SegmentPool ----------------------------
(***************************************************************************)
(* The segment pool of the caching proxy (shm_channel.c): a table of       *)
(* segments with an inUse flag each, under one mutex and one condition     *)
(* variable.  proxy_seg_acq scans for the lowest free segment and waits on *)
(* the condition variable when there is none; proxy_seg_release frees the  *)
(* segment and signals one waiter.                                         *)
(*                                                                         *)
(* A critical section of the mutex is one step.  A thread that was         *)
(* signalled has to take the mutex again, so that a thread which has just  *)
(* called proxy_seg_acq may overtake it and take the segment (barging).    *)
(* POSIX lets a wait return without a signal (SpuriousWake).               *)
(***************************************************************************)
EXTENDS Integers, FiniteSets

CONSTANTS
    Workers,    \* worker threads that share the pool (webproxy.c:160)
    NSegments   \* number of segments (webproxy.c:99)

ASSUME SegmentPoolAssumption ==
    /\ NSegments \in Nat \ {0}      \* webproxy.c:138
    /\ IsFiniteSet(Workers)

Segments == 1 .. NSegments

VARIABLES
    inUse,      \* inUse[s]: the flag of segment s
    holds,      \* holds[w]: the segment proxy_seg_acq returned to w, or 0
    pc          \* where each worker is

vars == <<inUse, holds, pc>>

FreeSegments == {s \in Segments : ~inUse[s]}
Waiting      == {w \in Workers : pc[w] = "waiting"}
Woken        == {w \in Workers : pc[w] = "woken"}

TypeOK ==
    /\ inUse \in [Segments -> BOOLEAN]
    /\ holds \in [Workers -> Segments \cup {0}]
    /\ pc \in [Workers -> {"idle", "scan", "waiting", "woken", "holding"}]

-----------------------------------------------------------------------------
Init ==
    /\ inUse = [s \in Segments |-> FALSE]
    /\ holds = [w \in Workers |-> 0]
    /\ pc = [w \in Workers |-> "idle"]

\* A request reaches the worker, which calls proxy_seg_acq.
Call(w) ==
    /\ pc[w] = "idle"
    /\ pc' = [pc EXCEPT ![w] = "scan"]
    /\ UNCHANGED <<inUse, holds>>

\* Mutant: "if" for "while": a woken thread takes a segment without a new scan.
AcquireNoRescan(w, s) ==
    /\ \/ pc[w] = "scan" /\ s \in FreeSegments
       \/ pc[w] = "woken"
    /\ inUse' = [inUse EXCEPT ![s] = TRUE]
    /\ holds' = [holds EXCEPT ![w] = s]
    /\ pc' = [pc EXCEPT ![w] = "holding"]

\* The scan, under the mutex, finds a free segment: the lowest one is taken.
Acquire(w, s) ==
    /\ pc[w] \in {"scan", "woken"}
    /\ s \in FreeSegments
    /\ \A t \in FreeSegments : s <= t
    /\ inUse' = [inUse EXCEPT ![s] = TRUE]
    /\ holds' = [holds EXCEPT ![w] = s]
    /\ pc' = [pc EXCEPT ![w] = "holding"]

\* The scan finds none: pthread_cond_wait gives up the mutex and sleeps.
Wait(w) ==
    /\ pc[w] \in {"scan", "woken"}
    /\ FreeSegments = {}
    /\ pc' = [pc EXCEPT ![w] = "waiting"]
    /\ UNCHANGED <<inUse, holds>>

\* Mutant: release without a signal.
ReleaseSilently(w) ==
    /\ pc[w] = "holding"
    /\ inUse' = [inUse EXCEPT ![holds[w]] = FALSE]
    /\ holds' = [holds EXCEPT ![w] = 0]
    /\ pc' = [pc EXCEPT ![w] = "idle"]

\* The flag is cleared and pthread_cond_signal wakes one waiter, if there is one.
Release(w) ==
    /\ pc[w] = "holding"
    /\ inUse' = [inUse EXCEPT ![holds[w]] = FALSE]
    /\ holds' = [holds EXCEPT ![w] = 0]
    /\ \/ /\ Waiting = {}
          /\ pc' = [pc EXCEPT ![w] = "idle"]
       \/ \E v \in Waiting :
            pc' = [pc EXCEPT ![w] = "idle", ![v] = "woken"]

SpuriousWake(w) ==
    /\ pc[w] = "waiting"
    /\ pc' = [pc EXCEPT ![w] = "woken"]
    /\ UNCHANGED <<inUse, holds>>

Next ==
    \E w \in Workers :
        \/ Call(w)
        \/ \E s \in Segments : Acquire(w, s)
        \/ Wait(w)
        \/ Release(w)
        \/ SpuriousWake(w)

\* A thread that can run does run; the handler that holds a segment ends (the
\* whole request is the subject of CacheChannel).  Nothing makes a new request
\* arrive, and nothing makes a wait return without a signal.
Fairness ==
    \A w \in Workers :
        /\ WF_vars(\E s \in Segments : Acquire(w, s))
        /\ WF_vars(Wait(w))
        /\ WF_vars(Release(w))

Spec == Init /\ [][Next]_vars

FairSpec == Spec /\ Fairness

-----------------------------------------------------------------------------
\* Two workers never hold the same segment, and a segment is marked in use
\* exactly while some worker holds it: the flag neither leaks a segment nor
\* gives one away twice (shm_channel.c:116-119, 128).
ExclusiveUse ==
    /\ \A s \in Segments : inUse[s] <=> \E w \in Workers : holds[w] = s
    /\ \A v, w \in Workers : holds[v] = holds[w] /\ holds[v] # 0 => v = w
    /\ \A w \in Workers : holds[w] # 0 <=> pc[w] = "holding"

\* One signal per release is enough, although a newcomer may take the segment
\* before the thread that was signalled: as long as somebody sleeps, every free
\* segment has a thread of its own on its way to the scan (shm_channel.c:122,
\* 129).
NoLostWakeup ==
    Waiting # {} => Cardinality(FreeSegments) <= Cardinality(Woken)

\* A sleeper does not sleep beside a free segment for ever: either the segment
\* is taken or nobody sleeps any more.
NoStall ==
    (Waiting # {} /\ FreeSegments # {})
        ~> (Waiting = {} \/ FreeSegments = {})

\* The pool implements exclusive ownership.
Ownership == INSTANCE SegmentOwnership
    WITH owner <- [s \in Segments |-> {w \in Workers : holds[w] = s}]

ImplementsOwnership == Ownership!Spec
=============================================================================
