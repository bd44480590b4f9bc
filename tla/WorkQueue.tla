----------------------------- MODULE WorkQueue -----------------------------
(***************************************************************************)
(* The work queue of the cache process (simplecached.c): main accepts a    *)
(* connection and pushes its descriptor, a fixed pool of worker threads    *)
(* pops and serves them.  One mutex and one condition variable guard the   *)
(* queue; a critical section is one step.                                  *)
(***************************************************************************)
EXTENDS Integers, Sequences, FiniteSets

CONSTANTS
    Workers,    \* threads created by work_q_init
    Jobs        \* connections that main will accept

ASSUME WorkQueueAssumption ==
    /\ IsFiniteSet(Workers) /\ Workers # {}     \* simplecached.c:300
    /\ IsFiniteSet(Jobs)

None == "none"

ASSUME NoneAssumption == None \notin Jobs

VARIABLES
    queue,      \* the steque: connections accepted and not yet popped
    accepted,   \* every connection main pushed, in order
    popped,     \* every connection a worker popped, in order
    job,        \* job[w]: the connection worker w serves
    pc          \* where each worker is

vars == <<queue, accepted, popped, job, pc>>

Accepted == {accepted[i] : i \in 1 .. Len(accepted)}
Waiting  == {w \in Workers : pc[w] = "waiting"}
Woken    == {w \in Workers : pc[w] = "woken"}

TypeOK ==
    /\ queue \in Seq(Jobs)
    /\ accepted \in Seq(Jobs)
    /\ popped \in Seq(Jobs)
    /\ job \in [Workers -> Jobs \cup {None}]
    /\ pc \in [Workers -> {"pop", "waiting", "woken", "serving"}]

-----------------------------------------------------------------------------
Init ==
    /\ queue = <<>>
    /\ accepted = <<>>
    /\ popped = <<>>
    /\ job = [w \in Workers |-> None]
    /\ pc = [w \in Workers |-> "pop"]

\* Mutant: no signal at all.
PushSilently(j) ==
    /\ j \notin Accepted
    /\ accepted' = Append(accepted, j)
    /\ queue' = Append(queue, j)
    /\ UNCHANGED <<popped, job, pc>>

\* accept() returns a connection; work_q_push enqueues it and signals.
Push(j) ==
    /\ j \notin Accepted
    /\ accepted' = Append(accepted, j)
    /\ queue' = Append(queue, j)
    /\ \/ /\ Waiting = {}
          /\ pc' = pc
       \/ \E w \in Waiting : pc' = [pc EXCEPT ![w] = "woken"]
    /\ UNCHANGED <<popped, job>>

\* work_q_pop, the queue not being empty.
Pop(w) ==
    /\ pc[w] \in {"pop", "woken"}
    /\ queue # <<>>
    /\ job' = [job EXCEPT ![w] = Head(queue)]
    /\ popped' = Append(popped, Head(queue))
    /\ queue' = Tail(queue)
    /\ pc' = [pc EXCEPT ![w] = "serving"]
    /\ UNCHANGED accepted

\* work_q_pop, the queue being empty.
Wait(w) ==
    /\ pc[w] \in {"pop", "woken"}
    /\ queue = <<>>
    /\ pc' = [pc EXCEPT ![w] = "waiting"]
    /\ UNCHANGED <<queue, accepted, popped, job>>

SpuriousWake(w) ==
    /\ pc[w] = "waiting"
    /\ pc' = [pc EXCEPT ![w] = "woken"]
    /\ UNCHANGED <<queue, accepted, popped, job>>

\* handle_cache_request returns and the worker loops.
Finish(w) ==
    /\ pc[w] = "serving"
    /\ job' = [job EXCEPT ![w] = None]
    /\ pc' = [pc EXCEPT ![w] = "pop"]
    /\ UNCHANGED <<queue, accepted, popped>>

Next ==
    \/ \E j \in Jobs : Push(j)
    \/ \E w \in Workers : Pop(w) \/ Wait(w) \/ SpuriousWake(w) \/ Finish(w)

Spec == Init /\ [][Next]_vars

-----------------------------------------------------------------------------
\* Connections are served once each, in the order they were accepted: what was
\* popped, followed by what is still queued, is what main accepted.
FifoOnce == accepted = popped \o queue

\* One signal per push is enough although a worker that never slept may take
\* the job first: while somebody sleeps every queued job has a woken thread of
\* its own (simplecached.c:63, 70-72).
NoLostWakeup ==
    Waiting # {} => Len(queue) <= Cardinality(Woken)
=============================================================================
