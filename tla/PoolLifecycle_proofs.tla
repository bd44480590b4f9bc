------------------------ MODULE PoolLifecycle_proofs ------------------------
(***************************************************************************)
(* Proofs about the segment pool, for any number of workers and segments,  *)
(* and about the pool over the lives of the proxy process, for any number  *)
(* of process ids and starts.                                              *)
(***************************************************************************)
EXTENDS PoolLifecycle, FiniteSetTheorems, TLAPS

-----------------------------------------------------------------------------
(* The pool.                                                               *)

\* A step of the pool keeps the types.
LEMMA StepTyping == TypeOK /\ [Next]_vars => TypeOK'
<1> SUFFICES ASSUME TypeOK, [Next]_vars
             PROVE  TypeOK'
  OBVIOUS
<1> USE DEF TypeOK
<1>1. ASSUME NEW w \in Workers, Call(w)
      PROVE  TypeOK'
  BY <1>1 DEF Call
<1>2. ASSUME NEW w \in Workers, NEW s \in Segments, Acquire(w, s)
      PROVE  TypeOK'
  BY <1>2 DEF Acquire
<1>3. ASSUME NEW w \in Workers, Wait(w)
      PROVE  TypeOK'
  BY <1>3 DEF Wait
<1>4. ASSUME NEW w \in Workers, Release(w)
      PROVE  TypeOK'
  BY <1>4 DEF Release, Waiting
<1>5. ASSUME NEW w \in Workers, SpuriousWake(w)
      PROVE  TypeOK'
  BY <1>5 DEF SpuriousWake
<1>6. CASE UNCHANGED vars
  BY <1>6 DEF vars
<1> QED
  BY <1>1, <1>2, <1>3, <1>4, <1>5, <1>6 DEF Next

\* The values of all variables stay within their types.
THEOREM Typing == Spec => []TypeOK
<1>1. Init => TypeOK
  BY DEF Init, TypeOK
<1>2. TypeOK /\ [Next]_vars => TypeOK'
  BY StepTyping
<1> QED
  BY <1>1, <1>2, PTL DEF Spec

\* A step of the pool keeps the marks and the holders in agreement.
LEMMA StepExclusive == TypeOK /\ ExclusiveUse /\ [Next]_vars => ExclusiveUse'
<1> SUFFICES ASSUME TypeOK, ExclusiveUse, [Next]_vars
             PROVE  ExclusiveUse'
  OBVIOUS
<1> USE DEF TypeOK, ExclusiveUse
<1>1. ASSUME NEW w \in Workers, Call(w)
      PROVE  ExclusiveUse'
  BY <1>1 DEF Call
<1>2. ASSUME NEW w \in Workers, NEW s \in Segments, Acquire(w, s)
      PROVE  ExclusiveUse'
  \* Nobody holds a free segment, and w holds none.
  <2>1. /\ \A v \in Workers : holds[v] # s
        /\ holds[w] = 0
        /\ s # 0
    BY <1>2 DEF Acquire, FreeSegments, Segments
  <2>2. /\ holds' = [holds EXCEPT ![w] = s]
        /\ inUse' = [inUse EXCEPT ![s] = TRUE]
        /\ pc' = [pc EXCEPT ![w] = "holding"]
    BY <1>2 DEF Acquire
  <2>3. \A v \in Workers : holds'[v] = IF v = w THEN s ELSE holds[v]
    BY <2>2
  <2>4. \A t \in Segments : inUse'[t] <=> (inUse[t] \/ t = s)
    BY <2>2
  <2>5. \A t \in Segments : inUse'[t] <=> \E v \in Workers : holds'[v] = t
    <3> SUFFICES ASSUME NEW t \in Segments
                 PROVE  inUse'[t] <=> \E v \in Workers : holds'[v] = t
      OBVIOUS
    <3>1. CASE t = s
      BY <3>1, <2>3, <2>4
    <3>2. CASE t # s
      <4>1. inUse'[t] <=> inUse[t]
        BY <3>2, <2>4
      <4>2. \A v \in Workers : holds'[v] = t <=> holds[v] = t
        BY <3>2, <2>1, <2>3 DEF Segments
      <4> QED
        BY <4>1, <4>2
    <3> QED
      BY <3>1, <3>2
  <2>6. \A u, v \in Workers : holds'[u] = holds'[v] /\ holds'[u] # 0 => u = v
    BY <2>1, <2>3
  <2>7. \A v \in Workers : holds'[v] # 0 <=> pc'[v] = "holding"
    BY <2>1, <2>2, <2>3
  <2> QED
    BY <2>5, <2>6, <2>7
<1>3. ASSUME NEW w \in Workers, Wait(w)
      PROVE  ExclusiveUse'
  BY <1>3 DEF Wait
<1>4. ASSUME NEW w \in Workers, Release(w)
      PROVE  ExclusiveUse'
  <2>1. /\ holds' = [holds EXCEPT ![w] = 0]
        /\ inUse' = [inUse EXCEPT ![holds[w]] = FALSE]
        /\ holds[w] \in Segments
        /\ holds[w] # 0
    BY <1>4 DEF Release
  <2>2. \A v \in Workers : pc'[v] = "holding" <=> pc[v] = "holding" /\ v # w
    BY <1>4 DEF Release, Waiting
  <2> QED
    BY <2>1, <2>2 DEF Segments
<1>5. ASSUME NEW w \in Workers, SpuriousWake(w)
      PROVE  ExclusiveUse'
  BY <1>5 DEF SpuriousWake
<1>6. CASE UNCHANGED vars
  BY <1>6 DEF vars
<1> QED
  BY <1>1, <1>2, <1>3, <1>4, <1>5, <1>6 DEF Next

\* A segment is marked in use exactly while one worker holds it.
THEOREM PoolExclusiveUse == Spec => []ExclusiveUse
<1>1. Init => ExclusiveUse
  BY DEF Init, ExclusiveUse, Segments
<1>2. TypeOK /\ ExclusiveUse /\ [Next]_vars => ExclusiveUse'
  BY StepExclusive
<1> QED
  BY <1>1, <1>2, Typing, PTL DEF Spec

-----------------------------------------------------------------------------
\* The sets that NoLostWakeup counts are finite.
LEMMA FiniteSets == /\ IsFiniteSet(FreeSegments)
                    /\ IsFiniteSet(Woken)
                    /\ Cardinality(FreeSegments) \in Nat
                    /\ Cardinality(Woken) \in Nat
<1>1. IsFiniteSet(Segments)
  BY SegmentPoolAssumption, FS_Interval DEF Segments
<1>2. IsFiniteSet(FreeSegments)
  BY <1>1, FS_Subset DEF FreeSegments
<1>3. IsFiniteSet(Woken)
  BY SegmentPoolAssumption, FS_Subset DEF Woken
<1> QED
  BY <1>2, <1>3, FS_CardinalityType

\* A step of the pool keeps a woken worker for every free segment.
LEMMA StepNoLostWakeup == TypeOK /\ NoLostWakeup /\ ExclusiveUse /\ [Next]_vars => NoLostWakeup'
<1> SUFFICES ASSUME TypeOK, NoLostWakeup, ExclusiveUse, [Next]_vars,
                    Waiting' # {}
             PROVE  Cardinality(FreeSegments') <= Cardinality(Woken')
  BY DEF NoLostWakeup
<1> USE DEF TypeOK
<1> DEFINE Free == FreeSegments
           W == Woken
<1>0. /\ IsFiniteSet(Free) /\ IsFiniteSet(W)
      /\ Cardinality(Free) \in Nat /\ Cardinality(W) \in Nat
  BY FiniteSets
<1>1. ASSUME NEW w \in Workers, Call(w)
      PROVE  Cardinality(FreeSegments') <= Cardinality(Woken')
  <2>1. FreeSegments' = FreeSegments /\ Woken' = Woken /\ Waiting' = Waiting
    BY <1>1 DEF Call, FreeSegments, Woken, Waiting
  <2> QED
    BY <2>1 DEF NoLostWakeup
<1>2. ASSUME NEW w \in Workers, NEW s \in Segments, Acquire(w, s)
      PROVE  Cardinality(FreeSegments') <= Cardinality(Woken')
  \* One segment less; one woken thread less at most.
  <2>1. FreeSegments' = Free \ {s} /\ s \in Free
    BY <1>2 DEF Acquire, FreeSegments
  <2>2. Waiting' = Waiting
    BY <1>2 DEF Acquire, Waiting
  <2>3. Woken' = W \ {w}
    BY <1>2 DEF Acquire, Woken
  <2>4. Cardinality(Free \ {s}) = Cardinality(Free) - 1
    BY <2>1, <1>0, FS_RemoveElement
  <2>5. Cardinality(W \ {w}) >= Cardinality(W) - 1
    BY <1>0, FS_RemoveElement
  <2>6. Cardinality(Free) <= Cardinality(W)
    BY <2>2 DEF NoLostWakeup
  <2>7. Cardinality(W \ {w}) \in Nat
    BY <1>0, FS_RemoveElement, FS_CardinalityType
  <2> HIDE DEF Free, W
  <2> QED
    BY <2>1, <2>3, <2>4, <2>5, <2>6, <2>7, <1>0
<1>3. ASSUME NEW w \in Workers, Wait(w)
      PROVE  Cardinality(FreeSegments') <= Cardinality(Woken')
  \* Nothing is free when somebody goes to sleep.
  <2>1. FreeSegments' = {}
    BY <1>3 DEF Wait, FreeSegments
  <2>2. Cardinality(Woken') \in Nat
    BY FiniteSets, <1>3, FS_Subset, FS_CardinalityType, SegmentPoolAssumption
    DEF Woken
  <2> QED
    BY <2>1, <2>2, FS_EmptySet
<1>4. ASSUME NEW w \in Workers, Release(w)
      PROVE  Cardinality(FreeSegments') <= Cardinality(Woken')
  \* One segment more, and, somebody being asleep, one woken thread more.
  <2>1. FreeSegments' = Free \cup {holds[w]} /\ holds[w] \notin Free
    BY <1>4 DEF Release, FreeSegments, ExclusiveUse
  <2>2. PICK v \in Waiting : pc' = [pc EXCEPT ![w] = "idle", ![v] = "woken"]
    BY <1>4 DEF Release, Waiting
  <2>3. Woken' = W \cup {v} /\ v \notin W
    BY <2>2, <1>4 DEF Release, Woken, Waiting
  <2>4. Cardinality(Free) <= Cardinality(W)
    BY <2>2 DEF NoLostWakeup
  <2>5. Cardinality(Free \cup {holds[w]}) = Cardinality(Free) + 1
    BY <2>1, <1>0, FS_AddElement
  <2>6. Cardinality(W \cup {v}) = Cardinality(W) + 1
    BY <2>3, <1>0, FS_AddElement
  <2> HIDE DEF Free, W
  <2> QED
    BY <2>1, <2>3, <2>4, <2>5, <2>6, <1>0
<1>5. ASSUME NEW w \in Workers, SpuriousWake(w)
      PROVE  Cardinality(FreeSegments') <= Cardinality(Woken')
  <2>1. FreeSegments' = Free /\ Waiting # {}
    BY <1>5 DEF SpuriousWake, FreeSegments, Waiting
  <2>2. Woken' = W \cup {w} /\ w \notin W
    BY <1>5 DEF SpuriousWake, Woken
  <2>3. Cardinality(Free) <= Cardinality(W)
    BY <2>1 DEF NoLostWakeup
  <2>4. Cardinality(W \cup {w}) = Cardinality(W) + 1
    BY <2>2, <1>0, FS_AddElement
  <2> HIDE DEF Free, W
  <2> QED
    BY <2>1, <2>2, <2>3, <2>4, <1>0
<1>6. CASE UNCHANGED vars
  <2>1. FreeSegments' = FreeSegments /\ Woken' = Woken /\ Waiting' = Waiting
    BY <1>6 DEF vars, FreeSegments, Woken, Waiting
  <2> QED
    BY <2>1 DEF NoLostWakeup
<1> QED
  BY <1>1, <1>2, <1>3, <1>4, <1>5, <1>6 DEF Next

\* As long as somebody sleeps, every free segment has a woken thread of its own.
THEOREM PoolNoLostWakeup == Spec => []NoLostWakeup
<1>1. Init => NoLostWakeup
  BY DEF Init, NoLostWakeup, Waiting
<1>2. TypeOK /\ NoLostWakeup /\ ExclusiveUse /\ [Next]_vars => NoLostWakeup'
  BY StepNoLostWakeup
<1> QED
  BY <1>1, <1>2, Typing, PoolExclusiveUse, PTL DEF Spec

-----------------------------------------------------------------------------
\* The owners of every segment, as SegmentPool maps them.
owner == [s \in Segments |-> {w \in Workers : holds[w] = s}]

\* A worker that no longer holds its segment has dropped it.
LEMMA HolderDrops ==
    ASSUME TypeOK, ExclusiveUse,
           NEW w \in Workers, holds[w] # 0, holds' = [holds EXCEPT ![w] = 0]
    PROVE  Ownership!Next
<1> USE DEF TypeOK, owner
<1>1. PICK s \in Segments : s = holds[w]
  OBVIOUS
<1>2. /\ \A v \in Workers : holds[v] = s => v = w
      /\ s # 0
  BY <1>1 DEF ExclusiveUse, Segments
<1>3. owner[s] = {w}
  BY <1>1, <1>2
<1>4. \A t \in Segments :
         {v \in Workers : holds'[v] = t} =
             IF t = s THEN {} ELSE {v \in Workers : holds[v] = t}
  BY <1>1, <1>2 DEF Segments
<1>5. owner' = [owner EXCEPT ![s] = {}]
  BY <1>4
<1>6. Ownership!Drop(w, s)
  BY <1>3, <1>5 DEF Ownership!Drop
<1> QED
  BY <1>6 DEF Ownership!Next

\* Acquiring takes a segment nobody has, releasing gives back the one the worker
\* holds, every other step stutters.
LEMMA StepOwnership ==
    TypeOK /\ ExclusiveUse /\ [Next]_vars => Ownership!Next \/ owner' = owner
<1> SUFFICES ASSUME TypeOK, ExclusiveUse, [Next]_vars
             PROVE  Ownership!Next \/ owner' = owner
  OBVIOUS
<1> USE DEF TypeOK, owner
<1>1. ASSUME holds' = holds
      PROVE  owner' = owner
  BY <1>1
<1>2. ASSUME NEW w \in Workers, NEW s \in Segments, Acquire(w, s)
      PROVE  Ownership!Take(w, s)
  <2>1. /\ \A v \in Workers : holds[v] # s
        /\ holds[w] = 0
        /\ holds' = [holds EXCEPT ![w] = s]
    BY <1>2 DEF Acquire, FreeSegments, ExclusiveUse
  <2>2. \A t \in Segments :
           {v \in Workers : holds'[v] = t} =
               IF t = s THEN {w} ELSE {v \in Workers : holds[v] = t}
    BY <2>1 DEF Segments
  <2>3. owner' = [owner EXCEPT ![s] = {w}]
    BY <2>2
  <2> QED
    BY <2>1, <2>3 DEF Ownership!Take, Ownership!Free, Ownership!HoldsNothing,
                      Segments
<1>3. ASSUME NEW w \in Workers, Release(w)
      PROVE  Ownership!Next
  BY <1>3, HolderDrops DEF Release, ExclusiveUse
<1>4. ASSUME NEW w \in Workers, Call(w) \/ Wait(w) \/ SpuriousWake(w)
      PROVE  holds' = holds
  BY <1>4 DEF Call, Wait, SpuriousWake
<1>5. CASE UNCHANGED vars
  BY <1>1, <1>5 DEF vars
<1>6. CASE Next
  BY <1>1, <1>2, <1>3, <1>4, <1>6 DEF Next, Ownership!Next
<1> QED
  BY <1>5, <1>6

LEMMA InitOwnership == Init => Ownership!Init
BY DEF Init, Ownership!Init, Segments

\* The pool implements SegmentOwnership.
THEOREM PoolImplementsOwnership == Spec => ImplementsOwnership
<1>1. TypeOK /\ ExclusiveUse /\ [Next]_vars => [Ownership!Next]_owner
  BY StepOwnership
<1> QED
  BY <1>1, InitOwnership, Typing, PoolExclusiveUse, PTL
  DEF Spec, ImplementsOwnership, Ownership!Spec, owner

-----------------------------------------------------------------------------
(* The pool over the lives of the process.                                 *)

\* To the pool a step of the process is one of its own steps or none, the end of
\* all threads that hold nothing, or the end of one that holds a segment.
AllDie ==
    /\ UNCHANGED <<inUse, holds>>
    /\ pc' = [w \in Workers |-> IF pc[w] = "holding" THEN "holding" ELSE "idle"]

LEMMA PoolPart ==
    ASSUME [LifeNext]_lifeVars
    PROVE  [Next]_vars \/ AllDie \/ \E w \in Workers : ThreadEnds(w)
<1>1. ASSUME NEW w \in Workers, PoolRuns(PoolStep(w))
      PROVE  Next
  BY <1>1 DEF PoolRuns, PoolStep, Next
<1>2. CASE InitFails \/ Kill \/ Exit \/ Fault
  BY <1>2 DEF InitFails, Kill, Exit, Fault, Dies, AllDie
<1>3. CASE \/ \E p \in Pids : StartProxy(p)
           \/ Create \/ Signal \/ Teardown \/ Gone \/ Rest
           \/ \E s \in Segments : UseSemaphores(s)
  BY <1>3 DEF StartProxy, Create, Signal, Teardown, Gone, Rest, UseSemaphores, lifeVars
<1>4. CASE UNCHANGED lifeVars
  BY <1>4 DEF lifeVars
<1> QED
  BY <1>1, <1>2, <1>3, <1>4 DEF LifeNext

\* How far proxy_pool_init and proxy_pool_destroy have come in every phase, and
\* that a thread of an ending process does not wait.
Phases ==
    /\ phase = "init" => made < Steps
    /\ phase = "up" => made = Steps
    /\ phase \in {"init", "up"} => torn = 0
    /\ phase = "dying" => \A w \in Workers : pc[w] \in {"idle", "holding"}

TypedPhases == LifeTypeOK /\ Phases

LEMMA StepsPositive == Steps \in Nat /\ 0 < Steps
BY SegmentPoolAssumption DEF Steps

LEMMA InitTypedPhases == LifeInit => TypedPhases
<1> SUFFICES ASSUME LifeInit
             PROVE  TypedPhases
  OBVIOUS
<1>1. TypeOK
  BY DEF LifeInit, Init, TypeOK
<1> QED
  BY <1>1, StepsPositive, PoolLifecycleAssumption
  DEF LifeInit, Init, TypedPhases, LifeTypeOK, Phases, None

LEMMA StepTypedPhases == TypedPhases /\ [LifeNext]_lifeVars => TypedPhases'
<1> SUFFICES ASSUME TypedPhases, [LifeNext]_lifeVars
             PROVE  TypedPhases'
  OBVIOUS
<1> USE DEF TypedPhases, LifeTypeOK, Phases
<1>1. TypeOK'
  <2>1. ASSUME AllDie
        PROVE  TypeOK'
    BY <2>1 DEF AllDie, TypeOK
  <2>2. ASSUME NEW w \in Workers, ThreadEnds(w)
        PROVE  TypeOK'
    BY <2>2 DEF ThreadEnds, TypeOK
  <2> QED
    BY <2>1, <2>2, PoolPart, StepTyping
<1>2. ASSUME NEW p \in Pids, StartProxy(p)
      PROVE  TypedPhases'
  <2>1. starts' \in 0 .. MaxStarts
    BY <1>2, PoolLifecycleAssumption DEF StartProxy
  <2>2. 0 \in 0 .. Steps /\ 0 < Steps
    BY StepsPositive
  <2> QED
    BY <1>1, <1>2, <2>1, <2>2 DEF StartProxy, vars, nameVars
<1>3. CASE Create
  <2>1. object' \in [Pids \X Segments \X Kinds -> {None, 0, 1}]
    BY <1>3 DEF Create, Opened
  <2>2. made' \in 0 .. Steps /\ (made' = Steps \/ made' < Steps)
    BY <1>3, StepsPositive DEF Create
  <2> QED
    BY <1>1, <1>3, <2>1, <2>2 DEF Create, vars
<1>4. CASE InitFails \/ Kill \/ Exit \/ Fault
  BY <1>1, <1>4 DEF InitFails, Kill, Exit, Fault, Dies, TypeOK
<1>5. CASE Signal \/ Gone
  BY <1>1, <1>5 DEF Signal, Gone, vars, nameVars
<1>6. CASE Teardown
  <2>1. object' \in [Pids \X Segments \X Kinds -> {None, 0, 1}]
    BY <1>6 DEF Teardown
  <2>2. torn' \in 0 .. Steps
    BY <1>6, StepsPositive DEF Teardown
  <2> QED
    BY <1>1, <1>6, <2>1, <2>2 DEF Teardown, vars
<1>7. ASSUME NEW w \in Workers, PoolRuns(PoolStep(w)) \/ ThreadEnds(w)
      PROVE  TypedPhases'
  BY <1>1, <1>7 DEF PoolRuns, Working, ThreadEnds, processVars, nameVars, TypeOK
<1>8. ASSUME NEW s \in Segments, UseSemaphores(s)
      PROVE  TypedPhases'
  BY <1>1, <1>8 DEF UseSemaphores, vars, processVars
<1>9. CASE Rest \/ UNCHANGED lifeVars
  BY <1>1, <1>9 DEF Rest, lifeVars, vars, processVars, nameVars
<1> QED
  BY <1>2, <1>3, <1>4, <1>5, <1>6, <1>7, <1>8, <1>9 DEF LifeNext

\* The values of all variables stay within their types, and no worker uses the
\* pool before proxy_pool_init is done.
THEOREM LifeTyping == LifeSpec => []LifeTypeOK
<1>1. LifeSpec => []TypedPhases
  BY InitTypedPhases, StepTypedPhases, PTL DEF LifeSpec
<1> QED
  BY <1>1, PTL DEF TypedPhases

-----------------------------------------------------------------------------
\* ExclusiveUse, NoLostWakeup and the ownership of segments outlive the process.

LEMMA StepLifeExclusive ==
    TypedPhases /\ ExclusiveUse /\ [LifeNext]_lifeVars => ExclusiveUse'
<1> SUFFICES ASSUME TypedPhases, ExclusiveUse, [LifeNext]_lifeVars
             PROVE  ExclusiveUse'
  OBVIOUS
<1>0. TypeOK
  BY DEF TypedPhases, LifeTypeOK
<1>1. CASE AllDie
  BY <1>0, <1>1 DEF AllDie, ExclusiveUse
<1>2. ASSUME NEW w \in Workers, ThreadEnds(w)
      PROVE  ExclusiveUse'
  <2>1. /\ holds' = [holds EXCEPT ![w] = 0]
        /\ inUse' = [inUse EXCEPT ![holds[w]] = FALSE]
        /\ pc' = [pc EXCEPT ![w] = "idle"]
        /\ holds[w] \in Segments /\ holds[w] # 0
    BY <1>0, <1>2 DEF ThreadEnds, TypeOK, ExclusiveUse
  <2> QED
    BY <1>0, <2>1 DEF TypeOK, ExclusiveUse, Segments
<1> QED
  BY <1>0, <1>1, <1>2, PoolPart, StepExclusive

\* In every life of the proxy a segment is marked in use exactly while one worker
\* holds it.
THEOREM LifeExclusiveUse == LifeSpec => []ExclusiveUse
<1>1. LifeInit => ExclusiveUse
  BY DEF LifeInit, Init, ExclusiveUse, Segments
<1> QED
  BY <1>1, InitTypedPhases, StepTypedPhases, StepLifeExclusive, PTL DEF LifeSpec

LEMMA StepLifeNoLostWakeup ==
    TypedPhases /\ ExclusiveUse /\ NoLostWakeup /\ [LifeNext]_lifeVars => NoLostWakeup'
<1> SUFFICES ASSUME TypedPhases, ExclusiveUse, NoLostWakeup, [LifeNext]_lifeVars
             PROVE  NoLostWakeup'
  OBVIOUS
<1>0. TypeOK
  BY DEF TypedPhases, LifeTypeOK
\* Nobody sleeps in a process that ends.
<1>1. CASE AllDie
  <2>1. Waiting' = {}
    BY <1>1 DEF AllDie, Waiting
  <2> QED
    BY <2>1 DEF NoLostWakeup
<1>2. ASSUME NEW w \in Workers, ThreadEnds(w)
      PROVE  NoLostWakeup'
  <2>1. \A v \in Workers : pc[v] \in {"idle", "holding"}
    BY <1>2 DEF ThreadEnds, TypedPhases, Phases
  <2>2. pc' = [pc EXCEPT ![w] = "idle"]
    BY <1>2 DEF ThreadEnds
  <2>3. Waiting' = {}
    BY <1>0, <2>1, <2>2 DEF TypeOK, Waiting
  <2> QED
    BY <2>3 DEF NoLostWakeup
<1> QED
  BY <1>0, <1>1, <1>2, PoolPart, StepNoLostWakeup

\* In every life of the proxy, while a worker sleeps every free segment has a woken
\* worker of its own.
THEOREM LifeNoLostWakeup == LifeSpec => []NoLostWakeup
<1>1. LifeInit => NoLostWakeup
  BY DEF LifeInit, Init, NoLostWakeup, Waiting
<1> QED
  BY <1>1, InitTypedPhases, StepTypedPhases, StepLifeExclusive, StepLifeNoLostWakeup,
     LifeExclusiveUse, PTL DEF LifeSpec

LEMMA StepLifeOwnership ==
    TypedPhases /\ ExclusiveUse /\ [LifeNext]_lifeVars => Ownership!Next \/ owner' = owner
<1> SUFFICES ASSUME TypedPhases, ExclusiveUse, [LifeNext]_lifeVars
             PROVE  Ownership!Next \/ owner' = owner
  OBVIOUS
<1>0. TypeOK
  BY DEF TypedPhases, LifeTypeOK
<1>1. CASE AllDie
  BY <1>1 DEF AllDie, owner
<1>2. ASSUME NEW w \in Workers, ThreadEnds(w)
      PROVE  Ownership!Next
  BY <1>0, <1>2, HolderDrops DEF ThreadEnds, ExclusiveUse
<1> QED
  BY <1>0, <1>1, <1>2, PoolPart, StepOwnership

\* A process that ends gives its segments back one by one, so that its whole life
\* and the next one are exclusive ownership.
THEOREM LifeImplementsOwnership == LifeSpec => ImplementsOwnership
<1>1. TypedPhases /\ ExclusiveUse /\ [LifeNext]_lifeVars => [Ownership!Next]_owner
  BY StepLifeOwnership
<1>2. LifeInit => Ownership!Init
  BY InitOwnership DEF LifeInit
<1> QED
  BY <1>1, <1>2, InitTypedPhases, StepTypedPhases, LifeExclusiveUse, PTL
  DEF LifeSpec, ImplementsOwnership, Ownership!Spec, owner

-----------------------------------------------------------------------------
\* The named objects.

\* The step of proxy_pool_init that makes object k of segment s, and the step of
\* proxy_pool_destroy that removes it.
Index(s, k) ==
    4 * (s - 1) + (IF k = "shm" THEN 1 ELSE IF k = "empty" THEN 2 ELSE 3)

Fresh(k) == IF k = "empty" THEN 1 ELSE 0

LEMMA IndexRange ==
    ASSUME NEW s \in Segments, NEW k \in Kinds
    PROVE  Index(s, k) \in Nat /\ 4 * (s - 1) < Index(s, k) /\ Index(s, k) < Steps
BY SegmentPoolAssumption DEF Index, Steps, Segments, Kinds

\* A step concerns the one object whose index it is, or none.
LEMMA IndexOfStep ==
    ASSUME NEW step \in Nat, NEW s \in Segments, NEW k \in Kinds
    PROVE  Index(s, k) = step <=> s = SegmentAt(step) /\ k = KindAt(step)
<1>1. PICK q \in Nat, r \in 0 .. 3 : step = 4 * q + r
  <2> DEFINE a == step \div 4
             b == step % 4
  <2>1. a \in Nat /\ b \in 0 .. 3 /\ step = 4 * a + b
    OBVIOUS
  <2> HIDE DEF a, b
  <2> QED
    BY <2>1
<1>2. step \div 4 = q /\ step % 4 = r
  BY <1>1
<1>3. KindAt(step) = <<"local", "shm", "empty", "full">>[r + 1] /\ SegmentAt(step) = q + 1
  BY <1>2 DEF KindAt, SegmentAt
<1>4. CASE r = 0
  BY <1>1, <1>3, <1>4 DEF Index, Segments, Kinds
<1>5. CASE r = 1
  BY <1>1, <1>3, <1>5 DEF Index, Segments, Kinds
<1>6. CASE r = 2
  BY <1>1, <1>3, <1>6 DEF Index, Segments, Kinds
<1>7. CASE r = 3
  BY <1>1, <1>3, <1>7 DEF Index, Segments, Kinds
<1> QED
  BY <1>4, <1>5, <1>6, <1>7

LEMMA KeyIn ==
    ASSUME NEW p \in Pids, NEW s \in Segments, NEW k \in Kinds
    PROVE  <<p, s, k>> \in Pids \X Segments \X Kinds
OBVIOUS

LEMMA CreateEffect ==
    ASSUME TypedPhases, Create,
           NEW p \in Pids, NEW s \in Segments, NEW k \in Kinds
    PROVE  object'[<<p, s, k>>] =
               IF p = pid /\ Index(s, k) = made /\ object[<<p, s, k>>] = None
               THEN Fresh(k) ELSE object[<<p, s, k>>]
<1> DEFINE n == <<pid, SegmentAt(made), KindAt(made)>>
<1>1. made \in Nat /\ object \in [Pids \X Segments \X Kinds -> {None, 0, 1}]
  BY StepsPositive DEF TypedPhases, LifeTypeOK
<1>2. <<p, s, k>> = n <=> p = pid /\ Index(s, k) = made
  BY <1>1, IndexOfStep
<1>3. n[3] = KindAt(made)
  OBVIOUS
<1>4. object' = IF n[3] = "local" THEN object ELSE [object EXCEPT ![n] = Opened(n)]
  BY DEF Create
<1>5. <<p, s, k>> = n => n[3] # "local" /\ n[3] = k
  BY <1>3 DEF Kinds
<1> HIDE DEF n
<1>6. CASE <<p, s, k>> = n
  <2>1. object'[<<p, s, k>>] = Opened(n)
    BY <1>1, <1>4, <1>5, <1>6, KeyIn
  <2> QED
    BY <1>2, <1>5, <1>6, <2>1 DEF Opened, Fresh
<1>7. CASE <<p, s, k>> # n
  BY <1>1, <1>2, <1>4, <1>7, KeyIn
<1> QED
  BY <1>6, <1>7

LEMMA TeardownEffect ==
    ASSUME TypedPhases, Teardown,
           NEW p \in Pids, NEW s \in Segments, NEW k \in Kinds
    PROVE  object'[<<p, s, k>>] =
               IF p = pid /\ Index(s, k) = torn /\ Named(s)
               THEN None ELSE object[<<p, s, k>>]
<1> DEFINE n == <<pid, SegmentAt(torn), KindAt(torn)>>
<1>1. torn \in Nat /\ object \in [Pids \X Segments \X Kinds -> {None, 0, 1}]
  BY StepsPositive DEF TypedPhases, LifeTypeOK
<1>2. <<p, s, k>> = n <=> p = pid /\ Index(s, k) = torn
  BY <1>1, IndexOfStep
<1>3. n[3] = KindAt(torn) /\ n[2] = SegmentAt(torn)
  OBVIOUS
<1>4. object' = IF n[3] = "local" \/ ~ Named(n[2]) THEN object
                ELSE [object EXCEPT ![n] = None]
  BY DEF Teardown
<1>5. <<p, s, k>> = n => n[3] # "local" /\ n[2] = s
  BY <1>3 DEF Kinds
<1> HIDE DEF n
<1>6. CASE <<p, s, k>> = n
  BY <1>1, <1>2, <1>4, <1>5, <1>6, KeyIn
<1>7. CASE <<p, s, k>> # n
  BY <1>1, <1>2, <1>4, <1>7, KeyIn
<1> QED
  BY <1>6, <1>7

\* Objects of an id whose last process left nothing are objects of the process
\* that lives; they are as made so far, removed so far, or gone.
NamesInv ==
    \A p \in Pids, s \in Segments, k \in Kinds :
        LET o == object[<<p, s, k>>]
        IN  /\ o # None => p \in unclean \/ (p = pid /\ phase # "down")
            /\ p = pid /\ p \notin unclean /\ phase = "init"
                   => o = IF Index(s, k) < made THEN Fresh(k) ELSE None
            /\ p = pid /\ p \notin unclean /\ phase = "handler"
                   => (o # None => Named(s))
            /\ p = pid /\ phase = "handler" /\ Named(s) /\ Index(s, k) < torn
                   => o = None
            /\ p = pid /\ p \notin unclean /\ phase = "dying" => o = None

LEMMA InitNames == LifeInit => NamesInv
BY KeyIn DEF LifeInit, NamesInv

LEMMA StepNames == TypedPhases /\ NamesInv /\ [LifeNext]_lifeVars => NamesInv'
<1> SUFFICES ASSUME TypedPhases, NamesInv, [LifeNext]_lifeVars,
                    NEW p \in Pids, NEW s \in Segments, NEW k \in Kinds
             PROVE  LET o == object'[<<p, s, k>>]
                    IN  /\ o # None => p \in unclean' \/ (p = pid' /\ phase' # "down")
                        /\ p = pid' /\ p \notin unclean' /\ phase' = "init"
                               => o = IF Index(s, k) < made' THEN Fresh(k) ELSE None
                        /\ p = pid' /\ p \notin unclean' /\ phase' = "handler"
                               => (o # None => Named(s)')
                        /\ p = pid' /\ phase' = "handler" /\ Named(s)' /\ Index(s, k) < torn'
                               => o = None
                        /\ p = pid' /\ p \notin unclean' /\ phase' = "dying" => o = None
  BY DEF NamesInv
<1> DEFINE o  == object[<<p, s, k>>]
           o1 == object'[<<p, s, k>>]
           Goal == /\ o1 # None => p \in unclean' \/ (p = pid' /\ phase' # "down")
                   /\ p = pid' /\ p \notin unclean' /\ phase' = "init"
                          => o1 = IF Index(s, k) < made' THEN Fresh(k) ELSE None
                   /\ p = pid' /\ p \notin unclean' /\ phase' = "handler"
                          => (o1 # None => Named(s)')
                   /\ p = pid' /\ phase' = "handler" /\ Named(s)' /\ Index(s, k) < torn'
                          => o1 = None
                   /\ p = pid' /\ p \notin unclean' /\ phase' = "dying" => o1 = None
<1>0. /\ o # None => p \in unclean \/ (p = pid /\ phase # "down")
      /\ p = pid /\ p \notin unclean /\ phase = "init"
             => o = IF Index(s, k) < made THEN Fresh(k) ELSE None
      /\ p = pid /\ p \notin unclean /\ phase = "handler" => (o # None => Named(s))
      /\ p = pid /\ phase = "handler" /\ Named(s) /\ Index(s, k) < torn => o = None
      /\ p = pid /\ p \notin unclean /\ phase = "dying" => o = None
  BY DEF NamesInv
<1>i. Index(s, k) \in Nat /\ 4 * (s - 1) < Index(s, k) /\ Index(s, k) < Steps
  BY IndexRange
<1>t. /\ made \in Nat /\ torn \in Nat /\ Steps \in Nat /\ s \in Nat
      /\ Phases
  BY StepsPositive DEF TypedPhases, LifeTypeOK, Segments
<1>1. ASSUME NEW q \in Pids, StartProxy(q)
      PROVE  Goal
  BY <1>0, <1>1, <1>i DEF StartProxy, nameVars
<1>2. ASSUME Create PROVE Goal
  <2>1. o1 = IF p = pid /\ Index(s, k) = made /\ o = None THEN Fresh(k) ELSE o
    BY <1>2, CreateEffect
  <2>2. /\ phase = "init" /\ phase' \in {"init", "up"} /\ made' = made + 1
        /\ UNCHANGED <<pid, torn, unclean>>
    BY <1>2 DEF Create
  <2> HIDE DEF o, o1
  <2> QED
    BY <1>0, <1>i, <1>t, <2>1, <2>2
<1>3. CASE InitFails \/ Kill \/ Fault
  <2>1. /\ phase' = "dying" /\ unclean' = unclean \cup {pid}
        /\ phase \in {"init", "up", "handler"}
        /\ UNCHANGED <<pid, object>>
    BY <1>3 DEF InitFails, Kill, Fault, Dies
  <2> QED
    BY <1>0, <2>1
<1>4. CASE Exit
  <2>1. /\ phase = "handler" /\ torn = Steps /\ phase' = "dying"
        /\ UNCHANGED <<pid, object>>
        /\ unclean' = IF \A r \in Segments : Named(r) THEN unclean \ {pid} ELSE unclean
    BY <1>4 DEF Exit, Dies
  <2>2. p = pid /\ p \notin unclean' => o = None
    BY <1>0, <1>i, <2>1
  <2> QED
    BY <1>0, <2>1, <2>2
<1>5. CASE Signal
  <2>1. /\ phase \in {"init", "up"} /\ phase' = "handler"
        /\ UNCHANGED <<pid, object, unclean, made, torn>>
    BY <1>5 DEF Signal, nameVars
  <2>2. Named(s)' <=> 4 * (s - 1) < made
    BY <2>1 DEF Named
  <2> QED
    BY <1>0, <1>i, <1>t, <2>1, <2>2 DEF Phases
<1>6. ASSUME Teardown PROVE Goal
  <2>1. o1 = IF p = pid /\ Index(s, k) = torn /\ Named(s) THEN None ELSE o
    BY <1>6, TeardownEffect
  <2>2. /\ phase = "handler" /\ torn' = torn + 1
        /\ UNCHANGED <<phase, pid, unclean, made>>
    BY <1>6 DEF Teardown
  <2>3. Named(s)' <=> Named(s)
    BY <2>2 DEF Named
  <2> HIDE DEF o, o1
  <2> QED
    BY <1>0, <1>i, <1>t, <2>1, <2>2, <2>3
<1>7. CASE Gone
  BY <1>0, <1>7 DEF Gone, nameVars
<1>8. ASSUME NEW w \in Workers, PoolRuns(PoolStep(w)) \/ ThreadEnds(w)
      PROVE  Goal
  BY <1>0, <1>8 DEF PoolRuns, ThreadEnds, processVars, nameVars, Named
<1>9. ASSUME NEW q \in Segments, UseSemaphores(q)
      PROVE  Goal
  <2>1. /\ phase \in {"up", "handler"} /\ made = Steps /\ ~ Unmapped(q)
        /\ UNCHANGED <<phase, pid, made, torn, unclean>>
    BY <1>9 DEF UseSemaphores, Working, processVars
  <2>2. PICK e \in {0, 1}, f \in {0, 1} :
            object' = [object EXCEPT ![<<pid, q, "empty">>] = e, ![<<pid, q, "full">>] = f]
    BY <1>9 DEF UseSemaphores
  <2>3. object \in [Pids \X Segments \X Kinds -> {None, 0, 1}]
    BY DEF TypedPhases, LifeTypeOK
  <2>4. CASE p = pid /\ s = q
    <3>1. Named(s)' /\ ~ (Index(s, k) < torn)
      BY <1>i, <1>t, <2>1, <2>4 DEF Named, Unmapped
    <3> QED
      BY <2>1, <2>4, <3>1
  <2>5. CASE ~ (p = pid /\ s = q)
    <3>1. <<p, s, k>> # <<pid, q, "empty">> /\ <<p, s, k>> # <<pid, q, "full">>
      BY <2>5
    <3>2. o1 = o
      BY <2>2, <2>3, <3>1, KeyIn
    <3>3. Named(s)' <=> Named(s)
      BY <2>1 DEF Named
    <3> QED
      BY <1>0, <2>1, <3>2, <3>3
  <2> QED
    BY <2>4, <2>5
<1>10. CASE Rest \/ UNCHANGED lifeVars
  BY <1>0, <1>10 DEF Rest, lifeVars, processVars, nameVars, Named
<1> QED
  BY <1>1, <1>2, <1>3, <1>4, <1>5, <1>6, <1>7, <1>8, <1>9, <1>10 DEF LifeNext

\* Whenever the proxy is stopped, no object outlives it, unless a process of its id
\* was killed, faulted in the handler or failed in proxy_pool_init.
THEOREM LifeNamesExplained == LifeSpec => []NamesExplained
<1>1. NamesInv => NamesExplained
  BY DEF NamesInv, NamesExplained
<1> QED
  BY <1>1, InitNames, StepNames, InitTypedPhases, StepTypedPhases, PTL DEF LifeSpec

\* A pool whose id was left clean starts with one token in every segment.
THEOREM LifeFreshPool == LifeSpec => FreshPool
<1> DEFINE Starts == phase = "init" /\ phase' = "up" /\ pid \notin unclean
           Tokens == \A s \in Segments : object'[pid, s, "empty"] = 1
                                       /\ object'[pid, s, "full"] = 0
<1>1. TypedPhases /\ NamesInv /\ [LifeNext]_lifeVars => (Starts => Tokens)
  <2> SUFFICES ASSUME TypedPhases, NamesInv, [LifeNext]_lifeVars, Starts,
                      NEW s \in Segments
               PROVE  object'[<<pid, s, "empty">>] = 1 /\ object'[<<pid, s, "full">>] = 0
    OBVIOUS
  <2>1. Create
    BY DEF LifeNext, StartProxy, InitFails, Signal, Teardown, Exit, Fault, Kill, Dies,
           PoolRuns, Working, ThreadEnds, UseSemaphores, Gone, Rest,
           lifeVars, processVars
  <2>2. pid \in Pids /\ made \in Nat /\ Steps \in Nat /\ made + 1 = Steps
    BY <2>1, StepsPositive DEF Create, TypedPhases, LifeTypeOK
  <2>3. ASSUME NEW k \in Kinds
        PROVE  object'[<<pid, s, k>>] = Fresh(k)
    <3>1. Index(s, k) \in Nat /\ Index(s, k) < Steps
      BY IndexRange
    <3>2. object[<<pid, s, k>>] = IF Index(s, k) < made THEN Fresh(k) ELSE None
      BY <2>2 DEF NamesInv
    <3>3. Fresh(k) # None
      BY DEF Fresh, None
    <3> QED
      BY <2>1, <2>2, <3>1, <3>2, <3>3, CreateEffect
  <2> QED
    BY <2>3 DEF Kinds, Fresh
<1> QED
  BY <1>1, InitNames, StepNames, InitTypedPhases, StepTypedPhases, PTL
  DEF LifeSpec, FreshPool
=============================================================================
