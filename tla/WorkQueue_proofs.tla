-------------------------- MODULE WorkQueue_proofs --------------------------
(***************************************************************************)
(* Proofs about the cache's work queue, for any number of workers and      *)
(* connections, by itself and with the descriptors it carries.             *)
(***************************************************************************)
EXTENDS CacheDescriptors, FiniteSetTheorems, SequenceTheorems, TLAPS

\* The values of all variables stay within their types.
THEOREM QueueTyping == Spec => []TypeOK
<1>1. Init => TypeOK
  BY NoneAssumption DEF Init, TypeOK
<1>2. TypeOK /\ [Next]_vars => TypeOK'
  <2> SUFFICES ASSUME TypeOK, [Next]_vars
               PROVE  TypeOK'
    OBVIOUS
  <2> USE DEF TypeOK
  <2>1. ASSUME NEW j \in Jobs, Push(j)
        PROVE  TypeOK'
    <3>1. Append(queue, j) \in Seq(Jobs)
      OBVIOUS
    <3> QED
      BY <2>1, <3>1 DEF Push, Waiting
  <2>2. ASSUME NEW w \in Workers, Pop(w)
        PROVE  TypeOK'
    <3>1. Head(queue) \in Jobs /\ Tail(queue) \in Seq(Jobs)
      BY <2>2, HeadTailProperties DEF Pop
    <3> QED
      BY <2>2, <3>1 DEF Pop
  <2>3. ASSUME NEW w \in Workers, Wait(w) \/ SpuriousWake(w) \/ Finish(w)
        PROVE  TypeOK'
    BY <2>3 DEF Wait, SpuriousWake, Finish
  <2>4. CASE UNCHANGED vars
    BY <2>4 DEF vars
  <2> QED
    BY <2>1, <2>2, <2>3, <2>4 DEF Next
<1> QED
  BY <1>1, <1>2, PTL DEF Spec

-----------------------------------------------------------------------------
\* Moving the head of the queue to the end of what was popped leaves the whole.
LEMMA MoveHead ==
    ASSUME NEW S, NEW s \in Seq(S), NEW t \in Seq(S), t # <<>>
    PROVE  s \o t = Append(s, Head(t)) \o Tail(t)
  OBVIOUS

\* Every connection is served once, in the order of accept (simplecached.c:60-77).
THEOREM QueueFifoOnce == Spec => []FifoOnce
<1>1. Init => FifoOnce
  BY DEF Init, FifoOnce
<1>2. TypeOK /\ FifoOnce /\ [Next]_vars => FifoOnce'
  <2> SUFFICES ASSUME TypeOK, FifoOnce, [Next]_vars
               PROVE  FifoOnce'
    OBVIOUS
  <2> USE DEF FifoOnce
  <2>1. ASSUME NEW j \in Jobs, Push(j)
        PROVE  FifoOnce'
    <3>1. popped \in Seq(Jobs) /\ queue \in Seq(Jobs)
      BY DEF TypeOK
    <3>2. Append(popped \o queue, j) = popped \o Append(queue, j)
      BY <3>1
    <3> QED
      BY <2>1, <3>2 DEF Push
  <2>2. ASSUME NEW w \in Workers, Pop(w)
        PROVE  FifoOnce'
    BY <2>2, MoveHead DEF Pop, TypeOK
  <2>3. ASSUME NEW w \in Workers, Wait(w) \/ SpuriousWake(w) \/ Finish(w)
        PROVE  FifoOnce'
    BY <2>3 DEF Wait, SpuriousWake, Finish
  <2>4. CASE UNCHANGED vars
    BY <2>4 DEF vars
  <2> QED
    BY <2>1, <2>2, <2>3, <2>4 DEF Next
<1> QED
  BY <1>1, <1>2, QueueTyping, PTL DEF Spec

-----------------------------------------------------------------------------
\* The woken workers can be counted.
LEMMA WokenFinite == IsFiniteSet(Woken) /\ Cardinality(Woken) \in Nat
<1>1. IsFiniteSet(Woken)
  BY WorkQueueAssumption, FS_Subset DEF Woken
<1> QED
  BY <1>1, FS_CardinalityType

\* While a worker sleeps every queued connection has a woken worker of its own,
\* although a signal may go to a worker that is overtaken (simplecached.c:63).
THEOREM QueueNoLostWakeup == Spec => []NoLostWakeup
<1>1. Init => NoLostWakeup
  BY DEF Init, NoLostWakeup, Waiting
<1>2. TypeOK /\ NoLostWakeup /\ [Next]_vars => NoLostWakeup'
  <2> SUFFICES ASSUME TypeOK, NoLostWakeup, [Next]_vars, Waiting' # {}
               PROVE  Len(queue') <= Cardinality(Woken')
    BY DEF NoLostWakeup
  <2> USE DEF TypeOK
  <2> DEFINE W == Woken
  <2>0. IsFiniteSet(W) /\ Cardinality(W) \in Nat /\ Len(queue) \in Nat
    BY WokenFinite
  <2>1. ASSUME NEW j \in Jobs, Push(j)
        PROVE  Len(queue') <= Cardinality(Woken')
    \* One connection more and, somebody being asleep, one woken worker more.
    <3>1. PICK w \in Waiting : pc' = [pc EXCEPT ![w] = "woken"]
      BY <2>1 DEF Push, Waiting
    <3>2. Woken' = W \cup {w} /\ w \notin W
      BY <3>1 DEF Woken, Waiting
    <3>3. Cardinality(W \cup {w}) = Cardinality(W) + 1
      BY <3>2, <2>0, FS_AddElement
    <3>4. Len(queue') = Len(queue) + 1
      BY <2>1 DEF Push
    <3>5. Len(queue) <= Cardinality(W)
      BY <3>1 DEF NoLostWakeup
    <3> HIDE DEF W
    <3> QED
      BY <3>2, <3>3, <3>4, <3>5, <2>0
  <2>2. ASSUME NEW w \in Workers, Pop(w)
        PROVE  Len(queue') <= Cardinality(Woken')
    \* One connection less; one woken worker less at most.
    <3>1. Waiting' = Waiting /\ Woken' = W \ {w}
      BY <2>2 DEF Pop, Waiting, Woken
    <3>2. Len(queue') = Len(queue) - 1
      BY <2>2, HeadTailProperties DEF Pop
    <3> HIDE DEF W
    <3>3. Cardinality(W \ {w}) = IF w \in W THEN Cardinality(W) - 1 ELSE Cardinality(W)
      BY <2>0, FS_RemoveElement
    <3>5. Cardinality(W \ {w}) \in Nat
      BY <2>0, FS_RemoveElement, FS_CardinalityType
    <3>4. Len(queue) <= Cardinality(W)
      BY <3>1 DEF NoLostWakeup, W
    <3> QED
      BY <3>1, <3>2, <3>3, <3>4, <3>5, <2>0
  <2>3. ASSUME NEW w \in Workers, Wait(w)
        PROVE  Len(queue') <= Cardinality(Woken')
    \* Nothing is queued when somebody goes to sleep.
    <3>1. Len(queue') = 0
      BY <2>3 DEF Wait
    <3>2. Cardinality(Woken') \in Nat
      BY WorkQueueAssumption, FS_Subset, FS_CardinalityType DEF Woken
    <3> QED
      BY <3>1, <3>2
  <2>4. ASSUME NEW w \in Workers, SpuriousWake(w)
        PROVE  Len(queue') <= Cardinality(Woken')
    <3>1. Waiting # {} /\ queue' = queue
      BY <2>4 DEF SpuriousWake, Waiting
    <3>2. Woken' = W \cup {w} /\ w \notin W
      BY <2>4 DEF SpuriousWake, Woken
    <3>3. Cardinality(W \cup {w}) = Cardinality(W) + 1
      BY <3>2, <2>0, FS_AddElement
    <3>4. Len(queue) <= Cardinality(W)
      BY <3>1 DEF NoLostWakeup
    <3> HIDE DEF W
    <3> QED
      BY <3>1, <3>2, <3>3, <3>4, <2>0
  <2>5. ASSUME NEW w \in Workers, Finish(w)
        PROVE  Len(queue') <= Cardinality(Woken')
    <3>1. Waiting' = Waiting /\ Woken' = Woken /\ queue' = queue
      BY <2>5 DEF Finish, Waiting, Woken
    <3> QED
      BY <3>1 DEF NoLostWakeup
  <2>6. CASE UNCHANGED vars
    <3>1. Waiting' = Waiting /\ Woken' = Woken /\ queue' = queue
      BY <2>6 DEF vars, Waiting, Woken
    <3> QED
      BY <3>1 DEF NoLostWakeup
  <2> QED
    BY <2>1, <2>2, <2>3, <2>4, <2>5, <2>6 DEF Next
<1> QED
  BY <1>1, <1>2, QueueTyping, PTL DEF Spec

-----------------------------------------------------------------------------
\* The cache with its descriptors uses the queue as WorkQueue says: every step is
\* a step of the queue or leaves it alone, whatever becomes of the descriptors.
THEOREM DescriptorsUseQueue == DescSpec => Spec
<1>1. DescInit => Init
  BY DEF DescInit
<1>2. [DescNext]_descVars => [Next]_vars
  <2> SUFFICES ASSUME DescNext \/ UNCHANGED descVars
               PROVE  [Next]_vars
    BY DEF descVars
  <2>1. ASSUME NEW j \in Jobs, AcceptJob(j)
        PROVE  Next
    BY <2>1 DEF AcceptJob, Next
  <2>2. ASSUME NEW w \in Workers, PopJob(w) \/ QueueRests(w)
        PROVE  Next
    BY <2>2 DEF PopJob, QueueRests, Next
  <2>3. ASSUME NEW w \in Workers, HandlerStep(w)
        PROVE  [Next]_vars
    BY <2>3 DEF HandlerStep, RunningStep, WaitingStep, OpenShm, Get, Dup, LeaveTransfer,
         CloseReq, CloseShm, CloseClient, Next
  <2>4. CASE Quiet \/ UNCHANGED descVars
    BY <2>4 DEF Quiet, descVars
  <2> QED
    BY <2>1, <2>2, <2>3, <2>4 DEF DescNext
<1> QED
  BY <1>1, <1>2, PTL DEF DescSpec, Spec
-----------------------------------------------------------------------------
(* The descriptors.                                                        *)

\* Where the worker is in handle_cache_request tells which of its variables may
\* hold a descriptor that it has to close.
StepVariables ==
    \A w \in Workers :
        /\ pc[w] = "serving" <=> step[w] # "none"
        /\ pc[w] = "serving" => job[w] \in Jobs
        /\ step[w] \in {"none", "open", "closeClient"} => shmfd[w] = NoFd
        /\ step[w] \in {"none", "dup", "closeShm", "closeClient"} => reqfd[w] = NoFd
        /\ step[w] \in {"open", "get"} => reqfd[w] = Indeterminate

\* Only a connection that was accepted has a descriptor.
NumbersAccepted == \A j \in Jobs : number[j] # NoFd => j \in Accepted

\* Every variable that holds a number holds one that refers to what it was opened
\* for.
OwnersRight ==
    /\ desc[FileFd] = Resource("file", None)
    /\ desc[ListenFd] = Resource("listener", None)
    /\ \A j \in Jobs : number[j] \in Fds => desc[number[j]] = Resource("client", j)
    /\ \A w \in Workers :
          /\ shmfd[w] \in Fds => desc[shmfd[w]] = Resource("shm", job[w])
          /\ reqfd[w] \in Fds => desc[reqfd[w]] = Resource("copy", job[w])

\* No two variables hold the same number.
OwnersAlone ==
    \A v, w \in Workers : v # w =>
        /\ shmfd[v] \in Fds => shmfd[v] # shmfd[w]
        /\ reqfd[v] \in Fds => reqfd[v] # reqfd[w]

HasOwner(x) ==
    \/ x \in {FileFd, ListenFd}
    \/ \E j \in Jobs : number[j] = x
    \/ \E w \in Workers : shmfd[w] = x \/ reqfd[w] = x

\* Nothing leaks.
AllOwned == \A x \in Fds : desc[x] # Closed => HasOwner(x)

Owners == ~ strayed => OwnersRight /\ OwnersAlone /\ AllOwned

DescIInv == DescTypeOK /\ StepVariables /\ NumbersAccepted /\ Owners
\* Resources are told apart by their kind and by whose they are.
LEMMA ResourceInjective ==
  /\ \A k1, o1, k2, o2 : Resource(k1, o1) = Resource(k2, o2) => k1 = k2 /\ o1 = o2
  /\ \A k, o : k # "nothing" => Resource(k, o) # Closed
  /\ \A k \in Kinds, o \in Jobs \cup {None} :
        Resource(k, o) \in [what : Kinds, of : Jobs \cup {None}]
  /\ Closed \in [what : Kinds, of : Jobs \cup {None}]
<1>1. \A k1, o1, k2, o2 : Resource(k1, o1) = Resource(k2, o2) => k1 = k2 /\ o1 = o2
  <2> SUFFICES ASSUME NEW k1, NEW o1, NEW k2, NEW o2, Resource(k1, o1) = Resource(k2, o2)
               PROVE  k1 = k2 /\ o1 = o2
    OBVIOUS
  <2>1. Resource(k1, o1).what = k1 /\ Resource(k1, o1).of = o1
    BY DEF Resource
  <2>2. Resource(k2, o2).what = k2 /\ Resource(k2, o2).of = o2
    BY DEF Resource
  <2> QED
    BY <2>1, <2>2
<1> QED
  BY <1>1 DEF Closed, Resource, Kinds

\* The first two numbers are descriptors, and -1 is none.
LEMMA FdFacts ==
  /\ FileFd \in Fds /\ ListenFd \in Fds /\ FileFd # ListenFd
  /\ NoFd \notin Fds /\ Indeterminate \notin Fds
BY CacheDescriptorsAssumption DEF Fds, FileFd, ListenFd, NoFd, Indeterminate

LEMMA DescInitInv == DescInit => DescIInv
<1> SUFFICES ASSUME DescInit
             PROVE  DescIInv
  OBVIOUS
<1>1. desc = [x \in Fds |-> IF x = FileFd THEN Resource("file", None)
                            ELSE IF x = ListenFd THEN Resource("listener", None)
                            ELSE Closed]
  BY FdFacts DEF DescInit
<1>2. TypeOK
  BY NoneAssumption DEF DescInit, Init, TypeOK
<1>3. desc \in [Fds -> [what : Kinds, of : Jobs \cup {None}]]
  BY <1>1, ResourceInjective DEF Kinds
<1>4. DescTypeOK /\ StepVariables
  BY <1>2, <1>3 DEF DescInit, Init, DescTypeOK, StepVariables
<1>5. NumbersAccepted
  BY DEF DescInit, NumbersAccepted
<1>6. OwnersRight /\ OwnersAlone /\ AllOwned
  BY <1>1, FdFacts DEF DescInit, OwnersRight, OwnersAlone, AllOwned, HasOwner
<1> QED
  BY <1>4, <1>5, <1>6 DEF DescIInv, Owners

\* Types, and what the worker's place says, are kept by every step.
LEMMA DescTypeStep ==
  ASSUME DescTypeOK, StepVariables, TypeOK', [DescNext]_descVars
  PROVE  DescTypeOK' /\ StepVariables'
<1>0. /\ desc \in [Fds -> [what : Kinds, of : Jobs \cup {None}]]
      /\ number \in [Jobs -> Fds \cup {NoFd}]
      /\ shmfd \in [Workers -> Fds \cup {NoFd}]
      /\ reqfd \in [Workers -> Fds \cup {NoFd, Indeterminate}]
      /\ step \in [Workers -> {"none", "open", "get", "dup", "transfer", "refuse",
                               "closeReq", "closeShm", "closeClient"}]
      /\ strayed \in BOOLEAN
      /\ pc \in [Workers -> {"pop", "waiting", "woken", "serving"}]
      /\ job \in [Workers -> Jobs \cup {None}]
      /\ pc' \in [Workers -> {"pop", "waiting", "woken", "serving"}]
      /\ job' \in [Workers -> Jobs \cup {None}]
  BY DEF DescTypeOK, TypeOK
<1>a. /\ \A k \in Kinds, o \in Jobs \cup {None} :
            Resource(k, o) \in [what : Kinds, of : Jobs \cup {None}]
      /\ Closed \in [what : Kinds, of : Jobs \cup {None}]
  BY ResourceInjective
<1>1. ASSUME NEW j \in Jobs, AcceptJob(j)
      PROVE  DescTypeOK' /\ StepVariables'
  <2>1. PICK x \in Fds : /\ desc' = [desc EXCEPT ![x] = Resource("client", j)]
                         /\ number' = [number EXCEPT ![j] = x]
    BY <1>1 DEF AcceptJob
  <2>2. desc' \in [Fds -> [what : Kinds, of : Jobs \cup {None}]]
    BY <1>0, <1>a, <2>1 DEF Kinds
  <2>3. \A w \in Workers : pc'[w] = "serving" <=> pc[w] = "serving"
    BY <1>0, <1>1 DEF AcceptJob, Push, Waiting
  <2>4. UNCHANGED <<job, step, shmfd, reqfd, strayed>>
    BY <1>1 DEF AcceptJob, Push, handlerVars
  <2> QED
    BY <1>0, <2>1, <2>2, <2>3, <2>4 DEF DescTypeOK, StepVariables
<1>2. ASSUME NEW w \in Workers, PopJob(w)
      PROVE  DescTypeOK' /\ StepVariables'
  <2>1. step[w] = "none"
    BY <1>0, <1>2 DEF PopJob, Pop, StepVariables
  <2>2. Head(queue) \in Jobs
    BY <1>2, HeadTailProperties DEF PopJob, Pop, DescTypeOK, TypeOK
  <2> QED
    BY <1>0, <1>2, <2>1, <2>2 DEF PopJob, Pop, Goto, DescTypeOK, StepVariables
<1>3. ASSUME NEW w \in Workers, QueueRests(w)
      PROVE  DescTypeOK' /\ StepVariables'
  <2>1. UNCHANGED <<job, desc, number, step, shmfd, reqfd, strayed>>
    BY <1>3 DEF QueueRests, Wait, SpuriousWake, handlerVars
  <2>2. \A v \in Workers : pc'[v] = "serving" <=> pc[v] = "serving"
    BY <1>0, <1>3 DEF QueueRests, Wait, SpuriousWake
  <2> QED
    BY <1>0, <2>1, <2>2 DEF DescTypeOK, StepVariables
<1>4. ASSUME NEW w \in Workers, OpenShm(w)
      PROVE  DescTypeOK' /\ StepVariables'
  <2>1. job[w] \in Jobs /\ step[w] = "open"
    BY <1>4 DEF OpenShm, StepVariables
  <2>2. desc' \in [Fds -> [what : Kinds, of : Jobs \cup {None}]]
    BY <1>0, <1>a, <1>4, <2>1 DEF OpenShm, Kinds
  <2>3. /\ shmfd' \in [Workers -> Fds \cup {NoFd}]
        /\ \A v \in Workers \ {w} : shmfd'[v] = shmfd[v]
        /\ UNCHANGED <<vars, number, reqfd, strayed>>
    BY <1>0, <1>4 DEF OpenShm
  <2>4. PICK place \in {"get", "closeReq"} : step' = [step EXCEPT ![w] = place]
    BY <1>0, <1>4 DEF OpenShm, Goto
  <2> QED
    BY <1>0, <2>1, <2>2, <2>3, <2>4 DEF vars, DescTypeOK, StepVariables
<1>5. ASSUME NEW w \in Workers, Get(w)
      PROVE  DescTypeOK' /\ StepVariables'
  BY <1>0, <1>5 DEF Get, Goto, vars, DescTypeOK, StepVariables
<1>6. ASSUME NEW w \in Workers, Dup(w)
      PROVE  DescTypeOK' /\ StepVariables'
  <2>1. job[w] \in Jobs /\ step[w] = "dup"
    BY <1>6 DEF Dup, StepVariables
  <2>2. desc' \in [Fds -> [what : Kinds, of : Jobs \cup {None}]]
    BY <1>0, <1>a, <1>6, <2>1, FdFacts DEF Dup, Kinds
  <2> QED
    BY <1>0, <1>6, <2>1, <2>2 DEF Dup, Goto, vars, DescTypeOK, StepVariables
<1>7. ASSUME NEW w \in Workers, CloseReq(w) \/ CloseShm(w)
      PROVE  DescTypeOK' /\ StepVariables'
  <2>1. desc' \in [Fds -> [what : Kinds, of : Jobs \cup {None}]]
    <3>1. PICK x \in Fds \cup {NoFd, Indeterminate} : Close(x)
      BY <1>0, <1>7 DEF CloseReq, CloseShm
    <3> QED
      BY <1>0, <1>a, <3>1 DEF Close
  <2>2. strayed' \in BOOLEAN
    BY <1>0, <1>7 DEF CloseReq, CloseShm
  <2>3. CASE CloseReq(w)
    <3>1. /\ step[w] = "closeReq" /\ step' = [step EXCEPT ![w] = "closeShm"]
          /\ reqfd' = [reqfd EXCEPT ![w] = NoFd]
          /\ UNCHANGED <<vars, number, shmfd>>
      BY <2>3 DEF CloseReq, Goto
    <3> QED
      BY <1>0, <2>1, <2>2, <3>1 DEF vars, DescTypeOK, StepVariables
  <2>4. CASE CloseShm(w)
    <3>1. /\ step[w] = "closeShm" /\ step' = [step EXCEPT ![w] = "closeClient"]
          /\ shmfd' = [shmfd EXCEPT ![w] = NoFd]
          /\ UNCHANGED <<vars, number, reqfd, strayed>>
      BY <2>4 DEF CloseShm, Goto
    <3> QED
      BY <1>0, <2>1, <2>2, <3>1 DEF vars, DescTypeOK, StepVariables
  <2> QED
    BY <1>7, <2>3, <2>4
<1>8. ASSUME NEW w \in Workers, CloseClient(w)
      PROVE  DescTypeOK' /\ StepVariables'
  <2>1. desc' \in [Fds -> [what : Kinds, of : Jobs \cup {None}]]
    BY <1>0, <1>a, <1>8 DEF CloseClient, Close
  <2> QED
    BY <1>0, <1>8, <2>1 DEF CloseClient, Finish, Goto, DescTypeOK, StepVariables
<1>9. CASE Quiet \/ UNCHANGED descVars
  BY <1>0, <1>9 DEF Quiet, descVars, vars, handlerVars, DescTypeOK, StepVariables
<1>10. ASSUME NEW w \in Workers, LeaveTransfer(w)
       PROVE  DescTypeOK' /\ StepVariables'
  BY <1>0, <1>10 DEF LeaveTransfer, Goto, vars, DescTypeOK, StepVariables
<1> QED
  BY <1>1, <1>2, <1>3, <1>4, <1>5, <1>6, <1>7, <1>8, <1>9, <1>10
     DEF DescNext, HandlerStep, RunningStep, WaitingStep

\* Descriptors go to connections when they are accepted.
LEMMA NumbersAcceptedStep ==
  ASSUME DescTypeOK, NumbersAccepted, [DescNext]_descVars
  PROVE  NumbersAccepted'
<1>0. accepted \in Seq(Jobs) /\ number \in [Jobs -> Fds \cup {NoFd}]
  BY DEF DescTypeOK, TypeOK
<1>1. ASSUME NEW j \in Jobs, AcceptJob(j)
      PROVE  NumbersAccepted'
  <2>1. accepted' = Append(accepted, j)
    BY <1>1 DEF AcceptJob, Push
  <2>2. Len(accepted') = Len(accepted) + 1 /\ Len(accepted) \in Nat
    BY <1>0, <2>1
  <2>3. accepted'[Len(accepted) + 1] = j
    BY <1>0, <2>1
  <2>4. \A i \in 1..Len(accepted) : accepted'[i] = accepted[i]
    BY <1>0, <2>1
  <2>5. Len(accepted) + 1 \in 1..Len(accepted')
        /\ 1..Len(accepted) \subseteq 1..Len(accepted')
    BY <2>2
  <2>6. j \in Accepted' /\ Accepted \subseteq Accepted'
    BY <2>3, <2>4, <2>5 DEF Accepted
  <2>7. \A i \in Jobs : i # j => number'[i] = number[i]
    BY <1>0, <1>1 DEF AcceptJob
  <2> QED
    BY <2>6, <2>7 DEF NumbersAccepted
<1>2. CASE UNCHANGED accepted /\ \A j \in Jobs : number'[j] # NoFd => number[j] # NoFd
  BY <1>2 DEF NumbersAccepted, Accepted
<1>3. ASSUME NEW w \in Workers, PopJob(w) \/ QueueRests(w) \/ HandlerStep(w)
      PROVE  UNCHANGED accepted /\ \A j \in Jobs : number'[j] # NoFd => number[j] # NoFd
  BY <1>0, <1>3 DEF PopJob, Pop, QueueRests, Wait, SpuriousWake, HandlerStep,
       RunningStep, WaitingStep, OpenShm, Get, Dup, LeaveTransfer, CloseReq, CloseShm, CloseClient, Finish, vars
<1>4. Quiet \/ UNCHANGED descVars =>
        UNCHANGED accepted /\ \A j \in Jobs : number'[j] # NoFd => number[j] # NoFd
  BY DEF Quiet, descVars, vars
<1> QED
  BY <1>1, <1>2, <1>3, <1>4 DEF DescNext
\* A number that is free is no variable's.
LEMMA FreeUnowned ==
  ASSUME DescTypeOK, OwnersRight, NEW x \in Fds, desc[x] = Closed
  PROVE  /\ x \notin {FileFd, ListenFd}
         /\ \A j \in Jobs : number[j] # x
         /\ \A w \in Workers : shmfd[w] # x /\ reqfd[w] # x
BY ResourceInjective DEF OwnersRight

\* Opening: the number was free, so that nothing else is disturbed.
LEMMA OwnersOpen ==
  ASSUME DescTypeOK, StepVariables, NumbersAccepted,
         OwnersRight, OwnersAlone, AllOwned, DescTypeOK',
         UNCHANGED job,
         \/ \E j \in Jobs : AcceptJob(j)
         \/ \E w \in Workers : step[w] = "open" /\ OpenShm(w) /\ desc' # desc
         \/ \E w \in Workers : step[w] = "dup" /\ Dup(w) /\ desc' # desc
  PROVE  OwnersRight' /\ OwnersAlone' /\ AllOwned'
<1>0. /\ desc \in [Fds -> [what : Kinds, of : Jobs \cup {None}]]
      /\ number \in [Jobs -> Fds \cup {NoFd}]
      /\ shmfd \in [Workers -> Fds \cup {NoFd}]
      /\ reqfd \in [Workers -> Fds \cup {NoFd, Indeterminate}]
  BY DEF DescTypeOK
<1>1. ASSUME NEW j \in Jobs, AcceptJob(j)
      PROVE  OwnersRight' /\ OwnersAlone' /\ AllOwned'
  <2>1. PICK x \in Fds : /\ desc[x] = Closed
                         /\ desc' = [desc EXCEPT ![x] = Resource("client", j)]
                         /\ number' = [number EXCEPT ![j] = x]
    BY <1>1 DEF AcceptJob, Lowest
  <2>2. UNCHANGED <<shmfd, reqfd>> /\ number[j] = NoFd
    BY <1>1 DEF AcceptJob, handlerVars, NumbersAccepted
  <2>3. /\ x \notin {FileFd, ListenFd}
        /\ \A i \in Jobs : number[i] # x
        /\ \A w \in Workers : shmfd[w] # x /\ reqfd[w] # x
    BY <2>1, FreeUnowned
  <2>4. OwnersRight'
    BY <1>0, <2>1, <2>2, <2>3, FdFacts DEF OwnersRight
  <2>5. OwnersAlone'
    BY <2>2 DEF OwnersAlone
  <2>6. AllOwned'
    BY <1>0, <2>1, <2>2, FdFacts DEF AllOwned, HasOwner
  <2> QED
    BY <2>4, <2>5, <2>6
<1>2. ASSUME NEW w \in Workers, step[w] = "open", OpenShm(w), desc' # desc
      PROVE  OwnersRight' /\ OwnersAlone' /\ AllOwned'
  <2>1. PICK x \in Fds : /\ desc[x] = Closed
                         /\ desc' = [desc EXCEPT ![x] = Resource("shm", job[w])]
                         /\ shmfd' = [shmfd EXCEPT ![w] = x]
    BY <1>2 DEF OpenShm, Lowest
  <2>2. UNCHANGED <<number, reqfd>> /\ shmfd[w] = NoFd
    BY <1>2 DEF OpenShm, StepVariables
  <2>3. /\ x \notin {FileFd, ListenFd}
        /\ \A i \in Jobs : number[i] # x
        /\ \A v \in Workers : shmfd[v] # x /\ reqfd[v] # x
    BY <2>1, FreeUnowned
  <2>4. OwnersRight'
    BY <1>0, <2>1, <2>2, <2>3, FdFacts DEF OwnersRight
  <2>5. OwnersAlone'
    BY <1>0, <2>1, <2>2, <2>3 DEF OwnersAlone
  <2>6. AllOwned'
    BY <1>0, <2>1, <2>2, FdFacts DEF AllOwned, HasOwner
  <2> QED
    BY <2>4, <2>5, <2>6
<1>3. ASSUME NEW w \in Workers, step[w] = "dup", Dup(w), desc' # desc
      PROVE  OwnersRight' /\ OwnersAlone' /\ AllOwned'
  <2>0. desc[FileFd].what = "file"
    BY DEF OwnersRight, Resource
  <2>1. PICK x \in Fds : /\ desc[x] = Closed
                         /\ desc' = [desc EXCEPT ![x] = Resource("copy", job[w])]
                         /\ reqfd' = [reqfd EXCEPT ![w] = x]
    BY <1>3, <2>0 DEF Dup, Lowest
  <2>2. UNCHANGED <<number, shmfd>> /\ reqfd[w] = NoFd
    BY <1>3 DEF Dup, StepVariables
  <2>3. /\ x \notin {FileFd, ListenFd}
        /\ \A i \in Jobs : number[i] # x
        /\ \A v \in Workers : shmfd[v] # x /\ reqfd[v] # x
    BY <2>1, FreeUnowned
  <2>4. OwnersRight'
    BY <1>0, <2>1, <2>2, <2>3, FdFacts DEF OwnersRight
  <2>5. OwnersAlone'
    BY <1>0, <2>1, <2>2, <2>3 DEF OwnersAlone
  <2>6. AllOwned'
    BY <1>0, <2>1, <2>2, FdFacts DEF AllOwned, HasOwner
  <2> QED
    BY <2>4, <2>5, <2>6
<1> QED
  BY <1>1, <1>2, <1>3

\* The steps that open and close nothing.
LEMMA OwnersRest ==
  ASSUME DescTypeOK, StepVariables, OwnersRight, OwnersAlone, AllOwned,
         UNCHANGED <<desc, number, shmfd>>,
         \A w \in Workers : job'[w] # job[w] => reqfd[w] \notin Fds /\ shmfd[w] \notin Fds,
         \A w \in Workers : reqfd'[w] # reqfd[w] =>
            reqfd[w] \notin Fds /\ reqfd'[w] \notin Fds
  PROVE  OwnersRight' /\ OwnersAlone' /\ AllOwned'
<1>1. OwnersRight'
  BY DEF OwnersRight
<1>2. OwnersAlone'
  BY DEF OwnersAlone
<1>3. AllOwned'
  BY DEF AllOwned, HasOwner
<1> QED
  BY <1>1, <1>2, <1>3

\* Closing: the number was the closer's own, so that nobody else's descriptor goes,
\* and the closer forgets it.
LEMMA OwnersClose ==
  ASSUME DescTypeOK, StepVariables, OwnersRight, OwnersAlone, AllOwned, DescTypeOK',
         NEW w \in Workers,
         \/ CloseReq(w) /\ ~ strayed'
         \/ CloseShm(w)
         \/ CloseClient(w)
  PROVE  OwnersRight' /\ OwnersAlone' /\ AllOwned'
<1>0. /\ desc \in [Fds -> [what : Kinds, of : Jobs \cup {None}]]
      /\ number \in [Jobs -> Fds \cup {NoFd}]
      /\ shmfd \in [Workers -> Fds \cup {NoFd}]
      /\ reqfd \in [Workers -> Fds \cup {NoFd, Indeterminate}]
      /\ step \in [Workers -> {"none", "open", "get", "dup", "transfer", "refuse",
                               "closeReq", "closeShm", "closeClient"}]
      /\ pc \in [Workers -> {"pop", "waiting", "woken", "serving"}]
      /\ job \in [Workers -> Jobs \cup {None}]
  BY DEF DescTypeOK, TypeOK
<1>a. \A x \in Fds : HasOwner(x) \/ desc[x] = Closed
  BY DEF AllOwned
<1>1. CASE CloseReq(w) /\ ~ strayed' /\ reqfd[w] = Indeterminate
  <2>1. UNCHANGED <<desc, number, shmfd, job>> /\ reqfd' = [reqfd EXCEPT ![w] = NoFd]
    BY <1>1 DEF CloseReq, vars
  <2> QED
    <3>1. \A v \in Workers : v # w => reqfd'[v] = reqfd[v]
      BY <1>0, <2>1
    <3>2. reqfd'[w] = NoFd
      BY <1>0, <2>1
    <3> QED
      BY <1>1, <2>1, <3>1, <3>2, FdFacts, OwnersRest
<1>2. CASE CloseReq(w) /\ reqfd[w] # Indeterminate
  <2>1. /\ UNCHANGED <<number, shmfd, job>>
        /\ reqfd' = [reqfd EXCEPT ![w] = NoFd]
        /\ Close(reqfd[w])
    BY <1>2 DEF CloseReq, vars
  <2>2. CASE reqfd[w] \in Fds
    <3>1. desc[reqfd[w]] = Resource("copy", job[w])
      BY <2>2 DEF OwnersRight
    <3>2. desc' = [desc EXCEPT ![reqfd[w]] = Closed]
      BY <2>1, <2>2 DEF Close
    <3>3. OwnersRight'
      BY <1>0, <2>1, <2>2, <3>1, <3>2, ResourceInjective, FdFacts DEF OwnersRight, OwnersAlone
    <3>4. OwnersAlone' /\ AllOwned'
      BY <1>0, <2>1, <2>2, <3>2, FdFacts DEF OwnersAlone, AllOwned, HasOwner
    <3> QED
      BY <3>3, <3>4
  <2>3. CASE reqfd[w] = NoFd
    <3>1. UNCHANGED <<desc, reqfd>>
      BY <1>0, <2>1, <2>3, FdFacts DEF Close
    <3> QED
      BY <2>1, <3>1 DEF OwnersRight, OwnersAlone, AllOwned, HasOwner
  <2> QED
    BY <1>0, <1>2, <2>2, <2>3
<1>3. CASE CloseShm(w)
  <2>1. /\ UNCHANGED <<number, reqfd, job>>
        /\ shmfd' = [shmfd EXCEPT ![w] = NoFd]
        /\ Close(shmfd[w])
    BY <1>3 DEF CloseShm, vars
  <2>2. CASE shmfd[w] \in Fds
    <3>1. desc[shmfd[w]] = Resource("shm", job[w])
      BY <2>2 DEF OwnersRight
    <3>2. desc' = [desc EXCEPT ![shmfd[w]] = Closed]
      BY <2>1, <2>2 DEF Close
    <3>3. OwnersRight'
      BY <1>0, <2>1, <2>2, <3>1, <3>2, ResourceInjective, FdFacts DEF OwnersRight, OwnersAlone
    <3>4. OwnersAlone' /\ AllOwned'
      BY <1>0, <2>1, <2>2, <3>2, FdFacts DEF OwnersAlone, AllOwned, HasOwner
    <3> QED
      BY <3>3, <3>4
  <2>3. CASE shmfd[w] = NoFd
    <3>1. UNCHANGED <<desc, shmfd>>
      BY <1>0, <2>1, <2>3, FdFacts DEF Close
    <3> QED
      BY <2>1, <3>1 DEF OwnersRight, OwnersAlone, AllOwned, HasOwner
  <2> QED
    BY <1>0, <2>2, <2>3
<1>4. CASE CloseClient(w)
  <2>0. job[w] \in Jobs /\ shmfd[w] = NoFd /\ reqfd[w] = NoFd
    BY <1>4 DEF CloseClient, StepVariables
  <2>1. /\ UNCHANGED <<shmfd, reqfd>>
        /\ number' = [number EXCEPT ![job[w]] = NoFd]
        /\ job' = [job EXCEPT ![w] = None]
        /\ Close(number[job[w]])
    BY <1>4 DEF CloseClient, Finish
  <2>2. CASE number[job[w]] \in Fds
    <3>1. desc[number[job[w]]] = Resource("client", job[w])
      BY <2>0, <2>2 DEF OwnersRight
    <3>2. desc' = [desc EXCEPT ![number[job[w]]] = Closed]
      BY <2>1, <2>2 DEF Close
    <3>3. OwnersRight'
      BY <1>0, <2>0, <2>1, <2>2, <3>1, <3>2, ResourceInjective, FdFacts DEF OwnersRight
    <3>4. OwnersAlone' /\ AllOwned'
      BY <1>0, <2>0, <2>1, <2>2, <3>2, FdFacts DEF OwnersAlone, AllOwned, HasOwner
    <3> QED
      BY <3>3, <3>4
  <2>3. CASE number[job[w]] = NoFd
    <3>1. UNCHANGED <<desc, number>>
      BY <1>0, <2>0, <2>1, <2>3, FdFacts DEF Close
    <3> QED
      BY <1>0, <2>0, <2>1, <3>1, FdFacts DEF OwnersRight, OwnersAlone, AllOwned, HasOwner
  <2> QED
    BY <1>0, <2>0, <2>2, <2>3
<1> QED
  BY <1>1, <1>2, <1>3, <1>4

\* A call that opens nothing gives nobody a number.
LEMMA UnopenedRests ==
  ASSUME DescTypeOK, NEW w \in Workers, OpenShm(w) \/ Dup(w), desc' = desc
  PROVE  UNCHANGED <<number, shmfd, reqfd>>
<1>0. desc \in [Fds -> [what : Kinds, of : Jobs \cup {None}]]
  BY DEF DescTypeOK
<1>1. ASSUME NEW x \in Fds, Lowest(x), NEW k, NEW o, k # "nothing",
             desc' = [desc EXCEPT ![x] = Resource(k, o)]
      PROVE  FALSE
  BY <1>0, <1>1, ResourceInjective DEF Lowest
<1>2. CASE OpenShm(w)
  <2>1. ~ \E x \in Fds : Lowest(x) /\ desc' = [desc EXCEPT ![x] = Resource("shm", job[w])]
    BY <1>1
  <2> QED
    BY <1>2, <2>1 DEF OpenShm
<1>3. CASE Dup(w)
  <2>1. ASSUME NEW x \in Fds, Lowest(x), desc[FileFd] # Closed,
               desc' = [desc EXCEPT ![x] =
                           IF desc[FileFd].what = "file"
                           THEN Resource("copy", job[w]) ELSE desc[FileFd]]
        PROVE  FALSE
    <3>1. desc[x] = Closed /\ desc'[x] # Closed
      BY <1>0, <2>1, ResourceInjective DEF Lowest
    <3> QED
      BY <3>1
  <2> QED
    BY <1>3, <2>1 DEF Dup
<1> QED
  BY <1>2, <1>3

LEMMA OwnersStep ==
  ASSUME DescIInv, DescTypeOK', [DescNext]_descVars
  PROVE  Owners'
<1> SUFFICES ASSUME ~ strayed'
             PROVE  OwnersRight' /\ OwnersAlone' /\ AllOwned'
  BY DEF Owners
<1> USE DEF DescIInv
<1>0. /\ shmfd \in [Workers -> Fds \cup {NoFd}]
      /\ reqfd \in [Workers -> Fds \cup {NoFd, Indeterminate}]
      /\ job \in [Workers -> Jobs \cup {None}]
  BY DEF DescTypeOK, TypeOK
<1>1. ~ strayed
  BY DEF DescNext, AcceptJob, PopJob, QueueRests, HandlerStep, RunningStep, WaitingStep,
         OpenShm, Get, Dup, LeaveTransfer, CloseReq, CloseShm, CloseClient, Quiet, descVars
<1>2. OwnersRight /\ OwnersAlone /\ AllOwned
  BY <1>1 DEF Owners
<1>3. ASSUME NEW j \in Jobs, AcceptJob(j)
      PROVE  OwnersRight' /\ OwnersAlone' /\ AllOwned'
  <2>1. UNCHANGED job
    BY <1>3 DEF AcceptJob, Push
  <2> QED
    BY <1>2, <1>3, <2>1, OwnersOpen
<1>4. ASSUME NEW w \in Workers, PopJob(w)
      PROVE  OwnersRight' /\ OwnersAlone' /\ AllOwned'
  <2>1. step[w] = "none"
    BY <1>4 DEF PopJob, Pop, StepVariables
  <2>2. shmfd[w] = NoFd /\ reqfd[w] = NoFd
    BY <2>1 DEF StepVariables
  <2>3. UNCHANGED <<desc, number, shmfd>>
    BY <1>0, <1>4, <2>2 DEF PopJob
  <2>4. /\ \A v \in Workers : v # w => job'[v] = job[v] /\ reqfd'[v] = reqfd[v]
        /\ reqfd'[w] = Indeterminate
    BY <1>0, <1>4 DEF PopJob, Pop
  <2> QED
    BY <1>2, <2>2, <2>3, <2>4, FdFacts, OwnersRest
<1>5. ASSUME NEW w \in Workers, Get(w)
      PROVE  OwnersRight' /\ OwnersAlone' /\ AllOwned'
  <2>1. reqfd[w] = Indeterminate
    BY <1>5 DEF Get, StepVariables
  <2>2. UNCHANGED <<desc, number, shmfd, job>>
    BY <1>5 DEF Get, vars
  <2>3. /\ \A v \in Workers : v # w => reqfd'[v] = reqfd[v]
        /\ reqfd'[w] \in {NoFd, Indeterminate}
    BY <1>0, <1>5, <2>1 DEF Get
  <2> QED
    BY <1>2, <2>1, <2>2, <2>3, FdFacts, OwnersRest
<1>6. ASSUME NEW w \in Workers, OpenShm(w) \/ Dup(w)
      PROVE  OwnersRight' /\ OwnersAlone' /\ AllOwned'
  <2>1. UNCHANGED job
    BY <1>6 DEF OpenShm, Dup, vars
  <2>2. CASE desc' # desc
    BY <1>2, <1>6, <2>1, <2>2, OwnersOpen DEF OpenShm, Dup
  <2>3. CASE desc' = desc
    <3>1. UNCHANGED <<number, shmfd, reqfd>>
      BY <1>6, <2>3, UnopenedRests
    <3> QED
      BY <1>2, <2>1, <2>3, <3>1, OwnersRest
  <2> QED
    BY <2>2, <2>3
<1>7. ASSUME NEW w \in Workers, CloseReq(w) \/ CloseShm(w) \/ CloseClient(w)
      PROVE  OwnersRight' /\ OwnersAlone' /\ AllOwned'
  BY <1>2, <1>7, OwnersClose
<1>8. CASE \/ \E w \in Workers : QueueRests(w) \/ LeaveTransfer(w)
           \/ Quiet
           \/ UNCHANGED descVars
  <2>1. UNCHANGED <<desc, number, shmfd, reqfd, job>>
    BY <1>8 DEF QueueRests, LeaveTransfer, Wait, SpuriousWake, Quiet, descVars, handlerVars, vars
  <2> QED
    BY <1>2, <2>1, OwnersRest
<1> QED
  BY <1>3, <1>4, <1>5, <1>6, <1>7, <1>8 DEF DescNext, HandlerStep, RunningStep, WaitingStep

\* The invariant says what the property does.
LEMMA OwnersSuffice == DescIInv => DescriptorsOwned
<1> SUFFICES ASSUME DescIInv, ~ strayed
             PROVE  {<<x, desc[x]>> : x \in {y \in Fds : desc[y] # Closed}} = Owned
  BY DEF DescriptorsOwned
<1> USE DEF DescIInv
<1>1. OwnersRight /\ AllOwned
  BY DEF Owners
<1>2. \A p \in Owned : \E x \in Fds : p = <<x, desc[x]>> /\ desc[x] # Closed
  BY <1>1, FdFacts, ResourceInjective DEF Owned, OwnersRight
<1>3. ASSUME NEW x \in Fds, desc[x] # Closed
      PROVE  <<x, desc[x]>> \in Owned
  <2>1. HasOwner(x)
    BY <1>1, <1>3 DEF AllOwned
  <2>2. CASE x \in {FileFd, ListenFd}
    BY <1>1, <2>2 DEF OwnersRight, Owned
  <2>3. ASSUME NEW j \in Jobs, number[j] = x
        PROVE  <<x, desc[x]>> \in Owned
    BY <1>1, <2>3 DEF OwnersRight, Owned
  <2>4. ASSUME NEW w \in Workers, shmfd[w] = x
        PROVE  <<x, desc[x]>> \in Owned
    BY <1>1, <2>4 DEF OwnersRight, Owned
  <2>5. ASSUME NEW w \in Workers, reqfd[w] = x
        PROVE  <<x, desc[x]>> \in Owned
    BY <1>1, <2>5 DEF OwnersRight, Owned
  <2> QED
    BY <2>1, <2>2, <2>3, <2>4, <2>5 DEF HasOwner
<1> QED
  BY <1>2, <1>3

\* As long as no indeterminate number hits an open descriptor, each open descriptor
\* has exactly one owner, and refers to what its owner opened it for: no path of
\* handle_cache_request closes twice, too early or not at all
\* (simplecached.c:97-190).
THEOREM DescriptorsHaveOwners == DescSpec => []DescriptorsOwned
<1>1. DescInit => DescIInv
  BY DescInitInv
<1>2. DescIInv /\ TypeOK' /\ [DescNext]_descVars => DescIInv'
  <2> SUFFICES ASSUME DescIInv, TypeOK', [DescNext]_descVars
               PROVE  DescIInv'
    OBVIOUS
  <2>1. DescTypeOK' /\ StepVariables'
    BY DescTypeStep DEF DescIInv
  <2>2. NumbersAccepted'
    BY NumbersAcceptedStep DEF DescIInv
  <2>3. Owners'
    BY <2>1, OwnersStep
  <2> QED
    BY <2>1, <2>2, <2>3 DEF DescIInv
<1>3. DescSpec => []TypeOK
  BY DescriptorsUseQueue, QueueTyping, PTL
<1> QED
  BY <1>1, <1>2, <1>3, OwnersSuffice, PTL DEF DescSpec
=============================================================================
