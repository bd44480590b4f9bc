------------------------- MODULE MtgfClient_proofs -------------------------
(***************************************************************************)
(* The multithreaded client keeps the promise of its pool and leaves the   *)
(* right files, for any workers, requests, workload and outcomes.          *)
(***************************************************************************)
EXTENDS MtgfClient, FiniteSetTheorems, SequenceTheorems, TLAPS

\* A worker between work_queue_pop and the free of its job.
Busy == {"load", "store", "open", "perform", "unlink", "status"}

\* The jobs that have taken a number from the counter.
Numbered ==
    finished \cup {job[w] : w \in {v \in Workers :
                       wpc[v] \in {"open", "perform", "unlink", "status"}}}

\* Where main is, and that workers leave an empty queue only.
Phases ==
    /\ mpc = "queueing" => ~ queueingDone
    /\ mpc \in {"joining", "returned"} => queueingDone
    /\ queueingDone => queued = NRequests
    /\ \A w \in Workers : wpc[w] = "left" => queueingDone /\ queue = <<>>
    /\ mpc = "returned" => \A w \in Workers : wpc[w] = "left"

\* Every job that was queued is in one place: in the queue, with one worker, or
\* finished.  main numbers them in order.
JobsPlaced ==
    /\ queued = Len(started) + Len(queue)
    /\ \A i \in 1 .. Len(started) : started[i] = i
    /\ \A i \in 1 .. Len(queue) : queue[i] = Len(started) + i
    /\ finished \subseteq 1 .. Len(started)
    /\ \A j \in 1 .. Len(started) : j \in finished \/ \E w \in Workers : job[w] = j
    /\ \A w \in Workers : wpc[w] \in Busy => job[w] \in 1 .. Len(started) /\ job[w] \notin finished
    /\ \A w \in Workers : wpc[w] \notin Busy => job[w] = None
    /\ \A v, w \in Workers : job[v] = job[w] /\ job[v] # None => v = w

\* The counter, although it loses increments, is never ahead of the jobs.
CounterBehind ==
    /\ counter <= Cardinality(Numbered)
    /\ \A w \in Workers : wpc[w] = "store" => loaded[w] <= Cardinality(Numbered)

\* No other request has the path of j.
Single(j) == \A k \in Jobs \ {j} : Path(k) # Path(j)

\* The file of job j at each place of its worker.
FileOf(j) ==
    LET there == LocalPath(j) \in files
    IN  /\ \A w \in Workers : job[w] = j =>
              /\ wpc[w] = "perform" => there
              /\ wpc[w] = "unlink" => there /\ outcome[j] \in {"short", "invalid"}
              /\ wpc[w] = "status" =>
                    \/ there /\ outcome[j] \in {"ok", "notfound"}
                    \/ ~ there /\ outcome[j] \in {"short", "invalid"}
        /\ j \in finished => (there <=> outcome[j] = "ok")

FilePlaced == \A j \in Jobs : Single(j) => FileOf(j)

IInv == TypeOK /\ Phases /\ JobsPlaced /\ CounterBehind /\ FilePlaced

-----------------------------------------------------------------------------
LEMMA InitIInv == Init => IInv
<1> SUFFICES ASSUME Init PROVE IInv
  OBVIOUS
<1> USE MtgfClientAssumption DEF Init
<1>1. TypeOK
  <2> DEFINE F == {<<Path(j), n>> : j \in Jobs, n \in 0 .. NRequests}
  <2>1. 0 \in 0 .. NRequests /\ NRequests \in Nat
    OBVIOUS
  <2>2. queue \in Seq(Jobs) /\ started \in Seq(Jobs)
    OBVIOUS
  <2>3. loaded \in [Workers -> 0 .. NRequests] /\ name \in [Jobs -> 0 .. NRequests]
    BY <2>1
  <2> HIDE DEF F
  <2>4. files \subseteq F
    OBVIOUS
  <2>5. /\ queued \in 0 .. NRequests /\ counter \in 0 .. NRequests
        /\ finished \subseteq Jobs /\ queueingDone \in BOOLEAN /\ mpc = "queueing"
        /\ job \in [Workers -> Jobs \cup {None}]
        /\ outcome \in [Jobs -> AllOutcomes \cup {"none"}]
        /\ wpc \in [Workers -> {"check"}]
    BY <2>1
  <2> HIDE DEF Init
  <2> QED
    BY <2>2, <2>3, <2>4, <2>5 DEF TypeOK, F
<1>2. Phases
  BY DEF Phases
<1>3. JobsPlaced
  BY DEF JobsPlaced, Busy
<1>4. CounterBehind
  <2>1. Numbered = {}
    BY DEF Numbered
  <2> QED
    BY <2>1, FS_EmptySet DEF CounterBehind
<1>5. FilePlaced
  BY DEF FilePlaced, FileOf
<1> QED
  BY <1>1, <1>2, <1>3, <1>4, <1>5 DEF IInv

\* A worker with a job has one of main's jobs, which is not finished.
LEMMA BusyJob ==
    ASSUME IInv, NEW w \in Workers, wpc[w] \in Busy
    PROVE  job[w] \in Jobs /\ job[w] \in 1 .. Len(started) /\ job[w] \notin finished
<1>1. job[w] \in 1 .. Len(started) /\ job[w] \notin finished
  BY DEF IInv, JobsPlaced
<1>2. job[w] \in Jobs \cup {None} /\ Len(started) \in Nat
  BY DEF IInv, TypeOK
<1> QED
  BY <1>1, <1>2 DEF None

\* There are at most NRequests numbered jobs.
LEMMA NumberedFinite ==
    IInv => Numbered \subseteq Jobs /\ IsFiniteSet(Numbered) /\ Cardinality(Numbered) \in Nat
<1> SUFFICES ASSUME IInv
             PROVE  Numbered \subseteq Jobs /\ IsFiniteSet(Numbered) /\ Cardinality(Numbered) \in Nat
  OBVIOUS
<1>1. \A w \in Workers : wpc[w] \in {"open", "perform", "unlink", "status"} => job[w] \in Jobs
  BY BusyJob DEF Busy
<1>2. Numbered \subseteq Jobs
  BY <1>1 DEF Numbered, IInv, TypeOK
<1>3. IsFiniteSet(Jobs)
  BY MtgfClientAssumption, FS_Interval DEF Jobs
<1>4. IsFiniteSet(Numbered)
  BY <1>2, <1>3, FS_Subset
<1> QED
  BY <1>2, <1>4, FS_CardinalityType

\* Taking a number: there is one more numbered job.
LEMMA StoreNumbers ==
    ASSUME IInv, NEW w \in Workers, StoreCounter(w)
    PROVE  /\ Cardinality(Numbered') = Cardinality(Numbered) + 1
           /\ Cardinality(Numbered) + 1 <= NRequests
<1>1. /\ wpc[w] = "store" /\ wpc' = [wpc EXCEPT ![w] = "open"]
      /\ UNCHANGED <<finished, job>> /\ wpc = [v \in Workers |-> wpc[v]]
  BY DEF StoreCounter, IInv, TypeOK
<1>2. job[w] \in Jobs /\ job[w] \notin finished /\ job[w] # None
  BY <1>1, BusyJob DEF Busy, Jobs, None
<1>3. job[w] \notin Numbered
  BY <1>1, <1>2 DEF Numbered, IInv, JobsPlaced
<1>4. Numbered' = Numbered \cup {job[w]}
  BY <1>1 DEF Numbered
<1>5. Cardinality(Numbered \cup {job[w]}) = Cardinality(Numbered) + 1
  BY <1>3, NumberedFinite, FS_AddElement
<1>6. IsFiniteSet(Jobs) /\ Cardinality(Jobs) = NRequests
  BY MtgfClientAssumption, FS_Interval DEF Jobs
<1>7. Cardinality(Numbered \cup {job[w]}) <= Cardinality(Jobs)
  <2>1. IsFiniteSet(Jobs) /\ Numbered \cup {job[w]} \subseteq Jobs
    BY <1>2, <1>6, NumberedFinite
  <2> QED
    BY <2>1, FS_Subset
<1> QED
  BY <1>4, <1>5, <1>6, <1>7

\* In every other step the numbered jobs stay the same.
LEMMA NumberedStay ==
    ASSUME IInv, [Next]_vars, \A w \in Workers : ~ StoreCounter(w)
    PROVE  Numbered' = Numbered
<1> DEFINE Later == {"open", "perform", "unlink", "status"}
<1>0. wpc = [v \in Workers |-> wpc[v]] /\ job = [v \in Workers |-> job[v]]
  BY DEF IInv, TypeOK
<1>1. ASSUME UNCHANGED <<finished, job>>,
             \A w \in Workers : wpc'[w] \in Later <=> wpc[w] \in Later
      PROVE  Numbered' = Numbered
  BY <1>1 DEF Numbered
<1>2. ASSUME Main PROVE Numbered' = Numbered
  BY <1>0, <1>1, <1>2 DEF Main, Enqueue, Close, Join, Broadcast
<1>3. ASSUME NEW w \in Workers, Wait(w) \/ SpuriousWake(w) \/ OpenExits(w) \/ LoadCounter(w)
      PROVE  Numbered' = Numbered
  BY <1>0, <1>1, <1>3 DEF Wait, SpuriousWake, OpenExits, LoadCounter
<1>4. ASSUME NEW w \in Workers, Leave(w) PROVE Numbered' = Numbered
  BY <1>0, <1>1, <1>4 DEF Leave, Waiting
<1>5. ASSUME NEW w \in Workers, Open(w) \/ Unlink(w) \/ \E o \in Outcomes : Perform(w, o)
      PROVE  Numbered' = Numbered
  BY <1>0, <1>1, <1>5 DEF Open, Unlink, Perform
<1>6. ASSUME NEW w \in Workers, Pop(w) PROVE Numbered' = Numbered
  BY <1>0, <1>6 DEF Pop, Numbered
<1>7. ASSUME NEW w \in Workers, CheckStatus(w) PROVE Numbered' = Numbered
  <2>1. /\ wpc[w] = "status" /\ wpc' = [wpc EXCEPT ![w] = "check"]
        /\ finished' = finished \cup {job[w]} /\ job' = [job EXCEPT ![w] = None]
    BY <1>7 DEF CheckStatus
  <2> QED
    BY <1>0, <2>1 DEF Numbered
<1>8. CASE UNCHANGED vars
  BY <1>1, <1>8 DEF vars
<1> QED
  BY <1>2, <1>3, <1>4, <1>5, <1>6, <1>7, <1>8 DEF Next, WorkerStep, Stopped

LEMMA StepCounter == IInv /\ [Next]_vars => CounterBehind'
<1> SUFFICES ASSUME IInv, [Next]_vars PROVE CounterBehind'
  OBVIOUS
<1>0. /\ CounterBehind /\ wpc = [v \in Workers |-> wpc[v]] /\ loaded = [v \in Workers |-> loaded[v]]
      /\ counter \in Nat /\ \A v \in Workers : loaded[v] \in Nat
      /\ Cardinality(Numbered) \in Nat
  BY NumberedFinite, MtgfClientAssumption DEF IInv, TypeOK
<1>1. ASSUME NEW w \in Workers, StoreCounter(w) PROVE CounterBehind'
  <2>1. /\ wpc[w] = "store" /\ wpc' = [wpc EXCEPT ![w] = "open"]
        /\ counter' = loaded[w] + 1 /\ loaded' = loaded
    BY <1>1 DEF StoreCounter
  <2>2. Cardinality(Numbered') = Cardinality(Numbered) + 1
    BY <1>1, StoreNumbers
  <2>3. \A v \in Workers : wpc'[v] = "store" => wpc[v] = "store"
    BY <1>0, <2>1
  <2> QED
    BY <1>0, <2>1, <2>2, <2>3 DEF CounterBehind
<1>2. ASSUME NEW w \in Workers, LoadCounter(w) PROVE CounterBehind'
  <2>1. /\ wpc[w] = "load" /\ wpc' = [wpc EXCEPT ![w] = "store"]
        /\ loaded' = [loaded EXCEPT ![w] = counter] /\ counter' = counter
    BY <1>2 DEF LoadCounter
  <2>2. Numbered' = Numbered
    BY <1>0, <1>2, <2>1, NumberedStay DEF StoreCounter
  <2> QED
    BY <1>0, <2>1, <2>2 DEF CounterBehind
<1>3. ASSUME \A w \in Workers : ~ StoreCounter(w) /\ ~ LoadCounter(w)
      PROVE  CounterBehind'
  <2>1. Numbered' = Numbered
    BY <1>3, NumberedStay
  <2>2. /\ counter' = counter /\ loaded' = loaded
        /\ \A w \in Workers : wpc'[w] = "store" => wpc[w] = "store"
    BY <1>0, <1>3 DEF Next, vars, Main, Enqueue, Close, Join, Broadcast, Stopped, WorkerStep,
       Wait, SpuriousWake, Leave, Waiting, Pop, Open, OpenExits, Perform, Unlink, CheckStatus
  <2> QED
    BY <1>0, <2>1, <2>2 DEF CounterBehind
<1> QED
  BY <1>1, <1>2, <1>3

LEMMA StepTypes == IInv /\ [Next]_vars => TypeOK'
<1> SUFFICES ASSUME IInv, [Next]_vars PROVE TypeOK'
  OBVIOUS
<1> DEFINE Names == {<<Path(j), n>> : j \in Jobs, n \in 0 .. NRequests}
           Places == {"check", "waiting", "load", "store", "open", "perform", "unlink",
                      "status", "left"}
<1>0. TypeOK /\ NRequests \in Nat /\ Outcomes \subseteq AllOutcomes
  BY MtgfClientAssumption DEF IInv
<1>1. TypeOK <=> /\ queued \in 0 .. NRequests
                 /\ queue \in Seq(Jobs) /\ started \in Seq(Jobs) /\ finished \subseteq Jobs
                 /\ queueingDone \in BOOLEAN
                 /\ mpc \in {"queueing", "joining", "returned", "exited"}
                 /\ wpc \in [Workers -> Places]
                 /\ job \in [Workers -> Jobs \cup {None}]
                 /\ counter \in 0 .. NRequests
                 /\ loaded \in [Workers -> 0 .. NRequests]
                 /\ name \in [Jobs -> 0 .. NRequests]
                 /\ files \subseteq Names
                 /\ outcome \in [Jobs -> AllOutcomes \cup {"none"}]
  BY DEF TypeOK
<1>2. TypeOK' <=> /\ queued' \in 0 .. NRequests
                  /\ queue' \in Seq(Jobs) /\ started' \in Seq(Jobs) /\ finished' \subseteq Jobs
                  /\ queueingDone' \in BOOLEAN
                  /\ mpc' \in {"queueing", "joining", "returned", "exited"}
                  /\ wpc' \in [Workers -> Places]
                  /\ job' \in [Workers -> Jobs \cup {None}]
                  /\ counter' \in 0 .. NRequests
                  /\ loaded' \in [Workers -> 0 .. NRequests]
                  /\ name' \in [Jobs -> 0 .. NRequests]
                  /\ files' \subseteq Names
                  /\ outcome' \in [Jobs -> AllOutcomes \cup {"none"}]
  BY DEF TypeOK
<1> HIDE DEF Names
<1> USE <1>0, <1>1, <1>2
<1>3. ASSUME Enqueue PROVE TypeOK'
  <2>1. queued' \in 0 .. NRequests /\ queued' \in Jobs
    <3>1. queued \in Nat /\ queued < NRequests /\ queued' = queued + 1
      BY <1>3 DEF Enqueue
    <3> QED
      BY <3>1 DEF Jobs
  <2>2. queue' \in Seq(Jobs)
    BY <1>3, <2>1 DEF Enqueue
  <2> QED
    BY <1>3, <2>1, <2>2 DEF Enqueue, Broadcast
<1>4. ASSUME Close \/ Join PROVE TypeOK'
  BY <1>4 DEF Close, Join, Broadcast
<1>5. ASSUME NEW w \in Workers, Wait(w) \/ SpuriousWake(w) \/ OpenExits(w) PROVE TypeOK'
  BY <1>5 DEF Wait, SpuriousWake, OpenExits
<1>6. ASSUME NEW w \in Workers, Leave(w) PROVE TypeOK'
  BY <1>6 DEF Leave, Waiting
<1>7. ASSUME NEW w \in Workers, Pop(w) PROVE TypeOK'
  <2>1. Head(queue) \in Jobs /\ queue' \in Seq(Jobs)
    BY <1>7, HeadTailProperties DEF Pop
  <2>2. started' \in Seq(Jobs)
    BY <1>7, <2>1 DEF Pop
  <2> QED
    BY <1>7, <2>1, <2>2 DEF Pop
<1>8. ASSUME NEW w \in Workers, LoadCounter(w) PROVE TypeOK'
  BY <1>8 DEF LoadCounter
<1>9. ASSUME NEW w \in Workers, StoreCounter(w) PROVE TypeOK'
  <2>1. loaded[w] + 1 <= NRequests
    <3>1. Cardinality(Numbered) + 1 <= NRequests /\ Cardinality(Numbered) \in Nat
      BY <1>9, StoreNumbers, NumberedFinite
    <3>2. loaded[w] <= Cardinality(Numbered) /\ loaded[w] \in 0 .. NRequests
      BY <1>9 DEF StoreCounter, IInv, CounterBehind
    <3> QED
      BY <3>1, <3>2
  <2>2. loaded[w] \in 0 .. NRequests /\ loaded[w] + 1 \in 0 .. NRequests
    BY <2>1
  <2>3. counter' = loaded[w] + 1 /\ name' = [name EXCEPT ![job[w]] = loaded[w]]
    BY <1>9 DEF StoreCounter
  <2>4. counter' \in 0 .. NRequests
    BY <2>2, <2>3
  <2>5. name' \in [Jobs -> 0 .. NRequests]
    BY <2>2, <2>3
  <2> QED
    BY <1>9, <2>4, <2>5 DEF StoreCounter
<1>10. ASSUME NEW w \in Workers, Open(w) PROVE TypeOK'
  <2>1. LocalPath(job[w]) \in Names
    BY <1>10, BusyJob DEF Open, Busy, LocalPath, Names
  <2> QED
    BY <1>10, <2>1 DEF Open
<1>11. ASSUME NEW w \in Workers, NEW o \in Outcomes, Perform(w, o) PROVE TypeOK'
  BY <1>11 DEF Perform
<1>12. ASSUME NEW w \in Workers, Unlink(w) PROVE TypeOK'
  BY <1>12 DEF Unlink
<1>13. ASSUME NEW w \in Workers, CheckStatus(w) PROVE TypeOK'
  <2>1. job[w] \in Jobs
    BY <1>13, BusyJob DEF CheckStatus, Busy
  <2> QED
    BY <1>13, <2>1 DEF CheckStatus
<1>14. CASE UNCHANGED vars
  BY <1>14 DEF vars
<1> QED
  BY <1>3, <1>4, <1>5, <1>6, <1>7, <1>8, <1>9, <1>10, <1>11, <1>12, <1>13, <1>14
  DEF Next, Main, WorkerStep, Stopped

LEMMA StepPhases == IInv /\ [Next]_vars => Phases'
<1> SUFFICES ASSUME IInv, [Next]_vars PROVE Phases'
  OBVIOUS
<1>0. Phases /\ TypeOK /\ NRequests \in Nat
  BY MtgfClientAssumption DEF IInv
<1> USE <1>0 DEF Phases
<1>1. ASSUME Enqueue \/ Close PROVE Phases'
  <2>1. \A w \in Workers : wpc'[w] = "left" => wpc[w] = "left"
    BY <1>1 DEF Enqueue, Close, Broadcast, TypeOK
  <2> QED
    BY <1>1, <2>1 DEF Enqueue, Close
<1>2. ASSUME Join PROVE Phases'
  BY <1>2 DEF Join
<1>3. ASSUME NEW w \in Workers, wpc[w] # "left", mpc # "exited",
             UNCHANGED <<queued, queueingDone, mpc>>,
             wpc'[w] # "left",
             \A v \in Workers : wpc'[v] = "left" => wpc[v] = "left",
             queue' = queue \/ queue # <<>>
      PROVE  Phases'
  BY <1>3
<1>4. ASSUME NEW w \in Workers, Wait(w) \/ SpuriousWake(w) PROVE Phases'
  BY <1>3, <1>4 DEF Wait, SpuriousWake, Alive, TypeOK
<1>5. ASSUME NEW w \in Workers, Leave(w) PROVE Phases'
  BY <1>5 DEF Leave, Alive, TypeOK
<1>6. ASSUME NEW w \in Workers, Pop(w) PROVE Phases'
  BY <1>3, <1>6 DEF Pop, Alive, TypeOK
<1>7. ASSUME NEW w \in Workers,
             \/ LoadCounter(w) \/ StoreCounter(w) \/ Open(w) \/ Unlink(w) \/ CheckStatus(w)
             \/ \E o \in Outcomes : Perform(w, o)
      PROVE  Phases'
  BY <1>3, <1>7 DEF LoadCounter, StoreCounter, Open, Unlink, CheckStatus, Perform, Alive, TypeOK
<1>8. ASSUME NEW w \in Workers, OpenExits(w) PROVE Phases'
  BY <1>8 DEF OpenExits
<1>9. CASE UNCHANGED vars
  BY <1>9 DEF vars
<1> QED
  BY <1>1, <1>2, <1>4, <1>5, <1>6, <1>7, <1>8, <1>9 DEF Next, Main, WorkerStep, Stopped

-----------------------------------------------------------------------------
\* Popping a job: it is the next one, and no other worker has it.
LEMMA PopPlaces == ASSUME IInv, NEW w \in Workers, Pop(w) PROVE JobsPlaced'
<1> DEFINE n == Len(started)
<1>1. /\ JobsPlaced /\ TypeOK
      /\ queue \in Seq(Jobs) /\ started \in Seq(Jobs) /\ queue # <<>> /\ n \in Nat
  BY DEF IInv, TypeOK, Pop
<1>2. /\ queue' = Tail(queue) /\ started' = Append(started, Head(queue))
      /\ job' = [job EXCEPT ![w] = Head(queue)] /\ wpc' = [wpc EXCEPT ![w] = "load"]
      /\ UNCHANGED <<queued, finished>>
      /\ wpc[w] = "check"
  BY DEF Pop
<1>3. Head(queue) = n + 1
  BY <1>1 DEF JobsPlaced
<1>4. /\ Len(started') = n + 1
      /\ \A i \in 1 .. n : started'[i] = started[i]
      /\ started'[n + 1] = n + 1
  BY <1>1, <1>2, <1>3
<1>5. /\ Len(queue') = Len(queue) - 1 /\ Len(queue) \in Nat
      /\ \A i \in 1 .. Len(queue) - 1 : queue'[i] = queue[i + 1]
  BY <1>1, <1>2
<1>6. /\ \A v \in Workers : job'[v] = IF v = w THEN n + 1 ELSE job[v]
      /\ \A v \in Workers : wpc'[v] = IF v = w THEN "load" ELSE wpc[v]
      /\ job[w] = None
  <2>1. job = [v \in Workers |-> job[v]] /\ wpc = [v \in Workers |-> wpc[v]]
    BY <1>1 DEF TypeOK
  <2>2. job[w] = None
    BY <1>1, <1>2 DEF JobsPlaced, Busy
  <2> QED
    BY <1>2, <1>3, <2>1, <2>2
<1>7. \A v \in Workers : job[v] = None \/ job[v] \in 1 .. n
  BY <1>1 DEF JobsPlaced
<1> HIDE DEF n
<1>8. /\ queued' = Len(started') + Len(queue')
      /\ \A i \in 1 .. Len(started') : started'[i] = i
      /\ finished' \subseteq 1 .. Len(started')
  BY <1>1, <1>2, <1>4, <1>5 DEF JobsPlaced, n
<1>9. \A i \in 1 .. Len(queue') : queue'[i] = Len(started') + i
  <2> SUFFICES ASSUME NEW i \in 1 .. Len(queue') PROVE queue'[i] = n + 1 + i
    BY <1>1, <1>4
  <2>1. i + 1 \in 1 .. Len(queue) /\ queue'[i] = queue[i + 1]
    BY <1>5
  <2>2. queue[i + 1] = n + (i + 1)
    BY <1>1, <2>1 DEF JobsPlaced, n
  <2> QED
    BY <1>1, <2>1, <2>2
<1>10. \A j \in 1 .. Len(started') : j \in finished' \/ \E v \in Workers : job'[v] = j
  <2> SUFFICES ASSUME NEW j \in 1 .. n + 1, j \notin finished
               PROVE  \E v \in Workers : job'[v] = j
    BY <1>2, <1>4
  <2>1. CASE j = n + 1
    BY <1>6, <2>1
  <2>2. CASE j \in 1 .. n
    <3>1. PICK v \in Workers : job[v] = j
      BY <1>1, <2>2 DEF JobsPlaced, n
    <3>2. v # w
      BY <1>6, <3>1, <2>2 DEF None
    <3> QED
      BY <1>6, <3>1, <3>2
  <2> QED
    BY <1>1, <2>1, <2>2
<1>11. /\ n + 1 \notin finished /\ n + 1 # None
       /\ \A v \in Workers : job[v] # n + 1
  BY <1>1, <1>7 DEF JobsPlaced, n, None
<1>12. /\ \A v \in Workers : wpc'[v] \in Busy => job'[v] \in 1 .. Len(started') /\ job'[v] \notin finished'
       /\ \A v \in Workers : wpc'[v] \notin Busy => job'[v] = None
  BY <1>1, <1>2, <1>4, <1>6, <1>7, <1>11 DEF JobsPlaced, Busy
<1>13. \A u, v \in Workers : job'[u] = job'[v] /\ job'[u] # None => u = v
  BY <1>1, <1>6, <1>11 DEF JobsPlaced
<1> QED
  BY <1>8, <1>9, <1>10, <1>12, <1>13 DEF JobsPlaced

\* Freeing a job.
LEMMA CheckStatusPlaces == ASSUME IInv, NEW w \in Workers, CheckStatus(w) PROVE JobsPlaced'
<1>1. JobsPlaced /\ TypeOK
  BY DEF IInv
<1>2. /\ finished' = finished \cup {job[w]}
      /\ job' = [job EXCEPT ![w] = None] /\ wpc' = [wpc EXCEPT ![w] = "check"]
      /\ UNCHANGED <<queued, started, queue>>
      /\ wpc[w] = "status"
  BY DEF CheckStatus
<1>3. job[w] \in 1 .. Len(started) /\ job[w] # None
  BY <1>2, BusyJob DEF Busy, Jobs, None
<1>4. /\ \A v \in Workers : job'[v] = IF v = w THEN None ELSE job[v]
      /\ \A v \in Workers : wpc'[v] = IF v = w THEN "check" ELSE wpc[v]
  BY <1>1, <1>2 DEF TypeOK
<1>5. \A j \in 1 .. Len(started') : j \in finished' \/ \E v \in Workers : job'[v] = j
  <2> SUFFICES ASSUME NEW j \in 1 .. Len(started), j \notin finished, j # job[w]
               PROVE  \E v \in Workers : job'[v] = j
    BY <1>2
  <2>1. PICK v \in Workers : job[v] = j
    BY <1>1 DEF JobsPlaced
  <2> QED
    BY <2>1, <1>4
<1>6. \A v \in Workers : wpc'[v] \in Busy => job'[v] \in 1 .. Len(started') /\ job'[v] \notin finished'
  BY <1>1, <1>2, <1>3, <1>4 DEF JobsPlaced, Busy
<1>7. /\ \A v \in Workers : wpc'[v] \notin Busy => job'[v] = None
      /\ \A u, v \in Workers : job'[u] = job'[v] /\ job'[u] # None => u = v
  BY <1>1, <1>4 DEF JobsPlaced
<1>8. finished' \subseteq 1 .. Len(started')
  BY <1>1, <1>2, <1>3 DEF JobsPlaced
<1> QED
  BY <1>1, <1>2, <1>5, <1>6, <1>7, <1>8 DEF JobsPlaced

\* Queueing a job: its number is the next one.
LEMMA EnqueuePlaces == IInv /\ Enqueue => JobsPlaced'
<1> SUFFICES ASSUME IInv, Enqueue PROVE JobsPlaced'
  OBVIOUS
<1>1. /\ JobsPlaced /\ TypeOK
      /\ queue \in Seq(Jobs) /\ Len(started) \in Nat /\ Len(queue) \in Nat
  BY DEF IInv, TypeOK
<1>2. /\ queued' = queued + 1 /\ queue' = Append(queue, queued + 1)
      /\ UNCHANGED <<started, finished, job>>
  BY DEF Enqueue
<1>3. /\ Len(queue') = Len(queue) + 1
      /\ \A i \in 1 .. Len(queue) : queue'[i] = queue[i]
      /\ queue'[Len(queue) + 1] = queued + 1
  BY <1>1, <1>2
<1>4. queued' = Len(started') + Len(queue')
  BY <1>1, <1>2, <1>3 DEF JobsPlaced
<1>5. \A i \in 1 .. Len(queue') : queue'[i] = Len(started') + i
  <2> SUFFICES ASSUME NEW i \in 1 .. Len(queue) + 1
               PROVE  queue'[i] = Len(started) + i
    BY <1>2, <1>3
  <2>1. CASE i \in 1 .. Len(queue)
    BY <1>1, <1>3, <2>1 DEF JobsPlaced
  <2>2. CASE i = Len(queue) + 1
    <3>1. queued = Len(started) + Len(queue)
      BY <1>1 DEF JobsPlaced
    <3> QED
      BY <1>1, <1>3, <2>2, <3>1
  <2> QED
    BY <1>1, <2>1, <2>2
<1>6. \A w \in Workers : wpc'[w] \in Busy <=> wpc[w] \in Busy
  BY <1>1 DEF Enqueue, Broadcast, Busy, TypeOK
<1> QED
  BY <1>1, <1>2, <1>4, <1>5, <1>6 DEF JobsPlaced

\* Every other step leaves the jobs where they are.
LEMMA StepJobsPlaced == IInv /\ [Next]_vars => JobsPlaced'
<1> SUFFICES ASSUME IInv, [Next]_vars PROVE JobsPlaced'
  OBVIOUS
<1>0. JobsPlaced /\ TypeOK
  BY DEF IInv
<1>1. ASSUME UNCHANGED <<queued, queue, started, finished, job>>,
             \A w \in Workers : wpc'[w] \in Busy <=> wpc[w] \in Busy
      PROVE  JobsPlaced'
  BY <1>0, <1>1 DEF JobsPlaced
<1>2. ASSUME Close \/ Join PROVE JobsPlaced'
  BY <1>0, <1>1, <1>2 DEF Close, Join, Broadcast, Busy, TypeOK
<1>3. ASSUME NEW w \in Workers, Wait(w) \/ SpuriousWake(w) \/ Leave(w) \/ OpenExits(w)
      PROVE  JobsPlaced'
  <2>1. UNCHANGED <<queued, queue, started, finished, job>>
    BY <1>3 DEF Wait, SpuriousWake, Leave, OpenExits
  <2>2. \A v \in Workers : wpc'[v] \in Busy <=> wpc[v] \in Busy
    <3>1. wpc = [v \in Workers |-> wpc[v]]
      BY <1>0 DEF TypeOK
    <3> QED
      BY <1>3, <3>1 DEF Wait, SpuriousWake, Leave, Waiting, OpenExits, Busy
  <2> QED
    BY <1>1, <2>1, <2>2
<1>4. ASSUME NEW w \in Workers,
             \/ LoadCounter(w) \/ StoreCounter(w) \/ Open(w) \/ Unlink(w)
             \/ \E o \in Outcomes : Perform(w, o)
      PROVE  JobsPlaced'
  BY <1>0, <1>1, <1>4 DEF LoadCounter, StoreCounter, Open, Unlink, Perform, Busy, TypeOK
<1>5. CASE UNCHANGED vars
  BY <1>1, <1>5 DEF vars
<1> QED
  BY <1>2, <1>3, <1>4, <1>5, EnqueuePlaces, PopPlaces, CheckStatusPlaces
  DEF Next, Main, WorkerStep, Stopped

-----------------------------------------------------------------------------
\* A step that changes nothing of job j.
LEMMA OtherJob ==
    ASSUME NEW j \in Jobs, FileOf(j),
           name'[j] = name[j], outcome'[j] = outcome[j], j \in finished' => j \in finished,
           LocalPath(j)' \in files' <=> LocalPath(j) \in files,
           \A w \in Workers :
               job'[w] = j /\ wpc'[w] \in {"perform", "unlink", "status"} =>
                   job[w] = j /\ wpc[w] = wpc'[w]
    PROVE  FileOf(j)'
  BY DEF FileOf

\* A worker whose job is not j leaves the file of j alone.
LEMMA OtherFile ==
    ASSUME NEW j \in Jobs, NEW k \in Jobs, k # j, Single(j)
    PROVE  LocalPath(k) # LocalPath(j)
  BY DEF Single, LocalPath

LEMMA StepFiles == IInv /\ [Next]_vars => FilePlaced'
<1> SUFFICES ASSUME IInv, [Next]_vars, NEW j \in Jobs, Single(j) PROVE FileOf(j)'
  BY DEF FilePlaced, Single
<1>0. /\ FileOf(j) /\ j # None
      /\ wpc = [v \in Workers |-> wpc[v]] /\ job = [v \in Workers |-> job[v]]
      /\ name = [i \in Jobs |-> name[i]] /\ outcome = [i \in Jobs |-> outcome[i]]
      /\ \A u, v \in Workers : job[u] = job[v] /\ job[u] # None => u = v
      /\ \A v \in Workers : wpc[v] \in Busy => job[v] \in Jobs /\ job[v] \notin finished
  BY BusyJob DEF IInv, FilePlaced, TypeOK, JobsPlaced, Jobs, None
<1>1. ASSUME UNCHANGED <<name, files, outcome, finished, job>>,
             \A w \in Workers : wpc'[w] \in {"perform", "unlink", "status"} => wpc'[w] = wpc[w]
      PROVE  FileOf(j)'
  BY <1>0, <1>1, OtherJob DEF LocalPath
<1>2. ASSUME Main PROVE FileOf(j)'
  BY <1>0, <1>1, <1>2 DEF Main, Enqueue, Close, Join, Broadcast
<1>3. ASSUME NEW w \in Workers, Wait(w) \/ SpuriousWake(w) \/ OpenExits(w) \/ LoadCounter(w)
      PROVE  FileOf(j)'
  BY <1>0, <1>1, <1>3 DEF Wait, SpuriousWake, OpenExits, LoadCounter
<1>4. ASSUME NEW w \in Workers, Leave(w) PROVE FileOf(j)'
  BY <1>0, <1>1, <1>4 DEF Leave, Waiting
<1>5. ASSUME NEW w \in Workers, Pop(w) PROVE FileOf(j)'
  <2>1. /\ UNCHANGED <<name, files, outcome, finished>>
        /\ wpc' = [wpc EXCEPT ![w] = "load"] /\ job' = [job EXCEPT ![w] = Head(queue)]
    BY <1>5 DEF Pop
  <2> QED
    BY <1>0, <2>1, OtherJob DEF LocalPath
<1>6. ASSUME NEW w \in Workers, StoreCounter(w) PROVE FileOf(j)'
  <2>1. /\ UNCHANGED <<files, outcome, finished, job>> /\ wpc[w] \in Busy
        /\ wpc' = [wpc EXCEPT ![w] = "open"] /\ name' = [name EXCEPT ![job[w]] = loaded[w]]
    BY <1>6 DEF StoreCounter, Busy
  <2>2. CASE job[w] = j
    BY <1>0, <2>1, <2>2 DEF FileOf
  <2>3. CASE job[w] # j
    BY <1>0, <2>1, <2>3, OtherJob DEF LocalPath
  <2> QED
    BY <2>2, <2>3
<1>7. ASSUME NEW w \in Workers, Open(w) PROVE FileOf(j)'
  <2>1. /\ UNCHANGED <<name, outcome, finished, job>> /\ wpc[w] \in Busy
        /\ wpc' = [wpc EXCEPT ![w] = "perform"] /\ files' = files \cup {LocalPath(job[w])}
    BY <1>7 DEF Open, Busy
  <2>2. LocalPath(j)' = LocalPath(j)
    BY <2>1 DEF LocalPath
  <2>3. CASE job[w] = j
    BY <1>0, <2>1, <2>2, <2>3 DEF FileOf
  <2>4. CASE job[w] # j
    <3>1. LocalPath(job[w]) # LocalPath(j)
      BY <1>0, <2>1, <2>4, OtherFile
    <3> QED
      BY <1>0, <2>1, <2>2, <2>4, <3>1, OtherJob
  <2> QED
    BY <2>3, <2>4
<1>8. ASSUME NEW w \in Workers, NEW o \in Outcomes, Perform(w, o) PROVE FileOf(j)'
  <2>1. /\ UNCHANGED <<name, files, finished, job>> /\ wpc[w] = "perform" /\ wpc[w] \in Busy
        /\ wpc' = [wpc EXCEPT ![w] = IF o \in {"short", "invalid"} THEN "unlink" ELSE "status"]
        /\ outcome' = [outcome EXCEPT ![job[w]] = o]
    BY <1>8 DEF Perform, Busy
  <2>2. LocalPath(j)' = LocalPath(j)
    BY <2>1 DEF LocalPath
  <2>3. o \in {"ok", "short", "invalid", "notfound"}
    BY MtgfClientAssumption DEF AllOutcomes
  <2>4. CASE job[w] = j
    <3>1. LocalPath(j) \in files /\ outcome'[j] = o /\ j \notin finished
      BY <1>0, <2>1, <2>4 DEF FileOf
    <3> QED
      BY <1>0, <2>1, <2>2, <2>3, <2>4, <3>1 DEF FileOf
  <2>5. CASE job[w] # j
    <3>1. outcome'[j] = outcome[j]
      BY <1>0, <2>1, <2>5
    <3> QED
      BY <1>0, <2>1, <2>2, <2>5, <3>1, OtherJob
  <2> QED
    BY <2>4, <2>5
<1>9. ASSUME NEW w \in Workers, Unlink(w) PROVE FileOf(j)'
  <2>1. /\ UNCHANGED <<name, outcome, finished, job>> /\ wpc[w] = "unlink" /\ wpc[w] \in Busy
        /\ wpc' = [wpc EXCEPT ![w] = "status"] /\ files' = files \ {LocalPath(job[w])}
    BY <1>9 DEF Unlink, Busy
  <2>2. LocalPath(j)' = LocalPath(j)
    BY <2>1 DEF LocalPath
  <2>3. CASE job[w] = j
    <3>1. outcome[j] \in {"short", "invalid"} /\ j \notin finished /\ LocalPath(j) \notin files'
      BY <1>0, <2>1, <2>3 DEF FileOf
    <3> QED
      BY <1>0, <2>1, <2>2, <2>3, <3>1 DEF FileOf
  <2>4. CASE job[w] # j
    <3>1. LocalPath(job[w]) # LocalPath(j)
      BY <1>0, <2>1, <2>4, OtherFile
    <3> QED
      BY <1>0, <2>1, <2>2, <2>4, <3>1, OtherJob
  <2> QED
    BY <2>3, <2>4
<1>10. ASSUME NEW w \in Workers, CheckStatus(w) PROVE FileOf(j)'
  <2>1. /\ UNCHANGED <<name, outcome>> /\ wpc[w] = "status" /\ wpc[w] \in Busy
        /\ wpc' = [wpc EXCEPT ![w] = "check"] /\ job' = [job EXCEPT ![w] = None]
        /\ finished' = finished \cup {job[w]}
        /\ files' = IF outcome[job[w]] \in {"invalid", "notfound"}
                    THEN files \ {LocalPath(job[w])} ELSE files
    BY <1>10 DEF CheckStatus, Busy
  <2>2. LocalPath(j)' = LocalPath(j)
    BY <2>1 DEF LocalPath
  <2>3. CASE job[w] = j
    <3>1. \/ LocalPath(j) \in files /\ outcome[j] \in {"ok", "notfound"}
          \/ LocalPath(j) \notin files /\ outcome[j] \in {"short", "invalid"}
      BY <1>0, <2>1, <2>3 DEF FileOf
    <3>2. LocalPath(j) \in files' <=> outcome[j] = "ok"
      BY <2>1, <2>3, <3>1
    <3>3. \A v \in Workers : job'[v] # j
      BY <1>0, <2>1, <2>3
    <3> QED
      BY <2>1, <2>2, <3>2, <3>3 DEF FileOf
  <2>4. CASE job[w] # j
    <3>1. LocalPath(job[w]) # LocalPath(j)
      BY <1>0, <2>1, <2>4, OtherFile
    <3>2. LocalPath(j) \in files' <=> LocalPath(j) \in files
      BY <2>1, <3>1
    <3> QED
      BY <1>0, <2>1, <2>2, <2>4, <3>2, OtherJob
  <2> QED
    BY <2>3, <2>4
<1>11. CASE UNCHANGED vars
  BY <1>1, <1>11 DEF vars
<1> QED
  BY <1>2, <1>3, <1>4, <1>5, <1>6, <1>7, <1>8, <1>9, <1>10, <1>11
  DEF Next, WorkerStep, Stopped

-----------------------------------------------------------------------------
(* The theorems.                                                           *)

LEMMA ClientInvariant == Spec => []IInv
<1>1. IInv /\ [Next]_vars => IInv'
  BY StepTypes, StepPhases, StepJobsPlaced, StepCounter, StepFiles DEF IInv
<1> QED
  BY InitIInv, <1>1, PTL DEF Spec

\* The values of all variables stay within their types; the counter, which loses
\* increments, never counts more than the requests.
THEOREM ClientTyping == Spec => []TypeOK
<1>1. IInv => TypeOK
  BY DEF IInv
<1> QED
  BY <1>1, ClientInvariant, PTL

\* When the workers have all left, every job is finished.
LEMMA AllFinished ==
    ASSUME IInv, \A w \in Workers : wpc[w] = "left"
    PROVE  queued = NRequests /\ finished = 1 .. queued
<1>1. queue = <<>> /\ queued = NRequests
  BY MtgfClientAssumption DEF IInv, Phases
<1>2. \A w \in Workers : job[w] = None
  BY DEF IInv, JobsPlaced, Busy
<1>3. Len(started) = queued
  BY <1>1 DEF IInv, JobsPlaced, TypeOK
<1>4. \A j \in 1 .. Len(started) : j \in finished
  BY <1>2 DEF IInv, JobsPlaced, None
<1> QED
  BY <1>1, <1>3, <1>4 DEF IInv, JobsPlaced

\* When main returns, a request whose path is its own has left its file exactly if
\* it was successful (mtgf/gfclient_download.c:206-239).
THEOREM ClientFilesMatch == Spec => []FilesMatchOutcomes
<1>1. IInv => FilesMatchOutcomes
  <2> SUFFICES ASSUME IInv, mpc = "returned", NEW j \in Jobs, Single(j)
               PROVE  LocalPath(j) \in files <=> outcome[j] = "ok"
    BY DEF FilesMatchOutcomes, Single
  <2>1. \A w \in Workers : wpc[w] = "left"
    BY DEF IInv, Phases
  <2>2. j \in finished
    BY <2>1, AllFinished DEF Jobs
  <2> QED
    BY <2>2 DEF IInv, FilePlaced, FileOf
<1> QED
  BY <1>1, ClientInvariant, PTL

\* Every step of the client is a step of the pool, or none.
LEMMA ClientStepPool ==
    ASSUME IInv, [Next]_vars
    PROVE  [Pool!Next]_(Pool!vars)
<1>0. TypeOK /\ Phases /\ JobsPlaced /\ queued \in Nat /\ NRequests \in Nat
  BY MtgfClientAssumption DEF IInv, TypeOK
<1>1. ASSUME UNCHANGED <<queued, started, finished, queueingDone>>,
             (mpc' = "returned") = (mpc = "returned")
      PROVE  UNCHANGED Pool!vars
  BY <1>1 DEF Pool!vars
<1>2. ASSUME Enqueue PROVE Pool!Next
  <2> DEFINE Q == [i \in 1 .. queued |-> i]
             R == [i \in 1 .. queued' |-> i]
  <2>1. /\ queued' = queued + 1 /\ queued + 1 \in Jobs /\ ~ queueingDone
        /\ UNCHANGED <<started, finished, queueingDone, mpc>>
    BY <1>0, <1>2 DEF Enqueue, Phases, Jobs
  <2>2. ASSUME NEW k \in Jobs, k = queued + 1 PROVE Pool!Next
    <3>1. R = Append(Q, k)
      BY <1>0, <2>1, <2>2
    <3>2. k \notin {Q[i] : i \in 1 .. Len(Q)}
      BY <1>0, <2>2
    <3>3. Pool!Queue(k)
      BY <2>1, <3>1, <3>2 DEF Pool!Queue, Pool!In
    <3> QED
      BY <3>3 DEF Pool!Next
  <2> QED
    BY <2>1, <2>2
<1>3. ASSUME Close PROVE Pool!Next
  BY <1>0, <1>3 DEF Close, Phases, Pool!Next, Pool!Close
<1>4. ASSUME Join PROVE Pool!Next
  <2> DEFINE Q == [i \in 1 .. queued |-> i]
  <2>1. finished = 1 .. queued /\ queueingDone
    BY <1>0, <1>4, AllFinished DEF Join, Phases
  <2>2. {Q[i] : i \in 1 .. Len(Q)} = 1 .. queued
    BY <1>0
  <2> QED
    BY <1>4, <2>1, <2>2 DEF Join, Pool!Next, Pool!End, Pool!In
<1>5. ASSUME NEW w \in Workers,
             \/ Wait(w) \/ SpuriousWake(w) \/ Leave(w) \/ LoadCounter(w) \/ StoreCounter(w)
             \/ Open(w) \/ Unlink(w) \/ \E o \in Outcomes : Perform(w, o)
      PROVE  UNCHANGED Pool!vars
  BY <1>1, <1>5 DEF Wait, SpuriousWake, Leave, LoadCounter, StoreCounter, Open, Unlink, Perform
<1>6. ASSUME NEW w \in Workers, OpenExits(w) PROVE UNCHANGED Pool!vars
  <2>1. mpc # "returned"
    BY <1>0, <1>6 DEF OpenExits, Phases
  <2> QED
    BY <1>1, <1>6, <2>1 DEF OpenExits
<1>7. ASSUME NEW w \in Workers, Pop(w) PROVE Pool!Next
  <2> DEFINE Q == [i \in 1 .. queued |-> i]
  <2>1. Head(queue) = Len(started) + 1 /\ Len(started) + 1 \in 1 .. queued /\ Len(started) \in Nat
    BY <1>0, <1>7 DEF Pop, JobsPlaced, TypeOK
  <2>2. Len(Q) = queued /\ Q[Len(started) + 1] = Head(queue) /\ Len(started) < Len(Q)
    BY <1>0, <2>1
  <2>3. Pool!Start
    BY <1>7, <2>2 DEF Pop, Pool!Start
  <2> QED
    BY <2>3 DEF Pool!Next
<1>8. ASSUME NEW w \in Workers, CheckStatus(w) PROVE Pool!Next
  <2>1. job[w] \in Jobs /\ job[w] \in 1 .. Len(started) /\ job[w] \notin finished
    BY <1>8, BusyJob DEF CheckStatus, Busy
  <2>2. started[job[w]] = job[w]
    BY <1>0, <2>1 DEF JobsPlaced
  <2>3. Pool!Finish(job[w])
    BY <1>8, <2>1, <2>2 DEF CheckStatus, Pool!Finish, Pool!In
  <2> QED
    BY <2>1, <2>3 DEF Pool!Next
<1>9. CASE UNCHANGED vars
  BY <1>1, <1>9 DEF vars
<1> QED
  BY <1>2, <1>3, <1>4, <1>5, <1>6, <1>7, <1>8, <1>9 DEF Next, Main, WorkerStep, Stopped

\* Jobs are started in order, once, and all are finished when main has joined the
\* workers (mtgf/gfclient_download.c:151-173, 184-195).
THEOREM ClientImplementsJobPool == Spec => ImplementsJobPool
<1>1. Init => Pool!Init
  <2> SUFFICES ASSUME Init PROVE Pool!Init
    OBVIOUS
  <2>1. [i \in 1 .. queued |-> i] = <<>>
    BY DEF Init
  <2> QED
    BY <2>1 DEF Init, Pool!Init
<1>2. IInv /\ [Next]_vars => [Pool!Next]_(Pool!vars)
  BY ClientStepPool
<1> QED
  BY <1>1, <1>2, ClientInvariant, PTL DEF Spec, ImplementsJobPool, Pool!Spec

=============================================================================
