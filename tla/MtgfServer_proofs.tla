------------------------- MODULE MtgfServer_proofs -------------------------
(***************************************************************************)
(* The multithreaded server keeps the promise of its pool and answers      *)
(* honestly, for any workers, jobs, file sizes, failing calls and signals. *)
(***************************************************************************)
EXTENDS MtgfServer, SequenceTheorems, TLAPS

Elements(s) == {s[i] : i \in 1 .. Len(s)}
Distinct(s) == \A i, k \in 1 .. Len(s) : s[i] = s[k] => i = k

\* A worker between work_queue_pop and the free of its job.
Busy == {"lookup", "read", "send", "abort", "done"}

\* A chunk and a body are sequences of positions in the file.
Positions == Nat

\* TypeOK, and what TLC cannot enumerate.
Types ==
    /\ TypeOK
    /\ offset \in [Workers -> Nat]
    /\ buffer \in [Workers -> Seq(Positions)]
    /\ body \in [Jobs -> Seq(Positions)]

\* Where main is after how many signals, and what it has done there.
Phases ==
    /\ mpc \in {"accept", "lock", "locked"} <=> signals = 0
    /\ mpc \in {"cleanup", "join"} => signals = 1
    /\ mpc = "join" => queueingDone
    /\ queueingDone => mpc \in {"join", "gone"}
    /\ mpc \in {"lock", "locked"} => mjob \in Jobs \ Requested
    /\ mpc = "locked" => mtx = Main
    /\ \A w \in Workers : wpc[w] = "left" => queueingDone /\ queue = <<>>

\* Every job that was queued is in one place: in the queue, with one worker, or
\* finished.
JobsPlaced ==
    /\ queued = started \o queue
    /\ Distinct(queued)
    /\ finished \subseteq Elements(started)
    /\ \A j \in Elements(started) : j \in finished \/ \E w \in Workers : job[w] = j
    /\ \A w \in Workers : wpc[w] \in Busy => job[w] \in Elements(started) \ finished
    /\ \A w \in Workers : wpc[w] \notin Busy => job[w] = None
    /\ \A v, w \in Workers : job[v] = job[w] /\ job[v] # None => v = w

\* The body from the next byte on, n bytes.
NextBytes(j, n) == [i \in 1 .. n |-> Len(body[j]) + i]

\* What the client of job j has received so far.
Untouched(j) == answer[j] = "none" /\ body[j] = <<>>
Sending(j)   == answer[j] = "OK" /\ Size[j] \in Nat /\ Len(body[j]) <= Size[j]
Answered(j)  ==
    \/ answer[j] = "OK" /\ Len(body[j]) = Size[j]
    \/ answer[j] \in {"FILE_NOT_FOUND", "ERROR"}
    \/ j \in aborted

\* How far the answer to a worker's job is at each of its places.
HowFar(w) ==
    LET j == job[w]
    IN  /\ wpc[w] = "lookup" => Untouched(j) /\ offset[w] = 0
        /\ wpc[w] = "read" => Sending(j) /\ offset[w] = Len(body[j])
        /\ wpc[w] = "send" =>
              /\ Sending(j)
              /\ Len(buffer[w]) \in 1 .. Size[j] - Len(body[j])
              /\ buffer[w] = NextBytes(j, Len(buffer[w]))
        /\ wpc[w] = "done" => Answered(j)

Progress ==
    /\ \A j \in Jobs : j \notin Elements(started) => body[j] = <<>>
    /\ \A j \in Elements(queue) : Untouched(j)
    /\ mpc \in {"lock", "locked"} => Untouched(mjob)
    /\ \A w \in Workers : HowFar(w)

\* HonestAnswer for one job.
Honest(j) ==
    /\ body[j] = [i \in 1 .. Len(body[j]) |-> i]
    /\ body[j] # <<>> => answer[j] = "OK"
    /\ j \in finished => Answered(j)

IInv == Types /\ Phases /\ JobsPlaced /\ Progress /\ HonestAnswer

-----------------------------------------------------------------------------
(* Sequences.                                                              *)

\* Moving the head of the queue to the end of what was started leaves the whole.
LEMMA MoveHead ==
    ASSUME NEW S, NEW s \in Seq(S), NEW t \in Seq(S), t # <<>>
    PROVE  s \o t = Append(s, Head(t)) \o Tail(t)
  OBVIOUS

\* What the elements of the sequences that the pool builds are.
LEMMA ElementsOfAppend ==
    ASSUME NEW S, NEW s \in Seq(S), NEW e \in S
    PROVE  Elements(Append(s, e)) = Elements(s) \cup {e}
<1>1. /\ Len(Append(s, e)) = Len(s) + 1 /\ Len(s) \in Nat
      /\ \A i \in 1 .. Len(s) : Append(s, e)[i] = s[i]
      /\ Append(s, e)[Len(s) + 1] = e
  OBVIOUS
<1> QED
  BY <1>1 DEF Elements

LEMMA ElementsOfTail ==
    ASSUME NEW S, NEW s \in Seq(S), s # <<>>
    PROVE  Elements(s) = {Head(s)} \cup Elements(Tail(s))
<1>1. /\ Len(s) \in Nat /\ Len(s) >= 1
      /\ Len(Tail(s)) = Len(s) - 1
      /\ \A i \in 1 .. Len(s) - 1 : Tail(s)[i] = s[i + 1]
      /\ Head(s) = s[1]
  OBVIOUS
<1>2. ASSUME NEW i \in 1 .. Len(s), i # 1
      PROVE  s[i] \in Elements(Tail(s))
  <2>1. i - 1 \in 1 .. Len(s) - 1 /\ (i - 1) + 1 = i
    BY <1>1, <1>2
  <2>2. i - 1 \in 1 .. Len(Tail(s)) /\ s[i] = Tail(s)[i - 1]
    BY <1>1, <2>1
  <2> QED
    BY <2>2 DEF Elements
<1>3. ASSUME NEW i \in 1 .. Len(Tail(s))
      PROVE  Tail(s)[i] \in Elements(s)
  <2>1. i \in 1 .. Len(s) - 1 /\ i + 1 \in 1 .. Len(s)
    BY <1>1, <1>3
  <2>2. Tail(s)[i] = s[i + 1]
    BY <1>1, <2>1
  <2> QED
    BY <2>1, <2>2 DEF Elements
<1>4. Elements(s) \subseteq {Head(s)} \cup Elements(Tail(s))
  BY <1>1, <1>2 DEF Elements
<1>5. Head(s) \in Elements(s)
  BY <1>1 DEF Elements
<1>6. Elements(Tail(s)) \subseteq Elements(s)
  BY <1>3 DEF Elements
<1> QED
  BY <1>4, <1>5, <1>6

LEMMA ElementsIn ==
    ASSUME NEW S, NEW s \in Seq(S)
    PROVE  Elements(s) \subseteq S
  BY DEF Elements

LEMMA ElementsOfConcat ==
    ASSUME NEW S, NEW s \in Seq(S), NEW t \in Seq(S)
    PROVE  Elements(s \o t) = Elements(s) \cup Elements(t)
<1>1. /\ Len(s \o t) = Len(s) + Len(t) /\ Len(s) \in Nat /\ Len(t) \in Nat
      /\ \A i \in 1 .. Len(s) : (s \o t)[i] = s[i]
      /\ \A i \in 1 .. Len(t) : (s \o t)[Len(s) + i] = t[i]
  OBVIOUS
<1>2. \A i \in 1 .. Len(s \o t) :
          i \in 1 .. Len(s) \/ (i - Len(s) \in 1 .. Len(t) /\ i = Len(s) + (i - Len(s)))
  BY <1>1
<1>3. Elements(s \o t) \subseteq Elements(s) \cup Elements(t)
  <2> SUFFICES ASSUME NEW i \in 1 .. Len(s \o t)
               PROVE  (s \o t)[i] \in Elements(s) \cup Elements(t)
    BY DEF Elements
  <2>1. CASE i \in 1 .. Len(s)
    BY <1>1, <2>1 DEF Elements
  <2>2. CASE i - Len(s) \in 1 .. Len(t)
    <3>1. (s \o t)[i] = t[i - Len(s)]
      BY <1>1, <2>2
    <3> QED
      BY <2>2, <3>1 DEF Elements
  <2> QED
    BY <1>2, <2>1, <2>2
<1>4. ASSUME NEW i \in 1 .. Len(t)
      PROVE  t[i] \in Elements(s \o t)
  <2>1. Len(s) + i \in 1 .. Len(s \o t)
    BY <1>1, <1>4
  <2> QED
    BY <1>1, <2>1 DEF Elements
<1>5. ASSUME NEW i \in 1 .. Len(s)
      PROVE  s[i] \in Elements(s \o t)
  <2>1. i \in 1 .. Len(s \o t)
    BY <1>1, <1>5
  <2> QED
    BY <1>1, <2>1 DEF Elements
<1>6. Elements(s) \subseteq Elements(s \o t) /\ Elements(t) \subseteq Elements(s \o t)
  BY <1>4, <1>5 DEF Elements
<1> QED
  BY <1>3, <1>6

\* A job that was not queued before makes no repetition.
LEMMA DistinctAppend ==
    ASSUME NEW S, NEW s \in Seq(S), NEW e \in S, Distinct(s), e \notin Elements(s)
    PROVE  Distinct(Append(s, e))
<1>1. /\ Len(Append(s, e)) = Len(s) + 1 /\ Len(s) \in Nat
      /\ \A i \in 1 .. Len(s) : Append(s, e)[i] = s[i]
      /\ Append(s, e)[Len(s) + 1] = e
  OBVIOUS
<1>2. \A i \in 1 .. Len(s) : s[i] # e
  BY DEF Elements
<1> QED
  BY <1>1, <1>2 DEF Distinct

\* The head of the queue is neither behind it nor among the started jobs.
LEMMA HeadIsNew ==
    ASSUME NEW S, NEW s \in Seq(S), NEW t \in Seq(S), t # <<>>, Distinct(s \o t)
    PROVE  Head(t) \notin Elements(s) /\ Head(t) \notin Elements(Tail(t))
<1>1. /\ Len(s \o t) = Len(s) + Len(t) /\ Len(s) \in Nat /\ Len(t) \in Nat /\ Len(t) >= 1
      /\ \A i \in 1 .. Len(s) : (s \o t)[i] = s[i]
      /\ \A i \in 1 .. Len(t) : (s \o t)[Len(s) + i] = t[i]
  OBVIOUS
<1>2. Head(t) = (s \o t)[Len(s) + 1]
  BY <1>1
<1>3. ASSUME NEW i \in 1 .. Len(s) PROVE s[i] # Head(t)
  <2>1. /\ i \in 1 .. Len(s \o t) /\ Len(s) + 1 \in 1 .. Len(s \o t) /\ i # Len(s) + 1
        /\ s[i] = (s \o t)[i]
    BY <1>1, <1>3
  <2> QED
    BY <1>2, <2>1, Zenon DEF Distinct
<1>4. ASSUME NEW i \in 1 .. Len(Tail(t)) PROVE Tail(t)[i] # Head(t)
  <2>1. Len(Tail(t)) = Len(t) - 1 /\ Tail(t)[i] = t[i + 1]
    OBVIOUS
  <2>2. i + 1 \in 1 .. Len(t) /\ Len(s) + (i + 1) \in 1 .. Len(s \o t)
        /\ Len(s) + 1 \in 1 .. Len(s \o t) /\ Len(s) + (i + 1) # Len(s) + 1
    BY <1>1, <2>1
  <2>3. Tail(t)[i] = (s \o t)[Len(s) + (i + 1)]
    BY <1>1, <2>1, <2>2
  <2> QED
    BY <1>2, <2>2, <2>3 DEF Distinct
<1> QED
  BY <1>3, <1>4 DEF Elements

-----------------------------------------------------------------------------
(* The invariant.                                                          *)

LEMMA InitIInv == Init => IInv
<1> SUFFICES ASSUME Init PROVE IInv
  OBVIOUS
<1> USE MtgfServerAssumption DEF Init
<1>1. Types
  <2>1. <<>> \in Seq(Positions) /\ <<>> \in Seq(Jobs) /\ Len(<<>>) = 0 /\ 0 <= BufferSize
    OBVIOUS
  <2>2. /\ buffer \in [Workers -> Seq(Positions)] /\ body \in [Jobs -> Seq(Positions)]
        /\ \A w \in Workers : Len(buffer[w]) <= BufferSize
    BY <2>1
  <2>3. offset \in [Workers -> Nat]
    OBVIOUS
  <2>4. /\ wpc \in [Workers -> {"check", "waiting", "lookup", "read", "send", "abort",
                               "done", "left"}]
        /\ job \in [Workers -> Jobs \cup {None}]
        /\ answer \in [Jobs -> {"none", "OK", "FILE_NOT_FOUND", "ERROR"}]
        /\ signals \in 0 .. MaxSignals
    OBVIOUS
  <2>5. \A w \in Workers : offset[w] \in Nat /\ Len(buffer[w]) <= BufferSize
    BY <2>2, <2>3
  <2>6. TypeOK
    BY <2>1, <2>4, <2>5 DEF TypeOK
  <2> QED
    BY <2>2, <2>3, <2>6 DEF Types
<1>2. Phases
  BY DEF Phases
<1>3. JobsPlaced
  BY DEF JobsPlaced, Distinct, Elements, Busy
<1>4. Progress /\ HonestAnswer
  BY DEF Progress, HowFar, HonestAnswer, Elements
<1> QED
  BY <1>1, <1>2, <1>3, <1>4 DEF IInv

\* A worker that has a job has one that was started and is not finished.
LEMMA BusyJob ==
    ASSUME IInv, NEW w \in Workers, wpc[w] \in Busy
    PROVE  job[w] \in Jobs /\ job[w] \in Elements(started) \ finished
<1>1. job[w] \in Elements(started) \ finished
  BY DEF IInv, JobsPlaced
<1> QED
  BY <1>1, ElementsIn DEF IInv, Types, TypeOK

LEMMA StepTypes == IInv /\ [Next]_vars => Types'
<1> SUFFICES ASSUME IInv, [Next]_vars PROVE Types'
  OBVIOUS
<1> USE DEF mainVars, poolVars, sendVars, Main, Free
<1>0. Types /\ MaxSignals \in Nat /\ BufferSize \in Nat \ {0}
  BY MtgfServerAssumption DEF IInv
<1> USE <1>0
<1>1. ASSUME NEW j \in Jobs, Accept(j) PROVE Types'
  BY <1>1 DEF Accept, Types, TypeOK
<1>2. ASSUME HandlerFails PROVE Types'
  BY <1>2 DEF HandlerFails, Types, TypeOK
<1>3. ASSUME HandlerLock PROVE Types'
  BY <1>3 DEF HandlerLock, Types, TypeOK
<1>4. ASSUME Enqueue PROVE Types'
  <2>1. mjob \in Jobs
    BY <1>4 DEF Enqueue, IInv, Phases
  <2>2. Append(queue, mjob) \in Seq(Jobs) /\ Append(queued, mjob) \in Seq(Jobs)
    BY <2>1 DEF Types, TypeOK
  <2>3. wpc' = wpc \/ \E w \in Workers : wpc' = [wpc EXCEPT ![w] = "check"]
    BY <1>4 DEF Enqueue, Signalled, Waiting
  <2>4. wpc' \in [Workers -> {"check", "waiting", "lookup", "read", "send", "abort",
                              "done", "left"}]
    BY <2>3 DEF Types, TypeOK
  <2> QED
    BY <1>4, <2>2, <2>4 DEF Enqueue, Types, TypeOK
<1>5. ASSUME Signal PROVE Types'
  BY <1>5 DEF Signal, Types, TypeOK
<1>6. ASSUME CleanupThreads PROVE Types'
  BY <1>6 DEF CleanupThreads, Types, TypeOK
<1>7. ASSUME JoinThreads PROVE Types'
  BY <1>7 DEF JoinThreads, Types, TypeOK
<1>8. ASSUME NEW w \in Workers, Wait(w) \/ SpuriousWake(w) \/ Leave(w) PROVE Types'
  BY <1>8 DEF Wait, SpuriousWake, Leave, Types, TypeOK
<1>9. ASSUME NEW w \in Workers, Pop(w) PROVE Types'
  <2>1. Head(queue) \in Jobs /\ Tail(queue) \in Seq(Jobs)
    BY <1>9 DEF Pop, Types, TypeOK
  <2>2. Append(started, Head(queue)) \in Seq(Jobs)
    BY <2>1 DEF Types, TypeOK
  <2>3. <<>> \in Seq(Positions) /\ Len(<<>>) <= BufferSize
    OBVIOUS
  <2>4. /\ buffer' \in [Workers -> Seq(Positions)]
        /\ \A v \in Workers : Len(buffer'[v]) <= BufferSize
    BY <1>9, <2>3 DEF Pop, Types, TypeOK
  <2>5. offset' \in [Workers -> Nat]
    BY <1>9 DEF Pop, Types
  <2> QED
    BY <1>9, <2>1, <2>2, <2>4, <2>5 DEF Pop, Types, TypeOK
<1>10. ASSUME NEW w \in Workers,
              RefuseMissing(w) \/ DupFails(w) \/ FstatFails(w) \/ Announce(w)
       PROVE  Types'
  <2>1. job[w] \in Jobs
    BY <1>10, BusyJob DEF RefuseMissing, DupFails, FstatFails, Announce, At, Busy
  <2> QED
    BY <1>10, <2>1 DEF RefuseMissing, DupFails, FstatFails, Announce, SendHeader,
                       Types, TypeOK
<1>11. ASSUME NEW w \in Workers, Read(w) PROVE Types'
  <2> DEFINE n == Smaller(BufferSize, Size[job[w]] - offset[w])
             chunk == [i \in 1 .. n |-> offset[w] + i]
  <2>1. job[w] \in Jobs /\ offset[w] \in Nat
    BY <1>11, BusyJob DEF Read, At, Busy, Types
  <2>2. n \in Nat /\ n <= BufferSize
    BY <1>11, <2>1 DEF Read, At, Progress, HowFar, Sending, IInv, Smaller, Types
  <2>3. chunk \in Seq(Positions) /\ Len(chunk) = n
    BY <2>1, <2>2 DEF Positions
  <2>4. buffer' = [buffer EXCEPT ![w] = chunk]
        /\ wpc' = [wpc EXCEPT ![w] = IF n = 0 THEN "done" ELSE "send"]
    BY <1>11 DEF Read
  <2> HIDE DEF n, chunk
  <2> QED
    <3>1. /\ buffer' \in [Workers -> Seq(Positions)]
          /\ \A v \in Workers : Len(buffer'[v]) <= BufferSize
      BY <2>2, <2>3, <2>4 DEF Types, TypeOK
    <3>2. wpc' \in [Workers -> {"check", "waiting", "lookup", "read", "send", "abort",
                                "done", "left"}]
      BY <2>4 DEF Types, TypeOK
    <3> QED
      BY <1>11, <3>1, <3>2 DEF Read, Types, TypeOK
<1>12. ASSUME NEW w \in Workers, ReadFails(w) \/ SendFails(w) PROVE Types'
  BY <1>12 DEF ReadFails, SendFails, Types, TypeOK
<1>13. ASSUME NEW w \in Workers, NEW k \in 1 .. Len(buffer[w]), Send(w, k)
       PROVE  Types'
  <2> DEFINE sent == SubSeq(buffer[w], 1, k)
             rest == SubSeq(buffer[w], k + 1, Len(buffer[w]))
  <2>1. job[w] \in Jobs /\ buffer[w] \in Seq(Positions) /\ Len(buffer[w]) <= BufferSize
    BY <1>13, BusyJob DEF Send, At, Busy, Types, TypeOK
  <2>2. /\ sent \in Seq(Positions) /\ rest \in Seq(Positions)
        /\ Len(rest) <= BufferSize /\ buffer[w][k] \in Positions
    BY <2>1
  <2>3. body[job[w]] \o sent \in Seq(Positions)
    BY <2>1, <2>2 DEF Types
  <2>4. /\ body' = [body EXCEPT ![job[w]] = body[job[w]] \o sent]
        /\ buffer' = [buffer EXCEPT ![w] = rest]
    BY <1>13 DEF Send
  <2>5. offset' \in [Workers -> Nat]
    BY <1>13, <2>2 DEF Send, Types, Positions
  <2>6. wpc' \in [Workers -> {"check", "waiting", "lookup", "read", "send", "abort",
                              "done", "left"}]
    BY <1>13 DEF Send, Types, TypeOK
  <2> HIDE DEF sent, rest
  <2>7. body' \in [Jobs -> Seq(Positions)]
    BY <2>1, <2>3, <2>4 DEF Types
  <2>8. /\ buffer' \in [Workers -> Seq(Positions)]
        /\ \A v \in Workers : Len(buffer'[v]) <= BufferSize
    BY <2>2, <2>4 DEF Types, TypeOK
  <2> QED
    BY <1>13, <2>5, <2>6, <2>7, <2>8 DEF Send, Types, TypeOK
<1>14. ASSUME NEW w \in Workers, Abort(w) PROVE Types'
  <2>1. job[w] \in Jobs
    BY <1>14, BusyJob DEF Abort, At, Busy
  <2> QED
    BY <1>14, <2>1 DEF Abort, Types, TypeOK
<1>15. ASSUME NEW w \in Workers, Done(w) PROVE Types'
  <2>1. job[w] \in Jobs
    BY <1>15, BusyJob DEF Done, At, Busy
  <2> QED
    BY <1>15, <2>1 DEF Done, Types, TypeOK
<1>16. CASE UNCHANGED vars
  BY <1>16 DEF vars, Types, TypeOK
<1> QED
  BY <1>1, <1>2, <1>3, <1>4, <1>5, <1>6, <1>7, <1>8, <1>9, <1>10, <1>11, <1>12,
     <1>13, <1>14, <1>15, <1>16 DEF Next, MainStep, WorkerStep, Answer, Rest

\* Where main and the mutex are: nothing is queued once queueingDone is set, and
\* workers leave an empty queue only.
LEMMA StepPhases == IInv /\ [Next]_vars => Phases'
<1> SUFFICES ASSUME IInv, [Next]_vars PROVE Phases'
  OBVIOUS
<1> USE DEF mainVars, poolVars, sendVars, Phases, Requested
<1>0. Phases /\ TypeOK
  BY DEF IInv, Types
<1> USE <1>0
<1>1. ASSUME NEW j \in Jobs, Accept(j) PROVE Phases'
  BY <1>1 DEF Accept
<1>2. ASSUME HandlerFails PROVE Phases'
  BY <1>2 DEF HandlerFails
<1>3. ASSUME HandlerLock PROVE Phases'
  BY <1>3 DEF HandlerLock
<1>4. ASSUME Enqueue PROVE Phases'
  <2>1. ASSUME NEW w \in Workers PROVE wpc'[w] # "left"
    <3>1. wpc[w] # "left"
      BY <1>4 DEF Enqueue
    <3> QED
      BY <1>4, <3>1 DEF Enqueue, Signalled, Waiting, TypeOK
  <2> QED
    BY <1>4, <2>1 DEF Enqueue
<1>5. ASSUME Signal PROVE Phases'
  BY <1>5 DEF Signal, TypeOK
<1>6. ASSUME CleanupThreads PROVE Phases'
  BY <1>6 DEF CleanupThreads
<1>7. ASSUME JoinThreads PROVE Phases'
  BY <1>7 DEF JoinThreads
<1>8. ASSUME NEW w \in Workers, Wait(w) \/ SpuriousWake(w) \/ Leave(w) PROVE Phases'
  BY <1>8 DEF Wait, SpuriousWake, Leave, At, TypeOK
<1>9. ASSUME NEW w \in Workers, Pop(w) PROVE Phases'
  <2>1. ASSUME NEW v \in Workers PROVE wpc'[v] # "left"
    BY <1>9 DEF Pop, TypeOK
  <2> QED
    BY <1>9, <2>1 DEF Pop
<1>10. ASSUME NEW w \in Workers,
              UNCHANGED mainVars /\ UNCHANGED queue,
              wpc' = wpc \/ \E p \in Busy \cup {"check"} : wpc' = [wpc EXCEPT ![w] = p]
       PROVE  Phases'
  BY <1>10 DEF TypeOK, Busy
<1>11. ASSUME NEW w \in Workers, Answer(w) PROVE Phases'
  <2>1. UNCHANGED mainVars /\ UNCHANGED queue
    BY <1>11 DEF Answer, RefuseMissing, DupFails, FstatFails, Announce, SendHeader,
                 Read, ReadFails, Send, SendFails, Abort, Done
  <2>2. wpc' = wpc \/ \E p \in Busy \cup {"check"} : wpc' = [wpc EXCEPT ![w] = p]
    BY <1>11 DEF Answer, RefuseMissing, DupFails, FstatFails, Announce, SendHeader,
                 Read, ReadFails, Send, SendFails, Abort, Done, Busy
  <2> QED
    BY <2>1, <2>2, <1>10
<1>12. CASE UNCHANGED vars
  BY <1>12 DEF vars
<1> QED
  BY <1>1, <1>2, <1>3, <1>4, <1>5, <1>6, <1>7, <1>8, <1>9, <1>11, <1>12
  DEF Next, MainStep, WorkerStep, Rest

-----------------------------------------------------------------------------
\* Queueing a job: it was not there before.
LEMMA EnqueuePlaces == IInv /\ Enqueue => JobsPlaced'
<1> SUFFICES ASSUME IInv, Enqueue PROVE JobsPlaced'
  OBVIOUS
<1>1. /\ JobsPlaced /\ TypeOK
      /\ mjob \in Jobs \ Requested
      /\ queue \in Seq(Jobs) /\ started \in Seq(Jobs) /\ queued \in Seq(Jobs)
  BY DEF IInv, Types, TypeOK, Enqueue, Phases
<1>2. /\ queue' = Append(queue, mjob) /\ queued' = Append(queued, mjob)
      /\ UNCHANGED <<started, finished, job>>
  BY DEF Enqueue
<1>3. queued' = started' \o queue'
  <2>1. mjob \in Jobs /\ queue \in Seq(Jobs) /\ started \in Seq(Jobs)
    BY <1>1
  <2>2. ASSUME NEW e \in Jobs
        PROVE  Append(started \o queue, e) = started \o Append(queue, e)
    BY <2>1
  <2>3. Append(started \o queue, mjob) = started \o Append(queue, mjob)
    BY <2>1, <2>2, Zenon
  <2>4. queued = started \o queue
    BY <1>1 DEF JobsPlaced
  <2>5. queued' = Append(queued, mjob) /\ queue' = Append(queue, mjob) /\ started' = started
    BY <1>2
  <2> QED
    BY <2>3, <2>4, <2>5, Zenon
<1>4. Distinct(queued')
  BY <1>1, <1>2, DistinctAppend DEF JobsPlaced, Requested, Elements
<1>5. \A w \in Workers : wpc'[w] \in Busy <=> wpc[w] \in Busy
  BY <1>1 DEF Enqueue, Signalled, Waiting, Busy, TypeOK
<1> QED
  BY <1>1, <1>2, <1>3, <1>4, <1>5 DEF JobsPlaced

\* Popping a job: its worker had none, and no other one has it.
LEMMA PopPlaces == ASSUME IInv, NEW w \in Workers, Pop(w) PROVE JobsPlaced'
<1> DEFINE h == Head(queue)
<1>1. /\ JobsPlaced /\ TypeOK
      /\ queue \in Seq(Jobs) /\ started \in Seq(Jobs) /\ queue # <<>>
      /\ h \in Jobs /\ h # None
  <2>1. /\ JobsPlaced /\ TypeOK
        /\ queue \in Seq(Jobs) /\ started \in Seq(Jobs) /\ queue # <<>>
    BY DEF IInv, Types, TypeOK, Pop
  <2>2. h \in Jobs
    BY <2>1
  <2> QED
    BY <2>1, <2>2, NamesDiffer
<1>2. /\ queue' = Tail(queue) /\ started' = Append(started, h)
      /\ job' = [job EXCEPT ![w] = h] /\ wpc' = [wpc EXCEPT ![w] = "lookup"]
      /\ UNCHANGED <<queued, finished>>
      /\ wpc[w] = "check"
  BY DEF Pop, mainVars, At
<1>3. queued' = started' \o queue' /\ Distinct(queued')
  BY <1>1, <1>2, MoveHead DEF JobsPlaced
<1>4. Elements(started') = Elements(started) \cup {h} /\ h \notin Elements(started)
  BY <1>1, <1>2, ElementsOfAppend, HeadIsNew DEF JobsPlaced
<1>5. \A v \in Workers : job'[v] = IF v = w THEN h ELSE job[v]
  BY <1>1, <1>2 DEF TypeOK
<1>6. \A v \in Workers : wpc'[v] = IF v = w THEN "lookup" ELSE wpc[v]
  BY <1>1, <1>2 DEF TypeOK
<1>7. \A v \in Workers : job[v] = None \/ job[v] \in Elements(started)
  BY <1>1 DEF JobsPlaced
<1> HIDE DEF h
<1>8. finished' \subseteq Elements(started')
  BY <1>1, <1>2, <1>4 DEF JobsPlaced
<1>9. \A j \in Elements(started') : j \in finished' \/ \E v \in Workers : job'[v] = j
  <2> SUFFICES ASSUME NEW j \in Elements(started'), j \notin finished
               PROVE  \E v \in Workers : job'[v] = j
    BY <1>2
  <2>1. CASE j = h
    BY <2>1, <1>5
  <2>2. CASE j # h
    <3>1. PICK v \in Workers : job[v] = j
      BY <2>2, <1>1, <1>4 DEF JobsPlaced
    <3>2. v # w
      <4>1. job[w] = None
        BY <1>1, <1>2 DEF JobsPlaced, Busy
      <4> QED
        BY <4>1, <3>1, <1>1, <1>4, <2>2, NamesDiffer, ElementsIn
    <3> QED
      BY <3>1, <3>2, <1>5
  <2> QED
    BY <2>1, <2>2
<1>10. \A v \in Workers :
           /\ wpc'[v] \in Busy => job'[v] \in Elements(started') \ finished'
           /\ wpc'[v] \notin Busy => job'[v] = None
  BY <1>1, <1>2, <1>4, <1>5, <1>6 DEF JobsPlaced, Busy
<1>11. \A u, v \in Workers : job'[u] = job'[v] /\ job'[u] # None => u = v
  BY <1>1, <1>4, <1>5, <1>7 DEF JobsPlaced
<1> QED
  BY <1>3, <1>8, <1>9, <1>10, <1>11 DEF JobsPlaced

\* Freeing a job.
LEMMA DonePlaces == ASSUME IInv, NEW w \in Workers, Done(w) PROVE JobsPlaced'
<1>1. JobsPlaced /\ TypeOK
  BY DEF IInv, Types
<1>2. /\ finished' = finished \cup {job[w]}
      /\ job' = [job EXCEPT ![w] = None] /\ wpc' = [wpc EXCEPT ![w] = "check"]
      /\ UNCHANGED <<queued, started, queue>>
      /\ wpc[w] = "done"
  BY DEF Done, mainVars, At
<1>3. job[w] \in Elements(started) \ finished
  BY <1>1, <1>2 DEF JobsPlaced, Busy
<1>4. \A v \in Workers : job'[v] = IF v = w THEN None ELSE job[v]
  BY <1>1, <1>2 DEF TypeOK
<1>5. \A v \in Workers : wpc'[v] = IF v = w THEN "check" ELSE wpc[v]
  BY <1>1, <1>2 DEF TypeOK
<1>6. job[w] # None
  BY <1>3, ElementsIn, NamesDiffer, <1>1 DEF TypeOK
<1>7. \A v \in Workers : wpc'[v] \in Busy => job'[v] \in Elements(started') \ finished'
  BY <1>1, <1>2, <1>4, <1>5, <1>6 DEF JobsPlaced, Busy
<1>8. \A j \in Elements(started') : j \in finished' \/ \E v \in Workers : job'[v] = j
  <2> SUFFICES ASSUME NEW j \in Elements(started), j \notin finished, j # job[w]
               PROVE  \E v \in Workers : job'[v] = j
    BY <1>2
  <2>1. PICK v \in Workers : job[v] = j
    BY <1>1 DEF JobsPlaced
  <2> QED
    BY <2>1, <1>4
<1>9. /\ \A v \in Workers : wpc'[v] \notin Busy => job'[v] = None
      /\ \A u, v \in Workers : job'[u] = job'[v] /\ job'[u] # None => u = v
  BY <1>1, <1>4, <1>5 DEF JobsPlaced
<1> QED
  BY <1>1, <1>2, <1>3, <1>7, <1>8, <1>9 DEF JobsPlaced

\* Every other step leaves the jobs where they are.
LEMMA StepJobsPlaced == IInv /\ [Next]_vars => JobsPlaced'
<1> SUFFICES ASSUME IInv, [Next]_vars PROVE JobsPlaced'
  OBVIOUS
<1> USE DEF mainVars, poolVars, sendVars
<1>0. JobsPlaced /\ TypeOK
  BY DEF IInv, Types
<1>1. ASSUME UNCHANGED <<queued, queue, started, finished, job>>,
             \A w \in Workers : wpc'[w] \in Busy <=> wpc[w] \in Busy
      PROVE  JobsPlaced'
  BY <1>0, <1>1 DEF JobsPlaced
<1>2. ASSUME NEW j \in Jobs, Accept(j) PROVE JobsPlaced'
  BY <1>1, <1>2 DEF Accept
<1>3. ASSUME HandlerFails \/ HandlerLock \/ Signal \/ JoinThreads PROVE JobsPlaced'
  BY <1>1, <1>3 DEF HandlerFails, HandlerLock, Signal, JoinThreads
<1>4. ASSUME CleanupThreads PROVE JobsPlaced'
  BY <1>1, <1>4 DEF CleanupThreads, Busy
<1>5. ASSUME NEW w \in Workers, Wait(w) \/ SpuriousWake(w) \/ Leave(w) PROVE JobsPlaced'
  BY <1>0, <1>1, <1>5 DEF Wait, SpuriousWake, Leave, At, Busy, TypeOK
<1>6. ASSUME NEW w \in Workers, Answer(w), ~ Done(w) PROVE JobsPlaced'
  <2>1. UNCHANGED <<queued, queue, started, finished, job>>
    BY <1>6 DEF Answer, RefuseMissing, DupFails, FstatFails, Announce, SendHeader,
                Read, ReadFails, Send, SendFails, Abort
  <2>2. wpc[w] \in Busy /\ (wpc' = wpc \/ \E p \in Busy : wpc' = [wpc EXCEPT ![w] = p])
    BY <1>6 DEF Answer, RefuseMissing, DupFails, FstatFails, Announce, SendHeader,
                Read, ReadFails, Send, SendFails, Abort, Busy, At
  <2> QED
    BY <1>0, <1>1, <2>1, <2>2 DEF TypeOK
<1>7. CASE UNCHANGED vars
  BY <1>1, <1>7 DEF vars
<1> QED
  BY <1>2, <1>3, <1>4, <1>5, <1>6, <1>7, EnqueuePlaces, PopPlaces, DonePlaces
  DEF Next, MainStep, WorkerStep, Answer, Rest

-----------------------------------------------------------------------------
(* What the clients have received.                                         *)

LEMMA HonestForEach == HonestAnswer <=> \A j \in Jobs : Honest(j)
  BY DEF HonestAnswer, Honest, Answered

LEMMA HonestForEachNext == HonestAnswer' <=> \A j \in Jobs : Honest(j)'
  BY DEF HonestAnswer, Honest, Answered

\* Distinct elements are on one side of the queue's head or on the other.
LEMMA DistinctSides ==
    ASSUME NEW S, NEW s \in Seq(S), NEW t \in Seq(S), Distinct(s \o t)
    PROVE  Elements(s) \cap Elements(t) = {}
<1>1. /\ Len(s \o t) = Len(s) + Len(t) /\ Len(s) \in Nat /\ Len(t) \in Nat
      /\ \A i \in 1 .. Len(s) : (s \o t)[i] = s[i]
      /\ \A i \in 1 .. Len(t) : (s \o t)[Len(s) + i] = t[i]
  OBVIOUS
<1>2. ASSUME NEW i \in 1 .. Len(s), NEW k \in 1 .. Len(t)
      PROVE  s[i] # t[k]
  <2>1. i \in 1 .. Len(s \o t) /\ Len(s) + k \in 1 .. Len(s \o t) /\ i # Len(s) + k
    BY <1>1
  <2> QED
    BY <1>1, <2>1 DEF Distinct
<1> QED
  BY <1>2 DEF Elements

\* A worker's job is nobody else's.
LEMMA OwnJob ==
    ASSUME IInv, NEW w \in Workers, wpc[w] \in Busy
    PROVE  /\ job[w] \notin Elements(queue)
           /\ mpc \in {"lock", "locked"} => mjob # job[w]
           /\ \A v \in Workers \ {w} : wpc[v] \in Busy => job[v] # job[w]
<1>1. /\ started \in Seq(Jobs) /\ queue \in Seq(Jobs) /\ Distinct(started \o queue)
      /\ queued = started \o queue
  BY DEF IInv, Types, TypeOK, JobsPlaced
<1>2. Elements(started) \cap Elements(queue) = {} /\ Elements(started) \subseteq Elements(queued)
  BY <1>1, DistinctSides, ElementsOfConcat
<1>3. job[w] \in Elements(started) /\ job[w] \in Jobs
  BY BusyJob
<1>4. mpc \in {"lock", "locked"} => mjob \notin Elements(queued)
  BY DEF IInv, Phases, Requested, Elements
<1>5. \A v \in Workers \ {w} : job[v] # job[w]
  BY <1>3, NamesDiffer DEF IInv, JobsPlaced
<1> QED
  BY <1>2, <1>3, <1>4, <1>5

\* A step that changes nothing but the answer of a worker's own job.
LEMMA OneAnswer ==
    ASSUME IInv, NEW w \in Workers, wpc[w] \in Busy,
           UNCHANGED <<queue, started, finished, mpc, mjob, job>>,
           \A v \in Workers \ {w} :
               /\ wpc'[v] = wpc[v] /\ offset'[v] = offset[v] /\ buffer'[v] = buffer[v],
           \A j \in Jobs \ {job[w]} : answer'[j] = answer[j] /\ body'[j] = body[j],
           aborted \subseteq aborted',
           body'[job[w]] = [i \in 1 .. Len(body'[job[w]]) |-> i],
           body'[job[w]] # <<>> => answer'[job[w]] = "OK",
           HowFar(w)'
    PROVE  Progress' /\ HonestAnswer'
<1>1. /\ job[w] \in Jobs /\ job[w] \in Elements(started) \ finished
      /\ job[w] \notin Elements(queue)
      /\ mpc \in {"lock", "locked"} => mjob # job[w]
      /\ \A v \in Workers \ {w} : wpc[v] \in Busy => job[v] # job[w]
  BY BusyJob, OwnJob
<1>2. Progress /\ \A j \in Jobs : Honest(j)
  BY HonestForEach DEF IInv
<1>3. /\ \A j \in Elements(queue) : j \in Jobs
      /\ mpc \in {"lock", "locked"} => mjob \in Jobs
      /\ \A v \in Workers : wpc[v] \in Busy => job[v] \in Jobs
  BY BusyJob, ElementsIn DEF IInv, Types, TypeOK, Phases
<1>4. \A j \in Jobs : j \notin Elements(started') => body'[j] = <<>>
  BY <1>1, <1>2 DEF Progress
<1>5. \A j \in Elements(queue') : Untouched(j)'
  BY <1>1, <1>2, <1>3 DEF Progress, Untouched
<1>6. mpc' \in {"lock", "locked"} => Untouched(mjob)'
  BY <1>1, <1>2, <1>3 DEF Progress, Untouched
<1>7. ASSUME NEW v \in Workers PROVE HowFar(v)'
  <2>1. CASE v = w
    BY <2>1
  <2>2. CASE v # w /\ wpc[v] \in Busy
    <3>1. /\ answer'[job[v]] = answer[job[v]] /\ body'[job[v]] = body[job[v]]
          /\ wpc'[v] = wpc[v] /\ offset'[v] = offset[v] /\ buffer'[v] = buffer[v]
          /\ job' = job
      BY <1>1, <1>3, <2>2
    <3> QED
      BY <1>2, <3>1 DEF Progress, HowFar, Untouched, Sending, Answered, NextBytes
  <2>3. CASE v # w /\ wpc[v] \notin Busy
    BY <2>3 DEF HowFar, Busy
  <2> QED
    BY <2>1, <2>2, <2>3
<1>8. ASSUME NEW j \in Jobs PROVE Honest(j)'
  <2>1. CASE j = job[w]
    BY <1>1, <2>1 DEF Honest
  <2>2. CASE j # job[w]
    BY <1>2, <2>2 DEF Honest, Answered
  <2> QED
    BY <2>1, <2>2
<1> QED
  BY <1>4, <1>5, <1>6, <1>7, <1>8, HonestForEachNext DEF Progress

\* Moving the first k elements of one sequence to the end of another.
LEMMA MoveFirst ==
    ASSUME NEW S, NEW s \in Seq(S), NEW t \in Seq(S), NEW k \in 1 .. Len(t)
    PROVE  /\ s \o SubSeq(t, 1, k) \in Seq(S)
           /\ Len(s \o SubSeq(t, 1, k)) = Len(s) + k
           /\ \A i \in 1 .. Len(s) : (s \o SubSeq(t, 1, k))[i] = s[i]
           /\ \A i \in 1 .. k : (s \o SubSeq(t, 1, k))[Len(s) + i] = t[i]
           /\ SubSeq(t, k + 1, Len(t)) \in Seq(S)
           /\ Len(SubSeq(t, k + 1, Len(t))) = Len(t) - k
           /\ \A i \in 1 .. Len(t) - k : SubSeq(t, k + 1, Len(t))[i] = t[k + i]
  OBVIOUS

\* s is the beginning of a body, and t follows behind s.
Begins(s) == \A i \in 1 .. Len(s) : s[i] = i
Follows(s, t) == \A i \in 1 .. Len(t) : t[i] = Len(s) + i

\* What sending k bytes of the chunk makes of the body and of the chunk.
Sent(S, old, chunk, k, new, rest) ==
    /\ new \in Seq(S) /\ Len(new) = Len(old) + k /\ Begins(new)
    /\ rest \in Seq(S) /\ Len(rest) = Len(chunk) - k /\ Follows(new, rest)

\* Sending the first k bytes of a chunk that continues the body.
LEMMA NextChunk ==
    ASSUME NEW S, NEW old \in Seq(S), NEW chunk \in Seq(S), NEW k \in 1 .. Len(chunk),
           Begins(old), Follows(old, chunk),
           NEW new, new = old \o SubSeq(chunk, 1, k),
           NEW rest, rest = SubSeq(chunk, k + 1, Len(chunk))
    PROVE  Sent(S, old, chunk, k, new, rest)
<1>0. /\ \A i \in 1 .. Len(old) : old[i] = i
      /\ \A i \in 1 .. Len(chunk) : chunk[i] = Len(old) + i
  BY DEF Begins, Follows
<1>1. k \in Nat /\ 1 <= k /\ k <= Len(chunk) /\ Len(chunk) \in Nat /\ Len(old) \in Nat
  OBVIOUS
<1>2. /\ new \in Seq(S) /\ Len(new) = Len(old) + k
      /\ \A i \in 1 .. Len(old) : new[i] = old[i]
      /\ \A i \in 1 .. k : new[Len(old) + i] = chunk[i]
      /\ rest \in Seq(S) /\ Len(rest) = Len(chunk) - k
      /\ \A i \in 1 .. Len(chunk) - k : rest[i] = chunk[k + i]
  <2>1. new \in Seq(S) /\ Len(new) = Len(old) + k
    BY MoveFirst
  <2>2. \A i \in 1 .. Len(old) : new[i] = old[i]
    BY MoveFirst
  <2>3. \A i \in 1 .. k : new[Len(old) + i] = chunk[i]
    BY MoveFirst
  <2>4. rest \in Seq(S) /\ Len(rest) = Len(chunk) - k
    BY MoveFirst
  <2>5. \A i \in 1 .. Len(chunk) - k : rest[i] = chunk[k + i]
    BY MoveFirst
  <2> QED
    BY <2>1, <2>2, <2>3, <2>4, <2>5
<1>3. \A i \in 1 .. Len(old) + k :
          i \in 1 .. Len(old) \/ (i - Len(old) \in 1 .. k /\ i = Len(old) + (i - Len(old)))
  BY <1>1
<1>4. ASSUME NEW i \in 1 .. Len(old) + k PROVE new[i] = i
  <2>1. CASE i \in 1 .. Len(old)
    BY <1>0, <1>2, <2>1
  <2>2. CASE i - Len(old) \in 1 .. k /\ i = Len(old) + (i - Len(old))
    <3>1. new[i] = chunk[i - Len(old)] /\ i - Len(old) \in 1 .. Len(chunk)
      BY <1>1, <1>2, <2>2
    <3> QED
      BY <1>0, <1>1, <3>1
  <2> QED
    BY <1>3, <2>1, <2>2
<1>5. ASSUME NEW i \in 1 .. Len(chunk) - k PROVE rest[i] = Len(old) + k + i
  <2>1. rest[i] = chunk[k + i] /\ k + i \in 1 .. Len(chunk)
    BY <1>1, <1>2
  <2> QED
    BY <1>0, <1>1, <2>1
<1> QED
  BY <1>1, <1>2, <1>4, <1>5 DEF Sent, Begins, Follows

\* The answer of a job: its header, its chunks, its end.
LEMMA AnswerProgress ==
    ASSUME IInv, NEW w \in Workers, Answer(w), ~ Done(w)
    PROVE  Progress' /\ HonestAnswer'
<1> DEFINE j == job[w]
<1>0. /\ wpc[w] \in Busy /\ DOMAIN wpc = Workers /\ wpc = [v \in Workers |-> wpc[v]]
      /\ UNCHANGED <<queue, started, finished, mpc, mjob, job>>
      /\ aborted \subseteq aborted'
  <2>1. DOMAIN wpc = Workers /\ wpc = [v \in Workers |-> wpc[v]]
    BY DEF IInv, Types, TypeOK
  <2> QED
    BY <2>1 DEF Answer, RefuseMissing, DupFails, FstatFails, Announce, SendHeader, Read,
                ReadFails, Send, SendFails, Abort, At, Busy, mainVars, poolVars, sendVars
<1>1. /\ j \in Jobs
      /\ answer = [i \in Jobs |-> answer[i]] /\ body \in [Jobs -> Seq(Positions)]
      /\ offset \in [Workers -> Nat] /\ buffer \in [Workers -> Seq(Positions)]
      /\ Size[j] \in Nat \cup {Absent}
      /\ BufferSize \in Nat \ {0}
  <2>1. j \in Jobs
    BY <1>0, BusyJob
  <2> QED
    BY <2>1, MtgfServerAssumption DEF IInv, Types, TypeOK
<1>2. HowFar(w) /\ Honest(j)
  BY <1>1, HonestForEach DEF IInv, Progress
<1>3. ASSUME RefuseMissing(w) \/ DupFails(w) \/ FstatFails(w) \/ Announce(w)
      PROVE  Progress' /\ HonestAnswer'
  <2> USE DEF RefuseMissing, DupFails, FstatFails, Announce, SendHeader
  <2>1. UNCHANGED <<job, offset, buffer, body, aborted>> /\ Untouched(j) /\ offset[w] = 0
    BY <1>2, <1>3 DEF HowFar, At
  <2>2. \A v \in Workers \ {w} : wpc'[v] = wpc[v]
    BY <1>0, <1>3
  <2>3. \A i \in Jobs \ {j} : answer'[i] = answer[i]
    BY <1>1, <1>3
  <2>4. HowFar(w)'
    BY <1>0, <1>1, <1>3, <2>1 DEF HowFar, Untouched, Sending, Answered, At
  <2> QED
    BY <1>0, <1>2, <2>1, <2>2, <2>3, <2>4, OneAnswer DEF Honest, Untouched
<1>4. ASSUME Read(w) PROVE Progress' /\ HonestAnswer'
  <2> DEFINE n == Smaller(BufferSize, Size[j] - offset[w])
             chunk == [i \in 1 .. n |-> offset[w] + i]
  <2>1. Sending(j) /\ offset[w] = Len(body[j]) /\ Len(body[j]) \in Nat
    BY <1>1, <1>2, <1>4 DEF HowFar, Read, At
  <2>2. n \in Nat /\ n <= Size[j] - Len(body[j]) /\ (n = 0 => Len(body[j]) = Size[j])
    BY <1>1, <2>1 DEF Smaller, Sending
  <2>3. Len(chunk) = n
    BY <2>2
  <2>4. chunk = NextBytes(j, n)
    BY <2>1 DEF NextBytes
  <2>5. /\ buffer' = [buffer EXCEPT ![w] = chunk]
        /\ wpc' = [wpc EXCEPT ![w] = IF n = 0 THEN "done" ELSE "send"]
        /\ UNCHANGED <<job, offset, answer, body, aborted>>
    BY <1>4 DEF Read
  <2> HIDE DEF n, chunk
  <2>6. /\ buffer'[w] = chunk
        /\ wpc'[w] = IF n = 0 THEN "done" ELSE "send"
        /\ \A v \in Workers \ {w} : wpc'[v] = wpc[v] /\ buffer'[v] = buffer[v]
    BY <1>0, <1>1, <2>5
  <2>7. HowFar(w)'
    <3>1. CASE n = 0
      BY <2>1, <2>2, <2>5, <2>6, <3>1 DEF HowFar, Answered, Sending
    <3>2. CASE n # 0
      <4>1. n \in 1 .. Size[j] - Len(body[j])
        BY <1>1, <2>1, <2>2, <3>2 DEF Sending
      <4> HIDE DEF j
      <4>2. /\ job'[w] = j /\ answer'[j] = "OK" /\ body'[j] = body[j]
            /\ wpc'[w] = "send" /\ buffer'[w] = chunk
        BY <2>1, <2>5, <2>6, <3>2 DEF j, Sending
      <4>3. /\ Size[j] \in Nat /\ Len(body'[j]) <= Size[j]
            /\ Len(buffer'[w]) \in 1 .. Size[j] - Len(body'[j])
        BY <2>1, <2>3, <4>1, <4>2 DEF Sending
      <4>4. buffer'[w] = [i \in 1 .. Len(buffer'[w]) |-> Len(body'[j]) + i]
        BY <2>3, <2>4, <4>2 DEF NextBytes
      <4> QED
        BY <4>2, <4>3, <4>4 DEF HowFar, Sending, NextBytes
    <3> QED
      BY <3>1, <3>2
  <2>8. body'[j] = [i \in 1 .. Len(body'[j]) |-> i] /\ (body'[j] # <<>> => answer'[j] = "OK")
    BY <1>2, <2>5 DEF Honest
  <2>9. \A i \in Jobs \ {j} : answer'[i] = answer[i] /\ body'[i] = body[i]
    BY <2>5
  <2>10. \A v \in Workers \ {w} : offset'[v] = offset[v]
    BY <2>5
  <2> QED
    BY <1>0, <2>6, <2>7, <2>8, <2>9, <2>10, OneAnswer
<1>5. ASSUME ReadFails(w) \/ SendFails(w) PROVE Progress' /\ HonestAnswer'
  <2>1. wpc' = [wpc EXCEPT ![w] = "abort"] /\ UNCHANGED sendVars
    BY <1>5 DEF ReadFails, SendFails
  <2>2. wpc'[w] = "abort" /\ \A v \in Workers \ {w} : wpc'[v] = wpc[v]
    BY <1>0, <2>1
  <2>3. HowFar(w)'
    BY <2>2 DEF HowFar
  <2> QED
    BY <1>0, <1>2, <2>1, <2>2, <2>3, OneAnswer DEF Honest, sendVars
<1>6. ASSUME Abort(w) PROVE Progress' /\ HonestAnswer'
  <2>1. /\ wpc' = [wpc EXCEPT ![w] = "done"] /\ j \in aborted'
        /\ UNCHANGED <<job, offset, buffer, answer, body>>
    BY <1>6 DEF Abort
  <2>2. wpc'[w] = "done" /\ \A v \in Workers \ {w} : wpc'[v] = wpc[v]
    BY <1>0, <2>1
  <2>3. HowFar(w)'
    BY <2>1, <2>2 DEF HowFar, Answered
  <2> QED
    BY <1>0, <1>2, <2>1, <2>2, <2>3, OneAnswer DEF Honest
<1>7. ASSUME NEW k \in 1 .. Len(buffer[w]), Send(w, k)
      PROVE  Progress' /\ HonestAnswer'
  <2> DEFINE old == body[j]
             chunk == buffer[w]
             new == old \o SubSeq(chunk, 1, k)
             rest == SubSeq(chunk, k + 1, Len(chunk))
  <2>1. Sending(j) /\ Len(chunk) \in 1 .. Size[j] - Len(old) /\ chunk = NextBytes(j, Len(chunk))
    BY <1>2, <1>7 DEF HowFar, Send, At
  <2>2. /\ Size[j] \in Nat /\ old \in Seq(Positions) /\ chunk \in Seq(Positions)
        /\ Begins(old) /\ Follows(old, chunk)
    BY <1>1, <1>2, <2>1 DEF Honest, Sending, NextBytes, Begins, Follows
  <2> HIDE DEF chunk, old
  <2>3. k \in 1 .. Len(chunk)
    BY DEF chunk
  <2>4. /\ new \in Seq(Positions) /\ Len(new) = Len(old) + k
        /\ Begins(new)
        /\ rest \in Seq(Positions) /\ Len(rest) = Len(chunk) - k
        /\ Follows(new, rest)
    <3>1. new = old \o SubSeq(chunk, 1, k) /\ rest = SubSeq(chunk, k + 1, Len(chunk))
      OBVIOUS
    <3> HIDE DEF new, rest
    <3>2. Sent(Positions, old, chunk, k, new, rest)
      BY <2>2, <2>3, <3>1, NextChunk, Zenon
    <3> QED
      BY <3>2 DEF Sent
  <2> HIDE DEF new, rest
  <2>5. /\ new = [i \in 1 .. Len(new) |-> i]
        /\ rest = [i \in 1 .. Len(rest) |-> Len(new) + i]
    <3>1. new = [i \in 1 .. Len(new) |-> new[i]] /\ rest = [i \in 1 .. Len(rest) |-> rest[i]]
      BY <2>4
    <3> QED
      BY <2>4, <3>1, Zenon DEF Begins, Follows
  <2>6. /\ body' = [body EXCEPT ![j] = new]
        /\ buffer' = [buffer EXCEPT ![w] = rest]
        /\ IF k = Len(chunk)
           THEN /\ offset' = [offset EXCEPT ![w] = chunk[k]]
                /\ wpc' = [wpc EXCEPT ![w] = "read"]
           ELSE UNCHANGED <<offset, wpc>>
        /\ UNCHANGED <<job, answer, aborted>>
        /\ wpc[w] = "send"
    BY <1>7 DEF Send, At, chunk, old, new, rest
  <2> HIDE DEF j
  <2>7. /\ body'[j] = new /\ buffer'[w] = rest
        /\ \A i \in Jobs \ {j} : body'[i] = body[i]
        /\ \A v \in Workers \ {w} : /\ wpc'[v] = wpc[v]
                                    /\ offset'[v] = offset[v] /\ buffer'[v] = buffer[v]
    BY <1>0, <1>1, <2>6
  <2>8. job'[w] = j /\ answer'[j] = "OK"
    BY <2>1, <2>6 DEF j, Sending
  <2>9. /\ Len(old) \in Nat /\ Len(chunk) \in Nat /\ Size[j] \in Nat
        /\ Len(chunk) <= Size[j] - Len(old)
        /\ k \in Nat /\ k <= Len(chunk)
    BY <2>1, <2>2, <2>3
  <2>10. HowFar(w)'
    <3>1. CASE k = Len(chunk)
      <4>1. wpc'[w] = "read" /\ offset'[w] = chunk[k]
        BY <1>0, <1>1, <2>6, <3>1
      <4>2. chunk[k] = Len(new)
        BY <2>2, <2>3, <2>4 DEF Follows
      <4>3. Len(new) <= Size[j]
        BY <2>4, <2>9
      <4> QED
        BY <2>7, <2>8, <2>9, <4>1, <4>2, <4>3 DEF HowFar, Sending
    <3>2. CASE k # Len(chunk)
      <4>1. wpc'[w] = "send"
        BY <2>6, <3>2
      <4>2. Len(new) = Len(old) + k /\ Len(rest) = Len(chunk) - k
        BY <2>4
      <4>3. Len(new) <= Size[j] /\ Len(rest) \in 1 .. Size[j] - Len(new)
        BY <2>9, <3>2, <4>2
      <4> QED
        BY <2>5, <2>7, <2>8, <2>9, <4>1, <4>3 DEF HowFar, Sending, NextBytes
    <3> QED
      BY <3>1, <3>2
  <2>11. body'[job[w]] = [i \in 1 .. Len(body'[job[w]]) |-> i] /\ answer'[job[w]] = "OK"
    BY <2>5, <2>7, <2>8 DEF j
  <2> QED
    BY <1>0, <2>6, <2>7, <2>10, <2>11, OneAnswer DEF j
<1> QED
  BY <1>3, <1>4, <1>5, <1>6, <1>7 DEF Answer

\* Freeing a job whose answer is complete.
LEMMA DoneProgress ==
    ASSUME IInv, NEW w \in Workers, Done(w)
    PROVE  Progress' /\ HonestAnswer'
<1>1. /\ wpc[w] = "done" /\ wpc' = [wpc EXCEPT ![w] = "check"]
      /\ finished' = finished \cup {job[w]} /\ job' = [job EXCEPT ![w] = None]
      /\ UNCHANGED <<queue, started, mpc, mjob, offset, buffer, answer, body, aborted>>
  BY DEF Done, At, mainVars, sendVars
<1>2. /\ TypeOK /\ Progress /\ \A j \in Jobs : Honest(j)
  BY HonestForEach DEF IInv, Types
<1>3. ASSUME NEW v \in Workers PROVE HowFar(v)'
  <2>1. CASE v = w
    BY <1>1, <1>2, <2>1 DEF HowFar, TypeOK
  <2>2. CASE v # w
    <3>1. /\ wpc'[v] = wpc[v] /\ job'[v] = job[v]
          /\ offset'[v] = offset[v] /\ buffer'[v] = buffer[v]
      BY <1>1, <1>2, <2>2 DEF TypeOK
    <3>2. HowFar(v) /\ answer' = answer /\ body' = body /\ aborted' = aborted
      BY <1>1, <1>2 DEF Progress
    <3> QED
      BY <3>1, <3>2 DEF HowFar, Untouched, Sending, Answered, NextBytes
  <2> QED
    BY <2>1, <2>2
<1>4. Answered(job[w])
  BY <1>1, <1>2 DEF Progress, HowFar
<1>5. ASSUME NEW j \in Jobs PROVE Honest(j)'
  BY <1>1, <1>2, <1>4 DEF Honest, Answered
<1>6. Progress'
  BY <1>1, <1>2, <1>3 DEF Progress, Untouched
<1> QED
  BY <1>5, <1>6, HonestForEachNext

\* A job that is taken out of the queue has no answer yet.
LEMMA PopProgress ==
    ASSUME IInv, NEW w \in Workers, Pop(w)
    PROVE  Progress' /\ HonestAnswer'
<1> DEFINE h == Head(queue)
<1>1. /\ queue # <<>> /\ queue' = Tail(queue) /\ started' = Append(started, h)
      /\ job' = [job EXCEPT ![w] = h] /\ wpc' = [wpc EXCEPT ![w] = "lookup"]
      /\ offset' = [offset EXCEPT ![w] = 0] /\ buffer' = [buffer EXCEPT ![w] = <<>>]
      /\ UNCHANGED <<finished, answer, body, aborted, mpc, mjob>>
  BY DEF Pop, mainVars
<1>2. /\ TypeOK /\ Progress /\ HonestAnswer /\ \A j \in Jobs : Honest(j)
      /\ offset \in [Workers -> Nat] /\ buffer \in [Workers -> Seq(Positions)]
  BY HonestForEach DEF IInv, Types
<1>3. queue \in Seq(Jobs) /\ started \in Seq(Jobs) /\ h \in Jobs
  BY <1>1, <1>2 DEF TypeOK
<1>4. /\ Elements(queue) = {h} \cup Elements(Tail(queue))
      /\ Elements(Append(started, h)) = Elements(started) \cup {h}
  BY <1>1, <1>3, ElementsOfTail, ElementsOfAppend
<1> HIDE DEF h
<1>5. Untouched(h)
  BY <1>2, <1>4 DEF Progress
<1>6. ASSUME NEW v \in Workers PROVE HowFar(v)'
  <2>1. CASE v = w
    <3>1. wpc'[v] = "lookup" /\ job'[v] = h /\ offset'[v] = 0
      BY <1>1, <1>2, <2>1 DEF TypeOK
    <3> QED
      BY <1>1, <1>5, <3>1 DEF HowFar, Untouched
  <2>2. CASE v # w
    <3>1. /\ wpc'[v] = wpc[v] /\ job'[v] = job[v]
          /\ offset'[v] = offset[v] /\ buffer'[v] = buffer[v]
      BY <1>1, <1>2, <2>2 DEF TypeOK
    <3>2. HowFar(v) /\ answer' = answer /\ body' = body /\ aborted' = aborted
      BY <1>1, <1>2 DEF Progress
    <3> QED
      BY <3>1, <3>2 DEF HowFar, Untouched, Sending, Answered, NextBytes
  <2> QED
    BY <2>1, <2>2
<1>7. Progress'
  BY <1>1, <1>2, <1>4, <1>6 DEF Progress, Untouched
<1>8. ASSUME NEW j \in Jobs PROVE Honest(j)'
  BY <1>1, <1>2 DEF Honest, Answered
<1> QED
  BY <1>7, <1>8, HonestForEachNext

\* The handler: a request becomes a job, or is answered at once.
LEMMA HandlerProgress ==
    ASSUME IInv, HandlerFails \/ Enqueue \/ \E j \in Jobs : Accept(j)
    PROVE  Progress' /\ HonestAnswer'
<1>1. /\ TypeOK /\ Progress /\ Phases /\ JobsPlaced /\ \A j \in Jobs : Honest(j)
  BY HonestForEach DEF IInv, Types
<1>2. \A w \in Workers : wpc[w] \in Busy => job[w] \in Jobs /\ job[w] \in Elements(started)
  BY BusyJob
<1>3. queue \in Seq(Jobs) /\ started \in Seq(Jobs) /\ queued = started \o queue
  BY <1>1 DEF TypeOK, JobsPlaced
<1>4. /\ Elements(started) \subseteq Requested /\ Elements(queue) \subseteq Requested
      /\ Requested \subseteq Jobs
  <2>1. Requested = Elements(queued)
    BY DEF Requested, Elements
  <2> QED
    BY <1>3, <2>1, ElementsOfConcat, ElementsIn
<1>5. CASE HandlerFails
  <2>1. /\ mjob \in Jobs \ Requested /\ Untouched(mjob)
        /\ answer' = [answer EXCEPT ![mjob] = "ERROR"] /\ mpc' = "accept"
        /\ UNCHANGED <<queue, started, finished, wpc, job, offset, buffer, body, aborted>>
    BY <1>1, <1>5 DEF HandlerFails, poolVars, Phases, Progress
  <2>2. \A j \in Jobs : j # mjob => answer'[j] = answer[j]
    BY <1>1, <2>1 DEF TypeOK
  <2>3. answer'[mjob] = "ERROR"
    BY <1>1, <2>1 DEF TypeOK
  <2>4. ASSUME NEW w \in Workers PROVE HowFar(w)'
    <3>1. CASE wpc[w] \in Busy
      <4>1. answer'[job[w]] = answer[job[w]]
        BY <1>2, <1>4, <2>1, <2>2, <3>1
      <4> QED
        BY <1>1, <2>1, <4>1 DEF Progress, HowFar, Untouched, Sending, Answered, NextBytes
    <3>2. CASE wpc[w] \notin Busy
      BY <2>1, <3>2 DEF HowFar, Busy
    <3> QED
      BY <3>1, <3>2
  <2>5. Progress'
    BY <1>1, <1>4, <2>1, <2>2, <2>4 DEF Progress, Untouched
  <2>6. ASSUME NEW j \in Jobs PROVE Honest(j)'
    <3>1. CASE j = mjob
      <4>1. mjob \notin finished
        BY <1>1, <1>4, <2>1 DEF JobsPlaced
      <4> QED
        BY <1>1, <2>1, <3>1, <4>1 DEF Honest, Untouched
    <3>2. CASE j # mjob
      BY <1>1, <2>1, <2>2, <3>2 DEF Honest, Answered
    <3> QED
      BY <3>1, <3>2
  <2> QED
    BY <2>5, <2>6, HonestForEachNext
<1>6. ASSUME UNCHANGED <<started, finished, job, offset, buffer, answer, body, aborted>>,
             \A w \in Workers : wpc'[w] \in Busy => wpc'[w] = wpc[w],
             \A j \in Elements(queue') : Untouched(j),
             mpc' \in {"lock", "locked"} => Untouched(mjob')
      PROVE  Progress' /\ HonestAnswer'
  <2>1. ASSUME NEW w \in Workers PROVE HowFar(w)'
    BY <1>1, <1>6 DEF Progress, HowFar, Busy, Untouched, Sending, Answered, NextBytes
  <2>2. Progress'
    BY <1>1, <1>6, <2>1 DEF Progress, Untouched
  <2>3. ASSUME NEW j \in Jobs PROVE Honest(j)'
    BY <1>1, <1>6 DEF Honest, Answered
  <2> QED
    BY <2>2, <2>3, HonestForEachNext
<1>7. CASE Enqueue
  <2>1. /\ mjob \in Jobs /\ Untouched(mjob)
        /\ queue' = Append(queue, mjob) /\ mpc' = "accept"
        /\ UNCHANGED <<started, finished, job, offset, buffer, answer, body, aborted>>
    BY <1>1, <1>7 DEF Enqueue, sendVars, Phases, Progress
  <2>2. Elements(queue') = Elements(queue) \cup {mjob}
    BY <1>3, <2>1, ElementsOfAppend
  <2>3. \A w \in Workers : wpc'[w] \in Busy => wpc'[w] = wpc[w]
    BY <1>1, <1>7 DEF Enqueue, Signalled, Waiting, Busy, TypeOK
  <2> QED
    BY <1>1, <1>6, <2>1, <2>2, <2>3 DEF Progress
<1>8. ASSUME NEW j \in Jobs, Accept(j) PROVE Progress' /\ HonestAnswer'
  <2>1. /\ mjob' = j /\ j \notin Requested /\ answer[j] = "none"
        /\ UNCHANGED <<queue, started, finished, wpc, job, offset, buffer, answer, body, aborted>>
    BY <1>8 DEF Accept, poolVars, sendVars
  <2>2. Untouched(j)
    BY <1>1, <1>4, <2>1 DEF Progress, Untouched
  <2>3. \A i \in Elements(queue') : Untouched(i)
    BY <1>1, <2>1 DEF Progress
  <2> QED
    BY <1>6, <2>1, <2>2, <2>3
<1> QED
  BY <1>5, <1>7, <1>8

\* No step but those of the answer and the handler matters to the clients.
LEMMA StepProgress == IInv /\ [Next]_vars => Progress' /\ HonestAnswer'
<1> SUFFICES ASSUME IInv, [Next]_vars PROVE Progress' /\ HonestAnswer'
  OBVIOUS
<1>1. TypeOK /\ Progress /\ \A j \in Jobs : Honest(j)
  BY HonestForEach DEF IInv, Types
<1>2. ASSUME UNCHANGED <<queue, started, finished, job, mjob>>, UNCHANGED sendVars,
             mpc' \in {"lock", "locked"} => mpc \in {"lock", "locked"},
             \A w \in Workers : wpc'[w] \in Busy => wpc'[w] = wpc[w]
      PROVE  Progress' /\ HonestAnswer'
  <2>1. ASSUME NEW w \in Workers PROVE HowFar(w)'
    BY <1>1, <1>2 DEF Progress, HowFar, Busy, Untouched, Sending, Answered, NextBytes, sendVars
  <2>2. Progress'
    BY <1>1, <1>2, <2>1 DEF Progress, Untouched, sendVars
  <2>3. ASSUME NEW j \in Jobs PROVE Honest(j)'
    BY <1>1, <1>2 DEF Honest, Answered, sendVars
  <2> QED
    BY <2>2, <2>3, HonestForEachNext
<1>3. ASSUME HandlerLock \/ Signal \/ JoinThreads PROVE Progress' /\ HonestAnswer'
  BY <1>2, <1>3 DEF HandlerLock, Signal, JoinThreads, poolVars
<1>4. ASSUME CleanupThreads PROVE Progress' /\ HonestAnswer'
  BY <1>1, <1>2, <1>4 DEF CleanupThreads, poolVars, Busy, TypeOK
<1>5. ASSUME NEW w \in Workers, Wait(w) \/ SpuriousWake(w) \/ Leave(w)
      PROVE  Progress' /\ HonestAnswer'
  <2>1. \E p \in {"waiting", "check", "left"} : wpc' = [wpc EXCEPT ![w] = p]
    BY <1>5 DEF Wait, SpuriousWake, Leave
  <2>2. \A v \in Workers : wpc'[v] \in Busy => wpc'[v] = wpc[v]
    BY <1>1, <2>1 DEF Busy, TypeOK
  <2> QED
    BY <1>2, <1>5, <2>2 DEF Wait, SpuriousWake, Leave, poolVars, mainVars
<1>6. CASE UNCHANGED vars
  BY <1>2, <1>6 DEF vars, sendVars
<1> QED
  BY <1>3, <1>4, <1>5, <1>6, AnswerProgress, DoneProgress, PopProgress, HandlerProgress
  DEF Next, MainStep, WorkerStep, Rest

-----------------------------------------------------------------------------
(* The theorems.                                                           *)

LEMMA ServerInvariant == Spec => []IInv
<1>1. IInv /\ [Next]_vars => IInv'
  BY StepTypes, StepPhases, StepJobsPlaced, StepProgress DEF IInv
<1> QED
  BY InitIInv, <1>1, PTL DEF Spec

\* The values of all variables stay within their types.
THEOREM ServerTyping == Spec => []TypeOK
<1>1. IInv => TypeOK
  BY DEF IInv, Types
<1> QED
  BY <1>1, ServerInvariant, PTL

\* Every client receives the beginning of its file, in order and once, and a job
\* ends with the whole file, a refusal or an abort (mtgf/handler.c:54-114).
THEOREM ServerHonestAnswer == Spec => []HonestAnswer
<1>1. IInv => HonestAnswer
  BY DEF IInv
<1> QED
  BY <1>1, ServerInvariant, PTL

\* When the workers have all left, every job is finished.
LEMMA AllFinished ==
    ASSUME IInv, \A w \in Workers : wpc[w] = "left"
    PROVE  finished = Elements(queued)
<1>1. /\ queue = <<>> /\ \A w \in Workers : job[w] = None
      /\ queued = started \o queue /\ started \in Seq(Jobs)
      /\ finished \subseteq Elements(started)
      /\ \A j \in Elements(started) : j \in finished \/ \E w \in Workers : job[w] = j
  BY MtgfServerAssumption DEF IInv, Types, TypeOK, Phases, JobsPlaced, Busy
<1>2. queued = started
  BY <1>1, ConcatEmptySeq
<1>3. None \notin Elements(started)
  BY <1>1, ElementsIn, NamesDiffer
<1> QED
  BY <1>1, <1>2, <1>3

\* Every step of the server is a step of the pool, or none.
LEMMA ServerStepPool ==
    ASSUME IInv, [Next]_vars
    PROVE  [Pool!Next]_(Pool!vars)
<1> DEFINE ended == mpc = "gone" /\ signals = 1
<1>0. Types /\ TypeOK /\ Phases /\ JobsPlaced /\ Workers # {}
  BY MtgfServerAssumption DEF IInv, Types
<1>1. ASSUME UNCHANGED <<queued, started, finished, queueingDone>>, ended' = ended
      PROVE  UNCHANGED Pool!vars
  BY <1>1 DEF Pool!vars
<1>2. ASSUME HandlerFails \/ HandlerLock \/ \E j \in Jobs : Accept(j)
      PROVE  UNCHANGED Pool!vars
  BY <1>1, <1>2 DEF HandlerFails, HandlerLock, Accept, poolVars
<1>3. ASSUME Enqueue PROVE Pool!Next
  <2>1. mjob \in Jobs /\ mjob \notin Pool!In(queued) /\ ~ queueingDone
    BY <1>0, <1>3 DEF Enqueue, Phases, Requested, Pool!In
  <2>2. Pool!Queue(mjob)
    BY <1>3, <2>1 DEF Enqueue, Pool!Queue
  <2> QED
    BY <2>1, <2>2 DEF Pool!Next
<1>4. ASSUME Signal PROVE UNCHANGED Pool!vars
  <2>1. signals \in Nat /\ mpc # "gone" /\ signals' = signals + 1
        /\ mpc' = IF signals = 0 THEN "cleanup" ELSE "gone"
    BY <1>0, <1>4, MtgfServerAssumption DEF Signal, TypeOK
  <2>2. ended' = ended
    BY <2>1
  <2> QED
    BY <1>1, <1>4, <2>2 DEF Signal, poolVars
<1>5. ASSUME CleanupThreads PROVE Pool!Next
  BY <1>0, <1>5 DEF CleanupThreads, poolVars, Phases, Pool!Next, Pool!Close
<1>6. ASSUME JoinThreads PROVE Pool!Next
  <2>1. finished = Pool!In(queued)
    BY <1>6, AllFinished DEF JoinThreads, Elements, Pool!In
  <2>2. queueingDone /\ signals = 1
    BY <1>0, <1>6 DEF JoinThreads, Phases
  <2> QED
    BY <1>6, <2>1, <2>2 DEF JoinThreads, poolVars, Pool!Next, Pool!End
<1>7. ASSUME NEW w \in Workers, Wait(w) \/ SpuriousWake(w) \/ Leave(w)
      PROVE  UNCHANGED Pool!vars
  BY <1>1, <1>7 DEF Wait, SpuriousWake, Leave, mainVars, poolVars
<1>8. ASSUME NEW w \in Workers, Pop(w) PROVE Pool!Next
  <2>1. queue \in Seq(Jobs) /\ started \in Seq(Jobs) /\ queue # <<>> /\ queued = started \o queue
    BY <1>0, <1>8 DEF TypeOK, JobsPlaced, Pop
  <2>2. Len(started) < Len(queued) /\ queued[Len(started) + 1] = Head(queue)
    BY <2>1
  <2>3. Pool!Start
    BY <1>8, <2>2 DEF Pop, mainVars, Pool!Start
  <2> QED
    BY <2>3 DEF Pool!Next
<1>9. ASSUME NEW w \in Workers, Answer(w), ~ Done(w) PROVE UNCHANGED Pool!vars
  BY <1>1, <1>9 DEF Answer, RefuseMissing, DupFails, FstatFails, Announce, SendHeader,
     Read, ReadFails, Send, SendFails, Abort, mainVars, poolVars
<1>10. ASSUME NEW w \in Workers, Done(w) PROVE Pool!Next
  <2>1. job[w] \in Jobs /\ job[w] \in Pool!In(started) \ finished
    BY <1>10, BusyJob DEF Done, At, Busy, Elements, Pool!In
  <2>2. Pool!Finish(job[w])
    BY <1>10, <2>1 DEF Done, mainVars, Pool!Finish
  <2> QED
    BY <2>1, <2>2 DEF Pool!Next
<1>11. CASE UNCHANGED vars
  BY <1>1, <1>11 DEF vars
<1> QED
  BY <1>2, <1>3, <1>4, <1>5, <1>6, <1>7, <1>8, <1>9, <1>10, <1>11
  DEF Next, MainStep, WorkerStep, Rest

\* Jobs are started in order, once, and all are finished when cleanup_threads has
\* joined the workers (mtgf/handler.c:40-52, 103-115, 133-147).
THEOREM ServerImplementsJobPool == Spec => ImplementsJobPool
<1>1. Init => Pool!Init
  BY DEF Init, Pool!Init
<1>2. IInv /\ [Next]_vars => [Pool!Next]_(Pool!vars)
  BY ServerStepPool
<1> QED
  BY <1>1, <1>2, ServerInvariant, PTL DEF Spec, ImplementsJobPool, Pool!Spec

=============================================================================
