------------------------------ MODULE JobPool ------------------------------
(***************************************************************************)
(* What the boss and the workers of the multithreaded programs promise:    *)
(* jobs start in the order in which they were queued, each one once, none  *)
(* is queued after queueingDone, and the program ends only when none is    *)
(* waiting or running.                                                     *)
(***************************************************************************)
EXTENDS Naturals, Sequences

CONSTANT Jobs

VARIABLES
    queued,     \* every job queued so far, in order
    started,    \* every job started so far, in order
    finished,   \* the jobs that are done
    closed,     \* queueingDone
    ended       \* the workers have been joined

vars == <<queued, started, finished, closed, ended>>

In(s) == {s[i] : i \in 1 .. Len(s)}

Init ==
    /\ queued = <<>> /\ started = <<>> /\ finished = {}
    /\ closed = FALSE /\ ended = FALSE

Queue(j) ==
    /\ ~ closed /\ j \notin In(queued)
    /\ queued' = Append(queued, j)
    /\ UNCHANGED <<started, finished, closed, ended>>

Start ==
    /\ Len(started) < Len(queued)
    /\ started' = Append(started, queued[Len(started) + 1])
    /\ UNCHANGED <<queued, finished, closed, ended>>

Finish(j) ==
    /\ j \in In(started) \ finished
    /\ finished' = finished \cup {j}
    /\ UNCHANGED <<queued, started, closed, ended>>

Close ==
    /\ ~ closed /\ closed' = TRUE
    /\ UNCHANGED <<queued, started, finished, ended>>

End ==
    /\ closed /\ finished = In(queued)
    /\ ended' = TRUE
    /\ UNCHANGED <<queued, started, finished, closed>>

Next == (\E j \in Jobs : Queue(j) \/ Finish(j)) \/ Start \/ Close \/ End

Spec == Init /\ [][Next]_vars
=============================================================================
