-------------------------- MODULE SegmentOwnership --------------------------
(***************************************************************************)
(* What the segment pool of the proxy promises (cache-student.h:68-72),    *)
(* whatever the mutex and the condition variable do underneath: a segment  *)
(* belongs to at most one worker, a worker holds at most one segment, a    *)
(* worker takes a segment only when nobody has it and gives back only the  *)
(* one it holds.                                                           *)
(***************************************************************************)
CONSTANTS
    Segments,   \* the shared memory segments of the pool
    Workers     \* the worker threads of the proxy

VARIABLE owner  \* owner[s]: the set of workers that hold s, at most one

Free(s) == owner[s] = {}

HoldsNothing(w) == \A s \in Segments : w \notin owner[s]

Init == owner = [s \in Segments |-> {}]

Take(w, s) ==
    /\ Free(s)
    /\ HoldsNothing(w)
    /\ owner' = [owner EXCEPT ![s] = {w}]

Drop(w, s) ==
    /\ owner[s] = {w}
    /\ owner' = [owner EXCEPT ![s] = {}]

Next == \E w \in Workers, s \in Segments : Take(w, s) \/ Drop(w, s)

Spec == Init /\ [][Next]_owner
=============================================================================
