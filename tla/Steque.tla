------------------------------- MODULE Steque -------------------------------
(***************************************************************************)
(* The queue of every server and client here (steque.c): a list of nodes   *)
(* on the heap with a pointer to both ends and a count.  Its callers hold  *)
(* their own mutex, so that a call is a step.                              *)
(***************************************************************************)
EXTENDS Integers, Sequences

CONSTANTS
    Items,
    Addresses       \* where malloc may put a node: the bound of the length

Null == 0

StequeConstraints == Addresses \subseteq Nat \ {Null}

VARIABLES
    node,       \* node[a]: item and next of the node at a, also after free
    live,       \* the nodes that are allocated
    front, back, N,
    answer,     \* what the last steque_pop returned
    phase       \* "ready", "destroy" (in the loop of steque_destroy), "exited"

stequeVars == <<node, live, front, back, N, answer, phase>>

StequeInit ==
    /\ node \in [Addresses -> {[item |-> i, next |-> Null] : i \in Items}]
    /\ live = {}
    /\ front = Null /\ back = Null /\ N = 0
    /\ answer \in Items
    /\ phase = "ready"

Malloc(a) == a \in Addresses \ live /\ live' = live \cup {a}
Free(a)   == live' = live \ {a}

-----------------------------------------------------------------------------
Enqueue(i) ==
    /\ phase = "ready"
    /\ \E a \in Addresses :
          /\ Malloc(a)
          /\ LET new == [node EXCEPT ![a] = [item |-> i, next |-> Null]]
             IN  IF back = Null
                 THEN node' = new /\ front' = a
                 ELSE node' = [new EXCEPT ![back].next = a] /\ UNCHANGED front
          /\ back' = a
    /\ N' = N + 1
    /\ UNCHANGED <<answer, phase>>

Push(i) ==
    /\ phase = "ready"
    /\ \E a \in Addresses :
          /\ Malloc(a)
          /\ node' = [node EXCEPT ![a] = [item |-> i, next |-> front]]
          /\ back' = IF back = Null THEN a ELSE back
          /\ front' = a
    /\ N' = N + 1
    /\ UNCHANGED <<answer, phase>>

\* Mutant: back keeps its node when that was the last one.
RemoveKeepsBack ==
    /\ front # Null
    /\ answer' = node[front].item
    /\ front' = node[front].next
    /\ Free(front)
    /\ N' = N - 1
    /\ UNCHANGED <<node, back, phase>>

\* steque_pop of a steque whose front is a node.
Remove ==
    /\ front # Null
    /\ answer' = node[front].item
    /\ front' = node[front].next
    /\ back' = IF front' = Null THEN Null ELSE back
    /\ Free(front)
    /\ N' = N - 1
    /\ UNCHANGED <<node, phase>>

Pop == phase = "ready" /\ Remove

\* steque_pop and steque_front of an empty steque end the process.
Underflow ==
    /\ phase # "exited" /\ front = Null
    /\ phase = "destroy" => N # 0
    /\ phase' = "exited"
    /\ UNCHANGED <<node, live, front, back, N, answer>>

Cycle ==
    /\ phase = "ready" /\ back # Null
    /\ LET ring  == [node EXCEPT ![back].next = front]
           after == ring[front].next
       IN  /\ front' = after
           /\ node' = [ring EXCEPT ![front].next = Null]
    /\ back' = front
    /\ UNCHANGED <<live, N, answer, phase>>

\* steque_destroy: while (!steque_isempty(queue)) steque_pop(queue)
Destroy ==
    /\ phase = "ready" /\ phase' = "destroy"
    /\ UNCHANGED <<node, live, front, back, N, answer>>

DestroyPops == phase = "destroy" /\ N # 0 /\ Remove

DestroyEnds ==
    /\ phase = "destroy" /\ N = 0
    /\ phase' = "ready"
    /\ UNCHANGED <<node, live, front, back, N, answer>>

Exited == phase = "exited" /\ UNCHANGED stequeVars

StequeNext ==
    \/ \E i \in Items : Enqueue(i) \/ Push(i)
    \/ Pop \/ Underflow \/ Cycle
    \/ Destroy \/ DestroyPops \/ DestroyEnds
    \/ Exited

-----------------------------------------------------------------------------
\* The nodes from the front on, as many as the count says.
NextOf(a) == IF a \in Addresses THEN node[a].next ELSE Null
Chain ==
    LET at[k \in 0 .. N - 1] == IF k = 0 THEN front ELSE NextOf(at[k - 1])
    IN  [k \in 1 .. N |-> at[k - 1]]

\* The chain ends at back, and its nodes are the allocated ones, each once.
Linked ==
    /\ {Chain[k] : k \in 1 .. N} = live
    /\ \A j, k \in 1 .. N : Chain[j] = Chain[k] => j = k
    /\ IF N = 0 THEN front = Null /\ back = Null
       ELSE back = Chain[N] /\ node[back].next = Null

Broken == <<"broken">>
Contents == IF Linked THEN [k \in 1 .. N |-> node[Chain[k]].item] ELSE Broken

Sequence == INSTANCE Deque WITH contents <- Contents

\* However enqueue, push, pop, cycle and destroy follow each other, the list is
\* the sequence that steque.h promises: the two pointers and the count agree with
\* it, no node is lost, freed twice or used after it was freed (steque.c:11-94).
ImplementsDeque == Sequence!Spec
=============================================================================
