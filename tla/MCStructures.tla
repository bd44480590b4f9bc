---------------------------- MODULE MCStructures ----------------------------
(***************************************************************************)
(* The two data structures that all the servers are built on, the table of *)
(* keys and the steque.  They share nothing: a behaviour uses one of them, *)
(* chosen in the initial state, and the other stays as it is created.      *)
(***************************************************************************)
EXTENDS ContentMap

CONSTANTS Items, Addresses      \* of Steque

VARIABLES structure, node, live, front, back, N, answer, stage

S == INSTANCE Steque WITH phase <- stage

ASSUME StructuresAssumption == S!StequeConstraints

stequeVars == <<node, live, front, back, N, answer, stage>>
all == <<structure, vars, stequeVars>>

InitOne ==
    \/ /\ structure = "map" /\ Init
       /\ S!StequeInit /\ answer = CHOOSE i \in Items : TRUE
       /\ \A a \in Addresses : node[a].item = answer
    \/ /\ structure = "steque" /\ S!StequeInit
       /\ Init /\ file = [l \in 0 .. -1 |-> 0]
       /\ \A t \in Threads : key[t] = CHOOSE k \in Keys : TRUE

MapRuns(action) == structure = "map" /\ action /\ UNCHANGED <<structure, stequeVars>>

NextOne ==
    \/ MapRuns(Next)
    \/ structure = "steque" /\ S!StequeNext /\ UNCHANGED <<structure, vars>>

\* ContentMap's fairness: a thread that searches goes on.
FairSpecOne ==
    /\ InitOne /\ [][NextOne]_all
    /\ \A t \in Threads : WF_all(MapRuns(Search(t)))

\* Whatever calls follow each other, the linked list of steque.c is the sequence
\* that steque.h promises (steque.c:11-94).
ImplementsDeque == S!ImplementsDeque
=============================================================================
