------------------------------- MODULE Deque -------------------------------
(***************************************************************************)
(* What steque.h promises: a stack-ended queue is a sequence of items.     *)
(***************************************************************************)
EXTENDS Sequences

CONSTANT Items

VARIABLES
    contents,   \* the items, from the front to the back
    answer      \* what the last pop returned

Init == contents = <<>>

Enqueue(i) == contents' = Append(contents, i) /\ UNCHANGED answer
Push(i)    == contents' = <<i>> \o contents /\ UNCHANGED answer

Pop ==
    /\ contents # <<>>
    /\ answer' = Head(contents)
    /\ contents' = Tail(contents)

Cycle ==
    /\ contents # <<>>
    /\ contents' = Append(Tail(contents), Head(contents))
    /\ UNCHANGED answer

Next == (\E i \in Items : Enqueue(i) \/ Push(i)) \/ Pop \/ Cycle

Spec == Init /\ [][Next]_<<contents, answer>>
=============================================================================
