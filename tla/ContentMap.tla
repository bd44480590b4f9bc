----------------------------- MODULE ContentMap -----------------------------
(***************************************************************************)
(* The table of keys and open files of the cache (simplecache.c) and of    *)
(* the multithreaded server (mtgf/content.c, the same code).  main reads   *)
(* the content file line by line into a growing array, sorts it, and the   *)
(* worker threads then look keys up by binary search, each with its own    *)
(* lo and hi.  strcmp is the order of the integers; a descriptor is the    *)
(* number of the line whose file it is.  Indices start at 0 as in C.       *)
(***************************************************************************)
EXTENDS Integers, Functions

CONSTANTS
    Keys,               \* the keys that lines and requests may have
    FileSizes,          \* the numbers of lines a content file may have
    InitialCapacity,    \* 14 in simplecache.c, 16 in content.c
    Threads             \* the worker threads

ASSUME ContentMapAssumption ==
    /\ Keys \subseteq Int
    /\ FileSizes \subseteq Nat
    /\ InitialCapacity \in Nat \ {0}

Missing == -1           \* the result for a key that is not in the table

VARIABLES
    file,       \* file[l]: the key of line l of the content file
    items,      \* items[i]: key and descriptor
    nitems,     \* the number of items in use
    capacity,   \* the number of items allocated
    phase,      \* "loading", "serving", or "exited"
    pc,         \* "idle", "searching" or "returned", for every thread
    key, lo, hi,\* the locals of simplecache_get
    result      \* what it returned

vars == <<file, items, nitems, capacity, phase, pc, key, lo, hi, result>>
locals == <<pc, key, lo, hi, result>>

Lines == DOMAIN file
Item == [key : Keys, fildes : Nat]

TypeOK ==
    /\ \E n \in FileSizes : file \in [0 .. n - 1 -> Keys]
    /\ nitems \in Nat
    /\ items \in [0 .. nitems - 1 -> Item]
    /\ capacity \in Nat
    /\ phase \in {"loading", "serving", "exited"}
    /\ pc \in [Threads -> {"idle", "searching", "returned"}]
    /\ key \in [Threads -> Keys]
    /\ lo \in [Threads -> Int] /\ hi \in [Threads -> Int]
    /\ result \in [Threads -> Int]

-----------------------------------------------------------------------------
Init ==
    /\ \E n \in FileSizes : file \in [0 .. n - 1 -> Keys]
    /\ items = [i \in 0 .. -1 |-> 0]
    /\ nitems = 0
    /\ capacity = InitialCapacity
    /\ phase = "loading"
    /\ pc = [t \in Threads |-> "idle"]
    /\ key \in [Threads -> Keys]
    /\ lo = [t \in Threads |-> 0]
    /\ hi = [t \in Threads |-> 0]
    /\ result = [t \in Threads |-> Missing]

AppendItem ==
    items' = [i \in 0 .. nitems |->
                 IF i = nitems THEN [key |-> file[nitems], fildes |-> nitems]
                               ELSE items[i]]

\* Mutant: the array grows only after a line was written behind its end.
ReadLineGrowsLate ==
    /\ phase = "loading"
    /\ nitems \in Lines
    /\ AppendItem
    /\ nitems' = nitems + 1
    /\ capacity' = IF nitems' > capacity THEN 2 * capacity ELSE capacity
    /\ UNCHANGED <<file, phase>> /\ UNCHANGED locals

\* fgets, strsep and open, and the array grows when it is full.
ReadLine ==
    /\ phase = "loading"
    /\ nitems \in Lines
    /\ AppendItem
    /\ nitems' = nitems + 1
    /\ capacity' = IF nitems' = capacity THEN 2 * capacity ELSE capacity
    /\ UNCHANGED <<file, phase>> /\ UNCHANGED locals

\* open fails: the file is gone, the line has no path, or the last line had no
\* newline and lost the last character of its path.
OpenFails ==
    /\ phase = "loading"
    /\ nitems \in Lines
    /\ phase' = "exited"
    /\ UNCHANGED <<file, items, nitems, capacity>> /\ UNCHANGED locals

IsSorted(f) == \A i, j \in DOMAIN f : i < j => f[i].key <= f[j].key

\* Mutant: the table is not sorted.
EndOfFileUnsorted ==
    /\ phase = "loading"
    /\ nitems \notin Lines
    /\ phase' = "serving"
    /\ UNCHANGED <<file, items, nitems, capacity>> /\ UNCHANGED locals

\* fgets finds no more lines: qsort, in some order where keys are equal.
EndOfFile ==
    /\ phase = "loading"
    /\ nitems \notin Lines
    /\ \E p \in Bijection(DOMAIN items, DOMAIN items) :
          items' = [i \in DOMAIN items |-> items[p[i]]]
    /\ IsSorted(items')
    /\ phase' = "serving"
    /\ UNCHANGED <<file, nitems, capacity>> /\ UNCHANGED locals

\* simplecache_get is called.
Get(t, k) ==
    /\ phase = "serving"
    /\ pc[t] \in {"idle", "returned"}
    /\ pc' = [pc EXCEPT ![t] = "searching"]
    /\ key' = [key EXCEPT ![t] = k]
    /\ lo' = [lo EXCEPT ![t] = 0]
    /\ hi' = [hi EXCEPT ![t] = nitems - 1]
    /\ UNCHANGED <<file, items, nitems, capacity, phase, result>>

Mid(t) == lo[t] + (hi[t] - lo[t]) \div 2

InLoop(t) == pc[t] = "searching" /\ lo[t] <= hi[t]

\* Mutant: one item too many is given up.
GoLeftTooFar(t) ==
    /\ InLoop(t)
    /\ key[t] < items[Mid(t)].key
    /\ hi' = [hi EXCEPT ![t] = Mid(t) - 2]
    /\ UNCHANGED <<file, items, nitems, capacity, phase, pc, key, lo, result>>

GoLeft(t) ==
    /\ InLoop(t)
    /\ key[t] < items[Mid(t)].key
    /\ hi' = [hi EXCEPT ![t] = Mid(t) - 1]
    /\ UNCHANGED <<file, items, nitems, capacity, phase, pc, key, lo, result>>

\* Mutant: mid stays in the window.
GoRightToMid(t) ==
    /\ InLoop(t)
    /\ key[t] > items[Mid(t)].key
    /\ lo' = [lo EXCEPT ![t] = Mid(t)]
    /\ UNCHANGED <<file, items, nitems, capacity, phase, pc, key, hi, result>>

GoRight(t) ==
    /\ InLoop(t)
    /\ key[t] > items[Mid(t)].key
    /\ lo' = [lo EXCEPT ![t] = Mid(t) + 1]
    /\ UNCHANGED <<file, items, nitems, capacity, phase, pc, key, hi, result>>

Return(t, fildes) ==
    /\ result' = [result EXCEPT ![t] = fildes]
    /\ pc' = [pc EXCEPT ![t] = "returned"]
    /\ UNCHANGED <<file, items, nitems, capacity, phase, key, lo, hi>>

\* The lseek of simplecache_get is left out: every reader uses pread.
Found(t) ==
    /\ InLoop(t)
    /\ key[t] = items[Mid(t)].key
    /\ Return(t, items[Mid(t)].fildes)

NotFound(t) ==
    /\ pc[t] = "searching"
    /\ lo[t] > hi[t]
    /\ Return(t, Missing)

Search(t) == GoLeft(t) \/ GoRight(t) \/ Found(t) \/ NotFound(t)

\* The program has stopped, or main serves for ever.
Stopped == phase = "exited" /\ UNCHANGED vars

Next ==
    \/ ReadLine \/ OpenFails \/ EndOfFile \/ Stopped
    \/ \E t \in Threads : (\E k \in Keys : Get(t, k)) \/ Search(t)

Spec == Init /\ [][Next]_vars
FairSpec == Spec /\ \A t \in Threads : WF_vars(Search(t))

-----------------------------------------------------------------------------
\* The next line is read into allocated memory (simplecache.c:52, after the
\* growth at lines 67-70).
WritesInside == phase = "loading" => nitems < capacity

\* "Key is in items[lo..hi] or not present", the comment at simplecache.c:91,
\* for every thread, and the window stays inside the table.
KeyInWindow ==
    \A t \in Threads : pc[t] = "searching" =>
        /\ 0 <= lo[t] /\ hi[t] < nitems
        /\ \A i \in DOMAIN items :
              items[i].key = key[t] => lo[t] <= i /\ i <= hi[t]

\* A lookup returns the file of a line with the requested key, and reports a
\* key as missing only when no line of the content file has it.
GetIsExact ==
    \A t \in Threads : pc[t] = "returned" =>
        \/ result[t] \in Lines /\ file[result[t]] = key[t]
        \/ result[t] = Missing /\ \A l \in Lines : file[l] # key[t]

\* Every lookup returns: the window shrinks at every comparison.
LookupReturns ==
    \A t \in Threads : pc[t] = "searching" ~> pc[t] = "returned"
=============================================================================
