------------------------- MODULE ContentMap_proofs -------------------------
(***************************************************************************)
(* The binary search is right for every content file: the comment in its   *)
(* loop is an invariant, and what it returns is exact.                     *)
(***************************************************************************)
EXTENDS ContentMap, TLAPS

\* Every item stems from a line of the file, and every line read has an item.
Faithful ==
    /\ \A i \in DOMAIN items :
          items[i].fildes \in Lines /\ file[items[i].fildes] = items[i].key
    /\ \A l \in Lines : l < nitems => \E i \in DOMAIN items : items[i].fildes = l

\* Lookups begin when the whole file has been read and sorted.
Served ==
    /\ phase = "serving" => nitems \notin Lines /\ IsSorted(items)
    /\ phase # "serving" => \A t \in Threads : pc[t] = "idle"

IInv ==
    /\ TypeOK
    /\ WritesInside
    /\ Faithful
    /\ Served
    /\ KeyInWindow
    /\ GetIsExact

\* The middle of a window lies in it.
LEMMA MidBetween ==
    ASSUME NEW a \in Int, NEW b \in Int, a <= b
    PROVE  a + (b - a) \div 2 \in a .. b
  OBVIOUS

LEMMA InitIInv == Init => IInv
<1> SUFFICES ASSUME Init PROVE IInv
  OBVIOUS
<1> USE ContentMapAssumption DEF Init, Missing
<1>1. TypeOK
  BY DEF TypeOK, Item
<1>2. Faithful
  BY DEF Faithful, Lines
<1> QED
  BY <1>1, <1>2 DEF IInv, WritesInside, Served, KeyInWindow, GetIsExact

\* Reading a line: nobody looks up yet, and the new item is the line's.
LEMMA ReadLineIInv == ASSUME IInv, ReadLine PROVE IInv'
<1> USE DEF IInv, ReadLine, AppendItem, locals
<1>1. TypeOK'
  <2>1. nitems \in Nat /\ nitems' \in Nat /\ capacity' \in Nat
    BY DEF TypeOK
  <2>2. file[nitems] \in Keys
    BY DEF TypeOK, Lines
  <2>3. items' \in [0 .. nitems' - 1 -> Item]
    BY <2>1, <2>2 DEF TypeOK, Item
  <2> QED
    BY <2>1, <2>3 DEF TypeOK
<1>2. WritesInside'
  BY DEF WritesInside, TypeOK
<1>3. Faithful'
  <2>1. nitems \in Nat /\ items \in [0 .. nitems - 1 -> Item]
    BY DEF TypeOK
  <2>2. DOMAIN items' = 0 .. nitems
    OBVIOUS
  <2>3. items'[nitems] = [key |-> file[nitems], fildes |-> nitems]
    BY <2>1
  <2>4. \A i \in DOMAIN items : items'[i] = items[i] /\ i \in DOMAIN items'
    BY <2>1
  <2>5. \A i \in DOMAIN items' : i = nitems \/ i \in DOMAIN items
    BY <2>1, <2>2
  <2>6. Lines' = Lines /\ Lines \subseteq Int
    BY DEF Lines, TypeOK
  <2>7. \A i \in DOMAIN items' :
           items'[i].fildes \in Lines' /\ file'[items'[i].fildes] = items'[i].key
    BY <2>3, <2>4, <2>5, <2>6 DEF Faithful
  <2>8. ASSUME NEW l \in Lines, l < nitems'
        PROVE  \E i \in DOMAIN items' : items'[i].fildes = l
    <3>1. CASE l = nitems
      BY <3>1, <2>1, <2>2, <2>3
    <3>2. CASE l < nitems
      BY <3>2, <2>4 DEF Faithful
    <3> QED
      BY <3>1, <3>2, <2>1, <2>6, <2>8
  <2> QED
    BY <2>6, <2>7, <2>8 DEF Faithful
<1>4. \A t \in Threads : pc'[t] = "idle"
  BY DEF Served
<1>5. Served'
  BY <1>4 DEF Served
<1> QED
  BY <1>1, <1>2, <1>3, <1>4, <1>5 DEF KeyInWindow, GetIsExact

\* Sorting moves items, it neither loses nor invents one.
LEMMA EndOfFileIInv == ASSUME IInv, EndOfFile PROVE IInv'
<1> USE DEF IInv, EndOfFile, locals
<1> PICK p \in Bijection(DOMAIN items, DOMAIN items) :
              items' = [i \in DOMAIN items |-> items[p[i]]]
  OBVIOUS
<1>1. /\ p \in [DOMAIN items -> DOMAIN items]
      /\ \A i \in DOMAIN items : \E j \in DOMAIN items : p[j] = i
  BY DEF Bijection, Surjection
<1>2. DOMAIN items' = DOMAIN items /\ \A i \in DOMAIN items : items'[i] = items[p[i]]
  OBVIOUS
<1>3. TypeOK'
  <2>1. items' \in [0 .. nitems - 1 -> Item]
    BY <1>1, <1>2 DEF TypeOK
  <2> QED
    BY <2>1 DEF TypeOK
<1>4. Lines' = Lines
  BY DEF Lines
<1>5. Faithful'
  <2>1. \A i \in DOMAIN items' :
           items'[i].fildes \in Lines' /\ file'[items'[i].fildes] = items'[i].key
    BY <1>1, <1>2, <1>4 DEF Faithful
  <2>2. ASSUME NEW l \in Lines, l < nitems
        PROVE  \E i \in DOMAIN items' : items'[i].fildes = l
    <3>1. PICK i \in DOMAIN items : items[i].fildes = l
      BY <2>2 DEF Faithful
    <3>2. PICK j \in DOMAIN items : p[j] = i
      BY <1>1
    <3> QED
      BY <1>2, <3>1, <3>2
  <2> QED
    BY <1>4, <2>1, <2>2 DEF Faithful
<1>6. Served'
  BY <1>4 DEF Served
<1>7. \A t \in Threads : pc'[t] = "idle"
  BY DEF Served
<1> QED
  BY <1>3, <1>5, <1>6, <1>7 DEF WritesInside, KeyInWindow, GetIsExact

\* A call starts with the whole table as its window.
LEMMA GetIInv ==
    ASSUME IInv, NEW t \in Threads, NEW k \in Keys, Get(t, k)
    PROVE  IInv'
<1> USE DEF IInv, Get
<1>1. TypeOK'
  BY DEF TypeOK
<1>2. Lines' = Lines
  BY DEF Lines
<1>3. Faithful'
  BY <1>2 DEF Faithful
<1>4. Served'
  BY <1>2 DEF Served, IsSorted
<1>5. KeyInWindow'
  BY DEF KeyInWindow, TypeOK
<1>6. GetIsExact'
  BY <1>2 DEF GetIsExact, TypeOK
<1> QED
  BY <1>1, <1>3, <1>4, <1>5, <1>6 DEF WritesInside

\* A comparison only cuts off items whose keys are on the wrong side.
LEMMA SearchIInv == ASSUME IInv, NEW t \in Threads, Search(t) PROVE IInv'
<1> DEFINE m == Mid(t)
<1>1. /\ nitems \in Nat /\ DOMAIN items = 0 .. nitems - 1
      /\ lo[t] \in Int /\ hi[t] \in Int /\ key[t] \in Int
      /\ \A i \in DOMAIN items :
            i \in Int /\ items[i].key \in Int /\ items[i].fildes \in Nat
  <2>1. nitems \in Nat /\ items \in [0 .. nitems - 1 -> Item]
    BY DEF IInv, TypeOK
  <2>2. lo[t] \in Int /\ hi[t] \in Int /\ key[t] \in Int
    BY ContentMapAssumption DEF IInv, TypeOK
  <2>3. \A i \in DOMAIN items : i \in Int /\ items[i] \in Item
    BY <2>1
  <2> QED
    BY <2>1, <2>2, <2>3, ContentMapAssumption DEF Item
<1>2. pc[t] = "searching" /\ phase = "serving"
  BY DEF Search, GoLeft, GoRight, Found, NotFound, InLoop, IInv, Served
<1>3. UNCHANGED <<file, items, nitems, capacity, phase, key>>
  BY DEF Search, GoLeft, GoRight, Found, NotFound, Return
<1>4. Lines' = Lines
  BY <1>3 DEF Lines
<1>5. IsSorted(items) /\ nitems \notin Lines
  BY <1>2 DEF IInv, Served
<1>6. 0 <= lo[t] /\ hi[t] < nitems
  BY <1>2 DEF IInv, KeyInWindow
<1>7. ASSUME InLoop(t)
      PROVE  m \in DOMAIN items /\ m \in lo[t] .. hi[t]
  <2>1. m \in lo[t] .. hi[t]
    BY <1>1, <1>7, MidBetween DEF InLoop, Mid
  <2> QED
    BY <2>1, <1>1, <1>6
<1>8. TypeOK'
  <2>1. m \in Int
    BY <1>1 DEF Mid
  <2>2. CASE GoLeft(t)
    BY <2>1, <2>2 DEF GoLeft, IInv, TypeOK
  <2>3. CASE GoRight(t)
    BY <2>1, <2>3 DEF GoRight, IInv, TypeOK
  <2>4. CASE Found(t)
    BY <1>1, <1>7, <2>4 DEF Found, Return, IInv, TypeOK
  <2>5. CASE NotFound(t)
    BY <2>5 DEF NotFound, Return, IInv, TypeOK, Missing
  <2> QED
    BY <2>2, <2>3, <2>4, <2>5 DEF Search
<1>9. WritesInside' /\ Faithful' /\ Served'
  <2>1. WritesInside' /\ Faithful'
    BY <1>3, <1>4 DEF IInv, WritesInside, Faithful
  <2> QED
    BY <2>1, <1>2, <1>3, <1>4, <1>5 DEF Served, IsSorted
<1>10. KeyInWindow'
  <2> SUFFICES ASSUME NEW u \in Threads, pc'[u] = "searching"
               PROVE  /\ 0 <= lo'[u] /\ hi'[u] < nitems
                      /\ \A i \in DOMAIN items :
                            items[i].key = key[u] => lo'[u] <= i /\ i <= hi'[u]
    BY <1>3 DEF KeyInWindow
  <2>1. CASE u # t
    <3>1. pc'[u] = pc[u] /\ lo'[u] = lo[u] /\ hi'[u] = hi[u]
      BY <2>1 DEF Search, GoLeft, GoRight, Found, NotFound, Return, IInv, TypeOK
    <3> QED
      BY <3>1 DEF IInv, KeyInWindow
  <2>2. CASE u = t
    <3>0. \A i \in DOMAIN items : items[i].key = key[t] => lo[t] <= i /\ i <= hi[t]
      BY <1>2 DEF IInv, KeyInWindow
    <3>1. CASE GoLeft(t)
      <4>1. lo'[t] = lo[t] /\ hi'[t] = m - 1 /\ key[t] < items[m].key
        BY <3>1 DEF GoLeft, IInv, TypeOK
      <4>2. m \in DOMAIN items /\ m \in lo[t] .. hi[t]
        BY <1>7, <3>1 DEF GoLeft
      <4>3. ASSUME NEW i \in DOMAIN items, items[i].key = key[t]
            PROVE  i <= m - 1
        <5>1. ~ (m < i)
          BY <1>1, <1>5, <4>1, <4>2, <4>3 DEF IsSorted
        <5>2. i # m
          BY <1>1, <4>1, <4>2, <4>3
        <5> QED
          BY <1>1, <4>2, <5>1, <5>2
      <4> QED
        BY <1>1, <1>6, <2>2, <3>0, <4>1, <4>2, <4>3
    <3>2. CASE GoRight(t)
      <4>1. hi'[t] = hi[t] /\ lo'[t] = m + 1 /\ key[t] > items[m].key
        BY <3>2 DEF GoRight, IInv, TypeOK
      <4>2. m \in DOMAIN items /\ m \in lo[t] .. hi[t]
        BY <1>7, <3>2 DEF GoRight
      <4>3. ASSUME NEW i \in DOMAIN items, items[i].key = key[t]
            PROVE  m + 1 <= i
        <5>1. ~ (i < m)
          BY <1>1, <1>5, <4>1, <4>2, <4>3 DEF IsSorted
        <5>2. i # m
          BY <1>1, <4>1, <4>2, <4>3
        <5> QED
          BY <1>1, <4>2, <5>1, <5>2
      <4> QED
        BY <1>1, <1>6, <2>2, <3>0, <4>1, <4>2, <4>3
    <3>3. CASE Found(t) \/ NotFound(t)
      BY <3>3, <2>2 DEF Found, NotFound, Return, IInv, TypeOK
    <3> QED
      BY <3>1, <3>2, <3>3 DEF Search
  <2> QED
    BY <2>1, <2>2
<1>11. GetIsExact'
  <2> SUFFICES ASSUME NEW u \in Threads, pc'[u] = "returned"
               PROVE  \/ result'[u] \in Lines /\ file[result'[u]] = key[u]
                      \/ result'[u] = Missing /\ \A l \in Lines : file[l] # key[u]
    BY <1>3, <1>4 DEF GetIsExact
  <2>1. CASE u # t
    <3>1. pc'[u] = pc[u] /\ result'[u] = result[u]
      BY <2>1 DEF Search, GoLeft, GoRight, Found, NotFound, Return, IInv, TypeOK
    <3> QED
      BY <3>1 DEF IInv, GetIsExact
  <2>2. CASE u = t
    <3>1. CASE GoLeft(t) \/ GoRight(t)
      BY <1>2, <2>2, <3>1 DEF GoLeft, GoRight
    <3>2. CASE Found(t)
      <4>1. m \in DOMAIN items /\ key[t] = items[m].key
        BY <1>7, <3>2 DEF Found
      <4>2. result'[t] = items[m].fildes
        BY <3>2 DEF Found, Return, IInv, TypeOK
      <4> QED
        BY <2>2, <4>1, <4>2 DEF IInv, Faithful
    <3>3. CASE NotFound(t)
      <4>1. result'[t] = Missing /\ lo[t] > hi[t]
        BY <3>3 DEF NotFound, Return, IInv, TypeOK
      <4>2. \A i \in DOMAIN items : items[i].key # key[t]
        BY <1>1, <1>2, <4>1 DEF IInv, KeyInWindow
      <4>3. \A l \in Lines : l < nitems
        <5>1. PICK n \in FileSizes : file \in [0 .. n - 1 -> Keys]
          BY DEF IInv, TypeOK
        <5>2. n \in Nat /\ Lines = 0 .. n - 1
          BY <5>1, ContentMapAssumption DEF Lines
        <5> QED
          BY <1>1, <1>5, <5>2
      <4>4. \A l \in Lines : file[l] # key[t]
        BY <4>2, <4>3 DEF IInv, Faithful
      <4> QED
        BY <2>2, <4>1, <4>4
    <3> QED
      BY <3>1, <3>2, <3>3 DEF Search
  <2> QED
    BY <2>1, <2>2
<1> QED
  BY <1>8, <1>9, <1>10, <1>11 DEF IInv

LEMMA IInvInductive == Spec => []IInv
<1>1. IInv /\ [Next]_vars => IInv'
  <2> SUFFICES ASSUME IInv, [Next]_vars PROVE IInv'
    OBVIOUS
  <2>1. CASE ReadLine
    BY <2>1, ReadLineIInv
  <2>2. CASE EndOfFile
    BY <2>2, EndOfFileIInv
  <2>3. CASE OpenFails
    BY <2>3 DEF OpenFails, locals, IInv, TypeOK, WritesInside, Faithful, Lines,
                Served, KeyInWindow, GetIsExact
  <2>4. CASE UNCHANGED vars
    BY <2>4 DEF vars, IInv, TypeOK, WritesInside, Faithful, Lines,
                Served, IsSorted, KeyInWindow, GetIsExact
  <2>5. ASSUME NEW t \in Threads, NEW k \in Keys, Get(t, k) PROVE IInv'
    BY <2>5, GetIInv
  <2>6. ASSUME NEW t \in Threads, Search(t) PROVE IInv'
    BY <2>6, SearchIInv
  <2> QED
    BY <2>1, <2>2, <2>3, <2>4, <2>5, <2>6 DEF Next, Stopped
<1> QED
  BY <1>1, InitIInv, PTL DEF Spec

\* The values of all variables stay within their types.
THEOREM Typing == Spec => []TypeOK
  BY IInvInductive, PTL DEF IInv

\* The next line of the content file always has an allocated item.
THEOREM LoadingWritesInside == Spec => []WritesInside
  BY IInvInductive, PTL DEF IInv

\* simplecache.c:91, "Key is in items[lo..hi] or not present", holds whenever
\* a thread compares, and the window never leaves the table.
THEOREM SearchKeepsKey == Spec => []KeyInWindow
  BY IInvInductive, PTL DEF IInv

\* simplecache_get returns a file with the requested key, or -1 when no line of
\* the content file has the key.
THEOREM LookupIsExact == Spec => []GetIsExact
  BY IInvInductive, PTL DEF IInv
=============================================================================
