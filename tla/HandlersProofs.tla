---------------------------- MODULE HandlersProofs ----------------------------
(***************************************************************************)
(* Proofs about Handlers.tla, for any methods and any number of handlers.  *)
(***************************************************************************)
EXTENDS Handlers, NaturalProofs, SequenceTheorems, TLAPS

-----------------------------------------------------------------------------
(* The inductive invariant.                                                *)

\* The array is in the order of the methods, which bsearch relies on.
InOrder(array) ==
    \A i, k \in 1..Len(array) : i < k => array[i].method <= array[k].method

Inv ==
    /\ TypeOK
    /\ InOrder(handlers)
    /\ DataLivesWhileRegistered

-----------------------------------------------------------------------------
(* bsearch: the recursion in Bsearch has a solution, and the solution finds *)
(* a method in a sorted array if it is in it.                              *)

Ranges(array) == (0..Len(array)) \X (0..Len(array))

\* One comparison, with the rest of the search as a function.
Compare(rest, array, m, r) ==
    LET mid == (r[1] + r[2]) \div 2 IN
    IF r[1] >= r[2] THEN 0
    ELSE IF m = array[mid + 1].method THEN mid + 1
    ELSE IF m < array[mid + 1].method THEN rest[<<r[1], mid>>]
    ELSE rest[<<mid + 1, r[2]>>]

\* What a search makes of a range.
Search(array, m) ==
    CHOOSE rest : rest = [r \in Ranges(array) |-> Compare(rest, array, m, r)]

LEMMA BsearchIsSearch ==
    ASSUME NEW array, NEW m
    PROVE  Bsearch(array, m) = Search(array, m)[<<0, Len(array)>>]
BY DEF Bsearch, Search, Ranges, Compare


\* The ranges that are left to search are shorter.
LEMMA Halves ==
    ASSUME NEW lo \in Nat, NEW hi \in Nat, lo < hi
    PROVE  /\ (lo + hi) \div 2 \in Nat
           /\ lo <= (lo + hi) \div 2 /\ (lo + hi) \div 2 < hi
OBVIOUS

\* A comparison asks nothing but what becomes of shorter ranges.
LEMMA CompareAgrees ==
    ASSUME NEW S, NEW array \in Seq(S), NEW m, NEW r \in Ranges(array),
           NEW f, NEW g,
           \A q \in Ranges(array) : q[2] - q[1] < r[2] - r[1] => f[q] = g[q]
    PROVE  Compare(f, array, m, r) = Compare(g, array, m, r)
<1>1. r[1] \in 0..Len(array) /\ r[2] \in 0..Len(array) /\ Len(array) \in Nat
    BY DEF Ranges
<1>2. CASE r[1] >= r[2]
    BY <1>2 DEF Compare
<1>3. CASE r[1] < r[2]
  <2>1. PICK mid : mid = (r[1] + r[2]) \div 2
    OBVIOUS
  <2>2. mid \in Nat /\ r[1] <= mid /\ mid < r[2]
    BY <1>1, <1>3, <2>1, Halves
  <2>3. PICK a : a = <<r[1], mid>>
    OBVIOUS
  <2>4. PICK b : b = <<mid + 1, r[2]>>
    OBVIOUS
  <2>5. a \in Ranges(array) /\ a[2] - a[1] < r[2] - r[1]
    BY <1>1, <2>2, <2>3 DEF Ranges
  <2>6. b \in Ranges(array) /\ b[2] - b[1] < r[2] - r[1]
    BY <1>1, <2>2, <2>4 DEF Ranges
  <2>7. f[a] = g[a] /\ f[b] = g[b]
    BY <2>5, <2>6
  <2>. QED
    BY <2>1, <2>3, <2>4, <2>7 DEF Compare
<1>. QED
    BY <1>1, <1>2, <1>3

\* There is a function that does what the recursion says, for all ranges: by
\* induction over their length.
LEMMA SearchExists ==
    ASSUME NEW S, NEW array \in Seq(S), NEW m
    PROVE  Search(array, m) =
               [r \in Ranges(array) |-> Compare(Search(array, m), array, m, r)]
<1>. DEFINE Solves(f, n) ==
              \A r \in Ranges(array) :
                  r[2] - r[1] <= n => f[r] = Compare(f, array, m, r)
            Good(n) == \E f : f = [r \in Ranges(array) |-> f[r]] /\ Solves(f, n)
            Bad == {n \in Nat : ~Good(n)}
<1>1. Bad = {}
  <2>. SUFFICES ASSUME Bad # {} PROVE FALSE
    OBVIOUS
  <2>1. PICK n \in Bad : \A k \in Bad : n <= k
    BY LeastNumber
  <2>2. CASE n = 0
    <3>1. PICK f : f = [r \in Ranges(array) |-> 0]
        OBVIOUS
    <3>2. ASSUME NEW r \in Ranges(array), r[2] - r[1] <= 0
          PROVE  f[r] = Compare(f, array, m, r)
      <4>1. r[1] \in Nat /\ r[2] \in Nat
        BY DEF Ranges
      <4>. QED
        BY <3>1, <3>2, <4>1 DEF Compare
    <3>3. f = [r \in Ranges(array) |-> f[r]]
        BY <3>1
    <3>4. Good(0)
        BY <3>2, <3>3
    <3>. QED
        BY <2>1, <2>2, <3>4
  <2>3. CASE n # 0
    <3>1. n \in Nat /\ n - 1 \in Nat /\ ~(n <= n - 1)
        BY <2>1, <2>3
    <3>2. PICK f : f = [r \in Ranges(array) |-> f[r]] /\ Solves(f, n - 1)
        BY <2>1, <3>1
    <3>3. PICK g : g = [r \in Ranges(array) |-> Compare(f, array, m, r)]
        OBVIOUS
    <3>4. ASSUME NEW r \in Ranges(array), r[2] - r[1] <= n
          PROVE  g[r] = Compare(g, array, m, r)
      <4>1. r[1] \in Int /\ r[2] \in Int
        BY DEF Ranges
      <4>2. ASSUME NEW q \in Ranges(array), q[2] - q[1] < r[2] - r[1]
            PROVE  f[q] = g[q]
        <5>1. q[1] \in Int /\ q[2] \in Int
            BY DEF Ranges
        <5>2. q[2] - q[1] <= n - 1
            BY <3>1, <3>4, <4>1, <4>2, <5>1
        <5>. QED
            BY <3>2, <3>3, <5>2
      <4>3. Compare(f, array, m, r) = Compare(g, array, m, r)
        BY <4>2, CompareAgrees
      <4>. QED
        BY <3>3, <4>3
    <3>5. g = [r \in Ranges(array) |-> g[r]]
        BY <3>3
    <3>6. Good(n)
        BY <3>4, <3>5
    <3>. QED
        BY <2>1, <3>6
  <2>. QED
    BY <2>2, <2>3
<1>2. Good(Len(array))
  <2>1. Len(array) \in Nat
    OBVIOUS
  <2>. HIDE DEF Good
  <2>. QED
    BY <1>1, <2>1
<1>. HIDE DEF Bad
<1>3. PICK f : f = [r \in Ranges(array) |-> f[r]] /\ Solves(f, Len(array))
    BY <1>2
<1>4. \A r \in Ranges(array) : f[r] = Compare(f, array, m, r)
  <2>1. ASSUME NEW r \in Ranges(array) PROVE r[2] - r[1] <= Len(array)
    BY DEF Ranges
  <2>. QED
    BY <1>3, <2>1
<1>5. f = [r \in Ranges(array) |-> Compare(f, array, m, r)]
    BY <1>3, <1>4
<1>. QED
    BY <1>5 DEF Search

\* What bsearch finds in a sorted array has the method, and it finds nothing
\* only if no element has the method: by induction over the range.
LEMMA BsearchFinds ==
    ASSUME NEW array \in Seq(Handler), InOrder(array), NEW m \in Methods
    PROVE  /\ Bsearch(array, m) \in 0..Len(array)
           /\ Bsearch(array, m) # 0 => array[Bsearch(array, m)].method = m
           /\ Bsearch(array, m) = 0 =>
                  \A i \in 1..Len(array) : array[i].method # m
<1>. DEFINE f == Search(array, m)
            Right(r) ==
              /\ f[r] \in 0..Len(array)
              /\ f[r] # 0 => array[f[r]].method = m
              /\ f[r] = 0 => \A i \in (r[1] + 1)..r[2] : array[i].method # m
            Bad == {n \in Nat : \E r \in Ranges(array) :
                                    r[2] - r[1] <= n /\ ~Right(r)}
<1>1. f = [r \in Ranges(array) |-> Compare(f, array, m, r)]
    BY SearchExists
<1>2. /\ Len(array) \in Nat
      /\ \A i \in 1..Len(array) : array[i].method \in Nat
      /\ m \in Nat
  <2>1. \A i \in 1..Len(array) : array[i] \in Handler
    BY ElementOfSeq
  <2>2. Len(array) \in Nat
    OBVIOUS
  <2>. QED
    BY <2>1, <2>2, MethodsAssumption DEF Handler
<1>3. ASSUME NEW r \in Ranges(array),
             r[1] < r[2] => \A q \in Ranges(array) :
                                q[2] - q[1] < r[2] - r[1] => Right(q)
      PROVE  Right(r)
  <2>1. PICK lo \in 0..Len(array), hi \in 0..Len(array) :
            r = <<lo, hi>> /\ lo = r[1] /\ hi = r[2]
    BY DEF Ranges
  <2>2. f[r] = Compare(f, array, m, r)
    BY <1>1
  <2>3. CASE lo >= hi
    <3>1. f[r] = 0
        BY <2>1, <2>2, <2>3 DEF Compare
    <3>2. \A i \in (lo + 1)..hi : FALSE
        BY <1>2, <2>1, <2>3
    <3>. QED
        BY <1>2, <2>1, <3>1, <3>2
  <2>4. CASE lo < hi
    <3>1. PICK mid : mid = (lo + hi) \div 2
        OBVIOUS
    <3>2. mid \in Nat /\ lo <= mid /\ mid < hi /\ mid + 1 \in 1..Len(array)
        BY <1>2, <2>1, <2>4, <3>1, Halves
    <3>3. CASE m = array[mid + 1].method
      <4>1. f[r] = mid + 1
        BY <2>1, <2>2, <2>4, <3>1, <3>3 DEF Compare
      <4>. QED
        BY <1>2, <3>2, <3>3, <4>1
    <3>4. CASE m < array[mid + 1].method
      <4>1. PICK q : q = <<lo, mid>>
        OBVIOUS
      <4>2. q \in Ranges(array) /\ q[1] = lo /\ q[2] = mid /\ q[2] - q[1] < r[2] - r[1]
        BY <1>2, <2>1, <2>4, <3>2, <4>1 DEF Ranges
      <4>3. f[r] = f[q]
        BY <1>2, <2>1, <2>2, <2>4, <3>1, <3>2, <3>4, <4>1 DEF Compare
      <4>4. Right(q)
        BY <1>3, <2>1, <2>4, <4>2
      <4>5. \A i \in (mid + 1)..hi : array[i].method # m
        <5>1. ASSUME NEW i \in (mid + 1)..hi PROVE array[i].method # m
          <6>1. i \in 1..Len(array) /\ (i = mid + 1 \/ mid + 1 < i)
            BY <1>2, <2>1, <3>2
          <6>2. array[mid + 1].method <= array[i].method
            BY <1>2, <3>2, <6>1 DEF InOrder
          <6>. QED
            BY <1>2, <3>2, <3>4, <6>1, <6>2
        <5>. QED
            BY <5>1
      <4>6. ASSUME f[r] = 0, NEW i \in (lo + 1)..hi PROVE array[i].method # m
        <5>1. i \in (lo + 1)..mid \/ i \in (mid + 1)..hi
            BY <2>1, <3>2
        <5>. QED
            BY <4>2, <4>3, <4>4, <4>5, <4>6, <5>1
      <4>. QED
        BY <2>1, <4>3, <4>4, <4>6
    <3>5. CASE m > array[mid + 1].method
      <4>1. PICK q : q = <<mid + 1, hi>>
        OBVIOUS
      <4>2. q \in Ranges(array) /\ q[1] = mid + 1 /\ q[2] = hi
            /\ q[2] - q[1] < r[2] - r[1]
        BY <1>2, <2>1, <2>4, <3>2, <4>1 DEF Ranges
      <4>3. f[r] = f[q]
        BY <1>2, <2>1, <2>2, <2>4, <3>1, <3>2, <3>5, <4>1 DEF Compare
      <4>4. Right(q)
        BY <1>3, <2>1, <2>4, <4>2
      <4>5. \A i \in (lo + 1)..(mid + 1) : array[i].method # m
        <5>1. ASSUME NEW i \in (lo + 1)..(mid + 1) PROVE array[i].method # m
          <6>1. i \in 1..Len(array) /\ (i = mid + 1 \/ i < mid + 1)
            BY <1>2, <2>1, <3>2
          <6>2. array[i].method <= array[mid + 1].method
            BY <1>2, <3>2, <6>1 DEF InOrder
          <6>. QED
            BY <1>2, <3>2, <3>5, <6>1, <6>2
        <5>. QED
            BY <5>1
      <4>6. ASSUME f[r] = 0, NEW i \in (lo + 1)..hi PROVE array[i].method # m
        <5>1. i \in (lo + 1)..(mid + 1) \/ i \in (mid + 1 + 1)..hi
            BY <2>1, <3>2
        <5>. QED
            BY <4>2, <4>3, <4>4, <4>5, <4>6, <5>1
      <4>. QED
        BY <2>1, <4>3, <4>4, <4>6
    <3>6. array[mid + 1].method \in Nat
        BY <1>2, <3>2
    <3>. QED
        BY <1>2, <3>3, <3>4, <3>5, <3>6
  <2>. QED
    BY <2>1, <2>3, <2>4
<1>. HIDE DEF f, Right
<1>4. Bad = {}
  <2>. SUFFICES ASSUME Bad # {} PROVE FALSE
    OBVIOUS
  <2>1. PICK n \in Bad : \A k \in Bad : n <= k
    BY LeastNumber
  <2>2. n \in Nat
    OBVIOUS
  <2>3. PICK r \in Ranges(array) : r[2] - r[1] <= n /\ ~Right(r)
    OBVIOUS
  <2>4. r[1] \in Int /\ r[2] \in Int
    BY DEF Ranges
  <2>5. PICK q \in Ranges(array) :
            r[1] < r[2] /\ q[2] - q[1] < r[2] - r[1] /\ ~Right(q)
    BY <1>3, <2>3
  <2>6. q[1] \in Nat /\ q[2] \in Nat
    BY DEF Ranges
  <2>7. n - 1 \in Nat /\ q[2] - q[1] <= n - 1 /\ ~(n <= n - 1)
    BY <2>2, <2>3, <2>4, <2>5, <2>6
  <2>8. n - 1 \in Bad
    BY <2>5, <2>7
  <2>. QED
    BY <2>1, <2>7, <2>8
<1>5. PICK all : all = <<0, Len(array)>>
    OBVIOUS
<1>6. /\ all \in Ranges(array) /\ all[1] = 0 /\ all[2] = Len(array)
      /\ all[2] - all[1] = Len(array)
    BY <1>2, <1>5 DEF Ranges
<1>7. Right(all)
  <2>1. ~(\E r \in Ranges(array) : r[2] - r[1] <= Len(array) /\ ~Right(r))
    BY <1>2, <1>4
  <2>. QED
    BY <1>2, <1>6, <2>1
<1>8. Bsearch(array, m) = f[all]
    BY <1>5, BsearchIsSearch DEF f
<1>. QED
    BY <1>6, <1>7, <1>8 DEF Right

-----------------------------------------------------------------------------
(* The operations on the array.                                            *)

Elements(array) == {array[i] : i \in 1..Len(array)}

Distinct(array) ==
    \A i, k \in 1..Len(array) : array[i].id = array[k].id => i = k

\* g_array_sort permutes an array and puts it in order.
LEMMA SortedFacts ==
    ASSUME NEW array \in Seq(Handler), NEW b \in Sorted(array)
    PROVE  /\ b \in Seq(Handler) /\ InOrder(b)
           /\ Elements(b) = Elements(array)
           /\ Distinct(array) => Distinct(b)
<1>1. PICK n \in Nat : n = Len(array)
    OBVIOUS
<1>2. PICK p \in [1..n -> 1..n] :
          /\ \A k \in 1..n : \E i \in 1..n : p[i] = k
          /\ \A i, j \in 1..n : i < j =>
                \/ ByMethod(array[p[i]], array[p[j]])
                \/ ~ByMethod(array[p[j]], array[p[i]]) /\ p[i] < p[j]
          /\ b = [i \in 1..n |-> array[p[i]]]
    BY <1>1 DEF Sorted
<1>3. \A i \in 1..n : array[i] \in Handler /\ array[i].method \in Nat
  <2>1. \A i \in 1..n : array[i] \in Handler
    BY <1>1, ElementOfSeq
  <2>. QED
    BY <2>1, MethodsAssumption DEF Handler
<1>4. \A i \in 1..n : p[i] \in 1..n /\ b[i] = array[p[i]]
    BY <1>2
<1>5. \A i \in 1..n : b[i] \in Handler /\ b[i].method \in Nat
    BY <1>3, <1>4
<1>6. b \in Seq(Handler) /\ Len(b) = n
  <2>1. b \in [1..n -> Handler]
    BY <1>2, <1>5
  <2>. QED
    BY <2>1
<1>7. ASSUME NEW i \in 1..n, NEW j \in 1..n, i < j
      PROVE  b[i].method <= b[j].method /\ p[i] # p[j]
  <2>1. PICK u \in Nat, v \in Nat : u = p[i] /\ v = p[j]
    BY <1>4
  <2>2. u \in 1..n /\ v \in 1..n /\ b[i] = array[u] /\ b[j] = array[v]
    BY <1>4, <2>1
  <2>3. PICK x \in Nat, y \in Nat : x = array[u].method /\ y = array[v].method
    BY <1>3, <2>2
  <2>4. \/ ByMethod(array[u], array[v])
        \/ ~ByMethod(array[v], array[u]) /\ u < v
    BY <1>2, <1>7, <2>1
  <2>5. x < y \/ (~(y < x) /\ u < v)
    BY <2>3, <2>4 DEF ByMethod
  <2>6. u = v => x = y
    BY <2>3
  <2>7. x <= y /\ u # v
    BY <2>5, <2>6
  <2>. QED
    BY <2>1, <2>2, <2>3, <2>7
<1>8. InOrder(b)
    BY <1>6, <1>7 DEF InOrder
<1>9. Elements(b) = Elements(array)
  <2>1. \A i \in 1..n : \E k \in 1..n : b[i] = array[k]
    BY <1>4
  <2>2. \A k \in 1..n : \E i \in 1..n : b[i] = array[k]
    BY <1>1, <1>2, <1>4
  <2>3. Elements(b) = {b[i] : i \in 1..n}
    BY <1>6 DEF Elements
  <2>4. Elements(array) = {array[k] : k \in 1..n}
    BY <1>1 DEF Elements
  <2>. QED
    BY <2>1, <2>2, <2>3, <2>4
<1>10. ASSUME Distinct(array), NEW i \in 1..n, NEW j \in 1..n, b[i].id = b[j].id
       PROVE  i = j
  <2>1. p[i] = p[j]
    BY <1>1, <1>4, <1>10 DEF Distinct
  <2>. QED
    BY <1>7, <2>1
<1>11. Distinct(array) => Distinct(b)
    BY <1>6, <1>10 DEF Distinct
<1>. QED
    BY <1>6, <1>8, <1>9, <1>11

\* There is always a result: the new handler gets behind all handlers whose
\* method is not greater.
LEMMA SortedExists ==
    ASSUME NEW array \in Seq(Handler), InOrder(array), NEW h \in Handler
    PROVE  Sorted(Append(array, h)) # {}
<1>1. PICK n \in Nat : n = Len(array)
    OBVIOUS
<1>2. PICK a : a = Append(array, h)
    OBVIOUS
<1>3. /\ a \in Seq(Handler) /\ Len(a) = n + 1 /\ a[n + 1] = h
      /\ \A i \in 1..n : a[i] = array[i]
    BY <1>1, <1>2
<1>4. \A i \in 1..(n + 1) : a[i].method \in Nat
  <2>1. \A i \in 1..(n + 1) : a[i] \in Handler
    BY <1>3, ElementOfSeq
  <2>. QED
    BY <2>1, MethodsAssumption DEF Handler
<1>5. PICK k \in 1..(n + 1) :
          /\ \A i \in 1..(k - 1) : a[i].method <= h.method
          /\ \A i \in k..n : h.method < a[i].method
  <2>. DEFINE T == {i \in 1..(n + 1) : i = n + 1 \/ h.method < a[i].method}
  <2>1. T \in SUBSET Nat /\ n + 1 \in T
    OBVIOUS
  <2>2. PICK k \in T : \A i \in T : k <= i
    BY <2>1, LeastNumber
  <2>3. ASSUME NEW i \in 1..(k - 1) PROVE a[i].method <= h.method
    <3>1. i \in 1..(n + 1) /\ i # n + 1 /\ ~(k <= i) /\ h = a[n + 1]
        BY <1>3, <2>2
    <3>. QED
        BY <1>4, <2>2, <3>1
  <2>4. ASSUME NEW i \in k..n PROVE h.method < a[i].method
    <3>1. /\ i \in 1..n /\ k \in 1..n /\ i \in 1..(n + 1) /\ k \in 1..(n + 1)
          /\ n + 1 \in 1..(n + 1) /\ h = a[n + 1]
        BY <1>3, <2>2
    <3>2. h.method < a[k].method
        BY <2>2, <3>1
    <3>3. a[k].method <= a[i].method
      <4>1. i = k \/ (k < i /\ a[i] = array[i] /\ a[k] = array[k])
        BY <1>3, <3>1
      <4>2. CASE i = k
        BY <1>4, <3>1, <4>2
      <4>3. CASE k < i
        BY <1>1, <3>1, <4>1, <4>3 DEF InOrder
      <4>. QED
        BY <4>1, <4>2, <4>3
    <3>. QED
        BY <1>4, <3>1, <3>2, <3>3
  <2>. QED
    BY <2>2, <2>3, <2>4
<1>6. PICK p : p = [i \in 1..(n + 1) |->
                      IF i < k THEN i ELSE IF i = k THEN n + 1 ELSE i - 1]
    OBVIOUS
<1>7. p \in [1..(n + 1) -> 1..(n + 1)]
    BY <1>6
<1>8. ASSUME NEW j \in 1..(n + 1) PROVE \E i \in 1..(n + 1) : p[i] = j
  <2>1. CASE j < k
    BY <1>6, <2>1
  <2>2. CASE j = n + 1
    BY <1>6, <2>2
  <2>3. CASE k <= j /\ j < n + 1
    <3>1. j + 1 \in 1..(n + 1) /\ p[j + 1] = j
        BY <1>6, <2>3
    <3>. QED
        BY <3>1
  <2>. QED
    BY <2>1, <2>2, <2>3
<1>9. ASSUME NEW i \in 1..(n + 1), NEW j \in 1..(n + 1), i < j
      PROVE  \/ a[p[i]].method < a[p[j]].method
             \/ ~(a[p[j]].method < a[p[i]].method) /\ p[i] < p[j]
  <2>1. \A x, y \in 1..n : x < y => a[x].method <= a[y].method
    BY <1>1, <1>3 DEF InOrder
  <2>2. CASE i = k
    <3>1. p[i] = n + 1 /\ p[j] = j - 1 /\ j - 1 \in k..n
        BY <1>6, <1>9, <2>2
    <3>. QED
        BY <1>3, <1>5, <3>1
  <2>3. CASE j = k
    <3>1. p[i] = i /\ p[j] = n + 1 /\ i \in 1..(k - 1) /\ i < n + 1
        BY <1>6, <1>9, <2>3
    <3>2. a[i].method <= h.method /\ a[i].method \in Nat /\ h.method \in Nat
        BY <1>3, <1>4, <1>5, <3>1
    <3>. QED
        BY <1>3, <3>1, <3>2
  <2>4. CASE i # k /\ j # k
    <3>1. p[i] \in 1..n /\ p[j] \in 1..n /\ p[i] < p[j]
        BY <1>6, <1>9, <2>4
    <3>2. a[p[i]].method <= a[p[j]].method
        BY <2>1, <3>1
    <3>3. a[p[i]].method \in Nat /\ a[p[j]].method \in Nat
        BY <1>4, <3>1
    <3>. QED
        BY <3>1, <3>2, <3>3
  <2>. QED
    BY <2>2, <2>3, <2>4
<1>10. [i \in 1..Len(a) |-> a[p[i]]] \in Sorted(a)
  <2>1. /\ p \in [1..Len(a) -> 1..Len(a)]
        /\ \A j \in 1..Len(a) : \E i \in 1..Len(a) : p[i] = j
        /\ \A i, j \in 1..Len(a) : i < j =>
              \/ ByMethod(a[p[i]], a[p[j]])
              \/ ~ByMethod(a[p[j]], a[p[i]]) /\ p[i] < p[j]
    BY <1>3, <1>7, <1>8, <1>9 DEF ByMethod
  <2>. QED
    BY <2>1 DEF Sorted
<1>. QED
    BY <1>2, <1>10

\* g_array_remove_index takes one element out and keeps the order.
LEMMA RemoveIndexFacts ==
    ASSUME NEW array \in Seq(Handler), NEW i \in 1..Len(array)
    PROVE  /\ RemoveIndex(array, i) \in Seq(Handler)
           /\ Len(array) \in Nat /\ Len(RemoveIndex(array, i)) = Len(array) - 1
           /\ \A k \in 1..(Len(array) - 1) :
                 RemoveIndex(array, i)[k] = IF k < i THEN array[k] ELSE array[k + 1]
<1>1. PICK n \in Nat : n = Len(array)
    OBVIOUS
<1>2. \A k \in 1..n : array[k] \in Handler
    BY <1>1, ElementOfSeq
<1>3. PICK s : s = SubSeq(array, 1, i - 1)
    OBVIOUS
<1>4. PICK t : t = SubSeq(array, i + 1, n)
    OBVIOUS
<1>5. i \in 1..n /\ i - 1 \in Int /\ i + 1 \in Int /\ n \in Int
    BY <1>1
<1>6. /\ s \in Seq(Handler) /\ Len(s) = i - 1
      /\ \A k \in 1..(i - 1) : s[k] = array[k]
  <2>1. /\ SubSeq(array, 1, i - 1) \in Seq(Handler)
        /\ Len(SubSeq(array, 1, i - 1)) = IF 1 <= i - 1 THEN i - 1 - 1 + 1 ELSE 0
        /\ \A k \in 1..(i - 1 - 1 + 1) : SubSeq(array, 1, i - 1)[k] = array[1 + k - 1]
    <3>1. \A k \in 1..(i - 1) : array[k] \in Handler
        BY <1>2, <1>5
    <3>. QED
        BY <1>5, <3>1, SubSeqProperties
  <2>. QED
    BY <1>3, <1>5, <2>1
<1>7. /\ t \in Seq(Handler) /\ Len(t) = n - i
      /\ \A k \in 1..(n - i) : t[k] = array[i + k]
  <2>1. /\ SubSeq(array, i + 1, n) \in Seq(Handler)
        /\ Len(SubSeq(array, i + 1, n)) = IF i + 1 <= n THEN n - (i + 1) + 1 ELSE 0
        /\ \A k \in 1..(n - (i + 1) + 1) :
              SubSeq(array, i + 1, n)[k] = array[i + 1 + k - 1]
    <3>1. \A k \in (i + 1)..n : array[k] \in Handler
        BY <1>2, <1>5
    <3>. QED
        BY <1>5, <3>1, SubSeqProperties
  <2>. QED
    BY <1>4, <1>5, <2>1
<1>8. /\ s \o t \in Seq(Handler) /\ Len(s \o t) = n - 1
      /\ \A k \in 1..(n - 1) :
            (s \o t)[k] = IF k < i THEN array[k] ELSE array[k + 1]
  <2>1. s \o t \in Seq(Handler) /\ Len(s \o t) = n - 1
    <3>1. s \o t \in Seq(Handler) /\ Len(s \o t) = Len(s) + Len(t)
        BY <1>6, <1>7, ConcatProperties
    <3>. QED
        BY <1>5, <1>6, <1>7, <3>1
  <2>2. ASSUME NEW k \in 1..(n - 1)
        PROVE  (s \o t)[k] = IF k < i THEN array[k] ELSE array[k + 1]
    <3>1. CASE k < i
        BY <1>5, <1>6, <1>7, <3>1
    <3>2. CASE ~(k < i)
      <4>1. (s \o t)[k] = t[k - (i - 1)]
        BY <1>5, <1>6, <1>7, <3>2
      <4>2. k - (i - 1) \in 1..(n - i) /\ i + (k - (i - 1)) = k + 1
        BY <1>5, <3>2
      <4>. QED
        BY <1>7, <3>2, <4>1, <4>2
    <3>. QED
        BY <3>1, <3>2
  <2>. QED
    BY <2>1, <2>2
<1>. QED
    BY <1>1, <1>3, <1>4, <1>8 DEF RemoveIndex

-----------------------------------------------------------------------------
(* One lemma per action.                                                   *)

\* DataLivesWhileRegistered, by its parts.
LEMMA DataFacts ==
    DataLivesWhileRegistered <=>
        /\ Distinct(handlers)
        /\ Elements(handlers) = registered
        /\ \A id \in Ids :
              destroyed[id] =
                  IF id <= lastHandlerId /\ \A h \in registered : h.id # id
                  THEN 1 ELSE 0
BY DEF DataLivesWhileRegistered, Distinct, Elements

LEMMA DataFactsPrimed ==
    ASSUME Distinct(handlers'), Elements(handlers') = registered',
           \A id \in Ids :
              destroyed'[id] =
                  IF id <= lastHandlerId' /\ \A h \in registered' : h.id # id
                  THEN 1 ELSE 0
    PROVE  DataLivesWhileRegistered'
BY DEF DataLivesWhileRegistered, Distinct, Elements

\* What the invariant says, by its parts.
LEMMA InvFacts ==
    ASSUME Inv
    PROVE  /\ handlers \in Seq(Handler) /\ InOrder(handlers) /\ Distinct(handlers)
           /\ Elements(handlers) = registered
           /\ lastHandlerId \in Nat /\ lastHandlerId <= MaxHandlers
           /\ destroyed \in [Ids -> Nat]
           /\ registered \subseteq [method : Methods, id : 1..lastHandlerId]
           /\ \A id \in Ids : id \in Nat /\
                 destroyed[id] =
                     IF id <= lastHandlerId /\ \A h \in registered : h.id # id
                     THEN 1 ELSE 0
BY DataFacts, MaxHandlersAssumption DEF Inv, TypeOK, Ids

LEMMA AddHandlerStep ==
    ASSUME Inv, NEW m \in Methods, AddHandler(m)
    PROVE  Inv'
<1>1. PICK new : new = [method |-> m, id |-> lastHandlerId + 1]
    OBVIOUS
<1>2. PICK a : a = Append(handlers, new)
    OBVIOUS
<1>3. /\ lastHandlerId < MaxHandlers
      /\ lastHandlerId' = lastHandlerId + 1
      /\ handlers' \in Sorted(a)
      /\ registered' = registered \cup {new}
      /\ UNCHANGED <<disposed, destroyed>>
    BY <1>1, <1>2 DEF AddHandler
<1>4. /\ handlers \in Seq(Handler) /\ Distinct(handlers)
      /\ Elements(handlers) = registered
      /\ lastHandlerId \in Nat /\ MaxHandlers \in Nat
      /\ registered \subseteq [method : Methods, id : 1..lastHandlerId]
    BY InvFacts, MaxHandlersAssumption
<1>5. new \in Handler /\ new.id = lastHandlerId + 1
    BY <1>1, <1>3, <1>4 DEF Handler, Ids
<1>6. PICK n \in Nat : n = Len(handlers)
    BY <1>4
<1>7. /\ a \in Seq(Handler) /\ Len(a) = n + 1 /\ a[n + 1] = new
      /\ \A i \in 1..n : a[i] = handlers[i]
    BY <1>2, <1>4, <1>5, <1>6
<1>8. \A i \in 1..n : a[i] \in registered /\ a[i].id \in 1..lastHandlerId
  <2>1. \A i \in 1..n : a[i] \in registered
    BY <1>4, <1>6, <1>7 DEF Elements
  <2>. QED
    BY <1>4, <2>1
<1>9. Distinct(a)
  <2>1. ASSUME NEW i \in 1..(n + 1), NEW k \in 1..(n + 1), a[i].id = a[k].id
        PROVE  i = k
    <3>1. CASE i \in 1..n /\ k \in 1..n
        BY <1>4, <1>6, <1>7, <2>1, <3>1 DEF Distinct
    <3>2. CASE i = n + 1 /\ k \in 1..n
        BY <1>4, <1>5, <1>7, <1>8, <2>1, <3>2
    <3>3. CASE i \in 1..n /\ k = n + 1
        BY <1>4, <1>5, <1>7, <1>8, <2>1, <3>3
    <3>. QED
        BY <3>1, <3>2, <3>3
  <2>. QED
    BY <1>7, <2>1 DEF Distinct
<1>10. Elements(a) = registered \cup {new}
  <2>1. ASSUME NEW i \in 1..(n + 1) PROVE a[i] \in registered \cup {new}
    <3>1. i \in 1..n \/ i = n + 1
        OBVIOUS
    <3>. QED
        BY <1>7, <1>8, <3>1
  <2>2. ASSUME NEW h \in registered \cup {new} PROVE \E i \in 1..(n + 1) : a[i] = h
    <3>1. CASE h = new
        BY <1>7, <3>1
    <3>2. CASE h \in registered
      <4>1. PICK i \in 1..n : handlers[i] = h
        BY <1>4, <1>6, <3>2 DEF Elements
      <4>. QED
        BY <1>7, <4>1
    <3>. QED
        BY <3>1, <3>2
  <2>. QED
    BY <1>7, <2>1, <2>2 DEF Elements
<1>11. /\ handlers' \in Seq(Handler) /\ InOrder(handlers')
       /\ Elements(handlers') = registered' /\ Distinct(handlers')
    BY <1>3, <1>7, <1>9, <1>10, SortedFacts
<1>12. registered' \subseteq [method : Methods, id : 1..lastHandlerId']
    BY <1>1, <1>3, <1>4
<1>13. TypeOK'
  <2>1. lastHandlerId' \in 0..MaxHandlers
    BY <1>3, <1>4
  <2>. QED
    BY <1>3, <1>11, <1>12, <2>1 DEF Inv, TypeOK
<1>14. DataLivesWhileRegistered'
  <2>1. ASSUME NEW id \in Ids
        PROVE  destroyed'[id] =
                  IF id <= lastHandlerId' /\ \A h \in registered' : h.id # id
                  THEN 1 ELSE 0
    <3>1. /\ id \in Nat
          /\ destroyed[id] =
                 IF id <= lastHandlerId /\ \A h \in registered : h.id # id
                 THEN 1 ELSE 0
        BY InvFacts
    <3>2. CASE id = new.id
      <4>1. ~(id <= lastHandlerId) /\ new \in registered'
        BY <1>3, <1>4, <1>5, <3>1, <3>2
      <4>. QED
        BY <1>3, <3>1, <3>2, <4>1
    <3>3. CASE id # new.id
      <4>1. id <= lastHandlerId' <=> id <= lastHandlerId
        BY <1>3, <1>4, <1>5, <3>1, <3>3
      <4>. QED
        BY <1>3, <3>1, <3>3, <4>1
    <3>. QED
        BY <3>2, <3>3
  <2>. QED
    BY <1>11, <2>1, DataFactsPrimed
<1>. QED
    BY <1>11, <1>13, <1>14 DEF Inv

\* The index of an id in an array without duplicates.
LEMMA IndexFacts ==
    ASSUME Inv, NEW id \in Ids
    PROVE  /\ IndexOf(id) \in 0..Len(handlers)
           /\ IndexOf(id) # 0 => handlers[IndexOf(id)].id = id
           /\ IndexOf(id) = 0 => \A h \in registered : h.id # id
<1>1. /\ handlers \in Seq(Handler) /\ Distinct(handlers)
      /\ Elements(handlers) = registered
    BY InvFacts
<1>2. PICK n \in Nat : n = Len(handlers)
    BY <1>1
<1>3. CASE \E i \in 1..n : handlers[i].id = id
  <2>1. PICK i \in 1..n : handlers[i].id = id
    BY <1>3
  <2>2. PICK Has : Has = {k \in 1..n : handlers[k].id = id}
    OBVIOUS
  <2>3. Has = {i}
    BY <1>1, <1>2, <2>1, <2>2 DEF Distinct
  <2>4. IndexOf(id) = CHOOSE j \in Has : \A k \in Has : j <= k
    BY <1>2, <2>2, <2>3 DEF IndexOf
  <2>5. \E j \in Has : \A k \in Has : j <= k
    BY <2>3
  <2>6. IndexOf(id) \in Has
    BY <2>4, <2>5
  <2>. QED
    BY <1>2, <2>1, <2>3, <2>6
<1>4. CASE \A i \in 1..n : handlers[i].id # id
  <2>1. IndexOf(id) = 0
    BY <1>2, <1>4 DEF IndexOf
  <2>2. \A h \in registered : h.id # id
    BY <1>1, <1>2, <1>4 DEF Elements
  <2>. QED
    BY <1>2, <2>1, <2>2
<1>. QED
    BY <1>3, <1>4

LEMMA RemoveHandlerStep ==
    ASSUME Inv, NEW id \in Ids, RemoveHandler(id)
    PROVE  Inv'
<1>1. PICK i : i = IndexOf(id)
    OBVIOUS
<1>2. /\ \/ /\ i # 0
            /\ ClearHandlerData({handlers[i].id})
            /\ handlers' = RemoveIndex(handlers, i)
         \/ i = 0 /\ UNCHANGED <<handlers, destroyed>>
      /\ registered' = {h \in registered : h.id # id}
      /\ UNCHANGED <<lastHandlerId, disposed>>
    BY <1>1 DEF RemoveHandler
<1>3. /\ handlers \in Seq(Handler) /\ InOrder(handlers) /\ Distinct(handlers)
      /\ Elements(handlers) = registered
      /\ destroyed \in [Ids -> Nat] /\ id \in Nat
      /\ registered \subseteq [method : Methods, id : 1..lastHandlerId]
      /\ \A x \in Ids :
            destroyed[x] =
                IF x <= lastHandlerId /\ \A h \in registered : h.id # x
                THEN 1 ELSE 0
    BY InvFacts
<1>4. /\ i \in 0..Len(handlers)
      /\ i # 0 => handlers[i].id = id
      /\ i = 0 => \A h \in registered : h.id # id
    BY <1>1, IndexFacts
<1>5. PICK n \in Nat : n = Len(handlers)
    BY <1>3
<1>6. CASE i = 0
  <2>1. registered' = registered
    BY <1>2, <1>4, <1>6
  <2>2. TypeOK' /\ InOrder(handlers') /\ DataLivesWhileRegistered'
    BY <1>2, <1>6, <2>1 DEF Inv, TypeOK, DataLivesWhileRegistered
  <2>. QED
    BY <2>2 DEF Inv
<1>7. CASE i # 0
  <2>1. /\ i \in 1..n /\ handlers[i].id = id /\ handlers[i] \in registered
        /\ handlers' = RemoveIndex(handlers, i)
        /\ destroyed' = [x \in Ids |-> destroyed[x] + IF x \in {id} THEN 1 ELSE 0]
    <3>1. /\ i \in 1..n /\ handlers[i].id = id
          /\ handlers' = RemoveIndex(handlers, i)
          /\ ClearHandlerData({id})
      <4>1. i \in 1..n /\ handlers[i].id = id
        BY <1>4, <1>5, <1>7
      <4>. QED
        BY <1>2, <1>7, <4>1
    <3>2. handlers[i] \in registered
        BY <1>3, <1>5, <3>1 DEF Elements
    <3>. QED
        BY <3>1, <3>2 DEF ClearHandlerData
  <2>2. /\ handlers' \in Seq(Handler) /\ Len(handlers') = n - 1
        /\ \A k \in 1..(n - 1) :
              handlers'[k] = IF k < i THEN handlers[k] ELSE handlers[k + 1]
    BY <1>3, <1>5, <2>1, RemoveIndexFacts
  <2>3. PICK from : from = [k \in 1..(n - 1) |-> IF k < i THEN k ELSE k + 1]
    OBVIOUS
  <2>4. /\ \A k \in 1..(n - 1) : /\ from[k] \in 1..n /\ from[k] # i
                                 /\ handlers'[k] = handlers[from[k]]
        /\ \A j, k \in 1..(n - 1) : j < k => from[j] < from[k]
        /\ \A k \in (1..n) \ {i} : \E j \in 1..(n - 1) : from[j] = k
    <3>1. \A k \in 1..(n - 1) : /\ from[k] \in 1..n /\ from[k] # i
                                /\ handlers'[k] = handlers[from[k]]
        BY <2>1, <2>2, <2>3
    <3>2. \A j, k \in 1..(n - 1) : j < k => from[j] < from[k]
        BY <2>1, <2>3
    <3>3. ASSUME NEW k \in (1..n) \ {i} PROVE \E j \in 1..(n - 1) : from[j] = k
      <4>1. CASE k < i
        BY <2>1, <2>3, <4>1
      <4>2. CASE k > i
        <5>1. k - 1 \in 1..(n - 1) /\ ~(k - 1 < i) /\ k - 1 + 1 = k
            BY <2>1, <4>2
        <5>. QED
            BY <2>3, <5>1
      <4>. QED
        BY <2>1, <4>1, <4>2
    <3>. QED
        BY <3>1, <3>2, <3>3
  <2>5. InOrder(handlers')
    <3>1. ASSUME NEW j \in 1..(n - 1), NEW k \in 1..(n - 1), j < k
          PROVE  handlers'[j].method <= handlers'[k].method
      <4>1. /\ from[j] \in 1..n /\ from[k] \in 1..n /\ from[j] < from[k]
            /\ handlers'[j] = handlers[from[j]] /\ handlers'[k] = handlers[from[k]]
        BY <2>4, <3>1
      <4>2. handlers[from[j]].method <= handlers[from[k]].method
        BY <1>3, <1>5, <4>1 DEF InOrder
      <4>. QED
        BY <4>1, <4>2
    <3>. QED
        BY <2>2, <3>1 DEF InOrder
  <2>6. Distinct(handlers')
    <3>. SUFFICES ASSUME NEW j \in 1..(n - 1), NEW k \in 1..(n - 1),
                         handlers'[j].id = handlers'[k].id
                  PROVE  j = k
        BY <2>2 DEF Distinct
    <3>1. from[j] = from[k]
      <4>1. /\ from[j] \in 1..n /\ from[k] \in 1..n
            /\ handlers'[j] = handlers[from[j]] /\ handlers'[k] = handlers[from[k]]
        BY <2>4
      <4>2. handlers[from[j]].id = handlers[from[k]].id
        BY <4>1
      <4>. QED
        BY <1>3, <1>5, <4>1, <4>2 DEF Distinct
    <3>2. from[j] \in Nat /\ from[k] \in Nat
        BY <2>4
    <3>. QED
        BY <2>4, <3>1, <3>2
  <2>7. Elements(handlers') = registered'
    <3>1. ASSUME NEW k \in 1..(n - 1) PROVE handlers'[k] \in registered'
      <4>1. from[k] \in 1..n /\ from[k] # i /\ handlers'[k] = handlers[from[k]]
        BY <2>4
      <4>2. handlers[from[k]].id # id
        BY <1>3, <1>5, <2>1, <4>1 DEF Distinct
      <4>3. handlers[from[k]] \in registered
        BY <1>3, <1>5, <4>1 DEF Elements
      <4>. QED
        BY <1>2, <4>1, <4>2, <4>3
    <3>2. ASSUME NEW h \in registered' PROVE \E k \in 1..(n - 1) : handlers'[k] = h
      <4>1. h \in registered /\ h.id # id
        BY <1>2
      <4>2. PICK k \in 1..n : handlers[k] = h
        BY <1>3, <1>5, <4>1 DEF Elements
      <4>3. k # i
        BY <2>1, <4>1, <4>2
      <4>. QED
        BY <2>4, <4>2, <4>3
    <3>. QED
        BY <2>2, <3>1, <3>2 DEF Elements
  <2>8. TypeOK'
    <3>1. destroyed' \in [Ids -> Nat]
        BY <1>3, <2>1
    <3>. QED
        BY <1>2, <2>2, <3>1 DEF Inv, TypeOK
  <2>9. ASSUME NEW x \in Ids
        PROVE  destroyed'[x] =
                  IF x <= lastHandlerId' /\ \A h \in registered' : h.id # x
                  THEN 1 ELSE 0
    <3>1. CASE x = id
      <4>1. destroyed[x] = 0
        BY <1>3, <2>1, <3>1
      <4>2. \A h \in registered' : h.id # x
        BY <1>2, <3>1
      <4>3. x <= lastHandlerId
        <5>1. handlers[i].id \in 1..lastHandlerId
            BY <1>3, <2>1
        <5>. QED
            BY <2>1, <3>1, <5>1 DEF Inv, TypeOK
      <4>. QED
        BY <1>2, <2>1, <3>1, <4>1, <4>2, <4>3
    <3>2. CASE x # id
      <4>1. destroyed'[x] = destroyed[x]
        BY <1>3, <2>1, <3>2
      <4>2. (\A h \in registered' : h.id # x) <=> (\A h \in registered : h.id # x)
        BY <1>2, <3>2
      <4>. QED
        BY <1>2, <1>3, <4>1, <4>2
    <3>. QED
        BY <3>1, <3>2
  <2>10. DataLivesWhileRegistered'
    BY <2>6, <2>7, <2>9, DataFactsPrimed
  <2>. QED
    BY <2>5, <2>8, <2>10 DEF Inv
<1>. QED
    BY <1>6, <1>7

LEMMA DisposeStep ==
    ASSUME Inv, Dispose
    PROVE  Inv'
<1>1. /\ disposed' = TRUE /\ handlers' = <<>> /\ registered' = {}
      /\ ClearHandlerData({handlers[i].id : i \in 1..Len(handlers)})
      /\ UNCHANGED lastHandlerId
    BY DEF Dispose
<1>2. /\ handlers \in Seq(Handler) /\ Elements(handlers) = registered
      /\ destroyed \in [Ids -> Nat] /\ lastHandlerId \in Nat
      /\ registered \subseteq [method : Methods, id : 1..lastHandlerId]
      /\ \A x \in Ids : x \in Nat /\
            destroyed[x] =
                IF x <= lastHandlerId /\ \A h \in registered : h.id # x
                THEN 1 ELSE 0
    BY InvFacts
<1>3. \A x : x \in {handlers[i].id : i \in 1..Len(handlers)} <=>
                 \E h \in registered : h.id = x
    BY <1>2 DEF Elements
<1>4. destroyed' = [x \in Ids |-> destroyed[x]
                       + IF \E h \in registered : h.id = x THEN 1 ELSE 0]
    BY <1>1, <1>3 DEF ClearHandlerData
<1>5. ASSUME NEW x \in Ids
      PROVE  destroyed'[x] = IF x <= lastHandlerId THEN 1 ELSE 0
  <2>1. CASE \E h \in registered : h.id = x
    <3>1. x \in 1..lastHandlerId
        BY <1>2, <2>1
    <3>2. destroyed[x] = 0
        BY <1>2, <2>1
    <3>. QED
        BY <1>2, <1>4, <2>1, <3>1, <3>2
  <2>2. CASE \A h \in registered : h.id # x
    <3>1. destroyed'[x] = destroyed[x] + 0
        BY <1>4, <2>2
    <3>2. destroyed[x] = IF x <= lastHandlerId THEN 1 ELSE 0
        BY <1>2, <2>2
    <3>. QED
        BY <3>1, <3>2
  <2>. QED
    BY <2>1, <2>2
<1>6. handlers' \in Seq(Handler) /\ Len(handlers') = 0
    BY <1>1
<1>7. InOrder(handlers') /\ Distinct(handlers') /\ Elements(handlers') = {}
    BY <1>6 DEF InOrder, Distinct, Elements
<1>8. TypeOK'
  <2>1. destroyed' \in [Ids -> Nat]
    BY <1>2, <1>4
  <2>. QED
    BY <1>1, <1>6, <2>1 DEF Inv, TypeOK
<1>9. DataLivesWhileRegistered'
    BY <1>1, <1>5, <1>7, DataFactsPrimed
<1>. QED
    BY <1>7, <1>8, <1>9 DEF Inv

-----------------------------------------------------------------------------
(* Safety.                                                                 *)

LEMMA InvInit == Init => Inv
<1>. SUFFICES ASSUME Init PROVE Inv
    OBVIOUS
<1>1. handlers \in Seq(Handler) /\ Len(handlers) = 0
    BY DEF Init
<1>2. InOrder(handlers) /\ Distinct(handlers) /\ Elements(handlers) = {}
    BY <1>1 DEF InOrder, Distinct, Elements
<1>3. TypeOK
  <2>1. lastHandlerId \in 0..MaxHandlers /\ destroyed \in [Ids -> Nat]
    BY MaxHandlersAssumption DEF Init
  <2>2. /\ disposed \in BOOLEAN
        /\ registered \subseteq [method : Methods, id : 1..lastHandlerId]
    BY DEF Init
  <2>. QED
    BY <1>1, <2>1, <2>2 DEF TypeOK
<1>4. ASSUME NEW id \in Ids PROVE destroyed[id] = 0 /\ ~(id <= lastHandlerId)
    BY MaxHandlersAssumption DEF Init, Ids
<1>5. DataLivesWhileRegistered
    BY <1>2, <1>4, DataFacts DEF Init
<1>. QED
    BY <1>2, <1>3, <1>5 DEF Inv

LEMMA InvStep == Inv /\ [Next]_vars => Inv'
<1>. SUFFICES ASSUME Inv, [Next]_vars PROVE Inv'
    OBVIOUS
<1>1. CASE UNCHANGED vars
    BY <1>1 DEF vars, Inv, TypeOK, DataLivesWhileRegistered
<1>. QED
    BY <1>1, AddHandlerStep, RemoveHandlerStep, DisposeStep DEF Next

\* Inv is an inductive invariant.
THEOREM Invariance == Spec => []Inv
BY InvInit, InvStep, PTL DEF Spec

\* Every variable keeps its type: the ids that are handed out stay within
\* the bound and only handlers that were added are registered.
THEOREM TypeCorrect == Spec => []TypeOK
<1>1. Inv => TypeOK
    BY DEF Inv
<1>. QED
    BY <1>1, Invariance, PTL

\* jsonrpc_server_clear_handler_data destroys the data of a handler once, and
\* not before the handler is removed or the server disposed.
THEOREM DataLivesWhileRegisteredHolds == Spec => []DataLivesWhileRegistered
<1>1. Inv => DataLivesWhileRegistered
    BY DEF Inv
<1>. QED
    BY <1>1, Invariance, PTL

\* bsearch in the sorted array gives a call to a handler that is registered
\* for its method whenever there is one.
THEOREM DispatchIsExactHolds == Spec => []DispatchIsExact
<1>1. Inv => DispatchIsExact
  <2>. SUFFICES ASSUME Inv, NEW m \in Methods
                PROVE  /\ HandlerFor(m) \subseteq {h \in registered : h.method = m}
                       /\ {h \in registered : h.method = m} # {}
                              => HandlerFor(m) # {}
    BY DEF DispatchIsExact
  <2>1. /\ handlers \in Seq(Handler) /\ InOrder(handlers)
        /\ Elements(handlers) = registered
    BY InvFacts
  <2>2. PICK i : i = Bsearch(handlers, m)
    OBVIOUS
  <2>3. /\ i \in 0..Len(handlers)
        /\ i # 0 => handlers[i].method = m
        /\ i = 0 => \A k \in 1..Len(handlers) : handlers[k].method # m
    BY <2>1, <2>2, BsearchFinds
  <2>4. HandlerFor(m) = IF i = 0 THEN {} ELSE {handlers[i]}
    BY <2>2 DEF HandlerFor
  <2>5. CASE i = 0
    BY <2>1, <2>3, <2>4, <2>5 DEF Elements
  <2>6. CASE i # 0
    <3>1. i \in 1..Len(handlers) /\ Len(handlers) \in Nat
        BY <2>1, <2>3, <2>6
    <3>2. handlers[i] \in registered
        BY <2>1, <3>1 DEF Elements
    <3>. QED
        BY <2>3, <2>4, <2>6, <3>2
  <2>. QED
    BY <2>5, <2>6
<1>. QED
    BY <1>1, Invariance, PTL

\* jsonrpc_server_add_handler always has a sorted array to go on with.
THEOREM SortingSucceeds ==
    Spec => [](\A m \in Methods :
                  lastHandlerId < MaxHandlers =>
                     Sorted(Append(handlers, [method |-> m,
                                              id |-> lastHandlerId + 1])) # {})
<1>1. Inv => \A m \in Methods :
                lastHandlerId < MaxHandlers =>
                   Sorted(Append(handlers, [method |-> m,
                                            id |-> lastHandlerId + 1])) # {}
  <2>. SUFFICES ASSUME Inv, NEW m \in Methods, lastHandlerId < MaxHandlers
                PROVE  Sorted(Append(handlers, [method |-> m,
                                                id |-> lastHandlerId + 1])) # {}
    OBVIOUS
  <2>1. [method |-> m, id |-> lastHandlerId + 1] \in Handler
    BY InvFacts, MaxHandlersAssumption DEF Handler, Ids
  <2>. QED
    BY <2>1, InvFacts, SortedExists
<1>. QED
    BY <1>1, Invariance, PTL
=============================================================================
