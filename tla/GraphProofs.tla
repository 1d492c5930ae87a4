---------------------------- MODULE GraphProofs -----------------------------
(***************************************************************************)
(* Proofs about the graphs of the vector indexes, for every input.  The    *)
(* parallel build of a DiskANN graph loses no link: for every number of    *)
(* workers and every interleaving, a list is only cut by a prune that knew *)
(* the whole list.  And no search of a finished graph stops too early.     *)
(***************************************************************************)
EXTENDS VamanaBuild, GraphSearch, FiniteLemmas, SequenceTheorems

-----------------------------------------------------------------------------
(* The build of a DiskANN graph.                                           *)

\* What VamanaConstants says of the input of this build.
Input ==
  /\ layout.points \in Seq(Int) /\ layout.points # <<>>
  /\ layout.maxDegree \in Nat \ {0} /\ layout.listSize \in Nat \ {0}

-----------------------------------------------------------------------------
(* The order of the candidates.                                            *)

Order(o) == {x \in Positions \X Positions : Nearer(o, x[1], x[2])}

LEMMA PositionsFinite ==
  ASSUME Input
  PROVE  /\ Len(layout.points) \in Nat \ {0} /\ Positions \subseteq Nat
         /\ IsFiniteSet(Positions)
         /\ \A S \in SUBSET Positions : IsFiniteSet(S)
<1>1. Len(layout.points) \in Nat \ {0}
  BY DEF Input
<1>2. IsFiniteSet(Positions) /\ Positions \subseteq Nat
  BY <1>1, FS_Interval DEF Positions
<1> QED BY <1>1, <1>2, FS_Subset

LEMMA DistanceInt ==
  ASSUME Input, NEW o \in Positions, NEW p \in Positions
  PROVE  Distance(o, p) \in Int
<1>1. \A q \in Positions : Point(q) \in Int
  BY DEF Input, Point, Positions
<1>2. \A a, b \in Int : (a - b) * (a - b) \in Int
  OBVIOUS
<1> QED BY <1>1, <1>2 DEF Distance

\* Nearer is a strict order in which any two positions compare.
LEMMA NearerOrders ==
  ASSUME Input, NEW o \in Positions
  PROVE  /\ \A p, q \in Positions : p # q => Nearer(o, p, q) \/ Nearer(o, q, p)
         /\ \A p, q, r \in Positions : Nearer(o, p, q) /\ Nearer(o, q, r) => Nearer(o, p, r)
         /\ \A p, q \in Positions : Nearer(o, p, q) => ~Nearer(o, q, p) /\ p # q
<1>1. \A p \in Positions : Distance(o, p) \in Int
  BY DistanceInt
<1>2. \A p \in Positions : p \in Int
  BY PositionsFinite
<1> QED BY <1>1, <1>2 DEF Nearer

LEMMA FarthestExists ==
  ASSUME Input, NEW o \in Positions, NEW S \in SUBSET Positions, S # {}
  PROVE  \E m \in S : \A q \in S \ {m} : Nearer(o, q, m) /\ ~Nearer(o, m, q)
<1>1. \A x, y \in Positions : <<x, y>> \in Order(o) <=> Nearer(o, x, y)
  BY DEF Order
<1>2. Orders(Order(o), S)
  BY <1>1, NearerOrders DEF Orders
<1>3. PICK m : IsLast(m, Order(o), S)
  BY <1>2, PositionsFinite, LastOfFinite
<1>4. m \in S /\ \A q \in S \ {m} : Nearer(o, q, m)
  BY <1>1, <1>3 DEF IsLast
<1> QED BY <1>4, NearerOrders

LEMMA NearestExists ==
  ASSUME Input, NEW o \in Positions, NEW S \in SUBSET Positions, S # {}
  PROVE  Nearest(o, S) \in S
<1> DEFINE R == {x \in Positions \X Positions : Nearer(o, x[2], x[1])}
<1>1. \A x, y \in Positions : <<x, y>> \in R <=> Nearer(o, y, x)
  OBVIOUS
<1> HIDE DEF R
<1>2. Orders(R, S)
  BY <1>1, NearerOrders DEF Orders
<1>3. PICK m : IsLast(m, R, S)
  BY <1>2, PositionsFinite, LastOfFinite
<1>4. m \in S /\ \A q \in S \ {m} : Nearer(o, m, q)
  BY <1>1, <1>3 DEF IsLast
<1> QED BY <1>4 DEF Nearest

LEMMA SortedSeq ==
  ASSUME Input, NEW o \in Positions, NEW S \in SUBSET Positions
  PROVE  Sorted(o, S) \in Seq(S)
<1>1. Cardinality(S) \in Nat
  BY PositionsFinite, FS_CardinalityType
<1> DEFINE f(i) == CHOOSE c \in S : Cardinality({q \in S : Nearer(o, q, c)}) = i - 1
<1>2. \A i \in 1..Cardinality(S) : f(i) \in S
  <2>1. \A x, y \in Positions : <<x, y>> \in Order(o) <=> Nearer(o, x, y)
    BY DEF Order
  <2>2. StrictlyOrders(Order(o), S)
    BY <2>1, NearerOrders DEF Orders, StrictlyOrders
  <2> SUFFICES ASSUME NEW i \in 1..Cardinality(S)
               PROVE  \E c \in S : Cardinality({q \in S : Nearer(o, q, c)}) = i - 1
    OBVIOUS
  <2>3. IsFiniteSet(S)
    BY PositionsFinite
  <2> HIDE DEF f
  <2>4. PICK c \in S : Cardinality({q \in S : <<q, c>> \in Order(o)}) = i - 1
    BY <2>2, <2>3, RankExists
  <2>5. {q \in S : <<q, c>> \in Order(o)} = {q \in S : Nearer(o, q, c)}
    BY <2>1
  <2> QED BY <2>4, <2>5
<1> HIDE DEF f
<1>3. [i \in 1..Cardinality(S) |-> f(i)] \in Seq(S)
  BY <1>1, <1>2
<1> QED BY <1>3 DEF Sorted, f

-----------------------------------------------------------------------------
(* Pruning.                                                                *)

\* A pass selects among the candidates: what it describes exists, because
\* whether a candidate is selected depends on the nearer ones only.
LEMMA PassSelects ==
  ASSUME Input, NEW o \in Positions, NEW others \in SUBSET Positions, NEW taken, NEW alpha
  PROVE  PrunePass(o, others, taken, alpha) \in SUBSET others
<1> DEFINE Takes(N, c) ==
             \/ c \in taken
             \/ /\ Cardinality(taken \cup N) < layout.maxDegree
                /\ ~\E q \in N : alpha # 0 /\ 10 * Distance(o, c) > alpha * Distance(q, c)
           Before(X, c) == {q \in X : Nearer(o, q, c)}
           Fits(X, T) == X \in SUBSET T /\ \A c \in T : c \in X <=> Takes(Before(X, c), c)
           B == {T \in SUBSET others : ~\E X : Fits(X, T)}
<1>1. ASSUME NEW X, Fits(X, others)
      PROVE  PrunePass(o, others, taken, alpha) \in SUBSET others
  BY <1>1 DEF PrunePass
<1>2. SUFFICES ASSUME B # {} PROVE FALSE
  <2>1. others \in SUBSET others
    OBVIOUS
  <2>2. SUFFICES ASSUME B = {} PROVE PrunePass(o, others, taken, alpha) \in SUBSET others
    OBVIOUS
  <2>3. others \notin B
    BY <2>2
  <2>4. PICK X : Fits(X, others)
    <3> HIDE DEF Fits
    <3> QED BY <2>1, <2>3
  <2> HIDE DEF Fits
  <2> QED BY <1>1, <2>4
<1> HIDE DEF Takes
<1>3. PICK T \in B : \A U \in SUBSET T : U # T => U \notin B
  <2>1. B \in SUBSET (SUBSET others)
    OBVIOUS
  <2>2. IsFiniteSet(others)
    BY PositionsFinite
  <2> HIDE DEF B
  <2> QED BY <1>2, <2>1, <2>2, SmallestSubset
<1>4. CASE T = {}
  <2>1. Fits({}, T)
    BY <1>4
  <2> HIDE DEF Fits
  <2> QED BY <1>3, <2>1
<1>5. CASE T # {}
  <2>0. T \in SUBSET Positions
    BY <1>3
  <2>1. PICK m \in T : \A q \in T \ {m} : Nearer(o, q, m) /\ ~Nearer(o, m, q)
    BY <1>5, <2>0, FarthestExists
  <2> DEFINE U == T \ {m}
  <2>2. PICK X : Fits(X, U)
    <3>1. U \in SUBSET T /\ U # T /\ U \in SUBSET others
      BY <1>3, <2>1
    <3> HIDE DEF Fits
    <3>2. U \notin B
      BY <1>3, <3>1
    <3> QED BY <3>1, <3>2
  <2> DEFINE Y == IF Takes(Before(X, m), m) THEN X \cup {m} ELSE X
  <2>3. ~Nearer(o, m, m)
    BY <1>3, <2>1, NearerOrders
  <2>4. ASSUME NEW c \in T PROVE Before(Y, c) = Before(X, c)
    <3>1. ~Nearer(o, m, c)
      BY <2>1, <2>3
    <3> QED BY <3>1
  <2>5. ASSUME NEW c \in T PROVE c \in Y <=> Takes(Before(Y, c), c)
    <3>1. CASE c = m
      <4>1. m \notin X
        BY <2>2
      <4>2. c \in Y <=> Takes(Before(X, c), c)
        BY <3>1, <4>1
      <4> QED BY <2>4, <4>2
    <3>2. CASE c # m
      <4>1. c \in Y <=> c \in X
        BY <3>2
      <4>2. c \in X <=> Takes(Before(X, c), c)
        BY <2>2, <3>2
      <4> QED BY <2>4, <4>1, <4>2
    <3> QED BY <3>1, <3>2
  <2>6. Y \in SUBSET T
    BY <2>1, <2>2
  <2>7. Fits(Y, T)
    <3> HIDE DEF Y
    <3> QED BY <2>5, <2>6
  <2> HIDE DEF Fits
  <2> QED BY <1>3, <2>7
<1> QED BY <1>4, <1>5

\* robustPrune returns some of its candidates, and never the owner.
LEMMA PruneSelects ==
  ASSUME Input, NEW o \in Positions, NEW candidates \in SUBSET Positions
  PROVE  /\ RobustPrune(o, candidates) \in Seq(candidates \ {o})
         /\ Range(RobustPrune(o, candidates)) \subseteq candidates \ {o}
<1> DEFINE others == candidates \ {o}
           pass(alpha) == [taken \in SUBSET others |-> PrunePass(o, others, taken, alpha)]
           first  == pass(10)[{}]
           second == pass(12)[first]
           third  == pass(0)[second]
           list   == Sorted(o, first) \o Sorted(o, second \ first) \o Sorted(o, third \ second)
<1>0. others \in SUBSET Positions
  OBVIOUS
<1>1. RobustPrune(o, candidates) = list
  BY DEF RobustPrune
<1> HIDE DEF others
<1>2. \A alpha : pass(alpha) \in [SUBSET others -> SUBSET others]
  BY <1>0, PassSelects
<1> HIDE DEF pass
<1>3. first \in SUBSET others /\ second \in SUBSET others /\ third \in SUBSET others
  <2>1. first \in SUBSET others
    BY <1>2
  <2> HIDE DEF first
  <2>2. second \in SUBSET others
    BY <1>2, <2>1
  <2> HIDE DEF second
  <2>3. third \in SUBSET others
    BY <1>2, <2>2
  <2> QED BY <2>1, <2>2, <2>3
<1> HIDE DEF first, second, third
<1>4. \A S \in SUBSET others : Sorted(o, S) \in Seq(others)
  <2>1. \A S \in SUBSET others : Sorted(o, S) \in Seq(S) /\ Seq(S) \subseteq Seq(others)
    BY <1>0, SortedSeq
  <2> QED BY <2>1
<1>5. list \in Seq(others)
  <2>1. Sorted(o, first) \in Seq(others) /\ Sorted(o, second \ first) \in Seq(others)
         /\ Sorted(o, third \ second) \in Seq(others)
    BY <1>3, <1>4
  <2> QED BY <2>1
<1> HIDE DEF list
<1>6. \A x \in Range(list) : x \in others
  BY <1>5 DEF Range
<1> QED BY <1>1, <1>5, <1>6 DEF others

-----------------------------------------------------------------------------
(* The entry point.                                                        *)

\* The sums of the first points exist and are integers.
LEMMA PrefixSums ==
  ASSUME NEW points \in Seq(Int)
  PROVE  \E f \in [0..Len(points) -> Int] :
           f = [i \in 0..Len(points) |-> IF i = 0 THEN 0 ELSE points[i] + f[i - 1]]
<1> DEFINE n == Len(points)
           IsSum(f, k) == f \in [0..k -> Int]
                          /\ \A i \in 0..k : f[i] = IF i = 0 THEN 0 ELSE points[i] + f[i - 1]
           B == {k \in 0..n : ~\E f : IsSum(f, k)}
<1>0. n \in Nat /\ \A i \in 1..n : points[i] \in Int
  OBVIOUS
<1>1. ASSUME NEW f, IsSum(f, n)
      PROVE  f = [i \in 0..n |-> IF i = 0 THEN 0 ELSE points[i] + f[i - 1]] /\ f \in [0..n -> Int]
  <2>1. f = [i \in 0..n |-> f[i]]
    BY <1>1
  <2>2. \A i \in 0..n : f[i] = IF i = 0 THEN 0 ELSE points[i] + f[i - 1]
    BY <1>1
  <2> QED BY <1>1, <2>1, <2>2
<1>2. SUFFICES ASSUME B # {} PROVE FALSE
  <2>1. n \in 0..n
    BY <1>0
  <2> HIDE DEF IsSum
  <2> QED BY <1>1, <2>1
<1>3. PICK k \in B : \A j \in B : k <= j
  <2>1. B \in SUBSET Nat
    OBVIOUS
  <2> HIDE DEF B
  <2> QED BY <1>2, <2>1, LeastNat
<1>4. CASE k = 0
  <2>1. IsSum([i \in 0..0 |-> 0], 0)
    OBVIOUS
  <2> QED BY <1>3, <1>4, <2>1
<1>5. CASE k # 0
  <2>1. k - 1 \in 0..n /\ k \in 1..n
    BY <1>0, <1>5
  <2>2. PICK f : IsSum(f, k - 1)
    <3>1. ~(k <= k - 1)
      BY <2>1
    <3>2. k - 1 \notin B
      BY <1>3, <3>1
    <3> HIDE DEF IsSum
    <3> QED BY <2>1, <3>2
  <2> DEFINE g == [i \in 0..k |-> IF i = k THEN points[k] + f[k - 1] ELSE f[i]]
  <2>3. \A i \in 0..k : i # k => i \in 0..(k - 1)
    BY <2>1
  <2>4. \A i \in 0..(k - 1) : f[i] \in Int /\ (i # 0 => i - 1 \in 0..(k - 1) /\ f[i] = points[i] + f[i - 1])
    BY <2>1, <2>2
  <2>5. f[k - 1] \in Int /\ f[0] = 0 /\ points[k] \in Int
    BY <1>0, <2>1, <2>2, <2>4
  <2>6. g \in [0..k -> Int]
    BY <2>1, <2>3, <2>4, <2>5
  <2>7. ASSUME NEW i \in 0..k PROVE g[i] = IF i = 0 THEN 0 ELSE points[i] + g[i - 1]
    <3>1. CASE i = k
      BY <2>1, <3>1
    <3>2. CASE i # k
      <4>1. i \in 0..(k - 1) /\ g[i] = f[i]
        BY <2>3, <3>2
      <4>2. i # 0 => g[i - 1] = f[i - 1]
        BY <2>1, <4>1
      <4> QED BY <2>4, <2>5, <4>1, <4>2
    <3> QED BY <3>1, <3>2
  <2>8. IsSum(g, k)
    <3> HIDE DEF g
    <3> QED BY <2>6, <2>7
  <2> QED BY <1>3, <2>8
<1> QED BY <1>4, <1>5

\* The medoid is a position.
LEMMA MedoidIsPosition ==
  ASSUME NEW points \in Seq(Int), points # <<>>
  PROVE  Medoid(points) \in 0..(Len(points) - 1)
<1> DEFINE n == Len(points)
           sum == CHOOSE sum : sum = [i \in 0..n |-> IF i = 0 THEN 0 ELSE points[i] + sum[i - 1]]
           off(i) == (n * points[i] - sum[n]) * (n * points[i] - sum[n])
           best == CHOOSE i \in 1..n : \A j \in 1..n : off(i) < off(j) \/ (off(i) = off(j) /\ i <= j)
<1>1. Medoid(points) = best - 1
  BY DEF Medoid
<1>2. n \in Nat \ {0} /\ \A i \in 1..n : points[i] \in Int
  OBVIOUS
<1>3. sum = [i \in 0..n |-> IF i = 0 THEN 0 ELSE points[i] + sum[i - 1]]
  <2>1. \E f : f = [i \in 0..n |-> IF i = 0 THEN 0 ELSE points[i] + f[i - 1]]
    BY PrefixSums
  <2> QED BY <2>1
<1>4. sum[n] \in Int
  <2>1. sum \in [0..n -> Int]
    <3>1. PICK f \in [0..n -> Int] : f = [i \in 0..n |-> IF i = 0 THEN 0 ELSE points[i] + f[i - 1]]
      BY PrefixSums
    <3> DEFINE B == {k \in 0..n : sum[k] # f[k]}
    <3>2. B = {}
      <4>1. SUFFICES ASSUME B # {} PROVE FALSE
        OBVIOUS
      <4>2. PICK k \in B : \A j \in B : k <= j
        <5>1. B \in SUBSET Nat
          OBVIOUS
        <5> HIDE DEF B
        <5> QED BY <4>1, <5>1, LeastNat
      <4>3. k \in 0..n /\ sum[k] # f[k]
        BY <4>2
      <4>4. k # 0 => k - 1 \in 0..n /\ sum[k - 1] = f[k - 1]
        <5> SUFFICES ASSUME k # 0 PROVE k - 1 \in 0..n /\ sum[k - 1] = f[k - 1]
          OBVIOUS
        <5> HIDE DEF sum
        <5>1. k - 1 \in 0..n /\ ~(k <= k - 1)
          BY <4>3
        <5>2. k - 1 \notin B
          BY <4>2, <5>1
        <5> QED BY <5>1, <5>2
      <4>5. sum[k] = IF k = 0 THEN 0 ELSE points[k] + sum[k - 1]
        <5> HIDE DEF sum
        <5> QED BY <1>3, <4>3
      <4>6. f[k] = IF k = 0 THEN 0 ELSE points[k] + f[k - 1]
        BY <3>1, <4>3
      <4> QED BY <4>3, <4>4, <4>5, <4>6
    <3>3. n \in 0..n /\ f[n] \in Int
      BY <1>2, <3>1
    <3> HIDE DEF sum
    <3>4. \A k \in 0..n : sum[k] = f[k]
      BY <3>2
    <3>5. DOMAIN sum = 0..n /\ sum = [k \in 0..n |-> sum[k]]
      BY <1>3
    <3> QED BY <3>1, <3>4, <3>5
  <2> HIDE DEF sum
  <2> QED BY <1>2, <2>1
<1> HIDE DEF sum
<1>5. \A i \in 1..n : off(i) \in Int
  <2>1. \A a, b, c \in Int : (a * b - c) * (a * b - c) \in Int
    OBVIOUS
  <2>2. n \in Int
    BY <1>2
  <2> QED BY <1>2, <1>4, <2>1, <2>2
<1> DEFINE R == {x \in (1..n) \X (1..n) : off(x[2]) < off(x[1]) \/ (off(x[2]) = off(x[1]) /\ x[2] <= x[1])}
<1>6. \A i, j \in 1..n : <<i, j>> \in R <=> off(j) < off(i) \/ (off(j) = off(i) /\ j <= i)
  OBVIOUS
<1> HIDE DEF R, off
<1>7. Orders(R, 1..n)
  <2>1. \A i, j \in 1..n : i # j => <<i, j>> \in R \/ <<j, i>> \in R
    BY <1>5, <1>6
  <2>2. ASSUME NEW i \in 1..n, NEW j \in 1..n, NEW k \in 1..n, <<i, j>> \in R, <<j, k>> \in R
        PROVE  <<i, k>> \in R
    <3>1. off(j) < off(i) \/ (off(j) = off(i) /\ j <= i)
      BY <1>6, <2>2
    <3>2. off(k) < off(j) \/ (off(k) = off(j) /\ k <= j)
      BY <1>6, <2>2
    <3>3. off(i) \in Int /\ off(j) \in Int /\ off(k) \in Int
      BY <1>5
    <3>4. off(k) < off(i) \/ (off(k) = off(i) /\ k <= i)
      BY <3>1, <3>2, <3>3
    <3> QED BY <1>6, <3>4
  <2> QED BY <2>1, <2>2 DEF Orders
<1>8. PICK m : IsLast(m, R, 1..n)
  <2>1. IsFiniteSet(1..n) /\ 1 \in 1..n
    BY <1>2, FS_Interval
  <2> QED BY <1>7, <2>1, LastOfFinite
<1>9. m \in 1..n /\ \A j \in 1..n : off(m) < off(j) \/ (off(m) = off(j) /\ m <= j)
  <2>1. m \in 1..n /\ \A j \in 1..n \ {m} : <<j, m>> \in R
    BY <1>8 DEF IsLast
  <2>2. off(m) \in Int /\ m \in Int
    BY <1>5, <2>1
  <2>3. \A j \in 1..n \ {m} : off(m) < off(j) \/ (off(m) = off(j) /\ m <= j)
    BY <1>6, <2>1
  <2> QED BY <2>1, <2>2, <2>3
<1>10. best \in 1..n
  BY <1>9
<1> HIDE DEF best
<1> QED BY <1>1, <1>2, <1>10

-----------------------------------------------------------------------------
(* The invariant.                                                          *)

Worker ==
  [step : {"idle", "search", "link", "relink"}, node : Int, level : {0}, frontier : SUBSET Positions,
   retained : SUBSET Positions, visited : SUBSET Positions, pending : Seq(Positions),
   candidates : SUBSET Positions, version : Nat]

Types ==
  /\ layout \in Layouts /\ layout.kind = "vamana"
  /\ entryPoint \in Positions
  /\ links \in [Positions -> SUBSET Positions]
  /\ versions \in [Positions -> Nat]
  /\ phase \in {"seed", "insert", "prune", "done", "failed"}
  /\ inserter \in [1..Inserters -> Worker]

\* What worker w, in state s, has yet to publish in this phase.
AheadOf(w, s) == {p \in Schedule(w) : p > s.node \/ (p = s.node /\ s.step = "search")}

\* The positions whose links are still to be published.
Unpublished ==
  {p \in Positions \ {entryPoint} :
     \/ phase = "seed" /\ p >= SeedEnd
     \/ phase \in {"seed", "insert"} /\ \E w \in 1..Inserters : p \in AheadOf(w, inserter[w])}

\* Every position that a worker's search has met or that it still works with.
Touched(s) == s.frontier \cup s.retained \cup s.visited \cup s.candidates \cup Range(s.pending)

\* A busy worker is at a position of its own schedule.
StepsInv ==
  \A w \in 1..Inserters :
    /\ inserter[w].step # "idle" => phase \in {"seed", "insert"} /\ inserter[w].node \in Schedule(w)
    /\ inserter[w].step \in {"link", "relink"} => inserter[w].pending # <<>>

\* A node is in no list, and no search has met it, before its own list is
\* published: that list is still empty when publishVamanaNeighborsInterleaved
\* takes its lock.
UnpublishedInv ==
  \A p \in Unpublished :
    /\ links[p] = {}
    /\ \A q \in Positions : p \notin links[q]
    /\ \A w \in 1..Inserters : p \notin Touched(inserter[w])

\* A copy of a list that was taken out of the lock is the list with the new
\* link, as long as the version is the one that was copied.
CopyInv ==
  \A w \in 1..Inserters :
    LET s     == inserter[w]
        owner == Head(s.pending)
    IN  s.step = "relink" =>
          /\ s.version <= versions[owner]
          /\ s.version = versions[owner] => s.candidates = links[owner] \cup {s.node}

VamanaInv == Types /\ StepsInv /\ UnpublishedInv /\ CopyInv

-----------------------------------------------------------------------------
(* Facts that the steps share.                                             *)

LEMMA InputOfTypes ==
  ASSUME Types
  PROVE  Input
BY VamanaConstants DEF Types, Input

LEMMA SeedEndType ==
  ASSUME Input
  PROVE  SeedEnd \in Nat /\ SeedEnd <= Len(layout.points)
         /\ Cardinality(Positions) = Len(layout.points)
<1>1. Cardinality(Positions) = Len(layout.points) /\ Len(layout.points) \in Nat
  BY PositionsFinite, FS_Interval DEF Positions
<1>2. {Cardinality(Positions), layout.listSize} \in SUBSET Nat
  BY <1>1 DEF Input
<1>3. SeedEnd \in {Cardinality(Positions), layout.listSize}
        /\ \A n \in {Cardinality(Positions), layout.listSize} : SeedEnd <= n
  BY <1>2, MinOfNats DEF SeedEnd
<1> QED BY <1>1, <1>2, <1>3

\* The schedules are sets of positions without the entry point, and no two
\* workers share one.
LEMMA Schedules ==
  ASSUME Input, NEW w \in 1..Inserters
  PROVE  /\ Schedule(w) \subseteq Positions \ {entryPoint}
         /\ phase = "seed" => \A p \in Schedule(w) : p < SeedEnd
         /\ \A v \in 1..Inserters : \A p \in Schedule(w) : p \in Schedule(v) => v = w
<1>1. SeedEnd \in Nat /\ SeedEnd <= Len(layout.points)
         /\ Cardinality(Positions) = Len(layout.points) /\ Len(layout.points) \in Nat
  BY SeedEndType, PositionsFinite
<1>2. CASE phase = "seed"
  BY <1>1, <1>2 DEF Schedule, Positions
<1>3. CASE phase # "seed"
  <2>1. \A v \in 1..Inserters : \A p \in Schedule(v) :
          (p - SeedEnd) % Inserters = v - 1 /\ p \in SeedEnd..(Cardinality(Positions) - 1) /\ p # entryPoint
    BY <1>3 DEF Schedule
  <2>2. \A p \in Schedule(w) : p \in Positions \ {entryPoint}
    BY <1>1, <2>1 DEF Positions
  <2>3. \A v \in 1..Inserters : v \in Int
    OBVIOUS
  <2> QED BY <1>3, <2>1, <2>2, <2>3
<1> QED BY <1>2, <1>3

\* A worker that publishes or has published its node is alone at it.
LEMMA PublishedNode ==
  ASSUME VamanaInv, NEW w \in 1..Inserters, inserter[w].step \in {"link", "relink"}
  PROVE  inserter[w].node \in Positions \ Unpublished
<1>1. Input
  BY InputOfTypes DEF VamanaInv
<1>2. inserter[w].node \in Schedule(w)
  BY DEF VamanaInv, StepsInv
<1>3. \A v \in 1..Inserters : inserter[w].node \notin AheadOf(v, inserter[v])
  <2> SUFFICES ASSUME NEW v \in 1..Inserters, inserter[w].node \in AheadOf(v, inserter[v]) PROVE FALSE
    OBVIOUS
  <2>1. v = w
    BY <1>1, <1>2, Schedules DEF AheadOf
  <2>2. inserter[w].node \in Int
    BY DEF VamanaInv, Types, Worker
  <2> QED BY <2>1, <2>2 DEF AheadOf
<1>4. inserter[w].node \in Positions /\ (phase = "seed" => inserter[w].node < SeedEnd)
  BY <1>1, <1>2, Schedules
<1>5. inserter[w].node \in Nat /\ SeedEnd \in Nat
  BY <1>1, <1>4, PositionsFinite, SeedEndType
<1> QED BY <1>3, <1>4, <1>5 DEF Unpublished

\* A step of one worker that leaves the phase publishes nothing anew.
LEMMA WorkerMoves ==
  ASSUME Types, NEW w \in 1..Inserters, NEW s, s \in Worker,
         inserter' = [inserter EXCEPT ![w] = s],
         UNCHANGED <<layout, entryPoint, phase>>,
         AheadOf(w, s) \subseteq AheadOf(w, inserter[w])
  PROVE  /\ Positions' = Positions /\ SeedEnd' = SeedEnd /\ Worker' = Worker
         /\ \A v \in 1..Inserters : Schedule(v)' = Schedule(v)
         /\ Unpublished' \subseteq Unpublished
         /\ inserter' \in [1..Inserters -> Worker]
         /\ inserter'[w] = s /\ \A v \in 1..Inserters : v # w => inserter'[v] = inserter[v]
<1>1. Positions' = Positions
  BY DEF Positions
<1>2. SeedEnd' = SeedEnd /\ Worker' = Worker
  BY <1>1 DEF SeedEnd, Worker
<1>3. \A v \in 1..Inserters : Schedule(v)' = Schedule(v)
  BY <1>1, <1>2 DEF Schedule
<1>4. inserter' \in [1..Inserters -> Worker]
        /\ inserter'[w] = s /\ \A v \in 1..Inserters : v # w => inserter'[v] = inserter[v]
  BY DEF Types
<1>6. \A v \in 1..Inserters : AheadOf(v, inserter[v])' \subseteq AheadOf(v, inserter[v])
  <2> SUFFICES ASSUME NEW v \in 1..Inserters
               PROVE  AheadOf(v, inserter[v])' \subseteq AheadOf(v, inserter[v])
    OBVIOUS
  <2>1. CASE v = w
    BY <1>3, <1>4, <2>1 DEF AheadOf
  <2>2. CASE v # w
    BY <1>3, <1>4, <2>2 DEF AheadOf
  <2> QED BY <2>1, <2>2
<1>7. Unpublished' \subseteq Unpublished
  BY <1>1, <1>2, <1>6 DEF Unpublished
<1> QED BY <1>1, <1>2, <1>3, <1>4, <1>7

-----------------------------------------------------------------------------
(* One lemma for each step.                                                *)

LEMMA IdleWorker ==
  /\ Idle \in Worker
  /\ \A n \in Int : [Idle EXCEPT !.node = n] \in Worker
  /\ \A n \in Int, q \in Seq(Positions) :
       [Idle EXCEPT !.node = n, !.step = "link", !.pending = q] \in Worker
<1>1. <<>> \in Seq(Positions) /\ -1 \in Int
  OBVIOUS
<1>2. Idle \in Worker
  BY <1>1 DEF Idle, Worker
<1>3. ASSUME NEW n \in Int PROVE [Idle EXCEPT !.node = n] \in Worker
  BY <1>2 DEF Worker
<1>4. ASSUME NEW n \in Int, NEW q \in Seq(Positions)
      PROVE  [Idle EXCEPT !.node = n, !.step = "link", !.pending = q] \in Worker
  BY <1>2 DEF Worker
<1> QED BY <1>2, <1>3, <1>4

LEMMA InitInv ==
  ASSUME VamanaInit
  PROVE  VamanaInv
<1>1. layout \in Layouts /\ layout.kind = "vamana"
  BY DEF VamanaInit
<1>2. Input
  BY <1>1, VamanaConstants DEF Input
<1>3. entryPoint \in Positions
  BY <1>2, MedoidIsPosition DEF VamanaInit, Positions, Input
<1>4. \A w \in 1..Inserters : inserter[w] = Idle
  BY DEF VamanaInit
<1>5. Types
  BY <1>1, <1>3, IdleWorker DEF VamanaInit, Types
<1>6. StepsInv /\ CopyInv
  BY <1>4 DEF StepsInv, CopyInv, Idle
<1>7. UnpublishedInv
  <2>1. Touched(Idle) = {}
    BY DEF Touched, Idle, Range
  <2>2. Unpublished \subseteq Positions
    BY DEF Unpublished
  <2> QED BY <1>4, <2>1, <2>2 DEF UnpublishedInv, VamanaInit
<1> QED BY <1>5, <1>6, <1>7 DEF VamanaInv

LEMMA StartInsertInv ==
  ASSUME VamanaInv, NEW w \in 1..Inserters, StartInsert(w)
  PROVE  VamanaInv'
<1>1. Input /\ Types
  BY InputOfTypes DEF VamanaInv
<1> DEFINE n == Min(Remaining(w))
<1>2. n \in Remaining(w) /\ n \in Schedule(w) /\ n \in Nat /\ \A p \in Remaining(w) : n <= p
  <2>1. Remaining(w) \subseteq Schedule(w) /\ Remaining(w) # {}
    BY DEF Remaining, StartInsert
  <2>2. Schedule(w) \subseteq Nat
    BY <1>1, Schedules, PositionsFinite
  <2> QED BY <2>1, <2>2, MinOfNats
<1> HIDE DEF n
<1>3. PICK s : s = Searching([inserter[w] EXCEPT !.node = n], entryPoint)
  OBVIOUS
<1>4. inserter[w] \in Worker /\ entryPoint \in Positions
  BY <1>1 DEF Types
<1>5. /\ s \in Worker /\ s.step = "search" /\ s.node = n
      /\ s.frontier = {entryPoint} /\ s.retained = {entryPoint} /\ s.visited = {entryPoint}
      /\ s.candidates = inserter[w].candidates /\ s.pending = inserter[w].pending
  <2>1. s = [[inserter[w] EXCEPT !.node = n] EXCEPT
               !.step = "search", !.frontier = {entryPoint}, !.retained = {entryPoint}, !.visited = {entryPoint}]
    BY <1>3 DEF Searching
  <2>2. n \in Int /\ {entryPoint} \in SUBSET Positions
    BY <1>2, <1>4
  <2>3. s \in Worker
    BY <1>4, <2>1, <2>2 DEF Worker
  <2> QED BY <1>4, <2>1, <2>3 DEF Worker
<1>6. inserter' = [inserter EXCEPT ![w] = s] /\ UNCHANGED <<layout, entryPoint, links, versions, phase>>
  BY <1>3 DEF StartInsert, n
<1>7. AheadOf(w, s) \subseteq AheadOf(w, inserter[w])
  <2> SUFFICES ASSUME NEW p \in AheadOf(w, s) PROVE p \in AheadOf(w, inserter[w])
    OBVIOUS
  <2>1. p \in Schedule(w) /\ p \in Nat /\ p >= n
    BY <1>1, <1>2, <1>5, Schedules, PositionsFinite DEF AheadOf
  <2>2. n > inserter[w].node /\ inserter[w].node \in Int
    BY <1>2, <1>4 DEF Remaining, Worker
  <2> QED BY <1>2, <2>1, <2>2 DEF AheadOf
<1>8. /\ Positions' = Positions /\ SeedEnd' = SeedEnd /\ Worker' = Worker
      /\ \A v \in 1..Inserters : Schedule(v)' = Schedule(v)
      /\ Unpublished' \subseteq Unpublished
      /\ inserter' \in [1..Inserters -> Worker]
      /\ inserter'[w] = s /\ \A v \in 1..Inserters : v # w => inserter'[v] = inserter[v]
  BY <1>1, <1>5, <1>6, <1>7, WorkerMoves
<1>9. Types'
  BY <1>1, <1>6, <1>8 DEF Types
<1>10. StepsInv'
  <2>1. \A v \in 1..Inserters : v # w =>
          /\ inserter'[v].step # "idle" => phase' \in {"seed", "insert"} /\ inserter'[v].node \in Schedule(v)'
          /\ inserter'[v].step \in {"link", "relink"} => inserter'[v].pending # <<>>
    BY <1>6, <1>8 DEF VamanaInv, StepsInv
  <2>2. phase' \in {"seed", "insert"}
    BY <1>6 DEF StartInsert
  <2> QED BY <1>2, <1>5, <1>8, <2>1, <2>2 DEF StepsInv
<1>11. UnpublishedInv'
  <2>1. \A p \in Unpublished : p \notin Touched(s)
    <3>1. \A p \in Unpublished : p # entryPoint /\ p \notin Touched(inserter[w])
      BY DEF VamanaInv, UnpublishedInv, Unpublished
    <3> QED BY <1>5, <3>1 DEF Touched
  <2> QED BY <1>6, <1>8, <2>1 DEF VamanaInv, UnpublishedInv
<1>12. CopyInv'
  BY <1>5, <1>6, <1>8 DEF VamanaInv, CopyInv
<1> QED BY <1>9, <1>10, <1>11, <1>12 DEF VamanaInv

LEMMA ExpandInv ==
  ASSUME VamanaInv, NEW w \in 1..Inserters, Expand(w)
  PROVE  VamanaInv'
<1>1. Input /\ Types
  BY InputOfTypes DEF VamanaInv
<1> DEFINE c == Nearest(inserter[w].node, inserter[w].frontier)
           fresh == links[c] \ inserter[w].visited
           all == inserter[w].retained \cup fresh
           kept == {q \in all : Cardinality({r \in all : Nearer(inserter[w].node, r, q)}) < ListSize}
<1>2. inserter[w] \in Worker /\ inserter[w].node \in Positions
  <2>1. inserter[w].node \in Schedule(w)
    BY DEF Expand, VamanaInv, StepsInv
  <2> QED BY <1>1, <2>1, Schedules DEF Types
<1>3. c \in inserter[w].frontier /\ c \in Positions
  <2>1. inserter[w].frontier # {} /\ inserter[w].frontier \in SUBSET Positions
    BY <1>2 DEF Expand, SearchEnded, Worker
  <2> QED BY <1>1, <1>2, <2>1, NearestExists
<1>4. PICK s : s = Expanded(inserter[w], ListSize, links)
  OBVIOUS
<1>5. /\ s = [inserter[w] EXCEPT !.frontier = (@ \ {c}) \cup (kept \cap fresh),
                                 !.retained = kept, !.visited = @ \cup fresh]
  BY <1>4 DEF Expanded
<1>6. fresh \subseteq links[c] /\ kept \subseteq inserter[w].retained \cup links[c] /\ links[c] \in SUBSET Positions
  BY <1>1, <1>3 DEF Types
<1> HIDE DEF c, fresh, kept
<1>7. /\ s \in Worker /\ s.step = inserter[w].step /\ s.node = inserter[w].node
      /\ Touched(s) \subseteq Touched(inserter[w]) \cup links[c]
      /\ s.pending = inserter[w].pending
  <2>1. s \in Worker
    BY <1>2, <1>5, <1>6 DEF Worker
  <2>2. /\ s.frontier \subseteq inserter[w].frontier \cup fresh
        /\ s.retained = kept /\ s.visited = inserter[w].visited \cup fresh
        /\ s.candidates = inserter[w].candidates /\ s.pending = inserter[w].pending
        /\ s.step = inserter[w].step /\ s.node = inserter[w].node
    BY <1>2, <1>5 DEF Worker
  <2> QED BY <1>6, <2>1, <2>2 DEF Touched
<1>8. inserter' = [inserter EXCEPT ![w] = s] /\ UNCHANGED <<layout, entryPoint, links, versions, phase>>
  BY <1>4 DEF Expand
<1>9. AheadOf(w, s) \subseteq AheadOf(w, inserter[w])
  BY <1>7 DEF AheadOf
<1>10. /\ Positions' = Positions /\ SeedEnd' = SeedEnd /\ Worker' = Worker
       /\ \A v \in 1..Inserters : Schedule(v)' = Schedule(v)
       /\ Unpublished' \subseteq Unpublished
       /\ inserter' \in [1..Inserters -> Worker]
       /\ inserter'[w] = s /\ \A v \in 1..Inserters : v # w => inserter'[v] = inserter[v]
  BY <1>1, <1>7, <1>8, <1>9, WorkerMoves
<1>11. Types'
  BY <1>1, <1>8, <1>10 DEF Types
<1>12. StepsInv'
  BY <1>7, <1>8, <1>10 DEF VamanaInv, StepsInv
<1>13. UnpublishedInv'
  <2>1. \A p \in Unpublished : p \notin Touched(s)
    BY <1>3, <1>7 DEF VamanaInv, UnpublishedInv
  <2> QED BY <1>8, <1>10, <2>1 DEF VamanaInv, UnpublishedInv
<1>14. CopyInv'
  <2>1. s.step # "relink"
    BY <1>7 DEF Expand
  <2> QED BY <1>8, <1>10, <2>1 DEF VamanaInv, CopyInv
<1> QED BY <1>11, <1>12, <1>13, <1>14 DEF VamanaInv

LEMMA PublishInv ==
  ASSUME VamanaInv, NEW w \in 1..Inserters, Publish(w)
  PROVE  VamanaInv' /\ \A p \in Positions : links[p] \subseteq links'[p]
<1>1. Input /\ Types
  BY InputOfTypes DEF VamanaInv
<1> DEFINE n == inserter[w].node
           selected == RobustPrune(n, inserter[w].retained)
<1>2. inserter[w] \in Worker /\ n \in Schedule(w) /\ n \in Positions /\ n \in Nat
  <2>1. n \in Schedule(w)
    BY DEF Publish, VamanaInv, StepsInv
  <2> QED BY <1>1, <2>1, Schedules, PositionsFinite DEF Types
<1>3. selected \in Seq(inserter[w].retained \ {n}) /\ Range(selected) \subseteq inserter[w].retained
        /\ selected \in Seq(Positions) /\ Range(selected) \in SUBSET Positions
  <2>1. inserter[w].retained \in SUBSET Positions
    BY <1>2 DEF Worker
  <2>2. selected \in Seq(inserter[w].retained \ {n}) /\ Range(selected) \subseteq inserter[w].retained \ {n}
    BY <1>1, <1>2, <2>1, PruneSelects
  <2> HIDE DEF selected
  <2> QED BY <2>1, <2>2
<1> HIDE DEF selected
<1>4. PICK s : s = Linking(n, selected)
  OBVIOUS
<1>5. /\ s \in Worker /\ s.step \in {"idle", "link"} /\ s.node = n /\ Touched(s) \subseteq Range(selected)
      /\ s.step = "link" => s.pending # <<>>
  <2>1. CASE selected = <<>>
    <3>1. s = [Idle EXCEPT !.node = n]
      BY <1>4, <2>1 DEF Linking
    <3>2. s \in Worker
      <4>1. n \in Int
        BY <1>2
      <4> HIDE DEF n
      <4> QED BY <3>1, <4>1, IdleWorker
    <3>3. /\ s.frontier = {} /\ s.retained = {} /\ s.visited = {} /\ s.candidates = {}
          /\ s.pending = <<>> /\ s.step = "idle" /\ s.node = n
      BY <3>1 DEF Idle
    <3> QED BY <3>2, <3>3 DEF Touched, Range
  <2>2. CASE selected # <<>>
    <3>1. s = [Idle EXCEPT !.node = n, !.step = "link", !.pending = selected]
      BY <1>4, <2>2 DEF Linking
    <3>2. s \in Worker
      <4>1. n \in Int
        BY <1>2
      <4> HIDE DEF n
      <4> QED BY <1>3, <3>1, <4>1, IdleWorker
    <3>3. /\ s.frontier = {} /\ s.retained = {} /\ s.visited = {} /\ s.candidates = {}
          /\ s.pending = selected /\ s.step = "link" /\ s.node = n
      BY <3>1 DEF Idle
    <3> QED BY <2>2, <3>2, <3>3 DEF Touched
  <2> QED BY <2>1, <2>2
<1>6. /\ inserter' = [inserter EXCEPT ![w] = s] /\ UNCHANGED <<layout, entryPoint, phase>>
      /\ links' = [links EXCEPT ![n] = Range(selected)]
      /\ versions' = [versions EXCEPT ![n] = @ + 1]
      /\ inserter[w].step = "search"
  BY <1>4 DEF Publish, selected
<1>7. AheadOf(w, s) \subseteq AheadOf(w, inserter[w]) /\ n \notin AheadOf(w, s)
  BY <1>2, <1>5 DEF AheadOf
<1>8. /\ Positions' = Positions /\ SeedEnd' = SeedEnd /\ Worker' = Worker
      /\ \A v \in 1..Inserters : Schedule(v)' = Schedule(v)
      /\ Unpublished' \subseteq Unpublished
      /\ inserter' \in [1..Inserters -> Worker]
      /\ inserter'[w] = s /\ \A v \in 1..Inserters : v # w => inserter'[v] = inserter[v]
  BY <1>1, <1>5, <1>6, <1>7, WorkerMoves
<1>9. n \in Unpublished
  <2>1. n \in AheadOf(w, inserter[w])
    BY <1>2, <1>6 DEF AheadOf
  <2>2. phase \in {"seed", "insert"} /\ n # entryPoint
    BY <1>1, <1>2, <1>6, Schedules DEF VamanaInv, StepsInv
  <2> QED BY <1>2, <2>1, <2>2 DEF Unpublished
<1>10. links[n] = {}
  BY <1>9 DEF VamanaInv, UnpublishedInv
<1>11. /\ links' \in [Positions -> SUBSET Positions] /\ links'[n] = Range(selected)
       /\ \A p \in Positions : p # n => links'[p] = links[p]
       /\ versions' \in [Positions -> Nat] /\ versions'[n] = versions[n] + 1
       /\ \A p \in Positions : p # n => versions'[p] = versions[p]
  BY <1>1, <1>2, <1>3, <1>6 DEF Types
<1>12. Types'
  BY <1>1, <1>6, <1>8, <1>11 DEF Types
<1>13. StepsInv'
  <2>1. phase' \in {"seed", "insert"}
    BY <1>6 DEF VamanaInv, StepsInv
  <2>2. \A v \in 1..Inserters : v # w =>
          /\ inserter'[v].step # "idle" => phase' \in {"seed", "insert"} /\ inserter'[v].node \in Schedule(v)'
          /\ inserter'[v].step \in {"link", "relink"} => inserter'[v].pending # <<>>
    BY <1>6, <1>8 DEF VamanaInv, StepsInv
  <2> QED BY <1>2, <1>5, <1>8, <2>1, <2>2 DEF StepsInv
<1>14. n \notin Unpublished'
  <2>1. \A v \in 1..Inserters : n \notin AheadOf(v, inserter[v])'
    <3> SUFFICES ASSUME NEW v \in 1..Inserters, n \in AheadOf(v, inserter[v])' PROVE FALSE
      OBVIOUS
    <3>1. n \in Schedule(v)
      BY <1>8 DEF AheadOf
    <3>2. v = w
      BY <1>1, <1>2, <3>1, Schedules
    <3> QED BY <1>7, <1>8, <3>2 DEF AheadOf
  <2>2. phase = "seed" => n < SeedEnd /\ SeedEnd \in Nat
    BY <1>1, <1>2, Schedules, SeedEndType
  <2> QED BY <1>2, <1>6, <1>8, <2>1, <2>2 DEF Unpublished
<1>15. UnpublishedInv'
  <2> SUFFICES ASSUME NEW p \in Unpublished'
               PROVE  /\ links'[p] = {}
                      /\ \A q \in Positions' : p \notin links'[q]
                      /\ \A v \in 1..Inserters : p \notin Touched(inserter[v])'
    BY DEF UnpublishedInv
  <2>1. p \in Unpublished /\ p # n /\ p \in Positions
    BY <1>8, <1>14 DEF Unpublished
  <2>2. /\ links[p] = {} /\ \A q \in Positions : p \notin links[q]
        /\ \A v \in 1..Inserters : p \notin Touched(inserter[v])
    BY <2>1 DEF VamanaInv, UnpublishedInv
  <2>3. p \notin inserter[w].retained
    BY <2>2 DEF Touched
  <2>4. p \notin Touched(s) /\ p \notin Range(selected)
    BY <1>3, <1>5, <2>3
  <2>5. links'[p] = {} /\ \A q \in Positions' : p \notin links'[q]
    BY <1>8, <1>11, <2>1, <2>2, <2>4
  <2>6. \A v \in 1..Inserters : p \notin Touched(inserter'[v])
    BY <1>8, <2>2, <2>4
  <2> QED BY <2>5, <2>6 DEF Touched
<1>16. CopyInv'
  <2> SUFFICES ASSUME NEW v \in 1..Inserters, inserter'[v].step = "relink"
               PROVE  LET owner == Head(inserter'[v].pending)
                      IN  /\ inserter'[v].version <= versions'[owner]
                          /\ inserter'[v].version = versions'[owner] =>
                               inserter'[v].candidates = links'[owner] \cup {inserter'[v].node}
    BY DEF CopyInv
  <2>1. v # w /\ inserter'[v] = inserter[v]
    BY <1>5, <1>8
  <2> DEFINE owner == Head(inserter[v].pending)
  <2>2. /\ inserter[v].version <= versions[owner]
        /\ inserter[v].version = versions[owner] => inserter[v].candidates = links[owner] \cup {inserter[v].node}
    BY <2>1 DEF VamanaInv, CopyInv
  <2>3. inserter[v] \in Worker /\ inserter[v].pending # <<>>
    BY <1>1, <2>1 DEF Types, VamanaInv, StepsInv
  <2>4. owner \in Positions /\ owner \in Range(inserter[v].pending)
    BY <2>3 DEF Worker, Range
  <2>5. owner # n
    BY <1>9, <2>4 DEF VamanaInv, UnpublishedInv, Touched
  <2> QED BY <1>11, <2>1, <2>2, <2>4, <2>5
<1>17. \A p \in Positions : links[p] \subseteq links'[p]
  BY <1>10, <1>11
<1> QED BY <1>12, <1>13, <1>15, <1>16, <1>17 DEF VamanaInv

\* The next reverse link after that of Head(s.pending).
LEMMA LinkedWorker ==
  ASSUME NEW s \in Worker, s.pending # <<>>
  PROVE  /\ Linked(s) \in Worker /\ Linked(s).step \in {"idle", "link"} /\ Linked(s).node = s.node
         /\ Linked(s).step = "link" => Linked(s).pending # <<>>
         /\ Touched(Linked(s)) \subseteq Touched(s)
<1> DEFINE n == s.node
           q == Tail(s.pending)
           t == Linked(s)
<1>1. n \in Int /\ q \in Seq(Positions) /\ Range(q) \subseteq Range(s.pending)
  <2>1. n \in Int /\ s.pending \in Seq(Positions)
    BY DEF Worker
  <2>2. q \in Seq(Positions) /\ Len(q) = Len(s.pending) - 1 /\ \A i \in 1..Len(q) : q[i] = s.pending[i + 1]
    BY <2>1
  <2>3. \A i \in 1..Len(q) : q[i] \in Range(s.pending)
    <3> SUFFICES ASSUME NEW i \in 1..Len(q) PROVE q[i] \in Range(s.pending)
      OBVIOUS
    <3>1. i + 1 \in DOMAIN s.pending
      BY <2>1, <2>2
    <3> QED BY <2>2, <3>1 DEF Range
  <2> HIDE DEF q
  <2> QED BY <2>1, <2>2, <2>3 DEF Range
<1>2. t = Linking(n, q)
  BY DEF Linked
<1> HIDE DEF n, q, t
<1>3. CASE q = <<>>
  <2>1. t = [Idle EXCEPT !.node = n]
    BY <1>2, <1>3 DEF Linking
  <2>2. t \in Worker
    BY <1>1, <2>1, IdleWorker
  <2>3. /\ t.frontier = {} /\ t.retained = {} /\ t.visited = {} /\ t.candidates = {}
        /\ t.pending = <<>> /\ t.step = "idle" /\ t.node = n
    BY <2>1 DEF Idle
  <2>4. Touched(t) = {}
    BY <2>3 DEF Touched, Range
  <2> QED BY <2>2, <2>3, <2>4 DEF t, n
<1>4. CASE q # <<>>
  <2>1. t = [Idle EXCEPT !.node = n, !.step = "link", !.pending = q]
    BY <1>2, <1>4 DEF Linking
  <2>2. t \in Worker
    BY <1>1, <2>1, IdleWorker
  <2>3. /\ t.frontier = {} /\ t.retained = {} /\ t.visited = {} /\ t.candidates = {}
        /\ t.pending = q /\ t.step = "link" /\ t.node = n
    BY <2>1 DEF Idle
  <2>4. Touched(t) \subseteq Touched(s)
    BY <1>1, <2>3 DEF Touched
  <2> QED BY <1>4, <2>2, <2>3, <2>4 DEF t, n
<1> QED BY <1>3, <1>4

\* What a reverse link does to the state: worker w goes on as s, and the list of
\* owner becomes list, with a new version if it is another one.
ReverseLink(w, owner, s, list) ==
  /\ inserter' = [inserter EXCEPT ![w] = s] /\ UNCHANGED <<layout, entryPoint, phase>>
  /\ links' = [links EXCEPT ![owner] = list]
  /\ \/ versions' = [versions EXCEPT ![owner] = @ + 1]
     \/ UNCHANGED versions /\ list = links[owner]

LEMMA ReverseLinkInv ==
  ASSUME VamanaInv, NEW w \in 1..Inserters, inserter[w].step \in {"link", "relink"},
         NEW owner, owner = Head(inserter[w].pending), NEW s, s \in Worker,
         s.node = inserter[w].node, s.step \in {"idle", "link", "relink"},
         s.step \in {"link", "relink"} => s.pending # <<>>,
         Touched(s) \subseteq Touched(inserter[w]) \cup links[owner] \cup {s.node},
         NEW list, list \subseteq Touched(inserter[w]) \cup links[owner] \cup {s.node},
         ReverseLink(w, owner, s, list),
         s.step = "relink" => /\ Head(s.pending) = owner /\ s.version = versions'[owner]
                              /\ s.candidates = list \cup {s.node}
  PROVE  VamanaInv'
<1>1. Input /\ Types /\ inserter[w] \in Worker
  BY InputOfTypes DEF VamanaInv, Types
<1>2. owner \in Range(inserter[w].pending) /\ owner \in Positions
  <2>1. inserter[w].pending # <<>> /\ inserter[w].pending \in Seq(Positions)
    BY <1>1 DEF VamanaInv, StepsInv, Worker
  <2> QED BY <2>1 DEF Range
<1>3. s.node \in Positions \ Unpublished
  BY PublishedNode
<1>4. AheadOf(w, s) \subseteq AheadOf(w, inserter[w])
  BY <1>1 DEF AheadOf, Worker
<1>5. /\ Positions' = Positions /\ SeedEnd' = SeedEnd /\ Worker' = Worker
      /\ \A v \in 1..Inserters : Schedule(v)' = Schedule(v)
      /\ Unpublished' \subseteq Unpublished
      /\ inserter' \in [1..Inserters -> Worker]
      /\ inserter'[w] = s /\ \A v \in 1..Inserters : v # w => inserter'[v] = inserter[v]
  <2>1. inserter' = [inserter EXCEPT ![w] = s] /\ UNCHANGED <<layout, entryPoint, phase>>
    BY DEF ReverseLink
  <2> QED BY <1>1, <1>4, <2>1, WorkerMoves
<1>6. list \in SUBSET Positions
  <2>1. links[owner] \in SUBSET Positions /\ s.node \in Positions
    BY <1>1, <1>2, <1>3 DEF Types
  <2>2. Range(inserter[w].pending) \subseteq Positions
    BY <1>1 DEF Worker, Range
  <2>3. Touched(inserter[w]) \subseteq Positions
    BY <1>1, <2>2 DEF Touched, Worker
  <2> QED BY <2>1, <2>3
<1>7. /\ links' \in [Positions -> SUBSET Positions] /\ links'[owner] = list
      /\ \A p \in Positions : p # owner => links'[p] = links[p]
  BY <1>1, <1>2, <1>6 DEF Types, ReverseLink
<1>8. /\ versions' \in [Positions -> Nat]
      /\ \A p \in Positions : versions[p] <= versions'[p]
      /\ \A p \in Positions : versions[p] = versions'[p] => links'[p] = links[p]
  <2>1. CASE versions' = [versions EXCEPT ![owner] = @ + 1]
    <3>1. versions' \in [Positions -> Nat] /\ versions'[owner] = versions[owner] + 1 /\ versions[owner] \in Nat
            /\ \A p \in Positions : p # owner => versions'[p] = versions[p]
      BY <1>1, <1>2, <2>1 DEF Types
    <3>2. \A p \in Positions : versions[p] \in Nat
      BY <1>1 DEF Types
    <3>3. \A p \in Positions : versions[p] <= versions'[p] /\ (p = owner => versions[p] # versions'[p])
      BY <3>1, <3>2
    <3> QED BY <1>7, <3>1, <3>3
  <2>2. CASE UNCHANGED versions /\ list = links[owner]
    <3>1. \A p \in Positions : versions[p] \in Nat
      BY <1>1 DEF Types
    <3>2. \A p \in Positions : versions[p] <= versions'[p]
      BY <2>2, <3>1
    <3> QED BY <1>1, <1>7, <2>2, <3>2 DEF Types
  <2> QED BY <2>1, <2>2 DEF ReverseLink
<1>9. UNCHANGED <<layout, entryPoint, phase>>
  BY DEF ReverseLink
<1>10. Types'
  BY <1>1, <1>5, <1>7, <1>8, <1>9 DEF Types
<1>11. StepsInv'
  <2>1. phase' \in {"seed", "insert"} /\ inserter[w].node \in Schedule(w)
    BY <1>9 DEF VamanaInv, StepsInv
  <2>2. \A v \in 1..Inserters : v # w =>
          /\ inserter'[v].step # "idle" => phase' \in {"seed", "insert"} /\ inserter'[v].node \in Schedule(v)'
          /\ inserter'[v].step \in {"link", "relink"} => inserter'[v].pending # <<>>
    BY <1>5, <1>9 DEF VamanaInv, StepsInv
  <2> QED BY <1>5, <2>1, <2>2 DEF StepsInv
<1>12. UnpublishedInv'
  <2> SUFFICES ASSUME NEW p \in Unpublished'
               PROVE  /\ links'[p] = {}
                      /\ \A q \in Positions' : p \notin links'[q]
                      /\ \A v \in 1..Inserters : p \notin Touched(inserter[v])'
    BY DEF UnpublishedInv
  <2>1. p \in Unpublished /\ p # s.node /\ p \in Positions
    BY <1>3, <1>5 DEF Unpublished
  <2>2. /\ links[p] = {} /\ \A q \in Positions : p \notin links[q]
        /\ \A v \in 1..Inserters : p \notin Touched(inserter[v])
    BY <2>1 DEF VamanaInv, UnpublishedInv
  <2>3. p # owner
    BY <1>2, <2>2 DEF Touched
  <2>4. p \notin Touched(s) /\ p \notin list
    BY <1>2, <2>1, <2>2
  <2> QED BY <1>5, <1>7, <2>1, <2>2, <2>3, <2>4 DEF Touched
<1>13. CopyInv'
  <2> SUFFICES ASSUME NEW v \in 1..Inserters, inserter'[v].step = "relink"
               PROVE  /\ inserter'[v].version <= versions'[Head(inserter'[v].pending)]
                      /\ inserter'[v].version = versions'[Head(inserter'[v].pending)] =>
                           inserter'[v].candidates = links'[Head(inserter'[v].pending)] \cup {inserter'[v].node}
    BY DEF CopyInv
  <2>1. CASE v = w
    <3>1. versions'[owner] \in Nat
      BY <1>2, <1>8
    <3> QED BY <1>5, <1>7, <2>1, <3>1
  <2>2. CASE v # w
    <3> DEFINE o == Head(inserter[v].pending)
    <3>1. inserter'[v] = inserter[v] /\ inserter[v].step = "relink"
      BY <1>5, <2>2
    <3>2. /\ inserter[v].version <= versions[o]
          /\ inserter[v].version = versions[o] => inserter[v].candidates = links[o] \cup {inserter[v].node}
      BY <3>1 DEF VamanaInv, CopyInv
    <3>3. inserter[v] \in Worker /\ inserter[v].pending # <<>>
      BY <1>1, <3>1 DEF Types, VamanaInv, StepsInv
    <3>4. o \in Positions /\ inserter[v].version \in Nat
      BY <3>3 DEF Worker
    <3>5. versions[o] \in Nat /\ versions'[o] \in Nat /\ versions[o] <= versions'[o]
      BY <1>1, <1>8, <3>4 DEF Types
    <3> QED BY <1>8, <3>1, <3>2, <3>4, <3>5
  <2> QED BY <2>1, <2>2
<1> QED BY <1>10, <1>11, <1>12, <1>13 DEF VamanaInv

\* The copy of a list that leaves the lock.
LEMMA SnapshotWorker ==
  ASSUME NEW s \in Worker, NEW owner \in Positions, links \in [Positions -> SUBSET Positions],
         versions \in [Positions -> Nat], s.node \in Positions
  PROVE  /\ Snapshot(s, owner) \in Worker /\ Snapshot(s, owner).step = "relink"
         /\ Snapshot(s, owner).node = s.node /\ Snapshot(s, owner).pending = s.pending
         /\ Snapshot(s, owner).version = versions[owner]
         /\ Snapshot(s, owner).candidates = links[owner] \cup {s.node}
         /\ Touched(Snapshot(s, owner)) \subseteq Touched(s) \cup links[owner] \cup {s.node}
<1> DEFINE t == Snapshot(s, owner)
           c == links[owner] \cup {s.node}
<1>1. t = [s EXCEPT !.step = "relink", !.candidates = c, !.version = versions[owner]]
  BY DEF Snapshot
<1>2. c \in SUBSET Positions /\ versions[owner] \in Nat
  OBVIOUS
<1> HIDE DEF t, c
<1>3. t \in Worker
  BY <1>1, <1>2 DEF Worker
<1>4. /\ t.step = "relink" /\ t.node = s.node /\ t.pending = s.pending /\ t.version = versions[owner]
      /\ t.candidates = c /\ t.frontier = s.frontier /\ t.retained = s.retained /\ t.visited = s.visited
  BY <1>1 DEF Worker
<1>5. Touched(t) \subseteq Touched(s) \cup c
  BY <1>4 DEF Touched
<1> QED BY <1>3, <1>4, <1>5 DEF t, c

LEMMA LinkInv ==
  ASSUME VamanaInv, NEW w \in 1..Inserters, Link(w)
  PROVE  VamanaInv' /\ \A p \in Positions : links[p] \subseteq links'[p]
<1> DEFINE owner == Head(inserter[w].pending)
<1>1. Input /\ Types /\ inserter[w] \in Worker /\ inserter[w].step = "link" /\ inserter[w].pending # <<>>
  BY InputOfTypes DEF VamanaInv, Types, StepsInv, Link
<1>2. owner \in Positions /\ inserter[w].node \in Positions
  BY <1>1, PublishedNode DEF Worker
<1>3. links \in [Positions -> SUBSET Positions] /\ versions \in [Positions -> Nat]
        /\ links = [links EXCEPT ![owner] = links[owner]]
  BY <1>1, <1>2 DEF Types
<1>4. CASE inserter[w].node \in links[owner] /\ inserter' = [inserter EXCEPT ![w] = Linked(inserter[w])]
             /\ UNCHANGED <<links, versions>>
  <2>1. PICK s : s = Linked(inserter[w])
    OBVIOUS
  <2>2. ReverseLink(w, owner, s, links[owner])
    BY <1>3, <1>4, <2>1 DEF ReverseLink, Link
  <2>3. VamanaInv'
    <3> HIDE DEF owner
    <3> QED BY <1>1, <2>1, <2>2, LinkedWorker, ReverseLinkInv DEF owner
  <2> QED BY <1>4, <2>3
<1>5. CASE /\ links' = [links EXCEPT ![owner] = @ \cup {inserter[w].node}]
           /\ versions' = [versions EXCEPT ![owner] = @ + 1]
           /\ inserter' = [inserter EXCEPT ![w] = Linked(inserter[w])]
  <2>1. PICK s : s = Linked(inserter[w])
    OBVIOUS
  <2>2. ReverseLink(w, owner, s, links[owner] \cup {s.node})
    BY <1>1, <1>5, <2>1, LinkedWorker DEF ReverseLink, Link
  <2>3. VamanaInv'
    <3> HIDE DEF owner
    <3> QED BY <1>1, <2>1, <2>2, LinkedWorker, ReverseLinkInv DEF owner
  <2>4. \A p \in Positions : links[p] \subseteq links'[p]
    BY <1>3, <1>5
  <2> QED BY <2>3, <2>4
<1>6. CASE inserter' = [inserter EXCEPT ![w] = Snapshot(inserter[w], owner)] /\ UNCHANGED <<links, versions>>
  <2>1. PICK s : s = Snapshot(inserter[w], owner)
    OBVIOUS
  <2>2. ReverseLink(w, owner, s, links[owner])
    BY <1>3, <1>6, <2>1 DEF ReverseLink, Link
  <2>3. VamanaInv'
    <3> HIDE DEF owner
    <3>1. s.version = versions'[owner]
      BY <1>1, <1>2, <1>3, <1>6, <2>1, SnapshotWorker
    <3>2. /\ s \in Worker /\ s.step = "relink" /\ s.node = inserter[w].node
          /\ s.pending = inserter[w].pending /\ s.candidates = links[owner] \cup {s.node}
          /\ Touched(s) \subseteq Touched(inserter[w]) \cup links[owner] \cup {s.node}
      BY <1>1, <1>2, <1>3, <2>1, SnapshotWorker
    <3>3. owner = Head(inserter[w].pending) /\ owner = Head(s.pending)
      BY <3>2 DEF owner
    <3> QED BY <1>1, <2>2, <3>1, <3>2, <3>3, ReverseLinkInv
  <2> QED BY <1>6, <2>3
<1> QED BY <1>4, <1>5, <1>6 DEF Link

LEMMA RelinkInv ==
  ASSUME VamanaInv, NEW w \in 1..Inserters, Relink(w)
  PROVE  /\ VamanaInv' /\ inserter[w].step = "relink"
         /\ \A p \in Positions : p # Head(inserter[w].pending) => links[p] \subseteq links'[p]
         /\ links' # links => /\ links[Head(inserter[w].pending)] \subseteq inserter[w].candidates
                              /\ inserter'[w] # inserter[w]
<1> DEFINE owner == Head(inserter[w].pending)
<1>1. Input /\ Types /\ inserter[w] \in Worker /\ inserter[w].step = "relink" /\ inserter[w].pending # <<>>
  BY InputOfTypes DEF VamanaInv, Types, StepsInv, Relink
<1>2. owner \in Positions /\ inserter[w].node \in Positions
  BY <1>1, PublishedNode DEF Worker
<1>3. links \in [Positions -> SUBSET Positions] /\ versions \in [Positions -> Nat]
        /\ links = [links EXCEPT ![owner] = links[owner]]
  BY <1>1, <1>2 DEF Types
<1>4. CASE /\ versions[owner] = inserter[w].version
           /\ links' = [links EXCEPT ![owner] = Range(RobustPrune(owner, inserter[w].candidates))]
           /\ versions' = [versions EXCEPT ![owner] = @ + 1]
           /\ inserter' = [inserter EXCEPT ![w] = Linked(inserter[w])]
  <2>1. PICK s : s = Linked(inserter[w])
    OBVIOUS
  <2>2. PICK list : list = Range(RobustPrune(owner, inserter[w].candidates))
    OBVIOUS
  <2>3. list \subseteq inserter[w].candidates
    <3>1. inserter[w].candidates \in SUBSET Positions
      BY <1>1 DEF Worker
    <3> HIDE DEF owner
    <3> QED BY <1>1, <1>2, <2>2, <3>1, PruneSelects
  <2>4. ReverseLink(w, owner, s, list)
    BY <1>4, <2>1, <2>2 DEF ReverseLink, Relink
  <2>5. VamanaInv'
    <3>1. list \subseteq Touched(inserter[w])
      BY <2>3 DEF Touched
    <3> HIDE DEF owner
    <3> QED BY <1>1, <2>1, <2>4, <3>1, LinkedWorker, ReverseLinkInv DEF owner
  <2>6. links[owner] \subseteq inserter[w].candidates
    BY <1>1, <1>4 DEF VamanaInv, CopyInv
  <2>7. inserter'[w] # inserter[w]
    <3>1. inserter'[w] = s
      BY <1>1, <1>4, <2>1 DEF Types
    <3> QED BY <1>1, <2>1, <3>1, LinkedWorker
  <2>8. \A p \in Positions : p # owner => links[p] \subseteq links'[p]
    BY <1>3, <1>4
  <2> QED BY <1>1, <2>5, <2>6, <2>7, <2>8
<1>5. CASE inserter' = [inserter EXCEPT ![w] = Snapshot(inserter[w], owner)] /\ UNCHANGED <<links, versions>>
  <2>1. PICK s : s = Snapshot(inserter[w], owner)
    OBVIOUS
  <2>2. ReverseLink(w, owner, s, links[owner])
    BY <1>3, <1>5, <2>1 DEF ReverseLink, Relink
  <2>3. VamanaInv'
    <3> HIDE DEF owner
    <3>1. s.version = versions'[owner]
      BY <1>1, <1>2, <1>3, <1>5, <2>1, SnapshotWorker
    <3>2. /\ s \in Worker /\ s.step = "relink" /\ s.node = inserter[w].node
          /\ s.pending = inserter[w].pending /\ s.candidates = links[owner] \cup {s.node}
          /\ Touched(s) \subseteq Touched(inserter[w]) \cup links[owner] \cup {s.node}
      BY <1>1, <1>2, <1>3, <2>1, SnapshotWorker
    <3>3. owner = Head(inserter[w].pending) /\ owner = Head(s.pending)
      BY <3>2 DEF owner
    <3> QED BY <1>1, <2>2, <3>1, <3>2, <3>3, ReverseLinkInv
  <2> QED BY <1>1, <1>5, <2>3
<1> QED BY <1>4, <1>5 DEF Relink

\* The steps of the build as a whole.
LEMMA AllIdleInv ==
  ASSUME Types', inserter' = [w \in 1..Inserters |-> Idle],
         \A p \in Unpublished' : links'[p] = {} /\ \A q \in Positions' : p \notin links'[q]
  PROVE  VamanaInv'
<1>1. \A w \in 1..Inserters : inserter'[w] = Idle
  OBVIOUS
<1>2. StepsInv' /\ CopyInv'
  BY <1>1 DEF StepsInv, CopyInv, Idle
<1>3. Touched(Idle) = {}
  BY DEF Touched, Idle, Range
<1>4. \A w \in 1..Inserters : Touched(inserter[w])' = {}
  BY <1>1, <1>3 DEF Touched
<1>5. UnpublishedInv'
  BY <1>4 DEF UnpublishedInv
<1> QED BY <1>2, <1>5 DEF VamanaInv

LEMMA PhasesInv ==
  ASSUME VamanaInv, NextPhase \/ FinalPrune \/ FinishBuild \/ CancelBuild
  PROVE  VamanaInv' /\ (phase = "prune" \/ phase' = "failed" \/ links' = links)
<1>1. Input /\ Types
  BY InputOfTypes DEF VamanaInv
<1>2. ASSUME UNCHANGED layout PROVE Positions' = Positions /\ SeedEnd' = SeedEnd /\ Worker' = Worker
  <2>1. Positions' = Positions
    BY <1>2 DEF Positions
  <2> QED BY <1>2, <2>1 DEF SeedEnd, Worker
<1>3. CASE NextPhase
  <2>1. Positions' = Positions /\ SeedEnd' = SeedEnd /\ Worker' = Worker
    BY <1>2, <1>3 DEF NextPhase
  <2>2. inserter' = [w \in 1..Inserters |-> Idle]
    BY <1>3 DEF NextPhase
  <2>3. inserter' \in [1..Inserters -> Worker]
    BY <2>2, IdleWorker
  <2>4. Types'
    BY <1>1, <1>3, <2>1, <2>3 DEF Types, NextPhase
  <2>5. Unpublished' \subseteq Unpublished
    <3>1. CASE phase = "seed"
      <4>1. phase' = "insert"
        BY <1>3, <3>1 DEF NextPhase
      <4>2. \A w \in 1..Inserters : \A p \in Schedule(w)' : p >= SeedEnd
        <5>1. SeedEnd \in Nat /\ Cardinality(Positions) \in Nat
          BY <1>1, SeedEndType, PositionsFinite
        <5> QED BY <2>1, <4>1, <5>1 DEF Schedule
      <4>3. \A p \in Unpublished' : p \in Positions \ {entryPoint} /\ p >= SeedEnd
        BY <1>3, <2>1, <4>1, <4>2 DEF Unpublished, AheadOf, NextPhase
      <4> QED BY <3>1, <4>3 DEF Unpublished
    <3>2. CASE phase = "insert"
      <4>1. Unpublished' = {}
        BY <1>3, <3>2 DEF NextPhase, Unpublished
      <4> QED BY <4>1
    <3> QED BY <1>3, <3>1, <3>2 DEF NextPhase
  <2>6. links' = links
    BY <1>3 DEF NextPhase
  <2> QED BY <2>1, <2>2, <2>4, <2>5, <2>6, AllIdleInv DEF VamanaInv, UnpublishedInv
<1>4. ASSUME phase = "prune" \/ phase' = "failed", phase' \notin {"seed", "insert"}
      PROVE  Unpublished' = {}
  BY <1>4 DEF Unpublished
<1>5. CASE FinalPrune
  <2>1. Positions' = Positions /\ SeedEnd' = SeedEnd /\ Worker' = Worker
    BY <1>2, <1>5 DEF FinalPrune
  <2>2. PICK p \in Overfull : links' = [links EXCEPT ![p] = Range(RobustPrune(p, links[p]))]
    BY <1>5 DEF FinalPrune
  <2>3. links' \in [Positions -> SUBSET Positions]
    <3>1. p \in Positions /\ links \in [Positions -> SUBSET Positions]
      BY <1>1, <2>2 DEF Overfull, Types
    <3>2. Range(RobustPrune(p, links[p])) \in SUBSET Positions
      <4>1. PICK c \in SUBSET Positions : c = links[p]
        BY <3>1
      <4>2. Range(RobustPrune(p, c)) \subseteq c \ {p}
        BY <1>1, <3>1, PruneSelects
      <4> QED BY <4>1, <4>2
    <3> QED BY <2>2, <3>1, <3>2
  <2>4. Types'
    BY <1>1, <1>5, <2>1, <2>3 DEF Types, FinalPrune
  <2>5. \A w \in 1..Inserters : inserter[w].step = "idle" /\ inserter'[w] = inserter[w]
    BY <1>5 DEF FinalPrune, VamanaInv, StepsInv
  <2>6. StepsInv' /\ CopyInv'
    BY <2>5 DEF StepsInv, CopyInv
  <2>7. UnpublishedInv'
    BY <1>4, <1>5 DEF FinalPrune, UnpublishedInv
  <2> QED BY <1>5, <2>4, <2>6, <2>7 DEF VamanaInv, FinalPrune
<1>6. CASE FinishBuild
  <2>1. Positions' = Positions /\ SeedEnd' = SeedEnd /\ Worker' = Worker
    BY <1>2, <1>6 DEF FinishBuild
  <2>2. Types'
    BY <1>1, <1>6, <2>1 DEF Types, FinishBuild
  <2>3. \A w \in 1..Inserters : inserter[w].step = "idle" /\ inserter'[w] = inserter[w]
    BY <1>6 DEF FinishBuild, VamanaInv, StepsInv
  <2>4. StepsInv' /\ CopyInv'
    BY <2>3 DEF StepsInv, CopyInv
  <2>5. UnpublishedInv'
    BY <1>4, <1>6 DEF FinishBuild, UnpublishedInv
  <2> QED BY <1>6, <2>2, <2>4, <2>5 DEF VamanaInv, FinishBuild
<1>7. CASE CancelBuild
  <2>1. Positions' = Positions /\ SeedEnd' = SeedEnd /\ Worker' = Worker
    BY <1>2, <1>7 DEF CancelBuild
  <2>2. inserter' = [w \in 1..Inserters |-> Idle]
    BY <1>7 DEF CancelBuild
  <2>3. inserter' \in [1..Inserters -> Worker]
    BY <2>2, IdleWorker
  <2>4. Types'
    BY <1>1, <1>7, <2>1, <2>3 DEF Types, CancelBuild
  <2>5. Unpublished' = {} /\ phase' = "failed"
    BY <1>4, <1>7 DEF CancelBuild
  <2> QED BY <2>2, <2>4, <2>5, AllIdleInv
<1> QED BY <1>3, <1>5, <1>6, <1>7

LEMMA StepInv ==
  ASSUME VamanaInv, [VamanaNext]_vamanaVars
  PROVE  VamanaInv'
<1>1. CASE VamanaNext
  <2>1. CASE \E w \in 1..Inserters : Insert(w)
    <3>1. PICK w \in 1..Inserters : Insert(w)
      BY <2>1
    <3> QED BY <3>1, StartInsertInv, ExpandInv, PublishInv, LinkInv, RelinkInv DEF Insert
  <2> QED BY <1>1, <2>1, PhasesInv DEF VamanaNext
<1>2. CASE UNCHANGED vamanaVars
  <2>1. UNCHANGED <<layout, entryPoint, links, versions, phase, inserter>>
    BY <1>2 DEF vamanaVars
  <2>2. Positions' = Positions
    BY <2>1 DEF Positions
  <2>3. SeedEnd' = SeedEnd /\ Worker' = Worker
    BY <2>1, <2>2 DEF SeedEnd, Worker
  <2>4. \A w \in 1..Inserters : Schedule(w)' = Schedule(w)
    BY <2>1, <2>2, <2>3 DEF Schedule
  <2>5. Unpublished' = Unpublished
    BY <2>1, <2>2, <2>3, <2>4 DEF Unpublished, AheadOf
  <2>6. Types'
    BY <2>1, <2>2, <2>3 DEF VamanaInv, Types
  <2>7. StepsInv' /\ CopyInv'
    BY <2>1, <2>4 DEF VamanaInv, StepsInv, CopyInv
  <2>8. UnpublishedInv'
    BY <2>1, <2>2, <2>5 DEF VamanaInv, UnpublishedInv, Touched
  <2> QED BY <2>6, <2>7, <2>8 DEF VamanaInv
<1> QED BY <1>1, <1>2

\* A link that a step takes out of a list was taken out by a prune that knew it.
LEMMA StepKeepsLinks ==
  ASSUME VamanaInv, [VamanaNext]_vamanaVars, NEW p \in Positions, NEW q \in links[p] \ links'[p]
  PROVE  \/ phase = "prune" \/ phase' = "failed"
         \/ \E w \in 1..Inserters :
              /\ inserter[w].step = "relink" /\ inserter'[w] # inserter[w]
              /\ Head(inserter[w].pending) = p /\ q \in inserter[w].candidates
<1>1. CASE \E w \in 1..Inserters : Insert(w)
  <2>1. PICK w \in 1..Inserters : Insert(w)
    BY <1>1
  <2>2. CASE StartInsert(w) \/ Expand(w)
    BY <2>2 DEF StartInsert, Expand
  <2>3. CASE Publish(w) \/ Link(w)
    BY <2>3, PublishInv, LinkInv
  <2>4. CASE Relink(w)
    <3>1. links' # links
      OBVIOUS
    <3> QED BY <2>4, <3>1, RelinkInv
  <2> QED BY <2>1, <2>2, <2>3, <2>4 DEF Insert
<1>2. CASE NextPhase \/ FinalPrune \/ FinishBuild \/ CancelBuild
  BY <1>2, PhasesInv
<1>3. CASE UNCHANGED vamanaVars
  BY <1>3 DEF vamanaVars
<1> QED BY <1>1, <1>2, <1>3 DEF VamanaNext

-----------------------------------------------------------------------------

\* The invariant holds in every build: addReverseEdgeInterleaved and
\* publishVamanaNeighborsInterleaved change a list only while its version is
\* the one they know, and a node is met only after its links are published.
THEOREM VamanaSafety == VamanaInit /\ [][VamanaNext]_vamanaVars => []VamanaInv
<1>1. VamanaInit => VamanaInv
  BY InitInv
<1>2. VamanaInv /\ [VamanaNext]_vamanaVars => VamanaInv'
  BY StepInv
<1> QED BY <1>1, <1>2, PTL

\* The optimistic replacement of a neighbor list loses no link that another
\* worker added between the copy and the replacement.
THEOREM NoLinkIsLost == VamanaInit /\ [][VamanaNext]_vamanaVars => LinksNotLost
<1> DEFINE Kept ==
      layout.kind = "vamana" => \A p \in Positions : \A q \in links[p] \ links'[p] :
       \/ phase = "prune" \/ phase' = "failed"
       \/ \E w \in 1..Inserters :
            /\ inserter[w].step = "relink" /\ inserter'[w] # inserter[w]
            /\ Head(inserter[w].pending) = p /\ q \in inserter[w].candidates
<1>1. VamanaInv /\ [VamanaNext]_vamanaVars => [Kept]_vamanaVars
  BY StepKeepsLinks
<1>2. VamanaInit /\ [][VamanaNext]_vamanaVars => [][Kept]_vamanaVars
  BY <1>1, VamanaSafety, PTL
<1> QED BY <1>2 DEF LinksNotLost

-----------------------------------------------------------------------------
(* The best n of a set.                                                    *)

\* The elements of S that have fewer than n before them.
Top(S, n, R) == {p \in S : Cardinality({q \in S : <<q, p>> \in R}) < n}

\* r holds the best n elements of V.
KeepsBestOf(r, n, V, R) ==
  /\ r \subseteq V /\ IsFiniteSet(V) /\ Cardinality(r) <= n
  /\ \A x \in V : x \in r \/ (Cardinality(r) = n /\ \A q \in r : <<q, x>> \in R)

\* A full list stays full, and nothing enters it that is worse than all of it.
Improves(r, t, n, R) ==
  Cardinality(r) = n => Cardinality(t) = n /\ \A q \in t : q \in r \/ \E x \in r : <<q, x>> \in R

\* The number of the best n.
LEMMA TopCount ==
  ASSUME NEW S, IsFiniteSet(S), NEW R, StrictlyOrders(R, S), NEW n \in Nat, n <= Cardinality(S)
  PROVE  Cardinality(Top(S, n, R)) = n
<1> DEFINE T == Top(S, n, R)
           E == Enumerated(S, R)
           Rank(x) == Cardinality({q \in S : <<q, x>> \in R})
           f == [i \in 1..n |-> E[i]]
<1>0. Cardinality(S) \in Nat
  BY FS_CardinalityType
<1>1. \A i \in 1..Cardinality(S) : E[i] \in S /\ Rank(E[i]) = i - 1
  BY EnumeratedAt
<1>2. /\ \A i, j \in 1..Cardinality(S) : i < j => <<E[i], E[j]>> \in R
      /\ \A x \in S : \E i \in 1..Cardinality(S) : E[i] = x
  BY EnumeratedSorts
<1>3. \A x : x \in T <=> x \in S /\ Rank(x) < n
  BY DEF Top
<1> HIDE DEF T, E, Rank
<1>4. \A i \in 1..n : i \in 1..Cardinality(S) /\ E[i] \in T
  BY <1>0, <1>1, <1>3
<1>5. f \in [1..n -> T]
  BY <1>4
<1>6. \A x \in T : \E i \in 1..n : f[i] = x
  <2>1. SUFFICES ASSUME NEW x \in T PROVE \E i \in 1..n : f[i] = x
    OBVIOUS
  <2>2. PICK i \in 1..Cardinality(S) : E[i] = x
    BY <1>2, <1>3
  <2>3. i - 1 < n
    BY <1>1, <1>3, <2>2
  <2>4. i \in 1..n
    BY <1>0, <2>2, <2>3
  <2> QED BY <2>2, <2>4
<1>7. ASSUME NEW i \in 1..n, NEW j \in 1..n, f[i] = f[j] PROVE i = j
  <2>1. Rank(E[i]) = i - 1 /\ Rank(E[j]) = j - 1 /\ E[i] = E[j]
    BY <1>1, <1>4, <1>7
  <2> QED BY <2>1
<1>8. f \in Bijection(1..n, T)
  BY <1>5, <1>6, <1>7 DEF Bijection, Injection, Surjection, IsInjective
<1>9. IsFiniteSet(1..n) /\ Cardinality(1..n) = n
  BY FS_Interval
<1>10. ExistsBijection(1..n, T)
  BY <1>8 DEF ExistsBijection
<1> QED BY <1>9, <1>10, FS_Bijection DEF T

\* The best n of S are kept.
LEMMA TopKeeps ==
  ASSUME NEW S, IsFiniteSet(S), NEW R, StrictlyOrders(R, S), NEW n \in Nat
  PROVE  KeepsBestOf(Top(S, n, R), n, S, R)
<1> DEFINE T == Top(S, n, R)
           Rank(x) == Cardinality({q \in S : <<q, x>> \in R})
<1>0. Cardinality(S) \in Nat
  BY FS_CardinalityType
<1>1. \A x \in S : Rank(x) \in Nat /\ Rank(x) < Cardinality(S)
  BY RankBound
<1>2. \A x : x \in T <=> x \in S /\ Rank(x) < n
  BY DEF Top
<1>3. \A x, y \in S : <<x, y>> \in R => Rank(x) < Rank(y)
  BY RankGrows
<1>4. \A x, y \in S : x # y => <<x, y>> \in R \/ <<y, x>> \in R
  BY DEF StrictlyOrders, Orders
<1>a. n <= Cardinality(S) => Cardinality(T) = n
  BY TopCount
<1> HIDE DEF T, Rank
<1>5. CASE n <= Cardinality(S)
  <2>1. ASSUME NEW x \in S, x \notin T, NEW q \in T PROVE <<q, x>> \in R
    <3>1. Rank(q) < n /\ ~(Rank(x) < n) /\ q \in S /\ q # x
      BY <1>2, <2>1
    <3>2. ~(Rank(x) < Rank(q))
      BY <1>1, <3>1
    <3> QED BY <1>3, <1>4, <3>1, <3>2
  <2> QED BY <1>2, <1>5, <1>a, <2>1 DEF KeepsBestOf, T
<1>6. CASE ~(n <= Cardinality(S))
  <2>1. \A x \in S : Rank(x) < n
    BY <1>0, <1>1, <1>6
  <2>2. T = S
    BY <1>2, <2>1
  <2> QED BY <1>0, <1>6, <2>2 DEF KeepsBestOf, T
<1> QED BY <1>5, <1>6

\* What keeps the best of V, cut again with more elements, keeps the best of all.
LEMMA KeepsMore ==
  ASSUME NEW R, NEW n \in Nat, NEW V, NEW r, KeepsBestOf(r, n, V, R),
         NEW B, IsFiniteSet(B), StrictlyOrders(R, V \cup B)
  PROVE  /\ KeepsBestOf(Top(r \cup B, n, R), n, V \cup B, R)
         /\ Improves(r, Top(r \cup B, n, R), n, R)
<1> DEFINE t == Top(r \cup B, n, R)
<1>1. /\ r \subseteq V /\ IsFiniteSet(V) /\ IsFiniteSet(r) /\ IsFiniteSet(r \cup B) /\ IsFiniteSet(V \cup B)
      /\ Cardinality(r) \in Nat
  BY FS_Subset, FS_Union, FS_CardinalityType DEF KeepsBestOf
<1>2. StrictlyOrders(R, r \cup B)
  BY <1>1 DEF StrictlyOrders, Orders
<1>3. KeepsBestOf(t, n, r \cup B, R)
  BY <1>1, <1>2, TopKeeps
<1> HIDE DEF t
<1>4. /\ t \subseteq r \cup B /\ IsFiniteSet(t) /\ Cardinality(t) \in Nat /\ Cardinality(t) <= n
      /\ \A x \in r \cup B : x \in t \/ (Cardinality(t) = n /\ \A q \in t : <<q, x>> \in R)
  BY <1>1, <1>3, FS_Subset, FS_CardinalityType DEF KeepsBestOf
<1>5. ASSUME Cardinality(r) = n PROVE Cardinality(t) = n
  <2>1. CASE r \subseteq t
    <3>1. Cardinality(r) <= Cardinality(t)
      BY <1>4, <2>1, FS_Subset
    <3> QED BY <1>1, <1>4, <1>5, <3>1
  <2>2. CASE ~(r \subseteq t)
    BY <1>4, <2>2
  <2> QED BY <2>1, <2>2
<1>6. ASSUME Cardinality(r) = n, NEW q \in t, q \notin r PROVE \E x \in r : <<q, x>> \in R
  <2>1. CASE r \subseteq t
    <3>1. Cardinality(r) = Cardinality(t) => r = t
      BY <1>4, <2>1, FS_Subset
    <3> QED BY <1>5, <1>6, <3>1
  <2>2. CASE ~(r \subseteq t)
    <3>1. PICK x \in r : x \notin t
      BY <2>2
    <3> QED BY <1>4, <1>6, <3>1
  <2> QED BY <2>1, <2>2
<1>7. Improves(r, t, n, R)
  BY <1>5, <1>6 DEF Improves
<1>8. ASSUME NEW x \in V \cup B, x \notin t PROVE Cardinality(t) = n /\ \A q \in t : <<q, x>> \in R
  <2>1. CASE x \in r \cup B
    BY <1>4, <1>8, <2>1
  <2>2. CASE x \notin r \cup B
    <3>1. x \in V /\ Cardinality(r) = n /\ \A y \in r : <<y, x>> \in R
      BY <1>8, <2>2 DEF KeepsBestOf
    <3>2. ASSUME NEW q \in t PROVE <<q, x>> \in R
      <4>1. CASE q \in r
        BY <3>1, <4>1
      <4>2. CASE q \notin r
        <5>1. PICK y \in r : <<q, y>> \in R
          BY <1>6, <3>1, <4>2
        <5>2. q \in V \cup B /\ y \in V \cup B /\ x \in V \cup B /\ <<y, x>> \in R
          BY <1>1, <1>4, <3>1
        <5> QED BY <5>1, <5>2 DEF StrictlyOrders, Orders
      <4> QED BY <4>1, <4>2
    <3> QED BY <1>5, <3>1, <3>2
  <2> QED BY <2>1, <2>2
<1> QED BY <1>1, <1>4, <1>7, <1>8 DEF KeepsBestOf, t

\* One more element: it is added, takes the place of the worst, or is dropped.
LEMMA KeepsOne ==
  ASSUME NEW R, NEW n \in Nat \ {0}, NEW V, NEW r, KeepsBestOf(r, n, V, R),
         NEW p, p \notin V, StrictlyOrders(R, V \cup {p})
  PROVE  /\ Cardinality(r) < n => KeepsBestOf(r \cup {p}, n, V \cup {p}, R)
         /\ \A w \in r : Cardinality(r) = n /\ IsLast(w, R, r) =>
              IF <<p, w>> \in R THEN KeepsBestOf((r \ {w}) \cup {p}, n, V \cup {p}, R)
              ELSE KeepsBestOf(r, n, V \cup {p}, R)
<1>1. /\ r \subseteq V /\ IsFiniteSet(V) /\ IsFiniteSet(r) /\ IsFiniteSet(V \cup {p}) /\ Cardinality(r) \in Nat
      /\ Cardinality(r) <= n /\ p \notin r
      /\ \A x \in V : x \in r \/ (Cardinality(r) = n /\ \A q \in r : <<q, x>> \in R)
  BY FS_Subset, FS_AddElement, FS_CardinalityType DEF KeepsBestOf
<1>2. /\ \A x, y \in V \cup {p} : x # y => <<x, y>> \in R \/ <<y, x>> \in R
      /\ \A x, y, z \in V \cup {p} : <<x, y>> \in R /\ <<y, z>> \in R => <<x, z>> \in R
  BY DEF StrictlyOrders, Orders
<1>3. ASSUME Cardinality(r) < n PROVE KeepsBestOf(r \cup {p}, n, V \cup {p}, R)
  <2>1. Cardinality(r \cup {p}) = Cardinality(r) + 1
    BY <1>1, FS_AddElement
  <2>2. \A x \in V : x \in r
    BY <1>1, <1>3
  <2> QED BY <1>1, <1>3, <2>1, <2>2 DEF KeepsBestOf
<1>4. ASSUME NEW w \in r, Cardinality(r) = n, IsLast(w, R, r), <<p, w>> \in R
      PROVE  KeepsBestOf((r \ {w}) \cup {p}, n, V \cup {p}, R)
  <2> DEFINE s == r \ {w}
             t == s \cup {p}
  <2>1. IsFiniteSet(s) /\ Cardinality(s) = n - 1
    BY <1>1, <1>4, FS_RemoveElement
  <2>2. Cardinality(t) = n
    <3>1. p \notin s
      BY <1>1
    <3> HIDE DEF s
    <3>2. Cardinality(s \cup {p}) = Cardinality(s) + 1
      BY <2>1, <3>1, FS_AddElement
    <3> QED BY <2>1, <3>2
  <2>3. \A q \in t : <<q, w>> \in R /\ q \in V \cup {p}
    BY <1>1, <1>4 DEF IsLast
  <2>4. ASSUME NEW x \in V \cup {p}, x \notin t, NEW q \in t PROVE <<q, x>> \in R
    <3>1. CASE x = w
      BY <2>3, <3>1
    <3>2. CASE x # w
      <4>1. x \in V /\ x \notin r
        BY <2>4, <3>2
      <4>2. <<w, x>> \in R /\ w \in V \cup {p}
        BY <1>1, <4>1
      <4> QED BY <1>2, <2>3, <4>1, <4>2
    <3> QED BY <3>1, <3>2
  <2>5. t \subseteq V \cup {p}
    BY <1>1
  <2> HIDE DEF t
  <2>6. KeepsBestOf(t, n, V \cup {p}, R)
    BY <1>1, <2>2, <2>4, <2>5 DEF KeepsBestOf
  <2> QED BY <2>6 DEF t
<1>5. ASSUME NEW w \in r, Cardinality(r) = n, IsLast(w, R, r), <<p, w>> \notin R
      PROVE  KeepsBestOf(r, n, V \cup {p}, R)
  <2>1. <<w, p>> \in R /\ w \in V \cup {p}
    BY <1>1, <1>2, <1>5
  <2>2. \A q \in r : q \in V \cup {p} /\ (q = w \/ <<q, w>> \in R)
    BY <1>1, <1>5 DEF IsLast
  <2>3. \A q \in r : <<q, p>> \in R
    BY <1>2, <2>1, <2>2
  <2> QED BY <1>1, <1>5, <2>3 DEF KeepsBestOf
<1> QED BY <1>3, <1>4, <1>5

\* Of finitely many ordered elements one is first.
LEMMA FirstOfFinite ==
  ASSUME NEW S, IsFiniteSet(S), S # {}, NEW R, StrictlyOrders(R, S)
  PROVE  \E m \in S : \A x \in S \ {m} : <<m, x>> \in R
<1>1. Cardinality(S) \in Nat /\ Cardinality(S) # 0
  BY FS_CardinalityType, FS_EmptySet
<1>2. 1 \in 1..Cardinality(S)
  BY <1>1
<1>3. PICK m \in S : Cardinality({q \in S : <<q, m>> \in R}) = 1 - 1
  BY <1>2, RankExists
<1>4. IsFiniteSet({q \in S : <<q, m>> \in R})
  BY FS_Subset
<1>5. {q \in S : <<q, m>> \in R} = {}
  BY <1>3, <1>4, FS_EmptySet
<1> QED BY <1>5 DEF StrictlyOrders, Orders

\* An order of a set is one of its subsets.
LEMMA OrdersSubset ==
  ASSUME NEW R, NEW S, StrictlyOrders(R, S), NEW T \in SUBSET S
  PROVE  StrictlyOrders(R, T)
  BY DEF StrictlyOrders, Orders

-----------------------------------------------------------------------------
(* The orders of the nodes.                                                *)

Valid == ValidTraversal(traversal)

NodeOrder == {x \in Nodes \X Nodes : NodeBetter(x[1], x[2])}
ResultOrder == {x \in Nodes \X Nodes : ResultNodeBetter(x[1], x[2])}
QueueOrder == {x \in Nodes \X Nodes : QueueBetter(x[1], x[2])}

\* The nodes and their scores.
LEMMA NodeFacts ==
  ASSUME Valid
  PROVE  /\ Nodes = 1..Len(traversal.score) /\ Len(traversal.score) \in Nat /\ IsFiniteSet(Nodes)
         /\ Cardinality(Nodes) = Len(traversal.score) /\ Nodes # {} /\ Nodes \subseteq Nat
         /\ \A p \in Nodes : traversal.score[p] \in Int /\ traversal.key[p] \in Int /\ traversal.code[p] \in Int
         /\ \A p, q \in Nodes : traversal.key[p] = traversal.key[q] => p = q
<1>1. /\ traversal.score \in Seq(Int) /\ traversal.entryPoint \in DOMAIN traversal.score
      /\ \A p, q \in DOMAIN traversal.score :
           {traversal.key[p], traversal.code[p]} \subseteq Int /\ (traversal.key[p] = traversal.key[q] => p = q)
  BY DEF Valid, ValidTraversal
<1>2. Nodes = 1..Len(traversal.score) /\ Len(traversal.score) \in Nat /\ \A p \in Nodes : traversal.score[p] \in Int
  BY <1>1 DEF Nodes
<1>3. IsFiniteSet(1..Len(traversal.score)) /\ Cardinality(1..Len(traversal.score)) = Len(traversal.score)
  BY <1>2, FS_Interval
<1>4. Nodes # {} /\ \A p, q \in Nodes : traversal.key[p] \in Int /\ traversal.code[p] \in Int /\ (traversal.key[p] = traversal.key[q] => p = q)
  BY <1>1 DEF Nodes
<1> QED BY <1>2, <1>3, <1>4

\* Each order is strict and total.
LEMMA NodeOrders ==
  ASSUME Valid
  PROVE  /\ StrictlyOrders(NodeOrder, Nodes) /\ StrictlyOrders(ResultOrder, Nodes) /\ StrictlyOrders(QueueOrder, Nodes)
         /\ \A p, q \in Nodes : /\ <<p, q>> \in NodeOrder <=> NodeBetter(p, q)
                                /\ <<p, q>> \in ResultOrder <=> ResultNodeBetter(p, q)
                                /\ <<p, q>> \in QueueOrder <=> QueueBetter(p, q)
<1>1. \A p, q \in Nodes : /\ <<p, q>> \in NodeOrder <=> NodeBetter(p, q)
                          /\ <<p, q>> \in ResultOrder <=> ResultNodeBetter(p, q)
                          /\ <<p, q>> \in QueueOrder <=> QueueBetter(p, q)
  BY DEF NodeOrder, ResultOrder, QueueOrder
<1>2. /\ Nodes \subseteq Nat
      /\ \A p \in Nodes : traversal.score[p] \in Int /\ traversal.key[p] \in Int /\ traversal.code[p] \in Int
      /\ \A p, q \in Nodes : traversal.key[p] = traversal.key[q] => p = q
  BY NodeFacts
<1> HIDE DEF Nodes
<1>3. StrictlyOrders(NodeOrder, Nodes)
  <2>1. \A p, q \in Nodes : p # q => NodeBetter(p, q) \/ NodeBetter(q, p)
    BY <1>2 DEF NodeBetter
  <2>2. \A p, q, o \in Nodes : NodeBetter(p, q) /\ NodeBetter(q, o) => NodeBetter(p, o)
    BY <1>2 DEF NodeBetter
  <2>3. \A p \in Nodes : ~NodeBetter(p, p)
    BY <1>2 DEF NodeBetter
  <2> QED BY <1>1, <2>1, <2>2, <2>3 DEF StrictlyOrders, Orders
<1>4. StrictlyOrders(ResultOrder, Nodes)
  <2>1. \A p, q \in Nodes : p # q => ResultNodeBetter(p, q) \/ ResultNodeBetter(q, p)
    BY <1>2 DEF ResultNodeBetter
  <2>2. \A p, q, o \in Nodes : ResultNodeBetter(p, q) /\ ResultNodeBetter(q, o) => ResultNodeBetter(p, o)
    BY <1>2 DEF ResultNodeBetter
  <2>3. \A p \in Nodes : ~ResultNodeBetter(p, p)
    BY <1>2 DEF ResultNodeBetter
  <2> QED BY <1>1, <2>1, <2>2, <2>3 DEF StrictlyOrders, Orders
<1>5. StrictlyOrders(QueueOrder, Nodes)
  <2>1. \A p, q \in Nodes : p # q => QueueBetter(p, q) \/ QueueBetter(q, p)
    BY <1>2 DEF QueueBetter
  <2>2. \A p, q, o \in Nodes : QueueBetter(p, q) /\ QueueBetter(q, o) => QueueBetter(p, o)
    BY <1>2 DEF QueueBetter
  <2>3. \A p \in Nodes : ~QueueBetter(p, p)
    BY <1>2 DEF QueueBetter
  <2> QED BY <1>1, <2>1, <2>2, <2>3 DEF StrictlyOrders, Orders
<1> QED BY <1>1, <1>3, <1>4, <1>5

\* The first and the last of a set of nodes.
LEMMA FirstAndLast ==
  ASSUME Valid, NEW S \in SUBSET Nodes, S # {}
  PROVE  /\ NearestNode(S) \in S /\ \A q \in S \ {NearestNode(S)} : NodeBetter(NearestNode(S), q)
         /\ BestResult(S) \in S /\ \A q \in S \ {BestResult(S)} : ResultNodeBetter(BestResult(S), q)
         /\ WorstResult(S) \in S /\ \A q \in S \ {WorstResult(S)} : ResultNodeBetter(q, WorstResult(S))
         /\ WorstQueued(S) \in S /\ \A q \in S \ {WorstQueued(S)} : QueueBetter(q, WorstQueued(S))
<1>1. IsFiniteSet(S) /\ StrictlyOrders(NodeOrder, S) /\ StrictlyOrders(ResultOrder, S) /\ StrictlyOrders(QueueOrder, S)
  BY NodeFacts, NodeOrders, OrdersSubset, FS_Subset
<1>2. \A p, q \in S : /\ <<p, q>> \in NodeOrder <=> NodeBetter(p, q)
                      /\ <<p, q>> \in ResultOrder <=> ResultNodeBetter(p, q)
                      /\ <<p, q>> \in QueueOrder <=> QueueBetter(p, q)
  BY NodeOrders
<1>3. \E m \in S : \A x \in S \ {m} : NodeBetter(m, x)
  <2>1. PICK m \in S : \A x \in S \ {m} : <<m, x>> \in NodeOrder
    BY <1>1, FirstOfFinite
  <2> QED BY <1>2, <2>1
<1>4. \E m \in S : \A x \in S \ {m} : ResultNodeBetter(m, x)
  <2>1. PICK m \in S : \A x \in S \ {m} : <<m, x>> \in ResultOrder
    BY <1>1, FirstOfFinite
  <2> QED BY <1>2, <2>1
<1>5. \E m \in S : \A x \in S \ {m} : ResultNodeBetter(x, m)
  <2>1. PICK m : IsLast(m, ResultOrder, S)
    BY <1>1, LastOfFinite DEF StrictlyOrders
  <2> QED BY <1>2, <2>1 DEF IsLast
<1>6. \E m \in S : \A x \in S \ {m} : QueueBetter(x, m)
  <2>1. PICK m : IsLast(m, QueueOrder, S)
    BY <1>1, LastOfFinite DEF StrictlyOrders
  <2> QED BY <1>2, <2>1 DEF IsLast
<1>7. NearestNode(S) \in S /\ \A q \in S \ {NearestNode(S)} : NodeBetter(NearestNode(S), q)
  BY <1>3 DEF NearestNode
<1>8. BestResult(S) \in S /\ \A q \in S \ {BestResult(S)} : ResultNodeBetter(BestResult(S), q)
  BY <1>4 DEF BestResult
<1>9. WorstResult(S) \in S /\ \A q \in S \ {WorstResult(S)} : ResultNodeBetter(q, WorstResult(S))
  BY <1>5 DEF WorstResult
<1>10. WorstQueued(S) \in S /\ \A q \in S \ {WorstQueued(S)} : QueueBetter(q, WorstQueued(S))
  BY <1>6 DEF WorstQueued
<1> QED BY <1>7, <1>8, <1>9, <1>10

\* Closest keeps the best.
LEMMA ClosestTop ==
  ASSUME Valid, NEW S \in SUBSET Nodes, NEW n
  PROVE  Closest(S, n) = Top(S, n, ResultOrder)
<1>1. \A p \in S : {q \in S : ResultNodeBetter(q, p)} = {q \in S : <<q, p>> \in ResultOrder}
  BY NodeOrders
<1> QED BY <1>1 DEF Closest, Top

\* The size of the heap.
LEMMA HeapSizeFacts ==
  ASSUME Valid
  PROVE  HeapSize \in Nat \ {0} /\ Wanted \in Nat /\ traversal.topK \in Nat \ {0} /\ traversal.groupCount \in Nat
<1>1. traversal.ef \in Nat \ {0} /\ traversal.topK \in Nat \ {0} /\ traversal.groupCount \in Nat
  BY DEF Valid, ValidTraversal
<1>2. Wanted \in Nat \ {0}
  <2>1. CASE traversal.groupCount > 0
    <3>1. \A a, b \in Nat \ {0} : a * b \in Nat \ {0}
      OBVIOUS
    <3> QED BY <1>1, <2>1, <3>1 DEF Wanted
  <2>2. CASE ~(traversal.groupCount > 0)
    BY <1>1, <2>2 DEF Wanted
  <2> QED BY <2>1, <2>2
<1>3. Max({traversal.ef, Wanted}) \in Nat \ {0}
  <2>1. IsFiniteSet({traversal.ef, Wanted})
    <3>1. IsFiniteSet({traversal.ef}) /\ {traversal.ef, Wanted} = {traversal.ef} \cup {Wanted}
      BY FS_Singleton
    <3> QED BY <3>1, FS_AddElement
  <2>2. Max({traversal.ef, Wanted}) \in {traversal.ef, Wanted}
    BY <1>1, <1>2, <2>1, MaxOfNats
  <2> QED BY <1>1, <1>2, <2>2
<1>4. Cardinality(Nodes) \in Nat \ {0}
  BY NodeFacts, FS_EmptySet
<1>5. Min({Cardinality(Nodes), Max({traversal.ef, Wanted})}) \in Nat \ {0}
  <2> DEFINE S == {Cardinality(Nodes), Max({traversal.ef, Wanted})}
  <2>1. S \in SUBSET (Nat \ {0}) /\ S # {}
    BY <1>3, <1>4
  <2>2. Min(S) \in S
    <3> HIDE DEF S
    <3> QED BY <2>1, MinOfNats
  <2> QED BY <2>1, <2>2
<1> QED BY <1>1, <1>2, <1>3, <1>5 DEF HeapSize

-----------------------------------------------------------------------------
(* Sequences of nodes.                                                     *)

AllDistinct(s) == \A i, j \in 1..Len(s) : s[i] = s[j] => i = j

\* u has the elements of s at the positions I, all of them in S.
Picks(u, s, I, S) ==
  /\ u \in Seq(S) /\ ToSet(u) = {s[i] : i \in I}
  /\ (\A i, j \in I : s[i] = s[j] => i = j) => AllDistinct(u)

\* The elements at some positions, in their order.
LEMMA Picked ==
  ASSUME NEW S, NEW s, NEW I \in SUBSET Nat, IsFiniteSet(I), \A i \in I : s[i] \in S, NEW u,
         u = [i \in DOMAIN Ascending(I) |-> s[Ascending(I)[i]]]
  PROVE  Picks(u, s, I, S)
<1> DEFINE at == Ascending(I)
           n == Len(at)
<1>2. /\ at \in Seq(I) /\ \A x \in I : \E i \in 1..n : at[i] = x
      /\ \A i, j \in 1..n : i < j => at[i] < at[j]
  BY AscendingSorts
<1> HIDE DEF at
<1>3. n \in Nat /\ DOMAIN at = 1..n /\ \A i \in 1..n : at[i] \in I /\ at[i] \in Nat
  <2>1. n \in Nat /\ DOMAIN at = 1..n
    BY <1>2
  <2>2. \A i \in 1..n : at[i] \in I
    BY <1>2
  <2> QED BY <2>1, <2>2
<1> HIDE DEF n
<1>4. u = [i \in 1..n |-> s[at[i]]] /\ \A i \in 1..n : s[at[i]] \in S
  BY <1>3 DEF at
<1>5. u \in Seq(S) /\ Len(u) = n
  BY <1>3, <1>4
<1>6. DOMAIN u = 1..n /\ \A i \in 1..n : u[i] = s[at[i]]
  BY <1>4
<1>7. ToSet(u) = {s[i] : i \in I}
  <2>1. ASSUME NEW x \in ToSet(u) PROVE x \in {s[i] : i \in I}
    BY <1>3, <1>6 DEF ToSet
  <2>2. ASSUME NEW j \in I PROVE s[j] \in ToSet(u)
    <3>1. PICK i \in 1..n : at[i] = j
      BY <1>2 DEF n
    <3> QED BY <1>6, <3>1 DEF ToSet
  <2> QED BY <2>1, <2>2
<1>8. ASSUME \A i, j \in I : s[i] = s[j] => i = j, NEW i \in 1..n, NEW j \in 1..n, u[i] = u[j] PROVE i = j
  <2>1. at[i] = at[j]
    BY <1>3, <1>6, <1>8
  <2>2. ~(i < j) /\ ~(j < i)
    BY <1>2, <1>3, <2>1 DEF n
  <2> QED BY <1>3, <2>2
<1> QED BY <1>5, <1>7, <1>8 DEF AllDistinct, Picks

\* The links of a node.
LEMMA Links ==
  ASSUME Valid, NEW p \in Nodes, NEW level \in 0..(Len(traversal.layers) - 1)
  PROVE  Adjacent(p, level) \in Seq(Nodes) /\ ToSet(Adjacent(p, level)) \subseteq Nodes
<1> DEFINE Layer == [Nodes -> Seq(Nodes)]
<1>1. traversal.layers \in Seq(Layer)
  BY DEF Valid, ValidTraversal, Nodes
<1> HIDE DEF Layer
<1>2. Len(traversal.layers) \in Nat /\ level + 1 \in 1..Len(traversal.layers)
  BY <1>1
<1>a. traversal.layers[level + 1] \in Layer
  BY <1>1, <1>2
<1>3. traversal.layers[level + 1] \in [Nodes -> Seq(Nodes)]
  BY <1>a DEF Layer
<1>4. Adjacent(p, level) \in Seq(Nodes)
  BY <1>3 DEF Adjacent
<1> QED BY <1>4 DEF ToSet

-----------------------------------------------------------------------------
(* Marks.                                                                  *)

MarkRecord == [marks : Seq(Nat), generation : Nat]
MarksHold(v) == v \in MarkRecord /\ \A p \in DOMAIN v.marks : v.marks[p] <= v.generation
Sized(v) == Nodes \subseteq DOMAIN v.marks
MarkedIn(v) == {p \in Nodes : Marked(v, p)}
Blank(v) == Sized(v) /\ MarkedIn(v) = {}

\* Marking nodes.
LEMMA MarkAdds ==
  ASSUME Valid, NEW v, MarksHold(v), Sized(v), NEW S \in SUBSET Nodes
  PROVE  MarksHold(Mark(v, S)) /\ Sized(Mark(v, S)) /\ MarkedIn(Mark(v, S)) = MarkedIn(v) \cup S
<1> DEFINE m == [p \in DOMAIN v.marks |-> IF p \in S THEN v.generation ELSE v.marks[p]]
<1>1. v \in MarkRecord /\ v.marks \in Seq(Nat) /\ v.generation \in Nat /\ \A p \in DOMAIN v.marks : v.marks[p] <= v.generation
  BY DEF MarksHold, MarkRecord
<1>2. DOMAIN v.marks = 1..Len(v.marks) /\ Len(v.marks) \in Nat /\ \A p \in 1..Len(v.marks) : v.marks[p] \in Nat
  BY <1>1
<1>3. m \in Seq(Nat) /\ DOMAIN m = DOMAIN v.marks
  BY <1>1, <1>2
<1>4. \A p \in DOMAIN v.marks : m[p] = IF p \in S THEN v.generation ELSE v.marks[p]
  OBVIOUS
<1>a. Mark(v, S) = [v EXCEPT !.marks = m]
  BY DEF Mark
<1> HIDE DEF m
<1>5. Mark(v, S) = [marks |-> m, generation |-> v.generation]
  BY <1>1, <1>a DEF MarkRecord
<1>6. Mark(v, S).marks = m /\ Mark(v, S).generation = v.generation
  BY <1>5
<1>7. MarksHold(Mark(v, S))
  <2>1. Mark(v, S) \in MarkRecord
    BY <1>1, <1>3, <1>5 DEF MarkRecord
  <2>2. ASSUME NEW p \in DOMAIN m PROVE m[p] <= v.generation
    <3>1. v.marks[p] <= v.generation /\ v.generation <= v.generation
      BY <1>1, <1>3
    <3>2. m[p] = v.generation \/ m[p] = v.marks[p]
      BY <1>3, <1>4
    <3> QED BY <3>1, <3>2
  <2> QED BY <1>6, <2>1, <2>2 DEF MarksHold
<1>8. Sized(Mark(v, S))
  BY <1>3, <1>6 DEF Sized
<1>9. \A p \in Nodes : Marked(Mark(v, S), p) <=> p \in S \/ Marked(v, p)
  BY <1>4, <1>6 DEF Marked, Sized
<1> QED BY <1>7, <1>8, <1>9 DEF MarkedIn

\* New marks.
LEMMA FreshBlank ==
  ASSUME Valid
  PROVE  MarksHold(Fresh) /\ Blank(Fresh)
<1> DEFINE m == [p \in Nodes |-> 0]
<1>1. Nodes = 1..Len(traversal.score) /\ Len(traversal.score) \in Nat
  BY NodeFacts
<1>2. m \in Seq(Nat) /\ DOMAIN m = Nodes /\ \A p \in Nodes : m[p] = 0
  BY <1>1
<1>3. Fresh = [marks |-> m, generation |-> 1]
  BY DEF Fresh
<1> HIDE DEF m
<1>4. Fresh \in MarkRecord /\ Fresh.marks = m /\ Fresh.generation = 1
  BY <1>2, <1>3 DEF MarkRecord
<1> HIDE DEF Nodes
<1> QED BY <1>2, <1>4 DEF MarksHold, Blank, Sized, MarkedIn, Marked

\* A reset leaves no mark: those that exist are of earlier generations.
LEMMA ResetBlank ==
  ASSUME Valid, NEW v, MarksHold(v)
  PROVE  MarksHold(ResetMarks(v)) /\ Blank(ResetMarks(v))
<1>1. /\ v \in MarkRecord /\ v.marks \in Seq(Nat) /\ v.generation \in Nat
      /\ \A p \in DOMAIN v.marks : v.marks[p] <= v.generation /\ v.marks[p] \in Nat
      /\ DOMAIN v.marks = 1..Len(v.marks) /\ Len(v.marks) \in Nat
  BY DEF MarksHold, MarkRecord
<1>2. Nodes = 1..Cardinality(Nodes) /\ Cardinality(Nodes) \in Nat
  BY NodeFacts
<1>3. CASE Len(v.marks) < Cardinality(Nodes)
  BY <1>3, FreshBlank DEF ResetMarks
<1>4. CASE ~(Len(v.marks) < Cardinality(Nodes))
  <2>1. Nodes \subseteq DOMAIN v.marks
    BY <1>1, <1>2, <1>4
  <2>2. CASE v.generation + 1 < Generations
    <3> DEFINE w == ResetMarks(v)
    <3>1. w = [marks |-> v.marks, generation |-> v.generation + 1]
      BY <1>1, <1>4, <2>2 DEF ResetMarks, MarkRecord
    <3>2. w \in MarkRecord /\ w.marks = v.marks /\ w.generation = v.generation + 1
      BY <1>1, <3>1 DEF MarkRecord
    <3> HIDE DEF w
    <3>3. \A p \in DOMAIN v.marks : v.marks[p] <= w.generation /\ v.marks[p] # w.generation
      BY <1>1, <3>2
    <3>4. MarksHold(w) /\ Blank(w)
      BY <2>1, <3>2, <3>3 DEF MarksHold, Blank, Sized, MarkedIn, Marked
    <3> QED BY <3>4 DEF w
  <2>3. CASE ~(v.generation + 1 < Generations)
    <3> DEFINE m == [p \in DOMAIN v.marks |-> 0]
               w == ResetMarks(v)
    <3>1. w = [marks |-> m, generation |-> 1]
      BY <1>4, <2>3 DEF ResetMarks
    <3>2. m \in Seq(Nat) /\ DOMAIN m = DOMAIN v.marks /\ \A p \in DOMAIN v.marks : m[p] = 0
      BY <1>1
    <3> HIDE DEF m, w
    <3>3. w \in MarkRecord /\ w.marks = m /\ w.generation = 1
      BY <3>1, <3>2 DEF MarkRecord
    <3>4. MarksHold(w) /\ Blank(w)
      BY <2>1, <3>2, <3>3 DEF MarksHold, Blank, Sized, MarkedIn, Marked
    <3> QED BY <3>4 DEF w
  <2> QED BY <2>2, <2>3
<1> QED BY <1>3, <1>4

\* Marks when a search starts, and when it clears them.
LEMMA AcquiredHold ==
  ASSUME Valid, NEW v, MarksHold(v)
  PROVE  MarksHold(Acquired(v)) /\ (traversal.kind # "hnsw" => Blank(Acquired(v)))
<1>1. MarksHold(Fresh) /\ Blank(Fresh) /\ MarksHold(ResetMarks(v))
  BY FreshBlank, ResetBlank
<1>2. traversal.kind # "hnsw" => Acquired(v) = Fresh
  BY DEF Acquired
<1>3. Acquired(v) = Fresh \/ Acquired(v) = v \/ Acquired(v) = ResetMarks(v)
  BY DEF Acquired
<1> QED BY <1>1, <1>2, <1>3

LEMMA ClearedBlank ==
  ASSUME Valid, NEW v, MarksHold(v), traversal.kind = "hnsw" \/ Blank(v)
  PROVE  MarksHold(Cleared(v)) /\ Blank(Cleared(v))
  BY ResetBlank DEF Cleared

\* The neighbors that a node shows.
LEMMA UnseenLists ==
  ASSUME Valid, NEW v, NEW p \in Nodes, NEW level \in 0..(Len(traversal.layers) - 1)
  PROVE  /\ Unseen(v, p, level) \in Seq(Nodes) /\ AllDistinct(Unseen(v, p, level))
         /\ ToSet(Unseen(v, p, level)) = ToSet(Adjacent(p, level)) \ MarkedIn(v)
<1> DEFINE list == Adjacent(p, level)
           I == {i \in DOMAIN list : ~Marked(v, list[i]) /\ \A j \in 1..(i - 1) : list[j] # list[i]}
           u == Unseen(v, p, level)
<1>1. list \in Seq(Nodes) /\ DOMAIN list = 1..Len(list) /\ Len(list) \in Nat
  BY Links
<1>2. u = [i \in DOMAIN Ascending(I) |-> list[Ascending(I)[i]]]
  BY DEF Unseen
<1>3. I \in SUBSET (1..Len(list))
  BY <1>1
<1>4. \A i \in 1..Len(list) : i \in I <=> ~Marked(v, list[i]) /\ \A j \in 1..(i - 1) : list[j] # list[i]
  BY <1>1
<1> HIDE DEF I, list, u
<1>a. I \in SUBSET Nat /\ IsFiniteSet(I) /\ \A i \in I : list[i] \in Nodes
  <2>1. IsFiniteSet(1..Len(list))
    BY <1>1, FS_Interval
  <2>2. IsFiniteSet(I)
    BY <1>3, <2>1, FS_Subset
  <2> QED BY <1>1, <1>3, <2>2
<1>5. u \in Seq(Nodes) /\ ToSet(u) = {list[i] : i \in I} /\ ((\A i, j \in I : list[i] = list[j] => i = j) => AllDistinct(u))
  <2>1. Picks(u, list, I, Nodes)
    BY <1>2, <1>a, Picked
  <2> QED BY <2>1 DEF Picks
<1>6. ASSUME NEW i \in I, NEW j \in I, list[i] = list[j] PROVE i = j
  <2>1. i \in 1..Len(list) /\ j \in 1..Len(list)
    BY <1>3
  <2>2. ~(i < j)
    <3>1. i < j => i \in 1..(j - 1)
      BY <1>1, <2>1
    <3> QED BY <1>4, <1>6, <2>1, <3>1
  <2>3. ~(j < i)
    <3>1. j < i => j \in 1..(i - 1)
      BY <1>1, <2>1
    <3> QED BY <1>4, <1>6, <2>1, <3>1
  <2> QED BY <1>1, <2>1, <2>2, <2>3
<1>7. ASSUME NEW k \in 1..Len(list), ~Marked(v, list[k]) PROVE \E i \in I : list[i] = list[k]
  <2> DEFINE J == {i \in 1..Len(list) : list[i] = list[k]}
  <2>1. J \in SUBSET Nat /\ J # {}
    BY <1>1
  <2>2. PICK i \in J : \A j \in J : i <= j
    <3> HIDE DEF J
    <3> QED BY <2>1, LeastNat
  <2>3. i \in 1..Len(list) /\ list[i] = list[k]
    BY <2>2
  <2>4. ASSUME NEW j \in 1..(i - 1) PROVE list[j] # list[i]
    <3>1. j \in 1..Len(list) /\ ~(i <= j)
      BY <1>1, <2>3
    <3> QED BY <2>2, <2>3, <3>1
  <2>5. i \in I
    BY <1>4, <1>7, <2>3, <2>4
  <2> QED BY <2>3, <2>5
<1>8. ToSet(u) = ToSet(list) \ MarkedIn(v)
  <2>1. \A x : x \in ToSet(list) <=> \E k \in 1..Len(list) : list[k] = x
    BY <1>1 DEF ToSet
  <2>2. \A i \in I : i \in 1..Len(list) /\ ~Marked(v, list[i])
    BY <1>3, <1>4
  <2>3. \A k \in 1..Len(list) : list[k] \in Nodes
    BY <1>1
  <2>4. ASSUME NEW x \in ToSet(u) PROVE x \in ToSet(list) /\ x \notin MarkedIn(v)
    BY <1>5, <2>1, <2>2 DEF MarkedIn
  <2>5. ASSUME NEW x \in ToSet(list), x \notin MarkedIn(v) PROVE x \in ToSet(u)
    <3>1. PICK k \in 1..Len(list) : list[k] = x
      BY <2>1
    <3>2. ~Marked(v, list[k])
      BY <2>3, <2>5, <3>1 DEF MarkedIn
    <3> QED BY <1>5, <1>7, <3>1, <3>2
  <2> QED BY <2>4, <2>5
<1> QED BY <1>5, <1>6, <1>8 DEF list, u
-----------------------------------------------------------------------------
(* Neighbors are handled one after another.                                *)

HeapPair == [frontier : SUBSET Nodes, retained : SUBSET Nodes]
UsableMarks == {v \in MarkRecord : MarksHold(v) /\ Sized(v)}
BeamState == [seen : UsableMarks, heaps : HeapPair, collected : SUBSET Nodes]
GroupState == [collected : SUBSET Nodes, marked : SUBSET Nodes, frontier : SUBSET Nodes]

LEMMA BaseLayer ==
  ASSUME Valid
  PROVE  0 \in 0..(Len(traversal.layers) - 1) /\ Len(traversal.layers) \in Nat
<1> DEFINE Layer == [Nodes -> Seq(Nodes)]
<1>1. traversal.layers \in Seq(Layer) /\ traversal.layers # <<>>
  BY DEF Valid, ValidTraversal, Nodes
<1> HIDE DEF Layer
<1> QED BY <1>1

LEMMA LayerStays ==
  ASSUME NEW h \in HeapPair, NEW p \in Nodes
  PROVE  ConsiderInLayer(h, p) \in HeapPair
  BY DEF ConsiderInLayer, Heaps, HeapPair

IsLayer(f, h, batch) ==
  f = [n \in 0..Len(batch) |-> IF n = 0 THEN h ELSE ConsiderInLayer(f[n - 1], batch[n])]

\* One neighbor after another in an upper layer.
LEMMA LayerUnfolds ==
  ASSUME Valid, NEW batch \in Seq(Nodes), NEW h \in HeapPair
  PROVE  /\ LayerAfter(h, batch)[0] = h
         /\ \A n \in 0..Len(batch) : LayerAfter(h, batch)[n] \in HeapPair
         /\ \A n \in 1..Len(batch) : LayerAfter(h, batch)[n] = ConsiderInLayer(LayerAfter(h, batch)[n - 1], batch[n])
<1> DEFINE m == Len(batch)
           X == HeapPair
           step == [q \in X \X (1..m) |-> ConsiderInLayer(q[1], batch[q[2]])]
<1>1. m \in Nat /\ \A n \in 1..m : batch[n] \in Nodes
  OBVIOUS
<1>2. ASSUME NEW H \in X, NEW n \in 1..m PROVE ConsiderInLayer(H, batch[n]) \in X
  BY <1>1, LayerStays
<1>3. step \in [X \X (1..m) -> X]
  BY <1>2
<1>4. \A H \in X, n \in 1..m : step[<<H, n>>] = ConsiderInLayer(H, batch[n])
  OBVIOUS
<1>5. h \in X
  OBVIOUS
<1> HIDE DEF step, X
<1>6. PICK f \in [0..m -> X] : Unrolls(f, m, h, step)
  BY <1>1, <1>3, <1>5, IterationExists
<1>7. ASSUME NEW n \in 0..m PROVE f[n] = IF n = 0 THEN h ELSE ConsiderInLayer(f[n - 1], batch[n])
  <2>1. CASE n = 0
    BY <1>6, <2>1 DEF Unrolls
  <2>2. CASE n # 0
    <3>1. n \in 1..m /\ f[n - 1] \in X
      BY <1>1, <2>2
    <3> QED BY <1>4, <1>6, <2>2, <3>1 DEF Unrolls
  <2> QED BY <2>1, <2>2
<1>8. f = [n \in 0..m |-> IF n = 0 THEN h ELSE ConsiderInLayer(f[n - 1], batch[n])]
  BY <1>7
<1>9. \E g : IsLayer(g, h, batch)
  BY <1>8 DEF IsLayer
<1> HIDE DEF m
<1>10. IsLayer(LayerAfter(h, batch), h, batch)
  BY <1>9 DEF LayerAfter, IsLayer
<1> DEFINE g == LayerAfter(h, batch)
<1>11. g = [n \in 0..m |-> IF n = 0 THEN h ELSE ConsiderInLayer(g[n - 1], batch[n])]
  BY <1>10 DEF IsLayer, m
<1> HIDE DEF g
<1>12. g[0] = h /\ \A n \in 1..m : g[n] = ConsiderInLayer(g[n - 1], batch[n])
  BY <1>1, <1>11
<1>13. \A n \in 0..m : n \in {o \in 0..m : g[o] \in X}
  <2> DEFINE S == {o \in 0..m : g[o] \in X}
  <2>1. 0 \in S
    BY <1>1, <1>5, <1>12
  <2>2. ASSUME NEW n \in 1..m, n - 1 \in S PROVE n \in S
    BY <1>1, <1>2, <1>12, <2>2
  <2> HIDE DEF S
  <2>3. \A n \in 0..m : n \in S
    BY <1>1, <2>1, <2>2, UpTo
  <2> QED BY <2>3 DEF S
<1> QED BY <1>12, <1>13 DEF g, m, X

LEMMA HeapsStays ==
  ASSUME NEW h \in HeapPair, NEW p \in Nodes
  PROVE  Consider(h, p) \in HeapPair
<1>1. h.frontier \in SUBSET Nodes /\ h.retained \in SUBSET Nodes
  BY DEF HeapPair
<1>2. Closest(h.retained \cup {p}, HeapSize) \in SUBSET Nodes
  BY <1>1 DEF Closest
<1>3. \A f, r \in SUBSET Nodes : Heaps(f, r) \in HeapPair
  BY DEF Heaps, HeapPair
<1> HIDE DEF Nodes
<1> QED BY <1>1, <1>2, <1>3 DEF Consider

IsHeaps(f, h, batch) ==
  f = [n \in 0..Len(batch) |-> IF n = 0 THEN h ELSE Consider(f[n - 1], batch[n])]

\* One neighbor after another in the base layer.
LEMMA HeapsUnfolds ==
  ASSUME Valid, NEW batch \in Seq(Nodes), NEW h \in HeapPair
  PROVE  /\ HeapsAfter(h, batch)[0] = h
         /\ \A n \in 0..Len(batch) : HeapsAfter(h, batch)[n] \in HeapPair
         /\ \A n \in 1..Len(batch) : HeapsAfter(h, batch)[n] = Consider(HeapsAfter(h, batch)[n - 1], batch[n])
<1> DEFINE m == Len(batch)
           X == HeapPair
           step == [q \in X \X (1..m) |-> Consider(q[1], batch[q[2]])]
<1>1. m \in Nat /\ \A n \in 1..m : batch[n] \in Nodes
  OBVIOUS
<1>2. ASSUME NEW H \in X, NEW n \in 1..m PROVE Consider(H, batch[n]) \in X
  BY <1>1, HeapsStays
<1>3. step \in [X \X (1..m) -> X]
  BY <1>2
<1>4. \A H \in X, n \in 1..m : step[<<H, n>>] = Consider(H, batch[n])
  OBVIOUS
<1>5. h \in X
  OBVIOUS
<1> HIDE DEF step, X
<1>6. PICK f \in [0..m -> X] : Unrolls(f, m, h, step)
  BY <1>1, <1>3, <1>5, IterationExists
<1>7. ASSUME NEW n \in 0..m PROVE f[n] = IF n = 0 THEN h ELSE Consider(f[n - 1], batch[n])
  <2>1. CASE n = 0
    BY <1>6, <2>1 DEF Unrolls
  <2>2. CASE n # 0
    <3>1. n \in 1..m /\ f[n - 1] \in X
      BY <1>1, <2>2
    <3> QED BY <1>4, <1>6, <2>2, <3>1 DEF Unrolls
  <2> QED BY <2>1, <2>2
<1>8. f = [n \in 0..m |-> IF n = 0 THEN h ELSE Consider(f[n - 1], batch[n])]
  BY <1>7
<1>9. \E g : IsHeaps(g, h, batch)
  BY <1>8 DEF IsHeaps
<1> HIDE DEF m
<1>10. IsHeaps(HeapsAfter(h, batch), h, batch)
  BY <1>9 DEF HeapsAfter, IsHeaps
<1> DEFINE g == HeapsAfter(h, batch)
<1>11. g = [n \in 0..m |-> IF n = 0 THEN h ELSE Consider(g[n - 1], batch[n])]
  BY <1>10 DEF IsHeaps, m
<1> HIDE DEF g
<1>12. g[0] = h /\ \A n \in 1..m : g[n] = Consider(g[n - 1], batch[n])
  BY <1>1, <1>11
<1>13. \A n \in 0..m : n \in {o \in 0..m : g[o] \in X}
  <2> DEFINE S == {o \in 0..m : g[o] \in X}
  <2>1. 0 \in S
    BY <1>1, <1>5, <1>12
  <2>2. ASSUME NEW n \in 1..m, n - 1 \in S PROVE n \in S
    BY <1>1, <1>2, <1>12, <2>2
  <2> HIDE DEF S
  <2>3. \A n \in 0..m : n \in S
    BY <1>1, <2>1, <2>2, UpTo
  <2> QED BY <2>3 DEF S
<1> QED BY <1>12, <1>13 DEF g, m, X

LEMMA QueueStays ==
  ASSUME NEW h \in HeapPair, NEW p \in Nodes
  PROVE  Queue(h, p) \in HeapPair
<1>1. h.frontier \in SUBSET Nodes /\ h.retained \in SUBSET Nodes
  BY DEF HeapPair
<1>2. \A f, r \in SUBSET Nodes : Heaps(f, r) \in HeapPair
  BY DEF Heaps, HeapPair
<1>3. \A w : (h.retained \ {w}) \cup {p} \in SUBSET Nodes
  BY <1>1
<1>4. h.frontier \cup {p} \in SUBSET Nodes /\ h.retained \cup {p} \in SUBSET Nodes
  BY <1>1
<1> QED BY <1>2, <1>3, <1>4 DEF Queue

IsQueue(f, h, batch) ==
  f = [n \in 0..Len(batch) |-> IF n = 0 THEN h ELSE Queue(f[n - 1], batch[n])]

\* One neighbor after another in the queue of DiskANN.
LEMMA QueueUnfolds ==
  ASSUME Valid, NEW batch \in Seq(Nodes), NEW h \in HeapPair
  PROVE  /\ QueueAfter(h, batch)[0] = h
         /\ \A n \in 0..Len(batch) : QueueAfter(h, batch)[n] \in HeapPair
         /\ \A n \in 1..Len(batch) : QueueAfter(h, batch)[n] = Queue(QueueAfter(h, batch)[n - 1], batch[n])
<1> DEFINE m == Len(batch)
           X == HeapPair
           step == [q \in X \X (1..m) |-> Queue(q[1], batch[q[2]])]
<1>1. m \in Nat /\ \A n \in 1..m : batch[n] \in Nodes
  OBVIOUS
<1>2. ASSUME NEW H \in X, NEW n \in 1..m PROVE Queue(H, batch[n]) \in X
  BY <1>1, QueueStays
<1>3. step \in [X \X (1..m) -> X]
  BY <1>2
<1>4. \A H \in X, n \in 1..m : step[<<H, n>>] = Queue(H, batch[n])
  OBVIOUS
<1>5. h \in X
  OBVIOUS
<1> HIDE DEF step, X
<1>6. PICK f \in [0..m -> X] : Unrolls(f, m, h, step)
  BY <1>1, <1>3, <1>5, IterationExists
<1>7. ASSUME NEW n \in 0..m PROVE f[n] = IF n = 0 THEN h ELSE Queue(f[n - 1], batch[n])
  <2>1. CASE n = 0
    BY <1>6, <2>1 DEF Unrolls
  <2>2. CASE n # 0
    <3>1. n \in 1..m /\ f[n - 1] \in X
      BY <1>1, <2>2
    <3> QED BY <1>4, <1>6, <2>2, <3>1 DEF Unrolls
  <2> QED BY <2>1, <2>2
<1>8. f = [n \in 0..m |-> IF n = 0 THEN h ELSE Queue(f[n - 1], batch[n])]
  BY <1>7
<1>9. \E g : IsQueue(g, h, batch)
  BY <1>8 DEF IsQueue
<1> HIDE DEF m
<1>10. IsQueue(QueueAfter(h, batch), h, batch)
  BY <1>9 DEF QueueAfter, IsQueue
<1> DEFINE g == QueueAfter(h, batch)
<1>11. g = [n \in 0..m |-> IF n = 0 THEN h ELSE Queue(g[n - 1], batch[n])]
  BY <1>10 DEF IsQueue, m
<1> HIDE DEF g
<1>12. g[0] = h /\ \A n \in 1..m : g[n] = Queue(g[n - 1], batch[n])
  BY <1>1, <1>11
<1>13. \A n \in 0..m : n \in {o \in 0..m : g[o] \in X}
  <2> DEFINE S == {o \in 0..m : g[o] \in X}
  <2>1. 0 \in S
    BY <1>1, <1>5, <1>12
  <2>2. ASSUME NEW n \in 1..m, n - 1 \in S PROVE n \in S
    BY <1>1, <1>2, <1>12, <2>2
  <2> HIDE DEF S
  <2>3. \A n \in 0..m : n \in S
    BY <1>1, <2>1, <2>2, UpTo
  <2> QED BY <2>3 DEF S
<1> QED BY <1>12, <1>13 DEF g, m, X

LEMMA BeamStays ==
  ASSUME Valid, NEW s \in BeamState, NEW p \in Nodes
  PROVE  ProcessNode(s, p) \in BeamState
<1> DEFINE fresh == Unseen(s.seen, p, 0)
           queued == QueueAfter(s.heaps, fresh)[Len(fresh)]
<1>1. s.seen \in UsableMarks /\ s.heaps \in HeapPair /\ s.collected \in SUBSET Nodes
  BY DEF BeamState
<1>2. 0 \in 0..(Len(traversal.layers) - 1)
  BY BaseLayer
<1>3. fresh \in Seq(Nodes) /\ ToSet(fresh) \in SUBSET Nodes
  <2>1. fresh \in Seq(Nodes) /\ ToSet(fresh) = ToSet(Adjacent(p, 0)) \ MarkedIn(s.seen)
    BY <1>2, UnseenLists
  <2>2. ToSet(Adjacent(p, 0)) \subseteq Nodes
    BY <1>2, Links
  <2> QED BY <2>1, <2>2
<1>4. Len(fresh) \in 0..Len(fresh)
  BY <1>3
<1>5. queued \in HeapPair
  BY <1>1, <1>3, <1>4, QueueUnfolds
<1>6. Mark(s.seen, ToSet(fresh)) \in UsableMarks
  BY <1>1, <1>3, MarkAdds DEF UsableMarks, MarksHold
<1>7. Collect(s.collected, p) \in SUBSET Nodes
  BY <1>1 DEF Collect, Closest
<1>8. ProcessNode(s, p) = [seen |-> Mark(s.seen, ToSet(fresh)), heaps |-> queued, collected |-> Collect(s.collected, p)]
  BY DEF ProcessNode
<1> HIDE DEF fresh, queued
<1> QED BY <1>5, <1>6, <1>7, <1>8 DEF BeamState

IsBeam(f, s, batch) ==
  f = [n \in 0..Len(batch) |-> IF n = 0 THEN s ELSE ProcessNode(f[n - 1], batch[n])]

\* One node after another of a batch.
LEMMA BeamUnfolds ==
  ASSUME Valid, NEW batch \in Seq(Nodes), NEW s \in BeamState
  PROVE  /\ BeamAfter(s, batch)[0] = s
         /\ \A n \in 0..Len(batch) : BeamAfter(s, batch)[n] \in BeamState
         /\ \A n \in 1..Len(batch) : BeamAfter(s, batch)[n] = ProcessNode(BeamAfter(s, batch)[n - 1], batch[n])
<1> DEFINE m == Len(batch)
           X == BeamState
           step == [q \in X \X (1..m) |-> ProcessNode(q[1], batch[q[2]])]
<1>1. m \in Nat /\ \A n \in 1..m : batch[n] \in Nodes
  OBVIOUS
<1>2. ASSUME NEW H \in X, NEW n \in 1..m PROVE ProcessNode(H, batch[n]) \in X
  BY <1>1, BeamStays
<1>3. step \in [X \X (1..m) -> X]
  BY <1>2
<1>4. \A H \in X, n \in 1..m : step[<<H, n>>] = ProcessNode(H, batch[n])
  OBVIOUS
<1>5. s \in X
  OBVIOUS
<1> HIDE DEF step, X
<1>6. PICK f \in [0..m -> X] : Unrolls(f, m, s, step)
  BY <1>1, <1>3, <1>5, IterationExists
<1>7. ASSUME NEW n \in 0..m PROVE f[n] = IF n = 0 THEN s ELSE ProcessNode(f[n - 1], batch[n])
  <2>1. CASE n = 0
    BY <1>6, <2>1 DEF Unrolls
  <2>2. CASE n # 0
    <3>1. n \in 1..m /\ f[n - 1] \in X
      BY <1>1, <2>2
    <3> QED BY <1>4, <1>6, <2>2, <3>1 DEF Unrolls
  <2> QED BY <2>1, <2>2
<1>8. f = [n \in 0..m |-> IF n = 0 THEN s ELSE ProcessNode(f[n - 1], batch[n])]
  BY <1>7
<1>9. \E g : IsBeam(g, s, batch)
  BY <1>8 DEF IsBeam
<1> HIDE DEF m
<1>10. IsBeam(BeamAfter(s, batch), s, batch)
  BY <1>9 DEF BeamAfter, IsBeam
<1> DEFINE g == BeamAfter(s, batch)
<1>11. g = [n \in 0..m |-> IF n = 0 THEN s ELSE ProcessNode(g[n - 1], batch[n])]
  BY <1>10 DEF IsBeam, m
<1> HIDE DEF g
<1>12. g[0] = s /\ \A n \in 1..m : g[n] = ProcessNode(g[n - 1], batch[n])
  BY <1>1, <1>11
<1>13. \A n \in 0..m : n \in {o \in 0..m : g[o] \in X}
  <2> DEFINE S == {o \in 0..m : g[o] \in X}
  <2>1. 0 \in S
    BY <1>1, <1>5, <1>12
  <2>2. ASSUME NEW n \in 1..m, n - 1 \in S PROVE n \in S
    BY <1>1, <1>2, <1>12, <2>2
  <2> HIDE DEF S
  <2>3. \A n \in 0..m : n \in S
    BY <1>1, <2>1, <2>2, UpTo
  <2> QED BY <2>3 DEF S
<1> QED BY <1>12, <1>13 DEF g, m, X

LEMMA GroupsStays ==
  ASSUME NEW s \in GroupState, NEW p \in Nodes
  PROVE  AddToGroups(s, p) \in GroupState
<1>1. s.collected \in SUBSET Nodes /\ s.marked \in SUBSET Nodes /\ s.frontier \in SUBSET Nodes
  BY DEF GroupState
<1>2. \A c, m, f \in SUBSET Nodes : [collected |-> c, marked |-> m, frontier |-> f] \in GroupState
  BY DEF GroupState
<1>3. /\ s.collected \cup {p} \in SUBSET Nodes /\ s.marked \cup {p} \in SUBSET Nodes /\ s.frontier \cup {p} \in SUBSET Nodes
  BY <1>1
<1> QED BY <1>1, <1>2, <1>3 DEF AddToGroups

IsGroups(f, s, batch) ==
  f = [n \in 0..Len(batch) |-> IF n = 0 THEN s ELSE AddToGroups(f[n - 1], batch[n])]

\* One neighbor after another for the groups.
LEMMA GroupsUnfolds ==
  ASSUME Valid, NEW batch \in Seq(Nodes), NEW s \in GroupState
  PROVE  /\ GroupsAfter(s, batch)[0] = s
         /\ \A n \in 0..Len(batch) : GroupsAfter(s, batch)[n] \in GroupState
         /\ \A n \in 1..Len(batch) : GroupsAfter(s, batch)[n] = AddToGroups(GroupsAfter(s, batch)[n - 1], batch[n])
<1> DEFINE m == Len(batch)
           X == GroupState
           step == [q \in X \X (1..m) |-> AddToGroups(q[1], batch[q[2]])]
<1>1. m \in Nat /\ \A n \in 1..m : batch[n] \in Nodes
  OBVIOUS
<1>2. ASSUME NEW H \in X, NEW n \in 1..m PROVE AddToGroups(H, batch[n]) \in X
  BY <1>1, GroupsStays
<1>3. step \in [X \X (1..m) -> X]
  BY <1>2
<1>4. \A H \in X, n \in 1..m : step[<<H, n>>] = AddToGroups(H, batch[n])
  OBVIOUS
<1>5. s \in X
  OBVIOUS
<1> HIDE DEF step, X
<1>6. PICK f \in [0..m -> X] : Unrolls(f, m, s, step)
  BY <1>1, <1>3, <1>5, IterationExists
<1>7. ASSUME NEW n \in 0..m PROVE f[n] = IF n = 0 THEN s ELSE AddToGroups(f[n - 1], batch[n])
  <2>1. CASE n = 0
    BY <1>6, <2>1 DEF Unrolls
  <2>2. CASE n # 0
    <3>1. n \in 1..m /\ f[n - 1] \in X
      BY <1>1, <2>2
    <3> QED BY <1>4, <1>6, <2>2, <3>1 DEF Unrolls
  <2> QED BY <2>1, <2>2
<1>8. f = [n \in 0..m |-> IF n = 0 THEN s ELSE AddToGroups(f[n - 1], batch[n])]
  BY <1>7
<1>9. \E g : IsGroups(g, s, batch)
  BY <1>8 DEF IsGroups
<1> HIDE DEF m
<1>10. IsGroups(GroupsAfter(s, batch), s, batch)
  BY <1>9 DEF GroupsAfter, IsGroups
<1> DEFINE g == GroupsAfter(s, batch)
<1>11. g = [n \in 0..m |-> IF n = 0 THEN s ELSE AddToGroups(g[n - 1], batch[n])]
  BY <1>10 DEF IsGroups, m
<1> HIDE DEF g
<1>12. g[0] = s /\ \A n \in 1..m : g[n] = AddToGroups(g[n - 1], batch[n])
  BY <1>1, <1>11
<1>13. \A n \in 0..m : n \in {o \in 0..m : g[o] \in X}
  <2> DEFINE S == {o \in 0..m : g[o] \in X}
  <2>1. 0 \in S
    BY <1>1, <1>5, <1>12
  <2>2. ASSUME NEW n \in 1..m, n - 1 \in S PROVE n \in S
    BY <1>1, <1>2, <1>12, <2>2
  <2> HIDE DEF S
  <2>3. \A n \in 0..m : n \in S
    BY <1>1, <2>1, <2>2, UpTo
  <2> QED BY <2>3 DEF S
<1> QED BY <1>12, <1>13 DEF g, m, X

-----------------------------------------------------------------------------
(* The invariant of a search.                                              *)

AcceptedNodes == {p \in Nodes : AcceptNode(p)}
Behind == [p \in Nodes |-> ToSet(Adjacent(p, 0))]

\* A full list whose nodes all score better than p.
Worse(r, p) == Cardinality(r) = HeapSize /\ \A q \in r : traversal.score[q] < traversal.score[p]

\* A descent holds the nearest node of those it has marked, and has looked
\* behind it or will.
DescendInv(M, f, r) ==
  \E c \in Nodes : /\ r = {c} /\ \A x \in M : ~NodeBetter(x, c)
                   /\ c \in f \/ ToSet(Adjacent(c, layer)) \subseteq M

\* Two heaps hold the best of the accepted nodes that are marked; a marked
\* node waits, has been looked behind, or is worse than all of a full heap.
DualInv(M, f, r) ==
  /\ entry \in M /\ KeepsBestOf(r, HeapSize, M \cap AcceptedNodes, ResultOrder)
  /\ \A p \in M : p \in f \/ Behind[p] \subseteq M \/ Worse(r, p)

\* The same for a block heap r of which d was popped, with the ties o.
BlockInv(M, E, r, d, o) ==
  /\ AcceptedNodes = Nodes /\ entry \in M /\ KeepsBestOf(r, HeapSize, M, ResultOrder)
  /\ \A p \in E \cup d : Behind[p] \subseteq M
  /\ \A p \in M : Behind[p] \subseteq M \/ p \in r \ d \/ p \in ToSet(o) \/ Worse(r, p)

\* A queue r of DiskANN holds the best codes of the marked nodes M, and the
\* results c the best of the nodes E that were read.
BeamInv(M, E, f, r, c) ==
  /\ entry \in M /\ KeepsBestOf(r, HeapSize, M, QueueOrder)
  /\ KeepsBestOf(c, traversal.topK, E \cap AcceptedNodes, ResultOrder)
  /\ \A p \in E : Behind[p] \subseteq M
  /\ \A p \in M : p \in f \/ p \in E \/ p \notin r

\* Enough groups, or every node that was met is in c and waits or was looked behind.
Enough(c) == Cardinality(GroupsOf(c)) >= traversal.groupCount
GroupsInv(M, f, c) ==
  /\ Initial \subseteq M
  /\ Enough(c) \/ (M \cap AcceptedNodes \subseteq c /\ \A p \in M : p \in f \/ Behind[p] \subseteq M)

\* What is left when the loops have stopped.
Settled == \E M \in SUBSET Nodes : DualInv(M, {}, retained)
Read == \E M, E \in SUBSET Nodes : BeamInv(M, E, {}, retained, collected)
Gathered == Enough(collected) \/ \E M \in SUBSET Nodes : GroupsInv(M, {}, collected)

\* The entry of a layer has no better neighbor in the layer above.
EntryNearest ==
  layer < Len(traversal.layers) - 1 => \A x \in ToSet(Adjacent(entry, layer + 1)) : ~NodeBetter(x, entry)

GraphTypes ==
  /\ Valid /\ MarksHold(seen) /\ MarksHold(expanded)
  /\ entry \in Nodes /\ layer \in 0..(Len(traversal.layers) - 1)
  /\ {frontier, retained, popped, collected} \subseteq SUBSET Nodes /\ overflow \in Seq(Nodes)
  /\ work \in {"start", "descend", "dual", "block", "beam", "groups", "done"}

Traversing == traversal.kind = "diskann" \/ traversal.groupCount > 0 \/ ~Small

\* The part of the invariant that belongs to what the search is doing.
WorkInv ==
  /\ work = "start" =>
       /\ frontier = {} /\ retained = {} /\ popped = {} /\ overflow = <<>> /\ collected = {}
       /\ traversal.kind # "hnsw" => Blank(seen) /\ Blank(expanded)
  /\ work = "descend" => layer > 0 /\ popped = {} /\ overflow = <<>> /\ collected = {} /\ DescendInv(MarkedIn(seen), frontier, retained)
  /\ work \in {"descend", "dual", "block", "beam", "groups"} => Sized(seen) /\ Sized(expanded)
  /\ work \in {"dual", "block", "beam", "groups"} => layer = 0
  /\ work \in {"dual", "block"} => traversal.kind # "diskann"
  /\ work = "dual" => DualInv(MarkedIn(seen), frontier, retained)
  /\ work = "block" => BlockInv(MarkedIn(seen), MarkedIn(expanded), retained, popped, overflow)
  /\ work = "beam" => traversal.kind = "diskann" /\ BeamInv(MarkedIn(seen), MarkedIn(expanded), frontier, retained, collected)
  /\ work = "groups" => traversal.kind = "hnsw" /\ Settled /\ GroupsInv(MarkedIn(seen), frontier, collected)
  /\ work = "done" /\ Traversing =>
       /\ layer = 0 /\ (traversal.kind # "diskann" => Settled) /\ (traversal.kind = "diskann" => Read)
       /\ traversal.groupCount > 0 => Gathered

GraphInv == GraphTypes /\ EntryNearest /\ WorkInv

-----------------------------------------------------------------------------
(* What the folds do.                                                      *)

\* The first n elements.
Part(s, n) == {s[i] : i \in 1..n}

LEMMA PartGrows ==
  ASSUME NEW S, NEW s \in Seq(S)
  PROVE  /\ Part(s, 0) = {} /\ Part(s, Len(s)) = ToSet(s) /\ Len(s) \in Nat
         /\ \A n \in 1..Len(s) : s[n] \in S /\ n - 1 \in 0..Len(s) /\ Part(s, n) = Part(s, n - 1) \cup {s[n]}
         /\ \A n \in 0..Len(s) : Part(s, n) \subseteq S
         /\ AllDistinct(s) => \A n \in 1..Len(s) : s[n] \notin Part(s, n - 1)
<1> DEFINE m == Len(s)
<1>1. m \in Nat /\ DOMAIN s = 1..m /\ \A i \in 1..m : s[i] \in S
  OBVIOUS
<1>2. AllDistinct(s) => \A i, j \in 1..m : s[i] = s[j] => i = j
  BY DEF AllDistinct
<1>3. ToSet(s) = {s[i] : i \in DOMAIN s}
  BY DEF ToSet
<1> HIDE DEF m
<1>4. Part(s, 0) = {} /\ Part(s, m) = ToSet(s)
  BY <1>1, <1>3 DEF Part
<1>5. ASSUME NEW n \in 1..m
      PROVE  s[n] \in S /\ n - 1 \in 0..m /\ Part(s, n) = Part(s, n - 1) \cup {s[n]}
  <2>1. 1..n = (1..(n - 1)) \cup {n} /\ n - 1 \in 0..m
    BY <1>1
  <2> QED BY <1>1, <2>1 DEF Part
<1>6. \A n \in 0..m : Part(s, n) \subseteq S
  BY <1>1 DEF Part
<1>7. ASSUME AllDistinct(s), NEW n \in 1..m PROVE s[n] \notin Part(s, n - 1)
  <2>1. \A i \in 1..(n - 1) : i \in 1..m /\ i # n
    BY <1>1
  <2> QED BY <1>2, <1>7, <2>1 DEF Part
<1> QED BY <1>1, <1>4, <1>5, <1>6, <1>7 DEF m

\* Scores and results.
LEMMA ScoreFacts ==
  ASSUME Valid, NEW p \in Nodes, NEW q \in Nodes
  PROVE  /\ traversal.score[p] \in Int /\ traversal.score[q] \in Int
         /\ <<p, q>> \in ResultOrder => traversal.score[p] <= traversal.score[q]
         /\ traversal.score[p] < traversal.score[q] => <<p, q>> \in ResultOrder
<1>1. traversal.score[p] \in Int /\ traversal.score[q] \in Int
  BY NodeFacts
<1>2. <<p, q>> \in ResultOrder <=> ResultNodeBetter(p, q)
  BY NodeOrders
<1> QED BY <1>1, <1>2 DEF ResultNodeBetter

\* The worst of a list.
LEMMA WorstFacts ==
  ASSUME Valid, NEW r \in SUBSET Nodes, r # {}
  PROVE  /\ WorstResult(r) \in r /\ WorstScore(r) \in Int /\ WorstScore(r) = traversal.score[WorstResult(r)]
         /\ \A q \in r : traversal.score[q] <= WorstScore(r)
<1> DEFINE w == WorstResult(r)
<1>1. w \in r /\ \A q \in r \ {w} : ResultNodeBetter(q, w)
  BY FirstAndLast
<1>2. WorstScore(r) = traversal.score[w]
  BY DEF WorstScore
<1> HIDE DEF w
<1>3. ASSUME NEW q \in r PROVE traversal.score[q] <= traversal.score[w]
  <2>1. traversal.score[q] \in Int /\ traversal.score[w] \in Int
    BY <1>1, ScoreFacts
  <2>2. CASE q = w
    BY <2>1, <2>2
  <2>3. CASE q # w
    BY <1>1, <2>1, <2>3 DEF ResultNodeBetter
  <2> QED BY <2>2, <2>3
<1>4. traversal.score[w] \in Int
  BY <1>1, ScoreFacts
<1> QED BY <1>1, <1>2, <1>3, <1>4 DEF w

\* A full list has nodes.
LEMMA FullHolds ==
  ASSUME Valid, NEW r \in SUBSET Nodes, ~(Cardinality(r) < HeapSize)
  PROVE  r # {} /\ (Cardinality(r) <= HeapSize => Cardinality(r) = HeapSize)
<1>1. IsFiniteSet(r) /\ Cardinality(r) \in Nat
  BY NodeFacts, FS_Subset, FS_CardinalityType
<1>2. r = {} => Cardinality(r) = 0
  BY FS_EmptySet
<1>3. HeapSize \in Nat \ {0}
  BY HeapSizeFacts
<1> QED BY <1>1, <1>2, <1>3

\* What is worse than a full list stays worse.
LEMMA WorseStays ==
  ASSUME Valid, NEW r \in SUBSET Nodes, NEW t \in SUBSET Nodes, Improves(r, t, HeapSize, ResultOrder),
         NEW p \in Nodes, Worse(r, p)
  PROVE  Worse(t, p)
<1>1. Cardinality(t) = HeapSize /\ \A q \in t : q \in r \/ \E x \in r : <<q, x>> \in ResultOrder
  BY DEF Improves, Worse
<1>2. ASSUME NEW q \in t PROVE traversal.score[q] < traversal.score[p]
  <2>1. CASE q \in r
    BY <2>1 DEF Worse
  <2>2. CASE q \notin r
    <3>1. PICK x \in r : <<q, x>> \in ResultOrder
      BY <1>1, <2>2
    <3>2. traversal.score[q] <= traversal.score[x] /\ traversal.score[q] \in Int /\ traversal.score[x] \in Int
      BY <3>1, ScoreFacts
    <3>3. traversal.score[x] < traversal.score[p] /\ traversal.score[p] \in Int
      BY ScoreFacts DEF Worse
    <3> QED BY <3>2, <3>3
  <2> QED BY <2>1, <2>2
<1> QED BY <1>1, <1>2 DEF Worse

\* Nodes behind a node.
LEMMA BehindFacts ==
  ASSUME Valid, NEW p \in Nodes
  PROVE  Behind[p] = ToSet(Adjacent(p, 0)) /\ Behind[p] \subseteq Nodes
<1>1. ToSet(Adjacent(p, 0)) \subseteq Nodes
  BY BaseLayer, Links
<1> QED BY <1>1 DEF Behind

\* The heaps h of an upper layer after the nodes B, when they had f and c and
\* no node of M was nearer.
NearerHeld(h, f, c, M, B) ==
  /\ h \in HeapPair
  /\ \E d \in Nodes : /\ h.retained = {d} /\ (d = c \/ d \in h.frontier) /\ f \subseteq h.frontier
                      /\ \A x \in M \cup B : ~NodeBetter(x, d)

\* The neighbors of a node in an upper layer.
LEMMA LayerFold ==
  ASSUME Valid, NEW batch \in Seq(Nodes), NEW f \in SUBSET Nodes, NEW c \in Nodes,
         NEW M \in SUBSET Nodes, \A x \in M : ~NodeBetter(x, c), NEW h, h = LayerAfter(Heaps(f, {c}), batch)[Len(batch)]
  PROVE  NearerHeld(h, f, c, M, ToSet(batch))
<1> DEFINE m == Len(batch)
           g == LayerAfter(Heaps(f, {c}), batch)
           Holds(n) == \E d \in Nodes : /\ g[n].retained = {d} /\ (d = c \/ d \in g[n].frontier) /\ f \subseteq g[n].frontier
                                        /\ \A x \in M \cup Part(batch, n) : ~NodeBetter(x, d)
           S == {n \in 0..m : Holds(n)}
<1>1. Heaps(f, {c}) \in HeapPair /\ Heaps(f, {c}).retained = {c} /\ Heaps(f, {c}).frontier = f
  BY DEF Heaps, HeapPair
<1>2. /\ g[0] = Heaps(f, {c}) /\ \A n \in 0..m : g[n] \in HeapPair
      /\ \A n \in 1..m : g[n] = ConsiderInLayer(g[n - 1], batch[n])
  BY <1>1, LayerUnfolds
<1>3. /\ Part(batch, 0) = {} /\ Part(batch, m) = ToSet(batch) /\ m \in Nat
      /\ \A n \in 1..m : batch[n] \in Nodes /\ n - 1 \in 0..m /\ Part(batch, n) = Part(batch, n - 1) \cup {batch[n]}
  BY PartGrows
<1>4. \A x, y, z \in Nodes : /\ NodeBetter(x, y) /\ NodeBetter(y, z) => NodeBetter(x, z)
                             /\ ~NodeBetter(x, x)
  BY NodeOrders DEF StrictlyOrders, Orders
<1>a. h = g[m]
  OBVIOUS
<1> HIDE DEF m, g
<1>5. 0 \in S
  <2>1. g[0].retained = {c} /\ g[0].frontier = f /\ M \cup Part(batch, 0) = M
    BY <1>1, <1>2, <1>3
  <2>2. Holds(0)
    BY <2>1
  <2> QED BY <1>3, <2>2
<1>6. ASSUME NEW n \in 1..m, n - 1 \in S PROVE n \in S
  <2> DEFINE k == g[n - 1]
             p == batch[n]
  <2>1. PICK d \in Nodes : /\ k.retained = {d} /\ (d = c \/ d \in k.frontier) /\ f \subseteq k.frontier
                           /\ \A x \in M \cup Part(batch, n - 1) : ~NodeBetter(x, d)
    BY <1>6
  <2>2. /\ p \in Nodes /\ n - 1 \in 0..m /\ n \in 0..m /\ k \in HeapPair
        /\ Part(batch, n) = Part(batch, n - 1) \cup {p} /\ g[n] = ConsiderInLayer(k, p)
    BY <1>2, <1>3
  <2>3. NearestNode(k.retained) = d
    <3>1. {d} \in SUBSET Nodes /\ {d} # {}
      OBVIOUS
    <3>2. NearestNode({d}) \in {d}
      BY <3>1, FirstAndLast
    <3> QED BY <2>1, <3>2
  <2>p. Part(batch, n - 1) \subseteq Nodes
    BY <2>2, PartGrows DEF m
  <2> HIDE DEF k, p
  <2>4. CASE NodeBetter(p, d)
    <3>1. g[n].frontier = k.frontier \cup {p} /\ g[n].retained = {p}
      BY <2>2, <2>3, <2>4 DEF ConsiderInLayer, Heaps
    <3>2. ASSUME NEW x \in M \cup Part(batch, n) PROVE ~NodeBetter(x, p)
      <4>1. x \in Nodes /\ (x = p \/ x \in M \cup Part(batch, n - 1))
        BY <2>2, <2>p
      <4> QED BY <1>4, <2>1, <2>2, <2>4, <4>1
    <3>3. Holds(n)
      BY <2>1, <2>2, <3>1, <3>2
    <3> QED BY <2>2, <3>3
  <2>5. CASE ~NodeBetter(p, d)
    <3>1. g[n] = k
      BY <2>2, <2>3, <2>5 DEF ConsiderInLayer
    <3>2. \A x \in M \cup Part(batch, n) : ~NodeBetter(x, d)
      BY <2>1, <2>2, <2>5
    <3>3. Holds(n)
      BY <2>1, <3>1, <3>2
    <3> QED BY <2>2, <3>3
  <2> QED BY <2>4, <2>5
<1>7. m \in S
  <2> HIDE DEF S
  <2>1. \A n \in 0..m : n \in S
    BY <1>3, <1>5, <1>6, UpTo
  <2> QED BY <1>3, <2>1
<1>8. Holds(m) /\ m \in 0..m
  BY <1>7
<1> QED BY <1>a, <1>2, <1>3, <1>8 DEF NearerHeld

\* The two heaps h after the nodes B, when they had f, r and had met M.
Considered(h, f, r, M, B) ==
  /\ h \in HeapPair /\ f \subseteq h.frontier
  /\ KeepsBestOf(h.retained, HeapSize, (M \cup B) \cap AcceptedNodes, ResultOrder)
  /\ \A p \in Nodes : Worse(r, p) => Worse(h.retained, p)
  /\ \A p \in B : p \in h.frontier \/ Worse(h.retained, p)

\* The neighbors of a node in the base layer.
LEMMA HeapsFold ==
  ASSUME Valid, NEW batch \in Seq(Nodes), NEW f \in SUBSET Nodes, NEW r \in SUBSET Nodes,
         NEW M \in SUBSET Nodes, KeepsBestOf(r, HeapSize, M \cap AcceptedNodes, ResultOrder),
         NEW h, h = HeapsAfter(Heaps(f, r), batch)[Len(batch)]
  PROVE  Considered(h, f, r, M, ToSet(batch))
<1> DEFINE m == Len(batch)
           g == HeapsAfter(Heaps(f, r), batch)
           Keeps(n) == KeepsBestOf(g[n].retained, HeapSize, (M \cup Part(batch, n)) \cap AcceptedNodes, ResultOrder)
           Kept(n) == \A p \in Nodes : Worse(r, p) => Worse(g[n].retained, p)
           Waits(n) == \A p \in Part(batch, n) : p \in g[n].frontier \/ Worse(g[n].retained, p)
           Holds(n) == f \subseteq g[n].frontier /\ Keeps(n) /\ Kept(n) /\ Waits(n)
           S == {n \in 0..m : Holds(n)}
<1>1. Heaps(f, r) \in HeapPair /\ Heaps(f, r).retained = r /\ Heaps(f, r).frontier = f
  BY DEF Heaps, HeapPair
<1>2. /\ g[0] = Heaps(f, r) /\ \A n \in 0..m : g[n] \in HeapPair
      /\ \A n \in 1..m : g[n] = Consider(g[n - 1], batch[n])
  BY <1>1, HeapsUnfolds
<1>3. /\ Part(batch, 0) = {} /\ Part(batch, m) = ToSet(batch) /\ m \in Nat
      /\ \A n \in 1..m : batch[n] \in Nodes /\ n - 1 \in 0..m /\ Part(batch, n) = Part(batch, n - 1) \cup {batch[n]}
      /\ \A n \in 0..m : Part(batch, n) \subseteq Nodes
  BY PartGrows
<1>4. AcceptedNodes \subseteq Nodes /\ \A p \in Nodes : p \in AcceptedNodes <=> AcceptNode(p)
  BY DEF AcceptedNodes
<1>5. HeapSize \in Nat \ {0}
  BY HeapSizeFacts
<1>6. StrictlyOrders(ResultOrder, Nodes)
  BY NodeOrders
<1>a. h = g[m]
  OBVIOUS
<1> HIDE DEF m, g
<1>7. 0 \in S
  <2>1. g[0].retained = r /\ g[0].frontier = f /\ M \cup Part(batch, 0) = M
    BY <1>1, <1>2, <1>3
  <2>2. Holds(0)
    BY <1>3, <2>1
  <2> QED BY <1>3, <2>2
<1>8. ASSUME NEW n \in 1..m, n - 1 \in S PROVE n \in S
  <2> DEFINE k == g[n - 1]
             p == batch[n]
             V == (M \cup Part(batch, n - 1)) \cap AcceptedNodes
  <2>1. /\ p \in Nodes /\ n - 1 \in 0..m /\ n \in 0..m /\ k \in HeapPair
        /\ Part(batch, n) = Part(batch, n - 1) \cup {p} /\ g[n] = Consider(k, p)
    BY <1>2, <1>3
  <2>2. f \subseteq k.frontier /\ KeepsBestOf(k.retained, HeapSize, V, ResultOrder) /\ Kept(n - 1) /\ Waits(n - 1)
    BY <1>8
  <2>3. k.frontier \in SUBSET Nodes /\ k.retained \in SUBSET Nodes
    BY <2>1 DEF HeapPair
  <2>4. /\ AcceptNode(p) => (M \cup Part(batch, n)) \cap AcceptedNodes = V \cup {p}
        /\ ~AcceptNode(p) => (M \cup Part(batch, n)) \cap AcceptedNodes = V
    BY <1>4, <2>1
  <2>5. V \subseteq Nodes
    BY <1>4
  <2>6. SUFFICES Holds(n)
    BY <2>1
  <2>7. Kept(n - 1) => \A q \in Nodes : Worse(r, q) => Worse(k.retained, q)
    OBVIOUS
  <2>8. Waits(n - 1) => \A q \in Part(batch, n - 1) : q \in k.frontier \/ Worse(k.retained, q)
    OBVIOUS
  <2>x. Part(batch, n - 1) \subseteq Nodes
    BY <1>3, <2>1
  <2> HIDE DEF k, p, V
  <2>9. CASE Full(k) /\ WorstScore(k.retained) < traversal.score[p]
    <3>1. g[n] = k
      BY <2>1, <2>9 DEF Consider
    <3>2. Cardinality(k.retained) = HeapSize /\ k.retained # {}
      <4>1. ~(Cardinality(k.retained) < HeapSize) /\ Cardinality(k.retained) <= HeapSize
        <5>1. Cardinality(k.retained) >= HeapSize /\ Cardinality(k.retained) <= HeapSize
          BY <2>2, <2>9 DEF Full, KeepsBestOf
        <5>2. Cardinality(k.retained) \in Nat
          BY <2>3, NodeFacts, FS_Subset, FS_CardinalityType
        <5> QED BY <1>5, <5>1, <5>2
      <4> QED BY <2>3, <4>1, FullHolds
    <3>3. \A q \in k.retained : traversal.score[q] < traversal.score[p]
      <4>1. WorstScore(k.retained) \in Int /\ \A q \in k.retained : traversal.score[q] <= WorstScore(k.retained)
        BY <2>3, <3>2, WorstFacts
      <4>2. \A q \in k.retained : traversal.score[q] \in Int /\ traversal.score[p] \in Int
        BY <2>1, <2>3, ScoreFacts
      <4> QED BY <2>9, <4>1, <4>2
    <3>4. Worse(k.retained, p)
      BY <3>2, <3>3 DEF Worse
    <3>5. \A q \in k.retained : <<q, p>> \in ResultOrder
      BY <2>1, <2>3, <3>3, ScoreFacts
    <3>6. IsFiniteSet(V \cup {p})
      BY <1>4, <2>1, <2>5, NodeFacts, FS_Subset
    <3>7. KeepsBestOf(k.retained, HeapSize, V \cup {p}, ResultOrder)
      BY <2>2, <3>2, <3>5, <3>6 DEF KeepsBestOf
    <3>8. Keeps(n)
      BY <2>2, <2>4, <3>1, <3>7
    <3>9. Kept(n)
      BY <2>2, <2>7, <3>1
    <3>10. Waits(n)
      BY <2>1, <2>2, <2>8, <3>1, <3>4
    <3> QED BY <2>2, <3>1, <3>8, <3>9, <3>10
  <2>10. CASE ~(Full(k) /\ WorstScore(k.retained) < traversal.score[p])
    <3>1. /\ g[n].frontier = k.frontier \cup {p}
          /\ g[n].retained = IF AcceptNode(p) THEN Closest(k.retained \cup {p}, HeapSize) ELSE k.retained
      BY <2>1, <2>10 DEF Consider, Heaps
    <3>2. CASE AcceptNode(p)
      <4> DEFINE t == Closest(k.retained \cup {p}, HeapSize)
      <4>1. t = Top(k.retained \cup {p}, HeapSize, ResultOrder) /\ t \in SUBSET Nodes
        <5>1. k.retained \cup {p} \in SUBSET Nodes
          BY <2>1, <2>3
        <5>2. t = Top(k.retained \cup {p}, HeapSize, ResultOrder)
          BY <5>1, ClosestTop
        <5> QED BY <5>1, <5>2 DEF Closest
      <4>2. IsFiniteSet({p}) /\ StrictlyOrders(ResultOrder, V \cup {p})
        <5>1. V \cup {p} \in SUBSET Nodes
          BY <2>1, <2>5
        <5>2. StrictlyOrders(ResultOrder, V \cup {p})
          BY <1>6, <5>1, OrdersSubset
        <5> QED BY <5>2, FS_Singleton
      <4> HIDE DEF t
      <4>3. KeepsBestOf(t, HeapSize, V \cup {p}, ResultOrder) /\ Improves(k.retained, t, HeapSize, ResultOrder)
        BY <1>5, <2>2, <4>1, <4>2, KeepsMore
      <4>4. g[n].retained = t
        BY <3>1, <3>2 DEF t
      <4>5. \A q \in Nodes : Worse(k.retained, q) => Worse(t, q)
        BY <2>3, <4>1, <4>3, WorseStays
      <4>6. Keeps(n)
        BY <2>4, <3>2, <4>3, <4>4
      <4>7. Kept(n)
        BY <2>2, <2>7, <4>4, <4>5
      <4>8. Waits(n)
        BY <2>1, <2>2, <2>8, <2>x, <3>1, <4>4, <4>5
      <4> QED BY <2>2, <3>1, <4>6, <4>7, <4>8
    <3>3. CASE ~AcceptNode(p)
      <4>1. g[n].retained = k.retained
        BY <3>1, <3>3
      <4>2. Keeps(n)
        BY <2>2, <2>4, <3>3, <4>1
      <4>3. Kept(n)
        BY <2>2, <2>7, <4>1
      <4>4. Waits(n)
        BY <2>1, <2>2, <2>8, <3>1, <4>1
      <4> QED BY <2>2, <3>1, <4>2, <4>3, <4>4
    <3> QED BY <3>2, <3>3
  <2> QED BY <2>9, <2>10
<1>9. m \in S
  <2> HIDE DEF S
  <2>1. \A n \in 0..m : n \in S
    BY <1>3, <1>7, <1>8, UpTo
  <2> QED BY <1>3, <2>1
<1>10. Holds(m) /\ m \in 0..m
  BY <1>9
<1> QED BY <1>a, <1>2, <1>3, <1>10 DEF Considered

\* The queue h of DiskANN after the nodes B, when it had f, r and had met M.
Queued(h, f, r, M, B) ==
  /\ h \in HeapPair /\ f \subseteq h.frontier
  /\ KeepsBestOf(h.retained, HeapSize, M \cup B, QueueOrder)
  /\ \A p \in M : p \in h.retained => p \in r
  /\ \A p \in B : p \in h.frontier \/ p \notin h.retained

\* The neighbors of a node, none of which was marked, are queued.
LEMMA QueueFold ==
  ASSUME Valid, NEW batch \in Seq(Nodes), AllDistinct(batch), NEW f \in SUBSET Nodes, NEW r \in SUBSET Nodes,
         NEW M \in SUBSET Nodes, \A p \in ToSet(batch) : p \notin M, KeepsBestOf(r, HeapSize, M, QueueOrder),
         NEW h, h = QueueAfter(Heaps(f, r), batch)[Len(batch)]
  PROVE  Queued(h, f, r, M, ToSet(batch))
<1> DEFINE m == Len(batch)
           g == QueueAfter(Heaps(f, r), batch)
           Keeps(n) == KeepsBestOf(g[n].retained, HeapSize, M \cup Part(batch, n), QueueOrder)
           Kept(n) == \A p \in M : p \in g[n].retained => p \in r
           Waits(n) == \A p \in Part(batch, n) : p \in g[n].frontier \/ p \notin g[n].retained
           Holds(n) == f \subseteq g[n].frontier /\ Keeps(n) /\ Kept(n) /\ Waits(n)
           S == {n \in 0..m : Holds(n)}
<1>1. Heaps(f, r) \in HeapPair /\ Heaps(f, r).retained = r /\ Heaps(f, r).frontier = f
  BY DEF Heaps, HeapPair
<1>2. /\ g[0] = Heaps(f, r) /\ \A n \in 0..m : g[n] \in HeapPair
      /\ \A n \in 1..m : g[n] = Queue(g[n - 1], batch[n])
  BY <1>1, QueueUnfolds
<1>3. /\ Part(batch, 0) = {} /\ Part(batch, m) = ToSet(batch) /\ m \in Nat
      /\ \A n \in 1..m : batch[n] \in Nodes /\ n - 1 \in 0..m /\ Part(batch, n) = Part(batch, n - 1) \cup {batch[n]}
      /\ \A n \in 0..m : Part(batch, n) \subseteq Nodes
      /\ \A n \in 1..m : batch[n] \notin Part(batch, n - 1)
  BY PartGrows
<1>4. \A n \in 1..m : batch[n] \notin M
  BY <1>3 DEF ToSet
<1>5. HeapSize \in Nat \ {0}
  BY HeapSizeFacts
<1>6. StrictlyOrders(QueueOrder, Nodes)
  BY NodeOrders
<1>a. h = g[m]
  OBVIOUS
<1> HIDE DEF m, g
<1>7. 0 \in S
  <2>1. g[0].retained = r /\ g[0].frontier = f /\ M \cup Part(batch, 0) = M
    BY <1>1, <1>2, <1>3
  <2>2. Holds(0)
    BY <1>3, <2>1
  <2> QED BY <1>3, <2>2
<1>8. ASSUME NEW n \in 1..m, n - 1 \in S PROVE n \in S
  <2> DEFINE k == g[n - 1]
             p == batch[n]
             V == M \cup Part(batch, n - 1)
             w == WorstQueued(k.retained)
  <2>1. /\ p \in Nodes /\ n - 1 \in 0..m /\ n \in 0..m /\ k \in HeapPair
        /\ Part(batch, n) = Part(batch, n - 1) \cup {p} /\ g[n] = Queue(k, p)
        /\ p \notin Part(batch, n - 1) /\ p \notin M
    BY <1>2, <1>3, <1>4
  <2>2. f \subseteq k.frontier /\ KeepsBestOf(k.retained, HeapSize, V, QueueOrder) /\ Kept(n - 1) /\ Waits(n - 1)
    BY <1>8
  <2>3. k.frontier \in SUBSET Nodes /\ k.retained \in SUBSET Nodes
    BY <2>1 DEF HeapPair
  <2>4. M \cup Part(batch, n) = V \cup {p} /\ p \notin V
    BY <2>1
  <2>5. V \subseteq Nodes
    BY <1>3, <2>1
  <2>6. SUFFICES Holds(n)
    BY <2>1
  <2>7. Kept(n - 1) => \A q \in M : q \in k.retained => q \in r
    OBVIOUS
  <2>8. Waits(n - 1) => \A q \in Part(batch, n - 1) : q \in k.frontier \/ q \notin k.retained
    OBVIOUS
  <2>z. k.retained \subseteq V /\ Cardinality(k.retained) <= HeapSize /\ p \notin k.retained
    BY <2>2, <2>4 DEF KeepsBestOf
  <2>o. StrictlyOrders(QueueOrder, V \cup {p})
    BY <1>6, <2>1, <2>5, OrdersSubset
  <2>q. g[n] = IF Cardinality(k.retained) < HeapSize THEN Heaps(k.frontier \cup {p}, k.retained \cup {p})
               ELSE IF QueueBetter(p, w) THEN Heaps(k.frontier \cup {p}, (k.retained \ {w}) \cup {p}) ELSE k
    BY <2>1 DEF Queue
  <2>h. \A a, b : Heaps(a, b).frontier = a /\ Heaps(a, b).retained = b
    BY DEF Heaps
  <2> HIDE DEF k, p, V, w
  <2>9. CASE Cardinality(k.retained) < HeapSize
    <3>1. g[n].frontier = k.frontier \cup {p} /\ g[n].retained = k.retained \cup {p}
      BY <2>9, <2>q, <2>h
    <3>2. KeepsBestOf(k.retained \cup {p}, HeapSize, V \cup {p}, QueueOrder)
      BY <1>5, <2>2, <2>4, <2>9, <2>o, KeepsOne
    <3>3. Keeps(n)
      BY <2>4, <3>1, <3>2
    <3>4. Kept(n)
      BY <2>1, <2>2, <2>7, <3>1
    <3>5. Waits(n)
      BY <2>1, <2>2, <2>8, <3>1
    <3> QED BY <2>2, <3>1, <3>3, <3>4, <3>5
  <2>10. CASE ~(Cardinality(k.retained) < HeapSize)
    <3>1. Cardinality(k.retained) = HeapSize /\ k.retained # {}
      BY <2>3, <2>z, <2>10, FullHolds
    <3>2. w \in k.retained /\ \A q \in k.retained \ {w} : QueueBetter(q, w)
      BY <2>3, <3>1, FirstAndLast DEF w
    <3>3. IsLast(w, QueueOrder, k.retained) /\ (<<p, w>> \in QueueOrder <=> QueueBetter(p, w))
      <4>1. \A x, y \in Nodes : <<x, y>> \in QueueOrder <=> QueueBetter(x, y)
        BY DEF QueueOrder
      <4> QED BY <2>1, <2>3, <3>2, <4>1 DEF IsLast
    <3>4. IF <<p, w>> \in QueueOrder THEN KeepsBestOf((k.retained \ {w}) \cup {p}, HeapSize, V \cup {p}, QueueOrder)
          ELSE KeepsBestOf(k.retained, HeapSize, V \cup {p}, QueueOrder)
      BY <1>5, <2>2, <2>4, <2>o, <3>1, <3>2, <3>3, KeepsOne
    <3>5. CASE QueueBetter(p, w)
      <4>1. g[n].frontier = k.frontier \cup {p} /\ g[n].retained = (k.retained \ {w}) \cup {p}
        BY <2>10, <2>q, <2>h, <3>5
      <4>3. Keeps(n)
        BY <2>4, <3>3, <3>4, <3>5, <4>1
      <4>4. Kept(n)
        BY <2>1, <2>2, <2>7, <4>1
      <4>5. Waits(n)
        BY <2>1, <2>2, <2>8, <4>1
      <4> QED BY <2>2, <4>1, <4>3, <4>4, <4>5
    <3>6. CASE ~QueueBetter(p, w)
      <4>1. g[n] = k
        BY <2>10, <2>q, <3>6
      <4>3. Keeps(n)
        BY <2>4, <3>3, <3>4, <3>6, <4>1
      <4>4. Kept(n)
        BY <2>2, <2>7, <4>1
      <4>5. Waits(n)
        BY <2>1, <2>2, <2>8, <2>z, <4>1
      <4> QED BY <2>2, <4>1, <4>3, <4>4, <4>5
    <3> QED BY <3>5, <3>6
  <2> QED BY <2>9, <2>10
<1>9. m \in S
  <2> HIDE DEF S
  <2>1. \A n \in 0..m : n \in S
    BY <1>3, <1>7, <1>8, UpTo
  <2> QED BY <1>3, <2>1
<1>10. Holds(m) /\ m \in 0..m
  BY <1>9
<1> QED BY <1>a, <1>2, <1>3, <1>10 DEF Queued

\* A batch of DiskANN: its nodes E2 are read, M is what was marked before.
LEMMA BeamFold ==
  ASSUME Valid, NEW batch \in Seq(Nodes), NEW s \in BeamState, NEW E \in SUBSET Nodes,
         BeamInv(MarkedIn(s.seen), E, s.heaps.frontier \cup ToSet(batch), s.heaps.retained, s.collected),
         NEW t, t = BeamAfter(s, batch)[Len(batch)]
  PROVE  /\ t \in BeamState
         /\ BeamInv(MarkedIn(t.seen), E \cup ToSet(batch), t.heaps.frontier, t.heaps.retained, t.collected)
<1> DEFINE m == Len(batch)
           g == BeamAfter(s, batch)
           M(n) == MarkedIn(g[n].seen)
           Queues(n) == entry \in M(n) /\ KeepsBestOf(g[n].heaps.retained, HeapSize, M(n), QueueOrder)
           Collects(n) == KeepsBestOf(g[n].collected, traversal.topK, (E \cup Part(batch, n)) \cap AcceptedNodes, ResultOrder)
           Looks(n) == \A p \in E \cup Part(batch, n) : Behind[p] \subseteq M(n)
           Waits(n) == \A p \in M(n) : p \in g[n].heaps.frontier \/ p \in E \cup ToSet(batch) \/ p \notin g[n].heaps.retained
           Holds(n) == Queues(n) /\ Collects(n) /\ Looks(n) /\ Waits(n)
           S == {n \in 0..m : Holds(n)}
<1>2. /\ g[0] = s /\ \A n \in 0..m : g[n] \in BeamState
      /\ \A n \in 1..m : g[n] = ProcessNode(g[n - 1], batch[n])
  BY BeamUnfolds
<1>3. /\ Part(batch, 0) = {} /\ Part(batch, m) = ToSet(batch) /\ m \in Nat
      /\ \A n \in 1..m : batch[n] \in Nodes /\ n - 1 \in 0..m /\ Part(batch, n) = Part(batch, n - 1) \cup {batch[n]}
      /\ \A n \in 0..m : Part(batch, n) \subseteq Nodes
  BY PartGrows
<1>4. AcceptedNodes \subseteq Nodes /\ \A p \in Nodes : p \in AcceptedNodes <=> AcceptNode(p)
  BY DEF AcceptedNodes
<1>5. HeapSize \in Nat \ {0} /\ traversal.topK \in Nat \ {0}
  BY HeapSizeFacts
<1>6. StrictlyOrders(ResultOrder, Nodes)
  BY NodeOrders
<1>a. t = g[m]
  OBVIOUS
<1> HIDE DEF m, g
<1>7. 0 \in S
  <2>1. E \cup Part(batch, 0) = E
    BY <1>3
  <2>2. Queues(0) /\ Collects(0) /\ Looks(0)
    BY <1>2, <2>1 DEF BeamInv
  <2>3. Waits(0)
    BY <1>2 DEF BeamInv
  <2> QED BY <1>3, <2>2, <2>3
<1>8. ASSUME NEW n \in 1..m, n - 1 \in S PROVE n \in S
  <2> DEFINE k == g[n - 1]
             p == batch[n]
             L == MarkedIn(k.seen)
             V == E \cup Part(batch, n - 1)
             fresh == Unseen(k.seen, p, 0)
             h == QueueAfter(k.heaps, fresh)[Len(fresh)]
  <2>1. /\ p \in Nodes /\ n - 1 \in 0..m /\ n \in 0..m /\ k \in BeamState /\ g[n] \in BeamState
        /\ Part(batch, n) = Part(batch, n - 1) \cup {p} /\ g[n] = ProcessNode(k, p)
    BY <1>2, <1>3
  <2>2. /\ Queues(n - 1) <=> entry \in L /\ KeepsBestOf(k.heaps.retained, HeapSize, L, QueueOrder)
        /\ Collects(n - 1) <=> KeepsBestOf(k.collected, traversal.topK, V \cap AcceptedNodes, ResultOrder)
        /\ Looks(n - 1) <=> \A q \in V : Behind[q] \subseteq L
        /\ Waits(n - 1) <=> \A q \in L : q \in k.heaps.frontier \/ q \in E \cup ToSet(batch) \/ q \notin k.heaps.retained
    OBVIOUS
  <2>3. Queues(n - 1) /\ Collects(n - 1) /\ Looks(n - 1) /\ Waits(n - 1)
    BY <1>8
  <2>4. SUFFICES Holds(n)
    BY <2>1
  <2>5. k.seen \in UsableMarks /\ k.heaps \in HeapPair /\ k.collected \in SUBSET Nodes
    BY <2>1 DEF BeamState
  <2>6. MarksHold(k.seen) /\ Sized(k.seen) /\ L \in SUBSET Nodes
    BY <2>5 DEF UsableMarks, MarkedIn
  <2>7. fresh \in Seq(Nodes) /\ AllDistinct(fresh) /\ ToSet(fresh) = Behind[p] \ L /\ ToSet(fresh) \in SUBSET Nodes
    <3>1. fresh \in Seq(Nodes) /\ AllDistinct(fresh) /\ ToSet(fresh) = ToSet(Adjacent(p, 0)) \ L
      BY <2>1, BaseLayer, UnseenLists
    <3>2. Behind[p] = ToSet(Adjacent(p, 0)) /\ Behind[p] \subseteq Nodes
      BY <2>1, BehindFacts
    <3> QED BY <3>1, <3>2
  <2>8. g[n].seen = Mark(k.seen, ToSet(fresh)) /\ g[n].heaps = h /\ g[n].collected = Collect(k.collected, p)
    BY <2>1 DEF ProcessNode
  <2>9. M(n) = L \cup ToSet(fresh)
    BY <2>6, <2>7, <2>8, MarkAdds
  <2>10. k.heaps = Heaps(k.heaps.frontier, k.heaps.retained) /\ k.heaps.frontier \in SUBSET Nodes /\ k.heaps.retained \in SUBSET Nodes
    BY <2>5 DEF HeapPair, Heaps
  <2>v. V \in SUBSET Nodes
    BY <1>3, <2>1
  <2>11. h = QueueAfter(Heaps(k.heaps.frontier, k.heaps.retained), fresh)[Len(fresh)]
    BY <2>10
  <2> HIDE DEF k, p, L, V, fresh, h
  <2>12. /\ k.heaps.frontier \subseteq h.frontier
         /\ KeepsBestOf(h.retained, HeapSize, L \cup ToSet(fresh), QueueOrder)
         /\ \A q \in L : q \in h.retained => q \in k.heaps.retained
         /\ \A q \in ToSet(fresh) : q \in h.frontier \/ q \notin h.retained
    <3>1. (\A q \in ToSet(fresh) : q \notin L) /\ KeepsBestOf(k.heaps.retained, HeapSize, L, QueueOrder)
      BY <2>2, <2>3, <2>7
    <3> DEFINE kf == k.heaps.frontier
               kr == k.heaps.retained
    <3>2. kf \in SUBSET Nodes /\ kr \in SUBSET Nodes /\ h = QueueAfter(Heaps(kf, kr), fresh)[Len(fresh)]
      BY <2>10, <2>11
    <3>3. L \in SUBSET Nodes /\ fresh \in Seq(Nodes) /\ AllDistinct(fresh) /\ KeepsBestOf(kr, HeapSize, L, QueueOrder)
      BY <2>6, <2>7, <3>1
    <3> HIDE DEF kf, kr
    <3>4. Queued(h, kf, kr, L, ToSet(fresh))
      BY <3>1, <3>2, <3>3, QueueFold
    <3> QED BY <3>4 DEF kf, kr, Queued
  <2>13. Queues(n)
    BY <2>2, <2>3, <2>8, <2>9, <2>12
  <2>14. Collects(n)
    <3>1. /\ AcceptNode(p) => (E \cup Part(batch, n)) \cap AcceptedNodes = (V \cap AcceptedNodes) \cup {p}
          /\ ~AcceptNode(p) => (E \cup Part(batch, n)) \cap AcceptedNodes = V \cap AcceptedNodes
      BY <1>4, <2>1 DEF V
    <3>2. CASE AcceptNode(p)
      <4>1. k.collected \cup {p} \in SUBSET Nodes /\ (V \cap AcceptedNodes) \cup {p} \in SUBSET Nodes
        BY <2>1, <2>5, <2>v
      <4>2. Collect(k.collected, p) = Top(k.collected \cup {p}, traversal.topK, ResultOrder)
        BY <3>2, <4>1, ClosestTop DEF Collect
      <4>3. IsFiniteSet({p}) /\ StrictlyOrders(ResultOrder, (V \cap AcceptedNodes) \cup {p})
        <5>1. StrictlyOrders(ResultOrder, (V \cap AcceptedNodes) \cup {p})
          BY <1>6, <4>1, OrdersSubset
        <5> QED BY <5>1, FS_Singleton
      <4>4. KeepsBestOf(k.collected, traversal.topK, V \cap AcceptedNodes, ResultOrder)
        BY <2>2, <2>3
      <4>5. KeepsBestOf(Collect(k.collected, p), traversal.topK, (V \cap AcceptedNodes) \cup {p}, ResultOrder)
        BY <1>5, <4>2, <4>3, <4>4, KeepsMore
      <4> QED BY <2>8, <3>1, <3>2, <4>5
    <3>3. CASE ~AcceptNode(p)
      <4>1. Collect(k.collected, p) = k.collected
        BY <3>3 DEF Collect
      <4> QED BY <2>2, <2>3, <2>8, <3>1, <3>3, <4>1
    <3> QED BY <3>2, <3>3
  <2>15. Looks(n)
    <3>1. ASSUME NEW q \in E \cup Part(batch, n) PROVE Behind[q] \subseteq L \cup ToSet(fresh)
      <4>1. q = p \/ q \in V
        BY <2>1 DEF V
      <4>2. CASE q = p
        BY <2>7, <4>2
      <4>3. CASE q \in V
        BY <2>2, <2>3, <4>3
      <4> QED BY <4>1, <4>2, <4>3
    <3> QED BY <2>9, <3>1
  <2>16. Waits(n)
    <3>1. ASSUME NEW q \in L \cup ToSet(fresh) PROVE q \in h.frontier \/ q \in E \cup ToSet(batch) \/ q \notin h.retained
      <4>1. CASE q \in L
        BY <2>2, <2>3, <2>12, <4>1
      <4>2. CASE q \in ToSet(fresh)
        BY <2>12, <4>2
      <4> QED BY <4>1, <4>2
    <3> QED BY <2>8, <2>9, <3>1
  <2> QED BY <2>13, <2>14, <2>15, <2>16
<1>9. m \in S
  <2> HIDE DEF S
  <2>1. \A n \in 0..m : n \in S
    BY <1>3, <1>7, <1>8, UpTo
  <2> QED BY <1>3, <2>1
<1>10. Queues(m) /\ Collects(m) /\ Looks(m) /\ Waits(m) /\ m \in 0..m
  BY <1>9
<1>11. t \in BeamState
  BY <1>a, <1>2, <1>10
<1>12. BeamInv(MarkedIn(t.seen), E \cup ToSet(batch), t.heaps.frontier, t.heaps.retained, t.collected)
  BY <1>a, <1>3, <1>10 DEF BeamInv
<1> QED BY <1>11, <1>12

\* The neighbors B were added to the collected c, with the frontier f, as far as needed.
Grouped(t, c, f, B) ==
  \/ Enough(t.collected)
  \/ t.marked = B /\ f \cup B \subseteq t.frontier /\ c \cup (B \cap AcceptedNodes) \subseteq t.collected

\* The neighbors of a node, for the groups.
LEMMA GroupsFold ==
  ASSUME Valid, NEW batch \in Seq(Nodes), NEW c \in SUBSET Nodes, NEW f \in SUBSET Nodes,
         NEW t, t = GroupsAfter([collected |-> c, marked |-> {}, frontier |-> f], batch)[Len(batch)]
  PROVE  t \in GroupState /\ Grouped(t, c, f, ToSet(batch))
<1> DEFINE m == Len(batch)
           s == [collected |-> c, marked |-> {}, frontier |-> f]
           g == GroupsAfter(s, batch)
           Adds(n) == /\ g[n].marked = Part(batch, n) /\ f \cup Part(batch, n) \subseteq g[n].frontier
                      /\ c \cup (Part(batch, n) \cap AcceptedNodes) \subseteq g[n].collected
           S == {n \in 0..m : Enough(g[n].collected) \/ Adds(n)}
<1>1. s \in GroupState /\ s.collected = c /\ s.marked = {} /\ s.frontier = f
  BY DEF GroupState
<1>a. t = g[m]
  OBVIOUS
<1> HIDE DEF s
<1>2. /\ g[0] = s /\ \A n \in 0..m : g[n] \in GroupState
      /\ \A n \in 1..m : g[n] = AddToGroups(g[n - 1], batch[n])
  BY <1>1, GroupsUnfolds
<1>3. /\ Part(batch, 0) = {} /\ Part(batch, m) = ToSet(batch) /\ m \in Nat
      /\ \A n \in 1..m : batch[n] \in Nodes /\ n - 1 \in 0..m /\ Part(batch, n) = Part(batch, n - 1) \cup {batch[n]}
  BY PartGrows
<1>4. \A p \in Nodes : p \in AcceptedNodes <=> AcceptNode(p)
  BY DEF AcceptedNodes
<1> HIDE DEF m, g
<1>5. 0 \in S
  <2>1. Adds(0)
    BY <1>1, <1>2, <1>3
  <2> QED BY <1>3, <2>1
<1>6. ASSUME NEW n \in 1..m, n - 1 \in S PROVE n \in S
  <2> DEFINE k == g[n - 1]
             p == batch[n]
             added == IF AcceptNode(p) THEN k.collected \cup {p} ELSE k.collected
  <2>1. /\ p \in Nodes /\ n - 1 \in 0..m /\ n \in 0..m /\ k \in GroupState
        /\ Part(batch, n) = Part(batch, n - 1) \cup {p} /\ g[n] = AddToGroups(k, p)
    BY <1>2, <1>3
  <2>2. Adds(n - 1) <=> /\ k.marked = Part(batch, n - 1) /\ f \cup Part(batch, n - 1) \subseteq k.frontier
                        /\ c \cup (Part(batch, n - 1) \cap AcceptedNodes) \subseteq k.collected
    OBVIOUS
  <2>3. Enough(k.collected) \/ Adds(n - 1)
    BY <1>6
  <2>4. SUFFICES Enough(g[n].collected) \/ Adds(n)
    BY <2>1
  <2> HIDE DEF k, p
  <2>5. CASE Enough(k.collected)
    BY <2>1, <2>5 DEF AddToGroups, Enough
  <2>6. CASE ~Enough(k.collected)
    <3>1. g[n] = [collected |-> added, marked |-> k.marked \cup {p},
                  frontier |-> IF Enough(added) THEN k.frontier ELSE k.frontier \cup {p}]
      BY <2>1, <2>6 DEF AddToGroups, Enough
    <3>2. /\ g[n].collected = added /\ g[n].marked = k.marked \cup {p}
          /\ g[n].frontier = IF Enough(added) THEN k.frontier ELSE k.frontier \cup {p}
      BY <3>1
    <3>3. k.collected \subseteq added /\ (p \in AcceptedNodes => p \in added)
      BY <1>4, <2>1
    <3> HIDE DEF added
    <3>4. CASE ~Enough(added)
      <4>1. g[n].frontier = k.frontier \cup {p}
        BY <3>2, <3>4
      <4>2. c \cup (Part(batch, n) \cap AcceptedNodes) \subseteq added
        BY <2>1, <2>2, <2>3, <2>6, <3>3
      <4>3. f \cup Part(batch, n) \subseteq k.frontier \cup {p} /\ k.marked \cup {p} = Part(batch, n)
        BY <2>1, <2>2, <2>3, <2>6
      <4> QED BY <3>2, <4>1, <4>2, <4>3
    <3> QED BY <3>2, <3>4
  <2> QED BY <2>5, <2>6
<1>7. m \in S
  <2> HIDE DEF S
  <2>1. \A n \in 0..m : n \in S
    BY <1>3, <1>5, <1>6, UpTo
  <2> QED BY <1>3, <2>1
<1>8. (Enough(g[m].collected) \/ Adds(m)) /\ m \in 0..m
  BY <1>7
<1> QED BY <1>a, <1>2, <1>3, <1>8 DEF Grouped

-----------------------------------------------------------------------------
(* The ties of a block heap and the batches of DiskANN.                    *)

LEMMA ConcatSet ==
  ASSUME NEW S, NEW s \in Seq(S), NEW t \in Seq(S)
  PROVE  s \o t \in Seq(S) /\ ToSet(s \o t) = ToSet(s) \cup ToSet(t)
<1> DEFINE m == Len(s)
           n == Len(t)
           u == s \o t
<1>1. m \in Nat /\ n \in Nat /\ DOMAIN s = 1..m /\ DOMAIN t = 1..n
  OBVIOUS
<1>2. u \in Seq(S) /\ Len(u) = m + n /\ DOMAIN u = 1..(m + n)
  OBVIOUS
<1>3. \A i \in 1..(m + n) : u[i] = IF i <= m THEN s[i] ELSE t[i - m]
  OBVIOUS
<1> HIDE DEF u, m, n
<1>4. ASSUME NEW x \in ToSet(u) PROVE x \in ToSet(s) \cup ToSet(t)
  <2>1. PICK i \in 1..(m + n) : u[i] = x
    BY <1>2 DEF ToSet
  <2>2. CASE i <= m
    BY <1>1, <1>3, <2>1, <2>2 DEF ToSet
  <2>3. CASE ~(i <= m)
    <3>1. i - m \in 1..n /\ x = t[i - m]
      BY <1>1, <1>3, <2>1, <2>3
    <3> QED BY <1>1, <3>1 DEF ToSet
  <2> QED BY <2>2, <2>3
<1>5. ASSUME NEW x \in ToSet(s) PROVE x \in ToSet(u)
  <2>1. PICK i \in 1..m : s[i] = x
    BY <1>1 DEF ToSet
  <2>2. i \in 1..(m + n) /\ u[i] = x
    BY <1>1, <1>3, <2>1
  <2> QED BY <1>2, <2>2 DEF ToSet
<1>6. ASSUME NEW x \in ToSet(t) PROVE x \in ToSet(u)
  <2>1. PICK i \in 1..n : t[i] = x
    BY <1>1 DEF ToSet
  <2>2. i + m \in 1..(m + n) /\ u[i + m] = x
    BY <1>1, <1>3, <2>1
  <2> QED BY <1>2, <2>2 DEF ToSet
<1>7. u \in Seq(S) /\ ToSet(u) = ToSet(s) \cup ToSet(t)
  BY <1>2, <1>4, <1>5, <1>6
<1> QED BY <1>7 DEF u

\* The elements of a sequence at the positions I.
LEMMA PickedFrom ==
  ASSUME NEW S, NEW s \in Seq(S), NEW I \in SUBSET DOMAIN s, NEW u,
         u = [i \in DOMAIN Ascending(I) |-> s[Ascending(I)[i]]]
  PROVE  u \in Seq(S) /\ ToSet(u) = {s[i] : i \in I}
<1>1. DOMAIN s = 1..Len(s) /\ Len(s) \in Nat /\ \A i \in DOMAIN s : s[i] \in S
  OBVIOUS
<1>2. IsFiniteSet(1..Len(s))
  BY <1>1, FS_Interval
<1>3. I \in SUBSET (1..Len(s))
  BY <1>1
<1>4. IsFiniteSet(I)
  BY <1>2, <1>3, FS_Subset
<1>5. I \in SUBSET Nat /\ \A i \in I : s[i] \in S
  BY <1>1, <1>3
<1>6. Picks(u, s, I, S)
  BY <1>4, <1>5, Picked
<1> QED BY <1>6 DEF Picks

LEMMA TiedAre ==
  ASSUME NEW s \in Seq(Nodes), NEW score
  PROVE  Tied(s, score) \in Seq(Nodes) /\ ToSet(Tied(s, score)) = {x \in ToSet(s) : traversal.score[x] = score}
<1> DEFINE I == {i \in DOMAIN s : traversal.score[s[i]] = score}
           u == Tied(s, score)
<1>1. u = [i \in DOMAIN Ascending(I) |-> s[Ascending(I)[i]]]
  BY DEF Tied
<1>2. I \in SUBSET DOMAIN s /\ \A i \in DOMAIN s : i \in I <=> traversal.score[s[i]] = score
  OBVIOUS
<1> HIDE DEF I, u
<1>3. u \in Seq(Nodes) /\ ToSet(u) = {s[i] : i \in I}
  BY <1>1, <1>2, PickedFrom
<1>4. \A x : x \in ToSet(s) <=> \E i \in DOMAIN s : s[i] = x
  BY DEF ToSet
<1>5. ToSet(u) = {x \in ToSet(s) : traversal.score[x] = score}
  BY <1>2, <1>3, <1>4
<1> QED BY <1>3, <1>5 DEF u

LEMMA OthersAre ==
  ASSUME NEW s \in Seq(Nodes), NEW S
  PROVE  Others(s, S) \in Seq(Nodes) /\ ToSet(Others(s, S)) = ToSet(s) \ S
<1> DEFINE I == {i \in DOMAIN s : s[i] \notin S}
           u == Others(s, S)
<1>1. u = [i \in DOMAIN Ascending(I) |-> s[Ascending(I)[i]]]
  BY DEF Others
<1>2. I \in SUBSET DOMAIN s /\ \A i \in DOMAIN s : i \in I <=> s[i] \notin S
  OBVIOUS
<1> HIDE DEF I, u
<1>3. u \in Seq(Nodes) /\ ToSet(u) = {s[i] : i \in I}
  BY <1>1, <1>2, PickedFrom
<1>4. \A x : x \in ToSet(s) <=> \E i \in DOMAIN s : s[i] = x
  BY DEF ToSet
<1>5. ToSet(u) = ToSet(s) \ S
  BY <1>2, <1>3, <1>4
<1> QED BY <1>3, <1>5 DEF u

\* A set of nodes as a sequence.
LEMMA ListedAll ==
  ASSUME NEW S, IsFiniteSet(S), NEW R, StrictlyOrders(R, S)
  PROVE  /\ Enumerated(S, R) \in Seq(S) /\ ToSet(Enumerated(S, R)) = S
         /\ Len(Enumerated(S, R)) = Cardinality(S)
<1> DEFINE u == Enumerated(S, R)
           n == Cardinality(S)
<1>1. n \in Nat
  BY FS_CardinalityType
<1>2. \A i \in 1..n : u[i] \in S
  BY EnumeratedAt
<1>3. \A x \in S : \E i \in 1..n : u[i] = x
  BY EnumeratedSorts
<1>4. u = [i \in 1..n |-> CHOOSE x \in S : Cardinality({y \in S : <<y, x>> \in R}) = i - 1]
  BY DEF Enumerated
<1>5. DOMAIN u = 1..n /\ u = [i \in 1..n |-> u[i]]
  BY <1>4
<1> HIDE DEF u, n
<1>6. u \in Seq(S) /\ Len(u) = n
  BY <1>1, <1>2, <1>5
<1>7. ToSet(u) = S
  BY <1>2, <1>3, <1>5 DEF ToSet
<1> QED BY <1>6, <1>7 DEF u, n

LEMMA WorstFirstLists ==
  ASSUME Valid, NEW S \in SUBSET Nodes
  PROVE  WorstFirst(S) \in Seq(Nodes) /\ ToSet(WorstFirst(S)) = S
<1> DEFINE R == {p \in S \X S : ResultNodeBetter(p[2], p[1])}
<1>1. StrictlyOrders(ResultOrder, S) /\ IsFiniteSet(S)
  BY NodeFacts, NodeOrders, OrdersSubset, FS_Subset
<1>2. \A x, y \in S : <<x, y>> \in R <=> <<y, x>> \in ResultOrder
  BY DEF ResultOrder
<1>3. StrictlyOrders(R, S)
  <2> HIDE DEF R
  <2> QED BY <1>1, <1>2 DEF StrictlyOrders, Orders
<1>4. WorstFirst(S) = Enumerated(S, R)
  BY DEF WorstFirst
<1> HIDE DEF R
<1>5. WorstFirst(S) \in Seq(S) /\ ToSet(WorstFirst(S)) = S
  BY <1>1, <1>3, <1>4, ListedAll
<1>6. Seq(S) \subseteq Seq(Nodes)
  OBVIOUS
<1> QED BY <1>5, <1>6

\* The ties of a full heap are the nodes it lost or did not take that score as
\* its worst; a popped node is not kept.
AreTies(t, before, after, block) ==
  /\ t \in Seq(Nodes)
  /\ ~(Cardinality(after) < HeapSize) =>
       \A x : x \in ToSet(t) <=> /\ x \in (before \ after) \ popped \/ x \in ToSet(block) \ after
                                /\ traversal.score[x] = WorstScore(after)

LEMMA TiesAre ==
  ASSUME Valid, NEW before \in SUBSET Nodes, NEW after \in SUBSET Nodes, NEW block \in Seq(Nodes)
  PROVE  AreTies(BoundaryTies(before, after, block), before, after, block)
<1> DEFINE s == WorstFirst((before \ after) \ popped)
           o == Others(block, after)
<1>1. s \in Seq(Nodes) /\ ToSet(s) = (before \ after) \ popped
  <2>1. (before \ after) \ popped \in SUBSET Nodes
    OBVIOUS
  <2> QED BY <2>1, WorstFirstLists
<1>2. o \in Seq(Nodes) /\ ToSet(o) = ToSet(block) \ after
  BY OthersAre
<1> HIDE DEF s, o
<1>3. s \o o \in Seq(Nodes) /\ ToSet(s \o o) = ToSet(s) \cup ToSet(o)
  BY <1>1, <1>2, ConcatSet
<1>4. CASE Cardinality(after) < HeapSize
  <2>1. BoundaryTies(before, after, block) = <<>>
    BY <1>4 DEF BoundaryTies
  <2> QED BY <1>4, <2>1 DEF AreTies
<1>5. CASE ~(Cardinality(after) < HeapSize)
  <2>1. BoundaryTies(before, after, block) = Tied(s \o o, WorstScore(after))
    BY <1>5 DEF BoundaryTies, s, o
  <2>2. /\ Tied(s \o o, WorstScore(after)) \in Seq(Nodes)
        /\ ToSet(Tied(s \o o, WorstScore(after))) = {x \in ToSet(s \o o) : traversal.score[x] = WorstScore(after)}
    BY <1>3, TiedAre
  <2> QED BY <1>1, <1>2, <1>3, <1>5, <2>1, <2>2 DEF AreTies
<1> QED BY <1>4, <1>5

\* A batch holds nodes that wait in the queue; it is empty when none does.
LEMMA BatchOf ==
  ASSUME Valid, frontier \in SUBSET Nodes, retained \in SUBSET Nodes
  PROVE  /\ BeamBatch \in Seq(Nodes) /\ ToSet(BeamBatch) \subseteq frontier
         /\ BeamBatch = <<>> => \A p \in frontier : p \in retained => Marked(expanded, p)
<1> DEFINE waiting == {p \in frontier : p \in retained /\ ~Marked(expanded, p)}
           R == {p \in waiting \X waiting : QueueBetter(p[1], p[2])}
           queue == Enumerated(waiting, R)
           b == Min({traversal.beam, Len(queue)})
<1>0. waiting \in SUBSET Nodes /\ \A x, y \in waiting : <<x, y>> \in R <=> QueueBetter(x, y)
  OBVIOUS
<1>w. waiting \subseteq frontier /\ \A p \in frontier : p \in waiting <=> p \in retained /\ ~Marked(expanded, p)
  OBVIOUS
<1>a. BeamBatch = SubSeq(queue, 1, b)
  BY DEF BeamBatch
<1> HIDE DEF waiting, R, b
<1>1. StrictlyOrders(QueueOrder, waiting) /\ IsFiniteSet(waiting)
  BY <1>0, NodeFacts, NodeOrders, OrdersSubset, FS_Subset
<1>2. \A x, y \in waiting : <<x, y>> \in R <=> <<x, y>> \in QueueOrder
  BY <1>0 DEF QueueOrder
<1>3. StrictlyOrders(R, waiting)
  BY <1>1, <1>2 DEF StrictlyOrders, Orders
<1>4. queue \in Seq(waiting) /\ Len(queue) = Cardinality(waiting) /\ ToSet(queue) = waiting
  BY <1>1, <1>3, ListedAll
<1> HIDE DEF queue
<1>5. traversal.beam \in Nat \ {0} /\ Len(queue) \in Nat
  BY <1>4 DEF Valid, ValidTraversal
<1>6. b \in {traversal.beam, Len(queue)} /\ b <= Len(queue)
  <2> DEFINE S == {traversal.beam, Len(queue)}
  <2>1. S \in SUBSET Nat /\ S # {} /\ Len(queue) \in S
    BY <1>5
  <2> HIDE DEF S
  <2>2. Min(S) \in S /\ \A x \in S : Min(S) <= x
    BY <2>1, MinOfNats
  <2> QED BY <2>1, <2>2 DEF S, b
<1>7. b \in Nat /\ b \in 0..Len(queue) /\ (b = 0 => Len(queue) = 0)
  BY <1>5, <1>6
<1>8. BeamBatch \in Seq(waiting) /\ Len(BeamBatch) = b
  <2>1. \A i \in 1..b : i \in 1..Len(queue) /\ queue[i] \in waiting
    BY <1>4, <1>5, <1>7
  <2>2. BeamBatch = [i \in 1..b |-> queue[i]]
    <3>1. SubSeq(queue, 1, b) = [i \in 1..(b - 1 + 1) |-> queue[i + 1 - 1]]
      BY <1>5, <1>7
    <3>2. [i \in 1..(b - 1 + 1) |-> queue[i + 1 - 1]] = [i \in 1..b |-> queue[i]]
      BY <1>7
    <3> QED BY <1>a, <3>1, <3>2
  <2> QED BY <1>7, <2>1, <2>2
<1>9. BeamBatch \in Seq(Nodes) /\ ToSet(BeamBatch) \subseteq waiting
  <2>1. Seq(waiting) \subseteq Seq(Nodes)
    BY <1>0
  <2>2. \A i \in DOMAIN BeamBatch : BeamBatch[i] \in waiting
    BY <1>8
  <2> QED BY <1>8, <2>1, <2>2 DEF ToSet
<1>10. ASSUME BeamBatch = <<>> PROVE waiting = {}
  <2>1. b = 0
    BY <1>8, <1>10
  <2>2. Cardinality(waiting) = 0
    BY <1>4, <1>7, <2>1
  <2> QED BY <1>1, <2>2, FS_EmptySet
<1> QED BY <1>w, <1>9, <1>10

-----------------------------------------------------------------------------
(* The invariant implies that the search is closed.                        *)

\* A set that holds the start and what is behind its qualified nodes holds all
\* that must have been met.
LEMMA MetWithin ==
  ASSUME Valid, NEW start, NEW Q, NEW M \in SUBSET Nodes, start \subseteq M, \A p \in M : p \in Q => Behind[p] \subseteq M
  PROVE  Met(start, Q) \subseteq M
<1>1. \A p \in M : Behind[p] = ToSet(Adjacent(p, 0))
  BY BehindFacts
<1>2. LinkClosed(M, Q)
  BY <1>1 DEF LinkClosed
<1> QED BY <1>2 DEF Met

\* A list that keeps the best accepted nodes of M is complete for M.
LEMMA KeepsComplete ==
  ASSUME Valid, NEW r, NEW n \in Nat \ {0}, NEW M \in SUBSET Nodes, KeepsBestOf(r, n, M \cap AcceptedNodes, ResultOrder),
         NEW T \in SUBSET M
  PROVE  Complete(r, n, T)
<1>1. AcceptedNodes \subseteq Nodes /\ \A p \in Nodes : p \in AcceptedNodes <=> AcceptNode(p)
  BY DEF AcceptedNodes
<1>2. /\ r \subseteq M \cap AcceptedNodes
      /\ \A x \in M \cap AcceptedNodes : x \in r \/ (Cardinality(r) = n /\ \A q \in r : <<q, x>> \in ResultOrder)
  BY DEF KeepsBestOf
<1>3. r \in SUBSET Nodes
  BY <1>2
<1>4. ASSUME NEW p \in T, AcceptNode(p), p \notin r
      PROVE  Cardinality(r) = n /\ ResultNodeBetter(WorstResult(r), p)
  <2>1. p \in M \cap AcceptedNodes /\ p \in Nodes
    BY <1>1, <1>4
  <2>2. Cardinality(r) = n /\ \A q \in r : <<q, p>> \in ResultOrder
    BY <1>2, <1>4, <2>1
  <2>3. r # {}
    BY <2>2, FS_EmptySet
  <2>4. WorstResult(r) \in r
    BY <1>3, <2>3, FirstAndLast
  <2>5. <<WorstResult(r), p>> \in ResultOrder
    BY <2>2, <2>4
  <2> QED BY <2>2, <2>5 DEF ResultOrder
<1> QED BY <1>1, <1>2, <1>3, <1>4 DEF Complete

\* A search of HNSW or Vamana that has stopped.
LEMMA SettledComplete ==
  ASSUME GraphTypes, Settled, NEW tied,
         tied = {p \in Nodes : Cardinality(retained) < HeapSize \/ traversal.score[p] <= WorstScore(retained)}
  PROVE  Complete(retained, HeapSize, Met({entry}, tied))
<1>1. PICK M \in SUBSET Nodes : DualInv(M, {}, retained)
  BY DEF Settled
<1>2. Valid /\ retained \in SUBSET Nodes /\ entry \in M
  BY <1>1 DEF GraphTypes, DualInv
<1>3. ASSUME NEW p \in M, p \in tied PROVE Behind[p] \subseteq M
  <2>1. Behind[p] \subseteq M \/ Worse(retained, p)
    BY <1>1 DEF DualInv
  <2>2. ASSUME Worse(retained, p) PROVE FALSE
    <3>1. Cardinality(retained) = HeapSize /\ \A q \in retained : traversal.score[q] < traversal.score[p]
      BY <2>2 DEF Worse
    <3>2. HeapSize \in Nat
      BY <1>2, HeapSizeFacts
    <3>3. ~(Cardinality(retained) < HeapSize)
      BY <3>1, <3>2
    <3>4. retained # {}
      BY <1>2, <3>3, FullHolds
    <3>5. WorstResult(retained) \in retained /\ WorstScore(retained) \in Int /\ WorstScore(retained) = traversal.score[WorstResult(retained)]
      BY <1>2, <3>4, WorstFacts
    <3>6. WorstScore(retained) < traversal.score[p]
      BY <3>1, <3>5
    <3>7. traversal.score[p] \in Int
      BY <1>2, ScoreFacts
    <3>8. traversal.score[p] <= WorstScore(retained)
      BY <1>3, <3>3
    <3> QED BY <3>5, <3>6, <3>7, <3>8
  <2> QED BY <2>1, <2>2
<1>4. Met({entry}, tied) \in SUBSET M
  <2>1. {entry} \subseteq M
    BY <1>2
  <2> QED BY <1>2, <1>3, <2>1, MetWithin
<1>5. KeepsBestOf(retained, HeapSize, M \cap AcceptedNodes, ResultOrder) /\ HeapSize \in Nat \ {0}
  BY <1>1, <1>2, HeapSizeFacts DEF DualInv
<1> QED BY <1>2, <1>4, <1>5, KeepsComplete

\* A search of DiskANN that has stopped.
LEMMA ReadComplete ==
  ASSUME GraphTypes, Read, NEW queued,
         queued = {p \in Nodes : \/ Cardinality(retained) < HeapSize \/ p = WorstQueued(retained)
                                 \/ QueueBetter(p, WorstQueued(retained))}
  PROVE  Complete(collected, traversal.topK, Met({entry}, queued) \cap queued)
<1>1. PICK M \in SUBSET Nodes, E \in SUBSET Nodes : BeamInv(M, E, {}, retained, collected)
  BY DEF Read
<1>2. /\ Valid /\ retained \in SUBSET Nodes /\ entry \in M /\ KeepsBestOf(retained, HeapSize, M, QueueOrder)
      /\ KeepsBestOf(collected, traversal.topK, E \cap AcceptedNodes, ResultOrder)
      /\ \A p \in E : Behind[p] \subseteq M
      /\ \A p \in M : p \in E \/ p \notin retained
  BY <1>1 DEF GraphTypes, BeamInv
<1>3. ASSUME NEW p \in M, p \in queued PROVE p \in E
  <2>1. SUFFICES ASSUME p \notin retained PROVE FALSE
    BY <1>2
  <2>2. Cardinality(retained) = HeapSize /\ \A q \in retained : <<q, p>> \in QueueOrder
    BY <1>2, <2>1 DEF KeepsBestOf
  <2>3. HeapSize \in Nat
    BY <1>2, HeapSizeFacts
  <2>4. ~(Cardinality(retained) < HeapSize)
    BY <2>2, <2>3
  <2>5. retained # {}
    BY <1>2, <2>4, FullHolds
  <2>6. WorstQueued(retained) \in retained
    BY <1>2, <2>5, FirstAndLast
  <2>7. QueueBetter(WorstQueued(retained), p) /\ WorstQueued(retained) \in Nodes /\ p \in Nodes
    BY <1>2, <2>2, <2>6 DEF QueueOrder
  <2>8. QueueBetter(p, WorstQueued(retained))
    BY <1>3, <2>1, <2>4, <2>6
  <2>9. \A x, y \in Nodes : ~(QueueBetter(x, y) /\ QueueBetter(y, x))
    <3>1. \A x \in Nodes : x \in Int /\ traversal.code[x] \in Int
      BY <1>2, NodeFacts
    <3> QED BY <3>1 DEF QueueBetter
  <2> QED BY <2>7, <2>8, <2>9
<1>4. Met({entry}, queued) \subseteq M
  <2>1. {entry} \subseteq M /\ \A p \in M : p \in queued => Behind[p] \subseteq M
    BY <1>2, <1>3
  <2> QED BY <1>2, <2>1, MetWithin
<1>5. Met({entry}, queued) \cap queued \in SUBSET E
  BY <1>3, <1>4
<1>6. traversal.topK \in Nat \ {0}
  BY <1>2, HeapSizeFacts
<1> QED BY <1>2, <1>5, <1>6, KeepsComplete

\* Nodes have finitely many groups.
LEMMA GroupsCount ==
  ASSUME Valid, NEW T \in SUBSET Nodes
  PROVE  IsFiniteSet(GroupsOf(T)) /\ Cardinality(GroupsOf(T)) \in Nat
<1>1. IsFiniteSet(T)
  BY NodeFacts, FS_Subset
<1> DEFINE f == [p \in T |-> traversal.group[p]]
<1>2. f \in Surjection(T, GroupsOf(T))
  BY DEF Surjection, GroupsOf
<1> HIDE DEF f
<1>3. IsFiniteSet(GroupsOf(T))
  BY <1>1, <1>2, FS_Surjection
<1> QED BY <1>3, FS_CardinalityType

\* A group search that has ended.
LEMMA GatheredEnough ==
  ASSUME GraphTypes, Gathered, NEW reached, reached = {p \in Met(Initial, Nodes) : AcceptNode(p)}
  PROVE  Cardinality(GroupsOf(collected)) >= Min({traversal.groupCount, Cardinality(GroupsOf(reached))})
<1> DEFINE a == traversal.groupCount
           b == Cardinality(GroupsOf(reached))
           S == {a, b}
           g == Cardinality(GroupsOf(collected))
<1>1. Valid /\ collected \in SUBSET Nodes /\ IsFiniteSet(Nodes)
  BY NodeFacts DEF GraphTypes
<1>2. reached \in SUBSET Nodes
  BY DEF Met
<1>3. \A T \in SUBSET Nodes : IsFiniteSet(GroupsOf(T)) /\ Cardinality(GroupsOf(T)) \in Nat
  BY <1>1, GroupsCount
<1>4. a \in Nat /\ b \in Nat /\ g \in Nat
  BY <1>1, <1>2, <1>3, HeapSizeFacts
<1>5. Min(S) <= a /\ Min(S) <= b /\ Min(S) \in Nat
  <2>1. S \in SUBSET Nat /\ S # {} /\ a \in S /\ b \in S
    BY <1>4
  <2> HIDE DEF S
  <2>2. Min(S) \in S /\ \A n \in S : Min(S) <= n
    BY <2>1, MinOfNats
  <2> QED BY <2>1, <2>2
<1>6. CASE Enough(collected)
  <2>1. g >= a
    BY <1>6 DEF Enough
  <2> HIDE DEF a, b, g, S
  <2>2. g >= Min(S)
    BY <1>4, <1>5, <2>1
  <2> QED BY <2>2 DEF a, b, g, S
<1>7. CASE ~Enough(collected)
  <2>1. PICK M \in SUBSET Nodes : GroupsInv(M, {}, collected)
    BY <1>7 DEF Gathered
  <2>2. Initial \subseteq M /\ M \cap AcceptedNodes \subseteq collected /\ \A p \in M : Behind[p] \subseteq M
    BY <1>7, <2>1 DEF GroupsInv
  <2>3. Met(Initial, Nodes) \subseteq M
    BY <1>1, <2>2, MetWithin
  <2>4. reached \subseteq collected
    BY <1>2, <2>2, <2>3 DEF AcceptedNodes
  <2>5. GroupsOf(reached) \in SUBSET GroupsOf(collected)
    BY <2>4 DEF GroupsOf
  <2>6. b <= g
    BY <1>1, <1>3, <2>5, FS_Subset
  <2> HIDE DEF a, b, g, S
  <2>7. g >= Min(S)
    BY <1>4, <1>5, <2>6
  <2> QED BY <2>7 DEF a, b, g, S
<1> QED BY <1>6, <1>7

\* The invariant is enough.
LEMMA GraphInvCloses ==
  ASSUME GraphInv
  PROVE  SearchClosed
<1> DEFINE tied == {p \in Nodes : Cardinality(retained) < HeapSize \/ traversal.score[p] <= WorstScore(retained)}
           queued == {p \in Nodes : \/ Cardinality(retained) < HeapSize \/ p = WorstQueued(retained)
                                    \/ QueueBetter(p, WorstQueued(retained))}
           reached == {p \in Met(Initial, Nodes) : AcceptNode(p)}
<1>1. GraphTypes /\ EntryNearest /\ WorkInv /\ Valid /\ entry \in Nodes
  BY DEF GraphInv, GraphTypes
<1>2. \A v \in {seen, expanded} : \A p \in DOMAIN v.marks : v.marks[p] <= v.generation
  BY <1>1 DEF GraphTypes, MarksHold
<1>3. ASSUME work \in {"groups", "done"}, Traversing
      PROVE  /\ layer = 0 /\ (traversal.kind # "diskann" => Settled) /\ (traversal.kind = "diskann" => Read)
             /\ work = "done" /\ traversal.groupCount > 0 => Gathered
  BY <1>1, <1>3 DEF WorkInv
<1>4. Settled => Complete(retained, HeapSize, Met({entry}, tied))
  <2> HIDE DEF tied
  <2> QED BY <1>1, SettledComplete DEF tied
<1>5. Read => Complete(collected, traversal.topK, Met({entry}, queued) \cap queued)
  <2> HIDE DEF queued
  <2> QED BY <1>1, ReadComplete DEF queued
<1>6. Gathered => Cardinality(GroupsOf(collected)) >= Min({traversal.groupCount, Cardinality(GroupsOf(reached))})
  <2> HIDE DEF reached
  <2> QED BY <1>1, GatheredEnough DEF reached
<1>7. ASSUME layer = 0, Len(traversal.layers) > 1, NEW i \in DOMAIN Adjacent(entry, 1)
      PROVE  ~NodeBetter(Adjacent(entry, 1)[i], entry)
  <2>1. Len(traversal.layers) \in Nat
    BY <1>1, BaseLayer
  <2>2. layer < Len(traversal.layers) - 1 /\ layer + 1 = 1
    BY <1>7, <2>1
  <2>3. \A x \in ToSet(Adjacent(entry, 1)) : ~NodeBetter(x, entry)
    BY <1>1, <2>2 DEF EntryNearest
  <2>4. Adjacent(entry, 1)[i] \in ToSet(Adjacent(entry, 1))
    BY DEF ToSet
  <2> QED BY <2>3, <2>4
<1> HIDE DEF tied, queued, reached
<1> QED BY <1>2, <1>3, <1>4, <1>5, <1>6, <1>7 DEF SearchClosed, Traversing, tied, queued, reached

-----------------------------------------------------------------------------
(* Every action keeps the invariant.                                       *)

\* A search never changes its index and its request.
LEMMA TraversalKept ==
  ASSUME traversal' = traversal
  PROVE  /\ Nodes' = Nodes /\ HeapSize' = HeapSize /\ Behind' = Behind /\ AcceptedNodes' = AcceptedNodes
         /\ NodeOrder' = NodeOrder /\ ResultOrder' = ResultOrder /\ QueueOrder' = QueueOrder
         /\ Valid' = Valid /\ Traversing' = Traversing /\ Wanted' = Wanted
<1>1. Nodes' = Nodes
  BY DEF Nodes
<1>2. Wanted' = Wanted
  BY DEF Wanted
<1>3. HeapSize' = HeapSize
  BY <1>1, <1>2 DEF HeapSize
<1>4. Behind' = Behind
  BY <1>1 DEF Behind, Adjacent
<1>5. AcceptedNodes' = AcceptedNodes
  BY <1>1 DEF AcceptedNodes, AcceptNode
<1>6. NodeOrder' = NodeOrder
  BY <1>1 DEF NodeOrder, NodeBetter
<1>7. ResultOrder' = ResultOrder
  BY <1>1 DEF ResultOrder, ResultNodeBetter
<1>8. QueueOrder' = QueueOrder
  BY <1>1 DEF QueueOrder, QueueBetter
<1>9. Valid' = Valid
  BY DEF Valid
<1>10. Traversing' = Traversing
  BY <1>1 DEF Traversing, Small
<1> QED BY <1>1, <1>2, <1>3, <1>4, <1>5, <1>6, <1>7, <1>8, <1>9, <1>10

\* The marks after a node was looked behind.
LEMMA FreshMarks ==
  ASSUME Valid, NEW v, MarksHold(v), Sized(v), NEW p \in Nodes, NEW level \in 0..(Len(traversal.layers) - 1),
         NEW fresh, fresh = Unseen(v, p, level)
  PROVE  /\ fresh \in Seq(Nodes) /\ ToSet(fresh) \in SUBSET Nodes
         /\ ToSet(Adjacent(p, level)) \subseteq MarkedIn(v) \cup ToSet(fresh)
         /\ MarksHold(Mark(v, ToSet(fresh))) /\ Sized(Mark(v, ToSet(fresh)))
         /\ MarkedIn(Mark(v, ToSet(fresh))) = MarkedIn(v) \cup ToSet(fresh)
<1>1. fresh \in Seq(Nodes) /\ ToSet(fresh) = ToSet(Adjacent(p, level)) \ MarkedIn(v)
  BY UnseenLists
<1>2. ToSet(Adjacent(p, level)) \subseteq Nodes
  BY Links
<1>3. ToSet(fresh) \in SUBSET Nodes
  BY <1>1, <1>2
<1>4. MarksHold(Mark(v, ToSet(fresh))) /\ Sized(Mark(v, ToSet(fresh)))
      /\ MarkedIn(Mark(v, ToSet(fresh))) = MarkedIn(v) \cup ToSet(fresh)
  BY <1>3, MarkAdds
<1> QED BY <1>1, <1>3, <1>4

\* Only HNSW graphs have upper layers.
LEMMA UpperLayers ==
  ASSUME Valid, NEW l \in 0..(Len(traversal.layers) - 1), l > 0
  PROVE  traversal.kind = "hnsw"
<1> DEFINE n == Len(traversal.layers)
<1>1. n \in Nat
  BY BaseLayer
<1>2. l \in 0..(n - 1) /\ l > 0
  OBVIOUS
<1> HIDE DEF n
<1>3. n # 1
  BY <1>1, <1>2
<1> QED BY <1>3 DEF Valid, ValidTraversal, n

LEMMA GraphInitially ==
  ASSUME GraphSearchInit
  PROVE  GraphInv
<1>1. PICK i \in DOMAIN Traversals : traversal \in Traversals[i]
  BY DEF GraphSearchInit
<1>2. Valid
  BY <1>1, TraversalsValid DEF Valid
<1>3. MarksHold(traversal.pool)
  BY <1>2 DEF Valid, ValidTraversal, MarksHold, MarkRecord
<1>4. /\ MarksHold(seen) /\ MarksHold(expanded) /\ (traversal.kind # "hnsw" => Blank(seen) /\ Blank(expanded))
  BY <1>2, <1>3, AcquiredHold DEF GraphSearchInit
<1>5. entry \in Nodes
  BY <1>2 DEF GraphSearchInit, Valid, ValidTraversal, Nodes
<1>6. layer \in 0..(Len(traversal.layers) - 1) /\ ~(layer < Len(traversal.layers) - 1)
  BY <1>2, BaseLayer DEF GraphSearchInit
<1>7. /\ frontier = {} /\ retained = {} /\ popped = {} /\ overflow = <<>> /\ collected = {} /\ work = "start"
  BY DEF GraphSearchInit
<1>8. GraphTypes
  BY <1>2, <1>4, <1>5, <1>6, <1>7 DEF GraphTypes
<1>9. EntryNearest
  BY <1>6 DEF EntryNearest
<1>10. WorkInv
  BY <1>4, <1>7 DEF WorkInv
<1> QED BY <1>8, <1>9, <1>10 DEF GraphInv

\* The entry stays, or moves to a nearer node.
LEMMA EntryKept ==
  ASSUME EntryNearest, traversal' = traversal, entry' = entry, layer' = layer
  PROVE  EntryNearest'
  BY DEF EntryNearest, Adjacent, NodeBetter

LEMMA ScanSmallKeeps ==
  ASSUME GraphInv, ScanSmall
  PROVE  GraphInv'
<1>1. GraphTypes /\ EntryNearest /\ WorkInv
  BY DEF GraphInv
<1>2. /\ traversal' = traversal /\ seen' = seen /\ expanded' = expanded /\ entry' = entry /\ layer' = layer
      /\ frontier' = frontier /\ popped' = popped /\ overflow' = overflow /\ collected' = collected /\ work' = "done"
      /\ retained' = Closest({p \in Nodes : AcceptNode(p)}, traversal.topK) /\ ~Traversing
  BY DEF ScanSmall, Traversing
<1>3. Nodes' = Nodes /\ Valid' = Valid /\ Traversing' = Traversing
  BY <1>2, TraversalKept
<1>4. retained' \in SUBSET Nodes
  BY <1>2 DEF Closest
<1>5. GraphTypes'
  BY <1>1, <1>2, <1>3, <1>4 DEF GraphTypes
<1>6. EntryNearest'
  BY <1>1, <1>2, EntryKept
<1>7. WorkInv'
  BY <1>2, <1>3 DEF WorkInv
<1> QED BY <1>5, <1>6, <1>7 DEF GraphInv

LEMMA EnterLayerKeeps ==
  ASSUME GraphInv, EnterLayer
  PROVE  GraphInv'
<1>1. GraphTypes /\ EntryNearest /\ WorkInv /\ Valid /\ MarksHold(seen) /\ MarksHold(expanded) /\ entry \in Nodes
  BY DEF GraphInv, GraphTypes
<1>2. /\ traversal' = traversal /\ entry' = entry /\ layer' = layer /\ popped' = popped /\ overflow' = overflow
      /\ collected' = collected /\ seen' = Mark(Cleared(seen), {entry}) /\ expanded' = Cleared(expanded)
      /\ frontier' = {entry} /\ retained' = {entry} /\ work' = "descend" /\ work = "start" /\ layer > 0
  BY DEF EnterLayer, Traversed
<1>3. traversal.kind = "hnsw"
  <2>1. layer \in 0..(Len(traversal.layers) - 1)
    BY <1>1 DEF GraphTypes
  <2> QED BY <1>1, <1>2, <2>1, UpperLayers
<1>4. MarksHold(Cleared(seen)) /\ Blank(Cleared(seen)) /\ MarksHold(expanded') /\ Blank(Cleared(expanded))
  BY <1>1, <1>2, <1>3, ClearedBlank
<1>5. MarksHold(seen') /\ Sized(Mark(Cleared(seen), {entry})) /\ MarkedIn(Mark(Cleared(seen), {entry})) = {entry}
  <2>1. {entry} \in SUBSET Nodes /\ Sized(Cleared(seen)) /\ MarkedIn(Cleared(seen)) = {}
    BY <1>1, <1>4 DEF Blank
  <2>2. /\ MarksHold(Mark(Cleared(seen), {entry})) /\ Sized(Mark(Cleared(seen), {entry}))
        /\ MarkedIn(Mark(Cleared(seen), {entry})) = {} \cup {entry}
    BY <1>1, <1>4, <2>1, MarkAdds
  <2> QED BY <1>2, <2>2
<1>6. Nodes' = Nodes /\ Valid' = Valid
  BY <1>2, TraversalKept
<1>7. MarkedIn(seen)' = {entry} /\ Sized(seen)' /\ Sized(expanded)'
  <2>1. MarkedIn(seen)' = MarkedIn(Mark(Cleared(seen), {entry}))
    BY <1>2, <1>6 DEF MarkedIn, Marked
  <2>2. Sized(seen)' /\ Sized(expanded)'
    BY <1>2, <1>4, <1>5, <1>6 DEF Sized, Blank
  <2> QED BY <1>5, <2>1, <2>2
<1>8. GraphTypes'
  BY <1>1, <1>2, <1>4, <1>5, <1>6 DEF GraphTypes
<1>9. EntryNearest'
  BY <1>1, <1>2, EntryKept
<1>10. DescendInv(MarkedIn(seen), frontier, retained)'
  <2>1. ~NodeBetter(entry, entry)
    BY <1>1, NodeFacts DEF NodeBetter
  <2>2. ~NodeBetter(entry, entry)'
    BY <1>2, <2>1 DEF NodeBetter
  <2> QED BY <1>1, <1>2, <1>6, <1>7, <2>2 DEF DescendInv
<1>11. WorkInv'
  <2>1. popped' = {} /\ overflow' = <<>> /\ collected' = {}
    BY <1>1, <1>2 DEF WorkInv
  <2> QED BY <1>2, <1>7, <1>10, <2>1 DEF WorkInv
<1> QED BY <1>8, <1>9, <1>11 DEF GraphInv

LEMMA DescendKeeps ==
  ASSUME GraphInv, Descend
  PROVE  GraphInv'
<1> DEFINE M == MarkedIn(seen)
           current == NearestNode(frontier)
           fresh == Unseen(seen, current, layer)
           h == LayerAfter(Heaps(frontier \ {current}, retained), fresh)[Len(fresh)]
<1>1. /\ GraphTypes /\ EntryNearest /\ WorkInv /\ Valid /\ MarksHold(seen) /\ frontier \in SUBSET Nodes
      /\ layer \in 0..(Len(traversal.layers) - 1)
  BY DEF GraphInv, GraphTypes
<1>2. /\ traversal' = traversal /\ expanded' = expanded /\ entry' = entry /\ layer' = layer /\ popped' = popped
      /\ overflow' = overflow /\ collected' = collected /\ work = "descend" /\ work' = "descend" /\ frontier # {}
      /\ seen' = Mark(seen, ToSet(fresh)) /\ frontier' = h.frontier /\ retained' = h.retained
  BY DEF Descend
<1>3. /\ Sized(seen) /\ Sized(expanded) /\ DescendInv(M, frontier, retained)
      /\ layer > 0 /\ popped = {} /\ overflow = <<>> /\ collected = {}
  BY <1>1, <1>2 DEF WorkInv
<1>4. current \in frontier
  BY <1>1, <1>2, FirstAndLast
<1>5. PICK c \in Nodes : /\ retained = {c} /\ \A x \in M : ~NodeBetter(x, c)
                         /\ c \in frontier \/ ToSet(Adjacent(c, layer)) \subseteq M
  BY <1>3 DEF DescendInv
<1>m. M \in SUBSET Nodes
  BY DEF MarkedIn
<1>6. /\ fresh \in Seq(Nodes) /\ ToSet(fresh) \in SUBSET Nodes /\ ToSet(Adjacent(current, layer)) \subseteq M \cup ToSet(fresh)
      /\ MarksHold(Mark(seen, ToSet(fresh))) /\ Sized(Mark(seen, ToSet(fresh)))
      /\ MarkedIn(Mark(seen, ToSet(fresh))) = M \cup ToSet(fresh)
  <2> HIDE DEF current
  <2>1. current \in Nodes
    BY <1>1, <1>4
  <2> QED BY <1>1, <1>3, <2>1, FreshMarks
<1>7. /\ h \in HeapPair
      /\ \E d \in Nodes : /\ h.retained = {d} /\ (d = c \/ d \in h.frontier) /\ frontier \ {current} \subseteq h.frontier
                          /\ \A x \in M \cup ToSet(fresh) : ~NodeBetter(x, d)
  <2> DEFINE f == frontier \ {current}
  <2>1. f \in SUBSET Nodes /\ h = LayerAfter(Heaps(f, {c}), fresh)[Len(fresh)]
    BY <1>1, <1>5
  <2> HIDE DEF M, current, fresh, h, f
  <2>2. Valid /\ fresh \in Seq(Nodes) /\ \A x \in M : ~NodeBetter(x, c)
    BY <1>1, <1>5, <1>6
  <2>3. NearerHeld(h, f, c, M, ToSet(fresh))
    BY <1>m, <2>1, <2>2, LayerFold
  <2> QED BY <2>3 DEF f, NearerHeld
<1> HIDE DEF M, current, fresh, h
<1>8. PICK d \in Nodes : /\ h.retained = {d} /\ (d = c \/ d \in h.frontier) /\ frontier \ {current} \subseteq h.frontier
                         /\ \A x \in M \cup ToSet(fresh) : ~NodeBetter(x, d)
  BY <1>7
<1>9. d \in h.frontier \/ ToSet(Adjacent(d, layer)) \subseteq M \cup ToSet(fresh)
  <2>1. CASE d # c
    BY <1>8, <2>1
  <2>2. CASE d = c /\ c = current
    BY <1>6, <2>2
  <2>3. CASE d = c /\ c # current
    BY <1>5, <1>8, <2>3
  <2> QED BY <2>1, <2>2, <2>3
<1>10. Nodes' = Nodes /\ Valid' = Valid
  BY <1>2, TraversalKept
<1>11. MarkedIn(seen)' = M \cup ToSet(fresh) /\ Sized(seen)' /\ Sized(expanded)'
  <2>1. MarkedIn(seen)' = MarkedIn(Mark(seen, ToSet(fresh)))
    BY <1>2, <1>10 DEF MarkedIn, Marked
  <2>2. Sized(seen)' /\ Sized(expanded)'
    BY <1>2, <1>3, <1>6, <1>10 DEF Sized
  <2> QED BY <1>6, <2>1, <2>2
<1>12. h.frontier \in SUBSET Nodes /\ h.retained \in SUBSET Nodes
  BY <1>7 DEF HeapPair
<1>13. GraphTypes'
  BY <1>1, <1>2, <1>6, <1>10, <1>12 DEF GraphTypes
<1>14. DescendInv(MarkedIn(seen), frontier, retained)'
  <2>1. \A x : NodeBetter(x, d)' = NodeBetter(x, d)
    BY <1>2 DEF NodeBetter
  <2>2. Adjacent(d, layer)' = Adjacent(d, layer)
    BY <1>2 DEF Adjacent
  <2> QED BY <1>2, <1>8, <1>9, <1>10, <1>11, <2>1, <2>2 DEF DescendInv
<1>15. WorkInv'
  BY <1>2, <1>3, <1>11, <1>14 DEF WorkInv
<1>16. EntryNearest'
  BY <1>1, <1>2, EntryKept
<1> QED BY <1>13, <1>15, <1>16 DEF GraphInv

LEMMA LeaveLayerKeeps ==
  ASSUME GraphInv, LeaveLayer
  PROVE  GraphInv'
<1> DEFINE M == MarkedIn(seen)
<1>1. /\ GraphTypes /\ WorkInv /\ Valid /\ frontier \in SUBSET Nodes /\ layer \in 0..(Len(traversal.layers) - 1)
      /\ Len(traversal.layers) \in Nat
  BY BaseLayer DEF GraphInv, GraphTypes
<1>2. /\ traversal' = traversal /\ seen' = seen /\ expanded' = expanded /\ popped' = popped
      /\ overflow' = overflow /\ collected' = collected /\ work = "descend" /\ work' = "start"
      /\ frontier # {} => NodeBetter(NearestNode(retained), NearestNode(frontier))
      /\ entry' = NearestNode(retained) /\ layer' = layer - 1 /\ frontier' = {} /\ retained' = {}
  BY DEF LeaveLayer
<1>3. DescendInv(M, frontier, retained) /\ layer > 0 /\ popped = {} /\ overflow = <<>> /\ collected = {}
  BY <1>1, <1>2 DEF WorkInv
<1>4. PICK c \in Nodes : /\ retained = {c} /\ \A x \in M : ~NodeBetter(x, c)
                         /\ c \in frontier \/ ToSet(Adjacent(c, layer)) \subseteq M
  BY <1>3 DEF DescendInv
<1>5. entry' = c
  <2>1. {c} \in SUBSET Nodes /\ {c} # {}
    OBVIOUS
  <2>2. NearestNode({c}) \in {c}
    BY <1>1, <2>1, FirstAndLast
  <2> QED BY <1>2, <1>4, <2>2
<1>6. c \notin frontier
  <2>1. SUFFICES ASSUME c \in frontier PROVE FALSE
    OBVIOUS
  <2> DEFINE n == NearestNode(frontier)
  <2>2. n \in frontier /\ \A q \in frontier \ {n} : NodeBetter(n, q)
    BY <1>1, <2>1, FirstAndLast
  <2>3. NodeBetter(c, n)
    BY <1>2, <1>5, <2>1
  <2> HIDE DEF n
  <2>4. \A x, y \in Nodes : ~(NodeBetter(x, y) /\ NodeBetter(y, x)) /\ ~NodeBetter(x, x)
    <3>1. \A x \in Nodes : x \in Int /\ traversal.score[x] \in Int
      BY <1>1, NodeFacts
    <3> QED BY <3>1 DEF NodeBetter
  <2>5. n \in Nodes
    BY <1>1, <2>2
  <2> QED BY <2>1, <2>2, <2>3, <2>4, <2>5
<1>7. \A x \in ToSet(Adjacent(c, layer)) : ~NodeBetter(x, c)
  BY <1>4, <1>6
<1>8. Nodes' = Nodes /\ Valid' = Valid
  BY <1>2, TraversalKept
<1>9. layer' \in 0..(Len(traversal.layers) - 1) /\ layer' + 1 = layer
  BY <1>1, <1>2, <1>3
<1>10. GraphTypes'
  BY <1>1, <1>2, <1>5, <1>8, <1>9 DEF GraphTypes
<1>11. EntryNearest'
  <2>1. Adjacent(entry, layer + 1)' = Adjacent(c, layer)
    BY <1>2, <1>5, <1>9 DEF Adjacent
  <2>2. \A x : NodeBetter(x, entry)' = NodeBetter(x, c)
    BY <1>2, <1>5 DEF NodeBetter
  <2> QED BY <1>7, <2>1, <2>2 DEF EntryNearest
<1>12. traversal.kind = "hnsw"
  BY <1>1, <1>3, UpperLayers
<1>13. WorkInv'
  BY <1>2, <1>3, <1>12 DEF WorkInv
<1> QED BY <1>10, <1>11, <1>13 DEF GraphInv

LEMMA EnterBaseKeeps ==
  ASSUME GraphInv, EnterBase
  PROVE  GraphInv'
<1>1. /\ GraphTypes /\ EntryNearest /\ WorkInv /\ Valid /\ MarksHold(seen) /\ MarksHold(expanded) /\ entry \in Nodes
      /\ traversal.kind \in {"hnsw", "vamana", "diskann"}
  BY DEF GraphInv, GraphTypes, Valid, ValidTraversal
<1>2. /\ traversal' = traversal /\ entry' = entry /\ layer' = layer /\ popped' = popped /\ overflow' = overflow
      /\ collected' = collected /\ seen' = Mark(Cleared(seen), {entry}) /\ expanded' = Cleared(expanded)
      /\ work = "start" /\ layer = 0
      /\ work' = IF traversal.kind = "diskann" THEN "beam" ELSE IF UseBlockHeap THEN "block" ELSE "dual"
      /\ frontier' = IF work' = "block" THEN {} ELSE {entry}
      /\ retained' = IF work' = "dual" /\ ~AcceptNode(entry) THEN {} ELSE {entry}
  BY DEF EnterBase, Traversed
<1>3. /\ popped = {} /\ overflow = <<>> /\ collected = {} /\ (traversal.kind # "hnsw" => Blank(seen) /\ Blank(expanded))
  BY <1>1, <1>2 DEF WorkInv
<1>4. MarksHold(Cleared(seen)) /\ Blank(Cleared(seen)) /\ MarksHold(expanded') /\ Blank(Cleared(expanded))
  BY <1>1, <1>2, <1>3, ClearedBlank
<1>5. MarksHold(seen') /\ Sized(Mark(Cleared(seen), {entry})) /\ MarkedIn(Mark(Cleared(seen), {entry})) = {entry}
  <2>1. {entry} \in SUBSET Nodes /\ Sized(Cleared(seen)) /\ MarkedIn(Cleared(seen)) = {}
    BY <1>1, <1>4 DEF Blank
  <2>2. /\ MarksHold(Mark(Cleared(seen), {entry})) /\ Sized(Mark(Cleared(seen), {entry}))
        /\ MarkedIn(Mark(Cleared(seen), {entry})) = {} \cup {entry}
    BY <1>1, <1>4, <2>1, MarkAdds
  <2> QED BY <1>2, <2>2
<1>6. /\ Nodes' = Nodes /\ Valid' = Valid /\ HeapSize' = HeapSize /\ Behind' = Behind /\ AcceptedNodes' = AcceptedNodes
      /\ ResultOrder' = ResultOrder /\ QueueOrder' = QueueOrder
  BY <1>2, TraversalKept
<1>7. MarkedIn(seen)' = {entry} /\ Sized(seen)' /\ Sized(expanded)' /\ MarkedIn(expanded)' = {}
  <2>1. MarkedIn(seen)' = MarkedIn(Mark(Cleared(seen), {entry}))
    BY <1>2, <1>6 DEF MarkedIn, Marked
  <2>2. MarkedIn(expanded)' = MarkedIn(Cleared(expanded))
    BY <1>2, <1>6 DEF MarkedIn, Marked
  <2>3. Sized(seen)' /\ Sized(expanded)'
    BY <1>2, <1>4, <1>5, <1>6 DEF Sized, Blank
  <2> QED BY <1>4, <1>5, <2>1, <2>2, <2>3 DEF Blank
<1>8. GraphTypes'
  BY <1>1, <1>2, <1>4, <1>5, <1>6 DEF GraphTypes
<1>9. EntryNearest'
  BY <1>1, <1>2, EntryKept
<1>10. /\ HeapSize \in Nat \ {0} /\ traversal.topK \in Nat \ {0} /\ IsFiniteSet({entry}) /\ Cardinality({entry}) = 1
       /\ IsFiniteSet({}) /\ Cardinality({}) = 0
  BY <1>1, HeapSizeFacts, FS_Singleton, FS_EmptySet
<1>11. \A R, n : n \in Nat \ {0} => KeepsBestOf({entry}, n, {entry}, R) /\ KeepsBestOf({}, n, {}, R)
  BY <1>10 DEF KeepsBestOf
<1>12. CASE work' = "dual"
  <2>1. entry \in AcceptedNodes <=> AcceptNode(entry)
    BY <1>1 DEF AcceptedNodes
  <2>2. retained' = {entry} \cap AcceptedNodes /\ frontier' = {entry}
    BY <1>2, <1>12, <2>1
  <2>3. KeepsBestOf({entry} \cap AcceptedNodes, HeapSize, {entry} \cap AcceptedNodes, ResultOrder)
    <3>1. CASE entry \in AcceptedNodes
      <4>1. {entry} \cap AcceptedNodes = {entry}
        BY <3>1
      <4> QED BY <1>10, <1>11, <4>1
    <3>2. CASE entry \notin AcceptedNodes
      <4>1. {entry} \cap AcceptedNodes = {}
        BY <3>2
      <4> QED BY <1>10, <1>11, <4>1
    <3> QED BY <3>1, <3>2
  <2>4. DualInv(MarkedIn(seen), frontier, retained)'
    BY <1>2, <1>6, <1>7, <2>2, <2>3 DEF DualInv
  <2>5. traversal.kind # "diskann"
    BY <1>2, <1>12
  <2>6. WorkInv'
    BY <1>2, <1>7, <1>12, <2>4, <2>5 DEF WorkInv
  <2> QED BY <1>8, <1>9, <2>6 DEF GraphInv
<1>13. CASE work' = "block"
  <2>1. retained' = {entry} /\ UseBlockHeap /\ traversal.kind # "diskann" /\ popped' = {} /\ overflow' = <<>>
    BY <1>2, <1>3, <1>13
  <2>2. AcceptedNodes = Nodes
    <3>1. traversal.rejected = {} /\ traversal.radius = 0
      BY <1>1, <2>1 DEF UseBlockHeap, Valid, ValidTraversal
    <3> QED BY <3>1 DEF AcceptedNodes, AcceptNode
  <2>3. BlockInv(MarkedIn(seen), MarkedIn(expanded), retained, popped, overflow)'
    BY <1>2, <1>6, <1>7, <1>10, <1>11, <2>1, <2>2 DEF BlockInv
  <2>4. WorkInv'
    BY <1>2, <1>7, <1>13, <2>1, <2>3 DEF WorkInv
  <2> QED BY <1>8, <1>9, <2>4 DEF GraphInv
<1>14. CASE work' = "beam"
  <2>1. retained' = {entry} /\ frontier' = {entry} /\ traversal.kind = "diskann" /\ collected' = {}
    BY <1>2, <1>3, <1>14
  <2>2. {} \cap AcceptedNodes = {}
    OBVIOUS
  <2>3. BeamInv(MarkedIn(seen), MarkedIn(expanded), frontier, retained, collected)'
    BY <1>2, <1>6, <1>7, <1>10, <1>11, <2>1, <2>2 DEF BeamInv
  <2>4. WorkInv'
    BY <1>2, <1>7, <1>14, <2>1, <2>3 DEF WorkInv
  <2> QED BY <1>8, <1>9, <2>4 DEF GraphInv
<1> QED BY <1>2, <1>12, <1>13, <1>14

LEMMA ExpandDualKeeps ==
  ASSUME GraphInv, ExpandDual
  PROVE  GraphInv'
<1> DEFINE M == MarkedIn(seen)
           current == NearestNode(frontier)
           fresh == Unseen(seen, current, 0)
           h == HeapsAfter(Heaps(frontier \ {current}, retained), fresh)[Len(fresh)]
<1>1. /\ GraphTypes /\ EntryNearest /\ WorkInv /\ Valid /\ MarksHold(seen) /\ frontier \in SUBSET Nodes
      /\ retained \in SUBSET Nodes
  BY DEF GraphInv, GraphTypes
<1>2. /\ traversal' = traversal /\ expanded' = expanded /\ entry' = entry /\ layer' = layer /\ popped' = popped
      /\ overflow' = overflow /\ collected' = collected /\ work = "dual" /\ work' = "dual" /\ frontier # {}
      /\ seen' = Mark(seen, ToSet(fresh)) /\ frontier' = h.frontier /\ retained' = h.retained
  BY DEF ExpandDual
<1>3. Sized(seen) /\ Sized(expanded) /\ DualInv(M, frontier, retained) /\ layer = 0 /\ traversal.kind # "diskann"
  BY <1>1, <1>2 DEF WorkInv
<1>4. current \in frontier
  BY <1>1, <1>2, FirstAndLast
<1>m. M \in SUBSET Nodes /\ ToSet(Adjacent(current, 0)) = Behind[current]
  BY <1>1, <1>4, BehindFacts DEF MarkedIn
<1>6. /\ fresh \in Seq(Nodes) /\ ToSet(fresh) \in SUBSET Nodes /\ Behind[current] \subseteq M \cup ToSet(fresh)
      /\ MarksHold(Mark(seen, ToSet(fresh))) /\ Sized(Mark(seen, ToSet(fresh)))
      /\ MarkedIn(Mark(seen, ToSet(fresh))) = M \cup ToSet(fresh)
  <2> HIDE DEF current
  <2>1. current \in Nodes
    BY <1>1, <1>4
  <2> QED BY <1>1, <1>3, <1>m, <2>1, BaseLayer, FreshMarks
<1>7. /\ h \in HeapPair /\ frontier \ {current} \subseteq h.frontier
      /\ KeepsBestOf(h.retained, HeapSize, (M \cup ToSet(fresh)) \cap AcceptedNodes, ResultOrder)
      /\ \A p \in Nodes : Worse(retained, p) => Worse(h.retained, p)
      /\ \A p \in ToSet(fresh) : p \in h.frontier \/ Worse(h.retained, p)
  <2> DEFINE f == frontier \ {current}
  <2>1. f \in SUBSET Nodes /\ h = HeapsAfter(Heaps(f, retained), fresh)[Len(fresh)]
    BY <1>1
  <2>2. KeepsBestOf(retained, HeapSize, M \cap AcceptedNodes, ResultOrder)
    BY <1>3 DEF DualInv
  <2> HIDE DEF M, current, fresh, h, f
  <2>3. Valid /\ fresh \in Seq(Nodes) /\ retained \in SUBSET Nodes /\ M \in SUBSET Nodes
    BY <1>1, <1>6, <1>m
  <2>4. Considered(h, f, retained, M, ToSet(fresh))
    BY <2>1, <2>2, <2>3, HeapsFold
  <2> QED BY <2>4 DEF f, Considered
<1> HIDE DEF M, current, fresh, h
<1>8. ASSUME NEW p \in M \cup ToSet(fresh)
      PROVE  p \in h.frontier \/ Behind[p] \subseteq M \cup ToSet(fresh) \/ Worse(h.retained, p)
  <2>1. CASE p \in ToSet(fresh)
    BY <1>7, <2>1
  <2>2. CASE p \in M
    <3>1. p \in Nodes /\ (p \in frontier \/ Behind[p] \subseteq M \/ Worse(retained, p))
      BY <1>3, <1>m, <2>2 DEF DualInv
    <3>2. CASE p = current
      BY <1>6, <3>2
    <3>3. CASE p # current
      BY <1>7, <3>1, <3>3
    <3> QED BY <3>2, <3>3
  <2> QED BY <2>1, <2>2
<1>10. /\ Nodes' = Nodes /\ Valid' = Valid /\ HeapSize' = HeapSize /\ Behind' = Behind /\ AcceptedNodes' = AcceptedNodes
       /\ ResultOrder' = ResultOrder
  BY <1>2, TraversalKept
<1>11. MarkedIn(seen)' = M \cup ToSet(fresh) /\ Sized(seen)' /\ Sized(expanded)'
  <2>1. MarkedIn(seen)' = MarkedIn(Mark(seen, ToSet(fresh)))
    BY <1>2, <1>10 DEF MarkedIn, Marked
  <2>2. Sized(seen)' /\ Sized(expanded)'
    BY <1>2, <1>3, <1>6, <1>10 DEF Sized
  <2> QED BY <1>6, <2>1, <2>2
<1>12. h.frontier \in SUBSET Nodes /\ h.retained \in SUBSET Nodes
  BY <1>7 DEF HeapPair
<1>13. GraphTypes'
  BY <1>1, <1>2, <1>6, <1>10, <1>12 DEF GraphTypes
<1>14. DualInv(MarkedIn(seen), frontier, retained)'
  <2>1. \A p : Worse(retained, p)' = Worse(h.retained, p)
    BY <1>2, <1>10 DEF Worse
  <2>2. entry \in M \cup ToSet(fresh)
    BY <1>3 DEF DualInv
  <2> QED BY <1>2, <1>7, <1>8, <1>10, <1>11, <2>1, <2>2 DEF DualInv
<1>15. WorkInv'
  BY <1>2, <1>3, <1>11, <1>14 DEF WorkInv
<1>16. EntryNearest'
  BY <1>1, <1>2, EntryKept
<1> QED BY <1>13, <1>15, <1>16 DEF GraphInv

\* A round of the block heap: d grows by what was popped, e by what was expanded.
LEMMA BlockStep ==
  ASSUME Valid, NEW M \in SUBSET Nodes, NEW E \in SUBSET Nodes, NEW r \in SUBSET Nodes, popped \in SUBSET Nodes,
         NEW o \in Seq(Nodes), BlockInv(M, E, r, popped, o), NEW current \in Nodes, NEW fresh \in Seq(Nodes),
         Behind[current] \subseteq M \cup ToSet(fresh), NEW d, d = popped \/ d = popped \cup {current},
         NEW rest \in Seq(Nodes), \A x \in ToSet(o) : x = current \/ x \in ToSet(rest),
         NEW after, after = PushBlock(r, fresh)
  PROVE  /\ after \in SUBSET Nodes /\ rest \o BoundaryTies(r, after, fresh) \in Seq(Nodes)
         /\ BlockInv(M \cup ToSet(fresh), E \cup {current}, after, d, rest \o BoundaryTies(r, after, fresh))
<1> DEFINE B == ToSet(fresh)
           ties == BoundaryTies(r, after, fresh)
           u == rest \o ties
<1>1. B \in SUBSET Nodes
  BY DEF ToSet
<1>2. /\ AcceptedNodes = Nodes /\ entry \in M /\ KeepsBestOf(r, HeapSize, M, ResultOrder)
      /\ \A p \in E \cup popped : Behind[p] \subseteq M
      /\ \A p \in M : Behind[p] \subseteq M \/ p \in r \ popped \/ p \in ToSet(o) \/ Worse(r, p)
  BY DEF BlockInv
<1>3. after = Top(r \cup B, HeapSize, ResultOrder) /\ after \in SUBSET Nodes
  <2>1. r \cup B \in SUBSET Nodes
    BY <1>1
  <2>2. after = Closest(r \cup B, HeapSize)
    BY DEF PushBlock
  <2>3. after = Top(r \cup B, HeapSize, ResultOrder)
    BY <2>1, <2>2, ClosestTop
  <2> QED BY <2>1, <2>2, <2>3 DEF Closest
<1>4. ties \in Seq(Nodes) /\ (~(Cardinality(after) < HeapSize) =>
        \A x : x \in ToSet(ties) <=> x \in ((r \ after) \ popped) \cup (B \ after) /\ traversal.score[x] = WorstScore(after))
  <2>1. after \in SUBSET Nodes
    BY <1>3
  <2>2. AreTies(ties, r, after, fresh)
    BY <2>1, TiesAre
  <2> HIDE DEF ties
  <2> QED BY <2>2 DEF AreTies
<1>5. HeapSize \in Nat \ {0} /\ IsFiniteSet(B) /\ IsFiniteSet(r \cup B) /\ StrictlyOrders(ResultOrder, M \cup B)
      /\ StrictlyOrders(ResultOrder, r \cup B)
  <2>1. B \in SUBSET Nodes /\ r \cup B \in SUBSET Nodes /\ M \cup B \in SUBSET Nodes
    BY <1>1
  <2>2. IsFiniteSet(Nodes) /\ StrictlyOrders(ResultOrder, Nodes) /\ HeapSize \in Nat \ {0}
    BY NodeFacts, NodeOrders, HeapSizeFacts
  <2> HIDE DEF B
  <2>3. IsFiniteSet(B) /\ IsFiniteSet(r \cup B)
    BY <2>1, <2>2, FS_Subset
  <2> QED BY <2>1, <2>2, <2>3, OrdersSubset
<1> HIDE DEF B, ties
<1>6. u \in Seq(Nodes) /\ ToSet(u) = ToSet(rest) \cup ToSet(ties)
  BY <1>4, ConcatSet
<1> HIDE DEF u
<1>7. KeepsBestOf(after, HeapSize, M \cup B, ResultOrder) /\ Improves(r, after, HeapSize, ResultOrder)
  <2> DEFINE n == HeapSize
             R == ResultOrder
  <2>1. n \in Nat
    BY <1>5
  <2>2. KeepsBestOf(r, n, M, R)
    BY <1>2
  <2>3. IsFiniteSet(B)
    BY <1>5
  <2>4. StrictlyOrders(R, M \cup B)
    BY <1>5
  <2>5. after = Top(r \cup B, n, R)
    BY <1>3
  <2> HIDE DEF n, R
  <2>6. KeepsBestOf(Top(r \cup B, n, R), n, M \cup B, R) /\ Improves(r, Top(r \cup B, n, R), n, R)
    BY <2>1, <2>2, <2>3, <2>4, KeepsMore
  <2>7. KeepsBestOf(after, n, M \cup B, R) /\ Improves(r, after, n, R)
    BY <2>5, <2>6
  <2> QED BY <2>7 DEF n, R
<1>8. KeepsBestOf(after, HeapSize, r \cup B, ResultOrder)
  BY <1>3, <1>5, TopKeeps
<1>9. ASSUME NEW p \in r \cup B, p \notin after, p \notin popped
      PROVE  p \in ToSet(u) \/ Worse(after, p)
  <2>1. Cardinality(after) = HeapSize /\ \A q \in after : <<q, p>> \in ResultOrder
    BY <1>8, <1>9 DEF KeepsBestOf
  <2>2. ~(Cardinality(after) < HeapSize) /\ p \in Nodes
    BY <1>1, <1>5, <2>1
  <2>3. after # {}
    BY <1>3, <2>2, FullHolds
  <2>4. /\ WorstResult(after) \in after /\ WorstScore(after) \in Int /\ WorstScore(after) = traversal.score[WorstResult(after)]
        /\ \A q \in after : traversal.score[q] <= WorstScore(after)
    BY <1>3, <2>3, WorstFacts
  <2>5. traversal.score[p] \in Int /\ \A q \in after : traversal.score[q] \in Int /\ traversal.score[q] <= traversal.score[p]
    BY <1>3, <2>1, <2>2, ScoreFacts
  <2>6. WorstScore(after) <= traversal.score[p]
    BY <2>4, <2>5
  <2>7. CASE traversal.score[p] = WorstScore(after)
    <3>1. p \in ToSet(ties)
      BY <1>4, <1>9, <2>2, <2>7
    <3> QED BY <1>6, <3>1
  <2>8. CASE traversal.score[p] # WorstScore(after)
    <3>1. \A q \in after : traversal.score[q] < traversal.score[p]
      BY <2>4, <2>5, <2>6, <2>8
    <3> QED BY <2>1, <3>1 DEF Worse
  <2> QED BY <2>7, <2>8
<1>10. ASSUME NEW p \in M \cup B
       PROVE  Behind[p] \subseteq M \cup B \/ p \in after \ d \/ p \in ToSet(u) \/ Worse(after, p)
  <2>1. SUFFICES ASSUME ~(Behind[p] \subseteq M \cup B) PROVE p \in after \ d \/ p \in ToSet(u) \/ Worse(after, p)
    OBVIOUS
  <2>2. p # current /\ p \notin popped /\ p \notin d
    <3>1. p # current
      BY <2>1 DEF B
    <3>2. p \notin popped
      BY <1>2, <2>1
    <3> QED BY <3>1, <3>2
  <2>3. CASE p \in r \cup B
    BY <1>9, <2>2, <2>3
  <2>4. CASE p \in ToSet(o)
    BY <1>6, <2>2, <2>4
  <2>5. CASE Worse(r, p) /\ p \in M
    BY <1>3, <1>7, <2>5, WorseStays
  <2> QED BY <1>2, <2>1, <2>3, <2>4, <2>5
<1>11. \A p \in (E \cup {current}) \cup d : Behind[p] \subseteq M \cup B
  BY <1>2 DEF B
<1>12. BlockInv(M \cup B, E \cup {current}, after, d, u)
  BY <1>2, <1>7, <1>10, <1>11 DEF BlockInv
<1> QED BY <1>3, <1>6, <1>12 DEF B, u, ties

LEMMA ExpandBlockKeeps ==
  ASSUME GraphInv, ExpandBlock
  PROVE  GraphInv'
<1> DEFINE M == MarkedIn(seen)
           E == MarkedIn(expanded)
           waiting == retained \ popped
           current == IF waiting # {} THEN BestResult(waiting) ELSE Head(overflow)
           fresh == IF Marked(expanded, current) THEN <<>> ELSE Unseen(seen, current, 0)
           after == PushBlock(retained, fresh)
           rest == IF waiting # {} THEN overflow ELSE Tail(overflow)
           u == rest \o BoundaryTies(retained, after, fresh)
<1>1. /\ GraphTypes /\ EntryNearest /\ WorkInv /\ Valid /\ MarksHold(seen) /\ MarksHold(expanded) /\ popped \in SUBSET Nodes
      /\ retained \in SUBSET Nodes /\ overflow \in Seq(Nodes)
  BY DEF GraphInv, GraphTypes
<1>2. /\ traversal' = traversal /\ entry' = entry /\ layer' = layer /\ frontier' = frontier /\ collected' = collected
      /\ work = "block" /\ work' = "block" /\ (retained \ popped # {} \/ overflow # <<>>)
      /\ popped' = IF waiting # {} THEN popped \cup {current} ELSE popped
      /\ expanded' = Mark(expanded, {current}) /\ seen' = Mark(seen, ToSet(fresh)) /\ retained' = after /\ overflow' = u
  BY DEF ExpandBlock
<1>3. Sized(seen) /\ Sized(expanded) /\ BlockInv(M, E, retained, popped, overflow) /\ layer = 0 /\ traversal.kind # "diskann"
  BY <1>1, <1>2 DEF WorkInv
<1>m. M \in SUBSET Nodes /\ E \in SUBSET Nodes
  BY DEF MarkedIn
<1>4. /\ current \in Nodes /\ rest \in Seq(Nodes) /\ \A x \in ToSet(overflow) : x = current \/ x \in ToSet(rest)
  <2>1. CASE waiting # {}
    <3>1. waiting \in SUBSET Nodes
      BY <1>1
    <3>2. BestResult(waiting) \in waiting
      BY <1>1, <2>1, <3>1, FirstAndLast
    <3> HIDE DEF waiting
    <3> QED BY <1>1, <2>1, <3>1, <3>2
  <2>2. CASE waiting = {}
    <3>1. current = Head(overflow) /\ rest = Tail(overflow) /\ overflow # <<>>
      BY <1>2, <2>2
    <3> HIDE DEF current, rest
    <3>2. Head(overflow) \in Nodes /\ Tail(overflow) \in Seq(Nodes)
      BY <1>1, <3>1
    <3>3. ASSUME NEW x \in ToSet(overflow) PROVE x = Head(overflow) \/ x \in ToSet(Tail(overflow))
      <4> DEFINE n == Len(overflow)
      <4>1. n \in Nat \ {0} /\ DOMAIN overflow = 1..n /\ Head(overflow) = overflow[1]
        BY <1>1, <3>1
      <4>2. DOMAIN Tail(overflow) = 1..(n - 1) /\ \A i \in 1..(n - 1) : Tail(overflow)[i] = overflow[i + 1]
        BY <1>1, <3>1
      <4>3. PICK i \in 1..n : overflow[i] = x
        BY <4>1 DEF ToSet
      <4> HIDE DEF n
      <4>4. CASE i = 1
        BY <4>1, <4>3, <4>4
      <4>5. CASE i # 1
        <5>1. i - 1 \in 1..(n - 1) /\ (i - 1) + 1 = i
          BY <4>1, <4>5
        <5>2. Tail(overflow)[i - 1] = x
          BY <4>2, <4>3, <5>1
        <5> QED BY <4>2, <5>1, <5>2 DEF ToSet
      <4> QED BY <4>4, <4>5
    <3> QED BY <3>1, <3>2, <3>3
  <2> QED BY <2>1, <2>2
<1> HIDE DEF current, rest
<1>5. /\ fresh \in Seq(Nodes) /\ Behind[current] \subseteq M \cup ToSet(fresh)
      /\ MarksHold(Mark(seen, ToSet(fresh))) /\ Sized(Mark(seen, ToSet(fresh)))
      /\ MarkedIn(Mark(seen, ToSet(fresh))) = M \cup ToSet(fresh)
  <2>1. CASE Marked(expanded, current)
    <3>1. fresh = <<>> /\ ToSet(<<>>) = {}
      BY <2>1 DEF ToSet
    <3>2. current \in E
      BY <1>4, <2>1 DEF MarkedIn
    <3>3. Behind[current] \subseteq M
      BY <1>3, <3>2 DEF BlockInv
    <3>0. {} \in SUBSET Nodes
      OBVIOUS
    <3>4. MarksHold(Mark(seen, {})) /\ Sized(Mark(seen, {})) /\ MarkedIn(Mark(seen, {})) = MarkedIn(seen) \cup {}
      BY <1>1, <1>3, <3>0, MarkAdds
    <3> HIDE DEF fresh
    <3>5. ToSet(fresh) = {} /\ fresh \in Seq(Nodes)
      BY <3>1
    <3>6. MarksHold(Mark(seen, ToSet(fresh))) /\ Sized(Mark(seen, ToSet(fresh))) /\ MarkedIn(Mark(seen, ToSet(fresh))) = M \cup {}
      BY <3>4, <3>5
    <3> QED BY <3>3, <3>5, <3>6
  <2>2. CASE ~Marked(expanded, current)
    <3>1. fresh = Unseen(seen, current, 0) /\ Behind[current] = ToSet(Adjacent(current, 0))
      BY <1>1, <1>4, <2>2, BehindFacts
    <3> HIDE DEF fresh
    <3> QED BY <1>1, <1>3, <1>4, <3>1, BaseLayer, FreshMarks
  <2> QED BY <2>1, <2>2
<1>6. MarksHold(Mark(expanded, {current})) /\ Sized(Mark(expanded, {current})) /\ MarkedIn(Mark(expanded, {current})) = E \cup {current}
  BY <1>1, <1>3, <1>4, MarkAdds
<1>7. popped' = popped \/ popped' = popped \cup {current}
  BY <1>2
<1> HIDE DEF M, E, waiting, fresh
<1>8. /\ after \in SUBSET Nodes /\ u \in Seq(Nodes)
      /\ BlockInv(M \cup ToSet(fresh), E \cup {current}, after, popped', u)
  BY <1>1, <1>3, <1>4, <1>5, <1>7, <1>m, BlockStep
<1> HIDE DEF after, u
<1>10. /\ Nodes' = Nodes /\ Valid' = Valid /\ HeapSize' = HeapSize /\ Behind' = Behind /\ AcceptedNodes' = AcceptedNodes
       /\ ResultOrder' = ResultOrder
  BY <1>2, TraversalKept
<1>11. /\ MarkedIn(seen)' = M \cup ToSet(fresh) /\ MarkedIn(expanded)' = E \cup {current}
       /\ Sized(seen)' /\ Sized(expanded)'
  <2>1. MarkedIn(seen)' = MarkedIn(Mark(seen, ToSet(fresh)))
    BY <1>2, <1>10 DEF MarkedIn, Marked
  <2>2. MarkedIn(expanded)' = MarkedIn(Mark(expanded, {current}))
    BY <1>2, <1>10 DEF MarkedIn, Marked
  <2>3. Sized(seen)' /\ Sized(expanded)'
    BY <1>2, <1>5, <1>6, <1>10 DEF Sized
  <2> QED BY <1>5, <1>6, <2>1, <2>2, <2>3
<1>12. popped' \in SUBSET Nodes
  BY <1>1, <1>4, <1>7
<1>13. GraphTypes'
  BY <1>1, <1>2, <1>5, <1>6, <1>8, <1>10, <1>12 DEF GraphTypes
<1>14. BlockInv(MarkedIn(seen), MarkedIn(expanded), retained, popped, overflow)'
  <2>1. \A p : Worse(retained, p)' = Worse(after, p)
    BY <1>2, <1>10 DEF Worse
  <2> QED BY <1>2, <1>8, <1>10, <1>11, <2>1 DEF BlockInv
<1>15. WorkInv'
  BY <1>2, <1>3, <1>11, <1>14 DEF WorkInv
<1>16. EntryNearest'
  BY <1>1, <1>2, EntryKept
<1> QED BY <1>13, <1>15, <1>16 DEF GraphInv

LEMMA ExpandBeamKeeps ==
  ASSUME GraphInv, ExpandBeam
  PROVE  GraphInv'
<1> DEFINE M == MarkedIn(seen)
           E == MarkedIn(expanded)
           batch == BeamBatch
           h == Heaps(frontier \ ToSet(batch), retained)
           s == [seen |-> seen, heaps |-> h, collected |-> collected]
           t == BeamAfter(s, batch)[Len(batch)]
<1>1. /\ GraphTypes /\ EntryNearest /\ WorkInv /\ Valid /\ MarksHold(seen) /\ MarksHold(expanded) /\ frontier \in SUBSET Nodes
      /\ retained \in SUBSET Nodes /\ collected \in SUBSET Nodes
  BY DEF GraphInv, GraphTypes
<1>2. /\ traversal' = traversal /\ entry' = entry /\ layer' = layer /\ popped' = popped /\ overflow' = overflow
      /\ work = "beam" /\ work' = "beam" /\ seen' = t.seen /\ frontier' = t.heaps.frontier
      /\ retained' = t.heaps.retained /\ collected' = t.collected /\ expanded' = Mark(expanded, ToSet(batch))
  BY DEF ExpandBeam
<1>3. Sized(seen) /\ Sized(expanded) /\ BeamInv(M, E, frontier, retained, collected) /\ layer = 0 /\ traversal.kind = "diskann"
  BY <1>1, <1>2 DEF WorkInv
<1>m. M \in SUBSET Nodes /\ E \in SUBSET Nodes
  BY DEF MarkedIn
<1>4. batch \in Seq(Nodes) /\ ToSet(batch) \subseteq frontier
  BY <1>1, BatchOf
<1> HIDE DEF batch, E
<1>5. h \in HeapPair /\ h.frontier = frontier \ ToSet(batch) /\ h.retained = retained
  BY <1>1 DEF Heaps, HeapPair
<1> HIDE DEF h
<1>6. seen \in UsableMarks
  BY <1>1, <1>3 DEF UsableMarks, MarksHold
<1>7. s \in BeamState /\ s.seen = seen /\ s.heaps = h /\ s.collected = collected
  BY <1>1, <1>5, <1>6 DEF BeamState
<1>8. BeamInv(MarkedIn(s.seen), E, s.heaps.frontier \cup ToSet(batch), s.heaps.retained, s.collected)
  <2>1. (frontier \ ToSet(batch)) \cup ToSet(batch) = frontier
    BY <1>4
  <2> HIDE DEF s
  <2> QED BY <1>3, <1>5, <1>7, <2>1 DEF M
<1> HIDE DEF s
<1>t. t = BeamAfter(s, batch)[Len(batch)]
  OBVIOUS
<1> HIDE DEF t
<1>9. /\ t \in BeamState
      /\ BeamInv(MarkedIn(t.seen), E \cup ToSet(batch), t.heaps.frontier, t.heaps.retained, t.collected)
  BY <1>1, <1>4, <1>7, <1>8, <1>m, <1>t, BeamFold
<1>b. ToSet(batch) \in SUBSET Nodes
  BY <1>1, <1>4
<1>10. /\ Nodes' = Nodes /\ Valid' = Valid /\ HeapSize' = HeapSize /\ Behind' = Behind /\ AcceptedNodes' = AcceptedNodes
       /\ ResultOrder' = ResultOrder /\ QueueOrder' = QueueOrder
  BY <1>2, TraversalKept
<1>11. /\ MarksHold(Mark(expanded, ToSet(batch))) /\ Sized(Mark(expanded, ToSet(batch)))
       /\ MarkedIn(Mark(expanded, ToSet(batch))) = E \cup ToSet(batch)
  BY <1>1, <1>3, <1>b, MarkAdds DEF E
<1>12. t.seen \in UsableMarks /\ t.heaps \in HeapPair /\ t.collected \in SUBSET Nodes
  BY <1>9 DEF BeamState
<1>13. MarksHold(t.seen) /\ Sized(t.seen) /\ t.heaps.frontier \in SUBSET Nodes /\ t.heaps.retained \in SUBSET Nodes
  BY <1>12 DEF UsableMarks, HeapPair
<1>14. /\ MarkedIn(seen)' = MarkedIn(t.seen) /\ MarkedIn(expanded)' = E \cup ToSet(batch) /\ Sized(seen)' /\ Sized(expanded)'
  <2>1. MarkedIn(seen)' = MarkedIn(t.seen)
    BY <1>2, <1>10 DEF MarkedIn, Marked
  <2>2. MarkedIn(expanded)' = MarkedIn(Mark(expanded, ToSet(batch)))
    BY <1>2, <1>10 DEF MarkedIn, Marked
  <2>3. Sized(seen)' /\ Sized(expanded)'
    BY <1>2, <1>10, <1>11, <1>13 DEF Sized
  <2> QED BY <1>11, <2>1, <2>2, <2>3
<1>15. GraphTypes'
  BY <1>1, <1>2, <1>10, <1>11, <1>12, <1>13 DEF GraphTypes
<1>16. BeamInv(MarkedIn(seen), MarkedIn(expanded), frontier, retained, collected)'
  BY <1>2, <1>9, <1>10, <1>14 DEF BeamInv
<1>17. WorkInv'
  BY <1>2, <1>3, <1>14, <1>16 DEF WorkInv
<1>18. EntryNearest'
  BY <1>1, <1>2, EntryKept
<1> QED BY <1>15, <1>17, <1>18 DEF GraphInv

\* What a finished traversal left depends on nothing that changes later.
LEMMA SettledKept ==
  ASSUME traversal' = traversal, entry' = entry, retained' = retained
  PROVE  Settled' <=> Settled
<1>1. /\ Nodes' = Nodes /\ HeapSize' = HeapSize /\ Behind' = Behind /\ AcceptedNodes' = AcceptedNodes
      /\ ResultOrder' = ResultOrder
  BY TraversalKept
<1>2. \A p : Worse(retained, p)' <=> Worse(retained, p)
  BY <1>1 DEF Worse
<1>3. ASSUME NEW M PROVE DualInv(M, {}, retained)' <=> DualInv(M, {}, retained)
  BY <1>1, <1>2 DEF DualInv
<1> QED BY <1>1, <1>3 DEF Settled

LEMMA ReadKept ==
  ASSUME traversal' = traversal, entry' = entry, retained' = retained, collected' = collected
  PROVE  Read' <=> Read
<1>1. /\ Nodes' = Nodes /\ HeapSize' = HeapSize /\ Behind' = Behind /\ AcceptedNodes' = AcceptedNodes
      /\ ResultOrder' = ResultOrder /\ QueueOrder' = QueueOrder
  BY TraversalKept
<1>2. ASSUME NEW M, NEW F PROVE BeamInv(M, F, {}, retained, collected)' <=> BeamInv(M, F, {}, retained, collected)
  BY <1>1 DEF BeamInv
<1> QED BY <1>1, <1>2 DEF Read

\* The groups that are wanted, and the nodes they begin with, stay as well.
LEMMA InitialKept ==
  ASSUME traversal' = traversal, retained' = retained
  PROVE  Initial' = Initial /\ \A c : (Enough(c)' <=> Enough(c))
<1>1. Wanted' = Wanted
  BY TraversalKept
<1>2. Initial' = Initial
  BY <1>1 DEF Initial, Closest, ResultNodeBetter
<1>3. ASSUME NEW c PROVE Enough(c)' <=> Enough(c)
  BY DEF Enough, GroupsOf
<1> QED BY <1>2, <1>3

LEMMA GatheredKept ==
  ASSUME traversal' = traversal, retained' = retained, collected' = collected
  PROVE  Gathered' <=> Gathered
<1>1. /\ Nodes' = Nodes /\ Behind' = Behind /\ AcceptedNodes' = AcceptedNodes
      /\ Initial' = Initial /\ \A c : (Enough(c)' <=> Enough(c))
  BY TraversalKept, InitialKept
<1>2. Enough(collected)' <=> Enough(collected)
  BY DEF Enough, GroupsOf
<1>3. ASSUME NEW M PROVE GroupsInv(M, {}, collected)' <=> GroupsInv(M, {}, collected)
  BY <1>1, <1>2 DEF GroupsInv
<1> QED BY <1>1, <1>2, <1>3 DEF Gathered

\* A loop of the base layer that is over has looked behind every marked node
\* that is not worse than all of a full list.
LEMMA StoppedSettles ==
  ASSUME GraphInv, Stopped
  PROVE  /\ layer = 0 /\ work \in {"dual", "block", "beam"}
         /\ work # "beam" => Settled /\ traversal.kind # "diskann"
         /\ work = "beam" => Read /\ traversal.kind = "diskann"
<1> DEFINE M == MarkedIn(seen)
           E == MarkedIn(expanded)
<1>1. /\ WorkInv /\ Valid /\ frontier \in SUBSET Nodes /\ retained \in SUBSET Nodes
  BY DEF GraphInv, GraphTypes
<1>2. work \in {"dual", "block", "beam"}
  BY DEF Stopped
<1>3. layer = 0
  BY <1>1, <1>2 DEF WorkInv
<1>m. M \in SUBSET Nodes /\ E \in SUBSET Nodes
  BY DEF MarkedIn
<1>4. CASE work = "dual"
  <2>1. DualInv(M, frontier, retained) /\ traversal.kind # "diskann"
    BY <1>1, <1>4 DEF WorkInv
  <2>2. frontier # {} => /\ Full(Heaps(frontier, retained))
                         /\ WorstScore(retained) < traversal.score[NearestNode(frontier)]
    BY <1>4 DEF Stopped
  <2> HIDE DEF M
  <2>3. /\ entry \in M /\ KeepsBestOf(retained, HeapSize, M \cap AcceptedNodes, ResultOrder)
        /\ \A p \in M : p \in frontier \/ Behind[p] \subseteq M \/ Worse(retained, p)
    BY <2>1 DEF DualInv
  <2>4. ASSUME NEW p \in frontier PROVE Worse(retained, p)
    <3> DEFINE near == NearestNode(frontier)
    <3>1. frontier # {} /\ p \in Nodes
      BY <1>1, <2>4
    <3>2. near \in frontier /\ (p = near \/ NodeBetter(near, p))
      BY <1>1, <3>1, FirstAndLast
    <3>3. WorstScore(retained) < traversal.score[near] /\ ~(Cardinality(retained) < HeapSize)
      <4>1. /\ WorstScore(retained) < traversal.score[near]
            /\ Cardinality(Heaps(frontier, retained).retained) >= HeapSize
        BY <2>2, <3>1 DEF Full
      <4>2. Heaps(frontier, retained).retained = retained
        BY DEF Heaps
      <4>3. Cardinality(retained) \in Nat /\ HeapSize \in Nat
        BY <1>1, NodeFacts, HeapSizeFacts, FS_Subset, FS_CardinalityType
      <4> QED BY <4>1, <4>2, <4>3
    <3> HIDE DEF near
    <3>4. near \in Nodes
      BY <1>1, <3>2
    <3>5. traversal.score[near] \in Int /\ traversal.score[p] \in Int
      BY <1>1, <3>1, <3>4, ScoreFacts
    <3>6. traversal.score[near] <= traversal.score[p]
      BY <3>2, <3>5 DEF NodeBetter
    <3>7. retained # {} /\ (Cardinality(retained) <= HeapSize => Cardinality(retained) = HeapSize)
      BY <1>1, <3>3, FullHolds
    <3>8. Cardinality(retained) <= HeapSize
      BY <2>3 DEF KeepsBestOf
    <3>9. WorstScore(retained) \in Int /\ \A q \in retained : traversal.score[q] <= WorstScore(retained)
      BY <1>1, <3>7, WorstFacts
    <3>10. \A q \in retained : traversal.score[q] \in Int
      BY <1>1, ScoreFacts
    <3>11. \A q \in retained : traversal.score[q] < traversal.score[p]
      BY <3>3, <3>5, <3>6, <3>9, <3>10
    <3> QED BY <3>7, <3>8, <3>11 DEF Worse
  <2>5. DualInv(M, {}, retained)
    BY <2>3, <2>4 DEF DualInv
  <2>6. Settled
    BY <1>m, <2>5 DEF Settled
  <2> QED BY <1>3, <1>4, <2>1, <2>6
<1>5. CASE work = "block"
  <2>1. BlockInv(M, E, retained, popped, overflow) /\ traversal.kind # "diskann"
    BY <1>1, <1>5 DEF WorkInv
  <2>2. retained \subseteq popped /\ ToSet(overflow) = {}
    <3>1. retained \subseteq popped /\ overflow = <<>>
      BY <1>5 DEF Stopped
    <3> QED BY <3>1 DEF ToSet
  <2> HIDE DEF M, E
  <2>3. M \cap AcceptedNodes = M
    BY <1>m, <2>1 DEF BlockInv
  <2>4. DualInv(M, {}, retained)
    BY <2>1, <2>2, <2>3 DEF DualInv, BlockInv
  <2>5. Settled
    BY <1>m, <2>4 DEF Settled
  <2> QED BY <1>3, <1>5, <2>1, <2>5
<1>6. CASE work = "beam"
  <2>1. BeamInv(M, E, frontier, retained, collected) /\ traversal.kind = "diskann"
    BY <1>1, <1>6 DEF WorkInv
  <2>2. \A p \in frontier : p \in retained => Marked(expanded, p)
    <3>1. BeamBatch = <<>>
      BY <1>6 DEF Stopped
    <3> QED BY <1>1, <3>1, BatchOf
  <2>3. \A p \in frontier : p \in retained => p \in E
    BY <1>1, <2>2 DEF MarkedIn
  <2> HIDE DEF M, E
  <2>4. BeamInv(M, E, {}, retained, collected)
    BY <2>1, <2>3 DEF BeamInv
  <2>5. Read
    BY <1>m, <2>4 DEF Read
  <2> QED BY <1>3, <1>6, <2>1, <2>5
<1> QED BY <1>2, <1>4, <1>5, <1>6

LEMMA FinishSearchKeeps ==
  ASSUME GraphInv, FinishSearch
  PROVE  GraphInv'
<1>1. GraphTypes /\ EntryNearest
  BY DEF GraphInv
<1>2. /\ traversal' = traversal /\ seen' = seen /\ expanded' = expanded /\ entry' = entry /\ layer' = layer
      /\ frontier' = frontier /\ retained' = retained /\ popped' = popped /\ overflow' = overflow
      /\ collected' = collected /\ work' = "done" /\ Stopped /\ traversal.groupCount = 0
  BY DEF FinishSearch
<1>3. Nodes' = Nodes /\ Valid' = Valid
  BY <1>2, TraversalKept
<1>4. layer = 0 /\ (traversal.kind # "diskann" => Settled) /\ (traversal.kind = "diskann" => Read)
  BY <1>2, StoppedSettles
<1>5. (Settled' <=> Settled) /\ (Read' <=> Read)
  BY <1>2, SettledKept, ReadKept
<1>6. GraphTypes'
  BY <1>1, <1>2, <1>3 DEF GraphTypes
<1>7. EntryNearest'
  BY <1>1, <1>2, EntryKept
<1>8. WorkInv'
  BY <1>2, <1>4, <1>5 DEF WorkInv
<1> QED BY <1>6, <1>7, <1>8 DEF GraphInv

LEMMA BeginGroupsKeeps ==
  ASSUME GraphInv, BeginGroups
  PROVE  GraphInv'
<1>1. /\ GraphTypes /\ EntryNearest /\ Valid /\ MarksHold(seen) /\ MarksHold(expanded) /\ retained \in SUBSET Nodes
  BY DEF GraphInv, GraphTypes
<1>2. /\ traversal' = traversal /\ entry' = entry /\ layer' = layer /\ retained' = retained /\ popped' = popped
      /\ overflow' = overflow /\ collected' = Initial /\ Stopped /\ traversal.groupCount > 0
      /\ \/ /\ Enough(Initial) \/ Initial = {}
            /\ work' = "done" /\ seen' = seen /\ expanded' = expanded /\ frontier' = frontier
         \/ /\ work' = "groups" /\ frontier' = Initial
            /\ seen' = Mark(Cleared(seen), Initial) /\ expanded' = Cleared(expanded)
  BY DEF BeginGroups, Enough
<1>3. traversal.kind = "hnsw"
  BY <1>1, <1>2 DEF Valid, ValidTraversal
<1>4. layer = 0 /\ Settled
  BY <1>2, <1>3, StoppedSettles
<1>5. Initial \in SUBSET Nodes
  BY <1>1 DEF Initial, Closest
<1>6. /\ Nodes' = Nodes /\ Valid' = Valid /\ Behind' = Behind /\ AcceptedNodes' = AcceptedNodes /\ (Settled' <=> Settled)
      /\ Initial' = Initial /\ \A c : (Enough(c)' <=> Enough(c))
  BY <1>2, TraversalKept, SettledKept, InitialKept
<1>7. EntryNearest'
  BY <1>1, <1>2, EntryKept
<1>8. CASE (Enough(Initial) \/ Initial = {}) /\ work' = "done" /\ seen' = seen /\ expanded' = expanded /\ frontier' = frontier
  <2>1. GraphTypes'
    BY <1>1, <1>2, <1>5, <1>6, <1>8 DEF GraphTypes
  <2>2. Gathered'
    <3>1. CASE Enough(Initial)
      <4>1. Enough(collected)'
        BY <1>2, <3>1 DEF Enough, GroupsOf
      <4> QED BY <4>1 DEF Gathered
    <3>2. CASE Initial = {}
      <4>1. GroupsInv({}, {}, collected)'
        BY <1>6, <3>2 DEF GroupsInv
      <4> QED BY <1>6, <4>1 DEF Gathered
    <3> QED BY <1>8, <3>1, <3>2
  <2>3. WorkInv'
    BY <1>2, <1>3, <1>4, <1>6, <1>8, <2>2 DEF WorkInv
  <2> QED BY <1>7, <2>1, <2>3 DEF GraphInv
<1>9. CASE /\ work' = "groups" /\ frontier' = Initial
           /\ seen' = Mark(Cleared(seen), Initial) /\ expanded' = Cleared(expanded)
  <2>1. MarksHold(Cleared(seen)) /\ Blank(Cleared(seen)) /\ MarksHold(expanded') /\ Blank(Cleared(expanded))
    BY <1>1, <1>3, <1>9, ClearedBlank
  <2>2. MarksHold(seen') /\ Sized(Mark(Cleared(seen), Initial)) /\ MarkedIn(Mark(Cleared(seen), Initial)) = Initial
    <3>1. Sized(Cleared(seen)) /\ MarkedIn(Cleared(seen)) = {}
      BY <2>1 DEF Blank
    <3>2. /\ MarksHold(Mark(Cleared(seen), Initial)) /\ Sized(Mark(Cleared(seen), Initial))
          /\ MarkedIn(Mark(Cleared(seen), Initial)) = {} \cup Initial
      BY <1>1, <1>5, <2>1, <3>1, MarkAdds
    <3> QED BY <1>9, <3>2
  <2>3. MarkedIn(seen)' = Initial /\ Sized(seen)' /\ Sized(expanded)'
    <3>1. MarkedIn(seen)' = MarkedIn(Mark(Cleared(seen), Initial))
      BY <1>6, <1>9 DEF MarkedIn, Marked
    <3>2. Sized(seen)' /\ Sized(expanded)'
      BY <1>6, <1>9, <2>1, <2>2 DEF Sized, Blank
    <3> QED BY <2>2, <3>1, <3>2
  <2>4. GraphTypes'
    BY <1>1, <1>2, <1>5, <1>6, <1>9, <2>1, <2>2 DEF GraphTypes
  <2>5. GroupsInv(MarkedIn(seen), frontier, collected)'
    BY <1>2, <1>6, <1>9, <2>3 DEF GroupsInv
  <2>6. WorkInv'
    BY <1>2, <1>3, <1>4, <1>6, <1>9, <2>3, <2>5 DEF WorkInv
  <2> QED BY <1>7, <2>4, <2>6 DEF GraphInv
<1> QED BY <1>2, <1>8, <1>9

\* A node is looked behind for groups: t is what was added.
LEMMA GroupsStep ==
  ASSUME Valid, NEW M \in SUBSET Nodes, NEW f \in SUBSET Nodes, NEW c \in SUBSET Nodes, GroupsInv(M, f, c), ~Enough(c),
         NEW current \in f, NEW fresh \in Seq(Nodes), Behind[current] \subseteq M \cup ToSet(fresh),
         NEW t, t = GroupsAfter([collected |-> c, marked |-> {}, frontier |-> f \ {current}], fresh)[Len(fresh)]
  PROVE  t \in GroupState /\ GroupsInv(M \cup t.marked, t.frontier, t.collected)
<1>1. f \ {current} \in SUBSET Nodes
  OBVIOUS
<1>2. t \in GroupState /\ Grouped(t, c, f \ {current}, ToSet(fresh))
  BY <1>1, GroupsFold
<1>3. Initial \subseteq M /\ M \cap AcceptedNodes \subseteq c /\ \A p \in M : p \in f \/ Behind[p] \subseteq M
  BY DEF GroupsInv
<1>4. CASE Enough(t.collected)
  BY <1>2, <1>3, <1>4 DEF GroupsInv
<1>5. CASE /\ t.marked = ToSet(fresh) /\ (f \ {current}) \cup ToSet(fresh) \subseteq t.frontier
           /\ c \cup (ToSet(fresh) \cap AcceptedNodes) \subseteq t.collected
  <2> DEFINE B == ToSet(fresh)
             N == M \cup B
  <2>1. Behind[current] \subseteq N
    OBVIOUS
  <2> HIDE DEF B
  <2>2. \A p \in N : p \in t.frontier \/ Behind[p] \subseteq N
    BY <1>3, <1>5, <2>1 DEF B
  <2>3. N \cap AcceptedNodes \subseteq t.collected /\ Initial \subseteq N
    BY <1>3, <1>5 DEF B
  <2>4. GroupsInv(N, t.frontier, t.collected)
    BY <2>2, <2>3 DEF GroupsInv
  <2> QED BY <1>2, <1>5, <2>4 DEF B
<1> QED BY <1>2, <1>4, <1>5 DEF Grouped

LEMMA ExpandGroupsKeeps ==
  ASSUME GraphInv, ExpandGroups
  PROVE  GraphInv'
<1> DEFINE M == MarkedIn(seen)
           current == BestResult(frontier)
           fresh == Unseen(seen, current, 0)
           t == GroupsAfter([collected |-> collected, marked |-> {}, frontier |-> frontier \ {current}], fresh)[Len(fresh)]
<1>1. /\ GraphTypes /\ EntryNearest /\ WorkInv /\ Valid /\ MarksHold(seen) /\ MarksHold(expanded) /\ frontier \in SUBSET Nodes
      /\ collected \in SUBSET Nodes /\ retained \in SUBSET Nodes
  BY DEF GraphInv, GraphTypes
<1>2. /\ traversal' = traversal /\ expanded' = expanded /\ entry' = entry /\ layer' = layer /\ retained' = retained
      /\ popped' = popped /\ overflow' = overflow /\ work = "groups" /\ work' = "groups" /\ frontier # {}
      /\ Cardinality(GroupsOf(collected)) < traversal.groupCount
      /\ collected' = t.collected /\ frontier' = t.frontier /\ seen' = Mark(seen, t.marked)
  BY DEF ExpandGroups
<1>3. /\ Sized(seen) /\ Sized(expanded) /\ layer = 0 /\ traversal.kind = "hnsw" /\ Settled
      /\ GroupsInv(M, frontier, collected)
  BY <1>1, <1>2 DEF WorkInv
<1>m. M \in SUBSET Nodes
  BY DEF MarkedIn
<1>4. ~Enough(collected)
  <2>2. Cardinality(GroupsOf(collected)) \in Nat
    BY <1>1, GroupsCount
  <2>3. traversal.groupCount \in Nat
    BY <1>1 DEF Valid, ValidTraversal
  <2> QED BY <1>2, <2>2, <2>3 DEF Enough
<1>5. current \in frontier
  BY <1>1, <1>2, FirstAndLast
<1>6. current \in Nodes
  BY <1>1, <1>5
<1> HIDE DEF current
<1>7. fresh \in Seq(Nodes) /\ Behind[current] \subseteq M \cup ToSet(fresh)
  BY <1>1, <1>3, <1>6, BaseLayer, BehindFacts, FreshMarks
<1> HIDE DEF fresh, M
<1>8. t \in GroupState /\ GroupsInv(M \cup t.marked, t.frontier, t.collected)
  BY <1>1, <1>3, <1>4, <1>5, <1>7, <1>m, GroupsStep
<1> HIDE DEF t
<1>9. t.collected \in SUBSET Nodes /\ t.marked \in SUBSET Nodes /\ t.frontier \in SUBSET Nodes
  BY <1>8 DEF GroupState
<1>10. MarksHold(Mark(seen, t.marked)) /\ Sized(Mark(seen, t.marked)) /\ MarkedIn(Mark(seen, t.marked)) = M \cup t.marked
  BY <1>1, <1>3, <1>9, MarkAdds DEF M
<1>11. /\ Nodes' = Nodes /\ Valid' = Valid /\ Behind' = Behind /\ AcceptedNodes' = AcceptedNodes /\ (Settled' <=> Settled)
       /\ Initial' = Initial
  BY <1>2, TraversalKept, SettledKept, InitialKept
<1>12. MarkedIn(seen)' = M \cup t.marked /\ Sized(seen)' /\ Sized(expanded)'
  <2>1. MarkedIn(seen)' = MarkedIn(Mark(seen, t.marked))
    BY <1>2, <1>11 DEF MarkedIn, Marked
  <2>2. Sized(seen)' /\ Sized(expanded)'
    BY <1>2, <1>3, <1>10, <1>11 DEF Sized
  <2> QED BY <1>10, <2>1, <2>2
<1>13. GraphTypes'
  BY <1>1, <1>2, <1>9, <1>10, <1>11 DEF GraphTypes
<1>14. GroupsInv(MarkedIn(seen), frontier, collected)'
  <2>1. Enough(collected)' <=> Enough(t.collected)
    BY <1>2 DEF Enough, GroupsOf
  <2> QED BY <1>2, <1>8, <1>11, <1>12, <2>1 DEF GroupsInv
<1>15. WorkInv'
  BY <1>2, <1>3, <1>11, <1>12, <1>14 DEF WorkInv
<1>16. EntryNearest'
  BY <1>1, <1>2, EntryKept
<1> QED BY <1>13, <1>15, <1>16 DEF GraphInv

LEMMA FinishGroupSearchKeeps ==
  ASSUME GraphInv, FinishGroupSearch
  PROVE  GraphInv'
<1>1. GraphTypes /\ EntryNearest /\ WorkInv
  BY DEF GraphInv
<1>2. /\ traversal' = traversal /\ seen' = seen /\ expanded' = expanded /\ entry' = entry /\ layer' = layer
      /\ frontier' = frontier /\ retained' = retained /\ popped' = popped /\ overflow' = overflow
      /\ collected' = collected /\ work' = "done" /\ work = "groups" /\ (frontier = {} \/ Enough(collected))
  BY DEF FinishGroupSearch, Enough
<1>3. Nodes' = Nodes /\ Valid' = Valid /\ (Settled' <=> Settled) /\ (Gathered' <=> Gathered)
  BY <1>2, TraversalKept, SettledKept, GatheredKept
<1>4. layer = 0 /\ traversal.kind = "hnsw" /\ Settled /\ GroupsInv(MarkedIn(seen), frontier, collected)
  BY <1>1, <1>2 DEF WorkInv
<1>5. Gathered
  <2>1. MarkedIn(seen) \in SUBSET Nodes
    BY DEF MarkedIn
  <2>2. CASE frontier = {}
    BY <1>4, <2>1, <2>2 DEF Gathered
  <2>3. CASE Enough(collected)
    BY <2>3 DEF Gathered
  <2> QED BY <1>2, <2>2, <2>3
<1>6. GraphTypes'
  BY <1>1, <1>2, <1>3 DEF GraphTypes
<1>7. EntryNearest'
  BY <1>1, <1>2, EntryKept
<1>8. WorkInv'
  BY <1>2, <1>3, <1>4, <1>5 DEF WorkInv
<1> QED BY <1>6, <1>7, <1>8 DEF GraphInv

\* A step that changes nothing of the search.
LEMMA GraphStutters ==
  ASSUME GraphInv, UNCHANGED graphSearchVars
  PROVE  GraphInv'
<1>1. GraphTypes /\ EntryNearest /\ WorkInv
  BY DEF GraphInv
<1>2. /\ traversal' = traversal /\ seen' = seen /\ expanded' = expanded /\ entry' = entry /\ layer' = layer
      /\ frontier' = frontier /\ retained' = retained /\ popped' = popped /\ overflow' = overflow
      /\ collected' = collected /\ work' = work
  BY DEF graphSearchVars
<1>3. /\ Nodes' = Nodes /\ Valid' = Valid /\ HeapSize' = HeapSize /\ Behind' = Behind /\ AcceptedNodes' = AcceptedNodes
      /\ ResultOrder' = ResultOrder /\ QueueOrder' = QueueOrder /\ Traversing' = Traversing
      /\ Initial' = Initial /\ \A c : (Enough(c)' <=> Enough(c))
  BY <1>2, TraversalKept, InitialKept
<1>4. (Settled' <=> Settled) /\ (Read' <=> Read) /\ (Gathered' <=> Gathered)
  BY <1>2, SettledKept, ReadKept, GatheredKept
<1>5. GraphTypes'
  BY <1>1, <1>2, <1>3 DEF GraphTypes
<1>6. EntryNearest'
  BY <1>1, <1>2, EntryKept
<1>7. MarkedIn(seen)' = MarkedIn(seen) /\ MarkedIn(expanded)' = MarkedIn(expanded)
  BY <1>2, <1>3 DEF MarkedIn, Marked
<1>8. /\ Sized(seen)' = Sized(seen) /\ Sized(expanded)' = Sized(expanded)
      /\ Blank(seen)' = Blank(seen) /\ Blank(expanded)' = Blank(expanded)
  BY <1>2, <1>3, <1>7 DEF Sized, Blank
<1>9. DescendInv(MarkedIn(seen), frontier, retained)' <=> DescendInv(MarkedIn(seen), frontier, retained)
  BY <1>2, <1>3, <1>7 DEF DescendInv, NodeBetter, Adjacent
<1>10. \A p : Worse(retained, p)' <=> Worse(retained, p)
  BY <1>2, <1>3 DEF Worse
<1>11. DualInv(MarkedIn(seen), frontier, retained)' <=> DualInv(MarkedIn(seen), frontier, retained)
  BY <1>2, <1>3, <1>7, <1>10 DEF DualInv
<1>12. BlockInv(MarkedIn(seen), MarkedIn(expanded), retained, popped, overflow)'
         <=> BlockInv(MarkedIn(seen), MarkedIn(expanded), retained, popped, overflow)
  BY <1>2, <1>3, <1>7, <1>10 DEF BlockInv
<1>13. BeamInv(MarkedIn(seen), MarkedIn(expanded), frontier, retained, collected)'
         <=> BeamInv(MarkedIn(seen), MarkedIn(expanded), frontier, retained, collected)
  BY <1>2, <1>3, <1>7 DEF BeamInv
<1>14. GroupsInv(MarkedIn(seen), frontier, collected)' <=> GroupsInv(MarkedIn(seen), frontier, collected)
  <2>1. Enough(collected)' <=> Enough(collected)
    BY <1>2 DEF Enough, GroupsOf
  <2> QED BY <1>2, <1>3, <1>7, <2>1 DEF GroupsInv
<1>15. WorkInv'
  BY <1>1, <1>2, <1>3, <1>4, <1>8, <1>9, <1>11, <1>12, <1>13, <1>14 DEF WorkInv
<1> QED BY <1>5, <1>6, <1>15 DEF GraphInv

\* No search of a finished graph stops too early: the list of results holds the
\* best of what the nodes that do as well as its worst lead to, with two heaps
\* and with a block heap (searchHNSWBase, searchHNSWBaseBlockHeap and their
\* Vamana counterparts); DiskANN has read the best codes it could reach; the
\* groups that are missing cannot be reached; and the marks that return to the
\* pool never look fresh to a later search.
THEOREM SearchIsClosed == GraphSearchSpec => []SearchClosed
<1>1. GraphSearchInit => GraphInv
  BY GraphInitially
<1>2. GraphInv /\ [GraphSearchNext]_graphSearchVars => GraphInv'
  <2> SUFFICES ASSUME GraphInv, [GraphSearchNext]_graphSearchVars PROVE GraphInv'
    OBVIOUS
  <2>1. CASE ScanSmall
    BY <2>1, ScanSmallKeeps
  <2>2. CASE EnterLayer
    BY <2>2, EnterLayerKeeps
  <2>3. CASE Descend
    BY <2>3, DescendKeeps
  <2>4. CASE LeaveLayer
    BY <2>4, LeaveLayerKeeps
  <2>5. CASE EnterBase
    BY <2>5, EnterBaseKeeps
  <2>6. CASE ExpandDual
    BY <2>6, ExpandDualKeeps
  <2>7. CASE ExpandBlock
    BY <2>7, ExpandBlockKeeps
  <2>8. CASE ExpandBeam
    BY <2>8, ExpandBeamKeeps
  <2>9. CASE FinishSearch
    BY <2>9, FinishSearchKeeps
  <2>10. CASE BeginGroups
    BY <2>10, BeginGroupsKeeps
  <2>11. CASE ExpandGroups
    BY <2>11, ExpandGroupsKeeps
  <2>12. CASE FinishGroupSearch
    BY <2>12, FinishGroupSearchKeeps
  <2>13. CASE UNCHANGED graphSearchVars
    BY <2>13, GraphStutters
  <2> QED BY <2>1, <2>2, <2>3, <2>4, <2>5, <2>6, <2>7, <2>8, <2>9, <2>10, <2>11, <2>12, <2>13 DEF GraphSearchNext
<1>3. GraphInv => SearchClosed
  BY GraphInvCloses
<1> QED BY <1>1, <1>2, <1>3, PTL DEF GraphSearchSpec
=============================================================================
