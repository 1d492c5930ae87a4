---------------------------- MODULE FiniteLemmas ----------------------------
(***************************************************************************)
(* Facts about finite sets and sets of numbers that the proofs of several  *)
(* components rest on.  Induction over a finite set is done in first-order *)
(* form: of the subsets where a claim fails, take a smallest one.          *)
(***************************************************************************)
EXTENDS Ordering, Integers, Sequences, FiniteSets, FiniteSetsExt, FunctionTheorems, FiniteSetTheorems, WellFoundedInduction, TLAPS

\* A family of subsets of a finite set has a member with no smaller one in it.
LEMMA SmallestSubset ==
  ASSUME NEW S, IsFiniteSet(S), NEW B \in SUBSET (SUBSET S), B # {}
  PROVE  \E T \in B : \A U \in SUBSET T : U # T => U \notin B
<1>1. IsWellFoundedOn(StrictSubsetOrdering(S), SUBSET S)
  BY FS_FiniteSubsetsOfFinite, FS_StrictSubsetOrderingWellFounded
<1>2. PICK T \in B : \A U \in B : <<U, T>> \notin StrictSubsetOrdering(S)
  BY <1>1, WFMin
<1>3. \A U \in SUBSET T : U # T /\ U \in B => <<U, T>> \in StrictSubsetOrdering(S)
  BY DEF StrictSubsetOrdering
<1>4. \A U \in SUBSET T : U # T => U \notin B
  BY <1>2, <1>3
<1> QED BY <1>4

\* R compares any two elements of S and is transitive on it.
Orders(R, S) ==
  /\ \A x, y \in S : x # y => <<x, y>> \in R \/ <<y, x>> \in R
  /\ \A x, y, z \in S : <<x, y>> \in R /\ <<y, z>> \in R => <<x, z>> \in R

IsLast(m, R, S) == m \in S /\ \A x \in S \ {m} : <<x, m>> \in R

\* Of finitely many ordered elements one is last.
LEMMA LastOfFinite ==
  ASSUME NEW S, IsFiniteSet(S), S # {}, NEW R, Orders(R, S)
  PROVE  \E m : IsLast(m, R, S)
<1> USE DEF Orders, IsLast
<1> DEFINE B == {T \in SUBSET S : T # {} /\ ~\E m : IsLast(m, R, T)}
<1>0. S \in SUBSET S
  OBVIOUS
<1>1. SUFFICES ASSUME B # {} PROVE FALSE
  BY <1>0
<1>2. PICK T \in B : \A U \in SUBSET T : U # T => U \notin B
  <2>1. B \in SUBSET (SUBSET S)
    OBVIOUS
  <2> HIDE DEF B
  <2> QED BY <1>1, <2>1, SmallestSubset
<1>3. PICK a \in T : TRUE
  OBVIOUS
<1>4. CASE T = {a}
  BY <1>2, <1>4
<1>5. CASE T # {a}
  <2>1. T \ {a} # {} /\ T \ {a} \in SUBSET T /\ T \ {a} # T /\ T \ {a} \in SUBSET S
    BY <1>3, <1>5
  <2>2. PICK m : IsLast(m, R, T \ {a})
    BY <1>2, <2>1
  <2>3. CASE <<a, m>> \in R
    BY <1>2, <2>2, <2>3
  <2>4. CASE <<m, a>> \in R
    <3>1. \A x \in T \ {a} : <<x, a>> \in R
      BY <1>2, <1>3, <2>2, <2>4
    <3> QED BY <1>2, <1>3, <3>1
  <2> QED BY <1>2, <1>3, <2>2, <2>3, <2>4
<1> QED BY <1>4, <1>5

\* A set of natural numbers has a least element.
LEMMA LeastNat ==
  ASSUME NEW S \in SUBSET Nat, S # {}
  PROVE  \E m \in S : \A n \in S : m <= n
<1>1. PICK a \in S : TRUE
  OBVIOUS
<1> DEFINE T == {x \in S : x <= a}
           R == {x \in Nat \X Nat : x[1] > x[2]}
<1>2. a \in T /\ a \in Nat /\ \A x \in T : x \in Nat /\ x <= a
  BY <1>1
<1>3. IsFiniteSet(T)
  <2>1. \A x \in T : x \in 0..a
    BY <1>2
  <2>2. T \in SUBSET (0..a)
    BY <2>1
  <2>3. IsFiniteSet(0..a)
    BY <1>2, FS_Interval
  <2> HIDE DEF T
  <2> QED BY <2>2, <2>3, FS_Subset
<1>4. \A x, y \in Nat : <<x, y>> \in R <=> x > y
  OBVIOUS
<1>5. \A n \in S : n \in T \/ n > a
  BY <1>2
<1> HIDE DEF R, T
<1>6. PICK m : IsLast(m, R, T)
  <2>1. Orders(R, T)
    BY <1>2, <1>4 DEF Orders
  <2>2. T # {}
    BY <1>2
  <2> QED BY <1>3, <2>1, <2>2, LastOfFinite
<1>7. ASSUME NEW x \in T PROVE m <= x
  <2>1. m \in T /\ (x # m => <<x, m>> \in R)
    BY <1>6 DEF IsLast
  <2> QED BY <1>2, <1>4, <2>1
<1>8. m \in S
  BY <1>6 DEF T, IsLast
<1> QED BY <1>1, <1>2, <1>5, <1>6, <1>7, <1>8

LEMMA MinOfNats ==
  ASSUME NEW S \in SUBSET Nat, S # {}
  PROVE  Min(S) \in S /\ \A n \in S : Min(S) <= n
<1>1. \E m \in S : \A n \in S : m <= n
  BY LeastNat
<1> QED BY <1>1 DEF Min

LEMMA MaxOfNats ==
  ASSUME NEW S \in SUBSET Nat, S # {}, IsFiniteSet(S)
  PROVE  Max(S) \in S /\ \A n \in S : n <= Max(S)
<1> DEFINE R == {x \in Nat \X Nat : x[1] < x[2]}
<1>1. \A x, y \in Nat : <<x, y>> \in R <=> x < y
  OBVIOUS
<1> HIDE DEF R
<1>2. PICK m : IsLast(m, R, S)
  <2>1. Orders(R, S)
    BY <1>1 DEF Orders
  <2> QED BY <2>1, LastOfFinite
<1>3. \E x \in S : \A n \in S : x >= n
  <2>1. m \in S /\ m \in Nat /\ \A n \in S : n # m => <<n, m>> \in R
    BY <1>2 DEF IsLast
  <2>2. ASSUME NEW n \in S PROVE m >= n
    <3>1. n \in Nat /\ m \in Nat
      BY <2>1
    <3>2. <<n, m>> \in R <=> n < m
      BY <1>1, <3>1
    <3> QED BY <2>1, <3>1, <3>2
  <2> QED BY <2>1, <2>2
<1>4. Max(S) \in S /\ \A n \in S : Max(S) >= n
  BY <1>3 DEF Max
<1> QED BY <1>4

\* R is also strict: no element comes before itself.
StrictlyOrders(R, S) == Orders(R, S) /\ \A x \in S : <<x, x>> \notin R

\* In a finite ordered set there is an element of every rank.
LEMMA RankExists ==
  ASSUME NEW S, IsFiniteSet(S), NEW R, StrictlyOrders(R, S), NEW i \in 1..Cardinality(S)
  PROVE  \E c \in S : Cardinality({q \in S : <<q, c>> \in R}) = i - 1
<1> DEFINE Ranked(T) == \A j \in 1..Cardinality(T) :
                          \E c \in T : Cardinality({q \in T : <<q, c>> \in R}) = j - 1
           B == {T \in SUBSET S : ~Ranked(T)}
<1>1. SUFFICES ASSUME B # {} PROVE FALSE
  <2>1. S \in SUBSET S
    OBVIOUS
  <2> QED BY <2>1
<1>2. PICK T \in B : \A U \in SUBSET T : U # T => U \notin B
  <2>1. B \in SUBSET (SUBSET S)
    OBVIOUS
  <2> HIDE DEF B
  <2> QED BY <1>1, <2>1, SmallestSubset
<1>3. IsFiniteSet(T) /\ T \in SUBSET S
  BY <1>2, FS_Subset
<1>4. CASE T = {}
  <2>1. Cardinality(T) = 0
    BY <1>4, FS_EmptySet
  <2> QED BY <1>2, <2>1
<1>5. CASE T # {}
  <2>1. PICK m : IsLast(m, R, T)
    <3>1. Orders(R, T)
      BY <1>3 DEF Orders, StrictlyOrders
    <3> QED BY <1>3, <1>5, <3>1, LastOfFinite
  <2>2. m \in T /\ \A q \in T \ {m} : <<q, m>> \in R /\ <<m, q>> \notin R
    <3>1. m \in T /\ \A q \in T \ {m} : <<q, m>> \in R
      BY <2>1 DEF IsLast
    <3>2. \A q \in T \ {m} : <<m, q>> \in R => <<m, m>> \in R
      BY <1>3, <3>1 DEF Orders, StrictlyOrders
    <3> QED BY <1>3, <3>1, <3>2 DEF StrictlyOrders
  <2> DEFINE U == T \ {m}
  <2>3. Ranked(U)
    <3>1. U \in SUBSET T /\ U # T /\ U \in SUBSET S
      BY <1>2, <2>2
    <3>2. U \notin B
      BY <1>2, <3>1
    <3> QED BY <3>1, <3>2
  <2>4. Cardinality(U) = Cardinality(T) - 1 /\ Cardinality(T) \in Nat /\ Cardinality(U) \in Nat
    BY <1>3, <2>2, FS_RemoveElement, FS_CardinalityType
  <2>5. {q \in T : <<q, m>> \in R} = U
    BY <1>3, <2>2 DEF StrictlyOrders
  <2>6. \A c \in U : {q \in T : <<q, c>> \in R} = {q \in U : <<q, c>> \in R}
    BY <2>2
  <2>7. ASSUME NEW j \in 1..Cardinality(T)
        PROVE  \E c \in T : Cardinality({q \in T : <<q, c>> \in R}) = j - 1
    <3>1. CASE j = Cardinality(T)
      <4>1. Cardinality({q \in T : <<q, m>> \in R}) = j - 1
        BY <2>4, <2>5, <3>1
      <4> QED BY <2>2, <4>1
    <3>2. CASE j # Cardinality(T)
      <4>1. j \in 1..Cardinality(U)
        BY <2>4, <3>2
      <4>2. PICK c \in U : Cardinality({q \in U : <<q, c>> \in R}) = j - 1
        BY <2>3, <4>1
      <4>3. {q \in T : <<q, c>> \in R} = {q \in U : <<q, c>> \in R} /\ c \in T
        BY <2>6, <4>2
      <4> QED BY <4>2, <4>3
    <3> QED BY <3>1, <3>2
  <2> QED BY <1>2, <2>7
<1> QED BY <1>4, <1>5

\* n + 1 numbers are not all among n elements.
LEMMA Pigeonhole ==
  ASSUME NEW S, IsFiniteSet(S), NEW n \in Nat
  PROVE  \E i \in n..(n + Cardinality(S)) : i \notin S
<1>1. Cardinality(S) \in Nat
  BY FS_CardinalityType
<1>2. Cardinality(n..(n + Cardinality(S))) = Cardinality(S) + 1
  BY <1>1, FS_Interval
<1>3. SUFFICES ASSUME n..(n + Cardinality(S)) \subseteq S PROVE FALSE
  OBVIOUS
<1>4. Cardinality(n..(n + Cardinality(S))) <= Cardinality(S)
  BY <1>3, FS_Subset
<1> QED BY <1>1, <1>2, <1>4

-----------------------------------------------------------------------------
(* Sorted enumerations.                                                    *)

\* Of two elements the later one has more before it.
LEMMA RankGrows ==
  ASSUME NEW S, IsFiniteSet(S), NEW R, StrictlyOrders(R, S), NEW x \in S, NEW y \in S, <<x, y>> \in R
  PROVE  Cardinality({q \in S : <<q, x>> \in R}) < Cardinality({q \in S : <<q, y>> \in R})
<1> USE DEF StrictlyOrders, Orders
<1> DEFINE A == {q \in S : <<q, x>> \in R}
           B == {q \in S : <<q, y>> \in R}
<1>1. A \subseteq B /\ x \in B /\ x \notin A /\ B \subseteq S
  OBVIOUS
<1>2. IsFiniteSet(B) /\ A # B
  BY <1>1, FS_Subset
<1> HIDE DEF A, B
<1>3. Cardinality(A) < Cardinality(B)
  <2>1. Cardinality(A) <= Cardinality(B) /\ (Cardinality(A) = Cardinality(B) => A = B)
    BY <1>1, <1>2, FS_Subset
  <2>2. Cardinality(A) \in Nat /\ Cardinality(B) \in Nat
    BY <1>1, <1>2, FS_Subset, FS_CardinalityType
  <2> QED BY <1>2, <2>1, <2>2
<1> QED BY <1>3 DEF A, B

\* An element has fewer elements before it than there are.
LEMMA RankBound ==
  ASSUME NEW S, IsFiniteSet(S), NEW R, StrictlyOrders(R, S), NEW x \in S
  PROVE  /\ Cardinality({q \in S : <<q, x>> \in R}) \in Nat
         /\ Cardinality({q \in S : <<q, x>> \in R}) < Cardinality(S)
<1> USE DEF StrictlyOrders, Orders
<1> DEFINE A == {q \in S : <<q, x>> \in R}
<1>1. A \subseteq S /\ A # S
  OBVIOUS
<1> HIDE DEF A
<1>2. Cardinality(A) \in Nat /\ Cardinality(S) \in Nat
  BY <1>1, FS_Subset, FS_CardinalityType
<1>3. Cardinality(A) <= Cardinality(S) /\ (Cardinality(A) = Cardinality(S) => A = S)
  BY <1>1, FS_Subset
<1> QED BY <1>1, <1>2, <1>3 DEF A

\* The element of a rank is the one at its place.
LEMMA EnumeratedAt ==
  ASSUME NEW S, IsFiniteSet(S), NEW R, StrictlyOrders(R, S), NEW i \in 1..Cardinality(S)
  PROVE  /\ Enumerated(S, R)[i] \in S
         /\ Cardinality({q \in S : <<q, Enumerated(S, R)[i]>> \in R}) = i - 1
<1>1. \E c \in S : Cardinality({q \in S : <<q, c>> \in R}) = i - 1
  BY RankExists
<1>2. Enumerated(S, R)[i] = CHOOSE x \in S : Cardinality({y \in S : <<y, x>> \in R}) = i - 1
  BY DEF Enumerated
<1> QED BY <1>1, <1>2

\* The enumeration of a finite ordered set is a sequence of its elements, in
\* their order, with every element.
LEMMA EnumeratedSorts ==
  ASSUME NEW S, IsFiniteSet(S), NEW R, StrictlyOrders(R, S)
  PROVE  /\ Enumerated(S, R) \in Seq(S) /\ Len(Enumerated(S, R)) = Cardinality(S)
         /\ \A i, j \in 1..Cardinality(S) : i < j => <<Enumerated(S, R)[i], Enumerated(S, R)[j]>> \in R
         /\ \A x \in S : \E i \in 1..Cardinality(S) : Enumerated(S, R)[i] = x
<1> DEFINE E == Enumerated(S, R)
           Rank(x) == Cardinality({q \in S : <<q, x>> \in R})
<1>0. Cardinality(S) \in Nat
  BY FS_CardinalityType
<1>1. \A i \in 1..Cardinality(S) : E[i] \in S /\ Rank(E[i]) = i - 1
  BY EnumeratedAt
<1> DEFINE f(i) == CHOOSE x \in S : Cardinality({y \in S : <<y, x>> \in R}) = i - 1
<1>2. E = [i \in 1..Cardinality(S) |-> f(i)]
  BY DEF Enumerated
<1>2a. \A i \in 1..Cardinality(S) : f(i) \in S
  <2> HIDE DEF f
  <2> QED BY <1>1, <1>2
<1>3. \A x, y \in S : <<x, y>> \in R => Rank(x) < Rank(y)
  BY RankGrows
<1>4. \A x \in S : Rank(x) \in Nat /\ Rank(x) < Cardinality(S)
  BY RankBound
<1>5. \A x, y \in S : x # y => <<x, y>> \in R \/ <<y, x>> \in R
  BY DEF StrictlyOrders, Orders
<1> HIDE DEF E, Rank, f
<1>6. E \in Seq(S) /\ Len(E) = Cardinality(S)
  BY <1>0, <1>2, <1>2a
<1>7. ASSUME NEW i \in 1..Cardinality(S), NEW j \in 1..Cardinality(S), i < j PROVE <<E[i], E[j]>> \in R
  <2>1. E[i] \in S /\ E[j] \in S /\ Rank(E[i]) = i - 1 /\ Rank(E[j]) = j - 1
    BY <1>1
  <2>2. <<E[j], E[i]>> \notin R /\ E[i] # E[j]
    BY <1>0, <1>3, <1>7, <2>1
  <2> QED BY <1>5, <2>1, <2>2
<1>8. ASSUME NEW x \in S PROVE \E i \in 1..Cardinality(S) : E[i] = x
  <2>1. Rank(x) + 1 \in 1..Cardinality(S)
    BY <1>0, <1>4
  <2> DEFINE n == Rank(x) + 1
  <2>2. E[n] \in S /\ Rank(E[n]) = Rank(x)
    BY <1>0, <1>1, <1>4, <2>1
  <2>3. E[n] = x
    <3> HIDE DEF n
    <3>1. SUFFICES ASSUME E[n] # x PROVE FALSE
      OBVIOUS
    <3>2. <<E[n], x>> \in R \/ <<x, E[n]>> \in R
      BY <1>5, <2>2, <3>1
    <3>3. Rank(E[n]) < Rank(x) \/ Rank(x) < Rank(E[n])
      BY <1>3, <2>2, <3>2
    <3> QED BY <1>4, <2>2, <3>3
  <2> QED BY <2>1, <2>3
<1> QED BY <1>6, <1>7, <1>8 DEF E

\* It is the only one.
LEMMA EnumerationUnique ==
  ASSUME NEW S, IsFiniteSet(S), NEW R, StrictlyOrders(R, S), NEW s \in Seq(S),
         \A i, j \in 1..Len(s) : i < j => <<s[i], s[j]>> \in R,
         \A x \in S : \E i \in 1..Len(s) : s[i] = x
  PROVE  s = Enumerated(S, R)
<1> DEFINE E == Enumerated(S, R)
           Before(x) == {q \in S : <<q, x>> \in R}
<1>0. Len(s) \in Nat /\ \A i \in 1..Len(s) : s[i] \in S
  OBVIOUS
<1>1. \A x \in S : <<x, x>> \notin R
  BY DEF StrictlyOrders
<1>1a. \A x, y \in S : <<x, y>> \in R => <<y, x>> \notin R
  BY <1>1 DEF StrictlyOrders, Orders
<1>2. \A i, j \in 1..Len(s) : s[i] = s[j] => i = j
  <2> SUFFICES ASSUME NEW i \in 1..Len(s), NEW j \in 1..Len(s), s[i] = s[j], i # j PROVE FALSE
    OBVIOUS
  <2>1. i < j \/ j < i
    BY <1>0
  <2>2. <<s[i], s[i]>> \in R
    BY <2>1
  <2> QED BY <1>0, <1>1, <2>2
<1>3. Cardinality(S) = Len(s)
  <2> DEFINE f == [i \in 1..Len(s) |-> s[i]]
  <2>1. f \in Bijection(1..Len(s), S)
    BY <1>0, <1>2 DEF Bijection, Injection, Surjection, IsInjective
  <2>2. ExistsBijection(1..Len(s), S)
    BY <2>1 DEF ExistsBijection
  <2>3. IsFiniteSet(1..Len(s)) /\ Cardinality(1..Len(s)) = Len(s)
    <3>1. Cardinality(1..Len(s)) = IF 1 > Len(s) THEN 0 ELSE Len(s) - 1 + 1
      BY <1>0, FS_Interval
    <3>2. IsFiniteSet(1..Len(s))
      BY <1>0, FS_Interval
    <3> QED BY <1>0, <3>1, <3>2
  <2> QED BY <2>2, <2>3, FS_Bijection
<1>4. ASSUME NEW i \in 1..Len(s) PROVE Cardinality(Before(s[i])) = i - 1
  <2> DEFINE T == Before(s[i])
             f == [j \in 1..(i - 1) |-> s[j]]
  <2>1. \A j \in 1..Len(s) : s[j] \in T <=> j < i
    <3> SUFFICES ASSUME NEW j \in 1..Len(s) PROVE s[j] \in T <=> j < i
      OBVIOUS
    <3>1. s[j] \in S /\ s[i] \in S
      BY <1>0
    <3>2. CASE j < i
      BY <3>1, <3>2
    <3>3. CASE j = i
      BY <1>1, <3>1, <3>3
    <3>4. CASE i < j
      <4>1. <<s[i], s[j]>> \in R
        BY <3>4
      <4> QED BY <1>1a, <3>1, <3>4, <4>1
    <3> QED BY <1>0, <3>2, <3>3, <3>4
  <2>2. T \subseteq S
    OBVIOUS
  <2> HIDE DEF T
  <2>3. f \in Bijection(1..(i - 1), T)
    <3>1. \A j \in 1..(i - 1) : j \in 1..Len(s) /\ j < i /\ f[j] = s[j]
      BY <1>0
    <3>2. f \in [1..(i - 1) -> T]
      BY <2>1, <3>1
    <3>3. \A j, k \in 1..(i - 1) : f[j] = f[k] => j = k
      BY <1>2, <3>1
    <3>4. \A x \in T : \E j \in 1..(i - 1) : f[j] = x
      <4> SUFFICES ASSUME NEW x \in T PROVE \E j \in 1..(i - 1) : f[j] = x
        OBVIOUS
      <4>1. PICK j \in 1..Len(s) : s[j] = x
        BY <2>2
      <4>2. j < i
        BY <2>1, <4>1
      <4>3. j \in 1..(i - 1)
        BY <1>0, <4>2
      <4> QED BY <3>1, <4>1, <4>3
    <3> QED BY <3>2, <3>3, <3>4 DEF Bijection, Injection, Surjection, IsInjective
  <2>4. ExistsBijection(1..(i - 1), T)
    BY <2>3 DEF ExistsBijection
  <2>5. i - 1 \in Nat
    BY <1>0
  <2>6. IsFiniteSet(1..(i - 1)) /\ Cardinality(1..(i - 1)) = i - 1
    <3>1. Cardinality(1..(i - 1)) = IF 1 > i - 1 THEN 0 ELSE (i - 1) - 1 + 1
      BY <2>5, FS_Interval
    <3>2. IsFiniteSet(1..(i - 1))
      BY <2>5, FS_Interval
    <3> QED BY <2>5, <3>1, <3>2
  <2>7. Cardinality(T) = i - 1
    BY <2>4, <2>6, FS_Bijection
  <2> QED BY <2>7 DEF T
<1>5. ASSUME NEW i \in 1..Len(s) PROVE s[i] = E[i]
  <2>1. i \in 1..Cardinality(S)
    BY <1>3
  <2>2. E[i] \in S /\ Cardinality(Before(E[i])) = i - 1
    BY <2>1, EnumeratedAt
  <2>3. s[i] \in S /\ Cardinality(Before(s[i])) = i - 1
    BY <1>0, <1>4
  <2>4. \A x, y \in S : <<x, y>> \in R => Cardinality(Before(x)) < Cardinality(Before(y))
    BY RankGrows
  <2>5. \A x, y \in S : x # y => <<x, y>> \in R \/ <<y, x>> \in R
    BY DEF StrictlyOrders, Orders
  <2> HIDE DEF E, Before
  <2>6. i - 1 \in Int
    BY <1>0
  <2>7. SUFFICES ASSUME s[i] # E[i] PROVE FALSE
    OBVIOUS
  <2>8. <<s[i], E[i]>> \in R \/ <<E[i], s[i]>> \in R
    BY <2>2, <2>3, <2>5, <2>7
  <2>9. i - 1 < i - 1
    BY <2>2, <2>3, <2>4, <2>8
  <2> QED BY <2>6, <2>9
<1>6. E \in Seq(S) /\ Len(E) = Cardinality(S)
  BY EnumeratedSorts
<1> HIDE DEF E
<1>7. s = E
  <2>1. s = [i \in 1..Len(s) |-> s[i]] /\ E = [i \in 1..Len(E) |-> E[i]]
    BY <1>6
  <2>2. Len(s) = Len(E)
    BY <1>3, <1>6
  <2> QED BY <1>5, <2>1, <2>2
<1> QED BY <1>7 DEF E

\* Numbers are strictly ordered.
LEMMA AscendingOrder ==
  ASSUME NEW S \in SUBSET Nat
  PROVE  /\ StrictlyOrders({p \in S \X S : p[1] < p[2]}, S)
         /\ \A x, y \in S : <<x, y>> \in {p \in S \X S : p[1] < p[2]} <=> x < y
<1> DEFINE R == {p \in S \X S : p[1] < p[2]}
<1>1. \A x, y \in S : <<x, y>> \in R <=> x < y
  OBVIOUS
<1> HIDE DEF R
<1>2. StrictlyOrders(R, S)
  BY <1>1 DEF StrictlyOrders, Orders
<1> QED BY <1>1, <1>2 DEF R

LEMMA AscendingSorts ==
  ASSUME NEW S \in SUBSET Nat, IsFiniteSet(S)
  PROVE  /\ Ascending(S) \in Seq(S) /\ Len(Ascending(S)) = Cardinality(S)
         /\ \A i, j \in 1..Len(Ascending(S)) : i < j => Ascending(S)[i] < Ascending(S)[j]
         /\ \A x \in S : \E i \in 1..Len(Ascending(S)) : Ascending(S)[i] = x
<1> DEFINE R == {p \in S \X S : p[1] < p[2]}
           A == Ascending(S)
<1>1. StrictlyOrders(R, S) /\ \A x, y \in S : <<x, y>> \in R <=> x < y
  BY AscendingOrder
<1>2. A = Enumerated(S, R)
  BY DEF Ascending
<1> HIDE DEF R, A
<1>3. /\ A \in Seq(S) /\ Len(A) = Cardinality(S)
      /\ \A i, j \in 1..Cardinality(S) : i < j => <<A[i], A[j]>> \in R
      /\ \A x \in S : \E i \in 1..Cardinality(S) : A[i] = x
  BY <1>1, <1>2, EnumeratedSorts
<1>4. \A i \in 1..Len(A) : A[i] \in S
  BY <1>3
<1>5. \A i, j \in 1..Len(A) : i < j => A[i] < A[j]
  BY <1>1, <1>3, <1>4
<1> QED BY <1>3, <1>5 DEF A

LEMMA AscendingUnique ==
  ASSUME NEW S \in SUBSET Nat, IsFiniteSet(S), NEW s \in Seq(S),
         \A i, j \in 1..Len(s) : i < j => s[i] < s[j],
         \A x \in S : \E i \in 1..Len(s) : s[i] = x
  PROVE  s = Ascending(S)
<1> DEFINE R == {p \in S \X S : p[1] < p[2]}
<1>1. StrictlyOrders(R, S) /\ \A x, y \in S : <<x, y>> \in R <=> x < y
  BY AscendingOrder
<1> HIDE DEF R
<1>2. \A i \in 1..Len(s) : s[i] \in S
  OBVIOUS
<1>3. \A i, j \in 1..Len(s) : i < j => <<s[i], s[j]>> \in R
  BY <1>1, <1>2
<1>4. s = Enumerated(S, R)
  BY <1>1, <1>3, EnumerationUnique
<1> QED BY <1>4 DEF Ascending, R

-----------------------------------------------------------------------------
(* Recursive functions over an interval.                                   *)

\* h starts with a and takes a step at every n up to m.
Unrolls(h, m, a, step) == h[0] = a /\ \A n \in 1..m : h[n] = step[<<h[n - 1], n>>]

\* A step function can be iterated any number of times.
LEMMA IterationExists ==
  ASSUME NEW m \in Nat, NEW X, NEW a \in X, NEW step \in [X \X (1..m) -> X]
  PROVE  \E h \in [0..m -> X] : Unrolls(h, m, a, step)
<1> DEFINE Iterates(n) == \E h \in [0..n -> X] : Unrolls(h, n, a, step)
           Bad == {n \in 0..m : ~Iterates(n)}
<1>0. m \in 0..m /\ Bad \in SUBSET Nat /\ \A n \in 0..m : n \in Bad <=> ~Iterates(n)
  OBVIOUS
<1>a. \A n : Iterates(n) <=> \E h \in [0..n -> X] : Unrolls(h, n, a, step)
  OBVIOUS
<1> HIDE DEF Bad, Iterates
<1>1. SUFFICES ASSUME Bad # {} PROVE FALSE
  BY <1>0, <1>a
<1>2. PICK n \in Bad : \A o \in Bad : n <= o
  BY <1>0, <1>1, LeastNat
<1>b. n \in 0..m
  BY DEF Bad
<1>3. Iterates(0)
  <2>1. [o \in 0..0 |-> a] \in [0..0 -> X] /\ Unrolls([o \in 0..0 |-> a], 0, a, step)
    BY DEF Unrolls
  <2> QED BY <2>1, <1>a
<1>4. n \in 1..m /\ n - 1 \in 0..m /\ n - 1 \notin Bad
  BY <1>0, <1>2, <1>3, <1>b
<1>5. PICK h \in [0..(n - 1) -> X] : Unrolls(h, n - 1, a, step)
  BY <1>0, <1>4, <1>a
<1> DEFINE g == [o \in 0..n |-> IF o = n THEN step[<<h[n - 1], n>>] ELSE h[o]]
<1>6. g \in [0..n -> X]
  <2>1. h[n - 1] \in X
    BY <1>4, <1>5
  <2>2. step[<<h[n - 1], n>>] \in X
    BY <1>4, <2>1
  <2> QED BY <1>4, <1>5, <2>2
<1>7. \A o \in 0..(n - 1) : g[o] = h[o]
  BY <1>4
<1>8. g[n] = step[<<g[n - 1], n>>] /\ g[0] = a
  <2>1. n - 1 \in 0..(n - 1) /\ n \in 0..n /\ 0 \in 0..(n - 1)
    BY <1>4
  <2>2. g[n - 1] = h[n - 1] /\ g[0] = h[0] /\ g[n] = step[<<h[n - 1], n>>]
    BY <1>7, <2>1
  <2> QED BY <1>5, <2>2 DEF Unrolls
<1>9. ASSUME NEW o \in 1..n PROVE g[o] = step[<<g[o - 1], o>>]
  <2>1. CASE o = n
    BY <1>8, <2>1
  <2>2. CASE o # n
    <3>1. o \in 1..(n - 1) /\ o - 1 \in 0..(n - 1) /\ o \in 0..(n - 1)
      BY <1>4, <2>2
    <3>2. h[o] = step[<<h[o - 1], o>>]
      BY <1>5, <3>1 DEF Unrolls
    <3> QED BY <1>7, <3>1, <3>2
  <2> QED BY <2>1, <2>2
<1>10. Unrolls(g, n, a, step)
  <2> HIDE DEF g
  <2> QED BY <1>8, <1>9 DEF Unrolls
<1>11. Iterates(n)
  BY <1>6, <1>10, <1>a
<1> QED BY <1>0, <1>2, <1>b, <1>11

\* Induction up to m, over a set.
LEMMA UpTo ==
  ASSUME NEW m \in Nat, NEW S, 0 \in S, \A n \in 1..m : n - 1 \in S => n \in S
  PROVE  \A n \in 0..m : n \in S
<1> DEFINE Bad == {n \in 0..m : n \notin S}
<1>1. SUFFICES ASSUME Bad # {} PROVE FALSE
  OBVIOUS
<1>0. Bad \in SUBSET Nat
  OBVIOUS
<1>2. PICK n \in Bad : \A o \in Bad : n <= o
  <2> HIDE DEF Bad
  <2> QED BY <1>0, <1>1, LeastNat
<1>3. n \in 1..m /\ n - 1 \in 0..m /\ n \notin S
  BY <1>2
<1>4. n - 1 \in S
  BY <1>2, <1>3
<1> QED BY <1>3, <1>4
=============================================================================
