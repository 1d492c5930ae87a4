------------------------------ MODULE Ordering ------------------------------
(***************************************************************************)
(* Finite sets as sorted sequences.                                        *)
(***************************************************************************)
EXTENDS Integers, FiniteSets

\* The elements of S in the order R, a set of pairs: the i-th has i - 1 before it.
Enumerated(S, R) ==
  [i \in 1..Cardinality(S) |-> CHOOSE x \in S : Cardinality({y \in S : <<y, x>> \in R}) = i - 1]

Ascending(S) == Enumerated(S, {p \in S \X S : p[1] < p[2]})
=============================================================================
