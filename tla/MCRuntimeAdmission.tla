------------------------- MODULE MCRuntimeAdmission -------------------------
(* Instance of RuntimeAdmission for TLC. *)
EXTENDS RuntimeAdmission

\* Two tokens for queries, one for optimizations.
TwoQueries == [k \in Kinds |-> IF k = "query" THEN 2 ELSE 1]

=============================================================================
