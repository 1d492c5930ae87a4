--------------------------- MODULE MCQueryRuntime ---------------------------
(* Collections that TLC explores.                                          *)
EXTENDS QueryRuntime

CONSTANTS q1, q2

\* Two queries against batches that fill and rotate segments and grow a
\* runtime in place.
Writes ==
  [queries |-> {q1, q2}, kinds |-> {"full"}, capacity |-> 2, initDocs |-> 0,
   readOnly |-> FALSE, appendSchemas |-> {1}, maxBatch |-> 2, maxSegment |-> 2,
   maxSchema |-> 1, maxDeletes |-> 0, maxFailures |-> 0, maxIterators |-> 0,
   maxRuntimes |-> 4]

\* Compactions and builds over full one-document segments and deletions.
Maintenance ==
  [queries |-> {q1}, kinds |-> {"vector"}, capacity |-> 1, initDocs |-> 1,
   readOnly |-> FALSE, appendSchemas |-> {}, maxBatch |-> 1, maxSegment |-> 4,
   maxSchema |-> 1, maxDeletes |-> 1, maxFailures |-> 0, maxIterators |-> 0,
   maxRuntimes |-> 4]

\* Schema changes, iterators, and an index that does not close.
Schemas ==
  [queries |-> {q1}, kinds |-> {"multi"}, capacity |-> 1, initDocs |-> 0,
   readOnly |-> FALSE, appendSchemas |-> {1}, maxBatch |-> 1, maxSegment |-> 3,
   maxSchema |-> 2, maxDeletes |-> 0, maxFailures |-> 1, maxIterators |-> 1,
   maxRuntimes |-> 3]

\* A read-only collection with one persisted document.
Borrowing ==
  [queries |-> {q1}, kinds |-> {"full", "multi"}, capacity |-> 1, initDocs |-> 1,
   readOnly |-> TRUE, appendSchemas |-> {1}, maxBatch |-> 0, maxSegment |-> 2,
   maxSchema |-> 1, maxDeletes |-> 0, maxFailures |-> 0, maxIterators |-> 0,
   maxRuntimes |-> 4]

WritableConfigs == {Writes, Maintenance, Schemas}
ReadOnlyConfigs == {Borrowing}
=============================================================================
