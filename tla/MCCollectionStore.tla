-------------------------- MODULE MCCollectionStore --------------------------
(* Collections that TLC explores.                                          *)
EXTENDS CollectionStore

CONSTANTS k1, k2

\* Batched synchronization and two-document segments.
Batched ==
  [keys |-> {k1, k2}, capacity |-> 2, syncEvery |-> 2, maxDocID |-> 1, maxGeneration |-> 3,
   maxSchema |-> 1, maxAborts |-> 0, iterators |-> TRUE, dirSyncMayFail |-> FALSE]

\* One publication fails or dies before CURRENT changes and is tried again.
Retried ==
  [keys |-> {k1}, capacity |-> 1, syncEvery |-> 0, maxDocID |-> 0, maxGeneration |-> 3,
   maxSchema |-> 1, maxAborts |-> 2, iterators |-> TRUE, dirSyncMayFail |-> FALSE]

\* Compactions one generation deeper, without iterators.
Compacted ==
  [keys |-> {k1, k2}, capacity |-> 2, syncEvery |-> 1, maxDocID |-> 1, maxGeneration |-> 4,
   maxSchema |-> 1, maxAborts |-> 0, iterators |-> FALSE, dirSyncMayFail |-> FALSE]

\* Schema rewrites with full one-document segments.
Rewritten ==
  [keys |-> {k1, k2}, capacity |-> 1, syncEvery |-> 1, maxDocID |-> 1, maxGeneration |-> 3,
   maxSchema |-> 2, maxAborts |-> 0, iterators |-> TRUE, dirSyncMayFail |-> FALSE]

\* The synchronization of the root directory may fail.
Unstable ==
  [keys |-> {k1}, capacity |-> 1, syncEvery |-> 1, maxDocID |-> 0, maxGeneration |-> 2,
   maxSchema |-> 1, maxAborts |-> 0, iterators |-> TRUE, dirSyncMayFail |-> TRUE]

RecoveryConfigs == {Batched, Retried}
MaintenanceConfigs == {Compacted, Rewritten}
PruneConfigs == {Unstable}

\* Primary keys are interchangeable.
KeySymmetry == Permutations(Keys)
=============================================================================
