--------------------------- MODULE DataPathProofs ---------------------------
(***************************************************************************)
(* What a document passes on its way from a write to an answer.            *)
(*                                                                         *)
(* The write-ahead log: WalInv is an inductive invariant for every set of  *)
(* handles and readers, every batch size and every LSN bound.              *)
(*                                                                         *)
(* The primary-key map: every open map, its iterators and its checkpoints  *)
(* serve exactly the mapping of their writes.                              *)
(*                                                                         *)
(* Queries: heaps, merges and rankings over partial results that segments  *)
(* cut to their own best lose nothing of the global answer, and fusion     *)
(* respects dominance, for every snapshot, request and number of segments. *)
(***************************************************************************)
EXTENDS Wal, PrimaryKeyMap, SegmentQuery, FiniteLemmas, SequenceTheorems

-----------------------------------------------------------------------------
(* The write-ahead log.                                                    *)

\* The prefix of a log that ends at its end is the log.
LEMMA WholePrefix ==
  ASSUME NEW S, NEW s \in Seq(S)
  PROVE  Prefix(s, Len(s)) = s
  BY DEF Prefix

\* A prefix of a log: its type, its length and its elements.
LEMMA LogPrefix ==
  ASSUME NEW S, NEW s \in Seq(S), NEW n \in 0..Len(s)
  PROVE  /\ Prefix(s, n) \in Seq(S)
         /\ Len(Prefix(s, n)) = n
         /\ \A i \in 1..n : Prefix(s, n)[i] = s[i]
  BY DEF Prefix

\* A log extended by one record: its type, its length and its elements.
LEMMA ExtendFacts ==
  ASSUME NEW S, NEW s \in Seq(S), NEW e \in S
  PROVE  /\ s \o <<e>> \in Seq(S)
         /\ Len(s \o <<e>>) = Len(s) + 1
         /\ \A i \in 1..Len(s) : (s \o <<e>>)[i] = s[i]
         /\ (s \o <<e>>)[Len(s) + 1] = e
  OBVIOUS

\* The state CreateWAL leaves satisfies the invariant.
LEMMA WalInit == Init => WalInv
<1> SUFFICES ASSUME Init PROVE WalInv
  OBVIOUS
<1> USE DEF Init
<1>1. PICK h \in Handles :
        handle = [g \in Handles |-> IF g = h THEN OpenedHandle("writer", 0) ELSE Closed]
  OBVIOUS
<1>2. TypeOK
  <2>1. Closed \in Handle /\ OpenedHandle("writer", 0) \in Handle
    BY DEF Handle, Closed, OpenedHandle
  <2>2. handle \in [Handles -> Handle]
    BY <1>1, <2>1
  <2>3. NoReader \in Reader
    BY DEF NoReader, Reader
  <2>4. reader \in [Readers -> Reader]
    BY <2>3
  <2>5. <<>> \in Seq(Record)
    OBVIOUS
  <2> QED
    BY <2>2, <2>4, <2>5 DEF TypeOK
<1>3. WriterAlone /\ OpenHandlesAtEnd /\ WriterAtEnd /\ SyncBatchBound
  BY <1>1, WalConstants
  DEF WriterAlone, OpenHandlesAtEnd, WriterAtEnd, SyncBatchBound, Appendable,
      Closed, OpenedHandle
<1>4. SyncedWithinFile /\ LSNsContiguous /\ PromisedRecordsSurvive /\ ReaderSnapshotStable
  BY DEF SyncedWithinFile, LSNsContiguous, PromisedRecordsSurvive, IsPrefixOf,
         ReaderSnapshotStable, NoReader
<1> QED
  BY <1>2, <1>3, <1>4 DEF WalInv

\* AppendRecord at the end of the file extends it by the next LSN.
LEMMA AppendStep ==
  ASSUME WalInv, NEW h \in Handles, NEW p \in Payloads, AppendRecord(h, p)
  PROVE  WalInv'
<1> DEFINE rec == NextRecord(h, p)
<1> USE DEF WalInv
<1>1. /\ handle[h] \in Handle /\ handle[h].mode = "writer" /\ ~handle[h].poisoned
      /\ handle[h].size = Len(file) /\ handle[h].lastLSN = Len(file)
      /\ \A g \in Handles \ {h} : handle[g].mode = "closed"
  BY DEF AppendRecord, Appendable, OpenHandlesAtEnd, WriterAlone, TypeOK
<1>2. rec \in Record /\ rec.lsn = Len(file) + 1
  BY <1>1 DEF NextRecord, Record, TypeOK
<1>3. file' = file \o <<rec>>
  BY <1>1, WholePrefix DEF AppendRecord, TypeOK
<1>4. /\ file' \in Seq(Record)
      /\ Len(file') = Len(file) + 1
      /\ \A i \in 1..Len(file) : file'[i] = file[i]
      /\ file'[Len(file) + 1] = rec
  BY <1>2, <1>3, ExtendFacts DEF TypeOK
<1>5. /\ tail' = "none" /\ reader' = reader /\ cleanClose' = FALSE
  BY DEF AppendRecord
<1>6. \/ AppendUnsynced(h, rec) \/ AppendSynced(h, rec) \/ AppendSyncFails(h, rec)
  BY DEF AppendRecord
<1> DEFINE hh == handle'[h]
<1>7. /\ handle' \in [Handles -> Handle]
      /\ \A g \in Handles \ {h} : handle'[g] = handle[g]
      /\ hh.mode = "writer" /\ hh.size = Len(file') /\ hh.lastLSN = Len(file')
      /\ hh.recovered = handle[h].recovered
      /\ \/ /\ hh.dirty = handle[h].dirty + 1 /\ synced' = synced /\ promised' = promised
            /\ hh.poisoned \/ SyncEvery = 0 \/ hh.dirty < SyncEvery
         \/ hh.dirty = 0 /\ synced' = Len(file') /\ promised' = file'
  <2>1. /\ handle \in [Handles -> Handle] /\ SyncEvery \in Nat /\ Len(file) \in Nat
        /\ handle[h].dirty \in Nat /\ rec.lsn = Len(file') /\ handle[h].size + 1 = Len(file')
    BY <1>1, <1>2, <1>4, WalConstants DEF TypeOK, Handle
  <2> HIDE DEF rec
  <2>2. CASE AppendUnsynced(h, rec)
    BY <1>1, <2>1, <2>2 DEF AppendUnsynced, Handle
  <2>3. CASE AppendSynced(h, rec)
    BY <1>1, <2>1, <2>3 DEF AppendSynced, Handle
  <2>4. CASE AppendSyncFails(h, rec)
    BY <1>1, <2>1, <2>4 DEF AppendSyncFails, Handle
  <2> QED BY <1>6, <2>2, <2>3, <2>4
<1>8. TypeOK'
  <2>1. synced' \in Nat /\ promised' \in Seq(Record)
    BY <1>4, <1>7 DEF TypeOK
  <2> QED
    BY <1>4, <1>5, <1>7, <2>1 DEF TypeOK
<1>9. WriterAlone' /\ OpenHandlesAtEnd' /\ WriterAtEnd'
  BY <1>1, <1>5, <1>7 DEF WriterAlone, OpenHandlesAtEnd, WriterAtEnd, Appendable
<1>10. SyncedWithinFile'
  BY <1>4, <1>7 DEF SyncedWithinFile, TypeOK
<1>11. LSNsContiguous'
  <2>1. Len(file) \in Nat /\ \A i \in 1..Len(file) : file[i].lsn = i
    BY DEF LSNsContiguous, TypeOK
  <2>2. \A i \in 1..(Len(file) + 1) : i \in 1..Len(file) \/ i = Len(file) + 1
    BY <2>1
  <2> HIDE DEF rec
  <2> QED BY <1>2, <1>4, <2>1, <2>2 DEF LSNsContiguous
<1>12. PromisedRecordsSurvive'
  <2>1. CASE synced' = synced /\ promised' = promised
    BY <1>4, <2>1 DEF PromisedRecordsSurvive, IsPrefixOf, TypeOK
  <2>2. CASE synced' = Len(file') /\ promised' = file'
    BY <1>4, <2>2 DEF PromisedRecordsSurvive, IsPrefixOf
  <2> QED
    BY <1>7, <2>1, <2>2
<1>13. SyncBatchBound'
  <2> SUFFICES ASSUME NEW g \in Handles, Appendable(g)'
               PROVE  /\ SyncEvery > 0 => handle'[g].dirty < SyncEvery
                      /\ \/ Len(file') - handle'[g].dirty <= synced'
                         \/ Len(file') - handle'[g].dirty <= handle'[g].recovered
    BY DEF SyncBatchBound
  <2>1. g = h
    BY <1>1, <1>7 DEF Appendable
  <2>2. /\ handle[h].dirty \in Nat /\ handle[h].recovered \in Nat
        /\ Len(file) \in Nat /\ synced \in Nat
        /\ \/ Len(file) - handle[h].dirty <= synced
           \/ Len(file) - handle[h].dirty <= handle[h].recovered
    BY <1>1 DEF SyncBatchBound, Appendable, TypeOK, Handle
  <2>3. SyncEvery \in Nat /\ ~hh.poisoned
    BY <2>1, WalConstants DEF Appendable
  <2>4. CASE /\ hh.dirty = handle[h].dirty + 1 /\ synced' = synced
             /\ SyncEvery = 0 \/ hh.dirty < SyncEvery
    <3>1. Len(file') - handle'[g].dirty = Len(file) - handle[h].dirty
      <4> DEFINE n == Len(file)
                 d == handle[h].dirty
      <4>1. Len(file') = n + 1 /\ handle'[g].dirty = d + 1
        BY <1>4, <2>1, <2>4
      <4>2. n \in Nat /\ d \in Nat
        BY <2>2
      <4> HIDE DEF n, d
      <4>3. (n + 1) - (d + 1) = n - d
        BY <4>2
      <4> QED BY <4>1, <4>3 DEF n, d
    <3>2. handle'[g].recovered = handle[h].recovered
      BY <1>7, <2>1
    <3> QED BY <2>1, <2>2, <2>3, <2>4, <3>1, <3>2
  <2>5. CASE hh.dirty = 0 /\ synced' = Len(file')
    BY <1>4, <2>1, <2>2, <2>3, <2>5
  <2> QED
    BY <1>7, <2>3, <2>4, <2>5
<1>14. ReaderSnapshotStable'
  BY <1>4, <1>5 DEF ReaderSnapshotStable, IsPrefixOf, TypeOK, Reader
<1> QED
  BY <1>8, <1>9, <1>10, <1>11, <1>12, <1>13, <1>14

\* A write failure leaves the complete records and poisons the handle.
LEMMA AppendWriteFailsStep ==
  ASSUME WalInv, NEW h \in Handles, AppendWriteFails(h)
  PROVE  WalInv'
<1> USE DEF WalInv
<1>1. handle[h] \in Handle /\ handle[h].size = Len(file) /\ handle[h].mode = "writer"
      /\ \A g \in Handles \ {h} : handle[g].mode = "closed"
  BY DEF AppendWriteFails, Appendable, OpenHandlesAtEnd, WriterAlone, TypeOK
<1>2. file' = file
  BY <1>1, WholePrefix DEF AppendWriteFails, TypeOK
<1>3. /\ handle' \in [Handles -> Handle]
      /\ \A g \in Handles \ {h} : handle'[g] = handle[g]
      /\ handle'[h].mode = "writer" /\ handle'[h].poisoned
      /\ handle'[h].size = handle[h].size /\ handle'[h].lastLSN = handle[h].lastLSN
  BY <1>1 DEF AppendWriteFails, TypeOK, Handle
<1>4. /\ synced' = synced /\ reader' = reader /\ promised' = promised
      /\ cleanClose' = FALSE /\ tail' \in {"none", "partial"}
  BY DEF AppendWriteFails
<1>5. TypeOK'
  BY <1>2, <1>3, <1>4 DEF TypeOK
<1>6. WriterAlone' /\ OpenHandlesAtEnd'
  BY <1>1, <1>2, <1>3 DEF WriterAlone, OpenHandlesAtEnd
<1>7. WriterAtEnd' /\ SyncBatchBound'
  BY <1>1, <1>3 DEF WriterAtEnd, SyncBatchBound, Appendable
<1> QED
  BY <1>2, <1>4, <1>5, <1>6, <1>7
  DEF SyncedWithinFile, LSNsContiguous, PromisedRecordsSurvive, ReaderSnapshotStable

\* Sync covers the whole file or poisons the handle.
LEMMA SyncStep ==
  ASSUME WalInv, NEW h \in Handles, Sync(h)
  PROVE  WalInv'
<1> USE DEF WalInv
<1>1. /\ handle[h] \in Handle /\ handle[h].mode = "writer"
      /\ \A g \in Handles \ {h} : handle[g].mode = "closed"
  BY DEF Sync, Appendable, WriterAlone, TypeOK
<1>2. file' = file /\ tail' = tail /\ reader' = reader /\ cleanClose' = FALSE
  BY DEF Sync
<1>3. /\ handle' \in [Handles -> Handle]
      /\ \A g \in Handles \ {h} : handle'[g] = handle[g]
      /\ handle'[h].mode = "writer"
      /\ handle'[h].size = handle[h].size /\ handle'[h].lastLSN = handle[h].lastLSN
      /\ \/ synced' = Len(file) /\ promised' = file /\ handle'[h].dirty = 0
         \/ handle'[h].poisoned /\ synced' = synced /\ promised' = promised
  <2>1. CASE /\ synced' = Len(file) /\ promised' = file
             /\ handle' = [handle EXCEPT ![h].dirty = 0]
    BY <1>1, <2>1 DEF TypeOK, Handle
  <2>2. CASE /\ synced' = synced /\ promised' = promised
             /\ handle' = [handle EXCEPT ![h].poisoned = TRUE]
    BY <1>1, <2>2 DEF TypeOK, Handle
  <2> QED
    BY <2>1, <2>2 DEF Sync
<1>4. TypeOK'
  <2>1. synced' \in Nat /\ promised' \in Seq(Record)
    BY <1>3 DEF TypeOK
  <2> QED
    BY <1>2, <1>3, <2>1 DEF TypeOK
<1>5. WriterAlone' /\ OpenHandlesAtEnd' /\ WriterAtEnd'
  BY <1>1, <1>2, <1>3
  DEF WriterAlone, OpenHandlesAtEnd, WriterAtEnd, Appendable, Sync
<1>6. SyncBatchBound'
  BY <1>1, <1>2, <1>3, WalConstants DEF SyncBatchBound, Appendable, TypeOK
<1>7. SyncedWithinFile' /\ PromisedRecordsSurvive'
  BY <1>2, <1>3 DEF SyncedWithinFile, PromisedRecordsSurvive, IsPrefixOf, TypeOK
<1> QED
  BY <1>2, <1>4, <1>5, <1>6, <1>7 DEF LSNsContiguous, ReaderSnapshotStable

\* Close releases the lock, synchronized or not.
LEMMA CloseStep ==
  ASSUME WalInv, NEW h \in Handles, Close(h)
  PROVE  WalInv'
<1> USE DEF WalInv
<1>1. file' = file /\ tail' = tail /\ reader' = reader
  BY DEF Close
<1>2. /\ handle' \in [Handles -> Handle]
      /\ \A g \in Handles \ {h} : handle'[g] = handle[g]
      /\ handle'[h].mode = "closed"
      /\ cleanClose' \in BOOLEAN
      /\ \/ synced' = Len(file) /\ promised' = file
         \/ synced' = synced /\ promised' = promised
  BY DEF Close, TypeOK, Handle, Closed
<1>3. TypeOK'
  BY <1>1, <1>2 DEF TypeOK
<1>4. WriterAlone' /\ OpenHandlesAtEnd' /\ WriterAtEnd'
  BY <1>1, <1>2 DEF WriterAlone, OpenHandlesAtEnd, WriterAtEnd, Appendable
<1>5. SyncBatchBound'
  <2> SUFFICES ASSUME NEW g \in Handles, Appendable(g)'
               PROVE  /\ SyncEvery > 0 => handle'[g].dirty < SyncEvery
                      /\ \/ Len(file') - handle'[g].dirty <= synced'
                         \/ Len(file') - handle'[g].dirty <= handle'[g].recovered
    BY DEF SyncBatchBound
  <2>1. g # h /\ handle'[g] = handle[g] /\ Appendable(g)
    BY <1>2 DEF Appendable
  <2>2. /\ SyncEvery > 0 => handle[g].dirty < SyncEvery
        /\ \/ Len(file) - handle[g].dirty <= synced
           \/ Len(file) - handle[g].dirty <= handle[g].recovered
    BY <2>1 DEF SyncBatchBound
  <2>3. handle[g].dirty \in Nat
    BY DEF TypeOK, Handle
  <2>4. Len(file) \in Nat /\ synced \in Nat /\ synced <= synced'
    BY <1>2 DEF TypeOK, SyncedWithinFile
  <2>5. synced' \in Nat
    BY <1>2, <2>4
  <2> QED
    BY <1>1, <2>1, <2>2, <2>3, <2>4, <2>5
<1>6. SyncedWithinFile' /\ PromisedRecordsSurvive'
  BY <1>1, <1>2 DEF SyncedWithinFile, PromisedRecordsSurvive, IsPrefixOf, TypeOK
<1> QED
  BY <1>1, <1>3, <1>4, <1>5, <1>6 DEF LSNsContiguous, ReaderSnapshotStable

\* A handle opened under its lock starts at the end of the complete records.
LEMMA OpenStep ==
  ASSUME WalInv, NEW h \in Handles,
         OpenWriter(h) \/ OpenWriterRepairFails(h) \/ OpenReadOnly(h)
  PROVE  WalInv'
<1> USE DEF WalInv
<1>1. /\ file' = file /\ reader' = reader /\ promised' = promised
      /\ cleanClose' = FALSE /\ tail' \in {tail, "none"}
      /\ synced' \in {synced, Len(file)}
  BY DEF OpenWriter, OpenWriterRepairFails, OpenReadOnly
<1>2. Len(file) \in Nat /\ synced <= Len(file)
  BY DEF TypeOK, SyncedWithinFile
<1>3. LSNsContiguous' /\ PromisedRecordsSurvive' /\ SyncedWithinFile' /\ ReaderSnapshotStable'
  BY <1>1, <1>2
  DEF LSNsContiguous, PromisedRecordsSurvive, SyncedWithinFile, ReaderSnapshotStable, TypeOK
<1>4. CASE OpenWriter(h)
  <2>1. /\ handle' \in [Handles -> Handle]
        /\ \A g \in Handles \ {h} : handle'[g] = handle[g] /\ handle[g].mode = "closed"
        /\ handle'[h] = OpenedHandle("writer", Len(file))
        /\ tail' = "none"
    BY <1>2, <1>4 DEF OpenWriter, LockAvailable, TypeOK, Handle, OpenedHandle
  <2>2. TypeOK'
    BY <1>1, <1>2, <2>1 DEF TypeOK
  <2>3. WriterAlone' /\ OpenHandlesAtEnd' /\ WriterAtEnd' /\ SyncBatchBound'
    BY <1>1, <1>2, <2>1, WalConstants
    DEF WriterAlone, OpenHandlesAtEnd, WriterAtEnd, SyncBatchBound, Appendable, OpenedHandle
  <2> QED
    BY <1>3, <2>2, <2>3
<1>5. CASE OpenReadOnly(h)
  <2>1. /\ handle' \in [Handles -> Handle]
        /\ \A g \in Handles \ {h} : handle'[g] = handle[g]
        /\ \A g \in Handles : handle[g].mode # "writer"
        /\ handle'[h] = OpenedHandle("readonly", Len(file))
        /\ tail' = tail
    BY <1>2, <1>5 DEF OpenReadOnly, LockAvailable, TypeOK, Handle, OpenedHandle
  <2>2. TypeOK'
    BY <1>1, <1>2, <2>1 DEF TypeOK
  <2>3. \A g \in Handles : handle'[g].mode # "writer"
    BY <2>1 DEF OpenedHandle
  <2>4. WriterAlone' /\ WriterAtEnd' /\ SyncBatchBound'
    BY <2>3 DEF WriterAlone, WriterAtEnd, SyncBatchBound, Appendable
  <2>5. OpenHandlesAtEnd'
    BY <1>1, <2>1 DEF OpenHandlesAtEnd, OpenedHandle
  <2> QED
    BY <1>3, <2>2, <2>4, <2>5
<1>6. CASE OpenWriterRepairFails(h)
  <2>1. handle' = handle
    BY <1>6 DEF OpenWriterRepairFails
  <2>2. TypeOK'
    BY <1>1, <1>2, <2>1 DEF TypeOK
  <2>3. WriterAlone' /\ OpenHandlesAtEnd' /\ WriterAtEnd'
    BY <1>1, <2>1 DEF WriterAlone, OpenHandlesAtEnd, WriterAtEnd, Appendable
  <2>4. SyncBatchBound'
    BY <1>1, <1>6, <2>1 DEF SyncBatchBound, Appendable, OpenWriterRepairFails
  <2> QED
    BY <1>3, <2>2, <2>3, <2>4
<1> QED
  BY <1>4, <1>5, <1>6

\* Readers come, advance and go without touching the log.
LEMMA ReaderStep ==
  ASSUME WalInv, NEW r \in Readers,
         (\E h \in Handles : NewReader(h, r)) \/ ReaderNext(r) \/ ReaderClose(r)
  PROVE  WalInv'
<1> USE DEF WalInv
<1>1. /\ file' = file /\ tail' = tail /\ synced' = synced /\ handle' = handle
      /\ promised' = promised /\ cleanClose' = FALSE
  BY DEF NewReader, ReaderNext, ReaderClose
<1>2. /\ \A q \in Readers \ {r} : reader'[q] = reader[q]
      /\ reader'[r] \in Reader
      /\ reader' \in [Readers -> Reader]
      /\ reader'[r].active =>
           /\ reader'[r].offset <= reader'[r].limit
           /\ reader'[r].limit = Len(reader'[r].snapshot)
           /\ IsPrefixOf(reader'[r].snapshot, file)
  <2>1. CASE \E h \in Handles : NewReader(h, r)
    <3>1. PICK h \in Handles : NewReader(h, r)
      BY <2>1
    <3>2. handle[h].size = Len(file) /\ Len(file) \in Nat
      BY <3>1 DEF NewReader, OpenHandlesAtEnd, TypeOK
    <3>3. Prefix(file, handle[h].size) = file
      BY <3>2, WholePrefix DEF TypeOK
    <3>4. reader' = [reader EXCEPT ![r] =
            [active |-> TRUE, offset |-> 0, limit |-> Len(file), snapshot |-> file]]
      BY <3>1, <3>2, <3>3 DEF NewReader
    <3> QED
      BY <3>2, <3>4 DEF TypeOK, Reader, IsPrefixOf
  <2>2. CASE ReaderNext(r)
    <3>1. /\ reader' = [reader EXCEPT ![r].offset = @ + 1]
          /\ reader[r].active /\ reader[r].offset < reader[r].limit
      BY <2>2 DEF ReaderNext
    <3> QED
      <4>1. /\ reader[r] \in Reader /\ reader[r].limit = Len(reader[r].snapshot)
            /\ IsPrefixOf(reader[r].snapshot, file)
        BY <3>1 DEF TypeOK, ReaderSnapshotStable
      <4>2. reader'[r] = [reader[r] EXCEPT !.offset = @ + 1]
        BY <3>1 DEF TypeOK
      <4>3. reader'[r] \in Reader
        BY <4>1, <4>2 DEF Reader
      <4>4. reader' \in [Readers -> Reader] /\ \A q \in Readers \ {r} : reader'[q] = reader[q]
        BY <3>1, <4>2, <4>3 DEF TypeOK
      <4>5. /\ reader'[r].offset = reader[r].offset + 1
            /\ reader'[r].limit = reader[r].limit /\ reader'[r].snapshot = reader[r].snapshot
        BY <4>1, <4>2 DEF Reader
      <4>6. reader'[r].offset <= reader'[r].limit
        BY <3>1, <4>1, <4>5 DEF Reader
      <4> QED
        BY <4>1, <4>3, <4>4, <4>5, <4>6
  <2>3. CASE ReaderClose(r)
    BY <2>3 DEF ReaderClose, NoReader, TypeOK, Reader
  <2> QED
    BY <2>1, <2>2, <2>3
<1>3. ReaderSnapshotStable'
  BY <1>1, <1>2 DEF ReaderSnapshotStable
<1>4. TypeOK'
  BY <1>1, <1>2 DEF TypeOK
<1> QED
  BY <1>1, <1>3, <1>4
  DEF WriterAlone, OpenHandlesAtEnd, SyncedWithinFile, LSNsContiguous, WriterAtEnd,
      PromisedRecordsSurvive, SyncBatchBound, Appendable

\* A crash takes every handle and reader; what it may leave of the file still
\* begins with the synchronized records.
LEMMA CrashStep ==
  ASSUME WalInv, AllGone, tail' \in {"none", "partial", "damaged"},
         file' \in Seq(Record), synced' \in Nat, synced <= synced', synced' <= Len(file'),
         LSNsContiguous', \A i \in 1..synced : file'[i] = file[i]
  PROVE  WalInv'
<1> USE DEF WalInv
<1>1. /\ \A h \in Handles : handle'[h].mode = "closed"
      /\ handle' \in [Handles -> Handle]
      /\ \A r \in Readers : ~reader'[r].active
      /\ reader' \in [Readers -> Reader]
      /\ cleanClose' = FALSE /\ promised' = promised
  BY DEF AllGone, Closed, NoReader, Handle, Reader
<1>2. TypeOK'
  BY <1>1 DEF TypeOK
<1>3. /\ WriterAlone' /\ OpenHandlesAtEnd' /\ WriterAtEnd' /\ SyncBatchBound'
      /\ ReaderSnapshotStable'
  BY <1>1
  DEF WriterAlone, OpenHandlesAtEnd, WriterAtEnd, SyncBatchBound, Appendable,
      ReaderSnapshotStable
<1>4. PromisedRecordsSurvive' /\ SyncedWithinFile'
  BY <1>1 DEF PromisedRecordsSurvive, IsPrefixOf, SyncedWithinFile, TypeOK
<1> QED
  BY <1>2, <1>3, <1>4

\* Process death and power loss preserve the invariant.
LEMMA CrashesStep ==
  ASSUME WalInv,
         \/ Kill
         \/ PowerLoss
         \/ \E h \in Handles, p \in Payloads : KillDuringAppend(h, p)
  PROVE  WalInv'
<1> USE DEF WalInv
<1>0. Len(file) \in Nat /\ synced \in 0..Len(file) /\ file \in Seq(Record)
  BY DEF TypeOK, SyncedWithinFile
<1>1. CASE Kill
  BY <1>0, <1>1, CrashStep DEF Kill, TypeOK, LSNsContiguous
<1>2. CASE PowerLoss
  <2>1. PICK n \in synced..Len(file) :
          /\ file' = Prefix(file, n) /\ synced' = n /\ AllGone
          /\ tail' \in {"none", "partial", "damaged"}
    BY <1>2 DEF PowerLoss
  <2>2. /\ n \in 0..Len(file) /\ file' \in Seq(Record) /\ Len(file') = n
        /\ \A i \in 1..n : file'[i] = file[i]
    BY <1>0, <2>1, LogPrefix
  <2>3. LSNsContiguous'
    BY <1>0, <2>2 DEF LSNsContiguous
  <2> QED
    BY <1>0, <2>1, <2>2, <2>3, CrashStep
<1>3. CASE \E h \in Handles, p \in Payloads : KillDuringAppend(h, p)
  <2>1. PICK h \in Handles, p \in Payloads : KillDuringAppend(h, p)
    BY <1>3
  <2>2. /\ handle[h].size = Len(file) /\ handle[h].lastLSN = Len(file)
    BY <2>1 DEF KillDuringAppend, Appendable, OpenHandlesAtEnd
  <2>3. NextRecord(h, p) \in Record /\ NextRecord(h, p).lsn = Len(file) + 1
    BY <1>0, <2>2 DEF NextRecord, Record
  <2>4. Prefix(file, handle[h].size) = file
    BY <1>0, <2>2, WholePrefix
  <2>5. /\ file' = file \/ file' = file \o <<NextRecord(h, p)>>
        /\ tail' \in {"none", "partial"} /\ AllGone /\ synced' = synced
    BY <2>1, <2>4 DEF KillDuringAppend
  <2>6. CASE file' = file
    BY <1>0, <2>5, <2>6, CrashStep DEF LSNsContiguous
  <2>7. CASE file' = file \o <<NextRecord(h, p)>>
    <3>1. /\ file' \in Seq(Record) /\ Len(file') = Len(file) + 1
          /\ \A i \in 1..Len(file) : file'[i] = file[i]
          /\ file'[Len(file) + 1] = NextRecord(h, p)
      BY <1>0, <2>3, <2>7, ExtendFacts
    <3>2. LSNsContiguous'
      BY <1>0, <2>3, <3>1 DEF LSNsContiguous
    <3> QED
      BY <1>0, <2>5, <3>1, <3>2, CrashStep
  <2> QED
    BY <2>5, <2>6, <2>7
<1> QED
  BY <1>1, <1>2, <1>3

\* Every step of the log, and every stuttering step, preserves the invariant.
LEMMA WalNext == WalInv /\ [Next]_vars => WalInv'
<1> SUFFICES ASSUME WalInv, [Next]_vars PROVE WalInv'
  OBVIOUS
<1>1. CASE UNCHANGED vars
  BY <1>1
  DEF WalInv, vars, TypeOK, WriterAlone, OpenHandlesAtEnd, SyncedWithinFile,
      LSNsContiguous, WriterAtEnd, PromisedRecordsSurvive, SyncBatchBound,
      ReaderSnapshotStable, Appendable
<1>2. CASE Next
  BY <1>2, AppendStep, AppendWriteFailsStep, SyncStep, CloseStep, OpenStep,
     ReaderStep, CrashesStep DEF Next
<1> QED
  BY <1>1, <1>2

\* The log is always well formed: the inductive invariant holds in every
\* reachable state.
THEOREM WalSafety == Spec => []WalInv
  BY WalInit, WalNext, PTL DEF Spec

\* Types, for every instance.
THEOREM WalTypeCorrect == Spec => []TypeOK
<1>1. WalInv => TypeOK
  BY DEF WalInv
<1> QED
  BY <1>1, WalSafety, PTL

\* Records reported durable are never lost, and LSNs stay contiguous.
THEOREM WalDurability == Spec => [](PromisedRecordsSurvive /\ LSNsContiguous)
<1>1. WalInv => PromisedRecordsSurvive /\ LSNsContiguous
  BY DEF WalInv
<1> QED
  BY <1>1, WalSafety, PTL

\* A healthy writer is always at the end of the log and within its batch.
THEOREM WalWriter == Spec => [](WriterAtEnd /\ SyncBatchBound)
<1>1. WalInv => WriterAtEnd /\ SyncBatchBound
  BY DEF WalInv
<1> QED
  BY <1>1, WalSafety, PTL

\* An unlocked reader never sees its snapshot change.
THEOREM WalReaders == Spec => []ReaderSnapshotStable
<1>1. WalInv => ReaderSnapshotStable
  BY DEF WalInv
<1> QED
  BY <1>1, WalSafety, PTL

-----------------------------------------------------------------------------
(* The primary-key map.                                                    *)

Mapping == Mappings(Nat)
Overlay == UNION {[S -> [docID : Nat, deleted : BOOLEAN]] : S \in SUBSET PrimaryKeys}
MapRecord ==
  [open : BOOLEAN, readOnly : BOOLEAN, db : Mapping, known : SUBSET PrimaryKeys, overlay : Overlay, count : Int]
CallRecord ==
  [stage : {"none", "begun", "taken"}, path : Paths \cup {0}, copy : MapHandles \cup {0}, image : Mapping, view : Mapping]

\* The map holds the key, in its overlay or beneath it.
Holds(m, k) ==
  \/ k \in DOMAIN m.overlay /\ ~m.overlay[k].deleted
  \/ k \notin DOMAIN m.overlay /\ k \in DOMAIN m.db

\* A map serves a mapping: the key set of a writable map is that of its
\* database, and the overlay is used by read-only maps only.
Serves(m, f) ==
  /\ m.readOnly \/ (m.overlay = Empty /\ m.known = DOMAIN m.db)
  /\ \A k \in PrimaryKeys : Holds(m, k) <=> k \in DOMAIN f
  /\ \A k \in DOMAIN f : Lookup(m, k) = f[k]
  /\ m.count = Cardinality(DOMAIN f)

\* The sequence has the element.
In(s, x) == \E n \in 1..Len(s) : s[n] = x

\* Keys, or the keys of pairs, in ascending order; all those of one sequence
\* before all those of another.
KeysAscend(s) == \A n, o \in 1..Len(s) : n < o => s[n] < s[o]
PairsAscend(s) == \A n, o \in 1..Len(s) : n < o => s[n][1] < s[o][1]
PairsBeforeKeys(s, t) == \A n \in 1..Len(s), o \in 1..Len(t) : s[n][1] < t[o]
PairsBeforePairs(s, t) == \A n \in 1..Len(s), o \in 1..Len(t) : s[n][1] < t[o][1]

IteratorRecord ==
  [handle : MapHandles, base : Seq(PrimaryKeys \X Nat), overlay : Overlay, overlayKeys : Seq(PrimaryKeys),
   got : Seq(PrimaryKeys \X Nat), view : Mapping]

\* Base, overlay and results are in order, the results come before the rest.
IteratorSorted(i) ==
  /\ PairsAscend(i.base) /\ KeysAscend(i.overlayKeys) /\ PairsAscend(i.got)
  /\ PairsBeforePairs(i.got, i.base) /\ PairsBeforeKeys(i.got, i.overlayKeys)
  /\ \A n \in 1..Len(i.overlayKeys) : i.overlayKeys[n] \in DOMAIN i.overlay

\* What an iterator has still to return: the overlay hides the base.
FromOverlay(i, k, v) == ~i.overlay[k].deleted /\ v = i.overlay[k].docID
Pending(i, k, v) ==
  \/ In(i.overlayKeys, k) /\ FromOverlay(i, k, v)
  \/ ~In(i.overlayKeys, k) /\ In(i.base, <<k, v>>)

\* The results so far and what is pending are the view.
IteratorCovers(i) ==
  \A k \in PrimaryKeys, v \in Nat :
    (k \in DOMAIN i.view /\ i.view[k] = v) <=> (In(i.got, <<k, v>>) \/ Pending(i, k, v))

IteratorInv(i) == i \in IteratorRecord /\ IteratorSorted(i) /\ IteratorCovers(i)

KeyMapTyped(c, m, g, s) ==
  /\ DOMAIN c \subseteq Paths /\ \A p \in DOMAIN c : c[p] \in Mapping
  /\ m \in [MapHandles -> MapRecord] /\ g \in [MapHandles -> CallRecord] /\ s \in [MapHandles -> Mapping]

KeyMapServes(m, s) == \A h \in MapHandles : m[h].open => Serves(m[h], s[h])

\* An image that was taken is the mapping at that moment; a checkpoint in
\* progress has a path.
CallExact(c) ==
  /\ c.stage = "taken" => c.image = c.view
  /\ c.stage # "none" => c.copy # 0 \/ c.path # 0
CallsExact(g) == \A h \in MapHandles : CallExact(g[h])

KeyMapInv ==
  /\ KeyMapTyped(checkpoints, maps, calls, served)
  /\ KeyMapServes(maps, served)
  /\ CallsExact(calls)
  /\ iterator # NoIterator => IteratorInv(iterator)

\* What a mapping is.
LEMMA MappingFacts ==
  ASSUME NEW f
  PROVE  f \in Mapping <=> (DOMAIN f \in SUBSET PrimaryKeys /\ f \in [DOMAIN f -> Nat])
  BY DEF Mapping, Mappings

\* A mapping has finitely many keys.
LEMMA MappingFinite ==
  ASSUME NEW f \in Mapping
  PROVE  IsFiniteSet(DOMAIN f) /\ Cardinality(DOMAIN f) \in Nat
<1>1. DOMAIN f \subseteq PrimaryKeys
  BY MappingFacts
<1> QED BY <1>1, KeyMapConstants, FS_Subset, FS_CardinalityType

\* The empty mapping.
LEMMA EmptyMapping == Empty \in Mapping /\ DOMAIN Empty = {} /\ Empty \in Overlay
<1>1. DOMAIN Empty = {} /\ Empty \in [{} -> Nat] /\ Empty \in [{} -> [docID : Nat, deleted : BOOLEAN]]
  BY DEF Empty
<1> QED BY <1>1, MappingFacts DEF Overlay

\* With and Without on mappings.
LEMMA WithoutFacts ==
  ASSUME NEW f, NEW k
  PROVE  /\ DOMAIN Without(f, k) = DOMAIN f \ {k}
         /\ \A j \in DOMAIN f \ {k} : Without(f, k)[j] = f[j]
  BY DEF Without

\* A mapping with one more key.
LEMMA WithTyped ==
  ASSUME NEW f \in Mapping, NEW k \in PrimaryKeys, NEW x \in Nat
  PROVE  With(f, k, x) \in Mapping
<1>1. DOMAIN f \in SUBSET PrimaryKeys /\ f \in [DOMAIN f -> Nat]
  BY MappingFacts
<1>2. With(f, k, x) \in [DOMAIN f \cup {k} -> Nat]
  BY <1>1 DEF With
<1>3. DOMAIN With(f, k, x) = DOMAIN f \cup {k}
  BY DEF With
<1>4. DOMAIN With(f, k, x) \in SUBSET PrimaryKeys /\ With(f, k, x) \in [DOMAIN With(f, k, x) -> Nat]
  BY <1>1, <1>2, <1>3
<1> QED BY <1>4, MappingFacts

\* A mapping without a key.
LEMMA WithoutTyped ==
  ASSUME NEW f \in Mapping, NEW k
  PROVE  Without(f, k) \in Mapping
<1>1. DOMAIN f \in SUBSET PrimaryKeys /\ f \in [DOMAIN f -> Nat]
  BY MappingFacts
<1>2. Without(f, k) \in [DOMAIN f \ {k} -> Nat]
  BY <1>1 DEF Without
<1>3. DOMAIN Without(f, k) = DOMAIN f \ {k}
  BY WithoutFacts
<1>4. DOMAIN Without(f, k) \in SUBSET PrimaryKeys /\ Without(f, k) \in [DOMAIN Without(f, k) -> Nat]
  BY <1>1, <1>2, <1>3
<1> QED BY <1>4, MappingFacts

\* What an overlay is.
LEMMA OverlayFacts ==
  ASSUME NEW f
  PROVE  f \in Overlay <=> (DOMAIN f \in SUBSET PrimaryKeys /\ f \in [DOMAIN f -> [docID : Nat, deleted : BOOLEAN]])
  BY DEF Overlay

\* An overlay with one more change.
LEMMA OverlayWith ==
  ASSUME NEW f \in Overlay, NEW k \in PrimaryKeys, NEW x \in [docID : Nat, deleted : BOOLEAN]
  PROVE  With(f, k, x) \in Overlay
<1> DEFINE V == [docID : Nat, deleted : BOOLEAN]
<1>0. x \in V
  OBVIOUS
<1>1. DOMAIN f \in SUBSET PrimaryKeys /\ f \in [DOMAIN f -> V]
  BY OverlayFacts
<1> HIDE DEF V
<1>2. With(f, k, x) \in [DOMAIN f \cup {k} -> V]
  BY <1>0, <1>1 DEF With
<1>3. DOMAIN With(f, k, x) = DOMAIN f \cup {k}
  BY DEF With
<1>4. DOMAIN With(f, k, x) \in SUBSET PrimaryKeys /\ With(f, k, x) \in [DOMAIN With(f, k, x) -> V]
  BY <1>1, <1>2, <1>3
<1> QED BY <1>4, OverlayFacts DEF V

\* A database that is opened serves its mapping.
LEMMA OpenedServes ==
  ASSUME NEW db \in Mapping, NEW readOnly \in BOOLEAN
  PROVE  /\ Opened(db, readOnly) \in MapRecord
         /\ Serves(Opened(db, readOnly), db)
<1> DEFINE m == Opened(db, readOnly)
<1>1. DOMAIN db \in SUBSET PrimaryKeys /\ Cardinality(DOMAIN db) \in Int
  BY MappingFacts, MappingFinite
<1> DEFINE ks == IF readOnly THEN {} ELSE DOMAIN db
           n == Cardinality(DOMAIN db)
<1>1a. ks \in SUBSET PrimaryKeys /\ n \in Int /\ (readOnly \/ ks = DOMAIN db)
  BY <1>1
<1>2. m = [NoMap EXCEPT !.open = TRUE, !.readOnly = readOnly, !.db = db, !.known = ks, !.count = n]
  BY DEF Opened
<1> HIDE DEF m, ks, n
<1>2a. m = [open |-> TRUE, readOnly |-> readOnly, db |-> db, known |-> ks, overlay |-> Empty, count |-> n]
  BY <1>2 DEF NoMap
<1>3. m \in MapRecord
  BY <1>1a, <1>2a, EmptyMapping DEF MapRecord
<1>4. Serves(m, db)
  BY <1>1, <1>1a, <1>2a, EmptyMapping DEF Serves, Holds, Lookup, n
<1> QED BY <1>3, <1>4 DEF m

\* A map that serves a mapping answers as the mapping.
LEMMA FoundIsHolds ==
  ASSUME NEW m \in MapRecord, NEW f, Serves(m, f), NEW k \in PrimaryKeys
  PROVE  Found(m, k) <=> Holds(m, k)
<1>1. CASE m.readOnly
  BY <1>1 DEF Found, Holds
<1>2. CASE ~m.readOnly
  <2>1. m.overlay = Empty /\ m.known = DOMAIN m.db
    BY <1>2 DEF Serves
  <2> QED BY <1>2, <2>1, EmptyMapping DEF Found, Holds
<1> QED BY <1>1, <1>2

\* ForEach of a map that serves a mapping.
LEMMA ForEachServed ==
  ASSUME NEW m \in MapRecord, NEW f \in Mapping, Serves(m, f)
  PROVE  ForEach(m) = f
<1> DEFINE base == {k \in DOMAIN m.db : k \notin DOMAIN m.overlay \/ ~m.overlay[k].deleted}
           rest == {k \in DOMAIN m.overlay \ DOMAIN m.db : ~m.overlay[k].deleted}
<1>1. DOMAIN m.db \subseteq PrimaryKeys /\ DOMAIN m.overlay \subseteq PrimaryKeys
  BY MappingFacts, OverlayFacts DEF MapRecord
<1>2. DOMAIN f \subseteq PrimaryKeys /\ f = [k \in DOMAIN f |-> f[k]]
  BY MappingFacts
<1>3. \A k \in PrimaryKeys : k \in base \cup rest <=> Holds(m, k)
  BY DEF Holds
<1>4. base \cup rest \subseteq PrimaryKeys
  BY <1>1
<1>5. base \cup rest = DOMAIN f
  <2> HIDE DEF base, rest
  <2> QED BY <1>2, <1>3, <1>4 DEF Serves
<1>6. ForEach(m) = [k \in base \cup rest |-> Lookup(m, k)]
  BY DEF ForEach
<1> HIDE DEF base, rest
<1>7. \A k \in DOMAIN f : Lookup(m, k) = f[k]
  BY DEF Serves
<1> QED BY <1>2, <1>5, <1>6, <1>7

\* The reads of a map that serves a mapping.
LEMMA ServedExactly ==
  ASSUME NEW m \in MapRecord, NEW f \in Mapping, Serves(m, f)
  PROVE  /\ \A k \in PrimaryKeys : Found(m, k) <=> k \in DOMAIN f
         /\ \A k \in DOMAIN f : Lookup(m, k) = f[k]
         /\ m.count = Cardinality(DOMAIN f)
         /\ ForEach(m) = f
<1>1. \A k \in PrimaryKeys : Found(m, k) <=> Holds(m, k)
  BY FoundIsHolds
<1>2. ForEach(m) = f
  BY ForEachServed
<1> QED BY <1>1, <1>2 DEF Serves

\* A key that is put is counted once.
LEMMA CountWith ==
  ASSUME NEW f \in Mapping, NEW k, NEW x
  PROVE  Cardinality(DOMAIN With(f, k, x)) = IF k \in DOMAIN f THEN Cardinality(DOMAIN f) ELSE Cardinality(DOMAIN f) + 1
<1>1. DOMAIN With(f, k, x) = DOMAIN f \cup {k}
  BY DEF With
<1> DEFINE S == DOMAIN f
<1>2. IsFiniteSet(S)
  BY MappingFinite
<1> HIDE DEF S
<1>3. Cardinality(S \cup {k}) = IF k \in S THEN Cardinality(S) ELSE Cardinality(S) + 1
  BY <1>2, FS_AddElement
<1> QED BY <1>1, <1>3 DEF S

\* The size of a mapping without a key.
LEMMA CountWithout ==
  ASSUME NEW f \in Mapping, NEW k \in DOMAIN f
  PROVE  Cardinality(DOMAIN Without(f, k)) = Cardinality(DOMAIN f) - 1
<1>1. DOMAIN Without(f, k) = DOMAIN f \ {k}
  BY WithoutFacts
<1> DEFINE S == DOMAIN f
<1>2. IsFiniteSet(S) /\ k \in S
  BY MappingFinite
<1> HIDE DEF S
<1>3. Cardinality(S \ {k}) = Cardinality(S) - 1
  BY <1>2, FS_RemoveElement
<1> QED BY <1>1, <1>3 DEF S

PutRecord(m, k, id) == Counted(SetPoint(m, k, id), IF Found(m, k) THEN 0 ELSE 1)

\* Put serves the mapping with the new document.
LEMMA PutServes ==
  ASSUME NEW m \in MapRecord, NEW f \in Mapping, Serves(m, f), NEW k \in PrimaryKeys, NEW id \in Nat
  PROVE  /\ PutRecord(m, k, id) \in MapRecord
         /\ PutRecord(m, k, id).open = m.open
         /\ Serves(PutRecord(m, k, id), With(f, k, id))
<1> DEFINE n == PutRecord(m, k, id)
           x == IF Found(m, k) THEN 0 ELSE 1
           c == m.count + x
           g == With(f, k, id)
<1>1. (Found(m, k) <=> k \in DOMAIN f) /\ m.count = Cardinality(DOMAIN f)
  BY ServedExactly
<1>2. c = Cardinality(DOMAIN g)
  BY <1>1, CountWith, MappingFinite
<1>3. c \in Int /\ m.count \in Int /\ DOMAIN f \in SUBSET PrimaryKeys
  BY MappingFacts DEF MapRecord
<1>4. DOMAIN g = DOMAIN f \cup {k} /\ g[k] = id /\ \A j \in DOMAIN f : j # k => g[j] = f[j]
  BY DEF With
<1>5. /\ \A j \in PrimaryKeys : Holds(m, j) <=> j \in DOMAIN f
      /\ \A j \in DOMAIN f : Lookup(m, j) = f[j]
  BY DEF Serves
<1>6. CASE m.readOnly
  <2> DEFINE o == With(m.overlay, k, Alive(id))
  <2>1. n = [m EXCEPT !.overlay = o, !.count = c]
    <3>1. SetPoint(m, k, id) = [m EXCEPT !.overlay = o]
      BY <1>6 DEF SetPoint
    <3>2. n = Counted(SetPoint(m, k, id), x)
      BY DEF PutRecord
    <3> HIDE DEF n, x, o
    <3> QED BY <3>1, <3>2 DEF Counted, MapRecord
  <2>2. Alive(id) \in [docID : Nat, deleted : BOOLEAN] /\ Alive(id).docID = id /\ Alive(id).deleted = FALSE
    BY DEF Alive
  <2>3. o \in Overlay
    BY <2>2, OverlayWith DEF MapRecord
  <2>4. DOMAIN o = DOMAIN m.overlay \cup {k} /\ o[k] = Alive(id) /\ \A j \in DOMAIN m.overlay : j # k => o[j] = m.overlay[j]
    BY DEF With
  <2> HIDE DEF n, c, g, o
  <2>5. /\ n.overlay = o /\ n.count = c /\ n.open = m.open /\ n.readOnly = m.readOnly
        /\ n.db = m.db /\ n.known = m.known /\ n \in MapRecord
    BY <2>1, <1>3, <2>3 DEF MapRecord
  <2>6. ASSUME NEW j \in PrimaryKeys PROVE Holds(n, j) <=> j \in DOMAIN g
    <3>1. CASE j = k
      BY <1>4, <2>2, <2>4, <2>5, <3>1 DEF Holds
    <3>2. CASE j # k
      <4>1. Holds(n, j) <=> Holds(m, j)
        BY <2>4, <2>5, <3>2 DEF Holds
      <4> QED BY <1>4, <1>5, <3>2, <4>1
    <3> QED BY <3>1, <3>2
  <2>7. ASSUME NEW j \in DOMAIN g PROVE Lookup(n, j) = g[j]
    <3>1. CASE j = k
      BY <1>4, <2>2, <2>4, <2>5, <3>1 DEF Lookup
    <3>2. CASE j # k
      <4>1. Lookup(n, j) = Lookup(m, j) /\ j \in DOMAIN f
        BY <1>4, <2>4, <2>5, <3>2 DEF Lookup
      <4> QED BY <1>4, <1>5, <3>2, <4>1
    <3> QED BY <3>1, <3>2
  <2>8. Serves(n, g)
    BY <1>2, <1>6, <2>5, <2>6, <2>7 DEF Serves
  <2> QED BY <2>5, <2>8 DEF n, g
<1>7. CASE ~m.readOnly
  <2> DEFINE d == With(m.db, k, id)
  <2>1. n = [m EXCEPT !.db = d, !.known = m.known \cup {k}, !.count = c]
    <3>1. SetPoint(m, k, id) = [m EXCEPT !.db = d, !.known = m.known \cup {k}]
      BY <1>7 DEF SetPoint
    <3>2. n = Counted(SetPoint(m, k, id), x)
      BY DEF PutRecord
    <3> HIDE DEF n, x, d
    <3> QED BY <3>1, <3>2 DEF Counted, MapRecord
  <2>2. d \in Mapping
    BY WithTyped DEF MapRecord
  <2>3. DOMAIN d = DOMAIN m.db \cup {k} /\ d[k] = id /\ \A j \in DOMAIN m.db : j # k => d[j] = m.db[j]
    BY DEF With
  <2>4. m.overlay = Empty /\ m.known = DOMAIN m.db
    BY <1>7 DEF Serves
  <2> HIDE DEF n, c, g, d
  <2>5. /\ n.overlay = Empty /\ n.count = c /\ n.open = m.open /\ n.readOnly = m.readOnly
        /\ n.db = d /\ n.known = DOMAIN d /\ n \in MapRecord
    BY <1>3, <2>1, <2>2, <2>3, <2>4 DEF MapRecord
  <2>6. ASSUME NEW j \in PrimaryKeys PROVE Holds(n, j) <=> j \in DOMAIN g
    <3>1. Holds(n, j) <=> j \in DOMAIN d
      BY <2>5, EmptyMapping DEF Holds
    <3>2. Holds(m, j) <=> j \in DOMAIN m.db
      BY <2>4, EmptyMapping DEF Holds
    <3> QED BY <1>4, <1>5, <2>3, <3>1, <3>2
  <2>7. ASSUME NEW j \in DOMAIN g PROVE Lookup(n, j) = g[j]
    <3>1. Lookup(n, j) = d[j] /\ Lookup(m, j) = m.db[j]
      BY <2>4, <2>5, EmptyMapping DEF Lookup
    <3>2. CASE j = k
      BY <1>4, <2>3, <3>1, <3>2
    <3>3. CASE j # k
      <4>1. j \in DOMAIN f /\ j \in PrimaryKeys /\ Holds(m, j)
        BY <1>3, <1>4, <1>5, <3>3
      <4>2. j \in DOMAIN m.db
        BY <2>4, <4>1, EmptyMapping DEF Holds
      <4> QED BY <1>4, <1>5, <2>3, <3>1, <3>3, <4>1, <4>2
    <3> QED BY <3>2, <3>3
  <2>8. Serves(n, g)
    BY <1>2, <2>5, <2>6, <2>7 DEF Serves
  <2> QED BY <2>5, <2>8 DEF n, g
<1> QED BY <1>6, <1>7

\* Remove serves the mapping without the key.
LEMMA RemoveServes ==
  ASSUME NEW m \in MapRecord, NEW f \in Mapping, Serves(m, f), NEW k \in PrimaryKeys, Found(m, k)
  PROVE  /\ RemovePoint(m, k) \in MapRecord
         /\ RemovePoint(m, k).open = m.open
         /\ Serves(RemovePoint(m, k), Without(f, k))
<1> DEFINE n == RemovePoint(m, k)
           c == m.count - 1
           g == Without(f, k)
<1>1. k \in DOMAIN f /\ m.count = Cardinality(DOMAIN f)
  BY ServedExactly
<1>2. c = Cardinality(DOMAIN g)
  BY <1>1, CountWithout
<1>3. c \in Int /\ m.count \in Int /\ DOMAIN f \in SUBSET PrimaryKeys
  BY MappingFacts DEF MapRecord
<1>4. DOMAIN g = DOMAIN f \ {k} /\ \A j \in DOMAIN g : g[j] = f[j]
  BY WithoutFacts
<1>5. /\ \A j \in PrimaryKeys : Holds(m, j) <=> j \in DOMAIN f
      /\ \A j \in DOMAIN f : Lookup(m, j) = f[j]
  BY DEF Serves
<1>6. CASE m.readOnly
  <2> DEFINE o == With(m.overlay, k, Deleted)
  <2>1. n = [m EXCEPT !.overlay = o, !.count = c]
    BY <1>6 DEF RemovePoint, Counted, MapRecord
  <2>2. Deleted \in [docID : Nat, deleted : BOOLEAN] /\ Deleted.deleted = TRUE
    BY DEF Deleted
  <2>3. o \in Overlay
    BY <2>2, OverlayWith DEF MapRecord
  <2>4. DOMAIN o = DOMAIN m.overlay \cup {k} /\ o[k] = Deleted /\ \A j \in DOMAIN m.overlay : j # k => o[j] = m.overlay[j]
    BY DEF With
  <2> HIDE DEF n, c, g, o
  <2>5. /\ n.overlay = o /\ n.count = c /\ n.open = m.open /\ n.readOnly = m.readOnly
        /\ n.db = m.db /\ n.known = m.known /\ n \in MapRecord
    BY <2>1, <1>3, <2>3 DEF MapRecord
  <2>6. ASSUME NEW j \in PrimaryKeys PROVE Holds(n, j) <=> j \in DOMAIN g
    <3>1. CASE j = k
      BY <1>4, <2>2, <2>4, <2>5, <3>1 DEF Holds
    <3>2. CASE j # k
      <4>1. Holds(n, j) <=> Holds(m, j)
        BY <2>4, <2>5, <3>2 DEF Holds
      <4> QED BY <1>4, <1>5, <3>2, <4>1
    <3> QED BY <3>1, <3>2
  <2>7. ASSUME NEW j \in DOMAIN g PROVE Lookup(n, j) = g[j]
    <3>1. Lookup(n, j) = Lookup(m, j) /\ j \in DOMAIN f
      BY <1>4, <2>4, <2>5 DEF Lookup
    <3> QED BY <1>4, <1>5, <3>1
  <2>8. Serves(n, g)
    BY <1>2, <1>6, <2>5, <2>6, <2>7 DEF Serves
  <2> QED BY <2>5, <2>8 DEF n, g
<1>7. CASE ~m.readOnly
  <2> DEFINE d == Without(m.db, k)
  <2>1. n = [m EXCEPT !.db = d, !.known = m.known \ {k}, !.count = c]
    BY <1>7 DEF RemovePoint, Counted, MapRecord
  <2>2. d \in Mapping
    BY WithoutTyped DEF MapRecord
  <2>3. DOMAIN d = DOMAIN m.db \ {k} /\ \A j \in DOMAIN d : d[j] = m.db[j]
    BY WithoutFacts
  <2>4. m.overlay = Empty /\ m.known = DOMAIN m.db
    BY <1>7 DEF Serves
  <2> HIDE DEF n, c, g, d
  <2>5. /\ n.overlay = Empty /\ n.count = c /\ n.open = m.open /\ n.readOnly = m.readOnly
        /\ n.db = d /\ n.known = DOMAIN d /\ n \in MapRecord
    BY <1>3, <2>1, <2>2, <2>3, <2>4 DEF MapRecord
  <2>6. ASSUME NEW j \in PrimaryKeys PROVE Holds(n, j) <=> j \in DOMAIN g
    <3>1. Holds(n, j) <=> j \in DOMAIN d
      BY <2>5, EmptyMapping DEF Holds
    <3>2. Holds(m, j) <=> j \in DOMAIN m.db
      BY <2>4, EmptyMapping DEF Holds
    <3> QED BY <1>4, <1>5, <2>3, <3>1, <3>2
  <2>7. ASSUME NEW j \in DOMAIN g PROVE Lookup(n, j) = g[j]
    <3>1. Lookup(n, j) = d[j] /\ Lookup(m, j) = m.db[j]
      BY <2>4, <2>5, EmptyMapping DEF Lookup
    <3>2. j \in DOMAIN f /\ j \in PrimaryKeys /\ j # k /\ Holds(m, j)
      BY <1>3, <1>4, <1>5
    <3>3. j \in DOMAIN d
      BY <2>3, <2>4, <3>2, EmptyMapping DEF Holds
    <3> QED BY <1>4, <1>5, <2>3, <3>1, <3>2, <3>3
  <2>8. Serves(n, g)
    BY <1>2, <2>5, <2>6, <2>7 DEF Serves
  <2> QED BY <2>5, <2>8 DEF n, g
<1> QED BY <1>6, <1>7

-----------------------------------------------------------------------------
(* Its iterator.                                                           *)

\* The components of a pair.
LEMMA PairFacts ==
  ASSUME NEW x \in PrimaryKeys \X Nat
  PROVE  x = <<x[1], x[2]>> /\ x[1] \in PrimaryKeys /\ x[1] \in Nat /\ x[2] \in Nat
<1>1. x = <<x[1], x[2]>> /\ x[1] \in PrimaryKeys /\ x[2] \in Nat
  OBVIOUS
<1>2. x[1] \in Nat
  BY <1>1, KeyMapConstants
<1> QED BY <1>1, <1>2

\* The elements of the tail of a sequence.
LEMMA TailIn ==
  ASSUME NEW S, NEW s \in Seq(S), s # <<>>
  PROVE  /\ Tail(s) \in Seq(S) /\ s[1] \in S /\ Len(Tail(s)) = Len(s) - 1 /\ 1 \in 1..Len(s)
         /\ \A n \in 1..Len(Tail(s)) : Tail(s)[n] = s[n + 1] /\ n + 1 \in 1..Len(s)
         /\ \A x : In(s, x) <=> (x = s[1] \/ In(Tail(s), x))
<1>1. Len(s) \in Nat /\ Len(s) # 0
  OBVIOUS
<1>2. Tail(s) \in Seq(S) /\ s[1] \in S /\ Len(Tail(s)) = Len(s) - 1 /\ 1 \in 1..Len(s)
  BY <1>1
<1>3. \A n \in 1..Len(Tail(s)) : Tail(s)[n] = s[n + 1] /\ n + 1 \in 1..Len(s)
  BY <1>1, <1>2
<1>4. ASSUME NEW x PROVE In(s, x) <=> (x = s[1] \/ In(Tail(s), x))
  <2>1. ASSUME In(s, x) PROVE x = s[1] \/ In(Tail(s), x)
    <3>1. PICK n \in 1..Len(s) : s[n] = x
      BY <2>1 DEF In
    <3>2. CASE n = 1
      BY <3>1, <3>2
    <3>3. CASE n # 1
      <4>1. n - 1 \in 1..Len(Tail(s)) /\ (n - 1) + 1 = n
        BY <1>1, <1>2, <3>3
      <4>2. Tail(s)[n - 1] = x
        BY <1>3, <3>1, <4>1
      <4> QED BY <4>1, <4>2 DEF In
    <3> QED BY <3>2, <3>3
  <2>2. ASSUME In(Tail(s), x) PROVE In(s, x)
    <3>1. PICK n \in 1..Len(Tail(s)) : Tail(s)[n] = x
      BY <2>2 DEF In
    <3>2. n + 1 \in 1..Len(s) /\ s[n + 1] = x
      BY <1>3, <3>1
    <3> QED BY <3>2 DEF In
  <2>3. In(s, s[1])
    BY <1>2 DEF In
  <2> QED BY <2>1, <2>2, <2>3
<1> QED BY <1>2, <1>3, <1>4

\* The elements of an extended sequence.
LEMMA AppendIn ==
  ASSUME NEW S, NEW s \in Seq(S), NEW e \in S
  PROVE  /\ Append(s, e) \in Seq(S) /\ Len(Append(s, e)) = Len(s) + 1 /\ Len(s) \in Nat
         /\ \A n \in 1..Len(s) : Append(s, e)[n] = s[n]
         /\ Append(s, e)[Len(s) + 1] = e
         /\ \A x : In(Append(s, e), x) <=> (In(s, x) \/ x = e)
<1>1. /\ Append(s, e) \in Seq(S) /\ Len(Append(s, e)) = Len(s) + 1 /\ Len(s) \in Nat
      /\ \A n \in 1..Len(s) : Append(s, e)[n] = s[n]
      /\ Append(s, e)[Len(s) + 1] = e
  OBVIOUS
<1> DEFINE t == Append(s, e)
<1> HIDE DEF t
<1>2. ASSUME NEW x PROVE In(t, x) <=> (In(s, x) \/ x = e)
  <2>1. /\ Len(t) = Len(s) + 1 /\ Len(s) \in Nat
        /\ \A n \in 1..Len(s) : t[n] = s[n] /\ t[Len(s) + 1] = e
        /\ t[Len(s) + 1] = e
    BY <1>1 DEF t
  <2>2. \A n : n \in 1..Len(t) <=> (n \in 1..Len(s) \/ n = Len(s) + 1)
    BY <2>1
  <2> QED BY <2>1, <2>2 DEF In
<1> QED BY <1>1, <1>2 DEF t

\* The rest of an ascending sequence follows its first element.
LEMMA PairsTail ==
  ASSUME NEW s \in Seq(PrimaryKeys \X Nat), s # <<>>, PairsAscend(s)
  PROVE  PairsAscend(Tail(s)) /\ \A n \in 1..Len(Tail(s)) : s[1][1] < Tail(s)[n][1]
<1>1. Len(s) \in Nat
  OBVIOUS
<1>2. /\ Len(Tail(s)) = Len(s) - 1 /\ 1 \in 1..Len(s)
      /\ \A n \in 1..Len(Tail(s)) : Tail(s)[n] = s[n + 1] /\ n + 1 \in 1..Len(s)
  BY TailIn
<1>3. ASSUME NEW n \in 1..Len(Tail(s)), NEW o \in 1..Len(Tail(s)), n < o PROVE Tail(s)[n][1] < Tail(s)[o][1]
  <2>1. s[n + 1][1] < s[o + 1][1]
    BY <1>2, <1>3 DEF PairsAscend
  <2> QED BY <1>2, <2>1
<1>4. ASSUME NEW n \in 1..Len(Tail(s)) PROVE s[1][1] < Tail(s)[n][1]
  <2>1. s[1][1] < s[n + 1][1]
    BY <1>2 DEF PairsAscend
  <2> QED BY <1>2, <2>1
<1> QED BY <1>3, <1>4 DEF PairsAscend

\* The tail of an ascending sequence.
LEMMA KeysTail ==
  ASSUME NEW s \in Seq(PrimaryKeys), s # <<>>, KeysAscend(s)
  PROVE  KeysAscend(Tail(s)) /\ \A n \in 1..Len(Tail(s)) : s[1] < Tail(s)[n]
<1>1. Len(s) \in Nat
  OBVIOUS
<1>2. /\ Len(Tail(s)) = Len(s) - 1 /\ 1 \in 1..Len(s)
      /\ \A n \in 1..Len(Tail(s)) : Tail(s)[n] = s[n + 1] /\ n + 1 \in 1..Len(s)
  BY TailIn
<1>3. ASSUME NEW n \in 1..Len(Tail(s)), NEW o \in 1..Len(Tail(s)), n < o PROVE Tail(s)[n] < Tail(s)[o]
  <2>1. s[n + 1] < s[o + 1]
    BY <1>2, <1>3 DEF KeysAscend
  <2> QED BY <1>2, <2>1
<1>4. ASSUME NEW n \in 1..Len(Tail(s)) PROVE s[1] < Tail(s)[n]
  <2>1. s[1] < s[n + 1]
    BY <1>2 DEF KeysAscend
  <2> QED BY <1>2, <2>1
<1> QED BY <1>3, <1>4 DEF KeysAscend

\* What is returned next follows what was returned.
LEMMA PairsAppend ==
  ASSUME NEW s \in Seq(PrimaryKeys \X Nat), NEW e \in PrimaryKeys \X Nat, PairsAscend(s),
         \A n \in 1..Len(s) : s[n][1] < e[1]
  PROVE  PairsAscend(Append(s, e))
<1> DEFINE t == Append(s, e)
<1>1. /\ Len(t) = Len(s) + 1 /\ Len(s) \in Nat
      /\ \A n \in 1..Len(s) : t[n] = s[n]
      /\ t[Len(s) + 1] = e
  BY AppendIn
<1> HIDE DEF t
<1>2. ASSUME NEW n \in 1..Len(t), NEW o \in 1..Len(t), n < o PROVE t[n][1] < t[o][1]
  <2>1. n \in 1..Len(s) /\ t[n] = s[n]
    BY <1>1, <1>2
  <2>2. CASE o \in 1..Len(s)
    BY <1>1, <1>2, <2>1, <2>2 DEF PairsAscend
  <2>3. CASE o = Len(s) + 1
    BY <1>1, <2>1, <2>3
  <2>4. o \in 1..Len(s) \/ o = Len(s) + 1
    BY <1>1
  <2> QED BY <2>2, <2>3, <2>4
<1> QED BY <1>2 DEF PairsAscend, t

\* One round of Next that takes from the base.
LEMMA AdvanceBase ==
  ASSUME NEW i, IteratorInv(i), TakeBase(i)
  PROVE  IteratorInv([i EXCEPT !.base = Tail(@), !.got = Append(@, i.base[1])])
<1> DEFINE j == [i EXCEPT !.base = Tail(@), !.got = Append(@, i.base[1])]
           P == PrimaryKeys \X Nat
           b == i.base
           o == i.overlayKeys
           g == i.got
           e == b[1]
           tb == Tail(b)
           ag == Append(g, e)
<1>1. /\ i \in IteratorRecord /\ IteratorSorted(i) /\ IteratorCovers(i)
      /\ b \in Seq(P) /\ g \in Seq(P) /\ o \in Seq(PrimaryKeys) /\ b # <<>>
  BY DEF IteratorInv, IteratorRecord, TakeBase
<1>2. /\ tb \in Seq(P) /\ e \in P
      /\ \A x : In(b, x) <=> (x = e \/ In(tb, x))
  BY <1>1, TailIn
<1>3. /\ ag \in Seq(P) /\ Len(ag) = Len(g) + 1 /\ Len(g) \in Nat
      /\ \A n \in 1..Len(g) : ag[n] = g[n]
      /\ ag[Len(g) + 1] = e
      /\ \A x : In(ag, x) <=> (In(g, x) \/ x = e)
  <2>1. g \in Seq(P) /\ e \in P
    BY <1>1, <1>2
  <2> HIDE DEF g, e, P
  <2> QED BY <2>1, AppendIn
<1>4. j = [i EXCEPT !.base = tb, !.got = ag]
  OBVIOUS
<1>5. PairsAscend(tb) /\ \A n \in 1..Len(tb) : e[1] < tb[n][1]
  BY <1>1, PairsTail DEF IteratorSorted
<1>6. e = <<e[1], e[2]>> /\ e[1] \in PrimaryKeys /\ e[1] \in Nat /\ e[2] \in Nat
  <2> HIDE DEF e
  <2> QED BY <1>2, PairFacts
<1>7. \A n \in 1..Len(o) : e[1] < o[n]
  <2> SUFFICES ASSUME NEW n \in 1..Len(o) PROVE e[1] < o[n]
    OBVIOUS
  <2>1. o # <<>> /\ 1 \in 1..Len(o) /\ Len(o) \in Nat
    BY <1>1
  <2>2. e[1] < o[1]
    BY <2>1 DEF TakeBase
  <2>3. n = 1 \/ o[1] < o[n]
    BY <1>1, <2>1 DEF IteratorSorted, KeysAscend
  <2>4. o[1] \in Nat /\ o[n] \in Nat
    <3> HIDE DEF o
    <3>1. o[1] \in PrimaryKeys /\ o[n] \in PrimaryKeys
      BY <1>1, <2>1
    <3> QED BY <3>1, KeyMapConstants
  <2> HIDE DEF o, e
  <2> QED BY <1>6, <2>2, <2>3, <2>4
<1>8. \A n \in 1..Len(g) : g[n][1] < e[1]
  <2>1. 1 \in 1..Len(b)
    BY <1>1
  <2> QED BY <1>1, <2>1 DEF IteratorSorted, PairsBeforePairs
<1>9. PairsAscend(ag)
  BY <1>1, <1>2, <1>8, PairsAppend DEF IteratorSorted
<1>10. \A n \in 1..Len(ag) : n \in 1..Len(g) \/ n = Len(g) + 1
  BY <1>3
<1>11. \A n \in 1..Len(b) : b[n] \in P
  BY <1>1
<1>12. \A n \in 1..Len(tb) : \E m \in 1..Len(b) : b[m] = tb[n]
  BY <1>1, TailIn
<1> HIDE DEF P, b, o, g, e, tb, ag, j
<1>13. /\ j \in IteratorRecord /\ j.base = tb /\ j.got = ag /\ j.overlayKeys = o /\ j.overlay = i.overlay /\ j.view = i.view
  BY <1>1, <1>2, <1>3, <1>4 DEF IteratorRecord, P, o
<1>14. PairsBeforePairs(ag, tb)
  <2> SUFFICES ASSUME NEW n \in 1..Len(ag), NEW m \in 1..Len(tb) PROVE ag[n][1] < tb[m][1]
    BY DEF PairsBeforePairs
  <2>1. CASE n \in 1..Len(g)
    <3>1. PICK q \in 1..Len(b) : b[q] = tb[m]
      BY <1>12
    <3>2. g[n][1] < b[q][1]
      BY <1>1, <2>1 DEF IteratorSorted, PairsBeforePairs, b, g
    <3> QED BY <1>3, <2>1, <3>1, <3>2
  <2>2. CASE n = Len(g) + 1
    BY <1>3, <1>5, <2>2
  <2> QED BY <1>10, <2>1, <2>2
<1>15. PairsBeforeKeys(ag, o)
  <2> SUFFICES ASSUME NEW n \in 1..Len(ag), NEW m \in 1..Len(o) PROVE ag[n][1] < o[m]
    BY DEF PairsBeforeKeys
  <2>1. CASE n \in 1..Len(g)
    <3>1. g[n][1] < o[m]
      BY <1>1, <2>1 DEF IteratorSorted, PairsBeforeKeys, o, g
    <3> QED BY <1>3, <2>1, <3>1
  <2>2. CASE n = Len(g) + 1
    BY <1>3, <1>7, <2>2
  <2> QED BY <1>10, <2>1, <2>2
<1>16. IteratorSorted(j)
  <2>1. KeysAscend(o) /\ \A n \in 1..Len(o) : o[n] \in DOMAIN i.overlay
    BY <1>1 DEF IteratorSorted, o
  <2> QED BY <1>5, <1>9, <1>13, <1>14, <1>15, <2>1 DEF IteratorSorted
<1>17. ASSUME NEW k \in PrimaryKeys, NEW v \in Nat
       PROVE  (In(g, <<k, v>>) \/ Pending(i, k, v)) <=> (In(ag, <<k, v>>) \/ Pending(j, k, v))
  <2>1. Pending(i, k, v) <=> \/ In(o, k) /\ FromOverlay(i, k, v)
                             \/ ~In(o, k) /\ In(b, <<k, v>>)
    BY DEF Pending, o, b
  <2>2. Pending(j, k, v) <=> \/ In(o, k) /\ FromOverlay(i, k, v)
                             \/ ~In(o, k) /\ In(tb, <<k, v>>)
    BY <1>13 DEF Pending, FromOverlay
  <2>3. <<k, v>> = e => ~In(o, k)
    <3> SUFFICES ASSUME <<k, v>> = e, In(o, k) PROVE FALSE
      OBVIOUS
    <3>1. PICK n \in 1..Len(o) : o[n] = k
      BY DEF In
    <3>2. k = e[1]
      BY <1>6
    <3>3. k < k
      BY <1>7, <3>1, <3>2
    <3> QED BY <1>6, <3>2, <3>3
  <2> QED BY <1>2, <1>3, <2>1, <2>2, <2>3
<1>18. IteratorCovers(j)
  <2>1. \A k \in PrimaryKeys, v \in Nat :
          (k \in DOMAIN i.view /\ i.view[k] = v) <=> (In(g, <<k, v>>) \/ Pending(i, k, v))
    BY <1>1 DEF IteratorCovers, g
  <2> QED BY <1>13, <1>17, <2>1 DEF IteratorCovers
<1>19. IteratorInv(j)
  BY <1>13, <1>16, <1>18 DEF IteratorInv
<1> QED BY <1>19 DEF j

\* One round of Next that takes from the overlay: rest is what remains of the
\* base, without the key.
LEMMA AdvanceOverlay ==
  ASSUME NEW i, IteratorInv(i), i.overlayKeys # <<>>, NEW rest \in Seq(PrimaryKeys \X Nat), PairsAscend(rest),
         \A n \in 1..Len(rest) : i.overlayKeys[1] < rest[n][1] /\ In(i.base, rest[n]),
         \A k \in PrimaryKeys, v \in Nat : k # i.overlayKeys[1] => (In(i.base, <<k, v>>) <=> In(rest, <<k, v>>))
  PROVE  IteratorInv([i EXCEPT !.overlayKeys = Tail(@), !.base = rest, !.got = Overlaid(i)])
<1> DEFINE P == PrimaryKeys \X Nat
           b == i.base
           o == i.overlayKeys
           g == i.got
           c == o[1]
           e == <<c, i.overlay[c].docID>>
           ag == Overlaid(i)
           to == Tail(o)
           j == [i EXCEPT !.overlayKeys = Tail(@), !.base = rest, !.got = Overlaid(i)]
<1>1. /\ i \in IteratorRecord /\ IteratorSorted(i) /\ IteratorCovers(i)
      /\ b \in Seq(P) /\ g \in Seq(P) /\ o \in Seq(PrimaryKeys) /\ o # <<>>
  BY DEF IteratorInv, IteratorRecord
<1>2. /\ to \in Seq(PrimaryKeys) /\ c \in PrimaryKeys /\ 1 \in 1..Len(o) /\ Len(to) = Len(o) - 1
      /\ \A n \in 1..Len(to) : to[n] = o[n + 1] /\ n + 1 \in 1..Len(o)
      /\ \A x : In(o, x) <=> (x = c \/ In(to, x))
  BY <1>1, TailIn
<1>3. KeysAscend(to) /\ \A n \in 1..Len(to) : c < to[n]
  BY <1>1, KeysTail DEF IteratorSorted
<1>4. c \in DOMAIN i.overlay /\ i.overlay[c] \in [docID : Nat, deleted : BOOLEAN] /\ c \in Nat
  <2>1. i.overlay \in Overlay
    BY <1>1 DEF IteratorRecord
  <2>2. c \in DOMAIN i.overlay
    BY <1>1, <1>2 DEF IteratorSorted
  <2> QED BY <1>2, <2>1, <2>2, OverlayFacts, KeyMapConstants
<1>5. e \in P /\ e[1] = c
  BY <1>2, <1>4
<1>6. \A n \in 1..Len(g) : g[n][1] < c
  BY <1>1, <1>2 DEF IteratorSorted, PairsBeforeKeys
<1>7. /\ ag \in Seq(P) /\ PairsAscend(ag)
      /\ \A n \in 1..Len(ag) : (n \in 1..Len(g) /\ ag[n] = g[n]) \/ ag[n] = e
      /\ \A x : In(ag, x) <=> (In(g, x) \/ (x = e /\ ~i.overlay[c].deleted))
  <2>1. CASE i.overlay[c].deleted
    <3>1. ag = g
      BY <2>1 DEF Overlaid
    <3>2. PairsAscend(g)
      BY <1>1 DEF IteratorSorted
    <3> HIDE DEF ag, g, e
    <3> QED BY <1>1, <2>1, <3>1, <3>2
  <2>2. CASE ~i.overlay[c].deleted
    <3>1. ag = Append(g, e)
      BY <2>2 DEF Overlaid
    <3>2. PairsAscend(g)
      BY <1>1 DEF IteratorSorted
    <3> HIDE DEF ag, g, e, P
    <3>3. /\ ag \in Seq(P) /\ Len(ag) = Len(g) + 1 /\ Len(g) \in Nat
          /\ \A n \in 1..Len(g) : ag[n] = g[n]
          /\ ag[Len(g) + 1] = e
          /\ \A x : In(ag, x) <=> (In(g, x) \/ x = e)
      BY <1>1, <1>5, <3>1, AppendIn
    <3>4. PairsAscend(ag)
      BY <1>1, <1>5, <1>6, <3>1, <3>2, PairsAppend DEF P
    <3>5. \A n \in 1..Len(ag) : (n \in 1..Len(g) /\ ag[n] = g[n]) \/ ag[n] = e
      BY <3>3
    <3> QED BY <2>2, <3>3, <3>4, <3>5
  <2> QED BY <2>1, <2>2
<1>8. j = [i EXCEPT !.overlayKeys = to, !.base = rest, !.got = ag]
  OBVIOUS
<1> HIDE DEF j, ag, to, g, b, o, P, e, c
<1>9. j \in IteratorRecord /\ j.base = rest /\ j.got = ag /\ j.overlayKeys = to /\ j.overlay = i.overlay /\ j.view = i.view
  BY <1>1, <1>2, <1>7, <1>8 DEF IteratorRecord, P
<1>10. PairsBeforePairs(ag, rest)
  <2> SUFFICES ASSUME NEW n \in 1..Len(ag), NEW m \in 1..Len(rest) PROVE ag[n][1] < rest[m][1]
    BY DEF PairsBeforePairs
  <2>1. CASE n \in 1..Len(g) /\ ag[n] = g[n]
    <3>1. PICK q \in 1..Len(b) : b[q] = rest[m]
      BY DEF In, b
    <3>2. g[n][1] < b[q][1]
      BY <1>1, <2>1 DEF IteratorSorted, PairsBeforePairs, b, g
    <3> QED BY <2>1, <3>1, <3>2
  <2>2. CASE ag[n] = e
    BY <1>5, <2>2 DEF c, o
  <2> QED BY <1>7, <2>1, <2>2
<1>11. PairsBeforeKeys(ag, to)
  <2> SUFFICES ASSUME NEW n \in 1..Len(ag), NEW m \in 1..Len(to) PROVE ag[n][1] < to[m]
    BY DEF PairsBeforeKeys
  <2>1. CASE n \in 1..Len(g) /\ ag[n] = g[n]
    <3>1. g[n][1] < o[m + 1]
      BY <1>1, <1>2, <2>1 DEF IteratorSorted, PairsBeforeKeys, o, g
    <3> QED BY <1>2, <2>1, <3>1
  <2>2. CASE ag[n] = e
    BY <1>3, <1>5, <2>2
  <2> QED BY <1>7, <2>1, <2>2
<1>12. IteratorSorted(j)
  <2>1. \A n \in 1..Len(to) : to[n] \in DOMAIN i.overlay
    BY <1>1, <1>2 DEF IteratorSorted, o
  <2> QED BY <1>3, <1>7, <1>9, <1>10, <1>11, <2>1 DEF IteratorSorted
<1>13. ASSUME NEW k \in PrimaryKeys, NEW v \in Nat
       PROVE  (In(g, <<k, v>>) \/ Pending(i, k, v)) <=> (In(ag, <<k, v>>) \/ Pending(j, k, v))
  <2>1. Pending(i, k, v) <=> \/ In(o, k) /\ FromOverlay(i, k, v)
                             \/ ~In(o, k) /\ In(b, <<k, v>>)
    BY DEF Pending, o, b
  <2>2. Pending(j, k, v) <=> \/ In(to, k) /\ FromOverlay(i, k, v)
                             \/ ~In(to, k) /\ In(rest, <<k, v>>)
    BY <1>9 DEF Pending, FromOverlay
  <2>3. CASE k = c
    <3>1. In(o, k)
      BY <1>2, <2>3
    <3>2. ~In(to, k)
      <4> SUFFICES ASSUME In(to, k) PROVE FALSE
        OBVIOUS
      <4>1. PICK n \in 1..Len(to) : to[n] = k
        BY DEF In
      <4>2. c < c
        BY <1>3, <2>3, <4>1
      <4> QED BY <1>4, <4>2
    <3>3. ~In(rest, <<k, v>>)
      <4> SUFFICES ASSUME In(rest, <<k, v>>) PROVE FALSE
        OBVIOUS
      <4>1. PICK n \in 1..Len(rest) : rest[n] = <<k, v>>
        BY DEF In
      <4>2. c < rest[n][1]
        BY DEF c, o
      <4>3. rest[n][1] = c
        BY <2>3, <4>1
      <4> QED BY <1>4, <4>2, <4>3
    <3>4. FromOverlay(i, k, v) <=> (<<k, v>> = e /\ ~i.overlay[c].deleted)
      BY <2>3 DEF FromOverlay, e
    <3> QED BY <1>7, <2>1, <2>2, <3>1, <3>2, <3>3, <3>4
  <2>4. CASE k # c
    <3>1. In(o, k) <=> In(to, k)
      BY <1>2, <2>4
    <3>2. In(b, <<k, v>>) <=> In(rest, <<k, v>>)
      BY <2>4 DEF b, c, o
    <3>3. <<k, v>> # e
      BY <2>4 DEF e
    <3> QED BY <1>7, <2>1, <2>2, <3>1, <3>2, <3>3
  <2> QED BY <2>3, <2>4
<1>14. IteratorCovers(j)
  <2>1. \A k \in PrimaryKeys, v \in Nat :
          (k \in DOMAIN i.view /\ i.view[k] = v) <=> (In(g, <<k, v>>) \/ Pending(i, k, v))
    BY <1>1 DEF IteratorCovers, g
  <2> QED BY <1>9, <1>13, <2>1 DEF IteratorCovers
<1>15. IteratorInv(j)
  BY <1>9, <1>12, <1>14 DEF IteratorInv
<1> QED BY <1>15 DEF j

\* Next preserves the iterator's invariant.
LEMMA AdvancedInv ==
  ASSUME NEW i, IteratorInv(i), ~Exhausted(i)
  PROVE  IteratorInv(Advanced(i))
<1> DEFINE b == i.base
           o == i.overlayKeys
<1>1. /\ b \in Seq(PrimaryKeys \X Nat) /\ o \in Seq(PrimaryKeys) /\ i \in IteratorRecord
      /\ PairsAscend(b) /\ KeysAscend(o)
  BY DEF IteratorInv, IteratorRecord, IteratorSorted
<1>2. CASE TakeBase(i)
  BY <1>2, AdvanceBase DEF Advanced
<1>3. CASE ~TakeBase(i)
  <2>1. o # <<>>
    BY <1>3 DEF Exhausted, TakeBase
  <2>2. o[1] \in Nat
    <3>1. o[1] \in PrimaryKeys
      BY <1>1, <2>1
    <3> QED BY <3>1, KeyMapConstants
  <2>3. CASE TakeOverlay(i)
    <3>1. \A n \in 1..Len(b) : o[1] < b[n][1] /\ In(b, b[n])
      <4> SUFFICES ASSUME NEW n \in 1..Len(b) PROVE o[1] < b[n][1] /\ In(b, b[n])
        OBVIOUS
      <4>1. b # <<>> /\ 1 \in 1..Len(b) /\ Len(b) \in Nat
        BY <1>1
      <4>2. o[1] < b[1][1]
        BY <2>3, <4>1 DEF TakeOverlay
      <4>3. n = 1 \/ b[1][1] < b[n][1]
        BY <1>1, <4>1 DEF PairsAscend
      <4>4. b[1] \in PrimaryKeys \X Nat /\ b[n] \in PrimaryKeys \X Nat
        BY <1>1, <4>1
      <4>5. b[1][1] \in Nat /\ b[n][1] \in Nat
        <5> DEFINE x == b[1]
                   y == b[n]
        <5> HIDE DEF x, y
        <5>1. x \in PrimaryKeys \X Nat /\ y \in PrimaryKeys \X Nat
          BY <4>4 DEF x, y
        <5>2. x[1] \in Nat /\ y[1] \in Nat
          BY <5>1, PairFacts
        <5> QED BY <5>2 DEF x, y
      <4>6. o[1] < b[n][1]
        <5> HIDE DEF b, o
        <5> QED BY <2>2, <4>2, <4>3, <4>5
      <4> QED BY <4>6 DEF In
    <3>2. \A k \in PrimaryKeys, v \in Nat : k # o[1] => (In(b, <<k, v>>) <=> In(b, <<k, v>>))
      OBVIOUS
    <3>3. IteratorInv([i EXCEPT !.overlayKeys = Tail(@), !.base = b, !.got = Overlaid(i)])
      BY <1>1, <2>1, <3>1, <3>2, AdvanceOverlay
    <3>4. [i EXCEPT !.overlayKeys = Tail(@), !.base = b, !.got = Overlaid(i)]
            = [i EXCEPT !.overlayKeys = Tail(@), !.got = Overlaid(i)]
      BY <1>1 DEF IteratorRecord
    <3>5. Advanced(i) = [i EXCEPT !.overlayKeys = Tail(@), !.got = Overlaid(i)]
      BY <1>3, <2>3 DEF Advanced
    <3> QED BY <3>3, <3>4, <3>5
  <2>4. CASE ~TakeOverlay(i)
    <3> DEFINE rest == Tail(b)
    <3>1. b # <<>> /\ ~(b[1][1] < o[1]) /\ ~(o[1] < b[1][1])
      BY <1>3, <2>1, <2>4 DEF TakeBase, TakeOverlay
    <3>2. b[1][1] \in Nat /\ b[1] = <<b[1][1], b[1][2]>>
      <4> DEFINE x == b[1]
      <4> HIDE DEF x
      <4>1. x \in PrimaryKeys \X Nat
        BY <1>1, <3>1 DEF x
      <4>2. x[1] \in Nat /\ x = <<x[1], x[2]>>
        BY <4>1, PairFacts
      <4> QED BY <4>2 DEF x
    <3>3. b[1][1] = o[1]
      <4> HIDE DEF b, o
      <4> QED BY <2>2, <3>1, <3>2
    <3>4. /\ rest \in Seq(PrimaryKeys \X Nat)
          /\ \A n \in 1..Len(rest) : rest[n] = b[n + 1] /\ n + 1 \in 1..Len(b)
          /\ \A x : In(b, x) <=> (x = b[1] \/ In(rest, x))
      BY <1>1, <3>1, TailIn
    <3>5. PairsAscend(rest) /\ \A n \in 1..Len(rest) : b[1][1] < rest[n][1]
      BY <1>1, <3>1, PairsTail
    <3> HIDE DEF b, o, rest
    <3>6. \A n \in 1..Len(rest) : o[1] < rest[n][1] /\ In(b, rest[n])
      BY <3>3, <3>4, <3>5 DEF In
    <3>7. \A k \in PrimaryKeys, v \in Nat : k # o[1] => (In(b, <<k, v>>) <=> In(rest, <<k, v>>))
      <4> SUFFICES ASSUME NEW k \in PrimaryKeys, NEW v \in Nat, k # o[1] PROVE <<k, v>> # b[1]
        BY <3>4
      <4> QED BY <3>2, <3>3
    <3>8. IteratorInv([i EXCEPT !.overlayKeys = Tail(@), !.base = rest, !.got = Overlaid(i)])
      BY <2>1, <3>4, <3>5, <3>6, <3>7, AdvanceOverlay DEF b, o
    <3>9. Advanced(i) = [i EXCEPT !.overlayKeys = Tail(@), !.base = rest, !.got = Overlaid(i)]
      BY <1>3, <2>4 DEF Advanced, rest, b
    <3> QED BY <3>8, <3>9
  <2> QED BY <2>3, <2>4
<1> QED BY <1>2, <1>3

SnapshotIterator(h, m, f) ==
  [handle |-> h, base |-> [n \in DOMAIN Ascending(DOMAIN m.db) |-> <<Ascending(DOMAIN m.db)[n], m.db[Ascending(DOMAIN m.db)[n]]>>],
   overlay |-> m.overlay, overlayKeys |-> Ascending(DOMAIN m.overlay), got |-> <<>>, view |-> f]

\* A new iterator has the view of its map before it.
LEMMA StartedInv ==
  ASSUME NEW h \in MapHandles, NEW m \in MapRecord, NEW f \in Mapping, Serves(m, f)
  PROVE  IteratorInv(SnapshotIterator(h, m, f))
<1> DEFINE i == SnapshotIterator(h, m, f)
           D == DOMAIN m.db
           O == DOMAIN m.overlay
           a == Ascending(D)
           o == Ascending(O)
           b == [n \in DOMAIN a |-> <<a[n], m.db[a[n]]>>]
           P == PrimaryKeys \X Nat
<1>1. m.db \in Mapping /\ m.overlay \in Overlay
  BY DEF MapRecord
<1>2. D \subseteq PrimaryKeys /\ O \subseteq PrimaryKeys /\ m.db \in [D -> Nat]
  BY <1>1, MappingFacts, OverlayFacts
<1>3. D \in SUBSET Nat /\ O \in SUBSET Nat /\ IsFiniteSet(D) /\ IsFiniteSet(O)
  <2>1. D \in SUBSET Nat /\ O \in SUBSET Nat
    BY <1>2, KeyMapConstants
  <2> HIDE DEF D, O
  <2> QED BY <1>2, <2>1, KeyMapConstants, FS_Subset
<1>4. /\ a \in Seq(D)
      /\ \A n, q \in 1..Len(a) : n < q => a[n] < a[q]
      /\ \A x \in D : \E n \in 1..Len(a) : a[n] = x
  <2> HIDE DEF D
  <2> QED BY <1>3, AscendingSorts
<1>5. /\ o \in Seq(O)
      /\ \A n, q \in 1..Len(o) : n < q => o[n] < o[q]
      /\ \A x \in O : \E n \in 1..Len(o) : o[n] = x
  <2> HIDE DEF O
  <2> QED BY <1>3, AscendingSorts
<1>6. i = [handle |-> h, base |-> b, overlay |-> m.overlay, overlayKeys |-> o, got |-> <<>>, view |-> f]
  BY DEF SnapshotIterator
<1> HIDE DEF i, a, o, D, O
<1>7. /\ Len(a) \in Nat /\ DOMAIN a = 1..Len(a) /\ \A n \in 1..Len(a) : a[n] \in D
      /\ Len(o) \in Nat /\ \A n \in 1..Len(o) : o[n] \in O
  BY <1>4, <1>5
<1>8. /\ b \in Seq(P) /\ Len(b) = Len(a)
      /\ \A n \in 1..Len(a) : b[n] = <<a[n], m.db[a[n]]>>
  <2>1. \A n \in 1..Len(a) : <<a[n], m.db[a[n]]>> \in P
    BY <1>2, <1>7
  <2> HIDE DEF P
  <2>2. b = [n \in 1..Len(a) |-> <<a[n], m.db[a[n]]>>]
    BY <1>7
  <2> QED BY <1>7, <2>1, <2>2
<1>9. o \in Seq(PrimaryKeys)
  BY <1>2, <1>5, <1>7
<1> HIDE DEF b
<1>10. i \in IteratorRecord
  BY <1>1, <1>6, <1>8, <1>9 DEF IteratorRecord
<1>11. IteratorSorted(i)
  <2>1. PairsAscend(b)
    <3> SUFFICES ASSUME NEW n \in 1..Len(b), NEW q \in 1..Len(b), n < q PROVE b[n][1] < b[q][1]
      BY DEF PairsAscend
    <3>1. a[n] < a[q]
      BY <1>4, <1>8
    <3>2. b[n] = <<a[n], m.db[a[n]]>> /\ b[q] = <<a[q], m.db[a[q]]>>
      BY <1>8
    <3>3. b[n][1] = a[n] /\ b[q][1] = a[q]
      BY <3>2
    <3> QED BY <3>1, <3>3
  <2>2. KeysAscend(o)
    BY <1>5 DEF KeysAscend
  <2>3. Len(<<>>) = 0
    OBVIOUS
  <2> QED BY <1>6, <1>7, <2>1, <2>2, <2>3 DEF IteratorSorted, PairsAscend, PairsBeforePairs, PairsBeforeKeys, O
<1>12. ASSUME NEW k \in PrimaryKeys, NEW v \in Nat
       PROVE  (k \in DOMAIN f /\ f[k] = v) <=> (In(<<>>, <<k, v>>) \/ Pending(i, k, v))
  <2>1. ~In(<<>>, <<k, v>>)
    BY DEF In
  <2>2. In(o, k) <=> k \in O
    BY <1>5, <1>7 DEF In
  <2>3. In(b, <<k, v>>) <=> (k \in D /\ m.db[k] = v)
    <3>1. ASSUME In(b, <<k, v>>) PROVE k \in D /\ m.db[k] = v
      <4>1. PICK n \in 1..Len(b) : b[n] = <<k, v>>
        BY <3>1 DEF In
      <4>2. <<a[n], m.db[a[n]]>> = <<k, v>> /\ a[n] \in D
        BY <1>7, <1>8, <4>1
      <4> QED BY <4>2
    <3>2. ASSUME k \in D, m.db[k] = v PROVE In(b, <<k, v>>)
      <4>1. PICK n \in 1..Len(a) : a[n] = k
        BY <1>4, <3>2
      <4>2. b[n] = <<k, v>> /\ n \in 1..Len(b)
        BY <1>8, <3>2, <4>1
      <4> QED BY <4>2 DEF In
    <3> QED BY <3>1, <3>2
  <2>4. Pending(i, k, v) <=> \/ k \in O /\ ~m.overlay[k].deleted /\ v = m.overlay[k].docID
                             \/ k \notin O /\ k \in D /\ m.db[k] = v
    BY <1>6, <2>2, <2>3 DEF Pending, FromOverlay
  <2>5. k \in DOMAIN f <=> Holds(m, k)
    BY DEF Serves
  <2>6. k \in DOMAIN f => f[k] = Lookup(m, k)
    BY DEF Serves
  <2>7. Lookup(m, k) = IF k \in O THEN m.overlay[k].docID ELSE m.db[k]
    BY DEF Lookup, O
  <2>8. Holds(m, k) <=> \/ k \in O /\ ~m.overlay[k].deleted
                        \/ k \notin O /\ k \in D
    BY DEF Holds, O, D
  <2> QED BY <2>1, <2>4, <2>5, <2>6, <2>7, <2>8
<1>13. IteratorCovers(i)
  BY <1>6, <1>12 DEF IteratorCovers
<1>14. IteratorInv(i)
  BY <1>10, <1>11, <1>13 DEF IteratorInv
<1> QED BY <1>14 DEF i

\* An exhausted iterator has returned its view, each key once and in order.
LEMMA ExhaustedExact ==
  ASSUME NEW i, IteratorInv(i), Exhausted(i)
  PROVE  i.got = [n \in DOMAIN Ascending(DOMAIN i.view) |-> <<Ascending(DOMAIN i.view)[n], i.view[Ascending(DOMAIN i.view)[n]]>>]
<1> DEFINE g == i.got
           f == i.view
           D == DOMAIN f
           P == PrimaryKeys \X Nat
           s == [n \in 1..Len(g) |-> g[n][1]]
<1>1. /\ i.base = <<>> /\ i.overlayKeys = <<>> /\ g \in Seq(P) /\ f \in Mapping
      /\ PairsAscend(g) /\ IteratorCovers(i)
  BY DEF IteratorInv, IteratorRecord, IteratorSorted, Exhausted
<1>2. D \in SUBSET PrimaryKeys /\ f \in [D -> Nat] /\ D \in SUBSET Nat /\ IsFiniteSet(D)
  <2>1. D \in SUBSET PrimaryKeys /\ f \in [D -> Nat]
    BY <1>1, MappingFacts
  <2>2. IsFiniteSet(D)
    BY <1>1, MappingFinite
  <2> QED BY <2>1, <2>2, KeyMapConstants
<1>3. \A k \in PrimaryKeys, v \in Nat : (k \in D /\ f[k] = v) <=> In(g, <<k, v>>)
  <2> SUFFICES ASSUME NEW k \in PrimaryKeys, NEW v \in Nat PROVE (k \in D /\ f[k] = v) <=> In(g, <<k, v>>)
    OBVIOUS
  <2>1. ~Pending(i, k, v)
    <3>1. ~In(<<>>, <<k, v>>) /\ ~In(<<>>, k)
      BY DEF In
    <3> QED BY <1>1, <3>1 DEF Pending
  <2> QED BY <1>1, <2>1 DEF IteratorCovers
<1>4. \A n \in 1..Len(g) : g[n] \in P
  BY <1>1
<1>5. Len(g) \in Nat
  BY <1>1
<1> HIDE DEF g, f, D
<1>6. \A n \in 1..Len(g) : g[n] = <<g[n][1], g[n][2]>> /\ g[n][1] \in D /\ f[g[n][1]] = g[n][2]
  <2> SUFFICES ASSUME NEW n \in 1..Len(g)
               PROVE  g[n] = <<g[n][1], g[n][2]>> /\ g[n][1] \in D /\ f[g[n][1]] = g[n][2]
    OBVIOUS
  <2> DEFINE x == g[n]
  <2>1. x \in P /\ In(g, x)
    BY <1>4 DEF In
  <2> HIDE DEF x
  <2>2. x = <<x[1], x[2]>> /\ x[1] \in PrimaryKeys /\ x[2] \in Nat
    BY <2>1
  <2>3. x[1] \in D /\ f[x[1]] = x[2]
    BY <1>3, <2>1, <2>2
  <2> QED BY <2>2, <2>3 DEF x
<1>7. s \in Seq(D) /\ Len(s) = Len(g) /\ \A n \in 1..Len(g) : s[n] = g[n][1]
  BY <1>5, <1>6
<1> HIDE DEF s
<1>8. \A n, q \in 1..Len(s) : n < q => s[n] < s[q]
  BY <1>1, <1>7 DEF PairsAscend
<1>9. \A x \in D : \E n \in 1..Len(s) : s[n] = x
  <2> SUFFICES ASSUME NEW x \in D PROVE \E n \in 1..Len(s) : s[n] = x
    OBVIOUS
  <2>1. x \in PrimaryKeys /\ f[x] \in Nat
    BY <1>2
  <2>2. In(g, <<x, f[x]>>)
    BY <1>3, <2>1
  <2>3. PICK n \in 1..Len(g) : g[n] = <<x, f[x]>>
    BY <2>2 DEF In
  <2>4. s[n] = x
    BY <1>7, <2>3
  <2> QED BY <1>7, <2>4
<1>10. s = Ascending(D)
  BY <1>2, <1>7, <1>8, <1>9, AscendingUnique
<1>11. DOMAIN s = 1..Len(g)
  BY <1>7
<1>12. g = [n \in 1..Len(g) |-> g[n]]
  BY <1>1
<1>13. g = [n \in DOMAIN s |-> <<s[n], f[s[n]]>>]
  <2>1. \A n \in 1..Len(g) : g[n] = <<s[n], f[s[n]]>>
    BY <1>6, <1>7
  <2> DEFINE m == Len(g)
  <2> HIDE DEF m
  <2>2. DOMAIN s = 1..m /\ g = [n \in 1..m |-> g[n]] /\ \A n \in 1..m : g[n] = <<s[n], f[s[n]]>>
    BY <1>11, <1>12, <2>1 DEF m
  <2> QED BY <2>2
<1> QED BY <1>10, <1>13 DEF g, f, D

-----------------------------------------------------------------------------
(* The invariant of the primary-key map.                                   *)

\* One handle changes.
LEMMA ReplaceMap ==
  ASSUME NEW m \in [MapHandles -> MapRecord], NEW s \in [MapHandles -> Mapping], KeyMapServes(m, s),
         NEW h \in MapHandles, NEW n \in MapRecord, NEW f \in Mapping, n.open => Serves(n, f)
  PROVE  /\ [m EXCEPT ![h] = n] \in [MapHandles -> MapRecord]
         /\ [s EXCEPT ![h] = f] \in [MapHandles -> Mapping]
         /\ KeyMapServes([m EXCEPT ![h] = n], [s EXCEPT ![h] = f])
  BY DEF KeyMapServes

\* One call changes.
LEMMA ReplaceCall ==
  ASSUME NEW g \in [MapHandles -> CallRecord], CallsExact(g),
         NEW h \in MapHandles, NEW c \in CallRecord, CallExact(c)
  PROVE  /\ [g EXCEPT ![h] = c] \in [MapHandles -> CallRecord]
         /\ CallsExact([g EXCEPT ![h] = c])
  BY DEF CallsExact

\* The record of a closed handle.
LEMMA NoMapTyped == NoMap \in MapRecord /\ NoMap.open = FALSE
<1> HIDE DEF Empty
<1> QED BY EmptyMapping DEF NoMap, MapRecord

\* The record of an idle handle.
LEMMA NoCallTyped == NoCall \in CallRecord /\ NoCall.stage = "none" /\ CallExact(NoCall)
<1> HIDE DEF Empty
<1> QED BY EmptyMapping DEF NoCall, CallRecord, CallExact

\* The invariant holds when the maps are created.
LEMMA KeyMapStart == KeyMapInit => KeyMapInv
<1> SUFFICES ASSUME KeyMapInit PROVE KeyMapInv
  OBVIOUS
<1>1. PICK f \in Mappings(StoredIDs) : checkpoints = [p \in {1} |-> f]
  BY DEF KeyMapInit
<1>2. f \in Mapping
  BY <1>1, KeyMapConstants DEF Mapping, Mappings
<1>3. DOMAIN checkpoints \subseteq Paths /\ \A p \in DOMAIN checkpoints : checkpoints[p] \in Mapping
  BY <1>1, <1>2, KeyMapConstants
<1>4. maps \in [MapHandles -> MapRecord] /\ calls \in [MapHandles -> CallRecord] /\ served \in [MapHandles -> Mapping]
  BY NoMapTyped, NoCallTyped, EmptyMapping DEF KeyMapInit
<1>5. KeyMapServes(maps, served) /\ CallsExact(calls)
  BY NoMapTyped, NoCallTyped DEF KeyMapInit, KeyMapServes, CallsExact
<1> QED BY <1>3, <1>4, <1>5 DEF KeyMapInit, KeyMapInv, KeyMapTyped

\* The parts of the invariant that a step of a map can disturb.
LEMMA MapStep ==
  ASSUME KeyMapInv, NEW h \in MapHandles, NEW n \in MapRecord, NEW f \in Mapping, Serves(n, f) \/ ~n.open,
         maps' = [maps EXCEPT ![h] = n], served' = [served EXCEPT ![h] = f],
         UNCHANGED <<checkpoints, iterator, calls>>
  PROVE  KeyMapInv'
<1>1. /\ maps \in [MapHandles -> MapRecord] /\ served \in [MapHandles -> Mapping] /\ KeyMapServes(maps, served)
  BY DEF KeyMapInv, KeyMapTyped
<1>2. n.open => Serves(n, f)
  OBVIOUS
<1>3. maps' \in [MapHandles -> MapRecord] /\ served' \in [MapHandles -> Mapping] /\ KeyMapServes(maps', served')
  BY <1>1, <1>2, ReplaceMap
<1> QED BY <1>3 DEF KeyMapInv, KeyMapTyped

\* A step of a checkpoint or a copy changes no map.
LEMMA CallStep ==
  ASSUME KeyMapInv, NEW h \in MapHandles, NEW c \in CallRecord, CallExact(c),
         calls' = [calls EXCEPT ![h] = c], UNCHANGED <<checkpoints, maps, served, iterator>>
  PROVE  KeyMapInv'
<1>1. calls \in [MapHandles -> CallRecord] /\ CallsExact(calls)
  BY DEF KeyMapInv, KeyMapTyped
<1>2. calls' \in [MapHandles -> CallRecord] /\ CallsExact(calls')
  BY <1>1, ReplaceCall
<1> QED BY <1>2 DEF KeyMapInv, KeyMapTyped

\* The iterator alone moves.
LEMMA IteratorStep ==
  ASSUME KeyMapInv, iterator' # NoIterator => IteratorInv(iterator'), UNCHANGED <<checkpoints, maps, calls, served>>
  PROVE  KeyMapInv'
  BY DEF KeyMapInv

\* Every step preserves the invariant.
LEMMA KeyMapStep == KeyMapInv /\ [KeyMapNext]_keyMapVars => KeyMapInv'
<1> SUFFICES ASSUME KeyMapInv, [KeyMapNext]_keyMapVars PROVE KeyMapInv'
  OBVIOUS
<1>0. /\ DOMAIN checkpoints \subseteq Paths /\ \A p \in DOMAIN checkpoints : checkpoints[p] \in Mapping
      /\ maps \in [MapHandles -> MapRecord] /\ calls \in [MapHandles -> CallRecord] /\ served \in [MapHandles -> Mapping]
      /\ \A h \in MapHandles : maps[h].open => Serves(maps[h], served[h])
      /\ \A h \in MapHandles : CallExact(calls[h])
      /\ iterator # NoIterator => IteratorInv(iterator)
  BY DEF KeyMapInv, KeyMapTyped, KeyMapServes, CallsExact
<1>1. CASE UNCHANGED keyMapVars
  BY <1>1 DEF KeyMapInv, keyMapVars
<1>2. CASE NextKey
  <2>1. IteratorInv(iterator')
    BY <1>0, <1>2, AdvancedInv DEF NextKey
  <2> QED BY <1>2, <2>1, IteratorStep DEF NextKey
<1>3. CASE CloseIterator
  BY <1>3, IteratorStep DEF CloseIterator
<1>4. ASSUME NEW h \in MapHandles, NEW path \in Paths, NEW readOnly \in BOOLEAN, Open(h, path, readOnly)
      PROVE  KeyMapInv'
  <2> DEFINE f == checkpoints[path]
             n == Opened(f, readOnly)
  <2>1. f \in Mapping
    BY <1>0, <1>4 DEF Open
  <2>2. maps' = [maps EXCEPT ![h] = n] /\ served' = [served EXCEPT ![h] = f] /\ UNCHANGED <<checkpoints, iterator, calls>>
    BY <1>4 DEF Open
  <2> HIDE DEF f
  <2>3. n \in MapRecord /\ Serves(n, f)
    BY <2>1, OpenedServes
  <2> HIDE DEF n
  <2> QED BY <2>1, <2>2, <2>3, MapStep
<1>5. ASSUME NEW h \in MapHandles, Create(h) PROVE KeyMapInv'
  <2> DEFINE n == Opened(Empty, FALSE)
  <2>1. n \in MapRecord /\ Serves(n, Empty) /\ Empty \in Mapping
    BY EmptyMapping, OpenedServes
  <2>2. maps' = [maps EXCEPT ![h] = n] /\ served' = [served EXCEPT ![h] = Empty] /\ UNCHANGED <<checkpoints, iterator, calls>>
    BY <1>5 DEF Create
  <2> HIDE DEF n
  <2> QED BY <2>1, <2>2, MapStep
<1>6. ASSUME NEW h \in MapHandles, NEW k \in PrimaryKeys, NEW id \in NewIDs, Put(h, k, id) \/ PutNew(h, k, id)
      PROVE  KeyMapInv'
  <2> DEFINE n == PutRecord(maps[h], k, id)
             f == With(served[h], k, id)
  <2>0. id \in Nat /\ maps[h] \in MapRecord /\ served[h] \in Mapping /\ maps[h].open /\ Serves(maps[h], served[h])
    BY <1>0, <1>6, KeyMapConstants DEF Put, PutNew, WriteTo
  <2>1. maps' = [maps EXCEPT ![h] = n] /\ served' = [served EXCEPT ![h] = f] /\ UNCHANGED <<checkpoints, iterator, calls>>
    <3>1. CASE Put(h, k, id)
      BY <3>1 DEF Put, PutRecord
    <3>2. CASE PutNew(h, k, id)
      BY <3>2 DEF PutNew, PutRecord
    <3> QED BY <1>6, <3>1, <3>2
  <2>2. n \in MapRecord /\ Serves(n, f)
    BY <2>0, PutServes
  <2>3. f \in Mapping
    BY <2>0, WithTyped
  <2> HIDE DEF n, f
  <2> QED BY <2>1, <2>2, <2>3, MapStep
<1>7. ASSUME NEW h \in MapHandles, NEW k \in PrimaryKeys, Delete(h, k) PROVE KeyMapInv'
  <2> DEFINE n == RemovePoint(maps[h], k)
             f == Without(served[h], k)
  <2>0. maps[h] \in MapRecord /\ served[h] \in Mapping /\ Serves(maps[h], served[h]) /\ Found(maps[h], k)
    BY <1>0, <1>7 DEF Delete, WriteTo
  <2>1. maps' = [maps EXCEPT ![h] = n] /\ served' = [served EXCEPT ![h] = f] /\ UNCHANGED <<checkpoints, iterator, calls>>
    BY <1>7 DEF Delete
  <2>2. n \in MapRecord /\ Serves(n, f)
    BY <2>0, RemoveServes
  <2>3. f \in Mapping
    BY <2>0, WithoutTyped
  <2> HIDE DEF n, f
  <2> QED BY <2>1, <2>2, <2>3, MapStep
<1>8. ASSUME NEW h \in MapHandles, CloseMap(h) PROVE KeyMapInv'
  BY <1>8, NoMapTyped, EmptyMapping, MapStep DEF CloseMap
<1>9. ASSUME NEW h \in MapHandles, NEW path \in Paths, BeginCheckpoint(h, path) PROVE KeyMapInv'
  <2> DEFINE c == [NoCall EXCEPT !.stage = "begun", !.path = path]
  <2>1. c \in CallRecord /\ CallExact(c)
    BY NoCallTyped, KeyMapConstants DEF CallRecord, CallExact
  <2>2. calls' = [calls EXCEPT ![h] = c] /\ UNCHANGED <<checkpoints, maps, served, iterator>>
    BY <1>9 DEF BeginCheckpoint
  <2> HIDE DEF c
  <2> QED BY <2>1, <2>2, CallStep
<1>10. ASSUME NEW h \in MapHandles, NEW copy \in MapHandles, BeginDetached(h, copy) PROVE KeyMapInv'
  <2> DEFINE c == [NoCall EXCEPT !.stage = "begun", !.copy = copy]
  <2>1. c \in CallRecord /\ CallExact(c)
    BY NoCallTyped, KeyMapConstants DEF CallRecord, CallExact
  <2>2. calls' = [calls EXCEPT ![h] = c] /\ UNCHANGED <<checkpoints, maps, served, iterator>>
    BY <1>10 DEF BeginDetached
  <2> HIDE DEF c
  <2> QED BY <2>1, <2>2, CallStep
<1>11. ASSUME NEW h \in MapHandles, TakeImage(h) PROVE KeyMapInv'
  <2> DEFINE image == IF maps[h].readOnly THEN ForEach(maps[h]) ELSE maps[h].db
             c == [calls[h] EXCEPT !.stage = "taken", !.view = served[h], !.image = image]
  <2>0. maps[h] \in MapRecord /\ served[h] \in Mapping /\ Serves(maps[h], served[h]) /\ calls[h] \in CallRecord
    BY <1>0, <1>11 DEF TakeImage
  <2>1. ForEach(maps[h]) = served[h]
    BY <2>0, ForEachServed
  <2>2. image = served[h]
    <3>1. CASE maps[h].readOnly
      BY <2>1, <3>1
    <3>2. CASE ~maps[h].readOnly
      <4> DEFINE m == maps[h]
                 f == served[h]
      <4>1. m.overlay = Empty /\ m.db \in Mapping
        BY <2>0, <3>2 DEF Serves, MapRecord
      <4>2. /\ DOMAIN m.db \in SUBSET PrimaryKeys /\ m.db = [k \in DOMAIN m.db |-> m.db[k]]
            /\ DOMAIN f \in SUBSET PrimaryKeys /\ f = [k \in DOMAIN f |-> f[k]]
        BY <2>0, <4>1, MappingFacts
      <4>3. \A k \in PrimaryKeys : (k \in DOMAIN m.db <=> k \in DOMAIN f) /\ (k \in DOMAIN f => m.db[k] = f[k])
        BY <2>0, <4>1, EmptyMapping DEF Serves, Holds, Lookup
      <4> HIDE DEF m, f
      <4>4. DOMAIN m.db = DOMAIN f
        BY <4>2, <4>3
      <4>5. m.db = f
        BY <4>2, <4>3, <4>4
      <4> QED BY <3>2, <4>5 DEF m, f
    <3> QED BY <3>1, <3>2
  <2>3. calls' = [calls EXCEPT ![h] = c] /\ UNCHANGED <<checkpoints, maps, served, iterator>>
    <3>1. calls' = [calls EXCEPT ![h].stage = "taken", ![h].view = served[h], ![h].image = image]
      BY <1>11 DEF TakeImage
    <3> HIDE DEF image
    <3>2. calls' = [calls EXCEPT ![h] = c]
      BY <1>0, <3>1
    <3> QED BY <1>11, <3>2 DEF TakeImage
  <2> HIDE DEF image
  <2>4. c \in CallRecord /\ CallExact(c)
    <3>1. CallExact(calls[h]) /\ calls[h].stage = "begun"
      BY <1>0, <1>11 DEF TakeImage
    <3> QED BY <2>0, <2>2, <3>1 DEF CallRecord, CallExact
  <2> HIDE DEF c
  <2> QED BY <2>2, <2>3, <2>4, CallStep
<1>12. ASSUME NEW h \in MapHandles, Install(h) PROVE KeyMapInv'
  <2> DEFINE p == calls[h].path
             f == calls[h].image
  <2>1. p \in Paths \cup {0} /\ f \in Mapping
    BY <1>0 DEF CallRecord
  <2>2. checkpoints' = With(checkpoints, p, f) /\ calls' = [calls EXCEPT ![h] = NoCall] /\ UNCHANGED <<maps, served, iterator>>
    BY <1>12 DEF Install
  <2>3. p # 0
    BY <1>0, <1>12 DEF Install, CallExact
  <2> HIDE DEF p, f
  <2>4. DOMAIN checkpoints' \subseteq Paths /\ \A q \in DOMAIN checkpoints' : checkpoints'[q] \in Mapping
    BY <1>0, <2>1, <2>2, <2>3 DEF With
  <2>5. calls' \in [MapHandles -> CallRecord] /\ CallsExact(calls')
    BY <1>0, <2>2, NoCallTyped, ReplaceCall DEF KeyMapInv
  <2> QED BY <1>0, <2>2, <2>4, <2>5 DEF KeyMapInv, KeyMapTyped
<1>13. ASSUME NEW h \in MapHandles, OpenDetached(h) PROVE KeyMapInv'
  <2> DEFINE n == Opened(calls[h].image, FALSE)
             f == calls[h].view
             copy == calls[h].copy
  <2>1. f \in Mapping /\ copy \in MapHandles /\ calls[h].image = f
    BY <1>0, <1>13 DEF OpenDetached, CallRecord, CallExact
  <2>2. n \in MapRecord /\ Serves(n, f)
    BY <2>1, OpenedServes
  <2>3. maps' = [maps EXCEPT ![copy] = n] /\ served' = [served EXCEPT ![copy] = f] /\ calls' = [calls EXCEPT ![h] = NoCall]
    BY <1>13 DEF OpenDetached
  <2>4. UNCHANGED <<checkpoints, iterator>>
    BY <1>13 DEF OpenDetached
  <2> HIDE DEF n, f, copy
  <2>5. KeyMapServes(maps, served) /\ CallsExact(calls)
    BY DEF KeyMapInv
  <2>6. maps' \in [MapHandles -> MapRecord] /\ served' \in [MapHandles -> Mapping] /\ KeyMapServes(maps', served')
    BY <1>0, <2>1, <2>2, <2>3, <2>5, ReplaceMap
  <2>7. calls' \in [MapHandles -> CallRecord] /\ CallsExact(calls')
    BY <1>0, <2>3, <2>5, NoCallTyped, ReplaceCall
  <2> QED BY <1>0, <2>4, <2>6, <2>7 DEF KeyMapInv, KeyMapTyped
<1>14. ASSUME NEW h \in MapHandles, Fail(h) PROVE KeyMapInv'
  BY <1>14, NoCallTyped, CallStep DEF Fail
<1>15. ASSUME NEW h \in MapHandles, NewSnapshotIterator(h) PROVE KeyMapInv'
  <2>0. maps[h] \in MapRecord /\ served[h] \in Mapping /\ Serves(maps[h], served[h])
    BY <1>0, <1>15 DEF NewSnapshotIterator
  <2>1. iterator' = SnapshotIterator(h, maps[h], served[h])
    BY <1>15 DEF NewSnapshotIterator, SnapshotIterator
  <2>2. IteratorInv(iterator')
    BY <2>0, <2>1, StartedInv
  <2> QED BY <1>15, <2>2, IteratorStep DEF NewSnapshotIterator
<1> QED
  BY <1>1, <1>2, <1>3, <1>4, <1>5, <1>6, <1>7, <1>8, <1>9, <1>10, <1>11, <1>12, <1>13, <1>14, <1>15
  DEF KeyMapNext

\* The invariant states what the maps serve.
LEMMA KeyMapInvExact == KeyMapInv => KeyMapExact
<1> SUFFICES ASSUME KeyMapInv PROVE KeyMapExact
  OBVIOUS
<1>1. ASSUME NEW h \in MapHandles, maps[h].open
      PROVE  /\ \A k \in PrimaryKeys : Found(maps[h], k) <=> k \in DOMAIN served[h]
             /\ \A k \in DOMAIN served[h] : Lookup(maps[h], k) = served[h][k]
             /\ maps[h].count = Cardinality(DOMAIN served[h])
             /\ ForEach(maps[h]) = served[h]
  <2>1. maps[h] \in MapRecord /\ served[h] \in Mapping /\ Serves(maps[h], served[h])
    BY <1>1 DEF KeyMapInv, KeyMapTyped, KeyMapServes
  <2> QED BY <2>1, ServedExactly
<1>2. ASSUME iterator # NoIterator, Exhausted(iterator)
      PROVE  iterator.got = [n \in DOMAIN Ascending(DOMAIN iterator.view) |->
                               <<Ascending(DOMAIN iterator.view)[n], iterator.view[Ascending(DOMAIN iterator.view)[n]]>>]
  <2>1. IteratorInv(iterator)
    BY <1>2 DEF KeyMapInv
  <2> QED BY <1>2, <2>1, ExhaustedExact
<1> QED BY <1>1, <1>2 DEF KeyMapExact

\* Of every primary-key map, for every set of keys, handles and checkpoints:
\* lookups, counts and copies are exactly the mapping that was written, and an
\* exhausted snapshot iterator has returned the mapping of the moment it was
\* made, each key once and in order, whatever was written since.
THEOREM KeyMapIsExact == KeyMapSpec => []KeyMapExact
<1>1. KeyMapInit => KeyMapInv
  BY KeyMapStart
<1>2. KeyMapInv /\ [KeyMapNext]_keyMapVars => KeyMapInv'
  BY KeyMapStep
<1>3. KeyMapInv => KeyMapExact
  BY KeyMapInvExact
<1> QED BY <1>1, <1>2, <1>3, PTL DEF KeyMapSpec

-----------------------------------------------------------------------------
(* Results and bounded heaps.                                              *)

Results == [key : Nat, score : Nat]

\* resultBetter is a strict total order.
LEMMA BetterOrders ==
  /\ \A a, b \in Results : a # b => Better(a, b) \/ Better(b, a)
  /\ \A a, b, c \in Results : Better(a, b) /\ Better(b, c) => Better(a, c)
  /\ \A a \in Results : ~Better(a, a)
<1>1. ASSUME NEW a \in Results, NEW b \in Results, a # b PROVE Better(a, b) \/ Better(b, a)
  <2>1. a.key # b.key \/ a.score # b.score
    BY <1>1 DEF Results
  <2> QED BY <2>1 DEF Better, Results
<1>2. ASSUME NEW a \in Results, NEW b \in Results, NEW c \in Results, Better(a, b), Better(b, c) PROVE Better(a, c)
  BY <1>2 DEF Better, Results
<1>3. ASSUME NEW a \in Results PROVE ~Better(a, a)
  BY DEF Better, Results
<1> QED BY <1>1, <1>2, <1>3

\* The order as a set of pairs.
BetterOn(S) == {p \in S \X S : Better(p[1], p[2])}

\* The order of results on a set, as FiniteLemmas needs it.
LEMMA BetterStrictlyOrders ==
  ASSUME NEW S \in SUBSET Results
  PROVE  StrictlyOrders(BetterOn(S), S) /\ \A a, b \in S : <<a, b>> \in BetterOn(S) <=> Better(a, b)
<1>1. \A a, b \in S : <<a, b>> \in BetterOn(S) <=> Better(a, b)
  BY DEF BetterOn
<1>2. \A a \in S : a \in Results
  OBVIOUS
<1> QED BY <1>1, <1>2, BetterOrders DEF StrictlyOrders, Orders

\* A finite set of results has a worst one.
LEMMA WorstExists ==
  ASSUME NEW S \in SUBSET Results, IsFiniteSet(S), S # {}
  PROVE  \E w \in S : \A r \in S \ {w} : Better(r, w)
<1>1. StrictlyOrders(BetterOn(S), S) /\ \A a, b \in S : <<a, b>> \in BetterOn(S) <=> Better(a, b)
  BY BetterStrictlyOrders
<1>2. PICK w : IsLast(w, BetterOn(S), S)
  BY <1>1, LastOfFinite DEF StrictlyOrders
<1> QED BY <1>1, <1>2 DEF IsLast

\* The heap holds only results of T, at most k, and all others are worse than
\* a full heap.
KeepsBest(heap, k, T) ==
  /\ heap \subseteq T /\ IsFiniteSet(heap) /\ Cardinality(heap) <= k
  /\ \A x \in T : x \in heap \/ (Cardinality(heap) = k /\ \A r \in heap : Better(r, x))

\* One more result: the heap keeps the best k of the larger set.
LEMMA RetainKeepsBest ==
  ASSUME NEW T \in SUBSET Results, NEW k \in Nat \ {0}, NEW heap, KeepsBest(heap, k, T),
         NEW result \in Results, result \notin T
  PROVE  KeepsBest(Retain(heap, k, result), k, T \cup {result})
<1>1. heap \subseteq T /\ IsFiniteSet(heap) /\ Cardinality(heap) \in Nat /\ Cardinality(heap) <= k /\ result \notin heap
  BY FS_CardinalityType DEF KeepsBest
<1>2. IsFiniteSet(heap \cup {result}) /\ Cardinality(heap \cup {result}) = Cardinality(heap) + 1
  BY <1>1, FS_AddElement
<1>3. CASE Cardinality(heap) < k
  <2>1. Retain(heap, k, result) = heap \cup {result}
    BY <1>3 DEF Retain
  <2> QED BY <1>1, <1>2, <1>3, <2>1 DEF KeepsBest
<1>4. CASE ~(Cardinality(heap) < k)
  <2>1. Cardinality(heap) = k
    BY <1>1, <1>4
  <2>2. heap # {}
    BY <2>1, FS_EmptySet
  <2>3. heap \in SUBSET Results
    BY <1>1
  <2> DEFINE worst == CHOOSE w \in heap : \A r \in heap \ {w} : Better(r, w)
  <2>4. \E w \in heap : \A r \in heap \ {w} : Better(r, w)
    BY <1>1, <2>2, <2>3, WorstExists
  <2>5. worst \in heap /\ \A r \in heap \ {worst} : Better(r, worst)
    BY <2>4
  <2>6. Retain(heap, k, result) = IF Better(result, worst) THEN (heap \ {worst}) \cup {result} ELSE heap
    BY <1>4 DEF Retain
  <2> HIDE DEF worst
  <2>7. worst \in Results /\ worst # result
    BY <1>1, <2>3, <2>5
  <2>8. CASE Better(result, worst)
    <3> DEFINE H == (heap \ {worst}) \cup {result}
    <3>1. IsFiniteSet(heap \ {worst}) /\ Cardinality(heap \ {worst}) = k - 1
      BY <1>1, <2>1, <2>5, FS_RemoveElement
    <3>2. result \notin heap \ {worst}
      BY <1>1
    <3>3. IsFiniteSet(H) /\ Cardinality(H) = Cardinality(heap \ {worst}) + 1
      BY <3>1, <3>2, FS_AddElement
    <3>4. Cardinality(H) = k
      BY <3>1, <3>3
    <3>5. H \subseteq T \cup {result}
      BY <1>1
    <3>6. \A r \in H : Better(r, worst) /\ r \in Results
      BY <2>3, <2>5, <2>8
    <3>7. ASSUME NEW x \in T \cup {result}, x \notin H PROVE \A r \in H : Better(r, x)
      <4>1. CASE x = worst
        BY <3>6, <4>1
      <4>2. CASE x # worst
        <5>1. x \in T /\ x \notin heap
          BY <3>7, <4>2
        <5>2. Better(worst, x) /\ x \in Results
          BY <2>5, <5>1 DEF KeepsBest
        <5> QED BY <2>7, <3>6, <5>2, BetterOrders
      <4> QED BY <4>1, <4>2
    <3> HIDE DEF H
    <3>8. Retain(heap, k, result) = H
      BY <2>6, <2>8 DEF H
    <3> QED BY <3>3, <3>4, <3>5, <3>7, <3>8 DEF KeepsBest
  <2>9. CASE ~Better(result, worst)
    <3>1. Better(worst, result)
      BY <2>7, <2>9, BetterOrders
    <3>2. ASSUME NEW r \in heap PROVE Better(r, result)
      <4>1. r = worst \/ Better(r, worst)
        BY <2>5
      <4>2. r \in Results
        BY <2>3
      <4> QED BY <2>7, <3>1, <4>1, <4>2, BetterOrders
    <3>3. Retain(heap, k, result) = heap
      BY <2>6, <2>9
    <3> QED BY <1>1, <2>1, <3>2, <3>3 DEF KeepsBest
  <2> QED BY <2>8, <2>9
<1> QED BY <1>3, <1>4

\* The recursion of HeapAfter.
IsHeap(h, k, results) ==
  h = [n \in 0..Len(results) |-> IF n = 0 THEN {} ELSE Retain(h[n - 1], k, results[n])]

\* HeapAfter is the recursion that it is defined by.
LEMMA HeapUnfolds ==
  ASSUME NEW T \in SUBSET Results, NEW k \in Nat \ {0}, NEW results \in Seq(T)
  PROVE  IsHeap(HeapAfter(k, results), k, results)
<1> DEFINE m == Len(results)
           X == SUBSET T
           step == [p \in X \X (1..m) |-> Retain(p[1], k, results[p[2]])]
<1>1. m \in Nat /\ \A n \in 1..m : results[n] \in T
  OBVIOUS
<1>2. ASSUME NEW H \in X, NEW n \in 1..m PROVE Retain(H, k, results[n]) \in X
  BY <1>1 DEF Retain
<1>3. step \in [X \X (1..m) -> X]
  BY <1>2
<1>4. \A H \in X, n \in 1..m : step[<<H, n>>] = Retain(H, k, results[n])
  OBVIOUS
<1>5. {} \in X
  OBVIOUS
<1> HIDE DEF step, X
<1>6. PICK h \in [0..m -> X] : Unrolls(h, m, {}, step)
  BY <1>1, <1>3, <1>5, IterationExists
<1>7. ASSUME NEW n \in 0..m PROVE h[n] = IF n = 0 THEN {} ELSE Retain(h[n - 1], k, results[n])
  <2>1. CASE n = 0
    BY <1>6, <2>1 DEF Unrolls
  <2>2. CASE n # 0
    <3>1. n \in 1..m /\ h[n - 1] \in X
      BY <1>1, <2>2
    <3> QED BY <1>4, <1>6, <2>2, <3>1 DEF Unrolls
  <2> QED BY <2>1, <2>2
<1>8. h = [n \in 0..m |-> IF n = 0 THEN {} ELSE Retain(h[n - 1], k, results[n])]
  BY <1>7
<1>9. \E f : IsHeap(f, k, results)
  BY <1>8 DEF IsHeap
<1> HIDE DEF m
<1> QED BY <1>9 DEF HeapAfter, IsHeap

\* All results are different.
Distinct(s) == \A i, j \in 1..Len(s) : i # j => s[i] # s[j]

\* The sequence lists exactly the elements of T, each once.
Lists(s, T) == s \in Seq(T) /\ Distinct(s) /\ \A x \in T : \E i \in 1..Len(s) : s[i] = x

\* The heap after all results keeps the best k of them.
LEMMA HeapKeepsBest ==
  ASSUME NEW T \in SUBSET Results, NEW k \in Nat \ {0}, NEW results, Lists(results, T)
  PROVE  KeepsBest(HeapAfter(k, results)[Len(results)], k, T)
<1> DEFINE m == Len(results)
           H == HeapAfter(k, results)
           Part(n) == {results[i] : i \in 1..n}
           Bad == {n \in 0..m : ~KeepsBest(H[n], k, Part(n))}
<1>1. results \in Seq(T) /\ m \in Nat /\ \A n \in 1..m : results[n] \in T
  BY DEF Lists
<1>2. H = [n \in 0..m |-> IF n = 0 THEN {} ELSE Retain(H[n - 1], k, results[n])]
  BY <1>1, HeapUnfolds DEF IsHeap
<1>3. H[0] = {} /\ \A n \in 1..m : H[n] = Retain(H[n - 1], k, results[n])
  BY <1>1, <1>2
<1>4. Bad \in SUBSET Nat /\ \A n \in 0..m : n \in Bad <=> ~KeepsBest(H[n], k, Part(n))
  BY <1>1
<1>5. Part(m) = T /\ Part(0) = {}
  <2>1. \A x \in T : \E i \in 1..m : results[i] = x
    BY DEF Lists
  <2>2. Part(0) = {}
    OBVIOUS
  <2> HIDE DEF m
  <2>3. Part(m) \subseteq T /\ T \subseteq Part(m)
    BY <1>1, <2>1
  <2> QED BY <2>2, <2>3
<1>6. ASSUME NEW n \in 1..m
      PROVE  /\ Part(n) = Part(n - 1) \cup {results[n]} /\ Part(n - 1) \in SUBSET Results
             /\ results[n] \notin Part(n - 1) /\ results[n] \in Results
  <2>1. n \in Nat /\ n - 1 \in 0..m /\ \A i \in 1..(n - 1) : i \in 1..m /\ i # n
    BY <1>1
  <2>2. \A i \in 1..n : i \in 1..(n - 1) \/ i = n
    BY <2>1
  <2>3. Part(n) = Part(n - 1) \cup {results[n]}
    <3>1. \A i \in 1..(n - 1) : i \in 1..n
      BY <2>1
    <3>2. n \in 1..n
      OBVIOUS
    <3> QED BY <2>2, <3>1, <3>2
  <2>4. Part(n - 1) \in SUBSET Results /\ results[n] \in Results
    BY <1>1, <2>1
  <2>5. \A i \in 1..(n - 1) : results[i] # results[n]
    BY <2>1 DEF Lists, Distinct
  <2> QED BY <2>3, <2>4, <2>5
<1> HIDE DEF Bad, Part, H
<1>7. KeepsBest(H[0], k, Part(0))
  BY <1>3, <1>5, FS_EmptySet DEF KeepsBest
<1>8. SUFFICES ASSUME Bad # {} PROVE FALSE
  BY <1>1, <1>4, <1>5 DEF H
<1>9. PICK n \in Bad : \A o \in Bad : n <= o
  BY <1>4, <1>8, LeastNat
<1>10. n \in 0..m
  BY DEF Bad
<1>11. n \in 1..m /\ n - 1 \in 0..m /\ n - 1 \notin Bad
  BY <1>1, <1>4, <1>7, <1>9, <1>10
<1>12. KeepsBest(H[n - 1], k, Part(n - 1))
  BY <1>4, <1>11
<1>13. KeepsBest(Retain(H[n - 1], k, results[n]), k, Part(n - 1) \cup {results[n]})
  BY <1>6, <1>11, <1>12, RetainKeepsBest
<1>14. H[n] = Retain(H[n - 1], k, results[n]) /\ Part(n) = Part(n - 1) \cup {results[n]}
  BY <1>3, <1>6, <1>11
<1>15. KeepsBest(H[n], k, Part(n))
  BY <1>13, <1>14
<1> QED BY <1>4, <1>9, <1>10, <1>15

\* b lists the best k of T, best first.
TopOf(b, k, T) ==
  /\ b \in Seq(T) /\ Len(b) <= k
  /\ \A i, j \in 1..Len(b) : i < j => Better(b[i], b[j])
  /\ \A x \in T : (\E i \in 1..Len(b) : b[i] = x) \/ (Len(b) = k /\ \A i \in 1..Len(b) : Better(b[i], x))

\* Best returns the best k of what it is given, best first.
LEMMA BestIsTop ==
  ASSUME NEW T \in SUBSET Results, NEW k \in Nat \ {0}, NEW results, Lists(results, T)
  PROVE  TopOf(Best(k, results), k, T)
<1> DEFINE H == HeapAfter(k, results)[Len(results)]
           b == Enumerated(H, BetterOn(H))
<1>1. KeepsBest(H, k, T)
  BY HeapKeepsBest
<1>2. Best(k, results) = b
  BY DEF Best, BestFirst, BetterOn
<1> HIDE DEF H
<1>3. H \in SUBSET Results /\ IsFiniteSet(H) /\ H \subseteq T
  BY <1>1 DEF KeepsBest
<1>4. StrictlyOrders(BetterOn(H), H) /\ \A x, y \in H : <<x, y>> \in BetterOn(H) <=> Better(x, y)
  BY <1>3, BetterStrictlyOrders
<1>5. /\ b \in Seq(H) /\ Len(b) = Cardinality(H)
      /\ \A i, j \in 1..Cardinality(H) : i < j => <<b[i], b[j]>> \in BetterOn(H)
      /\ \A x \in H : \E i \in 1..Cardinality(H) : b[i] = x
  <2> DEFINE R == BetterOn(H)
  <2>1. IsFiniteSet(H) /\ StrictlyOrders(R, H)
    BY <1>3, <1>4
  <2> HIDE DEF R
  <2>2. /\ Enumerated(H, R) \in Seq(H) /\ Len(Enumerated(H, R)) = Cardinality(H)
        /\ \A i, j \in 1..Cardinality(H) :
             i < j => <<Enumerated(H, R)[i], Enumerated(H, R)[j]>> \in R
        /\ \A x \in H : \E i \in 1..Cardinality(H) : Enumerated(H, R)[i] = x
    BY <2>1, EnumeratedSorts
  <2> QED BY <2>2 DEF R
<1> HIDE DEF b
<1>6. \A i \in 1..Len(b) : b[i] \in H
  BY <1>5
<1>7. b \in Seq(T)
  BY <1>3, <1>5
<1>8. \A i, j \in 1..Len(b) : i < j => Better(b[i], b[j])
  BY <1>4, <1>5, <1>6
<1>9. ASSUME NEW x \in T PROVE (\E i \in 1..Len(b) : b[i] = x) \/ (Len(b) = k /\ \A i \in 1..Len(b) : Better(b[i], x))
  BY <1>1, <1>5, <1>6 DEF KeepsBest
<1> QED BY <1>1, <1>2, <1>5, <1>7, <1>8, <1>9 DEF KeepsBest, TopOf

-----------------------------------------------------------------------------
(* Sequences of sequences.                                                 *)

\* The recursion of FlattenSeq.
IsFlat(f, ss) == f = [i \in 1..Len(ss) |-> IF i = 1 THEN ss[i] ELSE f[i - 1] \o ss[i]]

\* FlattenSeq is the recursion that it is defined by.
LEMMA FlattenUnfolds ==
  ASSUME NEW T, NEW ss \in Seq(Seq(T)), Len(ss) # 0
  PROVE  \E f : f \in [1..Len(ss) -> Seq(T)] /\ IsFlat(f, ss) /\ FlattenSeq(ss) = f[Len(ss)]
<1> DEFINE m == Len(ss)
           X == Seq(T)
           step == [p \in X \X (1..m) |-> p[1] \o ss[p[2]]]
<1>1. m \in Nat \ {0} /\ \A n \in 1..m : ss[n] \in X
  OBVIOUS
<1>2. step \in [X \X (1..m) -> X]
  BY <1>1
<1>3. \A s \in X, n \in 1..m : step[<<s, n>>] = s \o ss[n]
  OBVIOUS
<1>4. <<>> \in X /\ \A s \in X : <<>> \o s = s
  OBVIOUS
<1> HIDE DEF step, X, m
<1>5. PICK h \in [0..m -> X] : Unrolls(h, m, <<>>, step)
  BY <1>1, <1>2, <1>4, IterationExists
<1> DEFINE g == [i \in 1..m |-> h[i]]
<1>6. ASSUME NEW i \in 1..m PROVE g[i] = IF i = 1 THEN ss[i] ELSE g[i - 1] \o ss[i]
  <2>0. i - 1 \in 0..m
    BY <1>1
  <2>1. h[i - 1] \in X /\ g[i] = h[i] /\ h[i] = step[<<h[i - 1], i>>]
    BY <1>5, <2>0 DEF Unrolls
  <2>2. g[i] = h[i - 1] \o ss[i]
    BY <1>3, <2>1
  <2>3. CASE i = 1
    <3>1. h[0] = <<>>
      BY <1>5 DEF Unrolls
    <3>2. h[i - 1] = <<>> /\ ss[i] \in X
      BY <1>1, <2>3, <3>1
    <3>3. <<>> \o ss[i] = ss[i]
      BY <1>4, <3>2
    <3> QED BY <2>2, <2>3, <3>2, <3>3
  <2>4. CASE i # 1
    <3>1. i - 1 \in 1..m
      BY <1>1, <2>4
    <3> QED BY <2>2, <2>4, <3>1
  <2> QED BY <2>3, <2>4
<1>7. g = [i \in 1..m |-> IF i = 1 THEN ss[i] ELSE g[i - 1] \o ss[i]]
  BY <1>6
<1>8. IsFlat(g, ss)
  BY <1>7 DEF IsFlat, m
<1> DEFINE f == CHOOSE x : IsFlat(x, ss)
<1>9. IsFlat(f, ss)
  BY <1>8
<1>10. FlattenSeq(ss) = f[m]
  BY DEF FlattenSeq, IsFlat, m
<1> HIDE DEF f, g
<1>11. f = [i \in 1..m |-> IF i = 1 THEN ss[i] ELSE f[i - 1] \o ss[i]]
  BY <1>9 DEF IsFlat, m
<1> DEFINE Bad == {i \in 1..m : f[i] \notin X}
<1>12. ASSUME NEW i \in 1..m PROVE i \notin Bad
  <2>1. SUFFICES ASSUME Bad # {} PROVE FALSE
    OBVIOUS
  <2>a. Bad \in SUBSET Nat
    BY <1>1
  <2>2. PICK n \in Bad : \A o \in Bad : n <= o
    <3> HIDE DEF Bad
    <3> QED BY <2>1, <2>a, LeastNat
  <2>3. n \in 1..m /\ f[n] = IF n = 1 THEN ss[n] ELSE f[n - 1] \o ss[n]
    BY <1>11
  <2>4. n # 1
    BY <1>1, <2>2, <2>3
  <2>5. n - 1 \in 1..m /\ n - 1 \notin Bad
    BY <1>1, <2>2, <2>3, <2>4
  <2>6. f[n - 1] \in X /\ ss[n] \in X /\ f[n] = f[n - 1] \o ss[n]
    BY <1>1, <2>3, <2>4, <2>5
  <2>7. f[n] \in X
    BY <2>6 DEF X
  <2> QED BY <2>2, <2>7
<1>13. \A i \in 1..m : f[i] \in X
  BY <1>12
<1>14. f \in [1..m -> X]
  BY <1>11, <1>13
<1> QED BY <1>9, <1>10, <1>14 DEF X, m

\* Two sequences without a common element, one after the other.
LEMMA ConcatLists ==
  ASSUME NEW A, NEW B, NEW s, NEW t, Lists(s, A), Lists(t, B), A \cap B = {}
  PROVE  Lists(s \o t, A \cup B)
<1> DEFINE c == s \o t
           m == Len(s)
           n == Len(t)
<1>1. /\ s \in Seq(A) /\ t \in Seq(B) /\ m \in Nat /\ n \in Nat
      /\ \A i \in 1..m : s[i] \in A
      /\ \A i \in 1..n : t[i] \in B
  BY DEF Lists
<1>2. /\ s \in Seq(A \cup B) /\ t \in Seq(A \cup B)
  BY <1>1
<1>3. c \in Seq(A \cup B) /\ Len(c) = m + n
  BY <1>2
<1>4. /\ \A i \in 1..m : c[i] = s[i]
      /\ \A i \in (m + 1)..(m + n) : c[i] = t[i - m]
  BY <1>2
<1>5. \A i \in 1..(m + n) : i \in 1..m \/ (i \in (m + 1)..(m + n) /\ i - m \in 1..n)
  BY <1>1
<1>5a. \A i \in 1..n : i + m \in (m + 1)..(m + n) /\ i + m \in 1..(m + n) /\ (i + m) - m = i
  BY <1>1
<1>5b. \A i \in 1..m : i \in 1..(m + n)
  BY <1>1
<1>6. /\ \A i, j \in 1..m : i # j => s[i] # s[j]
      /\ \A i, j \in 1..n : i # j => t[i] # t[j]
      /\ \A x \in A : \E i \in 1..m : s[i] = x
      /\ \A x \in B : \E i \in 1..n : t[i] = x
  BY DEF Lists, Distinct
<1> HIDE DEF c, m, n
<1>7. ASSUME NEW i \in 1..(m + n), NEW j \in 1..(m + n), i # j PROVE c[i] # c[j]
  <2>1. CASE i \in 1..m /\ j \in 1..m
    BY <1>4, <1>6, <1>7, <2>1
  <2>2. CASE i \in (m + 1)..(m + n) /\ j \in (m + 1)..(m + n) /\ i - m \in 1..n /\ j - m \in 1..n
    <3>1. i - m # j - m
      BY <1>1, <1>7
    <3> QED BY <1>4, <1>6, <2>2, <3>1
  <2>3. CASE i \in 1..m /\ j \in (m + 1)..(m + n) /\ j - m \in 1..n
    <3>1. c[i] \in A /\ c[j] \in B
      BY <1>1, <1>4, <2>3
    <3> QED BY <3>1
  <2>4. CASE j \in 1..m /\ i \in (m + 1)..(m + n) /\ i - m \in 1..n
    <3>1. c[j] \in A /\ c[i] \in B
      BY <1>1, <1>4, <2>4
    <3> QED BY <3>1
  <2> QED BY <1>5, <2>1, <2>2, <2>3, <2>4
<1>8. ASSUME NEW x \in A \cup B PROVE \E i \in 1..(m + n) : c[i] = x
  <2>1. CASE x \in A
    BY <1>4, <1>5b, <1>6, <2>1
  <2>2. CASE x \in B
    <3>1. PICK i \in 1..n : t[i] = x
      BY <1>6, <2>2
    <3>2. c[i + m] = t[(i + m) - m]
      BY <1>4, <1>5a
    <3> QED BY <1>5a, <3>1, <3>2
  <2> QED BY <2>1, <2>2
<1> QED BY <1>3, <1>7, <1>8 DEF Lists, Distinct, c

\* Disjoint lists, flattened.
LEMMA FlattenLists ==
  ASSUME NEW U, NEW ss \in Seq(Seq(U)), NEW P \in [1..Len(ss) -> SUBSET U],
         \A a \in 1..Len(ss) : Lists(ss[a], P[a]),
         \A a, b \in 1..Len(ss) : a # b => P[a] \cap P[b] = {}
  PROVE  Lists(FlattenSeq(ss), UNION {P[a] : a \in 1..Len(ss)})
<1> DEFINE m == Len(ss)
<1>1. m \in Nat /\ m = Len(ss)
  OBVIOUS
<1>2. CASE m = 0
  <2>1. FlattenSeq(ss) = <<>>
    BY <1>2 DEF FlattenSeq
  <2>2. UNION {P[a] : a \in 1..m} = {}
    BY <1>2
  <2>3. Lists(<<>>, {})
    BY DEF Lists, Distinct
  <2> QED BY <2>1, <2>2, <2>3
<1>3. CASE m # 0
  <2>1. PICK f \in [1..m -> Seq(U)] : IsFlat(f, ss) /\ FlattenSeq(ss) = f[m]
    BY <1>3, FlattenUnfolds
  <2>2. \A i \in 1..m : f[i] = IF i = 1 THEN ss[i] ELSE f[i - 1] \o ss[i]
    BY <2>1 DEF IsFlat
  <2> HIDE DEF m
  <2> DEFINE Part(n) == UNION {P[a] : a \in 1..n}
             Bad == {n \in 1..m : ~Lists(f[n], Part(n))}
  <2>3. Bad \in SUBSET Nat /\ \A n \in 1..m : n \in Bad <=> ~Lists(f[n], Part(n))
    BY <1>1
  <2>4. Part(1) = P[1]
    <3>1. \A a \in 1..1 : a = 1
      OBVIOUS
    <3>2. 1 \in 1..1
      OBVIOUS
    <3> QED BY <3>1, <3>2
  <2>5. ASSUME NEW n \in 1..m, n # 1
        PROVE  n - 1 \in 1..m /\ Part(n) = Part(n - 1) \cup P[n] /\ Part(n - 1) \cap P[n] = {}
    <3>1. n \in Nat /\ n - 1 \in 1..m /\ \A a \in 1..(n - 1) : a \in 1..m /\ a # n /\ a \in 1..n
      BY <1>1, <2>5
    <3>2. \A a \in 1..n : a \in 1..(n - 1) \/ a = n
      BY <3>1
    <3>3. n \in 1..n
      BY <3>1
    <3>4. Part(n) = Part(n - 1) \cup P[n]
      BY <3>1, <3>2, <3>3
    <3>5. \A a \in 1..(n - 1) : P[a] \cap P[n] = {}
      BY <1>1, <3>1
    <3> QED BY <3>1, <3>4, <3>5
  <2> HIDE DEF Bad, Part
  <2>6. Lists(f[1], Part(1))
    <3>0. 1 \in 1..m
      BY <1>1, <1>3
    <3>1. 1 \in 1..m /\ f[1] = ss[1]
      BY <2>2, <3>0
    <3>2. Lists(ss[1], P[1])
      BY <3>1 DEF m
    <3> QED BY <2>4, <3>1, <3>2
  <2>7. ASSUME Bad # {} PROVE FALSE
    <3>1. PICK n \in Bad : \A o \in Bad : n <= o
      BY <2>3, <2>7, LeastNat
    <3>2. n \in 1..m
      BY DEF Bad
    <3>3. n # 1
      BY <2>3, <2>6, <3>2
    <3>4. n - 1 \in 1..m /\ Part(n) = Part(n - 1) \cup P[n] /\ Part(n - 1) \cap P[n] = {}
      BY <2>5, <3>2, <3>3
    <3>5. n - 1 \notin Bad
      BY <3>1, <3>2
    <3>6. Lists(f[n - 1], Part(n - 1)) /\ Lists(ss[n], P[n])
      <4>1. Lists(ss[n], P[n])
        BY <3>2 DEF m
      <4> QED BY <2>3, <3>4, <3>5, <4>1
    <3>7. Lists(f[n - 1] \o ss[n], Part(n - 1) \cup P[n])
      BY <3>4, <3>6, ConcatLists
    <3>8. f[n] = f[n - 1] \o ss[n]
      BY <2>2, <3>2, <3>3
    <3> QED BY <2>3, <3>1, <3>2, <3>4, <3>7, <3>8
  <2>8. m \in 1..m
    BY <1>1, <1>3
  <2>9. Lists(f[m], Part(m))
    BY <2>3, <2>7, <2>8
  <2> QED BY <1>1, <2>1, <2>9 DEF Part
<1> QED BY <1>2, <1>3

\* The keys in ascending order, and what they are mapped to.
LEMMA AscendingLists ==
  ASSUME NEW S \in SUBSET Nat, IsFiniteSet(S)
  PROVE  Lists(Ascending(S), S)
<1>1. /\ Ascending(S) \in Seq(S)
      /\ \A i, j \in 1..Len(Ascending(S)) : i < j => Ascending(S)[i] < Ascending(S)[j]
      /\ \A x \in S : \E i \in 1..Len(Ascending(S)) : Ascending(S)[i] = x
  BY AscendingSorts
<1> DEFINE a == Ascending(S)
<1> HIDE DEF a
<1>2. a \in Seq(S) /\ Len(a) \in Nat /\ \A i \in 1..Len(a) : a[i] \in Nat
  <2>1. a \in Seq(S)
    BY <1>1 DEF a
  <2>2. Len(a) \in Nat /\ \A i \in 1..Len(a) : a[i] \in S
    BY <2>1
  <2> QED BY <2>1, <2>2
<1>3. \A i, j \in 1..Len(a) : i < j => a[i] < a[j]
  BY <1>1 DEF a
<1>4. ASSUME NEW i \in 1..Len(a), NEW j \in 1..Len(a), i # j PROVE a[i] # a[j]
  <2>1. i < j \/ j < i
    BY <1>2, <1>4
  <2>2. a[i] < a[j] \/ a[j] < a[i]
    BY <1>3, <2>1
  <2> QED BY <1>2, <2>2
<1> QED BY <1>1, <1>2, <1>4 DEF Lists, Distinct, a

\* A list whose elements are replaced one to one.
LEMMA MapLists ==
  ASSUME NEW S, NEW s, Lists(s, S), NEW V, NEW f \in [S -> V],
         \A x, y \in S : x # y => f[x] # f[y],
         \A v \in V : \E x \in S : v = f[x]
  PROVE  Lists([i \in DOMAIN s |-> f[s[i]]], V)
<1>1. s \in Seq(S) /\ Len(s) \in Nat /\ DOMAIN s = 1..Len(s) /\ \A i \in 1..Len(s) : s[i] \in S
  BY DEF Lists
<1> DEFINE n == Len(s)
           t == [i \in DOMAIN s |-> f[s[i]]]
<1>2. \A x \in S : f[x] \in V
  OBVIOUS
<1>4. t = [i \in 1..n |-> f[s[i]]]
  BY <1>1
<1>5. /\ \A i, j \in 1..n : i # j => s[i] # s[j]
      /\ \A x \in S : \E i \in 1..n : s[i] = x
      /\ \A i \in 1..n : s[i] \in S
  BY <1>1 DEF Lists, Distinct
<1>6. n \in Nat
  BY <1>1
<1> HIDE DEF n, t
<1>7. t \in Seq(V) /\ Len(t) = n /\ \A i \in 1..n : t[i] = f[s[i]]
  BY <1>2, <1>4, <1>5, <1>6
<1>8. \A i, j \in 1..n : i # j => t[i] # t[j]
  BY <1>5, <1>7
<1>9. \A v \in V : \E i \in 1..n : t[i] = v
  BY <1>5, <1>7
<1>10. Lists(t, V)
  BY <1>7, <1>8, <1>9 DEF Lists, Distinct
<1> QED BY <1>10 DEF t

-----------------------------------------------------------------------------
(* Merging.                                                                *)

\* k different values among no more than k are all of them.
LEMMA AllTaken ==
  ASSUME NEW S, NEW b \in Seq(S), NEW c \in Seq(S), Len(c) <= Len(b), Distinct(b),
         \A i \in 1..Len(b) : \E j \in 1..Len(c) : c[j] = b[i]
  PROVE  Len(c) = Len(b) /\ \A j \in 1..Len(c) : \E i \in 1..Len(b) : b[i] = c[j]
<1> DEFINE k == Len(b)
           n == Len(c)
<1>a. /\ k \in Nat /\ n \in Nat /\ n <= k
      /\ \A i \in 1..k : \E j \in 1..n : c[j] = b[i]
      /\ \A i, j \in 1..k : i # j => b[i] # b[j]
  BY DEF Distinct
<1> HIDE DEF k, n
<1> DEFINE at == [i \in 1..k |-> CHOOSE j \in 1..n : c[j] = b[i]]
<1>1. \A i \in 1..k : at[i] \in 1..n /\ c[at[i]] = b[i]
  BY <1>a
<1>2. \A i, j \in 1..k : i # j => at[i] # at[j]
  BY <1>1, <1>a
<1>0. DOMAIN at = 1..k /\ at \in [1..k -> {at[i] : i \in 1..k}]
  OBVIOUS
<1> HIDE DEF at
<1>3. IsFiniteSet(1..k) /\ Cardinality(1..k) = k
  <2>0. k \in Int /\ 1 \in Int
    BY <1>a
  <2>1. IsFiniteSet(1..k) /\ Cardinality(1..k) = IF 1 > k THEN 0 ELSE k - 1 + 1
    BY <2>0, FS_Interval
  <2> QED BY <1>a, <2>1
<1>4. IsFiniteSet(1..n) /\ Cardinality(1..n) = n
  <2>1. IsFiniteSet(1..n) /\ Cardinality(1..n) = IF 1 > n THEN 0 ELSE n - 1 + 1
    BY <1>a, FS_Interval
  <2> QED BY <1>a, <2>1
<1>5. n = k
  <2>1. SUFFICES ASSUME n < k PROVE FALSE
    BY <1>a
  <2>2. at \in [1..k -> 1..n]
    BY <1>0, <1>1
  <2>a. Cardinality(1..n) < Cardinality(1..k)
    BY <1>3, <1>4, <2>1
  <2>3. \E x, y \in 1..k : x # y /\ at[x] = at[y]
    <3> DEFINE I == 1..k
               R == 1..n
    <3>1. IsFiniteSet(I) /\ IsFiniteSet(R) /\ Cardinality(R) < Cardinality(I) /\ at \in [I -> R]
      BY <1>3, <1>4, <2>2, <2>a
    <3> HIDE DEF I, R
    <3>2. \E x, y \in I : x # y /\ at[x] = at[y]
      BY <3>1, FS_PigeonHole
    <3> QED BY <3>2 DEF I
  <2> QED BY <1>2, <2>3
<1>6. ASSUME NEW j \in 1..n, \A i \in 1..k : b[i] # c[j] PROVE FALSE
  <2>1. IsFiniteSet((1..n) \ {j}) /\ Cardinality((1..n) \ {j}) = n - 1
    BY <1>4, FS_RemoveElement
  <2>2. \A i \in 1..k : at[i] \in (1..n) \ {j}
    BY <1>1, <1>6
  <2>3. at \in [1..k -> (1..n) \ {j}]
    BY <1>0, <2>2
  <2>4. Cardinality((1..n) \ {j}) < Cardinality(1..k)
    BY <1>3, <1>5, <1>a, <2>1
  <2>5. \E x, y \in 1..k : x # y /\ at[x] = at[y]
    <3> DEFINE I == 1..k
               R == (1..n) \ {j}
    <3>1. IsFiniteSet(I) /\ IsFiniteSet(R) /\ Cardinality(R) < Cardinality(I) /\ at \in [I -> R]
      BY <1>3, <2>1, <2>3, <2>4
    <3> HIDE DEF I, R
    <3>2. \E x, y \in I : x # y /\ at[x] = at[y]
      BY <3>1, FS_PigeonHole
    <3> QED BY <3>2 DEF I
  <2> QED BY <1>2, <2>5
<1> QED BY <1>5, <1>6 DEF k, n

\* The result is in the list, or the list is full of better ones.
Covers(b, k, x) == (\E i \in 1..Len(b) : b[i] = x) \/ (Len(b) = k /\ \A i \in 1..Len(b) : Better(b[i], x))

\* A list of the best has no result twice.
LEMMA TopIsDistinct ==
  ASSUME NEW A \in SUBSET Results, NEW k, NEW b, TopOf(b, k, A)
  PROVE  Distinct(b) /\ b \in Seq(A) /\ Len(b) \in Nat /\ \A i \in 1..Len(b) : b[i] \in A
<1>1. b \in Seq(A) /\ Len(b) \in Nat /\ \A i \in 1..Len(b) : b[i] \in A
  BY DEF TopOf
<1>2. ASSUME NEW i \in 1..Len(b), NEW j \in 1..Len(b), i # j PROVE b[i] # b[j]
  <2>1. i < j \/ j < i
    BY <1>1, <1>2
  <2>2. Better(b[i], b[j]) \/ Better(b[j], b[i])
    BY <2>1 DEF TopOf
  <2>3. b[i] \in Results /\ b[j] \in Results
    BY <1>1
  <2> QED BY <2>2, <2>3, BetterOrders
<1> QED BY <1>1, <1>2 DEF Distinct

\* What a segment's list covers, the merged list covers.
LEMMA MergeCovers ==
  ASSUME NEW A \in SUBSET Results, NEW k \in Nat \ {0}, NEW c, TopOf(c, k, A),
         NEW b \in Seq(A), Distinct(b), NEW x \in Results, Covers(b, k, x)
  PROVE  Covers(c, k, x)
<1>1. /\ Len(b) \in Nat /\ Len(c) \in Nat /\ Len(c) <= k
      /\ \A i \in 1..Len(b) : b[i] \in A /\ b[i] \in Results
      /\ \A i \in 1..Len(c) : c[i] \in A /\ c[i] \in Results
  BY DEF TopOf
<1>2. \A y \in A : Covers(c, k, y)
  BY DEF TopOf, Covers
<1>3. CASE \E i \in 1..Len(b) : b[i] = x
  BY <1>1, <1>2, <1>3
<1>4. CASE ~\E i \in 1..Len(b) : b[i] = x
  <2>1. Len(b) = k /\ \A i \in 1..Len(b) : Better(b[i], x)
    BY <1>4 DEF Covers
  <2>2. CASE \A i \in 1..k : \E j \in 1..Len(c) : c[j] = b[i]
    <3>1. c \in Seq(A) /\ Len(c) <= Len(b) /\ \A i \in 1..Len(b) : \E j \in 1..Len(c) : c[j] = b[i]
      BY <1>1, <2>1, <2>2 DEF TopOf
    <3>2. Len(c) = k /\ \A j \in 1..Len(c) : \E i \in 1..k : b[i] = c[j]
      <4>1. /\ Len(c) = Len(b)
            /\ \A j \in 1..Len(c) : \E i \in 1..Len(b) : b[i] = c[j]
        BY <3>1, AllTaken
      <4> QED BY <2>1, <4>1
    <3> QED BY <2>1, <3>2 DEF Covers
  <2>3. CASE ~\A i \in 1..k : \E j \in 1..Len(c) : c[j] = b[i]
    <3>1. PICK i \in 1..k : ~\E j \in 1..Len(c) : c[j] = b[i]
      BY <2>3
    <3>2. b[i] \in A /\ b[i] \in Results /\ Better(b[i], x)
      BY <1>1, <2>1
    <3>3. Len(c) = k /\ \A j \in 1..Len(c) : Better(c[j], b[i])
      BY <1>2, <3>1, <3>2 DEF Covers
    <3>4. \A j \in 1..Len(c) : Better(c[j], x)
      BY <1>1, <3>2, <3>3, BetterOrders
    <3> QED BY <3>3, <3>4 DEF Covers
  <2> QED BY <2>2, <2>3
<1> QED BY <1>3, <1>4

\* The constants are numbers.
LEMMA ConstantFacts ==
  /\ MaxScore \in Nat \ {0} /\ TopK \in Nat \ {0} /\ NumCandidates \in Nat \ {0} /\ TopKPerGroup \in Nat \ {0}
  /\ ScalePercent \in Nat \ {0} /\ RankConstant \in Nat /\ IsFiniteSet(DocIDs) /\ DocIDs \subseteq Nat \ {0}
  BY QueryConstants

Elements(s) == {s[i] : i \in 1..Len(s)}

\* A list of results for keys of K, each at most once.
KeyedList(b, K) ==
  /\ b \in Seq([key : K, score : 1..MaxScore])
  /\ \A i, j \in 1..Len(b) : i # j => b[i].key # b[j].key

\* The types of a keyed list and its results.
LEMMA KeyedFacts ==
  ASSUME NEW K \in SUBSET Nat, NEW b, KeyedList(b, K)
  PROVE  /\ Len(b) \in Nat /\ b \in Seq(Results) /\ Lists(b, Elements(b)) /\ Distinct(b)
         /\ \A i \in 1..Len(b) : b[i] \in Results /\ b[i].key \in K /\ b[i].score \in 1..MaxScore
         /\ Elements(b) \in SUBSET Results
<1> DEFINE R == [key : K, score : 1..MaxScore]
<1>1. R \subseteq Results
  <2>1. 1..MaxScore \subseteq Nat
    BY ConstantFacts
  <2> QED BY <2>1 DEF Results
<1>2. b \in Seq(R) /\ \A i, j \in 1..Len(b) : i # j => b[i].key # b[j].key
  BY DEF KeyedList
<1>3. \A r \in R : r.key \in K /\ r.score \in 1..MaxScore
  OBVIOUS
<1> HIDE DEF R
<1>4. Len(b) \in Nat /\ \A i \in 1..Len(b) : b[i] \in R
  BY <1>2
<1>5. Distinct(b)
  BY <1>2 DEF Distinct
<1>6. b \in Seq(Elements(b)) /\ \A x \in Elements(b) : \E i \in 1..Len(b) : b[i] = x
  BY <1>2, <1>4 DEF Elements
<1>7. \A i \in 1..Len(b) : b[i] \in Results /\ b[i].key \in K /\ b[i].score \in 1..MaxScore
  BY <1>1, <1>3, <1>4
<1>8. b \in Seq(Results)
  BY <1>1, <1>2
<1>9. Elements(b) \in SUBSET Results
  BY <1>7 DEF Elements
<1> QED BY <1>4, <1>5, <1>6, <1>7, <1>8, <1>9 DEF Lists

\* One list per segment, for keys that no other segment has.
KeyedParts(parts, n, K) ==
  /\ parts = [s \in 1..n |-> parts[s]] /\ K \in [1..n -> SUBSET Nat]
  /\ \A s, t \in 1..n : s # t => K[s] \cap K[t] = {}
  /\ \A s \in 1..n : KeyedList(parts[s], K[s])

\* m is the merge of the lists.
KeyedMerge(m, k, parts, n, K) ==
  /\ TopOf(m, k, UNION {Elements(parts[s]) : s \in 1..n})
  /\ UNION {Elements(parts[s]) : s \in 1..n} \in SUBSET Results
  /\ KeyedList(m, UNION {K[s] : s \in 1..n})
  /\ \A i \in 1..Len(m) : \E s \in 1..n : \E j \in 1..Len(parts[s]) : m[i] = parts[s][j]

\* The partial results are a sequence of sequences.
LEMMA PartsFacts ==
  ASSUME NEW n \in Nat, NEW parts, NEW K, KeyedParts(parts, n, K)
  PROVE  parts \in Seq(Seq(Results)) /\ n = Len(parts)
<1> DEFINE X == Seq(Results)
<1>1. \A s \in 1..n : parts[s] \in X
  BY KeyedFacts DEF KeyedParts
<1> HIDE DEF X
<1>2. parts \in Seq(X) /\ Len(parts) = n
  BY <1>1 DEF KeyedParts
<1> QED BY <1>2 DEF X

\* MergeSearchResults over segments that share no document.
LEMMA MergeKeyed ==
  ASSUME NEW k \in Nat \ {0}, NEW n \in Nat, NEW parts, NEW K, KeyedParts(parts, n, K)
  PROVE  KeyedMerge(MergeSearchResults(k, parts), k, parts, n, K)
<1> DEFINE m == MergeSearchResults(k, parts)
           P == [s \in 1..n |-> Elements(parts[s])]
           U == UNION {P[s] : s \in 1..n}
<1>2. parts \in Seq(Seq(Results)) /\ Len(parts) = n
  BY PartsFacts
<1>a. /\ K \in [1..n -> SUBSET Nat] /\ \A s, t \in 1..n : s # t => K[s] \cap K[t] = {}
      /\ \A s \in 1..n : KeyedList(parts[s], K[s])
  BY DEF KeyedParts
<1>1. \A s \in 1..n :
        /\ parts[s] \in Seq(Results) /\ Lists(parts[s], P[s]) /\ P[s] \in SUBSET Results
        /\ \A i \in 1..Len(parts[s]) : parts[s][i].key \in K[s] /\ parts[s][i].score \in 1..MaxScore
  BY <1>a, KeyedFacts
<1>3. P \in [1..n -> SUBSET Results]
  BY <1>1
<1>4. \A s \in 1..n : \A x \in P[s] : x.key \in K[s] /\ x.score \in 1..MaxScore /\ x \in Results
  <2>1. SUFFICES ASSUME NEW s \in 1..n, NEW x \in P[s]
                 PROVE  x.key \in K[s] /\ x.score \in 1..MaxScore /\ x \in Results
    OBVIOUS
  <2>2. PICK i \in 1..Len(parts[s]) : x = parts[s][i]
    BY DEF Elements
  <2>3. x \in Results
    BY <1>1
  <2> QED BY <1>1, <2>2, <2>3
<1>5. \A s, t \in 1..n : s # t => P[s] \cap P[t] = {}
  BY <1>4, <1>a
<1>6. \A s \in 1..n : \A x \in P[s] : \E j \in 1..Len(parts[s]) : x = parts[s][j]
  BY DEF Elements
<1>7. U = UNION {Elements(parts[s]) : s \in 1..n}
  OBVIOUS
<1> HIDE DEF P
<1>8. Lists(FlattenSeq(parts), U)
  <2>1. P \in [1..Len(parts) -> SUBSET Results]
    BY <1>2, <1>3
  <2>2. \A a \in 1..Len(parts) : Lists(parts[a], P[a])
    BY <1>1, <1>2
  <2>3. \A a, b \in 1..Len(parts) : a # b => P[a] \cap P[b] = {}
    BY <1>2, <1>5
  <2>4. Lists(FlattenSeq(parts), UNION {P[a] : a \in 1..Len(parts)})
    <3> HIDE DEF U, m
    <3> QED BY <1>2, <2>1, <2>2, <2>3, FlattenLists
  <2> QED BY <1>2, <2>4
<1>9. U \in SUBSET Results
  BY <1>3
<1> HIDE DEF U
<1>10. TopOf(m, k, U)
  BY <1>8, <1>9, BestIsTop DEF MergeSearchResults
<1> HIDE DEF m
<1>11. m \in Seq(U) /\ Len(m) \in Nat /\ Distinct(m) /\ \A i \in 1..Len(m) : m[i] \in U
  BY <1>9, <1>10, TopIsDistinct
<1>12. \A x \in U : \E s \in 1..n : x \in P[s]
  BY DEF U
<1>13. \A i \in 1..Len(m) : \E s \in 1..n : \E j \in 1..Len(parts[s]) : m[i] = parts[s][j]
  <2>1. SUFFICES ASSUME NEW i \in 1..Len(m) PROVE \E s \in 1..n : \E j \in 1..Len(parts[s]) : m[i] = parts[s][j]
    OBVIOUS
  <2>2. PICK s \in 1..n : m[i] \in P[s]
    BY <1>11, <1>12
  <2> QED BY <1>6, <2>2
<1> DEFINE KK == UNION {K[s] : s \in 1..n}
           R == [key : KK, score : 1..MaxScore]
<1>14. U \subseteq R
  <2>1. SUFFICES ASSUME NEW x \in U PROVE x \in R
    OBVIOUS
  <2>2. PICK s \in 1..n : x \in P[s]
    BY <1>12
  <2>3. x.key \in KK /\ x.score \in 1..MaxScore /\ x \in Results
    BY <1>4, <2>2
  <2>4. x = [key |-> x.key, score |-> x.score]
    BY <2>3 DEF Results
  <2> HIDE DEF KK
  <2> QED BY <2>3, <2>4
<1>15. m \in Seq(R)
  <2> HIDE DEF R
  <2>1. \A i \in 1..Len(m) : m[i] \in R
    BY <1>11, <1>14
  <2> QED BY <1>11, <2>1
<1>16. ASSUME NEW i \in 1..Len(m), NEW j \in 1..Len(m), i # j PROVE m[i].key # m[j].key
  <2>1. m[i] # m[j]
    BY <1>11, <1>16 DEF Distinct
  <2>2. PICK s \in 1..n : m[i] \in P[s]
    BY <1>11, <1>12
  <2>3. PICK t \in 1..n : m[j] \in P[t]
    BY <1>11, <1>12
  <2>4. CASE s # t
    BY <1>4, <1>a, <2>2, <2>3, <2>4
  <2>5. CASE s = t
    <3>1. PICK a \in 1..Len(parts[s]) : m[i] = parts[s][a]
      BY <1>6, <2>2
    <3>2. PICK b \in 1..Len(parts[s]) : m[j] = parts[s][b]
      BY <1>6, <2>3, <2>5
    <3>3. a # b
      BY <2>1, <3>1, <3>2
    <3>4. parts[s][a].key # parts[s][b].key
      BY <1>a, <3>3 DEF KeyedList
    <3> QED BY <3>1, <3>2, <3>4
  <2> QED BY <2>4, <2>5
<1>17. KeyedList(m, KK)
  <2> HIDE DEF KK
  <2> QED BY <1>15, <1>16 DEF KeyedList
<1> QED BY <1>7, <1>9, <1>10, <1>13, <1>17 DEF m, KeyedMerge

-----------------------------------------------------------------------------
(* What a segment offers to a query.                                       *)

CaseValid ==
  ValidSnapshot(snapshot) /\ ValidRequest(request) /\ (request.op = "multi" => Len(snapshot.score) = 2)
BranchValid == branch = 1 \/ (branch = 2 /\ request.op = "multi")

\* The accepted documents of a segment that have a vector.
Own(s) == (snapshot.documents[s] \cap Accepted) \ snapshot.null

\* What a valid snapshot says of its segments and visible documents.
LEMMA SnapshotFacts ==
  ASSUME CaseValid
  PROVE  /\ Len(snapshot.documents) \in Nat /\ Segments = 1..Len(snapshot.documents)
         /\ \A s \in Segments : snapshot.documents[s] \subseteq DocIDs /\ snapshot.documents[s] \subseteq Documents
         /\ \A s, t \in Segments : s # t => snapshot.documents[s] \cap snapshot.documents[t] = {}
         /\ Documents \subseteq DocIDs /\ Live \subseteq Documents /\ Accepted \subseteq Live
         /\ (Unrestricted => Accepted = Documents)
<1>1. snapshot.documents \in Seq(SUBSET DocIDs)
  BY DEF CaseValid, ValidSnapshot
<1> DEFINE d == snapshot.documents
<1>2. Len(d) \in Nat /\ DOMAIN d = 1..Len(d) /\ \A s \in 1..Len(d) : d[s] \in SUBSET DocIDs
  <2> HIDE DEF d
  <2>1. d \in Seq(SUBSET DocIDs)
    BY <1>1 DEF d
  <2> QED BY <2>1
<1>3. Segments = 1..Len(d)
  BY <1>2 DEF Segments
<1>4. \A s \in Segments : d[s] \subseteq DocIDs
  BY <1>2, <1>3
<1>5. \A s, t \in Segments : s # t => d[s] \cap d[t] = {}
  BY DEF CaseValid, ValidSnapshot, Segments
<1>6. Documents \subseteq DocIDs /\ \A s \in Segments : d[s] \subseteq Documents
  BY <1>4 DEF Documents
<1>7. Live \subseteq Documents /\ Accepted \subseteq Live
  BY DEF Live, Accepted
<1>8. Unrestricted => Accepted = Documents
  BY DEF Unrestricted, Live, Accepted
<1> QED BY <1>2, <1>3, <1>4, <1>5, <1>6, <1>7, <1>8

\* Documents of a segment belong to no other one.
LEMMA OwnFacts ==
  ASSUME CaseValid, NEW s \in Segments
  PROVE  /\ Own(s) \subseteq DocIDs /\ Own(s) \subseteq Nat /\ IsFiniteSet(Own(s)) /\ Own(s) \subseteq Accepted
         /\ Own(s) \subseteq snapshot.documents[s] /\ Own(s) \cap snapshot.null = {}
         /\ \A t \in Segments : t # s => Own(s) \cap Own(t) = {} /\ Own(s) \cap snapshot.documents[t] = {}
<1>1. Own(s) \subseteq DocIDs /\ Own(s) \subseteq Accepted /\ Own(s) \subseteq snapshot.documents[s] /\ Own(s) \cap snapshot.null = {}
  BY SnapshotFacts DEF Own
<1>2. IsFiniteSet(Own(s)) /\ Own(s) \subseteq Nat
  BY <1>1, ConstantFacts, FS_Subset
<1>3. \A t \in Segments : t # s => snapshot.documents[s] \cap snapshot.documents[t] = {}
  BY SnapshotFacts
<1>4. \A t \in Segments : Own(t) \subseteq snapshot.documents[t]
  BY DEF Own
<1> QED BY <1>1, <1>2, <1>3, <1>4

\* The bound of a filter admits exactly the segment's own documents, whatever
\* has been written since.
LEMMA BoundedIsOwn ==
  ASSUME CaseValid, NEW s \in Segments, NEW key \in (snapshot.documents[s] \ snapshot.null) \cup LaterIDs
  PROVE  Bounded(s, key) <=> key \in Own(s)
<1> DEFINE D == snapshot.documents[s]
<1>1. D \subseteq DocIDs /\ D \subseteq Documents
  BY SnapshotFacts
<1>2. IsFiniteSet(D) /\ D \in SUBSET Nat
  BY <1>1, ConstantFacts, FS_Subset
<1>3. \A d \in DocIDs, l \in LaterIDs : d < l /\ d \in Nat /\ l \in Nat
  BY QueryConstants
<1>4. ASSUME key \in Own(s) PROVE Bounded(s, key)
  <2>1. key \in D /\ key \in Accepted
    BY <1>4 DEF Own
  <2> HIDE DEF D
  <2>2. Min(D) \in D /\ Max(D) \in D /\ Min(D) <= key /\ key <= Max(D)
    BY <1>2, <2>1, MinOfNats, MaxOfNats
  <2>3. key \in Min(D)..Max(D)
    BY <1>2, <2>1, <2>2
  <2> QED BY <2>1, <2>3 DEF Bounded, D
<1>5. ASSUME Bounded(s, key) PROVE key \in Own(s)
  <2>1. D # {} /\ key \in Min(D)..Max(D) /\ (Unrestricted \/ key \in Accepted)
    BY <1>5 DEF Bounded
  <2> HIDE DEF D
  <2>2. Max(D) \in D
    BY <1>2, <2>1, MaxOfNats
  <2>3. Min(D) \in D
    BY <1>2, <2>1, MinOfNats
  <2>4. key <= Max(D) /\ Max(D) \in DocIDs
    <3>1. Max(D) \in Nat /\ Min(D) \in Nat /\ Max(D) \in DocIDs
      BY <1>1, <1>2, <2>2, <2>3
    <3>2. key \in Min(D)..Max(D)
      BY <2>1
    <3> QED BY <3>1, <3>2
  <2>5. key \notin LaterIDs
    BY <1>3, <2>4
  <2>6. key \in D /\ key \notin snapshot.null
    BY <2>5 DEF D
  <2>7. key \in Accepted
    BY <1>1, <2>1, <2>6, SnapshotFacts
  <2> QED BY <2>6, <2>7 DEF Own, D
<1> QED BY <1>4, <1>5

\* Scores are numbers up to MaxScore.
LEMMA ScoreFacts ==
  ASSUME CaseValid, BranchValid, NEW s, NEW key \in DocIDs
  PROVE  /\ Exact(key) \in 1..MaxScore /\ Score(s, key) \in 1..MaxScore /\ Truth(key) \in 1..MaxScore
         /\ (branch = 1 => Exact(key) = Truth(key)) /\ (~Codes(s) => Score(s, key) = Exact(key))
<1> DEFINE sc == snapshot.score
<1>1. sc \in Seq([DocIDs \cup LaterIDs -> 1..MaxScore]) /\ sc # <<>>
  BY DEF CaseValid, ValidSnapshot
<1>2. request.op = "multi" => Len(sc) = 2
  BY DEF CaseValid
<1>3. branch = 1 \/ (branch = 2 /\ request.op = "multi")
  BY DEF BranchValid
<1>4. Exact(key) = sc[branch][key] /\ Truth(key) = sc[1][key]
  BY DEF Exact, Truth
<1> HIDE DEF sc
<1> DEFINE F == [DocIDs \cup LaterIDs -> 1..MaxScore]
<1>5. Len(sc) \in Nat /\ Len(sc) # 0 /\ \A b \in 1..Len(sc) : sc[b] \in F
  <2> HIDE DEF F
  <2>1. sc \in Seq(F) /\ sc # <<>>
    BY <1>1 DEF F
  <2> QED BY <2>1
<1>6. 1 \in 1..Len(sc) /\ branch \in 1..Len(sc)
  <2> DEFINE n == Len(sc)
  <2>1. n \in Nat /\ n # 0 /\ (request.op = "multi" => n = 2)
    BY <1>2, <1>5
  <2> HIDE DEF n
  <2>2. 1 \in 1..n
    BY <2>1
  <2>3. branch \in 1..n
    BY <1>3, <2>1
  <2> QED BY <2>2, <2>3 DEF n
<1>7. sc[1][key] \in 1..MaxScore /\ sc[branch][key] \in 1..MaxScore
  BY <1>5, <1>6
<1>8. Exact(key) \in 1..MaxScore
  BY <1>4, <1>7
<1>9. Misjudged(key) \in 1..MaxScore
  BY <1>8, ConstantFacts DEF Misjudged
<1> QED BY <1>4, <1>7, <1>8, <1>9 DEF Score

\* Results for the rows of a segment.
Scored(s, rows) == {Result(key, Score(s, key)) : key \in rows}

\* The fields of a result.
LEMMA ResultFacts ==
  ASSUME NEW key, NEW score
  PROVE  Result(key, score).key = key /\ Result(key, score).score = score
  BY DEF Result

\* A scan lists the rows with their scores.
LEMMA ScanLists ==
  ASSUME CaseValid, BranchValid, NEW s, NEW rows \in SUBSET DocIDs
  PROVE  /\ Lists(Scan(s, rows), Scored(s, rows))
         /\ Scored(s, rows) \subseteq [key : rows, score : 1..MaxScore]
         /\ Scored(s, rows) \in SUBSET Results
         /\ \A r \in Scored(s, rows) : r = Result(r.key, Score(s, r.key))
<1>1. rows \subseteq Nat /\ IsFiniteSet(rows)
  BY ConstantFacts, FS_Subset
<1> DEFINE V == Scored(s, rows)
           f == [key \in rows |-> Result(key, Score(s, key))]
           keys == Ascending(rows)
<1>2. Lists(keys, rows)
  BY <1>1, AscendingLists
<1>3. \A key \in rows : f[key] = Result(key, Score(s, key)) /\ f[key] \in V
  BY DEF Scored
<1>4. f \in [rows -> V]
  BY <1>3
<1>5. \A x, y \in rows : x # y => f[x] # f[y]
  BY <1>3, ResultFacts
<1>6. \A v \in V : \E x \in rows : v = f[x]
  BY <1>3 DEF Scored
<1>7. Scan(s, rows) = [i \in DOMAIN keys |-> f[keys[i]]]
  <2>1. keys \in Seq(rows)
    BY <1>2 DEF Lists
  <2>2. \A i \in DOMAIN keys : keys[i] \in rows
    BY <2>1
  <2>3. \A i \in DOMAIN keys : f[keys[i]] = Result(keys[i], Score(s, keys[i]))
    BY <1>3, <2>2
  <2> HIDE DEF f
  <2> QED BY <2>3 DEF Scan
<1> HIDE DEF f, keys
<1>8. Lists(Scan(s, rows), V)
  <2> HIDE DEF V
  <2> QED BY <1>2, <1>4, <1>5, <1>6, <1>7, MapLists
<1>9. ASSUME NEW r \in V PROVE r \in [key : rows, score : 1..MaxScore] /\ r \in Results /\ r = Result(r.key, Score(s, r.key))
  <2>1. PICK key \in rows : r = Result(key, Score(s, key))
    BY DEF Scored
  <2>2. r.key = key
    BY <2>1, ResultFacts
  <2>3. Score(s, key) \in 1..MaxScore /\ key \in Nat
    BY <1>1, ScoreFacts
  <2> QED BY <2>1, <2>2, <2>3, ConstantFacts DEF Result, Results
<1> QED BY <1>8, <1>9

\* A list of the best of T, where every key has one result.
LEMMA TopKeyed ==
  ASSUME NEW K \in SUBSET Nat, NEW T \in SUBSET Results, T \subseteq [key : K, score : 1..MaxScore],
         \A r, q \in T : r.key = q.key => r = q, NEW k, NEW b, TopOf(b, k, T)
  PROVE  KeyedList(b, K) /\ \A i \in 1..Len(b) : b[i] \in T
<1>1. Distinct(b) /\ b \in Seq(T) /\ Len(b) \in Nat /\ \A i \in 1..Len(b) : b[i] \in T
  BY TopIsDistinct
<1> DEFINE R == [key : K, score : 1..MaxScore]
<1>2. T \subseteq R
  OBVIOUS
<1> HIDE DEF R
<1>3. b \in Seq(R)
  BY <1>1, <1>2
<1>4. \A i, j \in 1..Len(b) : i # j => b[i].key # b[j].key
  BY <1>1 DEF Distinct
<1> QED BY <1>1, <1>3, <1>4 DEF KeyedList, R

\* The limits of a search are positive.
LEMMA LimitFacts ==
  Limit \in Nat \ {0} /\ CandidateCount(Limit) \in Nat \ {0}
<1>1. Limit \in Nat \ {0}
  BY ConstantFacts DEF Limit
<1> DEFINE x == (Limit * ScalePercent) \div 100
<1>2. x \in Nat
  BY <1>1, ConstantFacts
<1> HIDE DEF x
<1>3. {1, x} \in SUBSET Nat /\ {1, x} # {} /\ 1 \in {1, x}
  BY <1>2
<1>4. IsFiniteSet({1, x})
  <2>1. IsFiniteSet({1}) /\ {1} \cup {x} = {1, x}
    BY FS_Singleton
  <2>2. IsFiniteSet({1} \cup {x})
    BY <2>1, FS_AddElement
  <2> QED BY <2>1, <2>2
<1>5. Max({1, x}) \in {1, x} /\ \A n \in {1, x} : n <= Max({1, x})
  BY <1>3, <1>4, MaxOfNats
<1>6. CandidateCount(Limit) = Max({1, x})
  BY DEF CandidateCount, x
<1> QED BY <1>1, <1>2, <1>5, <1>6

\* The partial result of a vector search.
SoundBatch(s, b) ==
  /\ KeyedList(b, Own(s))
  /\ \A i \in 1..Len(b) : WithinRadius(b[i].score) /\ (Trusted(s) => b[i].score = Truth(b[i].key))
CompleteBatch(s, b) ==
  SearchedExactly(s, Limit) =>
    \A key \in Own(s) : WithinRadius(Truth(key)) => Covers(b, Limit, Result(key, Truth(key)))
VectorBatch(s, b) == SoundBatch(s, b) /\ CompleteBatch(s, b)

\* The candidates of a refined search.
CandidateBatch(s, b) ==
  /\ Refined(s) /\ KeyedList(b, Own(s))
  /\ ~Codes(s) => \A i \in 1..Len(b) : b[i].score = Truth(b[i].key)
  /\ SearchedExactly(s, Limit) =>
       \A key \in Own(s) : Covers(b, CandidateCount(Limit), Result(key, Truth(key)))

\* A segment's index holds its documents, and those written since.
Holding(s, st) ==
  /\ snapshot.documents[s] \ snapshot.null \subseteq st
  /\ st \subseteq (snapshot.documents[s] \ snapshot.null) \cup LaterIDs

\* The filter of a search admits exactly the visited documents of the snapshot.
LEMMA RowsOwn ==
  ASSUME CaseValid, NEW s \in Segments, NEW st, Holding(s, st), NEW visited \in SUBSET st
  PROVE  Rows(s, visited) = visited \cap Own(s) /\ (visited = st => Rows(s, visited) = Own(s))
<1>1. \A key \in visited : Bounded(s, key) <=> key \in Own(s)
  BY BoundedIsOwn DEF Holding
<1>2. Rows(s, visited) = visited \cap Own(s)
  BY <1>1 DEF Rows
<1>3. Own(s) \subseteq st
  BY DEF Own, Holding
<1> QED BY <1>2, <1>3

\* searchVectorSnapshotResolved without a refiner.
LEMMA SearchFindsResults ==
  ASSUME CaseValid, branch = 1, NEW s \in Segments, NEW st, Holding(s, st), NEW visited \in SUBSET st,
         Scanned(s) => visited = st, ~Refined(s)
  PROVE  VectorBatch(s, BaseSearch(s, visited))
<1> DEFINE rows == {key \in Rows(s, visited) : WithinRadius(Score(s, key))}
           T == Scored(s, rows)
           b == BaseSearch(s, visited)
<1>0. BranchValid
  BY DEF BranchValid
<1>1. Rows(s, visited) = visited \cap Own(s) /\ (visited = st => Rows(s, visited) = Own(s))
  BY RowsOwn
<1>2. Own(s) \subseteq DocIDs /\ Own(s) \in SUBSET Nat
  BY OwnFacts
<1>3. rows \subseteq Own(s) /\ rows \in SUBSET DocIDs /\ \A key \in rows : WithinRadius(Score(s, key))
  BY <1>1, <1>2
<1>4. ASSUME Scanned(s), NEW key \in Own(s), WithinRadius(Score(s, key)) PROVE key \in rows
  BY <1>1, <1>4
<1>5. b = Best(Limit, Scan(s, rows))
  BY DEF BaseSearch
<1> HIDE DEF rows, b
<1>6. /\ Lists(Scan(s, rows), T) /\ T \subseteq [key : rows, score : 1..MaxScore] /\ T \in SUBSET Results
      /\ \A r \in T : r = Result(r.key, Score(s, r.key))
  BY <1>0, <1>3, ScanLists
<1>7. \A key \in rows : Result(key, Score(s, key)) \in T
  BY DEF Scored
<1> HIDE DEF T
<1>8. TopOf(b, Limit, T)
  BY <1>5, <1>6, LimitFacts, BestIsTop
<1>9. T \subseteq [key : Own(s), score : 1..MaxScore]
  BY <1>3, <1>6
<1>10. KeyedList(b, Own(s)) /\ \A i \in 1..Len(b) : b[i] \in T
  BY <1>2, <1>6, <1>8, <1>9, TopKeyed
<1>11. SoundBatch(s, b)
  <2>1. SUFFICES ASSUME NEW i \in 1..Len(b)
                 PROVE  WithinRadius(b[i].score) /\ (Trusted(s) => b[i].score = Truth(b[i].key))
    BY <1>10 DEF SoundBatch
  <2>2. b[i] = Result(b[i].key, Score(s, b[i].key)) /\ b[i].key \in rows
    BY <1>6, <1>10
  <2>3. b[i].score = Score(s, b[i].key)
    BY <2>2, ResultFacts
  <2>4. b[i].key \in DocIDs
    BY <1>3, <2>2
  <2>5. ~Codes(s) => Score(s, b[i].key) = Truth(b[i].key)
    BY <1>0, <2>4, ScoreFacts
  <2> QED BY <1>3, <2>2, <2>3, <2>5 DEF Trusted
<1>12. CompleteBatch(s, b)
  <2>1. SUFFICES ASSUME SearchedExactly(s, Limit), NEW key \in Own(s), WithinRadius(Truth(key))
                 PROVE  Covers(b, Limit, Result(key, Truth(key)))
    BY DEF CompleteBatch
  <2>2. Scanned(s) /\ Score(s, key) = Truth(key)
    BY <1>0, <1>2, <2>1, ScoreFacts DEF SearchedExactly
  <2>3. Result(key, Truth(key)) \in T
    BY <1>4, <1>7, <2>1, <2>2
  <2> QED BY <1>8, <2>3 DEF TopOf, Covers
<1> QED BY <1>11, <1>12 DEF VectorBatch, b

\* The base search of a refined search.
LEMMA SearchFindsCandidates ==
  ASSUME CaseValid, branch = 1, NEW s \in Segments, NEW st, Holding(s, st), NEW visited \in SUBSET st,
         Scanned(s) => visited = st, Refined(s)
  PROVE  CandidateBatch(s, BaseSearch(s, visited))
<1> DEFINE rows == Rows(s, visited)
           T == Scored(s, rows)
           b == BaseSearch(s, visited)
           C == CandidateCount(Limit)
<1>0. BranchValid
  BY DEF BranchValid
<1>1. Rows(s, visited) = visited \cap Own(s) /\ (visited = st => Rows(s, visited) = Own(s))
  BY RowsOwn
<1>2. Own(s) \subseteq DocIDs /\ Own(s) \in SUBSET Nat
  BY OwnFacts
<1>3. rows \subseteq Own(s) /\ rows \in SUBSET DocIDs
  BY <1>1, <1>2
<1>5. b = Best(C, Scan(s, rows))
  BY DEF BaseSearch
<1> HIDE DEF rows, b
<1>6. /\ Lists(Scan(s, rows), T) /\ T \subseteq [key : rows, score : 1..MaxScore] /\ T \in SUBSET Results
      /\ \A r \in T : r = Result(r.key, Score(s, r.key))
  BY <1>0, <1>3, ScanLists
<1>7. \A key \in rows : Result(key, Score(s, key)) \in T
  BY DEF Scored
<1>a. C \in Nat \ {0}
  BY LimitFacts
<1> HIDE DEF T, C
<1>8. TopOf(b, C, T)
  BY <1>5, <1>6, <1>a, BestIsTop
<1>9. T \subseteq [key : Own(s), score : 1..MaxScore]
  BY <1>3, <1>6
<1>10. KeyedList(b, Own(s)) /\ \A i \in 1..Len(b) : b[i] \in T
  BY <1>2, <1>6, <1>8, <1>9, TopKeyed
<1>11. ASSUME ~Codes(s), NEW i \in 1..Len(b) PROVE b[i].score = Truth(b[i].key)
  <2>1. b[i] = Result(b[i].key, Score(s, b[i].key)) /\ b[i].key \in rows
    BY <1>6, <1>10
  <2>2. b[i].score = Score(s, b[i].key) /\ b[i].key \in DocIDs
    BY <1>3, <2>1, ResultFacts
  <2> QED BY <1>0, <1>11, <2>2, ScoreFacts
<1>12. ASSUME SearchedExactly(s, Limit), NEW key \in Own(s) PROVE Covers(b, C, Result(key, Truth(key)))
  <2>1. Scanned(s) /\ Score(s, key) = Truth(key)
    BY <1>0, <1>2, <1>12, ScoreFacts DEF SearchedExactly
  <2>2. key \in rows
    BY <1>1, <2>1 DEF rows
  <2>3. Result(key, Truth(key)) \in T
    BY <1>7, <2>1, <2>2
  <2> QED BY <1>8, <2>3 DEF TopOf, Covers
<1> QED BY <1>10, <1>11, <1>12 DEF CandidateBatch, b, C

\* The order of two results bounds their scores.
LEMMA BetterScore ==
  ASSUME NEW r \in Results, NEW q \in Results, Better(r, q)
  PROVE  r.score <= q.score
  BY DEF Better, Results

\* Refine turns the candidates into exact results.
LEMMA RefineFindsResults ==
  ASSUME CaseValid, branch = 1, NEW s \in Segments, NEW found, CandidateBatch(s, found)
  PROVE  VectorBatch(s, RefineCandidates(s, found))
<1> DEFINE I == {i \in DOMAIN found : Bounded(s, found[i].key) /\ WithinRadius(Exact(found[i].key))}
           f == [i \in I |-> Result(found[i].key, Exact(found[i].key))]
           T == {Result(found[i].key, Exact(found[i].key)) : i \in I}
           kept == Ascending(I)
           b == RefineCandidates(s, found)
<1>0. BranchValid
  BY DEF BranchValid
<1>1. Own(s) \subseteq DocIDs /\ Own(s) \in SUBSET Nat /\ Own(s) \subseteq snapshot.documents[s] /\ Own(s) \cap snapshot.null = {}
  BY OwnFacts
<1>2. KeyedList(found, Own(s)) /\ Refined(s)
  BY DEF CandidateBatch
<1>3. /\ Len(found) \in Nat /\ found \in Seq(Results) /\ Distinct(found)
      /\ \A i \in 1..Len(found) : found[i] \in Results /\ found[i].key \in Own(s)
  BY <1>1, <1>2, KeyedFacts
<1>4. DOMAIN found = 1..Len(found)
  BY <1>3
<1>5. \A i \in 1..Len(found) : Bounded(s, found[i].key)
  BY <1>1, <1>3, BoundedIsOwn
<1>6. \A i \in 1..Len(found) :
        /\ found[i].key \in DocIDs /\ found[i].key \in Nat
        /\ Exact(found[i].key) \in 1..MaxScore /\ Exact(found[i].key) = Truth(found[i].key)
  BY <1>0, <1>1, <1>3, ScoreFacts
<1>7. I \in SUBSET Nat /\ I \subseteq 1..Len(found) /\ \A i \in 1..Len(found) : i \in I <=> WithinRadius(Exact(found[i].key))
  BY <1>4, <1>5
<1>8. IsFiniteSet(I)
  <2>1. IsFiniteSet(1..Len(found))
    BY <1>3, FS_Interval
  <2> QED BY <1>7, <2>1, FS_Subset
<1>9. b = Best(Limit, [i \in DOMAIN kept |-> Result(found[kept[i]].key, Exact(found[kept[i]].key))])
  BY DEF RefineCandidates
<1> HIDE DEF I, b
<1>10. Lists(kept, I)
  BY <1>7, <1>8, AscendingLists
<1>11. \A i \in I : f[i] = Result(found[i].key, Exact(found[i].key)) /\ f[i] \in T
  OBVIOUS
<1>12. f \in [I -> T]
  BY <1>11
<1>13. \A i, j \in I : i # j => found[i].key # found[j].key
  BY <1>2, <1>7 DEF KeyedList
<1>14. \A i, j \in I : i # j => f[i] # f[j]
  BY <1>11, <1>13, ResultFacts
<1>15. \A v \in T : \E i \in I : v = f[i]
  BY <1>11
<1>16. [i \in DOMAIN kept |-> Result(found[kept[i]].key, Exact(found[kept[i]].key))] = [i \in DOMAIN kept |-> f[kept[i]]]
  <2>1. kept \in Seq(I)
    BY <1>10 DEF Lists
  <2> HIDE DEF kept
  <2>2. \A i \in DOMAIN kept : kept[i] \in I
    BY <2>1
  <2>3. \A i \in DOMAIN kept : f[kept[i]] = Result(found[kept[i]].key, Exact(found[kept[i]].key))
    BY <1>11, <2>2
  <2> HIDE DEF f
  <2> QED BY <2>3
<1>17. ASSUME NEW r \in T
       PROVE  /\ r \in Results /\ r \in [key : Own(s), score : 1..MaxScore] /\ r.score = Truth(r.key)
              /\ WithinRadius(r.score) /\ \E i \in I : r.key = found[i].key
  <2>1. PICK i \in I : r = Result(found[i].key, Exact(found[i].key))
    OBVIOUS
  <2>2. r.key = found[i].key /\ r.score = Exact(found[i].key)
    BY <2>1, ResultFacts
  <2>3. i \in 1..Len(found) /\ WithinRadius(Exact(found[i].key))
    BY <1>7
  <2>4. /\ found[i].key \in Own(s) /\ found[i].key \in Nat
        /\ Exact(found[i].key) \in 1..MaxScore /\ Exact(found[i].key) = Truth(found[i].key)
    BY <1>3, <1>6, <2>3
  <2>5. r \in [key : Own(s), score : 1..MaxScore] /\ r \in Results
    BY <2>1, <2>4, ConstantFacts DEF Result, Results
  <2> QED BY <2>2, <2>3, <2>4, <2>5
<1>18. \A r, q \in T : r.key = q.key => r = q
  BY ResultFacts
<1> HIDE DEF T, f, kept
<1>19. Lists([i \in DOMAIN kept |-> f[kept[i]]], T)
  BY <1>10, <1>12, <1>14, <1>15, MapLists
<1>20. T \in SUBSET Results /\ T \subseteq [key : Own(s), score : 1..MaxScore]
  BY <1>17
<1>21. TopOf(b, Limit, T)
  BY <1>9, <1>16, <1>19, <1>20, LimitFacts, BestIsTop
<1>22. KeyedList(b, Own(s)) /\ \A i \in 1..Len(b) : b[i] \in T
  BY <1>1, <1>18, <1>20, <1>21, TopKeyed
<1>23. SoundBatch(s, b)
  BY <1>17, <1>22 DEF SoundBatch
<1>24. ASSUME SearchedExactly(s, Limit), NEW key \in Own(s), WithinRadius(Truth(key))
       PROVE  Covers(b, Limit, Result(key, Truth(key)))
  <2> DEFINE x == Result(key, Truth(key))
             C == CandidateCount(Limit)
  <2>1. Covers(found, C, x) /\ ~Codes(s) /\ C >= Limit
    BY <1>2, <1>24 DEF CandidateBatch, SearchedExactly
  <2>2. \A i \in 1..Len(found) : found[i].score = Truth(found[i].key)
    BY <2>1 DEF CandidateBatch
  <2>3. key \in Nat /\ Truth(key) \in 1..MaxScore
    BY <1>0, <1>1, ScoreFacts
  <2>4. x \in Results /\ x.key = key /\ x.score = Truth(key)
    BY <2>3, ConstantFacts DEF Result, Results
  <2>5. \A i \in 1..Len(found) : i \in I => found[i] \in T
    <3>1. SUFFICES ASSUME NEW i \in 1..Len(found), i \in I PROVE found[i] \in T
      OBVIOUS
    <3>2. f[i] = Result(found[i].key, Exact(found[i].key)) /\ f[i] \in T
      BY <1>11, <3>1
    <3>3. found[i] = Result(found[i].key, found[i].score)
      BY <1>3 DEF Results, Result
    <3> QED BY <1>6, <2>2, <3>2, <3>3
  <2> HIDE DEF x, C
  <2>6. CASE \E i \in 1..Len(found) : found[i] = x
    <3>1. PICK i \in 1..Len(found) : found[i] = x
      BY <2>6
    <3>2. WithinRadius(Exact(found[i].key))
      BY <1>6, <1>24, <2>4, <3>1
    <3>3. x \in T
      BY <1>7, <2>5, <3>1, <3>2
    <3> QED BY <1>21, <3>3 DEF TopOf, Covers, x
  <2>7. CASE ~\E i \in 1..Len(found) : found[i] = x
    <3>1. Len(found) = C /\ \A i \in 1..Len(found) : Better(found[i], x)
      BY <2>1, <2>7 DEF Covers
    <3>2. ASSUME NEW i \in 1..Len(found) PROVE i \in I
      <4>1. found[i].score <= x.score
        BY <1>3, <2>4, <3>1, BetterScore
      <4>2. Exact(found[i].key) <= Truth(key) /\ Exact(found[i].key) \in Nat /\ Truth(key) \in Nat
        BY <1>6, <2>2, <2>3, <2>4, <4>1, ConstantFacts
      <4>3. request.radius \in Nat
        BY DEF CaseValid, ValidRequest
      <4>4. WithinRadius(Exact(found[i].key))
        BY <1>24, <4>2, <4>3 DEF WithinRadius
      <4> QED BY <1>7, <4>4
    <3>3. \A i \in 1..Len(found) : found[i] \in T
      BY <2>5, <3>2
    <3>4. found \in Seq(T)
      BY <1>3, <3>3
    <3>5. \A r \in T : Better(r, x)
      <4>1. SUFFICES ASSUME NEW r \in T PROVE Better(r, x)
        OBVIOUS
      <4>2. PICK i \in I : r.key = found[i].key
        BY <1>17
      <4>3. i \in 1..Len(found) /\ found[i] \in T
        BY <1>7, <3>3
      <4>4. r = found[i]
        BY <1>18, <4>2, <4>3
      <4> QED BY <3>1, <4>3, <4>4
    <3>6. b \in Seq(T) /\ Len(b) \in Nat /\ Len(b) <= Limit
      BY <1>21 DEF TopOf
    <3>7. Len(b) = Limit
      <4>1. SUFFICES ASSUME Len(b) # Limit PROVE FALSE
        OBVIOUS
      <4>2. \A r \in T : \E j \in 1..Len(b) : b[j] = r
        BY <1>21, <4>1 DEF TopOf
      <4>3. \A i \in 1..Len(found) : \E j \in 1..Len(b) : b[j] = found[i]
        BY <3>3, <4>2
      <4>4. Len(b) <= Len(found)
        BY <2>1, <3>1, <3>6, LimitFacts DEF C
      <4>5. Len(b) = Len(found)
        BY <1>3, <3>4, <3>6, <4>3, <4>4, AllTaken
      <4> QED BY <2>1, <3>1, <3>6, <4>1, <4>5, LimitFacts DEF C
    <3>8. \A i \in 1..Len(b) : Better(b[i], x)
      BY <1>22, <3>5
    <3> QED BY <3>7, <3>8 DEF Covers, x
  <2> QED BY <2>6, <2>7
<1>25. CompleteBatch(s, b)
  BY <1>24 DEF CompleteBatch
<1> QED BY <1>23, <1>25 DEF VectorBatch, b

-----------------------------------------------------------------------------
(* Merged answers.                                                         *)

\* The merged list of a vector search.
LEMMA MergeVector ==
  ASSUME CaseValid, NEW parts, parts = [s \in Segments |-> parts[s]],
         \A s \in Segments : VectorBatch(s, parts[s])
  PROVE  LET m == MergeSearchResults(Limit, parts)
         IN  /\ SoundResults(m) /\ CompleteResults(m, Limit)
             /\ KeyedList(m, Accepted) /\ Len(m) <= Limit
<1> DEFINE m == MergeSearchResults(Limit, parts)
           n == Len(snapshot.documents)
           K == [s \in Segments |-> Own(s)]
           U == UNION {Elements(parts[s]) : s \in Segments}
<1>1. n \in Nat /\ Segments = 1..n
  BY SnapshotFacts
<1>2. Limit \in Nat \ {0}
  BY LimitFacts
<1>3. \A s \in Segments : /\ KeyedList(parts[s], Own(s)) /\ SoundBatch(s, parts[s]) /\ CompleteBatch(s, parts[s])
                          /\ Own(s) \in SUBSET Nat /\ Own(s) \subseteq Accepted \ snapshot.null
                          /\ Own(s) \subseteq snapshot.documents[s]
  BY OwnFacts DEF VectorBatch, SoundBatch
<1>4. K \in [Segments -> SUBSET Nat] /\ \A s \in Segments : K[s] = Own(s)
  BY <1>3
<1>5. \A s, t \in Segments : s # t => K[s] \cap K[t] = {}
  BY <1>4, OwnFacts
<1> HIDE DEF n, K
<1>6. /\ TopOf(m, Limit, U) /\ U \in SUBSET Results /\ KeyedList(m, UNION {K[s] : s \in Segments})
      /\ \A i \in 1..Len(m) : \E s \in Segments : \E j \in 1..Len(parts[s]) : m[i] = parts[s][j]
  <2>1. K \in [1..n -> SUBSET Nat] /\ parts = [s \in 1..n |-> parts[s]]
    BY <1>1, <1>4
  <2>2. \A s, t \in 1..n : s # t => K[s] \cap K[t] = {}
    BY <1>1, <1>5
  <2>3. \A s \in 1..n : KeyedList(parts[s], K[s])
    BY <1>1, <1>3, <1>4
  <2>4. /\ TopOf(m, Limit, UNION {Elements(parts[s]) : s \in 1..n})
        /\ UNION {Elements(parts[s]) : s \in 1..n} \in SUBSET Results
        /\ KeyedList(m, UNION {K[s] : s \in 1..n})
        /\ \A i \in 1..Len(m) : \E s \in 1..n : \E j \in 1..Len(parts[s]) : m[i] = parts[s][j]
    <3>1. KeyedParts(parts, n, K)
      BY <2>1, <2>2, <2>3 DEF KeyedParts
    <3>2. KeyedMerge(m, Limit, parts, n, K)
      BY <1>1, <1>2, <3>1, MergeKeyed
    <3> QED BY <3>2 DEF KeyedMerge
  <2> QED BY <1>1, <2>4
<1> HIDE DEF m, U
<1>7. UNION {K[s] : s \in Segments} \subseteq Accepted
  BY <1>3, <1>4
<1>8. KeyedList(m, Accepted)
  <2> DEFINE A == UNION {K[s] : s \in Segments}
             R == [key : A, score : 1..MaxScore]
             Q == [key : Accepted, score : 1..MaxScore]
  <2>1. R \subseteq Q
    <3>1. A \subseteq Accepted
      BY <1>7
    <3> HIDE DEF A
    <3> QED BY <3>1
  <2>2. m \in Seq(R) /\ \A i, j \in 1..Len(m) : i # j => m[i].key # m[j].key
    BY <1>6 DEF KeyedList
  <2> HIDE DEF R, Q
  <2>3. m \in Seq(Q)
    BY <2>1, <2>2
  <2> QED BY <2>2, <2>3 DEF KeyedList, Q
<1>9. m \in Seq(U) /\ Len(m) \in Nat /\ Len(m) <= Limit /\ DOMAIN m = 1..Len(m) /\ \A i \in 1..Len(m) : m[i] \in Results
  BY <1>6 DEF TopOf
<1>10. SoundResults(m)
  <2>1. ASSUME NEW i \in 1..Len(m), NEW j \in 1..Len(m), i < j PROVE Better(m[i], m[j]) /\ m[i].key # m[j].key
    <3>1. i # j
      BY <1>9, <2>1
    <3> QED BY <1>6, <1>8, <2>1, <3>1 DEF TopOf, KeyedList
  <2>2. ASSUME NEW i \in 1..Len(m)
        PROVE  /\ m[i].key \in Accepted \ snapshot.null /\ WithinRadius(m[i].score)
               /\ \A s \in Segments : Trusted(s) /\ m[i].key \in snapshot.documents[s] => m[i].score = Truth(m[i].key)
    <3>1. PICK t \in Segments : \E j \in 1..Len(parts[t]) : m[i] = parts[t][j]
      BY <1>6
    <3>2. PICK j \in 1..Len(parts[t]) : m[i] = parts[t][j]
      BY <3>1
    <3>3. m[i].key \in Own(t)
      BY <1>3, <3>2, KeyedFacts
    <3>4. WithinRadius(m[i].score) /\ (Trusted(t) => m[i].score = Truth(m[i].key))
      BY <1>3, <3>2 DEF SoundBatch
    <3>5. ASSUME NEW s \in Segments, m[i].key \in snapshot.documents[s] PROVE s = t
      BY <3>3, <3>5, OwnFacts
    <3> QED BY <1>3, <3>3, <3>4, <3>5
  <2> QED BY <1>9, <2>1, <2>2 DEF SoundResults
<1>11. CompleteResults(m, Limit)
  <2>1. SUFFICES ASSUME NEW s \in Segments, SearchedExactly(s, Limit), NEW key \in Own(s), WithinRadius(Truth(key))
                 PROVE  key \in KeysOf(m) \/ (Len(m) = Limit /\ Better(m[Limit], Result(key, Truth(key))))
    BY DEF CompleteResults, Own
  <2> DEFINE x == Result(key, Truth(key))
             b == parts[s]
  <2>2. Covers(b, Limit, x)
    BY <1>3, <2>1 DEF CompleteBatch
  <2>3. b \in Seq(Results) /\ Distinct(b) /\ Len(b) \in Nat /\ \A i \in 1..Len(b) : b[i] \in Elements(b)
    BY <1>3, KeyedFacts DEF Elements
  <2>4. Elements(b) \subseteq U
    BY DEF U
  <2>5. b \in Seq(U)
    <3> HIDE DEF b
    <3> QED BY <2>3, <2>4
  <2>6. x \in Results
    <3>1. key \in DocIDs /\ key \in Nat
      BY OwnFacts
    <3>2. Truth(key) \in Nat
      <4>1. snapshot.score \in Seq([DocIDs \cup LaterIDs -> 1..MaxScore]) /\ snapshot.score # <<>>
        BY DEF CaseValid, ValidSnapshot
      <4> DEFINE sc == snapshot.score
                 F == [DocIDs \cup LaterIDs -> 1..MaxScore]
      <4>2. sc \in Seq(F) /\ sc # <<>>
        BY <4>1
      <4>3. Truth(key) = sc[1][key]
        BY DEF Truth
      <4> HIDE DEF sc, F
      <4>4. sc[1] \in F
        BY <4>2
      <4>5. sc[1][key] \in 1..MaxScore
        BY <3>1, <4>4 DEF F
      <4> QED BY <4>3, <4>5, ConstantFacts
    <3> QED BY <3>1, <3>2 DEF Result, Results
  <2> HIDE DEF b, x
  <2>7. Covers(m, Limit, x)
    BY <1>2, <1>6, <2>2, <2>3, <2>5, <2>6, MergeCovers
  <2>8. CASE \E i \in 1..Len(m) : m[i] = x
    <3>1. PICK i \in 1..Len(m) : m[i] = x
      BY <2>8
    <3>2. m[i].key = key
      BY <3>1, ResultFacts DEF x
    <3> QED BY <1>9, <3>2 DEF KeysOf
  <2>9. CASE Len(m) = Limit /\ \A i \in 1..Len(m) : Better(m[i], x)
    <3>1. Limit \in 1..Len(m)
      BY <1>2, <2>9
    <3> QED BY <2>9, <3>1 DEF x
  <2> QED BY <2>7, <2>8, <2>9 DEF Covers
<1> QED BY <1>8, <1>9, <1>10, <1>11 DEF m

\* The keys of a keyed list.
LEMMA KeysInside ==
  ASSUME NEW K \in SUBSET Nat, NEW b, KeyedList(b, K)
  PROVE  KeysOf(b) \subseteq K
<1>1. b \in Seq(Results) /\ \A i \in 1..Len(b) : b[i].key \in K
  BY KeyedFacts
<1>2. DOMAIN b = 1..Len(b)
  BY <1>1
<1> QED BY <1>1, <1>2 DEF KeysOf

\* The partial result of a full-text search.
TextBatch(s, b) == KeyedList(b, snapshot.documents[s] \cap Accepted)

\* searchFTSSegments.
LEMMA TextFindsResults ==
  ASSUME CaseValid, BranchValid, NEW s \in Segments,
         NEW keys, keys = Ascending({key \in snapshot.documents[s] : Unrestricted \/ key \in Accepted})
  PROVE  TextBatch(s, Best(Limit, [i \in DOMAIN keys |-> Result(keys[i], Exact(keys[i]))]))
<1> DEFINE rows == {key \in snapshot.documents[s] : Unrestricted \/ key \in Accepted}
           K == snapshot.documents[s] \cap Accepted
           f == [key \in K |-> Result(key, Exact(key))]
           T == {Result(key, Exact(key)) : key \in K}
           b == Best(Limit, [i \in DOMAIN keys |-> Result(keys[i], Exact(keys[i]))])
<1>1. rows = K /\ K \subseteq DocIDs
  BY SnapshotFacts
<1>2. K \in SUBSET Nat /\ IsFiniteSet(K)
  BY <1>1, ConstantFacts, FS_Subset
<1> HIDE DEF K
<1>3. Lists(keys, K)
  BY <1>1, <1>2, AscendingLists
<1>4. \A key \in K : f[key] = Result(key, Exact(key)) /\ f[key] \in T
  OBVIOUS
<1>5. f \in [K -> T]
  BY <1>4
<1>6. \A x, y \in K : x # y => f[x] # f[y]
  BY <1>4, ResultFacts
<1>7. \A v \in T : \E x \in K : v = f[x]
  BY <1>4
<1>8. [i \in DOMAIN keys |-> Result(keys[i], Exact(keys[i]))] = [i \in DOMAIN keys |-> f[keys[i]]]
  <2>1. keys \in Seq(K)
    BY <1>3 DEF Lists
  <2>2. \A i \in DOMAIN keys : keys[i] \in K
    BY <2>1
  <2>3. \A i \in DOMAIN keys : f[keys[i]] = Result(keys[i], Exact(keys[i]))
    BY <1>4, <2>2
  <2> HIDE DEF f
  <2> QED BY <2>3
<1>9. ASSUME NEW r \in T PROVE r \in Results /\ r \in [key : K, score : 1..MaxScore]
  <2>1. PICK key \in K : r = Result(key, Exact(key))
    OBVIOUS
  <2>2. Exact(key) \in 1..MaxScore /\ key \in Nat
    BY <1>1, <1>2, ScoreFacts
  <2> QED BY <2>1, <2>2, ConstantFacts DEF Result, Results
<1>10. \A r, q \in T : r.key = q.key => r = q
  BY ResultFacts
<1> HIDE DEF T, f
<1>11. Lists([i \in DOMAIN keys |-> f[keys[i]]], T)
  BY <1>3, <1>5, <1>6, <1>7, MapLists
<1>12. T \in SUBSET Results /\ T \subseteq [key : K, score : 1..MaxScore]
  BY <1>9
<1>13. TopOf(b, Limit, T)
  BY <1>8, <1>11, <1>12, LimitFacts, BestIsTop
<1>14. KeyedList(b, K)
  BY <1>2, <1>10, <1>12, <1>13, TopKeyed
<1> QED BY <1>14 DEF TextBatch, K

\* The merged list of a full-text search.
LEMMA MergeText ==
  ASSUME CaseValid, NEW parts, parts = [s \in Segments |-> parts[s]],
         \A s \in Segments : TextBatch(s, parts[s])
  PROVE  LET m == MergeSearchResults(Limit, parts) IN KeyedList(m, Accepted) /\ Len(m) <= Limit
<1> DEFINE m == MergeSearchResults(Limit, parts)
           n == Len(snapshot.documents)
           K == [s \in Segments |-> snapshot.documents[s] \cap Accepted]
<1>1. n \in Nat /\ Segments = 1..n
  BY SnapshotFacts
<1>2. Limit \in Nat \ {0}
  BY LimitFacts
<1>3. \A s \in Segments : /\ KeyedList(parts[s], K[s]) /\ K[s] \in SUBSET Nat /\ K[s] \subseteq snapshot.documents[s]
                          /\ K[s] \subseteq Accepted
  BY SnapshotFacts, ConstantFacts DEF TextBatch
<1>4. K \in [Segments -> SUBSET Nat]
  BY <1>3
<1>5. \A s, t \in Segments : s # t => K[s] \cap K[t] = {}
  BY <1>3, SnapshotFacts
<1> HIDE DEF n, K
<1>6. TopOf(m, Limit, UNION {Elements(parts[s]) : s \in 1..n}) /\ KeyedList(m, UNION {K[s] : s \in 1..n})
  <2>1. K \in [1..n -> SUBSET Nat] /\ parts = [s \in 1..n |-> parts[s]]
    BY <1>1, <1>4
  <2>2. \A s, t \in 1..n : s # t => K[s] \cap K[t] = {}
    BY <1>1, <1>5
  <2>3. \A s \in 1..n : KeyedList(parts[s], K[s])
    BY <1>1, <1>3
  <2>4. KeyedParts(parts, n, K)
    BY <2>1, <2>2, <2>3 DEF KeyedParts
  <2>5. KeyedMerge(m, Limit, parts, n, K)
    BY <1>1, <1>2, <2>4, MergeKeyed
  <2> QED BY <2>5 DEF KeyedMerge
<1> HIDE DEF m
<1>7. KeyedList(m, Accepted)
  <2> DEFINE A == UNION {K[s] : s \in 1..n}
             R == [key : A, score : 1..MaxScore]
             Q == [key : Accepted, score : 1..MaxScore]
  <2>1. R \subseteq Q
    <3>1. A \subseteq Accepted
      BY <1>1, <1>3
    <3> HIDE DEF A
    <3> QED BY <3>1
  <2>2. m \in Seq(R) /\ \A i, j \in 1..Len(m) : i # j => m[i].key # m[j].key
    BY <1>6 DEF KeyedList
  <2> HIDE DEF R, Q
  <2>3. m \in Seq(Q)
    BY <2>1, <2>2
  <2> QED BY <2>2, <2>3 DEF KeyedList, Q
<1>8. Len(m) <= Limit
  BY <1>6 DEF TopOf
<1> QED BY <1>7, <1>8 DEF m

-----------------------------------------------------------------------------
(* Groups.                                                                 *)

\* The results of one value among tagged results.
OfValue(P, v) == {p.result : p \in {q \in P : q.value = v}}

\* A record per value with its best k results.
BestGroups(G, k, P, V) ==
  /\ IsFiniteSet(G) /\ G \subseteq [value : V, results : Seq(Results)]
  /\ \A g \in G : TopOf(g.results, k, OfValue(P, g.value)) /\ Len(g.results) # 0
  /\ \A p \in P : \E g \in G : g.value = p.value
  /\ \A g, h \in G : g.value = h.value => g = h

\* The results of one group, each once.
LEMMA OfGroupLists ==
  ASSUME NEW V, NEW P \in SUBSET [value : V, result : Results], NEW grouped, Lists(grouped, P), NEW v
  PROVE  Lists(OfGroup(v, grouped), OfValue(P, v))
<1> DEFINE I == {i \in DOMAIN grouped : grouped[i].value = v}
           T == OfValue(P, v)
           f == [i \in I |-> grouped[i].result]
           at == Ascending(I)
<1>1. grouped \in Seq(P) /\ Distinct(grouped) /\ \A p \in P : \E i \in 1..Len(grouped) : grouped[i] = p
  BY DEF Lists
<1>2. Len(grouped) \in Nat /\ DOMAIN grouped = 1..Len(grouped) /\ \A i \in 1..Len(grouped) : grouped[i] \in P
  BY <1>1
<1>3. I \in SUBSET Nat /\ I \subseteq 1..Len(grouped) /\ \A i \in 1..Len(grouped) : i \in I <=> grouped[i].value = v
  BY <1>2
<1>4. IsFiniteSet(I)
  <2>1. IsFiniteSet(1..Len(grouped))
    BY <1>2, FS_Interval
  <2> QED BY <1>3, <2>1, FS_Subset
<1>5. OfGroup(v, grouped) = [i \in DOMAIN at |-> grouped[at[i]].result]
  BY DEF OfGroup
<1> HIDE DEF I
<1>6. Lists(at, I)
  BY <1>3, <1>4, AscendingLists
<1>7. \A i \in I : f[i] = grouped[i].result /\ f[i] \in T
  BY <1>2, <1>3 DEF OfValue
<1>8. f \in [I -> T]
  BY <1>7
<1>9. ASSUME NEW i \in I, NEW j \in I, i # j PROVE f[i] # f[j]
  <2>1. grouped[i] # grouped[j] /\ grouped[i].value = grouped[j].value
    BY <1>1, <1>3, <1>9 DEF Distinct
  <2>2. grouped[i] \in [value : V, result : Results] /\ grouped[j] \in [value : V, result : Results]
    BY <1>2, <1>3
  <2>3. grouped[i].result # grouped[j].result
    BY <2>1, <2>2
  <2> QED BY <1>7, <2>3
<1>10. \A x \in T : \E i \in I : x = f[i]
  BY <1>1, <1>3, <1>7 DEF OfValue
<1>11. [i \in DOMAIN at |-> grouped[at[i]].result] = [i \in DOMAIN at |-> f[at[i]]]
  <2>1. at \in Seq(I)
    BY <1>6 DEF Lists
  <2> HIDE DEF at
  <2>2. \A i \in DOMAIN at : at[i] \in I
    BY <2>1
  <2>3. \A i \in DOMAIN at : f[at[i]] = grouped[at[i]].result
    BY <1>7, <2>2
  <2> HIDE DEF f
  <2> QED BY <2>3
<1> HIDE DEF f, T, at
<1>12. Lists([i \in DOMAIN at |-> f[at[i]]], T)
  BY <1>6, <1>8, <1>9, <1>10, MapLists
<1> QED BY <1>5, <1>11, <1>12 DEF T

\* groupAccumulator.
LEMMA AccumulateGroups ==
  ASSUME NEW V, NEW P \in SUBSET [value : V, result : Results], NEW grouped, Lists(grouped, P), NEW k \in Nat \ {0}
  PROVE  BestGroups(Accumulate(k, grouped), k, P, V)
<1> DEFINE G == Accumulate(k, grouped)
           Vs == {grouped[i].value : i \in DOMAIN grouped}
           B(v) == Best(k, OfGroup(v, grouped))
           n == Len(grouped)
<1>1. grouped \in Seq(P) /\ \A p \in P : \E i \in 1..n : grouped[i] = p
  BY DEF Lists
<1>2. n \in Nat /\ DOMAIN grouped = 1..n /\ \A i \in 1..n : grouped[i] \in P
  BY <1>1
<1>3. G = {[value |-> v, results |-> B(v)] : v \in Vs}
  BY DEF Accumulate
<1>4. \A v : OfValue(P, v) \in SUBSET Results
  BY DEF OfValue
<1>5. \A v : TopOf(B(v), k, OfValue(P, v))
  <2>1. SUFFICES ASSUME NEW v PROVE TopOf(B(v), k, OfValue(P, v))
    OBVIOUS
  <2>2. Lists(OfGroup(v, grouped), OfValue(P, v))
    BY OfGroupLists
  <2> QED BY <1>4, <2>2, BestIsTop
<1>6. \A v \in Vs : v \in V /\ OfValue(P, v) # {}
  BY <1>2 DEF OfValue
<1>7. \A v \in Vs : B(v) \in Seq(Results) /\ Len(B(v)) # 0
  <2>1. SUFFICES ASSUME NEW v \in Vs PROVE B(v) \in Seq(Results) /\ Len(B(v)) # 0
    OBVIOUS
  <2> DEFINE b == B(v)
             T == OfValue(P, v)
  <2>2. TopOf(b, k, T) /\ T # {} /\ T \in SUBSET Results
    BY <1>4, <1>5, <1>6
  <2> HIDE DEF b, T
  <2>3. b \in Seq(T)
    BY <2>2 DEF TopOf
  <2>4. b \in Seq(Results)
    BY <2>2, <2>3
  <2>5. Len(b) # 0
    BY <2>2 DEF TopOf
  <2> QED BY <2>4, <2>5 DEF b
<1> HIDE DEF B
<1> DEFINE f == [i \in 1..n |-> [value |-> grouped[i].value, results |-> B(grouped[i].value)]]
<1>8. IsFiniteSet(G)
  <2>1. \A i \in 1..n : f[i] \in G
    BY <1>2, <1>3
  <2>2. \A g \in G : \E i \in 1..n : f[i] = g
    BY <1>2, <1>3
  <2>3. f \in [1..n -> G]
    BY <2>1
  <2> HIDE DEF f, G
  <2>4. f \in Surjection(1..n, G)
    BY <2>2, <2>3 DEF Surjection
  <2>5. IsFiniteSet(1..n)
    BY <1>2, FS_Interval
  <2> QED BY <2>4, <2>5, FS_Surjection
<1>9. G \subseteq [value : V, results : Seq(Results)]
  BY <1>3, <1>6, <1>7
<1>10. \A g \in G : g.value \in Vs /\ g.results = B(g.value)
  BY <1>3
<1>11. \A g \in G : TopOf(g.results, k, OfValue(P, g.value)) /\ Len(g.results) # 0
  BY <1>5, <1>7, <1>10 DEF B
<1>12. \A p \in P : \E g \in G : g.value = p.value
  <2>1. SUFFICES ASSUME NEW p \in P PROVE \E g \in G : g.value = p.value
    OBVIOUS
  <2>2. p.value \in Vs
    BY <1>1, <1>2
  <2>3. [value |-> p.value, results |-> B(p.value)] \in G
    BY <1>3, <2>2
  <2> QED BY <2>3
<1>13. \A g, h \in G : g.value = h.value => g = h
  BY <1>3
<1> HIDE DEF G
<1> QED BY <1>8, <1>9, <1>11, <1>12, <1>13 DEF BestGroups, G

\* The order of the groups by their first results.
GroupsOn(G) == {p \in G \X G : GroupBetter(p[1], p[2])}

\* Groups of different values have different results.
Apart(P) == \A p, q \in P : p.result = q.result => p.value = q.value

\* Groups are strictly ordered by their best results.
LEMMA GroupOrder ==
  ASSUME NEW V, NEW P \in SUBSET [value : V, result : Results], Apart(P), NEW k, NEW G, BestGroups(G, k, P, V)
  PROVE  /\ StrictlyOrders(GroupsOn(G), G) /\ \A g, h \in G : <<g, h>> \in GroupsOn(G) <=> Better(g.results[1], h.results[1])
         /\ \A g \in G : /\ g.results[1] \in Results /\ g.results[1] \in OfValue(P, g.value)
                         /\ \A x \in OfValue(P, g.value) : x = g.results[1] \/ Better(g.results[1], x)
<1>1. ASSUME NEW g \in G
      PROVE  /\ g.results[1] \in Results /\ g.results[1] \in OfValue(P, g.value)
             /\ \A x \in OfValue(P, g.value) : x = g.results[1] \/ Better(g.results[1], x)
  <2> DEFINE b == g.results
             T == OfValue(P, g.value)
  <2>1. T \in SUBSET Results
    BY DEF OfValue
  <2>2. TopOf(b, k, T) /\ Len(b) # 0
    BY DEF BestGroups
  <2> HIDE DEF b, T
  <2>3. b \in Seq(T) /\ Len(b) \in Nat /\ Len(b) # 0
    BY <2>2 DEF TopOf
  <2>4. 1 \in 1..Len(b) /\ \A i \in 1..Len(b) : i = 1 \/ 1 < i
    BY <2>3
  <2>5. b[1] \in T
    BY <2>3, <2>4
  <2>6. ASSUME NEW x \in T PROVE x = b[1] \/ Better(b[1], x)
    <3>1. CASE \E i \in 1..Len(b) : b[i] = x
      <4>1. PICK i \in 1..Len(b) : b[i] = x
        BY <3>1
      <4> QED BY <2>2, <2>4, <4>1 DEF TopOf
    <3>2. CASE \A i \in 1..Len(b) : Better(b[i], x)
      BY <2>4, <3>2
    <3> QED BY <2>2, <3>1, <3>2 DEF TopOf
  <2> QED BY <2>1, <2>5, <2>6 DEF b, T
<1>2. ASSUME NEW g \in G, NEW h \in G, g # h PROVE g.results[1] # h.results[1]
  <2>1. g.value # h.value
    BY <1>2 DEF BestGroups
  <2>2. PICK p \in P : p.value = g.value /\ p.result = g.results[1]
    BY <1>1 DEF OfValue
  <2>3. PICK q \in P : q.value = h.value /\ q.result = h.results[1]
    BY <1>1 DEF OfValue
  <2> QED BY <2>1, <2>2, <2>3 DEF Apart
<1>3. \A g, h \in G : <<g, h>> \in GroupsOn(G) <=> Better(g.results[1], h.results[1])
  BY DEF GroupsOn, GroupBetter
<1>4. StrictlyOrders(GroupsOn(G), G)
  BY <1>1, <1>2, <1>3, BetterOrders DEF StrictlyOrders, Orders
<1> QED BY <1>1, <1>3, <1>4

\* The smaller of two numbers.
LEMMA MinOfTwo ==
  ASSUME NEW a \in Nat, NEW b \in Nat
  PROVE  Min({a, b}) = IF a <= b THEN a ELSE b
<1>1. {a, b} \in SUBSET Nat /\ {a, b} # {} /\ a \in {a, b} /\ b \in {a, b}
  OBVIOUS
<1>2. Min({a, b}) \in {a, b} /\ \A n \in {a, b} : Min({a, b}) <= n
  BY <1>1, MinOfNats
<1> QED BY <1>2

\* The first part of a sequence.
LEMMA PrefixFacts ==
  ASSUME NEW S, NEW r \in Seq(S), NEW count \in Nat
  PROVE  LET p == SubSeq(r, 1, Min({count, Len(r)}))
         IN  /\ p \in Seq(S) /\ Len(p) = (IF count <= Len(r) THEN count ELSE Len(r))
             /\ \A i \in 1..Len(p) : i \in 1..Len(r) /\ p[i] = r[i]
<1> DEFINE m == Min({count, Len(r)})
<1>1. Len(r) \in Nat
  OBVIOUS
<1>2. m = IF count <= Len(r) THEN count ELSE Len(r)
  BY <1>1, MinOfTwo
<1>3. m \in Nat /\ m <= Len(r)
  BY <1>1, <1>2
<1> HIDE DEF m
<1>4. SubSeq(r, 1, m) \in Seq(S) /\ Len(SubSeq(r, 1, m)) = m /\ \A i \in 1..m : SubSeq(r, 1, m)[i] = r[i]
  BY <1>1, <1>3
<1>5. \A i \in 1..m : i \in 1..Len(r)
  BY <1>1, <1>3
<1> QED BY <1>2, <1>4, <1>5 DEF m

\* finish: the best groups in order.
LEMMA FinishRanks ==
  ASSUME NEW G, IsFiniteSet(G), StrictlyOrders(GroupsOn(G), G), NEW count \in Nat \ {0}
  PROVE  LET f == Finish(G, count)
         IN  /\ f \in Seq(G) /\ Len(f) = (IF count <= Cardinality(G) THEN count ELSE Cardinality(G))
             /\ \A i \in 1..Len(f) : i \in 1..Cardinality(G) /\ f[i] = Enumerated(G, GroupsOn(G))[i]
             /\ \A i, j \in 1..Len(f) : i # j => f[i] # f[j]
             /\ \A g \in G : (\E i \in 1..Len(f) : f[i] = g) \/ (Len(f) = count /\ \A i \in 1..Len(f) : <<f[i], g>> \in GroupsOn(G))
<1> DEFINE R == GroupsOn(G)
           r == Enumerated(G, R)
           n == Cardinality(G)
           f == SubSeq(r, 1, Min({count, Len(r)}))
<1>1. Finish(G, count) = f
  BY DEF Finish, GroupsOn
<1> HIDE DEF R
<1>2. StrictlyOrders(R, G) /\ n \in Nat
  BY FS_CardinalityType DEF R
<1>3. /\ r \in Seq(G) /\ Len(r) = n
      /\ \A i, j \in 1..n : i < j => <<r[i], r[j]>> \in R
      /\ \A g \in G : \E i \in 1..n : r[i] = g
  BY <1>2, EnumeratedSorts
<1> HIDE DEF r, n
<1>4. /\ f \in Seq(G) /\ Len(f) = (IF count <= n THEN count ELSE n)
      /\ \A i \in 1..Len(f) : i \in 1..n /\ f[i] = r[i]
  BY <1>3, PrefixFacts
<1> HIDE DEF f
<1>5. Len(f) \in Nat
  BY <1>4
<1>6. \A i \in 1..n : r[i] \in G
  BY <1>3
<1>7. ASSUME NEW i \in 1..Len(f), NEW j \in 1..Len(f), i # j PROVE f[i] # f[j]
  <2>1. i \in 1..n /\ j \in 1..n /\ (i < j \/ j < i)
    BY <1>4, <1>5, <1>7
  <2>2. <<r[i], r[j]>> \in R \/ <<r[j], r[i]>> \in R
    BY <1>3, <2>1
  <2>3. \A g \in G : <<g, g>> \notin R
    BY <1>2 DEF StrictlyOrders
  <2>4. r[i] # r[j]
    BY <1>6, <2>1, <2>2, <2>3
  <2> QED BY <1>4, <2>4
<1>8. ASSUME NEW g \in G, ~\E i \in 1..Len(f) : f[i] = g PROVE Len(f) = count /\ \A i \in 1..Len(f) : <<f[i], g>> \in R
  <2>1. PICK j \in 1..n : r[j] = g
    BY <1>3
  <2>2. j \notin 1..Len(f)
    BY <1>4, <1>8, <2>1
  <2>3. Len(f) < j /\ Len(f) = count
    BY <1>2, <1>4, <1>5, <2>2
  <2>4. \A i \in 1..Len(f) : i \in 1..n /\ i < j
    BY <1>4, <1>5, <2>3
  <2> QED BY <1>3, <1>4, <2>1, <2>3, <2>4
<1> QED BY <1>1, <1>4, <1>7, <1>8 DEF R, r, n

\* The groups of a segment are those of its exact scores.
GroupExact(s) == GroupScanned(s) /\ Trusted(s)

GroupValues == {snapshot.group[d] : d \in DocIDs}
GroupRecord == [value : GroupValues, results : Seq(Results)]

\* A group of a segment: documents of its own.
GroupRun(s, g) ==
  /\ Len(g.results) # 0 /\ Distinct(g.results)
  /\ \A j \in 1..Len(g.results) :
       /\ g.results[j].key \in Own(s) /\ snapshot.group[g.results[j].key] = g.value
       /\ GroupExact(s) => g.results[j].score = Truth(g.results[j].key) /\ WithinRadius(g.results[j].score)

\* The group of a result is listed with a first result that is no worse, or
\* the list is full of groups with better ones.
GroupCovers(b, count, v, x) ==
  \/ \E i \in 1..Len(b) : b[i].value = v /\ (b[i].results[1] = x \/ Better(b[i].results[1], x))
  \/ Len(b) = count /\ \A i \in 1..Len(b) : Better(b[i].results[1], x)

\* The partial result of a group search.
GroupBatch(s, b) ==
  /\ b \in Seq(GroupRecord)
  /\ \A i, j \in 1..Len(b) : i # j => b[i].value # b[j].value
  /\ \A i \in 1..Len(b) : GroupRun(s, b[i])
  /\ GroupExact(s) =>
       \A key \in Own(s) : WithinRadius(Truth(key)) =>
         GroupCovers(b, request.groupCount, snapshot.group[key], Result(key, Truth(key)))

\* The scores of a group search.
LEMMA GroupScoreFacts ==
  ASSUME CaseValid, branch = 1, NEW s, NEW key \in DocIDs
  PROVE  GroupScore(s, key) \in Nat /\ (Trusted(s) => GroupScore(s, key) = Truth(key))
<1>1. BranchValid
  BY DEF BranchValid
<1>2. /\ Exact(key) \in 1..MaxScore /\ Score(s, key) \in 1..MaxScore
      /\ Exact(key) = Truth(key) /\ (~Codes(s) => Score(s, key) = Exact(key))
  BY <1>1, ScoreFacts
<1>3. Exact(key) \in Nat /\ Score(s, key) \in Nat
  BY <1>2, ConstantFacts
<1> QED BY <1>2, <1>3 DEF GroupScore, Trusted

\* A tagged result.
TaggedResult(s, key) == [value |-> snapshot.group[key], result |-> Result(key, GroupScore(s, key))]

\* A scan lists the rows with their groups and scores.
LEMMA GroupScanLists ==
  ASSUME CaseValid, branch = 1, NEW s, NEW visited, NEW rows \in SUBSET DocIDs,
         rows = {key \in Rows(s, visited) : WithinRadius(GroupScore(s, key))}
  PROVE  LET P == {TaggedResult(s, key) : key \in rows}
         IN  Lists(GroupScan(s, visited), P) /\ P \in SUBSET [value : GroupValues, result : Results] /\ Apart(P)
<1> DEFINE P == {TaggedResult(s, key) : key \in rows}
           f == [key \in rows |-> TaggedResult(s, key)]
           keys == Ascending(rows)
<1>1. rows \in SUBSET Nat /\ IsFiniteSet(rows)
  BY ConstantFacts, FS_Subset
<1>2. Lists(keys, rows)
  BY <1>1, AscendingLists
<1>3. \A key \in rows : f[key] = TaggedResult(s, key) /\ f[key] \in P
  OBVIOUS
<1>4. f \in [rows -> P]
  BY <1>3
<1>5. \A key : TaggedResult(s, key).value = snapshot.group[key] /\ TaggedResult(s, key).result.key = key
  BY ResultFacts DEF TaggedResult
<1>6. \A x, y \in rows : x # y => f[x] # f[y]
  BY <1>3, <1>5
<1>7. \A v \in P : \E x \in rows : v = f[x]
  BY <1>3
<1>8. GroupScan(s, visited) = [i \in DOMAIN keys |-> f[keys[i]]]
  <2>1. keys \in Seq(rows)
    BY <1>2 DEF Lists
  <2>2. GroupScan(s, visited) = [i \in DOMAIN keys |-> TaggedResult(s, keys[i])]
    BY DEF GroupScan, TaggedResult
  <2> HIDE DEF keys
  <2>3. \A i \in DOMAIN keys : keys[i] \in rows
    BY <2>1
  <2>4. \A i \in DOMAIN keys : f[keys[i]] = TaggedResult(s, keys[i])
    BY <1>3, <2>3
  <2> HIDE DEF f
  <2> QED BY <2>2, <2>4
<1>9. ASSUME NEW p \in P PROVE p \in [value : GroupValues, result : Results]
  <2>1. PICK key \in rows : p = TaggedResult(s, key)
    OBVIOUS
  <2>2. GroupScore(s, key) \in Nat /\ key \in Nat /\ key \in DocIDs
    BY <1>1, GroupScoreFacts
  <2>3. Result(key, GroupScore(s, key)) \in Results /\ snapshot.group[key] \in GroupValues
    BY <2>2 DEF Result, Results, GroupValues
  <2> QED BY <2>1, <2>3 DEF TaggedResult
<1>10. Apart(P)
  BY <1>5 DEF Apart
<1> HIDE DEF f, keys, P
<1>11. Lists([i \in DOMAIN keys |-> f[keys[i]]], P)
  BY <1>2, <1>4, <1>6, <1>7, MapLists
<1> QED BY <1>8, <1>9, <1>10, <1>11 DEF P

\* searchGroupSegment: the groups of one segment, cut to the best.
LEMMA SearchFindsGroups ==
  ASSUME CaseValid, branch = 1, NEW s \in Segments, NEW st, Holding(s, st), NEW visited \in SUBSET st,
         GroupScanned(s) => visited = st
  PROVE  GroupBatch(s, Finish(Accumulate(TopKPerGroup, GroupScan(s, visited)), request.groupCount))
<1> DEFINE rows == {key \in Rows(s, visited) : WithinRadius(GroupScore(s, key))}
           P == {TaggedResult(s, key) : key \in rows}
           G == Accumulate(TopKPerGroup, GroupScan(s, visited))
           count == request.groupCount
           b == Finish(G, count)
           k == TopKPerGroup
<1>1. Rows(s, visited) = visited \cap Own(s) /\ (visited = st => Rows(s, visited) = Own(s))
  BY RowsOwn
<1>2. Own(s) \subseteq DocIDs /\ Own(s) \in SUBSET Nat
  BY OwnFacts
<1>3. rows \subseteq Own(s) /\ rows \in SUBSET DocIDs /\ \A key \in rows : WithinRadius(GroupScore(s, key))
  BY <1>1, <1>2
<1>4. ASSUME GroupScanned(s), NEW key \in Own(s), WithinRadius(GroupScore(s, key)) PROVE key \in rows
  BY <1>1, <1>4
<1>5. Lists(GroupScan(s, visited), P) /\ P \in SUBSET [value : GroupValues, result : Results] /\ Apart(P)
  BY <1>3, GroupScanLists
<1>6. k \in Nat \ {0} /\ count \in Nat \ {0}
  BY ConstantFacts DEF CaseValid, ValidRequest
<1> HIDE DEF rows
<1>7. \A key \in rows : TaggedResult(s, key) \in P
  OBVIOUS
<1>8. ASSUME NEW v, NEW x \in OfValue(P, v) PROVE \E key \in rows : x = Result(key, GroupScore(s, key)) /\ snapshot.group[key] = v
  BY DEF OfValue, TaggedResult
<1>9. \A p \in P : p.result \in OfValue(P, p.value)
  BY DEF OfValue
<1> HIDE DEF P, G, count, k
<1>10. BestGroups(G, k, P, GroupValues)
  BY <1>5, <1>6, AccumulateGroups DEF G, k
<1>11. IsFiniteSet(G) /\ G \subseteq GroupRecord
  BY <1>10 DEF BestGroups, GroupRecord
<1>12. /\ StrictlyOrders(GroupsOn(G), G) /\ \A g, h \in G : <<g, h>> \in GroupsOn(G) <=> Better(g.results[1], h.results[1])
       /\ \A g \in G : /\ g.results[1] \in Results /\ g.results[1] \in OfValue(P, g.value)
                       /\ \A x \in OfValue(P, g.value) : x = g.results[1] \/ Better(g.results[1], x)
  BY <1>5, <1>10, GroupOrder
<1>13. /\ b \in Seq(G) /\ \A i, j \in 1..Len(b) : i # j => b[i] # b[j]
       /\ \A g \in G : (\E i \in 1..Len(b) : b[i] = g) \/ (Len(b) = count /\ \A i \in 1..Len(b) : <<b[i], g>> \in GroupsOn(G))
  BY <1>6, <1>11, <1>12, FinishRanks
<1> HIDE DEF b
<1>14. Len(b) \in Nat /\ \A i \in 1..Len(b) : b[i] \in G
  BY <1>13
<1>15. b \in Seq(GroupRecord)
  BY <1>11, <1>13
<1>16. \A i, j \in 1..Len(b) : i # j => b[i].value # b[j].value
  BY <1>10, <1>13, <1>14 DEF BestGroups
<1>17. ASSUME NEW i \in 1..Len(b) PROVE GroupRun(s, b[i])
  <2> DEFINE g == b[i]
             T == OfValue(P, g.value)
  <2>1. g \in G /\ TopOf(g.results, k, T) /\ Len(g.results) # 0
    BY <1>10, <1>14 DEF BestGroups
  <2>2. T \in SUBSET Results
    BY <1>5 DEF OfValue
  <2> HIDE DEF g, T
  <2>3. Distinct(g.results) /\ \A j \in 1..Len(g.results) : g.results[j] \in T
    BY <2>1, <2>2, TopIsDistinct
  <2>4. ASSUME NEW j \in 1..Len(g.results)
        PROVE  /\ g.results[j].key \in Own(s) /\ snapshot.group[g.results[j].key] = g.value
               /\ GroupExact(s) => g.results[j].score = Truth(g.results[j].key) /\ WithinRadius(g.results[j].score)
    <3>1. PICK key \in rows : g.results[j] = Result(key, GroupScore(s, key)) /\ snapshot.group[key] = g.value
      BY <1>8, <2>3 DEF T
    <3>2. g.results[j].key = key /\ g.results[j].score = GroupScore(s, key)
      BY <3>1, ResultFacts
    <3>3. key \in Own(s) /\ key \in DocIDs /\ WithinRadius(GroupScore(s, key))
      BY <1>3
    <3>4. Trusted(s) => GroupScore(s, key) = Truth(key)
      BY <3>3, GroupScoreFacts
    <3> QED BY <3>1, <3>2, <3>3, <3>4 DEF GroupExact
  <2> QED BY <2>1, <2>3, <2>4 DEF GroupRun, g
<1>18. ASSUME GroupExact(s), NEW key \in Own(s), WithinRadius(Truth(key))
       PROVE  GroupCovers(b, count, snapshot.group[key], Result(key, Truth(key)))
  <2> DEFINE v == snapshot.group[key]
             x == Result(key, Truth(key))
             p == TaggedResult(s, key)
  <2>1. GroupScanned(s) /\ GroupScore(s, key) = Truth(key)
    BY <1>2, <1>18, GroupScoreFacts DEF GroupExact
  <2>2. p \in P
    BY <1>4, <1>7, <1>18, <2>1
  <2>3. p.value = v /\ p.result = x
    BY <2>1 DEF TaggedResult
  <2> HIDE DEF p, v, x
  <2>4. x \in OfValue(P, v) /\ x \in Results
    BY <1>5, <1>9, <2>2, <2>3
  <2>5. PICK g \in G : g.value = v
    BY <1>10, <2>2, <2>3 DEF BestGroups
  <2>6. g.results[1] \in Results /\ (x = g.results[1] \/ Better(g.results[1], x))
    BY <1>12, <2>4, <2>5
  <2>7. CASE \E i \in 1..Len(b) : b[i] = g
    BY <2>5, <2>6, <2>7 DEF GroupCovers, v, x
  <2>8. CASE Len(b) = count /\ \A i \in 1..Len(b) : <<b[i], g>> \in GroupsOn(G)
    <3>1. ASSUME NEW i \in 1..Len(b) PROVE Better(b[i].results[1], x)
      <4>1. b[i] \in G /\ Better(b[i].results[1], g.results[1]) /\ b[i].results[1] \in Results
        BY <1>12, <1>14, <2>8
      <4> QED BY <2>4, <2>6, <4>1, BetterOrders
    <3> QED BY <2>8, <3>1 DEF GroupCovers, x, v
  <2> QED BY <1>13, <2>7, <2>8
<1> QED BY <1>15, <1>16, <1>17, <1>18 DEF GroupBatch, b, G, count

-----------------------------------------------------------------------------
(* Merged groups.                                                          *)

\* A group is a list of tagged results.
TagList(g) == [j \in DOMAIN g.results |-> [value |-> g.value, result |-> g.results[j]]]
TagsOf(g) == {[value |-> g.value, result |-> g.results[j]] : j \in 1..Len(g.results)}
Tags == [value : GroupValues, result : Results]

\* The groups of all segments.
AllGroups(parts) == UNION {Elements(parts[s]) : s \in Segments}
AllTags(parts) == UNION {TagsOf(g) : g \in AllGroups(parts)}

\* The tagged results of a group.
LEMMA TagFacts ==
  ASSUME NEW g \in GroupRecord
  PROVE  /\ \A t \in TagsOf(g) : t \in Tags /\ t.value = g.value /\ \E j \in 1..Len(g.results) : t.result = g.results[j]
         /\ \A j \in 1..Len(g.results) : [value |-> g.value, result |-> g.results[j]] \in TagsOf(g)
         /\ Distinct(g.results) => Lists(TagList(g), TagsOf(g))
<1> DEFINE r == g.results
           v == g.value
<1>1. r \in Seq(Results) /\ v \in GroupValues
  BY DEF GroupRecord
<1>2. TagList(g) = [j \in DOMAIN r |-> [value |-> v, result |-> r[j]]] /\ TagsOf(g) = {[value |-> v, result |-> r[j]] : j \in 1..Len(r)}
  BY DEF TagList, TagsOf
<1> DEFINE n == Len(r)
           T == {[value |-> v, result |-> r[j]] : j \in 1..n}
           l == [j \in 1..n |-> [value |-> v, result |-> r[j]]]
<1> HIDE DEF r, v
<1>3. n \in Nat /\ DOMAIN r = 1..n /\ \A j \in 1..n : r[j] \in Results
  BY <1>1
<1>4. TagList(g) = l /\ TagsOf(g) = T
  BY <1>2, <1>3
<1>5. \A t \in T : t \in Tags /\ t.value = v /\ \E j \in 1..n : t.result = r[j]
  BY <1>1, <1>3 DEF Tags
<1>6. \A j \in 1..n : [value |-> v, result |-> r[j]] \in T
  OBVIOUS
<1>7. ASSUME Distinct(r) PROVE Lists(l, T)
  <2>1. \A j \in 1..n : l[j] = [value |-> v, result |-> r[j]] /\ l[j] \in T /\ l[j].result = r[j]
    OBVIOUS
  <2>2. \A t \in T : \E j \in 1..n : l[j] = t
    BY <2>1
  <2>3. \A i, j \in 1..n : i # j => r[i] # r[j]
    BY <1>7 DEF Distinct
  <2> HIDE DEF T
  <2>4. l \in Seq(T) /\ Len(l) = n
    BY <1>3, <2>1
  <2> HIDE DEF l, n
  <2>5. ASSUME NEW i \in 1..n, NEW j \in 1..n, l[i] = l[j] PROVE i = j
    <3>1. r[i] = l[i].result /\ r[j] = l[j].result
      BY <2>1
    <3>2. r[i] = r[j]
      BY <2>5, <3>1
    <3> QED BY <2>3, <3>2
  <2> QED BY <2>2, <2>4, <2>5 DEF Lists, Distinct
<1> QED BY <1>4, <1>5, <1>6, <1>7 DEF r, v

\* Groups of the segments with their documents.
GroupParts(parts) == parts = [s \in Segments |-> parts[s]] /\ \A s \in Segments : GroupBatch(s, parts[s])

\* The groups that a segment hands in.
LEMMA GroupPartFacts ==
  ASSUME CaseValid, NEW parts, GroupParts(parts), NEW s \in Segments, NEW g \in Elements(parts[s])
  PROVE  /\ g \in GroupRecord /\ GroupRun(s, g) /\ 1 \in 1..Len(g.results)
         /\ \A j \in 1..Len(g.results) : g.results[j] \in Results /\ g.results[j].key \in Own(s)
         /\ \A h \in Elements(parts[s]) : h # g => h.value # g.value
         /\ \A t \in Segments : t # s => g \notin Elements(parts[t])
<1>1. GroupBatch(s, parts[s])
  BY DEF GroupParts
<1>2. PICK i \in 1..Len(parts[s]) : g = parts[s][i]
  BY DEF Elements
<1>3. parts[s] \in Seq(GroupRecord)
  BY <1>1 DEF GroupBatch
<1>4. g \in GroupRecord
  BY <1>2, <1>3
<1>5. GroupRun(s, g)
  BY <1>1, <1>2 DEF GroupBatch
<1>6. \A h \in Elements(parts[s]) : h # g => h.value # g.value
  BY <1>1, <1>2 DEF GroupBatch, Elements
<1> DEFINE r == g.results
<1>7. r \in Seq(Results) /\ Len(r) # 0
  BY <1>4, <1>5 DEF GroupRecord, GroupRun
<1> HIDE DEF r
<1>8. 1 \in 1..Len(r) /\ \A j \in 1..Len(r) : r[j] \in Results
  BY <1>7
<1>9. \A j \in 1..Len(r) : r[j].key \in Own(s)
  BY <1>5 DEF GroupRun, r
<1>10. ASSUME NEW t \in Segments, t # s, g \in Elements(parts[t]) PROVE FALSE
  <2>1. GroupBatch(t, parts[t])
    BY DEF GroupParts
  <2>2. GroupRun(t, g)
    BY <1>10, <2>1 DEF GroupBatch, Elements
  <2>3. r[1].key \in Own(t) /\ r[1].key \in Own(s)
    BY <1>8, <1>9, <2>2 DEF GroupRun, r
  <2> QED BY <1>10, <2>3, OwnFacts
<1> QED BY <1>4, <1>5, <1>6, <1>8, <1>9, <1>10 DEF r

\* Different groups share no tagged result.
LEMMA TagsApart ==
  ASSUME CaseValid, NEW parts, GroupParts(parts), NEW g \in AllGroups(parts), NEW h \in AllGroups(parts), g # h
  PROVE  TagsOf(g) \cap TagsOf(h) = {}
<1>1. SUFFICES ASSUME NEW t \in TagsOf(g), t \in TagsOf(h) PROVE FALSE
  OBVIOUS
<1>2. PICK s \in Segments : g \in Elements(parts[s])
  BY DEF AllGroups
<1>3. PICK u \in Segments : h \in Elements(parts[u])
  BY DEF AllGroups
<1>4. g \in GroupRecord /\ h \in GroupRecord
  BY <1>2, <1>3, GroupPartFacts
<1>5. t.value = g.value /\ t.value = h.value
  BY <1>1, <1>4, TagFacts
<1>6. PICK i \in 1..Len(g.results) : t.result = g.results[i]
  BY <1>1, <1>4, TagFacts
<1>7. PICK j \in 1..Len(h.results) : t.result = h.results[j]
  BY <1>1, <1>4, TagFacts
<1>8. g.results[i].key \in Own(s) /\ h.results[j].key \in Own(u)
  BY <1>2, <1>3, GroupPartFacts
<1>9. s = u
  BY <1>6, <1>7, <1>8, OwnFacts
<1> QED BY <1>2, <1>3, <1>5, <1>9, GroupPartFacts

\* The tagged results of all segments, in the order of the merge.
MergedTags(parts) == FlattenSeq([i \in DOMAIN FlattenSeq(parts) |-> TagList(FlattenSeq(parts)[i])])

\* The merge sees every tagged result of the segments once.
LEMMA MergedTagsList ==
  ASSUME CaseValid, NEW parts, GroupParts(parts)
  PROVE  Lists(MergedTags(parts), AllTags(parts)) /\ AllTags(parts) \in SUBSET Tags /\ Apart(AllTags(parts))
<1> DEFINE n == Len(snapshot.documents)
           Q == [s \in Segments |-> Elements(parts[s])]
           groups == FlattenSeq(parts)
           GG == AllGroups(parts)
<1>1. n \in Nat /\ Segments = 1..n
  BY SnapshotFacts
<1>2. \A s \in Segments : parts[s] \in Seq(GroupRecord) /\ Lists(parts[s], Elements(parts[s])) /\ Elements(parts[s]) \in SUBSET GroupRecord
  <2>1. SUFFICES ASSUME NEW s \in Segments
                 PROVE  parts[s] \in Seq(GroupRecord) /\ Lists(parts[s], Elements(parts[s])) /\ Elements(parts[s]) \in SUBSET GroupRecord
    OBVIOUS
  <2> DEFINE b == parts[s]
  <2>2. b \in Seq(GroupRecord) /\ \A i, j \in 1..Len(b) : i # j => b[i].value # b[j].value
    BY DEF GroupParts, GroupBatch
  <2> HIDE DEF b
  <2>3. Distinct(b)
    BY <2>2 DEF Distinct
  <2>4. Len(b) \in Nat /\ \A i \in 1..Len(b) : b[i] \in GroupRecord /\ b[i] \in Elements(b)
    BY <2>2 DEF Elements
  <2>5. b \in Seq(Elements(b)) /\ \A x \in Elements(b) : \E i \in 1..Len(b) : b[i] = x
    BY <2>2, <2>4 DEF Elements
  <2>6. Elements(b) \in SUBSET GroupRecord
    BY <2>4 DEF Elements
  <2> QED BY <2>2, <2>3, <2>5, <2>6 DEF Lists, b
<1>3. parts \in Seq(Seq(GroupRecord)) /\ Len(parts) = n
  <2> DEFINE X == Seq(GroupRecord)
  <2>1. \A s \in 1..n : parts[s] \in X
    BY <1>1, <1>2
  <2>2. parts = [s \in 1..n |-> parts[s]]
    BY <1>1 DEF GroupParts
  <2> HIDE DEF X, n
  <2>3. parts \in Seq(X) /\ Len(parts) = n
    BY <1>1, <2>1, <2>2
  <2> QED BY <2>3 DEF X
<1>4. Q \in [Segments -> SUBSET GroupRecord] /\ \A s \in Segments : Q[s] = Elements(parts[s])
  BY <1>2
<1>5. \A s, t \in Segments : s # t => Q[s] \cap Q[t] = {}
  BY <1>4, GroupPartFacts
<1>6. GG = UNION {Q[s] : s \in Segments}
  BY <1>4 DEF AllGroups
<1> HIDE DEF n, Q
<1>7. Lists(groups, GG)
  <2>1. Segments = 1..Len(parts)
    BY <1>1, <1>3
  <2>2. Q \in [1..Len(parts) -> SUBSET GroupRecord]
    BY <1>4, <2>1
  <2>3. \A a \in 1..Len(parts) : Lists(parts[a], Q[a])
    BY <1>2, <1>4, <2>1
  <2>4. \A a, b \in 1..Len(parts) : a # b => Q[a] \cap Q[b] = {}
    BY <1>5, <2>1
  <2>5. Lists(FlattenSeq(parts), UNION {Q[a] : a \in 1..Len(parts)})
    BY <1>3, <2>2, <2>3, <2>4, FlattenLists
  <2> QED BY <1>6, <2>1, <2>5
<1>8. GG \in SUBSET GroupRecord
  BY <1>4, <1>6
<1>9. \A g \in GG : Distinct(g.results)
  BY GroupPartFacts DEF AllGroups, GroupRun
<1>10. \A g, h \in GG : g # h => TagsOf(g) \cap TagsOf(h) = {}
  BY TagsApart
<1>11. AllTags(parts) = UNION {TagsOf(g) : g \in GG}
  BY DEF AllTags
<1>12. ASSUME NEW p \in AllTags(parts)
       PROVE  p \in Tags /\ \E s \in Segments : p.result.key \in Own(s) /\ snapshot.group[p.result.key] = p.value
  <2>1. PICK g \in GG : p \in TagsOf(g)
    BY <1>11
  <2>2. PICK s \in Segments : g \in Elements(parts[s])
    BY DEF AllGroups
  <2>3. p \in Tags /\ p.value = g.value /\ \E j \in 1..Len(g.results) : p.result = g.results[j]
    BY <1>8, <2>1, TagFacts
  <2>4. GroupRun(s, g)
    BY <2>2, GroupPartFacts
  <2> QED BY <2>3, <2>4 DEF GroupRun
<1>13. Apart(AllTags(parts))
  BY <1>12 DEF Apart
<1> HIDE DEF groups, GG
<1> DEFINE m == Len(groups)
           tagged == [i \in DOMAIN groups |-> TagList(groups[i])]
           W == [i \in 1..m |-> TagsOf(groups[i])]
<1>14. m \in Nat /\ DOMAIN groups = 1..m /\ Distinct(groups) /\ \A i \in 1..m : groups[i] \in GG
  BY <1>7 DEF Lists
<1>15. \A g \in GG : \E i \in 1..m : groups[i] = g
  BY <1>7 DEF Lists
<1>16. \A i \in 1..m : Lists(TagList(groups[i]), TagsOf(groups[i])) /\ TagsOf(groups[i]) \in SUBSET Tags
  BY <1>8, <1>9, <1>14, TagFacts
<1>17. \A i \in 1..m : TagList(groups[i]) \in Seq(Tags)
  <2>1. SUFFICES ASSUME NEW i \in 1..m PROVE TagList(groups[i]) \in Seq(Tags)
    OBVIOUS
  <2> DEFINE l == TagList(groups[i])
             T == TagsOf(groups[i])
  <2>2. l \in Seq(T) /\ T \in SUBSET Tags
    BY <1>16 DEF Lists
  <2> HIDE DEF l, T
  <2>3. l \in Seq(Tags)
    BY <2>2
  <2> QED BY <2>3 DEF l
<1> HIDE DEF m
<1>18. tagged = [i \in 1..m |-> TagList(groups[i])]
  BY <1>14
<1>19. tagged \in Seq(Seq(Tags)) /\ Len(tagged) = m
  <2> DEFINE X == Seq(Tags)
  <2>1. \A i \in 1..m : TagList(groups[i]) \in X
    BY <1>17
  <2> HIDE DEF X
  <2>2. tagged \in Seq(X) /\ Len(tagged) = m
    BY <1>14, <1>18, <2>1
  <2> QED BY <2>2 DEF X
<1>20. \A i \in 1..m : tagged[i] = TagList(groups[i])
  BY <1>18
<1> HIDE DEF tagged
<1>21. W \in [1..m -> SUBSET Tags] /\ \A i \in 1..m : W[i] = TagsOf(groups[i])
  BY <1>16
<1> HIDE DEF W
<1>22. \A i, j \in 1..m : i # j => W[i] \cap W[j] = {}
  <2>1. SUFFICES ASSUME NEW i \in 1..m, NEW j \in 1..m, i # j PROVE W[i] \cap W[j] = {}
    OBVIOUS
  <2>2. groups[i] # groups[j]
    BY <1>14, <2>1 DEF Distinct, m
  <2> QED BY <1>10, <1>14, <1>21, <2>2
<1>23. Lists(FlattenSeq(tagged), UNION {W[i] : i \in 1..m})
  <2>1. W \in [1..Len(tagged) -> SUBSET Tags]
    BY <1>19, <1>21
  <2>2. \A a \in 1..Len(tagged) : Lists(tagged[a], W[a])
    BY <1>16, <1>19, <1>20, <1>21
  <2>3. \A a, b \in 1..Len(tagged) : a # b => W[a] \cap W[b] = {}
    BY <1>19, <1>22
  <2>4. Lists(FlattenSeq(tagged), UNION {W[a] : a \in 1..Len(tagged)})
    BY <1>19, <2>1, <2>2, <2>3, FlattenLists
  <2> QED BY <1>19, <2>4
<1>24. UNION {W[i] : i \in 1..m} = AllTags(parts)
  <2>1. ASSUME NEW t \in UNION {W[i] : i \in 1..m} PROVE t \in AllTags(parts)
    BY <1>11, <1>14, <1>21
  <2>2. ASSUME NEW t \in AllTags(parts) PROVE t \in UNION {W[i] : i \in 1..m}
    <3>1. PICK g \in GG : t \in TagsOf(g)
      BY <1>11
    <3>2. PICK i \in 1..m : groups[i] = g
      BY <1>15
    <3> QED BY <1>21, <3>1, <3>2
  <2> QED BY <2>1, <2>2
<1>25. MergedTags(parts) = FlattenSeq(tagged)
  BY DEF MergedTags, tagged, groups
<1> QED BY <1>12, <1>13, <1>23, <1>24, <1>25

-----------------------------------------------------------------------------
(* The global ranking of the groups.                                       *)

\* Exact scores are numbers.
LEMMA TruthFacts ==
  ASSUME CaseValid, NEW key \in DocIDs
  PROVE  Truth(key) \in 1..MaxScore /\ Truth(key) \in Nat /\ key \in Nat /\ Result(key, Truth(key)) \in Results
<1> DEFINE sc == snapshot.score
           F == [DocIDs \cup LaterIDs -> 1..MaxScore]
<1>1. sc \in Seq(F) /\ sc # <<>>
  BY DEF CaseValid, ValidSnapshot
<1>2. Truth(key) = sc[1][key]
  BY DEF Truth
<1> HIDE DEF sc, F
<1>3. sc[1] \in F
  BY <1>1
<1>4. sc[1][key] \in 1..MaxScore
  BY <1>3 DEF F
<1>5. Truth(key) \in Nat /\ key \in Nat
  BY <1>2, <1>4, ConstantFacts
<1> QED BY <1>2, <1>4, <1>5 DEF Result, Results

\* Eligible documents are those that the segments own within the radius.
LEMMA EligibleFacts ==
  ASSUME CaseValid
  PROVE  /\ Eligible \subseteq DocIDs /\ IsFiniteSet(Eligible) /\ IsFiniteSet(Groups)
         /\ \A key \in Eligible : \E s \in Segments : key \in Own(s) /\ WithinRadius(Truth(key))
         /\ \A s \in Segments : \A key \in Own(s) : WithinRadius(Truth(key)) => key \in Eligible
<1>1. Eligible \subseteq DocIDs
  BY SnapshotFacts DEF Eligible
<1>2. IsFiniteSet(Eligible)
  BY <1>1, ConstantFacts, FS_Subset
<1> DEFINE f == [e \in Eligible |-> snapshot.group[e]]
<1>3. f \in Surjection(Eligible, Groups)
  <2>1. \A e \in Eligible : f[e] \in Groups
    BY DEF Groups
  <2>2. \A v \in Groups : \E e \in Eligible : f[e] = v
    BY DEF Groups
  <2>3. f \in [Eligible -> Groups]
    BY <2>1
  <2> HIDE DEF f
  <2> QED BY <2>2, <2>3 DEF Surjection
<1>4. IsFiniteSet(Groups)
  BY <1>2, <1>3, FS_Surjection
<1>5. ASSUME NEW key \in Eligible PROVE \E s \in Segments : key \in Own(s) /\ WithinRadius(Truth(key))
  <2>1. key \in Accepted /\ key \notin snapshot.null /\ WithinRadius(Truth(key))
    BY DEF Eligible
  <2>2. PICK s \in Segments : key \in snapshot.documents[s]
    BY <2>1, SnapshotFacts DEF Documents
  <2> QED BY <2>1, <2>2 DEF Own
<1>6. \A s \in Segments : \A key \in Own(s) : WithinRadius(Truth(key)) => key \in Eligible
  BY DEF Own, Eligible
<1> QED BY <1>1, <1>2, <1>4, <1>5, <1>6

\* The members of a group.
LEMMA MemberFacts ==
  ASSUME CaseValid, NEW v
  PROVE  /\ Members(v) \in SUBSET Results /\ IsFiniteSet(Members(v)) /\ (v \in Groups => Members(v) # {})
         /\ \A x \in Members(v) : x.key \in Eligible /\ snapshot.group[x.key] = v /\ x = Result(x.key, Truth(x.key))
         /\ \A key \in Eligible : snapshot.group[key] = v => Result(key, Truth(key)) \in Members(v) /\ v \in Groups
<1> DEFINE E == {e \in Eligible : snapshot.group[e] = v}
           f == [e \in E |-> Result(e, Truth(e))]
<1>1. Members(v) = {Result(e, Truth(e)) : e \in E}
  BY DEF Members
<1>2. E \subseteq Eligible /\ E \subseteq DocIDs /\ IsFiniteSet(E)
  BY EligibleFacts, FS_Subset
<1>3. \A e \in E : Result(e, Truth(e)) \in Results
  BY <1>2, TruthFacts
<1>4. Members(v) \in SUBSET Results
  BY <1>1, <1>3
<1>5. f \in Surjection(E, Members(v))
  <2>1. \A e \in E : f[e] \in Members(v)
    BY <1>1
  <2>2. \A x \in Members(v) : \E e \in E : f[e] = x
    BY <1>1
  <2>3. f \in [E -> Members(v)]
    BY <2>1
  <2> HIDE DEF f, E
  <2> QED BY <2>2, <2>3 DEF Surjection
<1>6. IsFiniteSet(Members(v))
  <2> HIDE DEF f, E
  <2> QED BY <1>2, <1>5, FS_Surjection
<1>7. ASSUME NEW x \in Members(v) PROVE x.key \in Eligible /\ snapshot.group[x.key] = v /\ x = Result(x.key, Truth(x.key))
  <2>1. PICK e \in E : x = Result(e, Truth(e))
    BY <1>1
  <2>2. x.key = e
    BY <2>1, ResultFacts
  <2> QED BY <2>1, <2>2
<1>8. ASSUME NEW key \in Eligible, snapshot.group[key] = v PROVE Result(key, Truth(key)) \in Members(v) /\ v \in Groups
  BY <1>1, <1>8 DEF Groups
<1>9. ASSUME v \in Groups PROVE Members(v) # {}
  BY <1>8, <1>9 DEF Groups
<1> QED BY <1>4, <1>6, <1>7, <1>8, <1>9

\* A finite set of results has a best one.
LEMMA BestExists ==
  ASSUME NEW S \in SUBSET Results, IsFiniteSet(S), S # {}
  PROVE  \E w \in S : \A r \in S \ {w} : Better(w, r)
<1> DEFINE R == {p \in S \X S : Better(p[2], p[1])}
<1>1. \A a, b \in S : <<a, b>> \in R <=> Better(b, a)
  OBVIOUS
<1>2. \A a \in S : a \in Results
  OBVIOUS
<1> HIDE DEF R
<1>3. Orders(R, S)
  BY <1>1, <1>2, BetterOrders DEF Orders
<1>4. PICK w : IsLast(w, R, S)
  BY <1>3, LastOfFinite
<1> QED BY <1>1, <1>4 DEF IsLast

\* The order of GroupRanking.
GroupBefore == {p \in Groups \X Groups : \E m \in Members(p[1]) : \A o \in Members(p[2]) : Better(m, o)}

\* L gives the best member of every group.
IsLeads(L) == L \in [Groups -> Results] /\ \A v \in Groups : Leads(L[v], v)

\* Every group has a best member.
LEMMA LeadsExist ==
  ASSUME CaseValid
  PROVE  \E L : IsLeads(L)
<1> DEFINE L == [v \in Groups |-> CHOOSE m : Leads(m, v)]
<1>1. ASSUME NEW v \in Groups PROVE Leads(L[v], v) /\ L[v] \in Results
  <2>1. Members(v) \in SUBSET Results /\ IsFiniteSet(Members(v)) /\ Members(v) # {}
    BY MemberFacts
  <2>2. \E w \in Members(v) : \A r \in Members(v) \ {w} : Better(w, r)
    BY <2>1, BestExists
  <2>3. \E m : Leads(m, v)
    BY <2>2 DEF Leads
  <2>4. Leads(L[v], v)
    BY <2>3
  <2> QED BY <2>1, <2>4 DEF Leads
<1>2. L \in [Groups -> Results]
  BY <1>1
<1> HIDE DEF L
<1> QED BY <1>1, <1>2 DEF IsLeads

\* The global ranking orders the groups by their best members.
LEMMA GroupRankingOrder ==
  ASSUME CaseValid, NEW L, IsLeads(L)
  PROVE  /\ \A u, v \in Groups : <<u, v>> \in GroupBefore <=> Better(L[u], L[v])
         /\ StrictlyOrders(GroupBefore, Groups)
         /\ \A v \in Groups : L[v] \in Members(v) /\ L[v] \in Results
         /\ \A v \in Groups : \A x \in Members(v) : x \in Results /\ (x = L[v] \/ Better(L[v], x))
<1>1. \A v \in Groups : L[v] \in Members(v) /\ L[v] \in Results
  BY DEF IsLeads, Leads
<1>2. \A v \in Groups : \A x \in Members(v) : x \in Results /\ (x = L[v] \/ Better(L[v], x))
  BY MemberFacts DEF IsLeads, Leads
<1>3. ASSUME NEW u \in Groups, NEW v \in Groups PROVE <<u, v>> \in GroupBefore <=> Better(L[u], L[v])
  <2>1. <<u, v>> \in GroupBefore <=> \E m \in Members(u) : \A o \in Members(v) : Better(m, o)
    BY DEF GroupBefore
  <2>2. ASSUME Better(L[u], L[v]) PROVE \A o \in Members(v) : Better(L[u], o)
    BY <1>1, <1>2, <2>2, BetterOrders
  <2>3. ASSUME NEW m \in Members(u), \A o \in Members(v) : Better(m, o) PROVE Better(L[u], L[v])
    BY <1>1, <1>2, <2>3, BetterOrders
  <2> QED BY <1>1, <2>1, <2>2, <2>3
<1>4. ASSUME NEW u \in Groups, NEW v \in Groups, u # v PROVE L[u] # L[v]
  BY <1>1, <1>4, MemberFacts
<1>5. StrictlyOrders(GroupBefore, Groups)
  BY <1>1, <1>3, <1>4, BetterOrders DEF StrictlyOrders, Orders
<1> QED BY <1>1, <1>2, <1>3, <1>5

\* Members that the merge sees.
LEMMA TagsAreMembers ==
  ASSUME CaseValid, NEW parts, GroupParts(parts), \A s \in Segments : GroupExact(s), NEW v
  PROVE  OfValue(AllTags(parts), v) \subseteq Members(v) /\ (OfValue(AllTags(parts), v) # {} => v \in Groups)
<1>1. ASSUME NEW x \in OfValue(AllTags(parts), v) PROVE x \in Members(v) /\ v \in Groups
  <2>1. PICK p \in AllTags(parts) : p.value = v /\ p.result = x
    BY DEF OfValue
  <2>2. PICK g \in AllGroups(parts) : p \in TagsOf(g)
    BY DEF AllTags
  <2>3. PICK s \in Segments : g \in Elements(parts[s])
    BY DEF AllGroups
  <2>4. g \in GroupRecord /\ GroupRun(s, g) /\ \A j \in 1..Len(g.results) : g.results[j] \in Results
    BY <2>3, GroupPartFacts
  <2>5. PICK j \in 1..Len(g.results) : x = g.results[j]
    BY <2>1, <2>2, <2>4, TagFacts
  <2>6. g.value = v
    BY <2>1, <2>2, <2>4, TagFacts
  <2>7. x \in Results /\ x.key \in Own(s) /\ snapshot.group[x.key] = v /\ x.score = Truth(x.key) /\ WithinRadius(x.score)
    BY <2>4, <2>5, <2>6 DEF GroupRun
  <2>8. x.key \in Eligible
    BY <2>7, EligibleFacts
  <2>9. x = Result(x.key, Truth(x.key))
    BY <2>7 DEF Results, Result
  <2> QED BY <2>7, <2>8, <2>9, MemberFacts
<1> QED BY <1>1

\* The best member of a group that is among the GroupCount best survives the
\* cut of its segment.
LEMMA LeadSurvives ==
  ASSUME CaseValid, NEW parts, GroupParts(parts), \A s \in Segments : GroupExact(s), NEW L, IsLeads(L),
         NEW v \in Groups, Cardinality({u \in Groups : <<u, v>> \in GroupBefore}) < request.groupCount
  PROVE  L[v] \in OfValue(AllTags(parts), v)
<1> DEFINE count == request.groupCount
           x == L[v]
           F == {u \in Groups : <<u, v>> \in GroupBefore}
<1>0. count \in Nat \ {0}
  BY DEF CaseValid, ValidRequest
<1>1. x \in Members(v) /\ x \in Results /\ \A y \in Members(v) : y \in Results /\ (y = x \/ Better(x, y))
  BY GroupRankingOrder
<1>2. x.key \in Eligible /\ snapshot.group[x.key] = v /\ x = Result(x.key, Truth(x.key))
  BY <1>1, MemberFacts
<1>3. PICK s \in Segments : x.key \in Own(s) /\ WithinRadius(Truth(x.key))
  BY <1>2, EligibleFacts
<1> DEFINE b == parts[s]
<1>4. GroupBatch(s, b)
  BY DEF GroupParts
<1>5. GroupCovers(b, count, v, x)
  BY <1>2, <1>3, <1>4 DEF GroupBatch
<1>6. b \in Seq(GroupRecord) /\ \A i, j \in 1..Len(b) : i # j => b[i].value # b[j].value
  BY <1>4 DEF GroupBatch
<1>7. \A i \in 1..Len(b) : b[i] \in Elements(b) /\ b[i] \in AllGroups(parts)
  BY DEF Elements, AllGroups
<1>8. \A i \in 1..Len(b) : b[i] \in GroupRecord /\ 1 \in 1..Len(b[i].results)
  BY <1>7, GroupPartFacts
<1>9. ASSUME NEW i \in 1..Len(b) PROVE b[i].results[1] \in OfValue(AllTags(parts), b[i].value)
  <2> DEFINE g == b[i]
             t == [value |-> g.value, result |-> g.results[1]]
  <2>1. t \in TagsOf(g)
    BY <1>8, TagFacts
  <2>2. t \in AllTags(parts)
    BY <1>7, <2>1 DEF AllTags
  <2>3. t.value = g.value /\ t.result = g.results[1]
    OBVIOUS
  <2> HIDE DEF t
  <2> QED BY <2>2, <2>3 DEF OfValue
<1>10. \A i \in 1..Len(b) : b[i].results[1] \in Members(b[i].value) /\ b[i].value \in Groups
  BY <1>9, TagsAreMembers
<1> HIDE DEF b, count, x
<1>11. CASE \E i \in 1..Len(b) : b[i].value = v /\ (b[i].results[1] = x \/ Better(b[i].results[1], x))
  <2>1. PICK i \in 1..Len(b) : b[i].value = v /\ (b[i].results[1] = x \/ Better(b[i].results[1], x))
    BY <1>11
  <2>2. b[i].results[1] \in Members(v)
    BY <1>10, <2>1
  <2>3. b[i].results[1] = x
    BY <1>1, <2>1, <2>2, BetterOrders
  <2> QED BY <1>9, <2>1, <2>3 DEF x
<1>12. CASE Len(b) = count /\ \A i \in 1..Len(b) : Better(b[i].results[1], x)
  <2> DEFINE f == [i \in 1..count |-> b[i].value]
  <2>1. ASSUME NEW i \in 1..count PROVE b[i].value \in F
    <3> DEFINE u == b[i].value
               y == b[i].results[1]
    <3>1. u \in Groups /\ y \in Members(u) /\ Better(y, x)
      BY <1>10, <1>12
    <3> HIDE DEF u, y
    <3>2. L[u] \in Results /\ y \in Results /\ (y = L[u] \/ Better(L[u], y))
      BY <3>1, GroupRankingOrder
    <3>3. Better(L[u], x)
      BY <1>1, <3>1, <3>2, BetterOrders
    <3>4. <<u, v>> \in GroupBefore
      BY <3>1, <3>3, GroupRankingOrder DEF x
    <3> QED BY <3>1, <3>4 DEF u
  <2>2. \A i, j \in 1..count : i # j => f[i] # f[j]
    BY <1>6, <1>12
  <2>3. f \in [1..count -> F]
    BY <2>1
  <2>4. IsFiniteSet(F) /\ Cardinality(F) < count
    BY EligibleFacts, FS_Subset DEF count
  <2>5. IsFiniteSet(1..count) /\ Cardinality(1..count) = count
    <3>0. count \in Int /\ 1 \in Int
      BY <1>0
    <3>1. IsFiniteSet(1..count) /\ Cardinality(1..count) = IF 1 > count THEN 0 ELSE count - 1 + 1
      BY <3>0, FS_Interval
    <3> QED BY <1>0, <3>1
  <2> HIDE DEF f, F
  <2> DEFINE I == 1..count
  <2>6. IsFiniteSet(I) /\ Cardinality(F) < Cardinality(I) /\ f \in [I -> F]
    BY <2>3, <2>4, <2>5
  <2> HIDE DEF I
  <2>7. \E i, j \in I : i # j /\ f[i] = f[j]
    BY <2>4, <2>6, FS_PigeonHole
  <2> QED BY <2>2, <2>7 DEF I
<1> QED BY <1>5, <1>11, <1>12 DEF GroupCovers

-----------------------------------------------------------------------------
(* The answer of a group query.                                            *)

MergedGroups(parts) == Accumulate(TopKPerGroup, MergedTags(parts))

\* G is what the merge accumulates.
Gathered(G, parts) ==
  /\ BestGroups(G, TopKPerGroup, AllTags(parts), GroupValues) /\ StrictlyOrders(GroupsOn(G), G)
  /\ \A g, h \in G : <<g, h>> \in GroupsOn(G) <=> Better(g.results[1], h.results[1])
  /\ \A g \in G : /\ g.results[1] \in Results /\ g.results[1] \in OfValue(AllTags(parts), g.value)
                  /\ \A x \in OfValue(AllTags(parts), g.value) : x = g.results[1] \/ Better(g.results[1], x)

\* MergeGroupResults ranks what the accumulator gathers.
LEMMA MergeGathers ==
  ASSUME CaseValid, NEW parts, GroupParts(parts)
  PROVE  /\ Gathered(MergedGroups(parts), parts)
         /\ \A count : MergeGroupResults(count, TopKPerGroup, parts) = Finish(MergedGroups(parts), count)
<1> DEFINE P == AllTags(parts)
           G == MergedGroups(parts)
<1>1. Lists(MergedTags(parts), P) /\ P \in SUBSET Tags /\ Apart(P)
  BY MergedTagsList
<1>2. \A count : MergeGroupResults(count, TopKPerGroup, parts) = Finish(G, count)
  BY DEF MergeGroupResults, MergedGroups, MergedTags, TagList
<1>3. TopKPerGroup \in Nat \ {0} /\ P \in SUBSET [value : GroupValues, result : Results]
  BY <1>1, ConstantFacts DEF Tags
<1> DEFINE T == MergedTags(parts)
<1>4. G = Accumulate(TopKPerGroup, T)
  BY DEF MergedGroups
<1> HIDE DEF P, G, T
<1>5. BestGroups(G, TopKPerGroup, P, GroupValues)
  BY <1>1, <1>3, <1>4, AccumulateGroups DEF T
<1>6. /\ StrictlyOrders(GroupsOn(G), G) /\ \A g, h \in G : <<g, h>> \in GroupsOn(G) <=> Better(g.results[1], h.results[1])
      /\ \A g \in G : /\ g.results[1] \in Results /\ g.results[1] \in OfValue(P, g.value)
                      /\ \A x \in OfValue(P, g.value) : x = g.results[1] \/ Better(g.results[1], x)
  BY <1>1, <1>3, <1>5, GroupOrder
<1> QED BY <1>2, <1>5, <1>6 DEF Gathered, G, P

\* The results of a merged group are tagged results of the segments.
LEMMA GatheredResults ==
  ASSUME CaseValid, NEW parts, GroupParts(parts), NEW G, Gathered(G, parts), NEW g \in G
  PROVE  /\ g.results \in Seq(Results) /\ Len(g.results) \in Nat \ {0} /\ DOMAIN g.results = 1..Len(g.results)
         /\ \A j \in 1..Len(g.results) : g.results[j] \in OfValue(AllTags(parts), g.value)
         /\ \A i, j \in 1..Len(g.results) : i < j => Better(g.results[i], g.results[j])
         /\ \A j \in 1..Len(g.results) : g.results[j].key \in Accepted
<1> DEFINE P == AllTags(parts)
           T == OfValue(P, g.value)
           r == g.results
<1>1. TopOf(r, TopKPerGroup, T) /\ Len(r) # 0
  BY DEF Gathered, BestGroups
<1>2. P \in SUBSET Tags
  BY MergedTagsList
<1>3. T \in SUBSET Results
  BY <1>2 DEF OfValue, Tags
<1> HIDE DEF T, r
<1>4. r \in Seq(T) /\ \A i, j \in 1..Len(r) : i < j => Better(r[i], r[j])
  BY <1>1 DEF TopOf
<1>5. r \in Seq(Results) /\ Len(r) \in Nat \ {0} /\ DOMAIN r = 1..Len(r) /\ \A j \in 1..Len(r) : r[j] \in T
  BY <1>1, <1>3, <1>4
<1>6. ASSUME NEW x \in T PROVE x.key \in Accepted
  <2>1. PICK p \in P : p.value = g.value /\ p.result = x
    BY DEF OfValue, T
  <2>2. PICK h \in AllGroups(parts) : p \in TagsOf(h)
    BY DEF AllTags
  <2>3. PICK s \in Segments : h \in Elements(parts[s])
    BY DEF AllGroups
  <2>4. h \in GroupRecord /\ \A j \in 1..Len(h.results) : h.results[j].key \in Own(s)
    BY <2>3, GroupPartFacts
  <2>5. \E j \in 1..Len(h.results) : x = h.results[j]
    BY <2>1, <2>2, <2>4, TagFacts
  <2>6. x.key \in Own(s)
    BY <2>4, <2>5
  <2> QED BY <2>6 DEF Own
<1> QED BY <1>4, <1>5, <1>6 DEF T, r

\* The place of a group in the global ranking is its place in the merge.
LEMMA GroupPlaced ==
  ASSUME CaseValid, NEW parts, GroupParts(parts), \A s \in Segments : GroupExact(s), NEW G, Gathered(G, parts),
         NEW L, IsLeads(L), NEW i \in 1..Cardinality(Groups), i <= request.groupCount
  PROVE  i <= Cardinality(G) /\ Enumerated(G, GroupsOn(G))[i].value = GroupRanking[i]
<1> DEFINE P == AllTags(parts)
           count == request.groupCount
           v == GroupRanking[i]
           B == {u \in Groups : <<u, v>> \in GroupBefore}
<1>1. IsFiniteSet(Groups) /\ StrictlyOrders(GroupBefore, Groups) /\ GroupRanking = Enumerated(Groups, GroupBefore)
  BY EligibleFacts, GroupRankingOrder DEF GroupRanking, GroupBefore
<1>2. v \in Groups /\ Cardinality(B) = i - 1
  BY <1>1, EnumeratedAt
<1>3. count \in Nat \ {0} /\ Cardinality(Groups) \in Nat /\ i \in Nat /\ i >= 1
  BY <1>1, FS_CardinalityType DEF CaseValid, ValidRequest
<1>4. IsFiniteSet(G) /\ StrictlyOrders(GroupsOn(G), G) /\ Cardinality(G) \in Nat
  BY FS_CardinalityType DEF Gathered, BestGroups
<1>5. \A g \in G : /\ g.results[1] \in Results /\ g.results[1] \in Members(g.value) /\ g.value \in Groups
  <2>1. SUFFICES ASSUME NEW g \in G PROVE g.results[1] \in Results /\ g.results[1] \in Members(g.value) /\ g.value \in Groups
    OBVIOUS
  <2>2. g.results[1] \in Results /\ g.results[1] \in OfValue(P, g.value)
    BY DEF Gathered
  <2> QED BY <2>2, TagsAreMembers
<1>6. ASSUME NEW u \in Groups, Cardinality({w \in Groups : <<w, u>> \in GroupBefore}) < count
      PROVE  \E g \in G : g.value = u /\ g.results[1] = L[u]
  <2>1. L[u] \in OfValue(P, u)
    BY <1>6, LeadSurvives
  <2>2. PICK p \in P : p.value = u
    BY <2>1 DEF OfValue
  <2>3. PICK g \in G : g.value = u
    BY <2>2 DEF Gathered, BestGroups
  <2>4. L[u] = g.results[1] \/ Better(g.results[1], L[u])
    BY <2>1, <2>3 DEF Gathered
  <2>5. g.results[1] \in Members(u) /\ g.results[1] \in Results
    BY <1>5, <2>3
  <2>6. L[u] \in Results /\ (g.results[1] = L[u] \/ Better(L[u], g.results[1]))
    BY <2>5, GroupRankingOrder
  <2>7. g.results[1] = L[u]
    BY <2>4, <2>5, <2>6, BetterOrders
  <2> QED BY <2>3, <2>7
<1>7. Cardinality(B) < count
  BY <1>2, <1>3
<1>8. PICK gv \in G : gv.value = v /\ gv.results[1] = L[v]
  BY <1>2, <1>6, <1>7
<1> DEFINE A == {g \in G : <<g, gv>> \in GroupsOn(G)}
           f == [g \in A |-> g.value]
<1>9. ASSUME NEW g \in A PROVE g.value \in B
  <2>1. g \in G /\ Better(g.results[1], L[v])
    BY <1>8 DEF Gathered
  <2>2. g.value \in Groups /\ L[g.value] \in Results /\ g.results[1] \in Results /\ L[v] \in Results
        /\ (g.results[1] = L[g.value] \/ Better(L[g.value], g.results[1]))
    BY <1>2, <1>5, <2>1, GroupRankingOrder
  <2>3. Better(L[g.value], L[v])
    BY <2>1, <2>2, BetterOrders
  <2> QED BY <1>2, <2>2, <2>3, GroupRankingOrder
<1>10. ASSUME NEW u \in B PROVE \E g \in A : g.value = u
  <2>1. u \in Groups /\ <<u, v>> \in GroupBefore
    OBVIOUS
  <2> DEFINE C == {w \in Groups : <<w, u>> \in GroupBefore}
  <2>2. Cardinality(C) < Cardinality(B)
    BY <1>1, <1>2, <2>1, RankGrows
  <2>3. Cardinality(C) \in Nat
    BY <1>1, <2>1, RankBound
  <2>4. Cardinality(C) < count
    BY <1>2, <1>3, <2>2, <2>3
  <2>5. PICK g \in G : g.value = u /\ g.results[1] = L[u]
    BY <1>6, <2>1, <2>4
  <2>6. Better(L[u], L[v])
    BY <1>2, <2>1, GroupRankingOrder
  <2>7. <<g, gv>> \in GroupsOn(G)
    BY <1>8, <2>5, <2>6 DEF Gathered
  <2> QED BY <2>5, <2>7
<1>11. \A g, h \in A : g.value = h.value => g = h
  BY DEF Gathered, BestGroups
<1>12. IsFiniteSet(A) /\ IsFiniteSet(B)
  BY <1>1, <1>4, FS_Subset
<1> HIDE DEF A, B
<1>13. Cardinality(A) = Cardinality(B)
  <2>1. f \in [A -> B] /\ \A g \in A : f[g] = g.value
    BY <1>9
  <2> HIDE DEF f
  <2>2. f \in Surjection(A, B)
    BY <1>10, <2>1 DEF Surjection
  <2>3. f \in Injection(A, B)
    BY <1>11, <2>1 DEF Injection, IsInjective
  <2> QED BY <1>12, <2>2, <2>3, FS_Surjection
<1> DEFINE E == Enumerated(G, GroupsOn(G))
<1>14. PICK j \in 1..Cardinality(G) : E[j] = gv
  BY <1>4, EnumeratedSorts
<1>15. Cardinality({g \in G : <<g, E[j]>> \in GroupsOn(G)}) = j - 1
  BY <1>4, EnumeratedAt
<1> HIDE DEF E
<1>16. Cardinality(A) = j - 1
  BY <1>14, <1>15 DEF A
<1>17. j \in Nat /\ j <= Cardinality(G)
  BY <1>4
<1>18. j = i
  BY <1>2, <1>3, <1>13, <1>16, <1>17
<1> QED BY <1>8, <1>14, <1>17, <1>18 DEF E

\* There are no other groups in the merge.
LEMMA GatheredBound ==
  ASSUME CaseValid, NEW parts, GroupParts(parts), \A s \in Segments : GroupExact(s), NEW G, Gathered(G, parts)
  PROVE  IsFiniteSet(Groups) /\ Cardinality(G) <= Cardinality(Groups) /\ Cardinality(G) \in Nat /\ Cardinality(Groups) \in Nat
<1> DEFINE f == [g \in G |-> g.value]
<1>1. \A g \in G : g.value \in Groups
  <2>1. SUFFICES ASSUME NEW g \in G PROVE g.value \in Groups
    OBVIOUS
  <2>2. g.results[1] \in OfValue(AllTags(parts), g.value)
    BY DEF Gathered
  <2> QED BY <2>2, TagsAreMembers
<1>2. \A g, h \in G : g.value = h.value => g = h
  BY DEF Gathered, BestGroups
<1>3. IsFiniteSet(Groups) /\ IsFiniteSet(G)
  BY EligibleFacts DEF Gathered, BestGroups
<1>4. f \in [G -> Groups] /\ \A g \in G : f[g] = g.value
  BY <1>1
<1> HIDE DEF f
<1>5. f \in Injection(G, Groups)
  BY <1>2, <1>4 DEF Injection, IsInjective
<1> QED BY <1>3, <1>5, FS_Injection, FS_CardinalityType

\* What a group query answers.
GroupAnswer(m) ==
  /\ [i \in DOMAIN m |-> m[i].value] = SubSeq(GroupRanking, 1, Min({request.groupCount, Len(GroupRanking)}))
  /\ \A i \in DOMAIN m :
       LET g == m[i]
       IN  /\ Range(g.results) \subseteq Members(g.value) /\ Leads(g.results[1], g.value)
           /\ \A j \in 2..Len(g.results) : Better(g.results[j - 1], g.results[j])

\* MergeGroupResults returns documents of the snapshot, and over exactly
\* searched segments the best groups in their global order.
LEMMA MergeGroups ==
  ASSUME CaseValid, NEW parts, GroupParts(parts)
  PROVE  LET m == MergeGroupResults(request.groupCount, TopKPerGroup, parts)
         IN  /\ UNION {KeysOf(m[i].results) : i \in DOMAIN m} \subseteq Accepted
             /\ (\A s \in Segments : GroupExact(s)) => GroupAnswer(m)
<1> DEFINE G == MergedGroups(parts)
           count == request.groupCount
           m == Finish(G, count)
<1>1. Gathered(G, parts) /\ MergeGroupResults(request.groupCount, TopKPerGroup, parts) = m
  BY MergeGathers
<1>2. count \in Nat \ {0}
  BY DEF CaseValid, ValidRequest
<1> HIDE DEF G, count
<1>3. IsFiniteSet(G) /\ StrictlyOrders(GroupsOn(G), G)
  BY <1>1 DEF Gathered, BestGroups
<1>4. /\ m \in Seq(G) /\ Len(m) = (IF count <= Cardinality(G) THEN count ELSE Cardinality(G))
      /\ \A i \in 1..Len(m) : i \in 1..Cardinality(G) /\ m[i] = Enumerated(G, GroupsOn(G))[i]
  BY <1>2, <1>3, FinishRanks
<1> HIDE DEF m
<1>5. Len(m) \in Nat /\ DOMAIN m = 1..Len(m) /\ \A i \in 1..Len(m) : m[i] \in G
  BY <1>4
<1>6. ASSUME NEW i \in DOMAIN m PROVE KeysOf(m[i].results) \subseteq Accepted
  <2>1. DOMAIN m[i].results = 1..Len(m[i].results) /\ \A j \in 1..Len(m[i].results) : m[i].results[j].key \in Accepted
    BY <1>1, <1>5, GatheredResults
  <2> QED BY <2>1 DEF KeysOf
<1>7. UNION {KeysOf(m[i].results) : i \in DOMAIN m} \subseteq Accepted
  BY <1>6
<1>8. ASSUME \A s \in Segments : GroupExact(s) PROVE GroupAnswer(m)
  <2>1. PICK L : IsLeads(L)
    BY LeadsExist
  <2>2. IsFiniteSet(Groups) /\ StrictlyOrders(GroupBefore, Groups) /\ GroupRanking = Enumerated(Groups, GroupBefore)
    BY <2>1, EligibleFacts, GroupRankingOrder DEF GroupRanking, GroupBefore
  <2> DEFINE N == Cardinality(Groups)
             M == Cardinality(G)
             R == GroupRanking
             p == SubSeq(R, 1, Min({count, Len(R)}))
  <2>3. R \in Seq(Groups) /\ Len(R) = N
    BY <2>2, EnumeratedSorts
  <2>4. N \in Nat /\ M \in Nat /\ M <= N
    BY <1>1, <1>8, GatheredBound
  <2>5. \A i \in 1..N : i <= count => i <= M /\ Enumerated(G, GroupsOn(G))[i].value = R[i]
    BY <1>1, <1>8, <2>1, GroupPlaced DEF count
  <2>6. /\ p \in Seq(Groups) /\ Len(p) = (IF count <= Len(R) THEN count ELSE Len(R))
        /\ \A i \in 1..Len(p) : i \in 1..Len(R) /\ p[i] = R[i]
    <3> HIDE DEF R
    <3> QED BY <1>2, <2>3, PrefixFacts
  <2>8. Len(m) = Len(p)
    <3> HIDE DEF N, M, p, R
    <3>1. CASE count <= N
      BY <1>2, <1>4, <2>3, <2>4, <2>5, <2>6, <3>1 DEF M
    <3>2. CASE count > N /\ N = 0
      BY <1>2, <1>4, <2>3, <2>4, <2>6, <3>2 DEF M
    <3>3. CASE count > N /\ N # 0
      <4>1. N <= M
        BY <1>2, <2>4, <2>5, <3>3
      <4> QED BY <1>2, <1>4, <2>3, <2>4, <2>6, <3>3, <4>1 DEF M
    <3> QED BY <1>2, <2>4, <3>1, <3>2, <3>3
  <2>9. \A i \in 1..Len(m) : m[i].value = p[i]
    <3> HIDE DEF N, M, p, R
    <3>1. SUFFICES ASSUME NEW i \in 1..Len(m) PROVE m[i].value = p[i]
      OBVIOUS
    <3>2. i \in 1..N /\ p[i] = R[i] /\ i <= count
      BY <1>2, <2>3, <2>4, <2>6, <2>8
    <3> QED BY <1>4, <2>5, <3>2
  <2>10. [i \in DOMAIN m |-> m[i].value] = p
    <3> HIDE DEF N, M, p, R
    <3> DEFINE q == [i \in DOMAIN m |-> m[i].value]
    <3>1. q = [i \in 1..Len(m) |-> p[i]]
      BY <1>5, <2>9
    <3>2. p = [i \in 1..Len(p) |-> p[i]]
      BY <2>6
    <3> HIDE DEF q
    <3> QED BY <2>8, <3>1, <3>2 DEF q
  <2>11. ASSUME NEW i \in DOMAIN m
         PROVE  /\ Range(m[i].results) \subseteq Members(m[i].value) /\ Leads(m[i].results[1], m[i].value)
                /\ \A j \in 2..Len(m[i].results) : Better(m[i].results[j - 1], m[i].results[j])
    <3> DEFINE g == m[i]
               v == m[i].value
               r == m[i].results
    <3>1. g \in G
      BY <1>5
    <3>2. /\ r \in Seq(Results) /\ Len(r) \in Nat \ {0} /\ DOMAIN r = 1..Len(r)
          /\ \A j \in 1..Len(r) : r[j] \in OfValue(AllTags(parts), v)
          /\ \A a, b \in 1..Len(r) : a < b => Better(r[a], r[b])
      BY <1>1, <3>1, GatheredResults
    <3>3. OfValue(AllTags(parts), v) \subseteq Members(v) /\ v \in Groups
      <4>1. r[1] \in OfValue(AllTags(parts), v)
        BY <3>2
      <4> QED BY <1>8, <4>1, TagsAreMembers
    <3> HIDE DEF r, v
    <3>4. Range(r) \subseteq Members(v)
      BY <3>2, <3>3 DEF Range
    <3>5. \A j \in 2..Len(r) : Better(r[j - 1], r[j])
      BY <3>2
    <3>6. v = p[i] /\ i \in 1..N /\ i <= count
      <4> HIDE DEF p, N, R
      <4> QED BY <1>2, <1>5, <2>3, <2>4, <2>6, <2>8, <2>9 DEF v
    <3>7. v = R[i]
      <4> HIDE DEF R, N, p
      <4> QED BY <1>5, <2>6, <2>8, <3>6
    <3>8. Cardinality({u \in Groups : <<u, v>> \in GroupBefore}) = i - 1
      <4>1. i \in 1..Cardinality(Groups) /\ v = Enumerated(Groups, GroupBefore)[i]
        BY <2>2, <3>6, <3>7
      <4> QED BY <2>2, <4>1, EnumeratedAt
    <3>9. Cardinality({u \in Groups : <<u, v>> \in GroupBefore}) < request.groupCount
      <4> HIDE DEF R, N, p
      <4> QED BY <1>2, <1>5, <3>6, <3>8 DEF count
    <3>10. L[v] \in OfValue(AllTags(parts), v)
      BY <1>8, <2>1, <3>3, <3>9, LeadSurvives
    <3>11. r[1] \in Results /\ r[1] \in Members(v) /\ (L[v] = r[1] \/ Better(r[1], L[v]))
      <4>1. r[1] \in Results /\ (L[v] = r[1] \/ Better(r[1], L[v]))
        BY <1>1, <3>1, <3>10 DEF Gathered, r, v
      <4> QED BY <3>2, <3>3, <4>1
    <3>12. L[v] \in Results /\ (r[1] = L[v] \/ Better(L[v], r[1]))
      BY <2>1, <3>3, <3>11, GroupRankingOrder
    <3>13. r[1] = L[v]
      BY <3>11, <3>12, BetterOrders
    <3>14. Leads(r[1], v)
      BY <2>1, <3>3, <3>13 DEF IsLeads
    <3> QED BY <3>4, <3>5, <3>14 DEF r, v
  <2> HIDE DEF p
  <2> QED BY <2>10, <2>11 DEF GroupAnswer, p, count
<1> HIDE DEF GroupAnswer
<1> QED BY <1>1, <1>7, <1>8

-----------------------------------------------------------------------------
(* A query without a target.                                               *)

\* The first TopK elements of a list.
LEMMA FilterPrefix ==
  ASSUME NEW S, NEW r \in Seq(S), TopK \in Nat
  PROVE  /\ SubSeq(r, 1, Min({TopK, Len(r)})) \in Seq(S)
         /\ Len(SubSeq(r, 1, Min({TopK, Len(r)}))) = (IF TopK <= Len(r) THEN TopK ELSE Len(r))
         /\ \A i \in 1..Len(SubSeq(r, 1, Min({TopK, Len(r)}))) :
              i \in 1..Len(r) /\ SubSeq(r, 1, Min({TopK, Len(r)}))[i] = r[i]
  BY PrefixFacts

\* filterOnlyResults: the first accepted documents.
LEMMA FilterLists ==
  ASSUME CaseValid, NEW keys, keys = Ascending({d \in Live : Unrestricted \/ d \in Accepted})
  PROVE  LET n == Min({TopK, Len(keys)})
             m == [i \in 1..n |-> Result(keys[i], 0)]
         IN  /\ keys = Ascending(Accepted) /\ Range(keys) \subseteq Live
             /\ [i \in DOMAIN m |-> m[i].key] = SubSeq(keys, 1, n)
<1> DEFINE n == Min({TopK, Len(keys)})
           m == [i \in 1..n |-> Result(keys[i], 0)]
<1>1. {d \in Live : Unrestricted \/ d \in Accepted} = Accepted
  BY SnapshotFacts
<1>2. keys = Ascending(Accepted)
  BY <1>1
<1>3. Accepted \subseteq Live /\ Accepted \in SUBSET DocIDs /\ Accepted \in SUBSET Nat
  BY SnapshotFacts, ConstantFacts
<1>4. IsFiniteSet(Accepted)
  BY <1>3, ConstantFacts, FS_Subset
<1>5. keys \in Seq(Accepted)
  BY <1>2, <1>3, <1>4, AscendingSorts
<1>6. Len(keys) \in Nat /\ TopK \in Nat /\ n = IF TopK <= Len(keys) THEN TopK ELSE Len(keys)
  BY <1>5, ConstantFacts, MinOfTwo
<1>7. Range(keys) \subseteq Live
  <2>1. \A i \in DOMAIN keys : keys[i] \in Accepted
    BY <1>5
  <2> QED BY <1>3, <2>1 DEF Range
<1>8. /\ SubSeq(keys, 1, n) \in Seq(Accepted) /\ Len(SubSeq(keys, 1, n)) = n
      /\ \A i \in 1..n : SubSeq(keys, 1, n)[i] = keys[i]
  <2> DEFINE q == SubSeq(keys, 1, Min({TopK, Len(keys)}))
  <2>1. keys \in Seq(Accepted) /\ TopK \in Nat
    BY <1>5, <1>6
  <2>2. /\ q \in Seq(Accepted) /\ Len(q) = (IF TopK <= Len(keys) THEN TopK ELSE Len(keys))
        /\ \A i \in 1..Len(q) : i \in 1..Len(keys) /\ q[i] = keys[i]
    BY <2>1, FilterPrefix
  <2>3. q = SubSeq(keys, 1, n)
    OBVIOUS
  <2> HIDE DEF q, n
  <2> QED BY <1>6, <2>2, <2>3
<1> HIDE DEF n
<1>9. DOMAIN m = 1..n /\ \A i \in 1..n : m[i].key = keys[i]
  BY ResultFacts
<1> DEFINE p == SubSeq(keys, 1, n)
<1>10. p = [i \in 1..n |-> keys[i]]
  <2> HIDE DEF p
  <2> QED BY <1>8 DEF p
<1> HIDE DEF m, p
<1>11. [i \in DOMAIN m |-> m[i].key] = p
  BY <1>9, <1>10
<1> QED BY <1>2, <1>7, <1>11 DEF m, n, p

-----------------------------------------------------------------------------
(* Sums of which at most one term counts.                                  *)

\* h adds up the terms.
Sums(h, m, add) == h[0] = 0 /\ \A n \in 1..m : h[n] = h[n - 1] + add[n]

\* Terms can be added up.
LEMMA SumExists ==
  ASSUME NEW m \in Nat, NEW add \in [1..m -> Int]
  PROVE  \E h \in [0..m -> Int] : Sums(h, m, add)
<1> DEFINE step == [p \in Int \X (1..m) |-> p[1] + add[p[2]]]
<1>1. step \in [Int \X (1..m) -> Int]
  OBVIOUS
<1>2. \A x \in Int, n \in 1..m : step[<<x, n>>] = x + add[n]
  OBVIOUS
<1> HIDE DEF step
<1>3. PICK h \in [0..m -> Int] : Unrolls(h, m, 0, step)
  <2> DEFINE X == Int
  <2>1. 0 \in X /\ step \in [X \X (1..m) -> X]
    BY <1>1
  <2> HIDE DEF X
  <2>2. \E h \in [0..m -> X] : Unrolls(h, m, 0, step)
    BY <2>1, IterationExists
  <2> QED BY <2>2 DEF X
<1>4. ASSUME NEW n \in 1..m PROVE h[n] = h[n - 1] + add[n]
  <2>1. n - 1 \in 0..m /\ h[n - 1] \in Int
    OBVIOUS
  <2> QED BY <1>2, <1>3, <2>1 DEF Unrolls
<1> QED BY <1>3, <1>4 DEF Unrolls, Sums

\* No term but one counts.
Alone(add, m, i) == \A j \in 1..m : j # i => add[j] = 0
TermOf(add, m, i) == IF i \in 1..m THEN add[i] ELSE 0

\* A sum of which only one term is not zero.
LEMMA SingleSum ==
  ASSUME NEW m \in Nat, NEW add \in [1..m -> Int], NEW h \in [0..m -> Int], Sums(h, m, add),
         NEW i \in Nat, Alone(add, m, i)
  PROVE  h[m] = TermOf(add, m, i)
<1> USE DEF Alone, TermOf
<1> DEFINE Good(n) == h[n] = IF i \in 1..n THEN add[i] ELSE 0
           Bad == {n \in 0..m : ~Good(n)}
<1>1. m \in 0..m /\ Bad \in SUBSET Nat /\ \A n \in 0..m : n \in Bad <=> ~Good(n)
  OBVIOUS
<1> HIDE DEF Bad
<1>2. SUFFICES ASSUME Bad # {} PROVE FALSE
  BY <1>1
<1>3. PICK n \in Bad : \A o \in Bad : n <= o
  BY <1>1, <1>2, LeastNat
<1>4. n \in 0..m /\ ~Good(n)
  BY <1>1 DEF Bad
<1>5. n # 0
  BY <1>4 DEF Sums
<1>6. n - 1 \in 0..m /\ n \in 1..m /\ n - 1 \notin Bad
  BY <1>3, <1>4, <1>5
<1>7. Good(n - 1)
  BY <1>1, <1>6
<1>8. h[n] = h[n - 1] + add[n]
  BY <1>6 DEF Sums
<1>9. CASE n = i
  BY <1>4, <1>6, <1>7, <1>8, <1>9
<1>10. CASE n # i
  <2>1. add[n] = 0 /\ h[n - 1] \in Int
    BY <1>6, <1>10
  <2>2. h[n] = h[n - 1] /\ (i \in 1..n <=> i \in 1..(n - 1))
    BY <1>6, <1>8, <1>10, <2>1
  <2> QED BY <1>4, <1>7, <2>2
<1> QED BY <1>9, <1>10

-----------------------------------------------------------------------------
(* Scores of a branch.                                                     *)

\* h multiplies the denominators of the ranks.
Products(h, m) == h[0] = 1 /\ \A n \in 1..m : h[n] = h[n - 1] * (RankConstant + n)

\* The denominator is the last of the products.
LEMMA DenominatorUnfolds ==
  \E h \in [0..NumCandidates -> Nat] : Products(h, NumCandidates) /\ Denominator = h[NumCandidates]
<1> DEFINE m == NumCandidates
           step == [p \in Nat \X (1..m) |-> p[1] * (RankConstant + p[2])]
           IsProduct(f) == f = [n \in 0..m |-> IF n = 0 THEN 1 ELSE f[n - 1] * (RankConstant + n)]
<1>0. m \in Nat /\ RankConstant \in Nat
  BY ConstantFacts
<1>1. step \in [Nat \X (1..m) -> Nat]
  BY <1>0
<1>2. \A x \in Nat, n \in 1..m : step[<<x, n>>] = x * (RankConstant + n)
  OBVIOUS
<1> HIDE DEF step, m
<1>3. PICK h \in [0..m -> Nat] : Unrolls(h, m, 1, step)
  BY <1>0, <1>1, IterationExists
<1>4. h[0] = 1
  BY <1>3 DEF Unrolls
<1>5. ASSUME NEW n \in 1..m PROVE h[n] = h[n - 1] * (RankConstant + n)
  <2>1. n - 1 \in 0..m /\ h[n - 1] \in Nat
    BY <1>0
  <2> QED BY <1>2, <1>3, <2>1 DEF Unrolls
<1>6. IsProduct(h)
  <2>1. ASSUME NEW n \in 0..m PROVE h[n] = IF n = 0 THEN 1 ELSE h[n - 1] * (RankConstant + n)
    <3>1. CASE n = 0
      BY <1>4, <3>1
    <3>2. CASE n # 0
      <4>1. n \in 1..m
        BY <1>0, <3>2
      <4> QED BY <1>5, <3>2, <4>1
    <3> QED BY <3>1, <3>2
  <2> QED BY <2>1
<1> DEFINE c == CHOOSE f : IsProduct(f)
<1>7. IsProduct(c)
  BY <1>6
<1>8. Denominator = c[m]
  BY DEF Denominator, m
<1> HIDE DEF c, IsProduct
<1>9. c[0] = 1 /\ \A n \in 1..m : c[n] = c[n - 1] * (RankConstant + n)
  BY <1>0, <1>7 DEF IsProduct
<1> DEFINE Bad == {n \in 0..m : c[n] # h[n]}
<1>10. Bad = {}
  <2>0. Bad \in SUBSET Nat
    BY <1>0
  <2>1. SUFFICES ASSUME Bad # {} PROVE FALSE
    OBVIOUS
  <2> HIDE DEF Bad
  <2>2. PICK n \in Bad : \A o \in Bad : n <= o
    BY <2>0, <2>1, LeastNat
  <2>3. n \in 0..m /\ c[n] # h[n] /\ n # 0
    BY <1>4, <1>9 DEF Bad
  <2>4. n \in 1..m /\ n - 1 \in 0..m /\ n - 1 \notin Bad
    BY <1>0, <2>2, <2>3
  <2>5. c[n - 1] = h[n - 1]
    BY <2>4 DEF Bad
  <2> QED BY <1>5, <1>9, <2>3, <2>4, <2>5
<1>11. c[m] = h[m]
  BY <1>0, <1>10
<1> QED BY <1>3, <1>4, <1>5, <1>8, <1>11 DEF Products, m

\* The common denominator is a multiple of each.
LEMMA DenominatorDivides ==
  ASSUME NEW r \in 1..NumCandidates
  PROVE  \E q \in Nat \ {0} : Denominator = q * (RankConstant + r)
<1> DEFINE m == NumCandidates
<1>0. m \in Nat /\ RankConstant \in Nat /\ r \in Nat /\ r >= 1 /\ r <= m
  BY ConstantFacts
<1>1. PICK h \in [0..m -> Nat] : Products(h, m) /\ Denominator = h[m]
  BY DenominatorUnfolds
<1> HIDE DEF m
<1> DEFINE Good(n) == h[n] # 0 /\ (r <= n => \E q \in Nat \ {0} : h[n] = q * (RankConstant + r))
           Bad == {n \in 0..m : ~Good(n)}
<1>2. m \in 0..m /\ Bad \in SUBSET Nat /\ \A n \in 0..m : n \in Bad <=> ~Good(n)
  <2> HIDE DEF Good
  <2> QED BY <1>0
<1> HIDE DEF Bad
<1>3. SUFFICES ASSUME Bad # {} PROVE FALSE
  BY <1>0, <1>1, <1>2 DEF m
<1>4. PICK n \in Bad : \A o \in Bad : n <= o
  BY <1>2, <1>3, LeastNat
<1>5. n \in 0..m /\ ~Good(n)
  BY <1>2 DEF Bad
<1>6. n # 0
  BY <1>0, <1>1, <1>5 DEF Products
<1>7. n - 1 \in 0..m /\ n \in 1..m /\ n - 1 \notin Bad
  BY <1>0, <1>4, <1>5, <1>6
<1>8. Good(n - 1)
  BY <1>2, <1>7
<1>9. h[n] = h[n - 1] * (RankConstant + n) /\ h[n - 1] \in Nat \ {0} /\ RankConstant + n \in Nat \ {0}
  BY <1>0, <1>1, <1>7, <1>8 DEF Products
<1>10. \A x, y \in Nat \ {0} : x * y \in Nat \ {0}
  OBVIOUS
<1>11. h[n] # 0
  BY <1>9, <1>10
<1>12. CASE r = n
  BY <1>5, <1>9, <1>11, <1>12
<1>13. CASE r < n
  <2>1. r <= n - 1
    BY <1>0, <1>7, <1>13
  <2>2. PICK q \in Nat \ {0} : h[n - 1] = q * (RankConstant + r)
    BY <1>8, <2>1
  <2> DEFINE d == RankConstant + r
             e == RankConstant + n
  <2>3. d \in Nat /\ e \in Nat \ {0}
    BY <1>0, <1>9
  <2>4. \A x, y, z \in Nat : (x * y) * z = (x * z) * y
    OBVIOUS
  <2>5. h[n - 1] * e = (q * e) * d
    <3> HIDE DEF d, e
    <3> QED BY <2>2, <2>3, <2>4 DEF d
  <2>6. q * e \in Nat \ {0}
    BY <1>10, <2>3
  <2>7. h[n] = (q * e) * (RankConstant + r)
    BY <1>9, <2>5
  <2> HIDE DEF d, e
  <2> QED BY <1>5, <1>11, <2>6, <2>7
<1>14. CASE r > n
  BY <1>0, <1>5, <1>7, <1>11, <1>14
<1> QED BY <1>0, <1>7, <1>12, <1>13, <1>14

\* The RRF score of a rank is positive and falls with the rank.
LEMMA RankScoreFalls ==
  ASSUME NEW r \in 1..NumCandidates, NEW s \in 1..NumCandidates
  PROVE  RankScore(r) \in Nat \ {0} /\ (r <= s => RankScore(r) >= RankScore(s)) /\ (r < s => RankScore(r) > RankScore(s))
<1>0. RankConstant \in Nat /\ NumCandidates \in Nat /\ r \in Nat \ {0} /\ s \in Nat \ {0}
  BY ConstantFacts
<1>1. PICK q \in Nat \ {0} : Denominator = q * (RankConstant + r)
  BY DenominatorDivides
<1>2. PICK p \in Nat \ {0} : Denominator = p * (RankConstant + s)
  BY DenominatorDivides
<1> DEFINE d == RankConstant + r
           e == RankConstant + s
<1>3. d \in Nat \ {0} /\ e \in Nat \ {0} /\ (r < s => d < e) /\ (r = s => d = e)
  BY <1>0
<1> HIDE DEF d, e
<1>4. \A x, y \in Nat \ {0} : (x * y) \div y = x
  OBVIOUS
<1>5. RankScore(r) = q /\ RankScore(s) = p
  BY <1>1, <1>2, <1>3, <1>4 DEF RankScore, d, e
<1>6. \A x, y, z, w \in Nat \ {0} : x * z = y * w /\ z < w => x > y
  <2>1. SUFFICES ASSUME NEW x \in Nat \ {0}, NEW y \in Nat \ {0}, NEW z \in Nat \ {0}, NEW w \in Nat \ {0},
                        x * z = y * w, z < w, x <= y
                 PROVE  FALSE
    OBVIOUS
  <2>2. x * z <= y * z
    BY <2>1
  <2>3. y * z < y * w
    BY <2>1
  <2> QED BY <2>1, <2>2, <2>3
<1>7. r < s => q > p
  BY <1>1, <1>2, <1>3, <1>6 DEF d, e
<1>8. r = s => q = p
  BY <1>5
<1> QED BY <1>0, <1>5, <1>7, <1>8

-----------------------------------------------------------------------------
(* Fusion.                                                                 *)

\* The result of a branch.
BranchList(b) == KeyedList(b, Accepted) /\ Len(b) <= NumCandidates
BothLists == DOMAIN lists = 1..2 /\ Len(lists) = 2 /\ BranchList(lists[1]) /\ BranchList(lists[2])

\* Accepted documents are live and finitely many.
LEMMA AcceptedFacts ==
  ASSUME CaseValid
  PROVE  Accepted \in SUBSET Nat /\ Accepted \subseteq Live /\ Accepted \subseteq DocIDs /\ IsFiniteSet(Accepted)
<1>1. Accepted \in SUBSET Nat /\ Accepted \subseteq Live /\ Accepted \subseteq DocIDs
  BY SnapshotFacts, ConstantFacts
<1> QED BY <1>1, ConstantFacts, FS_Subset

\* The types of the result of a branch and its results.
LEMMA BranchFacts ==
  ASSUME CaseValid, BothLists, NEW l \in 1..2
  PROVE  /\ Len(lists[l]) \in Nat /\ Len(lists[l]) <= NumCandidates /\ DOMAIN lists[l] = 1..Len(lists[l])
         /\ \A i \in 1..Len(lists[l]) : lists[l][i].key \in Accepted /\ lists[l][i].score \in 1..MaxScore
         /\ \A i, j \in 1..Len(lists[l]) : lists[l][i].key = lists[l][j].key => i = j
<1> DEFINE b == lists[l]
<1>1. KeyedList(b, Accepted) /\ Len(b) <= NumCandidates
  <2>1. l = 1 \/ l = 2
    OBVIOUS
  <2> QED BY <2>1 DEF BothLists, BranchList
<1>2. Accepted \in SUBSET Nat
  BY AcceptedFacts
<1> HIDE DEF b
<1>3. Len(b) \in Nat /\ b \in Seq(Results) /\ \A i \in 1..Len(b) : b[i].key \in Accepted /\ b[i].score \in 1..MaxScore
  BY <1>1, <1>2, KeyedFacts
<1>4. \A i, j \in 1..Len(b) : b[i].key = b[j].key => i = j
  BY <1>1 DEF KeyedList
<1>5. DOMAIN b = 1..Len(b)
  BY <1>3
<1> QED BY <1>1, <1>3, <1>4, <1>5 DEF b

\* The result at i of a branch is no worse than the one at j.
NoWorse(l, i, j) == IF request.reranker = "rrf" THEN i <= j ELSE lists[l][i].score <= lists[l][j].score

\* A built-in reranker with a weight for each branch.
Fusing == request.reranker = "rrf" \/ (request.reranker = "weighted" /\ Len(request.weights) = 2)

\* A contribution is a weight times a strength.
Weight(l) == IF request.reranker = "rrf" THEN 1 ELSE request.weights[l]
Strength(l, i) == IF request.reranker = "rrf" THEN RankScore(i) ELSE NormalizedScore(lists[l][i].score)

\* A strength falls with the rank or the score, and is positive where it counts.
LEMMA StrengthFalls ==
  ASSUME CaseValid, BothLists, NEW l \in 1..2, NEW i \in 1..Len(lists[l]), NEW j \in 1..Len(lists[l])
  PROVE  /\ Strength(l, i) \in Nat /\ (Counts(l, i) <=> Strength(l, i) > 0)
         /\ NoWorse(l, i, j) => Strength(l, i) >= Strength(l, j)
         /\ ~NoWorse(l, j, i) => Strength(l, i) > Strength(l, j)
<1>1. Len(lists[l]) \in Nat /\ Len(lists[l]) <= NumCandidates /\ NumCandidates \in Nat /\ MaxScore \in Nat
  BY BranchFacts, ConstantFacts
<1>2. i \in 1..NumCandidates /\ j \in 1..NumCandidates
  BY <1>1
<1>3. CASE request.reranker = "rrf"
  <2>1. Strength(l, i) = RankScore(i) /\ Strength(l, j) = RankScore(j) /\ Counts(l, i)
    BY <1>3 DEF Strength, Counts
  <2>2. RankScore(i) \in Nat \ {0} /\ (i <= j => RankScore(i) >= RankScore(j)) /\ (i < j => RankScore(i) > RankScore(j))
    BY <1>2, RankScoreFalls
  <2>3. (NoWorse(l, i, j) <=> i <= j) /\ (NoWorse(l, j, i) <=> j <= i)
    BY <1>3 DEF NoWorse
  <2> QED BY <1>2, <2>1, <2>2, <2>3
<1>4. CASE request.reranker # "rrf"
  <2> DEFINE x == lists[l][i].score
             y == lists[l][j].score
  <2>1. Strength(l, i) = MaxScore - x /\ Strength(l, j) = MaxScore - y /\ (Counts(l, i) <=> MaxScore - x > 0)
    BY <1>4 DEF Strength, NormalizedScore, Counts
  <2>2. (NoWorse(l, i, j) <=> x <= y) /\ (NoWorse(l, j, i) <=> y <= x)
    BY <1>4 DEF NoWorse
  <2>3. x \in 1..MaxScore /\ y \in 1..MaxScore
    BY BranchFacts
  <2> HIDE DEF x, y
  <2> QED BY <1>1, <2>1, <2>2, <2>3
<1> QED BY <1>3, <1>4

\* Weights are integers.
LEMMA ContributionIs ==
  ASSUME CaseValid, BothLists, Fusing, NEW l \in 1..2
  PROVE  /\ Weight(l) \in Int
         /\ \A i \in 1..Len(lists[l]) : Contribution(l, i) = Weight(l) * Strength(l, i) /\ Contribution(l, i) \in Int
<1>1. Weight(l) \in Int
  <2>1. CASE request.reranker = "rrf"
    BY <2>1 DEF Weight
  <2>2. CASE request.reranker # "rrf"
    <3>1. request.weights \in Seq(Int) /\ Len(request.weights) = 2
      BY <2>2 DEF Fusing, CaseValid, ValidRequest
    <3>2. request.weights[l] \in Int
      BY <3>1
    <3> QED BY <2>2, <3>2 DEF Weight
  <2> QED BY <2>1, <2>2
<1>2. ASSUME NEW i \in 1..Len(lists[l]) PROVE Contribution(l, i) = Weight(l) * Strength(l, i) /\ Contribution(l, i) \in Int
  <2>1. Strength(l, i) \in Nat
    BY StrengthFalls
  <2>2. CASE request.reranker = "rrf"
    <3>1. Contribution(l, i) = Strength(l, i) /\ Weight(l) = 1
      BY <2>2 DEF Contribution, Strength, Weight
    <3> QED BY <2>1, <3>1
  <2>3. CASE request.reranker # "rrf"
    <3>1. Contribution(l, i) = Weight(l) * Strength(l, i)
      BY <2>3 DEF Contribution, WeightedScore, Strength, Weight
    <3> QED BY <1>1, <2>1, <3>1
  <2> QED BY <2>2, <2>3
<1> QED BY <1>1, <1>2

\* What a branch adds to a score.
LEMMA ListScoreIs ==
  ASSUME CaseValid, BothLists, Fusing, NEW l \in 1..2, NEW key
  PROVE  /\ ListScore(l, key) \in Int
         /\ \A i \in 1..Len(lists[l]) : lists[l][i].key = key => ListScore(l, key) = Contribution(l, i)
         /\ (\A i \in 1..Len(lists[l]) : lists[l][i].key # key) => ListScore(l, key) = 0
<1> DEFINE m == Len(lists[l])
           K(i) == lists[l][i].key = key
           add == [i \in 1..m |-> IF K(i) THEN Contribution(l, i) ELSE 0]
           IsSum(f) == f = [i \in 0..m |-> IF i = 0 THEN 0 ELSE f[i - 1] + IF K(i) THEN Contribution(l, i) ELSE 0]
           c == CHOOSE f : IsSum(f)
<1>1. m \in Nat /\ \A i, j \in 1..m : K(i) /\ K(j) => i = j
  BY BranchFacts
<1>2. ListScore(l, key) = c[m]
  BY DEF ListScore
<1>3. \A i \in 1..m : Contribution(l, i) \in Int
  BY ContributionIs
<1> HIDE DEF m, K
<1>4. add \in [1..m -> Int] /\ \A i \in 1..m : add[i] = IF K(i) THEN Contribution(l, i) ELSE 0
  BY <1>3
<1> HIDE DEF add
<1>5. PICK h \in [0..m -> Int] : Sums(h, m, add)
  BY <1>1, <1>4, SumExists
<1>6. IsSum(h)
  <2>1. ASSUME NEW i \in 0..m PROVE h[i] = IF i = 0 THEN 0 ELSE h[i - 1] + IF K(i) THEN Contribution(l, i) ELSE 0
    <3>1. CASE i = 0
      BY <1>5, <3>1 DEF Sums
    <3>2. CASE i # 0
      <4>1. i \in 1..m
        BY <1>1, <3>2
      <4>2. h[i] = h[i - 1] + add[i]
        BY <1>5, <4>1 DEF Sums
      <4> QED BY <1>4, <3>2, <4>1, <4>2
    <3> QED BY <3>1, <3>2
  <2> QED BY <2>1
<1>7. IsSum(c)
  BY <1>6
<1> HIDE DEF c
<1>8. c[0] = 0 /\ \A i \in 1..m : c[i] = c[i - 1] + add[i]
  <2>1. \A i \in 0..m : c[i] = IF i = 0 THEN 0 ELSE c[i - 1] + IF K(i) THEN Contribution(l, i) ELSE 0
    BY <1>7
  <2> HIDE DEF IsSum
  <2>2. 0 \in 0..m /\ \A i \in 1..m : i \in 0..m /\ i # 0
    BY <1>1
  <2> QED BY <1>4, <2>1, <2>2
<1> HIDE DEF IsSum
<1>9. c[m] = h[m]
  <2> DEFINE Bad == {n \in 0..m : c[n] # h[n]}
  <2>0. Bad \in SUBSET Nat
    BY <1>1
  <2>1. SUFFICES ASSUME Bad # {} PROVE FALSE
    BY <1>1
  <2> HIDE DEF Bad
  <2>2. PICK n \in Bad : \A o \in Bad : n <= o
    BY <2>0, <2>1, LeastNat
  <2>3. n \in 0..m /\ c[n] # h[n] /\ n # 0
    BY <1>5, <1>8 DEF Bad, Sums
  <2>4. n \in 1..m /\ n - 1 \in 0..m /\ n - 1 \notin Bad
    BY <1>1, <2>2, <2>3
  <2>5. c[n - 1] = h[n - 1]
    BY <2>4 DEF Bad
  <2> QED BY <1>5, <1>8, <2>3, <2>4, <2>5 DEF Sums
<1>10. ListScore(l, key) = h[m] /\ h[m] \in Int
  BY <1>1, <1>2, <1>9
<1>11. ASSUME NEW k \in Nat, Alone(add, m, k) PROVE h[m] = TermOf(add, m, k)
  <2>1. m \in Nat /\ add \in [1..m -> Int] /\ h \in [0..m -> Int] /\ Sums(h, m, add)
    BY <1>1, <1>4, <1>5
  <2> QED BY <1>11, <2>1, SingleSum
<1>12. ASSUME NEW i \in 1..m, K(i) PROVE h[m] = Contribution(l, i)
  <2>1. i \in Nat /\ Alone(add, m, i)
    BY <1>1, <1>4, <1>12 DEF Alone
  <2>2. h[m] = TermOf(add, m, i)
    BY <1>11, <2>1
  <2> QED BY <1>4, <1>12, <2>2 DEF TermOf
<1>13. ASSUME \A i \in 1..m : ~K(i) PROVE h[m] = 0
  <2>1. 0 \in Nat /\ 0 \notin 1..m /\ Alone(add, m, 0)
    BY <1>1, <1>4, <1>13 DEF Alone
  <2>2. h[m] = TermOf(add, m, 0)
    BY <1>11, <2>1
  <2> QED BY <2>1, <2>2 DEF TermOf
<1> QED BY <1>10, <1>12, <1>13 DEF m, K

\* The fused score adds up both branches.
LEMMA FusedScoreIs ==
  ASSUME CaseValid, BothLists, Fusing, NEW key
  PROVE  FusedScore(key) = ListScore(1, key) + ListScore(2, key) /\ FusedScore(key) \in Int
<1> DEFINE a == ListScore(1, key)
           b == ListScore(2, key)
           m == Len(lists)
           IsTotal(f) == f = [l \in 0..m |-> IF l = 0 THEN 0 ELSE f[l - 1] + ListScore(l, key)]
           c == CHOOSE f : IsTotal(f)
           t == [l \in 0..2 |-> IF l = 0 THEN 0 ELSE IF l = 1 THEN a ELSE a + b]
<1>1. a \in Int /\ b \in Int
  BY ListScoreIs
<1>2. m = 2
  BY DEF BothLists
<1>3. FusedScore(key) = c[m]
  BY DEF FusedScore
<1> HIDE DEF m
<1>4. t[0] = 0 /\ t[1] = a /\ t[2] = a + b
  OBVIOUS
<1>5. \A l \in 0..2 : t[l] = IF l = 0 THEN 0 ELSE t[l - 1] + ListScore(l, key)
  <2>1. \A l \in 0..2 : l = 0 \/ l = 1 \/ l = 2
    OBVIOUS
  <2> HIDE DEF t
  <2>2. t[0] = 0 /\ t[1] = t[1 - 1] + ListScore(1, key) /\ t[2] = t[2 - 1] + ListScore(2, key)
    BY <1>1, <1>4
  <2> QED BY <2>1, <2>2
<1>6. t = [l \in 0..2 |-> t[l]]
  OBVIOUS
<1>7. IsTotal(t)
  <2> HIDE DEF t
  <2> QED BY <1>2, <1>5, <1>6
<1>8. IsTotal(c)
  BY <1>7
<1> HIDE DEF c, t
<1>9. \A l \in 0..2 : c[l] = IF l = 0 THEN 0 ELSE c[l - 1] + ListScore(l, key)
  BY <1>2, <1>8
<1> HIDE DEF IsTotal
<1>10. c[0] = 0 /\ c[1] = c[0] + a /\ c[2] = c[1] + b
  BY <1>9
<1> HIDE DEF a, b
<1>11. c[2] = a + b
  BY <1>1, <1>10
<1> QED BY <1>1, <1>2, <1>3, <1>11 DEF a, b

\* What a branch adds is its weight times the strength of the document, which
\* is 0 unless the branch lists it.
LEMMA StrengthExists ==
  ASSUME CaseValid, BothLists, Fusing, NEW l \in 1..2, NEW key
  PROVE  \E s \in Nat :
           /\ ListScore(l, key) = Weight(l) * s
           /\ \A i \in 1..Len(lists[l]) : lists[l][i].key = key => s = Strength(l, i)
           /\ (\A i \in 1..Len(lists[l]) : lists[l][i].key # key) => s = 0
<1> DEFINE m == Len(lists[l])
<1>1. /\ \A i \in 1..m : lists[l][i].key = key => ListScore(l, key) = Contribution(l, i)
      /\ (\A i \in 1..m : lists[l][i].key # key) => ListScore(l, key) = 0
  BY ListScoreIs
<1>2. Weight(l) \in Int /\ \A i \in 1..m : Contribution(l, i) = Weight(l) * Strength(l, i)
  BY ContributionIs
<1>3. \A i \in 1..m : Strength(l, i) \in Nat
  BY StrengthFalls
<1>4. \A i, j \in 1..m : lists[l][i].key = key /\ lists[l][j].key = key => i = j
  BY BranchFacts
<1> HIDE DEF m
<1>5. CASE \A i \in 1..m : lists[l][i].key # key
  <2>1. ListScore(l, key) = Weight(l) * 0
    BY <1>1, <1>2, <1>5
  <2> QED BY <1>5, <2>1 DEF m
<1>6. ASSUME NEW i \in 1..m, lists[l][i].key = key
      PROVE  \E s \in Nat : /\ ListScore(l, key) = Weight(l) * s
                            /\ \A j \in 1..m : lists[l][j].key = key => s = Strength(l, j)
                            /\ (\A j \in 1..m : lists[l][j].key # key) => s = 0
  <2>1. Strength(l, i) \in Nat /\ ListScore(l, key) = Weight(l) * Strength(l, i)
    BY <1>1, <1>2, <1>3, <1>6
  <2>2. \A j \in 1..m : lists[l][j].key = key => Strength(l, i) = Strength(l, j)
    BY <1>4, <1>6
  <2>3. ~\A j \in 1..m : lists[l][j].key # key
    BY <1>6
  <2> QED BY <2>1, <2>2, <2>3
<1> QED BY <1>5, <1>6 DEF m

\* A document that a branch holds as good is as strong in it.
LEMMA AsGoodStrength ==
  ASSUME CaseValid, BothLists, NEW l \in 1..2, NEW a, NEW b, NEW x \in Nat, NEW y \in Nat,
         \A i \in 1..Len(lists[l]) : lists[l][i].key = a => x = Strength(l, i),
         (\A i \in 1..Len(lists[l]) : lists[l][i].key # a) => x = 0,
         \A i \in 1..Len(lists[l]) : lists[l][i].key = b => y = Strength(l, i),
         (\A i \in 1..Len(lists[l]) : lists[l][i].key # b) => y = 0
  PROVE  AsGood(l, a, b) <=> x >= y
<1> DEFINE m == Len(lists[l])
<1>1. m \in Nat /\ DOMAIN lists[l] = 1..m
  BY BranchFacts
<1>2. AsGood(l, a, b) <=>
        \A j \in 1..m : lists[l][j].key = b /\ Counts(l, j) => \E i \in 1..m : lists[l][i].key = a /\ NoWorse(l, i, j)
  BY <1>1 DEF AsGood, NoWorse
<1>3. \A i, j \in 1..m : /\ Strength(l, i) \in Nat /\ (Counts(l, i) <=> Strength(l, i) > 0)
                         /\ NoWorse(l, i, j) => Strength(l, i) >= Strength(l, j)
                         /\ ~NoWorse(l, j, i) => Strength(l, i) > Strength(l, j)
  BY StrengthFalls
<1> HIDE DEF m
<1>4. ASSUME AsGood(l, a, b) PROVE x >= y
  <2>1. CASE \A j \in 1..m : lists[l][j].key # b
    <3>1. y = 0
      BY <2>1 DEF m
    <3> QED BY <3>1
  <2>2. ASSUME NEW j \in 1..m, lists[l][j].key = b PROVE x >= y
    <3>1. y = Strength(l, j)
      BY <2>2 DEF m
    <3>2. CASE ~Counts(l, j)
      BY <1>3, <3>1, <3>2
    <3>3. CASE Counts(l, j)
      <4>1. PICK i \in 1..m : lists[l][i].key = a /\ NoWorse(l, i, j)
        BY <1>2, <1>4, <2>2, <3>3
      <4>2. x = Strength(l, i)
        BY <4>1 DEF m
      <4> QED BY <1>3, <3>1, <4>1, <4>2
    <3> QED BY <3>2, <3>3
  <2> QED BY <2>1, <2>2
<1>5. ASSUME ~AsGood(l, a, b) PROVE ~(x >= y)
  <2>1. PICK j \in 1..m : /\ lists[l][j].key = b /\ Counts(l, j)
                          /\ ~\E i \in 1..m : lists[l][i].key = a /\ NoWorse(l, i, j)
    BY <1>2, <1>5
  <2>2. y = Strength(l, j) /\ y > 0
    <3>1. y = Strength(l, j)
      BY <2>1 DEF m
    <3> QED BY <1>3, <2>1, <3>1
  <2>3. CASE \A i \in 1..m : lists[l][i].key # a
    <3>1. x = 0
      BY <2>3 DEF m
    <3> QED BY <2>2, <3>1
  <2>4. ASSUME NEW i \in 1..m, lists[l][i].key = a PROVE ~(x >= y)
    <3>1. x = Strength(l, i)
      BY <2>4 DEF m
    <3>2. Strength(l, j) > Strength(l, i)
      BY <1>3, <2>1, <2>4
    <3>3. Strength(l, i) \in Nat /\ Strength(l, j) \in Nat
      BY <1>3
    <3> QED BY <2>2, <3>1, <3>2, <3>3
  <2> QED BY <2>3, <2>4
<1> QED BY <1>4, <1>5

\* Products with a weight.
LEMMA WeightedOrder ==
  ASSUME NEW w \in Int, NEW x \in Nat, NEW y \in Nat
  PROVE  /\ w > 0 /\ x >= y => w * x >= w * y
         /\ w > 0 /\ x > y => w * x > w * y
         /\ w < 0 /\ x <= y => w * x >= w * y
         /\ w < 0 /\ x < y => w * x > w * y
         /\ w = 0 => w * x = 0 /\ w * y = 0
         /\ w * x \in Int /\ w * y \in Int
<1>1. w * x \in Int /\ w * y \in Int /\ w * (x - y) = w * x - w * y /\ x - y \in Int
  OBVIOUS
<1> DEFINE d == x - y
<1>2. d \in Int /\ w * d = w * x - w * y /\ (x >= y <=> d >= 0) /\ (x > y <=> d > 0) /\ (x <= y <=> d <= 0) /\ (x < y <=> d < 0)
  BY <1>1
<1> HIDE DEF d
<1>3. (w > 0 /\ d >= 0 => w * d >= 0) /\ (w > 0 /\ d > 0 => w * d > 0)
  BY <1>2
<1>4. (w < 0 /\ d <= 0 => w * d >= 0) /\ (w < 0 /\ d < 0 => w * d > 0)
  BY <1>2
<1>5. w = 0 => w * x = 0 /\ w * y = 0
  OBVIOUS
<1>6. w * d >= 0 => w * x >= w * y
  BY <1>1, <1>2
<1>7. w * d > 0 => w * x > w * y
  BY <1>1, <1>2
<1> QED BY <1>1, <1>2, <1>3, <1>4, <1>5, <1>6, <1>7

\* A document that does at least as well gets at least as much.
LEMMA AtLeastScores ==
  ASSUME CaseValid, BothLists, Fusing, NEW l \in 1..2, NEW a, NEW b
  PROVE  /\ AtLeast(l, a, b) => ListScore(l, a) >= ListScore(l, b)
         /\ ~AtLeast(l, b, a) => ListScore(l, a) > ListScore(l, b)
<1> DEFINE w == Weight(l)
<1>1. w \in Int
  BY ContributionIs
<1>2. PICK x \in Nat : /\ ListScore(l, a) = w * x
                       /\ \A i \in 1..Len(lists[l]) : lists[l][i].key = a => x = Strength(l, i)
                       /\ (\A i \in 1..Len(lists[l]) : lists[l][i].key # a) => x = 0
  BY StrengthExists
<1>3. PICK y \in Nat : /\ ListScore(l, b) = w * y
                       /\ \A i \in 1..Len(lists[l]) : lists[l][i].key = b => y = Strength(l, i)
                       /\ (\A i \in 1..Len(lists[l]) : lists[l][i].key # b) => y = 0
  BY StrengthExists
<1>4. AsGood(l, a, b) <=> x >= y
  BY <1>2, <1>3, AsGoodStrength
<1>5. AsGood(l, b, a) <=> y >= x
  BY <1>2, <1>3, AsGoodStrength
<1>6. /\ AtLeast(l, a, b) <=> (w > 0 => AsGood(l, a, b)) /\ (w < 0 => AsGood(l, b, a))
      /\ AtLeast(l, b, a) <=> (w > 0 => AsGood(l, b, a)) /\ (w < 0 => AsGood(l, a, b))
  BY DEF AtLeast, Weight
<1> HIDE DEF w
<1>7. /\ w > 0 /\ x >= y => w * x >= w * y
      /\ w > 0 /\ x > y => w * x > w * y
      /\ w < 0 /\ x <= y => w * x >= w * y
      /\ w < 0 /\ x < y => w * x > w * y
      /\ w = 0 => w * x = 0 /\ w * y = 0
  BY <1>1, WeightedOrder
<1>8. ASSUME AtLeast(l, a, b) PROVE w * x >= w * y
  <2>1. (w > 0 => x >= y) /\ (w < 0 => y >= x)
    BY <1>4, <1>5, <1>6, <1>8
  <2> QED BY <1>1, <1>7, <2>1
<1>9. ASSUME ~AtLeast(l, b, a) PROVE w * x > w * y
  <2>1. (w > 0 /\ ~(y >= x)) \/ (w < 0 /\ ~(x >= y))
    BY <1>4, <1>5, <1>6, <1>9
  <2> QED BY <1>1, <1>7, <2>1
<1> QED BY <1>2, <1>3, <1>8, <1>9

\* A document that dominates another has the better fused score, or the same
\* score and the smaller primary key.
LEMMA DominatesScores ==
  ASSUME CaseValid, BothLists, Fusing, NEW a, NEW b, Dominates(a, b)
  PROVE  FusedScore(a) > FusedScore(b) \/ (FusedScore(a) = FusedScore(b) /\ a > b)
<1>1. AtLeast(1, a, b) /\ AtLeast(2, a, b) /\ (~AtLeast(1, b, a) \/ ~AtLeast(2, b, a) \/ a > b)
  <2>1. DOMAIN lists = 1..2 /\ 1 \in 1..2 /\ 2 \in 1..2 /\ \A l \in 1..2 : l = 1 \/ l = 2
    BY DEF BothLists
  <2> QED BY <2>1 DEF Dominates
<1>2. ListScore(1, a) >= ListScore(1, b) /\ ListScore(2, a) >= ListScore(2, b)
  BY <1>1, AtLeastScores
<1>3. ListScore(1, a) > ListScore(1, b) \/ ListScore(2, a) > ListScore(2, b) \/ a > b
  BY <1>1, AtLeastScores
<1>4. /\ ListScore(1, a) \in Int /\ ListScore(2, a) \in Int /\ ListScore(1, b) \in Int /\ ListScore(2, b) \in Int
      /\ FusedScore(a) = ListScore(1, a) + ListScore(2, a) /\ FusedScore(b) = ListScore(1, b) + ListScore(2, b)
  BY ListScoreIs, FusedScoreIs
<1>5. CASE a > b
  <2>1. FusedScore(a) >= FusedScore(b) /\ FusedScore(a) \in Int /\ FusedScore(b) \in Int
    BY <1>2, <1>4
  <2> QED BY <1>5, <2>1
<1>6. CASE ~(a > b)
  BY <1>2, <1>3, <1>4, <1>6
<1> QED BY <1>5, <1>6

\* Candidates are accepted documents that some branch lists.
LEMMA CandidateFacts ==
  ASSUME CaseValid, BothLists
  PROVE  /\ CandidateIDs \subseteq Accepted /\ CandidateIDs \in SUBSET Nat /\ IsFiniteSet(CandidateIDs)
         /\ \A x \in CandidateIDs : \E l \in DOMAIN lists : Listed(l, x)
<1>1. DOMAIN lists = 1..2
  BY DEF BothLists
<1>2. \A l \in 1..2 : \A i \in DOMAIN lists[l] : lists[l][i].key \in Accepted
  BY BranchFacts
<1>3. CandidateIDs \subseteq Accepted
  BY <1>1, <1>2 DEF CandidateIDs
<1>4. CandidateIDs \in SUBSET Nat /\ IsFiniteSet(CandidateIDs)
  BY <1>3, AcceptedFacts, FS_Subset
<1>5. \A x \in CandidateIDs : \E l \in DOMAIN lists : Listed(l, x)
  BY DEF CandidateIDs, Listed, KeysOf
<1> QED BY <1>3, <1>4, <1>5

\* The order of scoreBasedRerank.
FusedBefore ==
  {p \in CandidateIDs \X CandidateIDs :
     FusedScore(p[1]) > FusedScore(p[2]) \/ (FusedScore(p[1]) = FusedScore(p[2]) /\ p[1] > p[2])}

\* scoreBasedRerank sorts by a strict order that respects dominance.
LEMMA FusedOrder ==
  ASSUME CaseValid, BothLists, Fusing
  PROVE  /\ StrictlyOrders(FusedBefore, CandidateIDs)
         /\ \A a, b \in CandidateIDs : Dominates(a, b) => <<a, b>> \in FusedBefore
         /\ Fused = SubSeq(Enumerated(CandidateIDs, FusedBefore), 1, Min({TopK, Len(Enumerated(CandidateIDs, FusedBefore))}))
<1>1. \A x \in CandidateIDs : x \in Nat /\ FusedScore(x) \in Int
  BY CandidateFacts, FusedScoreIs
<1>2. \A a, b \in CandidateIDs : <<a, b>> \in FusedBefore <=> (FusedScore(a) > FusedScore(b) \/ (FusedScore(a) = FusedScore(b) /\ a > b))
  BY DEF FusedBefore
<1>3. StrictlyOrders(FusedBefore, CandidateIDs)
  BY <1>1, <1>2 DEF StrictlyOrders, Orders
<1>4. \A a, b \in CandidateIDs : Dominates(a, b) => <<a, b>> \in FusedBefore
  BY <1>2, DominatesScores
<1>5. Fused = SubSeq(Enumerated(CandidateIDs, FusedBefore), 1, Min({TopK, Len(Enumerated(CandidateIDs, FusedBefore))}))
  BY DEF Fused, FusedBefore
<1> QED BY <1>3, <1>4, <1>5

\* The output of a built-in reranker.
FusedAnswer(keys) ==
  /\ Len(keys) = Min({TopK, Cardinality(CandidateIDs)})
  /\ \A a, b \in CandidateIDs : Dominates(a, b) =>
       \A j \in DOMAIN keys : keys[j] = b => \E i \in 1..j : i < j /\ keys[i] = a

\* Keys that name candidates, each once.
NamesCandidates(keys) ==
  /\ \A i, j \in DOMAIN keys : i # j => keys[i] # keys[j]
  /\ \A i \in DOMAIN keys : \E l \in DOMAIN lists : Listed(l, keys[i])
  /\ \A i \in DOMAIN keys : keys[i] \in Accepted

\* The output of a built-in reranker is ordered, full and valid.
LEMMA FusedIsAnswer ==
  ASSUME CaseValid, BothLists, Fusing
  PROVE  FusedAnswer(Fused) /\ ValidReranked(Fused)
<1> DEFINE S == CandidateIDs
           R == FusedBefore
           e == Enumerated(S, R)
           f == Fused
<1>1. IsFiniteSet(S) /\ StrictlyOrders(R, S) /\ \A a, b \in S : Dominates(a, b) => <<a, b>> \in R
  BY CandidateFacts, FusedOrder
<1>2. /\ e \in Seq(S) /\ Len(e) = Cardinality(S) /\ \A i, j \in 1..Cardinality(S) : i < j => <<e[i], e[j]>> \in R
      /\ \A x \in S : \E i \in 1..Cardinality(S) : e[i] = x
  BY <1>1, EnumeratedSorts
<1>3. TopK \in Nat \ {0} /\ Cardinality(S) \in Nat
  BY <1>1, ConstantFacts, FS_CardinalityType
<1>4. f = SubSeq(e, 1, Min({TopK, Len(e)}))
  BY FusedOrder
<1> HIDE DEF e
<1>5. /\ f \in Seq(S) /\ Len(f) = (IF TopK <= Len(e) THEN TopK ELSE Len(e))
      /\ \A i \in 1..Len(f) : i \in 1..Len(e) /\ f[i] = e[i]
  <2>1. LET p == SubSeq(e, 1, Min({TopK, Len(e)}))
        IN  /\ p \in Seq(S) /\ Len(p) = (IF TopK <= Len(e) THEN TopK ELSE Len(e))
            /\ \A i \in 1..Len(p) : i \in 1..Len(e) /\ p[i] = e[i]
    BY <1>2, <1>3, PrefixFacts
  <2> HIDE DEF f
  <2> QED BY <1>4, <2>1
<1>6. Min({TopK, Cardinality(S)}) = IF TopK <= Cardinality(S) THEN TopK ELSE Cardinality(S)
  BY <1>3, MinOfTwo
<1> HIDE DEF f, S, R
<1>7. Len(f) = Min({TopK, Cardinality(S)}) /\ Len(f) <= TopK /\ DOMAIN f = 1..Len(f) /\ Len(f) \in Nat
  BY <1>2, <1>3, <1>5, <1>6
<1>8. \A i \in 1..Len(f) : f[i] \in S /\ i \in 1..Cardinality(S) /\ f[i] = e[i]
  BY <1>2, <1>5
<1>9. \A i, j \in 1..Len(f) : i < j => <<f[i], f[j]>> \in R
  BY <1>2, <1>8
<1>10. \A i, j \in 1..Len(f) : i # j => f[i] # f[j]
  <2>1. SUFFICES ASSUME NEW i \in 1..Len(f), NEW j \in 1..Len(f), i < j PROVE f[i] # f[j]
    <3>1. \A i, j \in 1..Len(f) : i # j => i < j \/ j < i
      BY <1>7
    <3> QED BY <3>1
  <2>2. <<f[i], f[j]>> \in R /\ f[i] \in S
    BY <1>8, <1>9, <2>1
  <2> QED BY <1>1, <2>2 DEF StrictlyOrders
<1>11. ASSUME NEW a \in S, NEW b \in S, Dominates(a, b), NEW j \in DOMAIN f, f[j] = b PROVE \E i \in 1..j : i < j /\ f[i] = a
  <2>1. <<a, b>> \in R
    BY <1>1, <1>11
  <2>2. PICK i \in 1..Cardinality(S) : e[i] = a
    BY <1>2
  <2>3. j \in 1..Len(f) /\ e[j] = b /\ j \in 1..Cardinality(S)
    BY <1>7, <1>8, <1>11
  <2>4. i # j
    BY <1>1, <2>1, <2>2, <2>3 DEF StrictlyOrders
  <2>5. ~(j < i)
    <3>1. SUFFICES ASSUME j < i PROVE FALSE
      OBVIOUS
    <3>2. <<b, a>> \in R
      BY <1>2, <2>2, <2>3, <3>1
    <3>3. <<a, a>> \in R
      BY <1>1, <2>1, <3>2 DEF StrictlyOrders, Orders
    <3> QED BY <1>1, <3>3 DEF StrictlyOrders
  <2>6. i < j /\ i \in 1..j /\ i \in 1..Len(f)
    BY <1>3, <1>7, <2>3, <2>4, <2>5
  <2> QED BY <1>8, <2>2, <2>6
<1>12. FusedAnswer(f)
  BY <1>7, <1>11 DEF FusedAnswer, S
<1>13. Range(f) \subseteq S
  BY <1>7, <1>8 DEF Range
<1>14. IsInjective(f)
  BY <1>7, <1>10 DEF IsInjective
<1> QED BY <1>7, <1>12, <1>13, <1>14 DEF ValidReranked, f, S

\* validateAndProjectReranked.
LEMMA ValidNames ==
  ASSUME CaseValid, BothLists, NEW keys, ValidReranked(keys)
  PROVE  NamesCandidates(keys)
<1>1. \A i \in DOMAIN keys : keys[i] \in CandidateIDs
  BY DEF ValidReranked, Range
<1>2. \A i, j \in DOMAIN keys : i # j => keys[i] # keys[j]
  BY DEF ValidReranked, IsInjective
<1> QED BY <1>1, <1>2, CandidateFacts DEF NamesCandidates

-----------------------------------------------------------------------------
(* Nothing that is said of a query depends on more than its snapshot, its  *)
(* request and what the formula names.                                     *)

SameCase == UNCHANGED <<snapshot, request>>

\* Documents, visibility and exact scores.
LEMMA SameVisibility ==
  ASSUME SameCase
  PROVE  /\ CaseValid' <=> CaseValid
         /\ Segments' = Segments /\ Live' = Live /\ Accepted' = Accepted /\ Limit' = Limit
         /\ \A s : Own(s)' = Own(s)
         /\ \A s, st : Holding(s, st)' <=> Holding(s, st)
         /\ \A x : WithinRadius(x)' <=> WithinRadius(x)
         /\ \A key : Truth(key)' = Truth(key)
<1>1. snapshot' = snapshot /\ request' = request
  BY DEF SameCase
<1>2. CaseValid' <=> CaseValid
  BY <1>1 DEF CaseValid, ValidSnapshot, ValidRequest
<1>3. Segments' = Segments
  BY <1>1 DEF Segments
<1>4. Documents' = Documents
  BY <1>1, <1>3 DEF Documents
<1>5. Live' = Live
  BY <1>1, <1>4 DEF Live
<1>6. Accepted' = Accepted
  BY <1>1, <1>5 DEF Accepted
<1>7. Limit' = Limit
  BY <1>1 DEF Limit
<1>8. \A s : Own(s)' = Own(s)
  BY <1>1, <1>6 DEF Own
<1>9. \A s, st : Holding(s, st)' <=> Holding(s, st)
  BY <1>1 DEF Holding
<1>10. \A x : WithinRadius(x)' <=> WithinRadius(x)
  BY <1>1 DEF WithinRadius
<1>11. \A key : Truth(key)' = Truth(key)
  BY <1>1 DEF Truth
<1> QED BY <1>2, <1>3, <1>5, <1>6, <1>7, <1>8, <1>9, <1>10, <1>11

\* How the segments are searched.
LEMMA SameSearch ==
  ASSUME SameCase
  PROVE  /\ \A s : (Codes(s)' <=> Codes(s)) /\ (Refined(s)' <=> Refined(s)) /\ (Trusted(s)' <=> Trusted(s))
         /\ \A s : (Scanned(s)' <=> Scanned(s)) /\ (GroupScanned(s)' <=> GroupScanned(s)) /\ (GroupExact(s)' <=> GroupExact(s))
         /\ \A s, k : SearchedExactly(s, k)' <=> SearchedExactly(s, k)
<1>1. snapshot' = snapshot /\ request' = request
  BY DEF SameCase
<1>2. Accepted' = Accepted /\ Live' = Live
  BY SameVisibility
<1>3. \A s : Writing(s)' <=> Writing(s)
  BY <1>1 DEF Writing
<1>4. \A s : (WriterFlat(s)' <=> WriterFlat(s)) /\ (Codes(s)' <=> Codes(s))
  BY <1>1, <1>3 DEF WriterFlat, Codes, Quantized
<1>5. \A s : (Refined(s)' <=> Refined(s)) /\ (Trusted(s)' <=> Trusted(s))
  BY <1>1, <1>4 DEF Refined, Trusted
<1>6. \A m, t : Few(m, t)' <=> Few(m, t)
  BY <1>1 DEF Few
<1>7. \A s : BruteForce(s)' <=> BruteForce(s)
  BY <1>1, <1>2, <1>6 DEF BruteForce
<1>8. \A s : Linear(s)' <=> Linear(s)
  BY <1>1, <1>7 DEF Linear
<1>9. \A s : GroupLinear(s)' <=> GroupLinear(s)
  BY <1>2, <1>6, <1>8 DEF GroupLinear
<1>10. \A s : (Scanned(s)' <=> Scanned(s)) /\ (GroupScanned(s)' <=> GroupScanned(s))
  BY <1>1, <1>4, <1>8, <1>9 DEF Scanned, GroupScanned
<1>11. \A s : GroupExact(s)' <=> GroupExact(s)
  BY <1>5, <1>10 DEF GroupExact
<1>12. \A s, k : SearchedExactly(s, k)' <=> SearchedExactly(s, k)
  BY <1>4, <1>5, <1>10 DEF SearchedExactly
<1> QED BY <1>4, <1>5, <1>10, <1>11, <1>12

\* Partial results.
LEMMA SameBatches ==
  ASSUME SameCase
  PROVE  /\ \A s, b : VectorBatch(s, b)' <=> VectorBatch(s, b)
         /\ \A s, b : CandidateBatch(s, b)' <=> CandidateBatch(s, b)
         /\ \A s, b : TextBatch(s, b)' <=> TextBatch(s, b)
         /\ \A s, b : GroupBatch(s, b)' <=> GroupBatch(s, b)
<1>1. snapshot' = snapshot /\ request' = request
  BY DEF SameCase
<1>2. \A s, b : SoundBatch(s, b)' <=> SoundBatch(s, b)
  BY SameVisibility, SameSearch DEF SoundBatch
<1>3. \A s, b : CompleteBatch(s, b)' <=> CompleteBatch(s, b)
  BY SameVisibility, SameSearch DEF CompleteBatch
<1>4. \A s, b : VectorBatch(s, b)' <=> VectorBatch(s, b)
  BY <1>2, <1>3 DEF VectorBatch
<1>5. \A s, b : CandidateBatch(s, b)' <=> CandidateBatch(s, b)
  BY SameVisibility, SameSearch DEF CandidateBatch
<1>6. \A s, b : TextBatch(s, b)' <=> TextBatch(s, b)
  BY <1>1, SameVisibility DEF TextBatch
<1>7. GroupRecord' = GroupRecord
  <2>1. GroupValues' = GroupValues
    BY <1>1 DEF GroupValues
  <2> QED BY <2>1 DEF GroupRecord
<1>8. \A s, g : GroupRun(s, g)' <=> GroupRun(s, g)
  BY <1>1, SameVisibility, SameSearch DEF GroupRun
<1>9. \A s, b : GroupBatch(s, b)' <=> GroupBatch(s, b)
  BY <1>1, <1>7, <1>8, SameVisibility, SameSearch DEF GroupBatch
<1> QED BY <1>4, <1>5, <1>6, <1>9

\* Answers of queries and group queries.
LEMMA SameAnswers ==
  ASSUME SameCase
  PROVE  /\ \A r : SoundResults(r)' <=> SoundResults(r)
         /\ \A r, k : CompleteResults(r, k)' <=> CompleteResults(r, k)
         /\ \A m : GroupAnswer(m)' <=> GroupAnswer(m)
<1>1. snapshot' = snapshot /\ request' = request
  BY DEF SameCase
<1>2. \A r : SoundResults(r)' <=> SoundResults(r)
  BY <1>1, SameVisibility, SameSearch DEF SoundResults
<1>3. \A r, k : CompleteResults(r, k)' <=> CompleteResults(r, k)
  BY <1>1, SameVisibility, SameSearch DEF CompleteResults
<1>4. Eligible' = Eligible
  BY <1>1, SameVisibility DEF Eligible
<1>5. \A v : Members(v)' = Members(v)
  BY <1>1, <1>4, SameVisibility DEF Members
<1>6. \A m, v : Leads(m, v)' <=> Leads(m, v)
  BY <1>5 DEF Leads
<1>7. Groups' = Groups
  BY <1>1, <1>4 DEF Groups
<1>8. GroupBefore' = GroupBefore
  BY <1>5, <1>7 DEF GroupBefore
<1>9. GroupRanking = Enumerated(Groups, GroupBefore) /\ GroupRanking' = Enumerated(Groups', GroupBefore')
  BY DEF GroupRanking, GroupBefore
<1>10. GroupRanking' = GroupRanking
  BY <1>7, <1>8, <1>9
<1>11. \A m : GroupAnswer(m)' <=> GroupAnswer(m)
  BY <1>1, <1>5, <1>6, <1>10 DEF GroupAnswer
<1> QED BY <1>2, <1>3, <1>11

\* Fused answers.
LEMMA SameFusion ==
  ASSUME SameCase, lists' = lists
  PROVE  \A keys : (FusedAnswer(keys)' <=> FusedAnswer(keys)) /\ (NamesCandidates(keys)' <=> NamesCandidates(keys))
<1>1. request' = request /\ Accepted' = Accepted /\ lists' = lists
  BY SameVisibility DEF SameCase
<1>2. CandidateIDs' = CandidateIDs
  BY <1>1 DEF CandidateIDs
<1>3. \A l, a, b : AtLeast(l, a, b)' <=> AtLeast(l, a, b)
  <2>1. \A l, i : Counts(l, i)' <=> Counts(l, i)
    BY <1>1 DEF Counts, NormalizedScore
  <2>2. \A l, a, b : AsGood(l, a, b)' <=> AsGood(l, a, b)
    BY <1>1, <2>1 DEF AsGood
  <2> QED BY <1>1, <2>2 DEF AtLeast
<1>4. \A a, b : Dominates(a, b)' <=> Dominates(a, b)
  BY <1>1, <1>3 DEF Dominates
<1>5. \A l, key : Listed(l, key)' <=> Listed(l, key)
  BY <1>1 DEF Listed, KeysOf
<1>6. \A keys : FusedAnswer(keys)' <=> FusedAnswer(keys)
  BY <1>2, <1>4 DEF FusedAnswer
<1>7. \A keys : NamesCandidates(keys)' <=> NamesCandidates(keys)
  BY <1>1, <1>5 DEF NamesCandidates
<1> QED BY <1>6, <1>7

-----------------------------------------------------------------------------
(* The inductive invariant of a query.                                     *)

StorageHolds == storage = [s \in Segments |-> storage[s]] /\ \A s \in Segments : Holding(s, storage[s])

\* What a finished task hands to the merge of its branch.
Handed(s, b) ==
  /\ request.op = "query" \/ (request.op = "multi" /\ branch = 1) => VectorBatch(s, b)
  /\ request.op = "multi" /\ branch = 2 => TextBatch(s, b)
  /\ request.op = "group" => GroupBatch(s, b)

TaskHolds(s) ==
  /\ stage[s] = "refining" => branch = 1 /\ request.op \in {"query", "multi"} /\ CandidateBatch(s, candidates[s])
  /\ stage[s] = "done" => Handed(s, batches[s])

TasksHold ==
  /\ stage = [s \in Segments |-> stage[s]] /\ candidates = [s \in Segments |-> candidates[s]]
  /\ batches = [s \in Segments |-> batches[s]]
  /\ \A s \in Segments : TaskHolds(s)

BranchHolds ==
  /\ lists \in Seq(Seq(Results)) /\ \A l \in 1..Len(lists) : BranchList(lists[l])
  /\ (branch = 1 /\ lists = <<>>) \/ (branch = 2 /\ request.op = "multi" /\ Len(lists) \in {1, 2})

FirstList == Len(lists) = 1 => SoundResults(lists[1]) /\ CompleteResults(lists[1], NumCandidates)

FilterAnswer(r) ==
  LET keys == Ascending(Accepted) IN [i \in DOMAIN r |-> r[i].key] = SubSeq(keys, 1, Min({TopK, Len(keys)}))

\* The call returns o: the parts of AnswersExact and FusionOrdered.
Answered(o) ==
  /\ o.status # "disappeared"
  /\ o.status = "ok" /\ request.op = "query" => SoundResults(o.results) /\ CompleteResults(o.results, TopK)
  /\ o.status = "ok" /\ request.op = "filter" => FilterAnswer(o.results)
  /\ o.status = "ok" /\ request.op = "group" /\ (\A s \in Segments : GroupExact(s)) => GroupAnswer(o.results)

Reranked(o) ==
  request.op = "multi" /\ Len(lists) = 2 /\ o # Running =>
    /\ request.reranker # "callback" /\ o.status # "error" => o.status = "ok" /\ FusedAnswer(o.results)
    /\ o.status = "ok" => NamesCandidates(o.results)

QueryInv ==
  /\ CaseValid /\ StorageHolds /\ TasksHold /\ BranchHolds /\ FirstList
  /\ Answered(outcome) /\ Reranked(outcome)

\* The invariant states both properties of the answers.
LEMMA QueryInvImplies ==
  QueryInv => AnswersExact /\ FusionOrdered
<1> SUFFICES ASSUME QueryInv PROVE AnswersExact /\ FusionOrdered
  OBVIOUS
<1>1. Answered(outcome) /\ FirstList /\ Reranked(outcome)
  BY DEF QueryInv
<1>2. GroupsExact <=> outcome.status = "ok" /\ request.op = "group" /\ \A s \in Segments : GroupExact(s)
  BY DEF GroupsExact, GroupExact
<1>3. AnswersExact
  BY <1>1, <1>2 DEF Answered, FirstList, FilterAnswer, GroupAnswer, AnswersExact
<1>4. FusionOrdered
  BY <1>1 DEF Reranked, FusedAnswer, NamesCandidates, FusionOrdered
<1> QED BY <1>3, <1>4

\* The invariant holds when the query begins.
LEMMA QueryStarts ==
  QueryInit => QueryInv
<1> SUFFICES ASSUME QueryInit PROVE QueryInv
  OBVIOUS
<1>1. PICK i \in DOMAIN Cases : \E case \in Cases[i] : snapshot = case.snapshot /\ request = case.request
  BY DEF QueryInit
<1>2. PICK case \in Cases[i] : snapshot = case.snapshot /\ request = case.request
  BY <1>1
<1>3. CaseValid
  BY <1>2, CasesValid DEF CaseValid
<1>4. \A s \in Segments : storage[s] = snapshot.documents[s] \ snapshot.null
  BY DEF QueryInit
<1>5. StorageHolds
  BY <1>4 DEF QueryInit, StorageHolds, Holding
<1>6. \A s \in Segments : stage[s] = "waiting"
  BY DEF QueryInit
<1>7. TasksHold
  BY <1>6 DEF QueryInit, TasksHold, TaskHolds
<1>8. lists = <<>> /\ branch = 1 /\ outcome = Running
  BY DEF QueryInit
<1>9. BranchHolds
  BY <1>8 DEF BranchHolds
<1>10. Len(lists) = 0
  BY <1>8
<1>11. FirstList
  BY <1>10 DEF FirstList
<1>12. Answered(outcome) /\ Reranked(outcome)
  BY <1>8 DEF Answered, Reranked, Running
<1> QED BY <1>3, <1>5, <1>7, <1>9, <1>11, <1>12 DEF QueryInv

-----------------------------------------------------------------------------
(* What a step leaves alone.                                               *)

\* Indexes.
LEMMA SameStorage ==
  ASSUME SameCase, storage' = storage, StorageHolds
  PROVE  StorageHolds'
BY SameVisibility DEF StorageHolds

\* One task.
LEMMA SameTask ==
  ASSUME SameCase, branch' = branch, NEW s, TaskHolds(s), stage'[s] = stage[s], candidates'[s] = candidates[s],
         batches'[s] = batches[s]
  PROVE  TaskHolds(s)'
<1>1. request' = request
  BY DEF SameCase
<1>2. \A b : Handed(s, b)' <=> Handed(s, b)
  BY <1>1, SameBatches DEF Handed
<1> QED BY <1>1, <1>2, SameBatches DEF TaskHolds

\* All tasks.
LEMMA SameTasks ==
  ASSUME SameCase, UNCHANGED <<branch, stage, candidates, batches>>, TasksHold
  PROVE  TasksHold'
<1>1. Segments' = Segments
  BY SameVisibility
<1>2. \A s \in Segments : TaskHolds(s)'
  BY SameTask DEF TasksHold
<1> QED BY <1>1, <1>2 DEF TasksHold

\* A step of one task.
LEMMA OneTask ==
  ASSUME SameCase, branch' = branch, TasksHold, NEW s \in Segments, TaskHolds(s)', NEW a, NEW c, NEW b,
         stage' = [stage EXCEPT ![s] = a], candidates' = [candidates EXCEPT ![s] = c], batches' = [batches EXCEPT ![s] = b]
  PROVE  TasksHold'
<1>1. Segments' = Segments
  BY SameVisibility
<1>2. /\ stage = [t \in Segments |-> stage[t]] /\ candidates = [t \in Segments |-> candidates[t]]
      /\ batches = [t \in Segments |-> batches[t]]
  BY DEF TasksHold
<1>3. /\ stage' = [t \in Segments |-> stage'[t]] /\ candidates' = [t \in Segments |-> candidates'[t]]
      /\ batches' = [t \in Segments |-> batches'[t]]
  BY <1>2
<1>4. ASSUME NEW t \in Segments, t # s PROVE TaskHolds(t)'
  <2>1. stage'[t] = stage[t] /\ candidates'[t] = candidates[t] /\ batches'[t] = batches[t]
    BY <1>2, <1>4
  <2> QED BY <2>1, SameTask DEF TasksHold
<1> QED BY <1>1, <1>3, <1>4 DEF TasksHold

\* The branches so far.
LEMMA SameBranch ==
  ASSUME SameCase, UNCHANGED <<branch, lists>>, BranchHolds, FirstList
  PROVE  BranchHolds' /\ FirstList'
<1>1. request' = request /\ branch' = branch /\ lists' = lists /\ Accepted' = Accepted
  BY SameVisibility DEF SameCase
<1>2. \A b : BranchList(b)' <=> BranchList(b)
  BY <1>1 DEF BranchList
<1>3. BranchHolds'
  BY <1>1, <1>2 DEF BranchHolds
<1>4. FirstList'
  BY <1>1, SameAnswers DEF FirstList
<1> QED BY <1>3, <1>4

\* What the call returns does not depend on the tasks.
LEMMA SameOutcomes ==
  ASSUME SameCase
  PROVE  \A o : Answered(o)' <=> Answered(o)
<1>1. request' = request /\ Accepted' = Accepted /\ Segments' = Segments
  BY SameVisibility DEF SameCase
<1>2. \A r : FilterAnswer(r)' <=> FilterAnswer(r)
  BY <1>1 DEF FilterAnswer
<1> QED BY <1>1, <1>2, SameAnswers, SameSearch DEF Answered

\* What a reranker returned.
LEMMA SameReranked ==
  ASSUME SameCase, lists' = lists
  PROVE  \A o : Reranked(o)' <=> Reranked(o)
<1>1. request' = request /\ Running' = Running /\ lists' = lists
  BY DEF SameCase, Running
<1> QED BY <1>1, SameFusion DEF Reranked

\* What the call returned.
LEMMA SameOutcome ==
  ASSUME SameCase, UNCHANGED <<lists, outcome>>, Answered(outcome), Reranked(outcome)
  PROVE  Answered(outcome)' /\ Reranked(outcome)'
BY SameOutcomes, SameReranked

-----------------------------------------------------------------------------
(* The actions.                                                            *)

\* A step of one task changes no answer.
LEMMA TaskStep ==
  ASSUME QueryInv, NEW s \in Segments, UNCHANGED <<snapshot, request, storage, branch, lists, outcome>>, NEW a, NEW c, NEW b,
         stage' = [stage EXCEPT ![s] = a], candidates' = [candidates EXCEPT ![s] = c], batches' = [batches EXCEPT ![s] = b],
         a = "refining" => branch = 1 /\ request.op \in {"query", "multi"} /\ CandidateBatch(s, c),
         a = "done" => Handed(s, b)
  PROVE  QueryInv'
<1>1. SameCase
  BY DEF SameCase
<1>2. CaseValid /\ StorageHolds /\ TasksHold /\ BranchHolds /\ FirstList /\ Answered(outcome) /\ Reranked(outcome)
  BY DEF QueryInv
<1>3. CaseValid' /\ StorageHolds' /\ BranchHolds' /\ FirstList' /\ Answered(outcome)' /\ Reranked(outcome)'
  BY <1>1, <1>2, SameVisibility, SameStorage, SameBranch, SameOutcome
<1>4. stage'[s] = a /\ candidates'[s] = c /\ batches'[s] = b
  BY <1>2 DEF TasksHold
<1>5. request' = request /\ branch' = branch
  OBVIOUS
<1>6. TaskHolds(s)'
  <2>1. \A x : Handed(s, x)' <=> Handed(s, x)
    BY <1>1, <1>5, SameBatches DEF Handed
  <2>2. a = "refining" => (branch = 1)' /\ (request.op \in {"query", "multi"})' /\ CandidateBatch(s, candidates[s])'
    BY <1>1, <1>4, <1>5, SameBatches
  <2>3. a = "done" => Handed(s, batches[s])'
    BY <1>4, <2>1
  <2> QED BY <1>4, <2>2, <2>3 DEF TaskHolds
<1>7. TasksHold'
  BY <1>1, <1>2, <1>5, <1>6, OneTask
<1> QED BY <1>3, <1>7 DEF QueryInv

\* A function is not changed where it keeps its value.
LEMMA SameAt ==
  ASSUME NEW f, NEW S, f = [s \in S |-> f[s]], NEW s \in S
  PROVE  f = [f EXCEPT ![s] = f[s]]
OBVIOUS

\* A task begins or fails.
LEMMA ClaimHolds ==
  ASSUME QueryInv, NEW s \in Segments, Claim(s) \/ FailTask(s)
  PROVE  QueryInv'
<1>1. TasksHold
  BY DEF QueryInv
<1>2. candidates = [candidates EXCEPT ![s] = candidates[s]] /\ batches = [batches EXCEPT ![s] = batches[s]]
  BY <1>1, SameAt DEF TasksHold
<1>3. UNCHANGED <<snapshot, request, storage, branch, lists, outcome>> /\ candidates' = candidates /\ batches' = batches
  BY DEF Claim, FailTask
<1>4. candidates' = [candidates EXCEPT ![s] = candidates[s]] /\ batches' = [batches EXCEPT ![s] = batches[s]]
  BY <1>2, <1>3
<1>5. PICK a \in {"claimed", "failed"} : stage' = [stage EXCEPT ![s] = a]
  BY DEF Claim, FailTask
<1>6. (a = "refining" => branch = 1 /\ request.op \in {"query", "multi"} /\ CandidateBatch(s, candidates[s])) /\ (a = "done" => Handed(s, batches[s]))
  OBVIOUS
<1> QED BY <1>3, <1>4, <1>5, <1>6, TaskStep

\* A vector search of a segment.
LEMMA SearchVectorHolds ==
  ASSUME QueryInv, NEW s \in Segments, NEW visited \in SUBSET storage[s], SearchVector(s, visited)
  PROVE  QueryInv'
<1> DEFINE found == BaseSearch(s, visited)
<1>1. CaseValid /\ Holding(s, storage[s]) /\ TasksHold /\ BranchHolds
  BY DEF QueryInv, StorageHolds
<1>2. request.op = "query" \/ (request.op = "multi" /\ branch = 1)
  BY DEF SearchVector
<1>3. branch = 1
  BY <1>1, <1>2 DEF BranchHolds
<1>4. Scanned(s) => visited = storage[s]
  BY DEF SearchVector
<1>5. UNCHANGED <<snapshot, request, storage, branch, lists, outcome>>
  BY DEF SearchVector
<1>6. CASE Refined(s)
  <2>1. CandidateBatch(s, found)
    BY <1>1, <1>3, <1>4, <1>6, SearchFindsCandidates
  <2>2. candidates' = [candidates EXCEPT ![s] = found] /\ stage' = [stage EXCEPT ![s] = "refining"] /\ batches' = batches
    BY <1>6 DEF SearchVector
  <2>3. batches' = [batches EXCEPT ![s] = batches[s]]
    BY <1>1, <2>2, SameAt DEF TasksHold
  <2> HIDE DEF found
  <2> QED BY <1>2, <1>3, <1>5, <2>1, <2>2, <2>3, TaskStep
<1>7. CASE ~Refined(s)
  <2>1. VectorBatch(s, found)
    BY <1>1, <1>3, <1>4, <1>7, SearchFindsResults
  <2>2. batches' = [batches EXCEPT ![s] = found] /\ stage' = [stage EXCEPT ![s] = "done"] /\ candidates' = candidates
    BY <1>7 DEF SearchVector
  <2>3. candidates' = [candidates EXCEPT ![s] = candidates[s]]
    BY <1>1, <2>2, SameAt DEF TasksHold
  <2> HIDE DEF found
  <2>4. Handed(s, found)
    BY <1>2, <1>3, <2>1 DEF Handed
  <2> QED BY <1>5, <2>2, <2>3, <2>4, TaskStep
<1> QED BY <1>6, <1>7

\* A refinement.
LEMMA RefineHolds ==
  ASSUME QueryInv, NEW s \in Segments, Refine(s)
  PROVE  QueryInv'
<1> DEFINE found == RefineCandidates(s, candidates[s])
<1>1. CaseValid /\ TasksHold
  BY DEF QueryInv
<1>2. branch = 1 /\ request.op \in {"query", "multi"} /\ CandidateBatch(s, candidates[s])
  BY <1>1 DEF TasksHold, TaskHolds, Refine
<1>3. VectorBatch(s, found)
  BY <1>1, <1>2, RefineFindsResults
<1>4. /\ batches' = [batches EXCEPT ![s] = found] /\ stage' = [stage EXCEPT ![s] = "done"] /\ candidates' = candidates
      /\ UNCHANGED <<snapshot, request, storage, branch, lists, outcome>>
  BY DEF Refine
<1>5. candidates' = [candidates EXCEPT ![s] = candidates[s]]
  BY <1>1, <1>4, SameAt DEF TasksHold
<1> HIDE DEF found
<1>6. Handed(s, found)
  BY <1>2, <1>3 DEF Handed
<1> QED BY <1>4, <1>5, <1>6, TaskStep

\* A full-text search of a segment.
LEMMA SearchTextHolds ==
  ASSUME QueryInv, NEW s \in Segments, SearchText(s)
  PROVE  QueryInv'
<1> DEFINE keys == Ascending({key \in snapshot.documents[s] : Unrestricted \/ key \in Accepted})
           found == Best(Limit, [i \in DOMAIN keys |-> Result(keys[i], Exact(keys[i]))])
<1>1. CaseValid /\ TasksHold /\ request.op = "multi" /\ branch = 2
  BY DEF QueryInv, SearchText
<1>2. TextBatch(s, found)
  <2>1. BranchValid
    BY <1>1 DEF BranchValid
  <2> QED BY <1>1, <2>1, TextFindsResults
<1>4. /\ batches' = [batches EXCEPT ![s] = found] /\ stage' = [stage EXCEPT ![s] = "done"] /\ candidates' = candidates
      /\ UNCHANGED <<snapshot, request, storage, branch, lists, outcome>>
  BY DEF SearchText
<1> HIDE DEF found
<1>5. candidates' = [candidates EXCEPT ![s] = candidates[s]]
  BY <1>1, <1>4, SameAt DEF TasksHold
<1>6. Handed(s, found)
  BY <1>1, <1>2 DEF Handed
<1> QED BY <1>4, <1>5, <1>6, TaskStep

\* A group search of a segment.
LEMMA SearchGroupsHolds ==
  ASSUME QueryInv, NEW s \in Segments, NEW visited \in SUBSET storage[s], SearchGroups(s, visited)
  PROVE  QueryInv'
<1> DEFINE found == Finish(Accumulate(TopKPerGroup, GroupScan(s, visited)), request.groupCount)
<1>1. CaseValid /\ Holding(s, storage[s]) /\ TasksHold /\ BranchHolds /\ request.op = "group"
  BY DEF QueryInv, StorageHolds, SearchGroups
<1>2. branch = 1 /\ (GroupScanned(s) => visited = storage[s])
  BY <1>1 DEF BranchHolds, SearchGroups
<1>3. GroupBatch(s, found)
  BY <1>1, <1>2, SearchFindsGroups
<1>4. /\ batches' = [batches EXCEPT ![s] = found] /\ stage' = [stage EXCEPT ![s] = "done"] /\ candidates' = candidates
      /\ UNCHANGED <<snapshot, request, storage, branch, lists, outcome>>
  BY DEF SearchGroups
<1> HIDE DEF found
<1>5. candidates' = [candidates EXCEPT ![s] = candidates[s]]
  BY <1>1, <1>4, SameAt DEF TasksHold
<1>6. Handed(s, found)
  BY <1>1, <1>3 DEF Handed
<1> QED BY <1>4, <1>5, <1>6, TaskStep

\* A write meanwhile.
LEMMA AppendRowHolds ==
  ASSUME QueryInv, NEW key \in LaterIDs, AppendRow(key)
  PROVE  QueryInv'
<1> DEFINE n == Len(snapshot.documents)
<1>1. /\ storage' = [storage EXCEPT ![n] = @ \cup {key}]
      /\ UNCHANGED <<snapshot, request, branch, stage, candidates, batches, lists, outcome>>
  BY DEF AppendRow
<1>2. SameCase
  BY <1>1 DEF SameCase
<1>3. CaseValid /\ StorageHolds /\ TasksHold /\ BranchHolds /\ FirstList /\ Answered(outcome) /\ Reranked(outcome)
  BY DEF QueryInv
<1>4. CaseValid' /\ TasksHold' /\ BranchHolds' /\ FirstList' /\ Answered(outcome)' /\ Reranked(outcome)'
  BY <1>1, <1>2, <1>3, SameVisibility, SameTasks, SameBranch, SameOutcome
<1> HIDE DEF n
<1>5. storage' = [s \in Segments |-> storage'[s]]
  BY <1>1, <1>3 DEF StorageHolds
<1>6. ASSUME NEW s \in Segments PROVE Holding(s, storage'[s])
  <2>1. Holding(s, storage[s]) /\ storage = [t \in Segments |-> storage[t]]
    BY <1>3 DEF StorageHolds
  <2>2. storage'[s] = storage[s] \/ storage'[s] = storage[s] \cup {key}
    BY <1>1, <2>1
  <2> QED BY <2>1, <2>2 DEF Holding
<1>7. \A s, st : Holding(s, st)' <=> Holding(s, st)
  BY <1>2, SameVisibility
<1>8. Segments' = Segments
  BY <1>2, SameVisibility
<1>9. StorageHolds'
  BY <1>5, <1>6, <1>7, <1>8 DEF StorageHolds
<1> QED BY <1>4, <1>9 DEF QueryInv

\* A step that only returns.
LEMMA ReturnHolds ==
  ASSUME QueryInv, UNCHANGED <<snapshot, request, storage, branch, stage, candidates, batches, lists>>,
         Answered(outcome'), Reranked(outcome')
  PROVE  QueryInv'
<1>1. SameCase
  BY DEF SameCase
<1>2. CaseValid /\ StorageHolds /\ TasksHold /\ BranchHolds /\ FirstList
  BY DEF QueryInv
<1>3. CaseValid' /\ StorageHolds' /\ TasksHold' /\ BranchHolds' /\ FirstList'
  BY <1>1, <1>2, SameVisibility, SameStorage, SameTasks, SameBranch
<1>4. Answered(outcome)' /\ Reranked(outcome)'
  BY <1>1, SameOutcomes, SameReranked
<1> QED BY <1>3, <1>4 DEF QueryInv

\* The tasks of a branch have all handed in.
LEMMA AllHanded ==
  ASSUME QueryInv, AllDone
  PROVE  batches = [s \in Segments |-> batches[s]] /\ \A s \in Segments : Handed(s, batches[s])
BY DEF QueryInv, TasksHold, TaskHolds, AllDone

\* Documents of the snapshot can be materialized.
LEMMA MaterializedFacts ==
  ASSUME CaseValid, NEW results, NEW keys, keys \subseteq Live
  PROVE  Materialized(results, keys) = [status |-> "ok", results |-> results]
BY DEF Materialized

\* The end of Query.
LEMMA FinishQueryHolds ==
  ASSUME QueryInv, FinishQuery
  PROVE  QueryInv'
<1> DEFINE m == MergeSearchResults(TopK, batches)
<1>1. CaseValid /\ request.op = "query" /\ AllDone
  BY DEF QueryInv, FinishQuery
<1>2. Limit = TopK
  BY <1>1 DEF Limit
<1>3. batches = [s \in Segments |-> batches[s]] /\ \A s \in Segments : VectorBatch(s, batches[s])
  BY <1>1, AllHanded DEF Handed
<1>4. SoundResults(m) /\ CompleteResults(m, TopK) /\ KeyedList(m, Accepted)
  BY <1>1, <1>2, <1>3, MergeVector
<1>5. outcome' = Materialized(m, KeysOf(m)) /\ UNCHANGED <<snapshot, request, storage, branch, stage, candidates, batches, lists>>
  BY DEF FinishQuery
<1> HIDE DEF m
<1>6. KeysOf(m) \subseteq Live
  BY <1>1, <1>4, AcceptedFacts, KeysInside
<1>7. outcome' = [status |-> "ok", results |-> m]
  BY <1>1, <1>5, <1>6, MaterializedFacts
<1>8. outcome'.status = "ok" /\ outcome'.results = m
  BY <1>7
<1>9. Answered(outcome') /\ Reranked(outcome')
  BY <1>1, <1>4, <1>8 DEF Answered, Reranked
<1> QED BY <1>5, <1>9, ReturnHolds

\* The end of GroupByQuery.
LEMMA FinishGroupsHolds ==
  ASSUME QueryInv, FinishGroups
  PROVE  QueryInv'
<1> DEFINE m == MergeGroupResults(request.groupCount, TopKPerGroup, batches)
           keys == UNION {KeysOf(m[i].results) : i \in DOMAIN m}
<1>1. CaseValid /\ request.op = "group" /\ AllDone
  BY DEF QueryInv, FinishGroups
<1>2. GroupParts(batches)
  BY <1>1, AllHanded DEF Handed, GroupParts
<1>3. keys \subseteq Accepted /\ ((\A s \in Segments : GroupExact(s)) => GroupAnswer(m))
  BY <1>1, <1>2, MergeGroups
<1>4. outcome' = Materialized(m, keys) /\ UNCHANGED <<snapshot, request, storage, branch, stage, candidates, batches, lists>>
  BY DEF FinishGroups
<1> HIDE DEF m, keys
<1>5. keys \subseteq Live
  BY <1>1, <1>3, AcceptedFacts
<1>6. outcome' = [status |-> "ok", results |-> m]
  BY <1>1, <1>4, <1>5, MaterializedFacts
<1>7. outcome'.status = "ok" /\ outcome'.results = m
  BY <1>6
<1>8. Answered(outcome') /\ Reranked(outcome')
  BY <1>1, <1>3, <1>7 DEF Answered, Reranked
<1> QED BY <1>4, <1>8, ReturnHolds

\* A query without a target.
LEMMA FilterOnlyHolds ==
  ASSUME QueryInv, FilterOnly
  PROVE  QueryInv'
<1> DEFINE keys == Ascending({d \in Live : Unrestricted \/ d \in Accepted})
           m == [i \in 1..Min({TopK, Len(keys)}) |-> Result(keys[i], 0)]
<1>1. CaseValid /\ request.op = "filter"
  BY DEF QueryInv, FilterOnly
<1>2. /\ keys = Ascending(Accepted) /\ Range(keys) \subseteq Live
      /\ [i \in DOMAIN m |-> m[i].key] = SubSeq(keys, 1, Min({TopK, Len(keys)}))
  BY <1>1, FilterLists
<1>3. outcome' = Materialized(m, Range(keys)) /\ UNCHANGED <<snapshot, request, storage, branch, stage, candidates, batches, lists>>
  BY DEF FilterOnly
<1> HIDE DEF m
<1>4. FilterAnswer(m)
  BY <1>2 DEF FilterAnswer
<1> HIDE DEF keys
<1>5. outcome' = [status |-> "ok", results |-> m]
  BY <1>1, <1>2, <1>3, MaterializedFacts
<1>6. outcome'.status = "ok" /\ outcome'.results = m
  BY <1>5
<1>7. Answered(outcome') /\ Reranked(outcome')
  BY <1>1, <1>4, <1>6 DEF Answered, Reranked
<1> QED BY <1>3, <1>7, ReturnHolds

\* An error returns no result.
LEMMA ErrorHolds ==
  ASSUME QueryInv, RerankFails \/ FailQuery
  PROVE  QueryInv'
<1>1. outcome' = [Running EXCEPT !.status = "error"] /\ UNCHANGED <<snapshot, request, storage, branch, stage, candidates, batches, lists>>
  BY DEF RerankFails, FailQuery
<1>2. outcome'.status = "error"
  BY <1>1 DEF Running
<1>3. Answered(outcome') /\ Reranked(outcome')
  BY <1>2 DEF Answered, Reranked
<1> QED BY <1>1, <1>3, ReturnHolds

\* The end of MultiQuery.
LEMMA RerankHolds ==
  ASSUME QueryInv, NEW keys, Rerank(keys)
  PROVE  QueryInv'
<1>1. CaseValid /\ BranchHolds /\ Len(lists) = 2
  BY DEF QueryInv, Rerank
<1>2. request.op = "multi"
  BY <1>1 DEF BranchHolds
<1>3. BothLists
  <2>1. DOMAIN lists = 1..2 /\ 1 \in 1..2 /\ 2 \in 1..2
    BY <1>1 DEF BranchHolds
  <2> QED BY <1>1, <2>1 DEF BranchHolds, BothLists
<1>4. /\ outcome' = [status |-> IF ValidReranked(keys) THEN "ok" ELSE "rejected", results |-> IF ValidReranked(keys) THEN keys ELSE <<>>]
      /\ UNCHANGED <<snapshot, request, storage, branch, stage, candidates, batches, lists>>
      /\ keys \in RerankerOutputs
  BY DEF Rerank
<1>7. request.reranker # "callback" => keys = Fused /\ Fusing
  <2>1. ASSUME request.reranker # "callback" PROVE keys = Fused /\ WeightsMatch
    BY <1>4, <2>1 DEF RerankerOutputs
  <2>2. request.reranker \in {"rrf", "weighted", "callback"}
    BY <1>1 DEF CaseValid, ValidRequest
  <2> QED BY <1>1, <2>1, <2>2 DEF WeightsMatch, Fusing
<1>5. CASE ValidReranked(keys)
  <2>1. outcome'.status = "ok" /\ outcome'.results = keys
    BY <1>4, <1>5
  <2>2. NamesCandidates(keys)
    BY <1>1, <1>3, <1>5, ValidNames
  <2>3. request.reranker # "callback" => FusedAnswer(keys)
    BY <1>1, <1>3, <1>7, FusedIsAnswer
  <2>4. Answered(outcome') /\ Reranked(outcome')
    BY <1>2, <2>1, <2>2, <2>3 DEF Answered, Reranked
  <2> QED BY <1>4, <2>4, ReturnHolds
<1>6. CASE ~ValidReranked(keys)
  <2>1. outcome'.status = "rejected"
    BY <1>4, <1>6
  <2>2. request.reranker = "callback"
    BY <1>1, <1>3, <1>6, <1>7, FusedIsAnswer
  <2>3. Answered(outcome') /\ Reranked(outcome')
    BY <2>1, <2>2 DEF Answered, Reranked
  <2> QED BY <1>4, <2>3, ReturnHolds
<1> QED BY <1>5, <1>6

\* The end of a branch of MultiQuery.
LEMMA FinishBranchHolds ==
  ASSUME QueryInv, FinishBranch
  PROVE  QueryInv'
<1> DEFINE m == MergeSearchResults(NumCandidates, batches)
           n == Len(lists)
<1>1. CaseValid /\ StorageHolds /\ TasksHold /\ BranchHolds /\ FirstList /\ Answered(outcome) /\ Reranked(outcome)
  BY DEF QueryInv
<1>2. request.op = "multi" /\ AllDone /\ n < 2 /\ outcome = Running
  BY DEF FinishBranch
<1>3. /\ lists' = Append(lists, m) /\ branch' = 2 /\ stage' = [s \in Segments |-> IF branch = 1 THEN "waiting" ELSE "done"]
      /\ UNCHANGED <<snapshot, request, storage, candidates, batches>>
      /\ outcome' = IF KeysOf(lists'[branch]) \subseteq Live THEN outcome ELSE [Running EXCEPT !.status = "disappeared"]
  BY DEF FinishBranch
<1>4. SameCase /\ Limit = NumCandidates
  BY <1>2, <1>3 DEF SameCase, Limit
<1>5. batches = [s \in Segments |-> batches[s]] /\ \A s \in Segments : Handed(s, batches[s])
  BY <1>2, AllHanded
<1>6. (branch = 1 /\ n = 0) \/ (branch = 2 /\ n = 1)
  BY <1>1, <1>2 DEF BranchHolds
<1>7. branch = 1 => SoundResults(m) /\ CompleteResults(m, NumCandidates)
  <2>1. branch = 1 => \A s \in Segments : VectorBatch(s, batches[s])
    BY <1>2, <1>5 DEF Handed
  <2> QED BY <1>1, <1>4, <1>5, <2>1, MergeVector
<1>8. KeyedList(m, Accepted) /\ Len(m) <= NumCandidates
  <2>1. CASE branch = 1
    <3>1. \A s \in Segments : VectorBatch(s, batches[s])
      BY <1>2, <1>5, <2>1 DEF Handed
    <3> QED BY <1>1, <1>4, <1>5, <3>1, MergeVector
  <2>2. CASE branch = 2
    <3>1. \A s \in Segments : TextBatch(s, batches[s])
      BY <1>2, <1>5, <2>2 DEF Handed
    <3> QED BY <1>1, <1>4, <1>5, <3>1, MergeText
  <2> QED BY <1>6, <2>1, <2>2
<1> HIDE DEF m
<1>9. KeysOf(m) \subseteq Live
  BY <1>1, <1>8, AcceptedFacts, KeysInside
<1>10. m \in Seq(Results)
  BY <1>1, <1>8, AcceptedFacts, KeyedFacts
<1>11. /\ lists' \in Seq(Seq(Results)) /\ Len(lists') = n + 1 /\ lists'[n + 1] = m
       /\ \A l \in 1..n : lists'[l] = lists[l]
  <2> DEFINE X == Seq(Results)
             q == lists
  <2>1. q \in Seq(X) /\ m \in X
    BY <1>1, <1>10 DEF BranchHolds
  <2> HIDE DEF X, q
  <2>2. /\ Append(q, m) \in Seq(X) /\ Len(Append(q, m)) = Len(q) + 1 /\ Append(q, m)[Len(q) + 1] = m
        /\ \A l \in 1..Len(q) : Append(q, m)[l] = q[l]
    BY <2>1
  <2> QED BY <1>3, <2>2 DEF X, q
<1> HIDE DEF n
<1>12. lists'[branch] = m
  BY <1>6, <1>11
<1>13. outcome' = Running /\ Running' = Running
  BY <1>2, <1>3, <1>9, <1>12 DEF Running
<1>14. CaseValid' /\ StorageHolds' /\ Segments' = Segments /\ Accepted' = Accepted
  BY <1>1, <1>3, <1>4, SameVisibility, SameStorage
<1>15. BranchHolds'
  <2>1. BranchList(m)
    BY <1>8 DEF BranchList
  <2>2. \A b : BranchList(b)' <=> BranchList(b)
    BY <1>14 DEF BranchList
  <2>3. \A l \in 1..n : BranchList(lists[l])
    BY <1>1 DEF BranchHolds, n
  <2>4. \A l \in 1..(n + 1) : BranchList(lists'[l])
    <3>1. \A l \in 1..(n + 1) : l = n + 1 \/ l \in 1..n
      BY <1>6
    <3> QED BY <1>11, <2>1, <2>3, <3>1
  <2>5. branch' = 2 /\ request' = request /\ Len(lists') \in {1, 2}
    BY <1>3, <1>6, <1>11
  <2> QED BY <1>2, <1>11, <2>2, <2>4, <2>5 DEF BranchHolds
<1>16. FirstList'
  <2>1. CASE branch = 1
    <3>1. lists'[1] = m
      BY <1>12, <2>1
    <3> QED BY <1>4, <1>7, <2>1, <3>1, SameAnswers DEF FirstList
  <2>2. CASE branch # 1
    <3>1. Len(lists') # 1
      BY <1>6, <1>11, <2>2
    <3> QED BY <3>1 DEF FirstList
  <2> QED BY <2>1, <2>2
<1>17. TasksHold'
  <2>1. /\ stage' = [s \in Segments |-> stage'[s]] /\ candidates' = [s \in Segments |-> candidates'[s]]
        /\ batches' = [s \in Segments |-> batches'[s]]
    BY <1>1, <1>3 DEF TasksHold
  <2>2. ASSUME NEW s \in Segments PROVE TaskHolds(s)'
    <3>1. CASE branch = 1
      <4>1. stage'[s] = "waiting"
        BY <1>3, <3>1
      <4> QED BY <4>1 DEF TaskHolds
    <3>2. CASE branch # 1
      <4>1. stage'[s] = "done" /\ branch = 2 /\ batches' = batches /\ branch' = branch /\ request' = request
        BY <1>3, <1>6, <3>2
      <4>2. \A b : Handed(s, b)' <=> Handed(s, b)
        BY <1>4, <4>1, SameBatches DEF Handed
      <4> QED BY <1>5, <4>1, <4>2 DEF TaskHolds
    <3> QED BY <3>1, <3>2
  <2> QED BY <1>14, <2>1, <2>2 DEF TasksHold
<1>18. Answered(outcome)'
  <2>1. outcome' = outcome
    BY <1>2, <1>13
  <2> QED BY <1>1, <1>4, <2>1, SameOutcomes
<1>19. Reranked(outcome)'
  BY <1>13 DEF Reranked
<1> QED BY <1>14, <1>15, <1>16, <1>17, <1>18, <1>19 DEF QueryInv

\* Every step preserves the invariant.
LEMMA QuerySteps ==
  QueryInv /\ [QueryNext]_queryVars => QueryInv'
<1> SUFFICES ASSUME QueryInv, [QueryNext]_queryVars PROVE QueryInv'
  OBVIOUS
<1>1. ASSUME NEW key \in LaterIDs, AppendRow(key) PROVE QueryInv'
  BY <1>1, AppendRowHolds
<1>2. ASSUME NEW s \in Segments, Claim(s) \/ FailTask(s) PROVE QueryInv'
  BY <1>2, ClaimHolds
<1>3. ASSUME NEW s \in Segments, Refine(s) PROVE QueryInv'
  BY <1>3, RefineHolds
<1>4. ASSUME NEW s \in Segments, SearchText(s) PROVE QueryInv'
  BY <1>4, SearchTextHolds
<1>5. ASSUME NEW s \in Segments, NEW visited \in SUBSET storage[s], SearchVector(s, visited) PROVE QueryInv'
  BY <1>5, SearchVectorHolds
<1>6. ASSUME NEW s \in Segments, NEW visited \in SUBSET storage[s], SearchGroups(s, visited) PROVE QueryInv'
  BY <1>6, SearchGroupsHolds
<1>7. CASE FinishQuery
  BY <1>7, FinishQueryHolds
<1>8. CASE FinishGroups
  BY <1>8, FinishGroupsHolds
<1>9. CASE FinishBranch
  BY <1>9, FinishBranchHolds
<1>10. CASE RerankFails \/ FailQuery
  BY <1>10, ErrorHolds
<1>11. CASE FilterOnly
  BY <1>11, FilterOnlyHolds
<1>12. ASSUME NEW keys \in RerankerOutputs, Rerank(keys) PROVE QueryInv'
  BY <1>12, RerankHolds
<1>13. CASE UNCHANGED queryVars
  <2>1. UNCHANGED <<snapshot, request, storage, branch, stage, candidates, batches, lists, outcome>>
    BY <1>13 DEF queryVars
  <2>2. Answered(outcome') /\ Reranked(outcome')
    BY <2>1 DEF QueryInv
  <2> QED BY <2>1, <2>2, ReturnHolds
<1> QED BY <1>1, <1>2, <1>3, <1>4, <1>5, <1>6, <1>7, <1>8, <1>9, <1>10, <1>11, <1>12, <1>13 DEF QueryNext

\* Every query answers with exactly what its snapshot offers, for every case,
\* every interleaving of the tasks and every write meanwhile.
THEOREM AnswersAreExact ==
  QuerySpec => []AnswersExact
<1>1. QueryInit => QueryInv
  BY QueryStarts
<1>2. QueryInv /\ [QueryNext]_queryVars => QueryInv'
  BY QuerySteps
<1>3. QueryInv => AnswersExact
  BY QueryInvImplies
<1> QED BY <1>1, <1>2, <1>3, PTL DEF QuerySpec

\* The built-in rerankers respect dominance and their output is never refused;
\* a callback's output is passed on only if it names candidates, each once.
THEOREM FusionIsOrdered ==
  QuerySpec => []FusionOrdered
<1>1. QueryInit => QueryInv
  BY QueryStarts
<1>2. QueryInv /\ [QueryNext]_queryVars => QueryInv'
  BY QuerySteps
<1>3. QueryInv => FusionOrdered
  BY QueryInvImplies
<1> QED BY <1>1, <1>2, <1>3, PTL DEF QuerySpec
=============================================================================
