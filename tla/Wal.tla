-------------------------------- MODULE Wal --------------------------------
(***************************************************************************)
(* The write-ahead log of internal/db/index/storage/wal: one append-only   *)
(* file of checksummed records, opened through handles that take an        *)
(* exclusive (writer) or shared (read-only) sidecar lock, and read through *)
(* WALReaders that own a file descriptor of their own and take no lock.    *)
(*                                                                         *)
(* The file is modelled as its complete records plus what follows them.    *)
(* Every record carries the LSN that encodeWALRecord stored in it.  Bytes, *)
(* magics and checksums are abstracted to the three things a scan can find *)
(* after the last complete record: nothing, a partial record, or bytes     *)
(* that are neither (tail = "damaged").                                    *)
(***************************************************************************)
EXTENDS Integers, Sequences

CONSTANTS
  Handles,    \* WAL handles that may exist at one time
  Readers,    \* WALReaders that may exist at one time
  Payloads,   \* opaque operation payloads
  SyncEvery,  \* WALOptions.SyncEvery
  MaxLSN      \* the LSN space: math.MaxUint64 in the code

ASSUME WalConstants ==
  /\ SyncEvery \in Nat
  /\ MaxLSN \in Nat

VARIABLES
  file,       \* complete records any descriptor reads back, in file order
  tail,       \* what follows them: "none", "partial" or "damaged"
  synced,     \* number of leading records that survive a power loss
  handle,     \* the WAL structs
  reader,     \* the WALReader structs
  promised,   \* history: the records callers were told are durable
  cleanClose  \* history: the last step was a writer's Close that returned nil

vars == <<file, tail, synced, handle, reader, promised, cleanClose>>

-----------------------------------------------------------------------------
Record == [lsn : Nat, payload : Payloads]

Closed == [mode |-> "closed", size |-> 0, lastLSN |-> 0, dirty |-> 0,
           poisoned |-> FALSE, recovered |-> 0]

Handle == [mode : {"closed", "writer", "readonly"}, size : Nat, lastLSN : Nat,
           dirty : Nat, poisoned : BOOLEAN, recovered : Nat]

NoReader == [active |-> FALSE, offset |-> 0, limit |-> 0, snapshot |-> <<>>]

Reader == [active : BOOLEAN, offset : Nat, limit : Nat, snapshot : Seq(Record)]

OpenedHandle(mode, n) ==
  [mode |-> mode, size |-> n, lastLSN |-> n, dirty |-> 0,
   poisoned |-> FALSE, recovered |-> n]

\* A sidecar flock is exclusive for a writer, shared for read-only handles.
LockAvailable(mode) ==
  \A g \in Handles :
    handle[g].mode = "closed" \/ (mode = "readonly" /\ handle[g].mode = "readonly")

\* Append and Sync stop at closed, then readOnly, then poisoned.
Appendable(h) == handle[h].mode = "writer" /\ ~handle[h].poisoned

Prefix(s, n) == SubSeq(s, 1, n)

IsPrefixOf(s, t) ==
  Len(s) <= Len(t) /\ \A i \in 1..Len(s) : s[i] = t[i]

-----------------------------------------------------------------------------
\* CreateWAL returned: an empty synchronized file with one writer handle.
Init ==
  /\ file = <<>>
  /\ tail = "none"
  /\ synced = 0
  /\ \E h \in Handles :
       handle = [g \in Handles |-> IF g = h THEN OpenedHandle("writer", 0) ELSE Closed]
  /\ reader = [r \in Readers |-> NoReader]
  /\ promised = <<>>
  /\ cleanClose = FALSE

\* The complete record reached the file; the batch is not full.
AppendUnsynced(h, rec) ==
  /\ SyncEvery = 0 \/ handle[h].dirty + 1 < SyncEvery
  /\ handle' = [handle EXCEPT ![h].size = @ + 1, ![h].lastLSN = rec.lsn,
                              ![h].dirty = @ + 1]
  /\ UNCHANGED <<synced, promised>>

\* The record fills the batch and the automatic synchronization succeeds.
AppendSynced(h, rec) ==
  /\ SyncEvery > 0 /\ handle[h].dirty + 1 >= SyncEvery
  /\ handle' = [handle EXCEPT ![h].size = @ + 1, ![h].lastLSN = rec.lsn,
                              ![h].dirty = 0]
  /\ synced' = Len(file')
  /\ promised' = file'

\* The record fills the batch and the automatic synchronization fails: the
\* record keeps its LSN, the handle is poisoned.
AppendSyncFails(h, rec) ==
  /\ SyncEvery > 0 /\ handle[h].dirty + 1 >= SyncEvery
  /\ handle' = [handle EXCEPT ![h].size = @ + 1, ![h].lastLSN = rec.lsn,
                              ![h].dirty = @ + 1, ![h].poisoned = TRUE]
  /\ UNCHANGED <<synced, promised>>

NextRecord(h, p) == [lsn |-> handle[h].lastLSN + 1, payload |-> p]

\* encodeWALRecord + WriteFullAt at w.size: whatever followed is overwritten.
AppendRecord(h, p) ==
  /\ Appendable(h)
  /\ handle[h].lastLSN < MaxLSN
  /\ LET rec == NextRecord(h, p) IN
     /\ file' = Prefix(file, handle[h].size) \o <<rec>>
     /\ tail' = "none"
     /\ \/ AppendUnsynced(h, rec)
        \/ AppendSynced(h, rec)
        \/ AppendSyncFails(h, rec)
  /\ cleanClose' = FALSE
  /\ UNCHANGED reader

\* Mutant: a failed write does not poison the handle.
AppendWriteFailsUnpoisoned(h) ==
  /\ Appendable(h)
  /\ handle[h].lastLSN < MaxLSN
  /\ file' = Prefix(file, handle[h].size)
  /\ tail' \in {"none", "partial"}
  /\ cleanClose' = FALSE
  /\ UNCHANGED <<synced, handle, reader, promised>>

\* WriteFullAt fails after a strict prefix of the record, possibly empty.
AppendWriteFails(h) ==
  /\ Appendable(h)
  /\ handle[h].lastLSN < MaxLSN
  /\ file' = Prefix(file, handle[h].size)
  /\ tail' \in {"none", "partial"}
  /\ handle' = [handle EXCEPT ![h].poisoned = TRUE]
  /\ cleanClose' = FALSE
  /\ UNCHANGED <<synced, reader, promised>>

\* Mutant: an error of the synchronization is not reported.
SyncErrorIgnored(h) ==
  /\ Appendable(h)
  /\ synced' \in {synced, Len(file)}
  /\ promised' = file
  /\ handle' = [handle EXCEPT ![h].dirty = 0]
  /\ cleanClose' = FALSE
  /\ UNCHANGED <<file, tail, reader>>

Sync(h) ==
  /\ Appendable(h)
  /\ \/ /\ synced' = Len(file)
        /\ promised' = file
        /\ handle' = [handle EXCEPT ![h].dirty = 0]
     \/ /\ handle' = [handle EXCEPT ![h].poisoned = TRUE]
        /\ UNCHANGED <<synced, promised>>
  /\ cleanClose' = FALSE
  /\ UNCHANGED <<file, tail, reader>>

\* Close synchronizes only what this handle counted as dirty.  A failed
\* synchronization is reported but the lock is released all the same.
CloseSyncs(h) ==
  handle[h].mode = "writer" /\ ~handle[h].poisoned /\ handle[h].dirty > 0

Close(h) ==
  /\ handle[h].mode # "closed"
  /\ handle' = [handle EXCEPT ![h] = Closed]
  /\ \/ /\ CloseSyncs(h)
        /\ synced' = Len(file)
        /\ promised' = file
        /\ cleanClose' = TRUE
     \/ /\ CloseSyncs(h)
        /\ cleanClose' = FALSE
        /\ UNCHANGED <<synced, promised>>
     \/ /\ ~CloseSyncs(h)
        /\ cleanClose' = (handle[h].mode = "writer" /\ ~handle[h].poisoned)
        /\ UNCHANGED <<synced, promised>>
  /\ UNCHANGED <<file, tail, reader>>

-----------------------------------------------------------------------------
\* Mutant: a reopened writer numbers its records from one again.
OpenWriterRestartsLSN(h) ==
  /\ handle[h].mode = "closed"
  /\ LockAvailable("writer")
  /\ tail # "damaged"
  /\ handle' = [handle EXCEPT ![h] = [OpenedHandle("writer", Len(file)) EXCEPT !.lastLSN = 0]]
  /\ tail' = "none"
  /\ synced' = IF tail = "partial" THEN Len(file) ELSE synced
  /\ cleanClose' = FALSE
  /\ UNCHANGED <<file, reader, promised>>

\* Mutant: the repair of a partial tail also cuts off the last complete record.
OpenWriterCutsRecord(h) ==
  /\ handle[h].mode = "closed"
  /\ LockAvailable("writer")
  /\ tail # "damaged"
  /\ file' = IF tail = "partial" /\ file # <<>> THEN Prefix(file, Len(file) - 1) ELSE file
  /\ handle' = [handle EXCEPT ![h] = OpenedHandle("writer", Len(file'))]
  /\ tail' = "none"
  /\ synced' = IF tail = "partial" THEN Len(file') ELSE synced
  /\ cleanClose' = FALSE
  /\ UNCHANGED <<reader, promised>>

\* scanWAL counts the complete records; a partial tail is cut off by a writer
\* and left in place by a reader; any other damage is ErrWALCorrupt.
OpenWriter(h) ==
  /\ handle[h].mode = "closed"
  /\ LockAvailable("writer")
  /\ tail # "damaged"
  /\ handle' = [handle EXCEPT ![h] = OpenedHandle("writer", Len(file))]
  /\ tail' = "none"
  /\ synced' = IF tail = "partial" THEN Len(file) ELSE synced
  /\ cleanClose' = FALSE
  /\ UNCHANGED <<file, reader, promised>>

\* The tail is truncated but the synchronization of the repair fails.
OpenWriterRepairFails(h) ==
  /\ handle[h].mode = "closed"
  /\ LockAvailable("writer")
  /\ tail = "partial"
  /\ tail' = "none"
  /\ cleanClose' = FALSE
  /\ UNCHANGED <<file, synced, handle, reader, promised>>

OpenReadOnly(h) ==
  /\ handle[h].mode = "closed"
  /\ LockAvailable("readonly")
  /\ tail # "damaged"
  /\ handle' = [handle EXCEPT ![h] = OpenedHandle("readonly", Len(file))]
  /\ cleanClose' = FALSE
  /\ UNCHANGED <<file, tail, synced, reader, promised>>

NewReader(h, r) ==
  /\ handle[h].mode # "closed" /\ ~handle[h].poisoned
  /\ ~reader[r].active
  /\ reader' = [reader EXCEPT ![r] =
                  [active |-> TRUE, offset |-> 0, limit |-> handle[h].size,
                   snapshot |-> Prefix(file, handle[h].size)]]
  /\ cleanClose' = FALSE
  /\ UNCHANGED <<file, tail, synced, handle, promised>>

\* WALReader.Next verifies the record below its limit, at its next LSN.
ReaderNext(r) ==
  /\ reader[r].active
  /\ reader[r].offset < reader[r].limit
  /\ reader[r].offset < Len(file)
  /\ file[reader[r].offset + 1].lsn = reader[r].offset + 1
  /\ reader' = [reader EXCEPT ![r].offset = @ + 1]
  /\ cleanClose' = FALSE
  /\ UNCHANGED <<file, tail, synced, handle, promised>>

ReaderClose(r) ==
  /\ reader[r].active
  /\ reader' = [reader EXCEPT ![r] = NoReader]
  /\ cleanClose' = FALSE
  /\ UNCHANGED <<file, tail, synced, handle, promised>>

-----------------------------------------------------------------------------
AllGone ==
  /\ handle' = [h \in Handles |-> Closed]
  /\ reader' = [r \in Readers |-> NoReader]
  /\ cleanClose' = FALSE
  /\ UNCHANGED promised

\* The process dies; the page cache keeps everything that was written.
Kill ==
  /\ \E h \in Handles : handle[h].mode # "closed"
  /\ AllGone
  /\ UNCHANGED <<file, tail, synced>>

\* The process dies inside Append: the write stopped early, or the record is
\* complete although no caller learned its LSN.
KillDuringAppend(h, p) ==
  /\ Appendable(h)
  /\ handle[h].lastLSN < MaxLSN
  /\ \/ file' = Prefix(file, handle[h].size) /\ tail' = "partial"
     \/ file' = Prefix(file, handle[h].size) \o <<NextRecord(h, p)>> /\ tail' = "none"
  /\ AllGone
  /\ UNCHANGED synced

\* The machine dies: any suffix beyond the synchronized records may be gone,
\* and what remains of the first missing record may be partial or damaged.
PowerLoss ==
  \E n \in synced..Len(file) :
    /\ file' = Prefix(file, n)
    /\ tail' \in (IF n < Len(file) \/ tail # "none"
                  THEN {"none", "partial", "damaged"} ELSE {"none"})
    /\ synced' = n
    /\ AllGone

Next ==
  \/ \E h \in Handles, p \in Payloads : AppendRecord(h, p) \/ KillDuringAppend(h, p)
  \/ \E h \in Handles :
       \/ AppendWriteFails(h) \/ Sync(h) \/ Close(h)
       \/ OpenWriter(h) \/ OpenWriterRepairFails(h) \/ OpenReadOnly(h)
  \/ \E h \in Handles, r \in Readers : NewReader(h, r)
  \/ \E r \in Readers : ReaderNext(r) \/ ReaderClose(r)
  \/ Kill
  \/ PowerLoss

Spec == Init /\ [][Next]_vars

-----------------------------------------------------------------------------
(* Properties.                                                             *)

\* Every variable keeps its type.
TypeOK ==
  /\ file \in Seq(Record)
  /\ tail \in {"none", "partial", "damaged"}
  /\ synced \in Nat
  /\ handle \in [Handles -> Handle]
  /\ reader \in [Readers -> Reader]
  /\ promised \in Seq(Record)
  /\ cleanClose \in BOOLEAN

\* LSNs count from one without a gap or a repeat, whatever crashes, repairs
\* and reopened handles produced the file: scanWAL would reject anything else
\* as ErrWALCorrupt.
LSNsContiguous == \A i \in 1..Len(file) : file[i].lsn = i

\* A handle that may append stands exactly at the end of the complete records
\* with nothing behind it, so WriteFullAt never leaves a gap, never overwrites
\* a complete record and never reuses its LSN.
WriterAtEnd ==
  \A h \in Handles :
    Appendable(h) =>
      /\ handle[h].size = Len(file)
      /\ handle[h].lastLSN = Len(file)
      /\ tail = "none"

\* Records reported durable by a successful Sync, batch synchronization or
\* Close are in the file for ever, through write failures, process deaths,
\* power losses and tail repairs.
PromisedRecordsSurvive ==
  Len(promised) <= synced /\ IsPrefixOf(promised, file)

\* WALOptions.SyncEvery bounds what a power loss can take from the records
\* appended through one healthy handle: fewer than SyncEvery of them.
SyncBatchBound ==
  \A h \in Handles :
    Appendable(h) =>
      /\ SyncEvery > 0 => handle[h].dirty < SyncEvery
      /\ \/ Len(file) - handle[h].dirty <= synced
         \/ Len(file) - handle[h].dirty <= handle[h].recovered

\* A WALReader replays the records that were in the log when NewReader
\* returned, although it holds no lock and the handle that created it may be
\* poisoned, closed and replaced by a writer that repairs the tail.
ReaderSnapshotStable ==
  \A r \in Readers :
    reader[r].active =>
      /\ reader[r].offset <= reader[r].limit
      /\ reader[r].limit = Len(reader[r].snapshot)
      /\ IsPrefixOf(reader[r].snapshot, file)

(***************************************************************************)
(* The inductive invariant behind the properties.  What they do not say    *)
(* themselves is that the locks keep a writer alone, that every open       *)
(* handle (poisoned and read-only ones too) stands at the end of the file, *)
(* and that the synchronized records are records of the file.              *)
(***************************************************************************)
WriterAlone ==
  \A g, h \in Handles :
    handle[g].mode = "writer" /\ handle[h].mode # "closed" => g = h

OpenHandlesAtEnd ==
  \A h \in Handles :
    handle[h].mode # "closed" =>
      handle[h].size = Len(file) /\ handle[h].lastLSN = Len(file)

SyncedWithinFile == synced <= Len(file)

\* The conjunction that every step preserves.
WalInv ==
  /\ TypeOK
  /\ WriterAlone
  /\ OpenHandlesAtEnd
  /\ SyncedWithinFile
  /\ LSNsContiguous
  /\ WriterAtEnd
  /\ PromisedRecordsSurvive
  /\ SyncBatchBound
  /\ ReaderSnapshotStable

\* "Close syncs complete records" (wal.go:402): after a Close that reported no
\* error the whole log survives a power loss.
CloseSyncsCompleteRecords == cleanClose => synced = Len(file)

=============================================================================
