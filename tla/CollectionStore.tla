-------------------------- MODULE CollectionStore --------------------------
(***************************************************************************)
(* One writable collection of internal/db: the manifest named by CURRENT,  *)
(* the artifacts it references (segment files, IDMap checkpoints, delete   *)
(* snapshots, write-ahead logs), the memory of the one writable handle,    *)
(* and the operations that move data from the log to segments and from     *)
(* old segments to new ones: Flush, RewriteDocuments, compaction, pruning, *)
(* crash and recovery.                                                     *)
(*                                                                         *)
(* CollectionStore.mu is held exclusively by every publishing operation,   *)
(* so nothing but a crash interleaves with one; a compaction holds it only *)
(* in BeginCompaction, when it reserves segment IDs, and in Commit, and    *)
(* writes and Flush run in between.  maintenanceMu of the owning           *)
(* xvec.Collection keeps rewrites, schema changes, pruning, Close and new  *)
(* iterators out of a compaction, and open iterators keep the first, the   *)
(* second and Close out.                                                   *)
(*                                                                         *)
(* A document is its primary key and the schema its payload is encoded     *)
(* for; its document ID stands for the payload.  The log is the complete   *)
(* records and the number of synchronized ones (module Wal).               *)
(***************************************************************************)
EXTENDS Integers, Sequences, FiniteSets, SequencesExt

CONSTANTS
  Keys,     \* primary keys
  Configs   \* the collections, and the bounds of each, that are explored

\* options: SegmentMaxDocuments, WALOptions.SyncEvery, and whether the
\* synchronization of the root directory after the rename of CURRENT may fail.
\* bounds: the keys used, document IDs (0..maxDocID), manifest generations,
\* schemas, publications that fail or die before CURRENT changes, and whether
\* iterators are opened.
ASSUME StoreConstants ==
  \A c \in Configs :
    /\ c.capacity \in Nat \ {0} /\ c.syncEvery \in Nat /\ c.dirSyncMayFail \in BOOLEAN
    /\ c.keys \subseteq Keys /\ c.maxDocID \in Nat /\ c.maxGeneration \in Nat \ {0}
    /\ c.maxSchema \in Nat \ {0} /\ c.maxAborts \in Nat /\ c.iterators \in BOOLEAN

VARIABLES
  config,       \* the member of Configs this collection is
  current,      \* the manifest CURRENT names
  stable,       \* the manifest CURRENT names after a power loss
  lastGen,      \* the highest generation of a manifest file
  segFiles,     \* segments/<id>/data-<n>.seg: documents by document ID
  idmapFiles,   \* IDMap checkpoint n: document ID by key
  deleteFiles,  \* delete snapshot n: document IDs
  walFiles,     \* wal/<id>-<n>.wal: records and how many are synchronized
  open,         \* a writable handle holds the collection lock
  poison,       \* what refuses to work until reopen: "wal", "engine", "store"
  mem,          \* the handle's SegmentManager, WAL counters and ID reservation
  comp,         \* the Compaction in progress
  iter,         \* the open DocumentIterator
  aborts        \* publications that failed so far

diskVars == <<current, stable, lastGen, segFiles, idmapFiles, deleteFiles, walFiles>>
vars == <<config, diskVars, open, poison, mem, comp, iter, aborts>>

Capacity == config.capacity
SyncEvery == config.syncEvery
MaxDocID == config.maxDocID
MaxGeneration == config.maxGeneration
MaxSchema == config.maxSchema
MaxAborts == config.maxAborts
DirSyncMayFail == config.dirSyncMayFail

-----------------------------------------------------------------------------
(* Documents, segments and manifests.                                      *)

EmptyMap == <<>>

Entry(x, value) == [y \in {x} |-> value]

\* f, and g where f is not defined.
Over(f, g) == [x \in DOMAIN f \cup DOMAIN g |-> IF x \in DOMAIN f THEN f[x] ELSE g[x]]

\* The union of functions with disjoint domains.
Merged(fs) ==
  [d \in UNION {DOMAIN f : f \in fs} |-> (CHOOSE f \in fs : d \in DOMAIN f)[d]]

Without(f, S) == Restrict(f, DOMAIN f \ S)

NewWriteSegment(id, min) == [id |-> id, min |-> min, docs |-> EmptyMap]

Full(w) == Cardinality(DOMAIN w.docs) >= Capacity

\* NextDocumentID, which rewriteNextDocumentID extends past a full segment.
NextDocumentID(w) == w.min + Cardinality(DOMAIN w.docs)

\* Every stored version a manager can return, live or not.
Retained(s) == Merged(Range(s.segs) \cup {s.writing.docs})

LiveIDs(s) == DOMAIN Retained(s) \ s.deletes

RangesOverlap(lo1, hi1, lo2, hi2) == lo1 <= hi2 /\ lo2 <= hi1

\* AddImmutable, one segment after the other: none empty, ranges disjoint.
ImmutablesAcceptable(segs) ==
  /\ \A i \in DOMAIN segs : segs[i] # EmptyMap
  /\ \A i, j \in DOMAIN segs :
       i # j => ~RangesOverlap(Min(DOMAIN segs[i]), Max(DOMAIN segs[i]),
                               Min(DOMAIN segs[j]), Max(DOMAIN segs[j]))

\* SetWriting: a fresh ID and a reserved range no immutable segment meets.
WritingAcceptable(segs, w) ==
  /\ w.id \notin DOMAIN segs
  /\ \A i \in DOMAIN segs :
       ~RangesOverlap(w.min, w.min + Capacity - 1,
                      Min(DOMAIN segs[i]), Max(DOMAIN segs[i]))

\* validateCollectionState: deletions name stored documents, and the IDMap is
\* exactly the live documents.
ValidState(s) ==
  /\ s.deletes \subseteq DOMAIN Retained(s)
  /\ Cardinality(DOMAIN s.idmap) = Cardinality(LiveIDs(s))
  /\ \A k \in DOMAIN s.idmap :
       s.idmap[k] \in LiveIDs(s) /\ Retained(s)[s.idmap[k]].key = k

\* Manifest.Validate and validateLifecycleManifest, for what they can reject:
\* segs is a set of <<id, file number>>, docs the documents of each.
ValidManifest(m) ==
  /\ \A p, q \in m.segs : p[1] = q[1] => p = q
  /\ m.wal[1] \notin {p[1] : p \in m.segs}
  /\ \A p \in m.segs \cup {m.wal} : p[1] < m.next

\* rewriteDocumentRuns: maximal runs of consecutive IDs, cut at Capacity.
RunOf(ids, d) ==
  LET first(e) == Min({s \in ids : s <= e /\ s..e \subseteq ids})
      start == first(d)
  IN  {e \in ids : first(e) = start /\ (e - start) \div Capacity = (d - start) \div Capacity}

DocumentRuns(ids) == {RunOf(ids, d) : d \in ids}

\* Runs are numbered in document-ID order from the first reserved segment ID.
RunID(runs, run, firstID) == firstID + Cardinality({r \in runs : Min(r) < Min(run)})

SegmentsOf(runs, docs, firstID) ==
  LET ids == {RunID(runs, r, firstID) : r \in runs}
  IN  [id \in ids |-> Restrict(docs, CHOOSE r \in runs : RunID(runs, r, firstID) = id)]

-----------------------------------------------------------------------------
(* Operations of the log and their replay.                                 *)

Wal == walFiles[current.wal]

\* The effect of a logged operation on documents, deletions and IDMap: the
\* version a key had before is deleted, a new one is appended and mapped.
Applied(s, op) ==
  LET previous == IF op.key \in DOMAIN s.idmap THEN {s.idmap[op.key]} ELSE {}
  IN  [s EXCEPT
        !.writing.docs = IF op.type = "delete" THEN @
                         ELSE Over(Entry(op.doc, [key |-> op.key, schema |-> op.schema]), @),
        !.deletes = @ \cup previous,
        !.idmap = IF op.type = "delete" THEN Without(@, {op.key})
                  ELSE Over(Entry(op.key, op.doc), @)]

\* applyRecoveredOperation: replay insists on the state the writer saw.
ReplayAccepts(s, op) ==
  LET known == op.key \in DOMAIN s.idmap
  IN  CASE op.type = "delete" -> known /\ s.idmap[op.key] = op.doc
        [] OTHER -> /\ op.type = "insert" => ~known
                    /\ op.type = "update" => known
                    /\ ~Full(s.writing)
                    /\ op.doc = NextDocumentID(s.writing)

ApplyRecovered(s, op) == [Applied(s, op) EXCEPT !.ok = @ /\ ReplayAccepts(s, op)]

FilesPresent(m) ==
  /\ m.segs \subseteq DOMAIN segFiles
  /\ m.idmap \in DOMAIN idmapFiles
  /\ m.deletes \in DOMAIN deleteFiles
  /\ m.wal \in DOMAIN walFiles

\* Mutant: the next document ID is derived from the segments that remain.
CheckpointFromSegments(m) ==
  [segs    |-> [id \in {p[1] : p \in m.segs} |->
                  segFiles[CHOOSE p \in m.segs : p[1] = id]],
   writing |-> NewWriteSegment(m.wal[1],
                 Max({-1} \cup UNION {DOMAIN segFiles[p] : p \in m.segs}) + 1),
   idmap   |-> idmapFiles[m.idmap],
   deletes |-> deleteFiles[m.deletes],
   ok      |-> TRUE]

\* The state OpenCollection builds before it replays the log.
Checkpoint(m) ==
  [segs    |-> [id \in {p[1] : p \in m.segs} |->
                  segFiles[CHOOSE p \in m.segs : p[1] = id]],
   writing |-> NewWriteSegment(m.wal[1], m.start),
   idmap   |-> idmapFiles[m.idmap],
   deletes |-> deleteFiles[m.deletes],
   ok      |-> TRUE]

\* f(x); the bound z makes TLC evaluate x once, however often f uses it.
Eagerly(f(_), x) == CHOOSE y \in {f(z) : z \in {x}} : TRUE

\* What OpenCollection produces when n records of the log survive.
Recovered(m, n) ==
  LET recs == walFiles[m.wal].recs
      replay[i \in 0..n] ==
        IF i = 0 THEN Checkpoint(m)
        ELSE Eagerly(LAMBDA s : ApplyRecovered(s, recs[i]), replay[i - 1])
  IN  replay[n]

\* OpenCollection succeeds.
Recoverable(m, n) ==
  /\ FilesPresent(m)
  /\ ValidManifest(m)
  /\ \A p \in m.segs : Max(DOMAIN segFiles[p]) < m.start
  /\ ImmutablesAcceptable(Checkpoint(m).segs)
  /\ WritingAcceptable(Checkpoint(m).segs, Checkpoint(m).writing)
  /\ Recovered(m, n).ok
  /\ ValidState(Recovered(m, n))

-----------------------------------------------------------------------------
(* Initial state: CreateCollection returned.                               *)

NoComp == [phase |-> "none", gen |-> 0, schema |-> 0, inputs |-> EmptyMap, purged |-> {},
           captured |-> {}, runs |-> {}, first |-> 0, outputs |-> {}]

NoIter == [active |-> FALSE, map |-> EmptyMap, schema |-> 0]

Manager(segs, writing, idmap, deletes, dirty, reserved) ==
  [segs |-> segs, writing |-> writing, idmap |-> idmap, deletes |-> deletes,
   dirty |-> dirty, reserved |-> reserved]

NoManager == Manager(EmptyMap, NewWriteSegment(0, 0), EmptyMap, {}, 0, 0)

NewWal == [recs |-> <<>>, synced |-> 0]

Init ==
  /\ config \in Configs
  /\ current = [gen |-> 1, schema |-> 1, segs |-> {}, wal |-> <<0, 1>>, start |-> 0,
                idmap |-> 1, deletes |-> 1, next |-> 1]
  /\ stable = current
  /\ lastGen = 1
  /\ segFiles = EmptyMap
  /\ idmapFiles = Entry(1, EmptyMap)
  /\ deleteFiles = Entry(1, {})
  /\ walFiles = Entry(<<0, 1>>, NewWal)
  /\ open = TRUE
  /\ poison = {}
  /\ mem = NoManager
  /\ comp = NoComp
  /\ iter = NoIter
  /\ aborts = 0

-----------------------------------------------------------------------------
(* Writes.                                                                 *)

\* requireWritableLocked.
Writable == open /\ poison \cap {"engine", "store"} = {}

\* Append and Sync of a poisoned log fail without an effect.
WalHealthy == "wal" \notin poison

BatchFull == SyncEvery > 0 /\ mem.dirty + 1 >= SyncEvery

Logged(op, synced) ==
  walFiles' = [walFiles EXCEPT ![current.wal] =
                [recs |-> Append(@.recs, op), synced |-> IF synced THEN Len(@.recs) + 1 ELSE @.synced]]

\* The record is in the log, synchronized if it filled the batch, and applied.
WriteSucceeds(op) ==
  /\ Logged(op, BatchFull)
  /\ mem' = [Applied(mem, op) EXCEPT !.dirty = IF BatchFull THEN 0 ELSE @ + 1]
  /\ UNCHANGED poison

\* The record is applied although synchronizing the batch failed.
WriteSyncFails(op) ==
  /\ BatchFull
  /\ Logged(op, FALSE)
  /\ mem' = [Applied(mem, op) EXCEPT !.dirty = @ + 1]
  /\ poison' = poison \cup {"wal", "engine"}

\* Mutant: the engine goes on after a half-applied operation.
WriteApplyFailsUnpoisoned(op) ==
  /\ Logged(op, BatchFull)
  /\ mem' = [Applied(mem, op) EXCEPT !.idmap = mem.idmap,
                                     !.dirty = IF BatchFull THEN 0 ELSE @ + 1]
  /\ UNCHANGED poison

\* The record is in the log, synchronized or not, but the IDMap refuses the
\* change after the document was appended and the old version deleted.
WriteApplyFails(op) ==
  \E syncFailed \in {FALSE, BatchFull} :
    /\ Logged(op, BatchFull /\ ~syncFailed)
    /\ mem' = [Applied(mem, op) EXCEPT !.idmap = mem.idmap,
                                       !.dirty = IF BatchFull /\ ~syncFailed THEN 0 ELSE @ + 1]
    /\ poison' = poison \cup {"engine"} \cup (IF syncFailed THEN {"wal"} ELSE {})

LogAndApply(op) ==
  /\ WalHealthy
  /\ WriteSucceeds(op) \/ WriteSyncFails(op) \/ WriteApplyFails(op)
  /\ UNCHANGED <<config, current, stable, lastGen, segFiles, idmapFiles, deleteFiles,
                 open, comp, iter, aborts>>

Operation(type, key, doc) ==
  [type |-> type, key |-> key, doc |-> doc, schema |-> current.schema]

HasRoom == ~Full(mem.writing) /\ NextDocumentID(mem.writing) <= MaxDocID

Insert(k) ==
  /\ Writable /\ HasRoom
  /\ k \notin DOMAIN mem.idmap
  /\ LogAndApply(Operation("insert", k, NextDocumentID(mem.writing)))

Upsert(k) ==
  /\ Writable /\ HasRoom
  /\ LogAndApply(Operation("upsert", k, NextDocumentID(mem.writing)))

Update(k) ==
  /\ Writable /\ HasRoom
  /\ k \in DOMAIN mem.idmap
  /\ LogAndApply(Operation("update", k, NextDocumentID(mem.writing)))

\* Mutant: a deletion is logged under a new document ID.
DeleteNewID(k) ==
  /\ Writable
  /\ k \in DOMAIN mem.idmap
  /\ LogAndApply(Operation("delete", k, NextDocumentID(mem.writing)))

Delete(k) ==
  /\ Writable
  /\ k \in DOMAIN mem.idmap
  /\ LogAndApply(Operation("delete", k, mem.idmap[k]))

\* An append that fails before the record is complete (LSN 0), or an explicit
\* synchronization that fails, poisons the log and changes nothing else.
WalFails ==
  /\ Writable /\ WalHealthy
  /\ poison' = poison \cup {"wal"}
  /\ UNCHANGED <<config, diskVars, open, mem, comp, iter, aborts>>

-----------------------------------------------------------------------------
(* Publication.  A plan is a manifest, the artifacts written for it, and   *)
(* the memory the handle installs once CURRENT names the manifest.         *)

\* Mutant: a number that is taken is used again.
FreeNumberTaken(taken, n) == n

\* availableArtifact and nextDeleteSnapshotGeneration: the first free number.
FreeNumber(taken, n) == Min({i \in n..(n + Cardinality(taken)) : i \notin taken})

NumbersOf(names, id) == {p[2] : p \in {q \in names : q[1] = id}}

SegmentName(id, gen) == <<id, FreeNumber(NumbersOf(DOMAIN segFiles, id), gen)>>
WalName(id, gen) == <<id, FreeNumber(NumbersOf(DOMAIN walFiles, id), gen)>>
IDMapNumber == FreeNumber(DOMAIN idmapFiles, current.gen + 1)
DeleteNumber == FreeNumber(DOMAIN deleteFiles, current.deletes + 1)

\* Mutant: the reservation of a compaction is ignored.
NextSegmentIDUnreserved == current.next

\* IDs reserved by a compaction are not given to anyone else.
NextSegmentID == Max({current.next, mem.reserved})

WalSynced ==
  [walFiles EXCEPT ![current.wal] = [recs |-> @.recs, synced |-> Len(@.recs)]]

\* publishManagerLocked reached the rename of CURRENT.  Whether the rename is
\* durable depends on the synchronization of the directory that follows it.
Committed(plan) ==
  /\ lastGen < MaxGeneration
  /\ ValidManifest(plan.manifest)
  /\ current' = [plan.manifest EXCEPT !.gen = lastGen + 1]
  /\ stable' \in {current'} \cup (IF DirSyncMayFail THEN {stable} ELSE {})
  /\ lastGen' = lastGen + 1
  /\ segFiles' = Over(plan.segs, segFiles)
  /\ idmapFiles' = Over(plan.idmaps, idmapFiles)
  /\ deleteFiles' = Over(plan.deletes, deleteFiles)
  /\ walFiles' = Over(plan.wals, IF plan.syncs THEN WalSynced ELSE walFiles)
  /\ UNCHANGED aborts

\* The operation stopped earlier.  A failure removes what it created unless
\* the removal fails too, a crash (this step, then Kill) removes nothing; the
\* artifacts are written in the order segments, IDMap, deletions, log, and a
\* manifest file that CURRENT does not name stays.
Abandoned(plan) ==
  /\ aborts < MaxAborts
  /\ aborts' = aborts + 1
  /\ \E left \in 0..4, orphan \in BOOLEAN :
       /\ orphan => left \in {0, 4} /\ lastGen < MaxGeneration
       /\ segFiles' = IF left >= 1 THEN Over(plan.segs, segFiles) ELSE segFiles
       /\ idmapFiles' = IF left >= 2 THEN Over(plan.idmaps, idmapFiles) ELSE idmapFiles
       /\ deleteFiles' = IF left >= 3 THEN Over(plan.deletes, deleteFiles) ELSE deleteFiles
       /\ LET logs == IF plan.syncs THEN WalSynced ELSE walFiles
          IN  walFiles' = IF left = 4 THEN Over(plan.wals, logs) ELSE logs
       /\ lastGen' = IF orphan THEN lastGen + 1 ELSE lastGen
  /\ UNCHANGED <<current, stable>>

-----------------------------------------------------------------------------
(* Flush, schema rewrite, metadata.                                        *)

FlushPlan ==
  LET w       == mem.writing
      id      == NextSegmentID
      start   == NextDocumentID(w)
      seg     == SegmentName(w.id, current.gen + 1)
      wal     == WalName(id, current.gen + 1)
      sealed  == w.docs # EmptyMap
  IN  [manifest |-> [current EXCEPT !.segs = IF sealed THEN @ \cup {seg} ELSE @,
                                    !.wal = wal, !.start = start, !.idmap = IDMapNumber,
                                    !.deletes = DeleteNumber, !.next = id + 1],
       segs     |-> IF sealed THEN Entry(seg, w.docs) ELSE EmptyMap,
       idmaps   |-> Entry(IDMapNumber, mem.idmap),
       deletes  |-> Entry(DeleteNumber, mem.deletes),
       wals     |-> Entry(wal, NewWal),
       syncs    |-> TRUE,
       mem      |-> Manager(IF sealed THEN Over(Entry(w.id, w.docs), mem.segs) ELSE mem.segs,
                            NewWriteSegment(id, start), mem.idmap, mem.deletes, 0, mem.reserved)]

\* RotateWriting (or SetWriting when only deletions were logged) accepts the
\* committed plan.
RotationAccepted(plan) ==
  /\ mem.writing.docs # EmptyMap =>
       /\ mem.writing.id \notin DOMAIN mem.segs
       /\ plan.mem.writing.id # mem.writing.id
       /\ ImmutablesAcceptable(plan.mem.segs)
  /\ WritingAcceptable(plan.mem.segs, plan.mem.writing)

FlushNeeded == mem.writing.docs # EmptyMap \/ Wal.recs # <<>>

\* Mutant: the handle keeps its writing segment after the commit.
FlushUnrotated ==
  /\ Writable /\ WalHealthy
  /\ FlushNeeded
  /\ Committed(FlushPlan) \/ Abandoned(FlushPlan)
  /\ mem' = [mem EXCEPT !.dirty = 0]
  /\ UNCHANGED <<config, open, poison, comp, iter>>

\* A rotation that fails after the commit leaves a handle that must be
\* reopened.
Flush ==
  /\ Writable /\ WalHealthy
  /\ FlushNeeded
  /\ \/ /\ Committed(FlushPlan)
        /\ mem' = IF RotationAccepted(FlushPlan) THEN FlushPlan.mem ELSE mem
        /\ poison' = IF RotationAccepted(FlushPlan) THEN poison ELSE poison \cup {"store"}
     \/ /\ Abandoned(FlushPlan)
        /\ mem' = [mem EXCEPT !.dirty = 0]
        /\ UNCHANGED poison
  /\ UNCHANGED <<config, open, comp, iter>>

\* RewriteDocuments: the live documents, encoded for the new schema, in fresh
\* canonical segments with an empty delete set.
RewritePlan(schema) ==
  LET docs  == [d \in LiveIDs(mem) |-> [Retained(mem)[d] EXCEPT !.schema = schema]]
      runs  == DocumentRuns(DOMAIN docs)
      segs  == SegmentsOf(runs, docs, NextSegmentID)
      names == {SegmentName(id, current.gen + 1) : id \in DOMAIN segs}
      id    == NextSegmentID + Cardinality(runs)
      start == NextDocumentID(mem.writing)
      wal   == WalName(id, current.gen + 1)
      idmap == [k \in {docs[d].key : d \in DOMAIN docs} |->
                  CHOOSE d \in DOMAIN docs : docs[d].key = k]
  IN  [manifest |-> [current EXCEPT !.schema = schema, !.segs = names, !.wal = wal,
                                    !.start = start, !.idmap = IDMapNumber,
                                    !.deletes = DeleteNumber, !.next = id + 1],
       segs     |-> [p \in names |-> segs[p[1]]],
       idmaps   |-> Entry(IDMapNumber, idmap),
       deletes  |-> Entry(DeleteNumber, {}),
       wals     |-> Entry(wal, NewWal),
       syncs    |-> TRUE,
       mem      |-> Manager(segs, NewWriteSegment(id, start), idmap, {}, 0, mem.reserved)]

\* What RewriteDocuments checks before it writes the checkpoints.
RewriteAccepted(plan) ==
  /\ DOMAIN plan.mem.segs # {} => Max(UNION {DOMAIN plan.mem.segs[id] : id \in DOMAIN plan.mem.segs})
                                    < plan.mem.writing.min
  /\ ImmutablesAcceptable(plan.mem.segs)
  /\ WritingAcceptable(plan.mem.segs, plan.mem.writing)
  /\ ValidState(plan.mem)

\* Mutant: open iterators do not keep a rewrite out.
RewriteDocumentsUnderIterator ==
  /\ Writable /\ WalHealthy
  /\ comp.phase = "none"
  /\ current.schema < MaxSchema
  /\ RewriteAccepted(RewritePlan(current.schema + 1))
  /\ LET plan == RewritePlan(current.schema + 1) IN
       \/ Committed(plan) /\ mem' = plan.mem
       \/ Abandoned(plan) /\ mem' = [mem EXCEPT !.dirty = 0]
  /\ UNCHANGED <<config, open, poison, comp, iter>>

RewriteDocuments ==
  /\ Writable /\ WalHealthy
  /\ comp.phase = "none" /\ ~iter.active
  /\ current.schema < MaxSchema
  /\ RewriteAccepted(RewritePlan(current.schema + 1))
  /\ LET plan == RewritePlan(current.schema + 1) IN
       \/ Committed(plan) /\ mem' = plan.mem
       \/ Abandoned(plan) /\ mem' = [mem EXCEPT !.dirty = 0]
  /\ UNCHANGED <<config, open, poison, comp, iter>>

\* Mutant: a schema that needs re-encoded documents is published on its own.
PublishMetadataNewSchema ==
  /\ Writable
  /\ comp.phase \in {"none", "unchanged"}
  /\ LET plan == [manifest |-> [current EXCEPT !.schema = MaxSchema], segs |-> EmptyMap,
                  idmaps |-> EmptyMap, deletes |-> EmptyMap, wals |-> EmptyMap, syncs |-> FALSE]
     IN  Committed(plan) \/ Abandoned(plan)
  /\ UNCHANGED <<config, open, poison, mem, comp, iter>>

\* PublishSchema and PublishSegmentIndexSnapshots: a new generation over the
\* same documents, published without synchronizing the log.
PublishMetadata ==
  /\ Writable
  /\ comp.phase \in {"none", "unchanged"}
  /\ LET plan == [manifest |-> current, segs |-> EmptyMap, idmaps |-> EmptyMap,
                  deletes |-> EmptyMap, wals |-> EmptyMap, syncs |-> FALSE]
     IN  Committed(plan) \/ Abandoned(plan)
  /\ UNCHANGED <<config, open, poison, mem, comp, iter>>

-----------------------------------------------------------------------------
(* Compaction.                                                             *)

\* Mutant: deletions alone do not ask for an optimization.
OptimizationNeededWithoutDeletes ==
  \/ mem.writing.docs # EmptyMap
  \/ \E i, j \in DOMAIN mem.segs :
       /\ Cardinality(DOMAIN mem.segs[i]) < Capacity
       /\ Max(DOMAIN mem.segs[i]) + 1 = Min(DOMAIN mem.segs[j])

\* Unsealed documents, deletions, or a segment with room before its neighbour.
OptimizationNeeded ==
  \/ mem.writing.docs # EmptyMap
  \/ mem.deletes # {}
  \/ \E i, j \in DOMAIN mem.segs :
       /\ Cardinality(DOMAIN mem.segs[i]) < Capacity
       /\ Max(DOMAIN mem.segs[i]) + 1 = Min(DOMAIN mem.segs[j])

BeginCompaction ==
  /\ Writable
  /\ comp.phase = "none" /\ ~iter.active
  /\ ~FlushNeeded
  /\ aborts <= MaxAborts
  /\ comp' = [NoComp EXCEPT !.phase = "begun", !.gen = current.gen, !.schema = current.schema,
                            !.inputs = mem.segs, !.captured = mem.deletes]
  /\ UNCHANGED <<config, diskVars, open, poison, mem, iter, aborts>>

InputDocuments == Merged(Range(comp.inputs))

Purged == DOMAIN InputDocuments \cap comp.captured

OutputRuns == DocumentRuns(DOMAIN InputDocuments \ comp.captured)

LayoutChanges ==
  Purged # {} \/ OutputRuns # {DOMAIN comp.inputs[id] : id \in DOMAIN comp.inputs}

\* Prepare, up to the reservation: outside the lock it found nothing to do,
\* or it takes the lock to reserve one segment ID for each run.
PrepareReserve ==
  /\ comp.phase = "begun"
  /\ \/ /\ ~LayoutChanges
        /\ comp' = [comp EXCEPT !.phase = "unchanged"]
        /\ UNCHANGED mem
     \/ /\ LayoutChanges
        /\ Writable
        /\ comp' = [comp EXCEPT !.phase = "writing", !.purged = Purged,
                                !.runs = OutputRuns, !.first = NextSegmentID]
        /\ mem' = [mem EXCEPT !.reserved = NextSegmentID + Cardinality(OutputRuns)]
  /\ UNCHANGED <<config, diskVars, open, poison, iter, aborts>>

OutputSegments == SegmentsOf(comp.runs, InputDocuments, comp.first)

Prepared ==
  comp.phase = "writing" /\ {p[1] : p \in comp.outputs} = DOMAIN OutputSegments

\* Prepare writes the next output without holding the lock.
PrepareOutput ==
  /\ comp.phase = "writing" /\ ~Prepared
  /\ LET id   == comp.first + Cardinality(comp.outputs)
         name == SegmentName(id, comp.gen + 1)
     IN  /\ segFiles' = Over(Entry(name, OutputSegments[id]), segFiles)
         /\ comp' = [comp EXCEPT !.outputs = @ \cup {name}]
  /\ UNCHANGED <<config, current, stable, lastGen, idmapFiles, deleteFiles, walFiles,
                 open, poison, mem, iter, aborts>>

\* LoadDeleteStore of the current checkpoint, with the purged IDs restored.
CheckpointDeletes == deleteFiles[current.deletes] \ comp.purged

\* The delete set of the next manager: the current one, purged IDs restored.
MemoryDeletes == mem.deletes \ comp.purged

\* The manifest keeps the log and the IDMap checkpoint it replays over, so the
\* delete snapshot is the checkpoint's, less the purged documents; memory
\* keeps the later deletions.
CommitPlan ==
  LET inputs    == DOMAIN comp.inputs
      snapshots == IF comp.purged = {} THEN EmptyMap
                   ELSE Entry(DeleteNumber, CheckpointDeletes)
      opened    == [id \in {p[1] : p \in comp.outputs} |->
                      segFiles[CHOOSE p \in comp.outputs : p[1] = id]]
  IN  [manifest |-> [current EXCEPT
                       !.segs = {p \in @ : p[1] \notin inputs} \cup comp.outputs,
                       !.deletes = IF comp.purged = {} THEN @ ELSE DeleteNumber,
                       !.next = NextSegmentID],
       segs     |-> EmptyMap,
       idmaps   |-> EmptyMap,
       deletes  |-> snapshots,
       wals     |-> EmptyMap,
       syncs    |-> TRUE,
       mem      |-> [mem EXCEPT !.segs = Over(opened, Without(@, inputs)),
                                !.deletes = MemoryDeletes, !.dirty = 0]]

\* What Commit checks under the lock before it writes anything.
CommitAccepted ==
  /\ current.schema = comp.schema
  /\ DOMAIN comp.inputs \subseteq DOMAIN mem.segs
  /\ \A id \in DOMAIN comp.inputs : mem.segs[id] = comp.inputs[id]
  /\ {p[1] : p \in comp.outputs} \cap (DOMAIN mem.segs \ DOMAIN comp.inputs) = {}
  /\ ImmutablesAcceptable(CommitPlan.mem.segs)
  /\ WritingAcceptable(CommitPlan.mem.segs, mem.writing)
  /\ ValidManifest(CommitPlan.manifest)

\* The delete snapshot is written before the log is synchronized, so a failure
\* may come before or after the synchronization.
Commit ==
  /\ Prepared
  /\ Writable /\ WalHealthy
  /\ CommitAccepted
  /\ \/ /\ Committed(CommitPlan)
        /\ mem' = CommitPlan.mem
        /\ comp' = [comp EXCEPT !.phase = "committed"]
     \/ /\ \E synced \in BOOLEAN :
             /\ Abandoned([CommitPlan EXCEPT !.syncs = synced])
             /\ mem' = IF synced THEN [mem EXCEPT !.dirty = 0] ELSE mem
        /\ UNCHANGED comp
  /\ UNCHANGED <<config, open, poison, iter>>

\* Close removes outputs that were not committed, or fails to.
CompactionClose ==
  /\ comp.phase # "none"
  /\ comp' = NoComp
  /\ IF comp.phase = "writing"
     THEN segFiles' \in {Without(segFiles, comp.outputs), segFiles} /\ aborts' = aborts + 1
     ELSE UNCHANGED <<segFiles, aborts>>
  /\ UNCHANGED <<config, current, stable, lastGen, idmapFiles, deleteFiles, walFiles,
                 open, poison, mem, iter>>

-----------------------------------------------------------------------------
(* Pruning, iterators, the handle's life and crashes.                      *)

\* Mutant: the delete snapshot is assumed to carry the manifest's number.
KeepByGeneration ==
  [segs |-> current.segs, idmaps |-> {current.idmap}, wals |-> {current.wal},
   deletes |-> {current.gen}]

\* What the current manifest references.
Keep ==
  [segs |-> current.segs, idmaps |-> {current.idmap}, wals |-> {current.wal},
   deletes |-> {current.deletes}]

Kept(files, names) == Restrict(files, DOMAIN files \cap names)

\* It removes files kind by kind and may stop, fail or die after any of them.
PruneObsoleteArtifacts ==
  /\ Writable
  /\ comp.phase \in {"none", "unchanged", "committed"}
  /\ \E done \in 1..4 :
       /\ segFiles' = Kept(segFiles, Keep.segs)
       /\ idmapFiles' = IF done >= 2 THEN Kept(idmapFiles, Keep.idmaps) ELSE idmapFiles
       /\ walFiles' = IF done >= 3 THEN Kept(walFiles, Keep.wals) ELSE walFiles
       /\ deleteFiles' = IF done = 4 THEN Kept(deleteFiles, Keep.deletes) ELSE deleteFiles
  /\ UNCHANGED <<config, current, stable, lastGen, open, poison, mem, comp, iter, aborts>>

CreateIterator ==
  /\ open /\ config.iterators
  /\ comp.phase = "none" /\ ~iter.active
  /\ iter' = [active |-> TRUE, map |-> mem.idmap, schema |-> current.schema]
  /\ UNCHANGED <<config, diskVars, open, poison, mem, comp, aborts>>

CloseIterator ==
  /\ iter.active
  /\ iter' = NoIter
  /\ UNCHANGED <<config, diskVars, open, poison, mem, comp, aborts>>

HandleGone ==
  /\ open' = FALSE
  /\ poison' = {}
  /\ mem' = NoManager
  /\ comp' = NoComp
  /\ iter' = NoIter
  /\ aborts' = IF comp.phase = "writing" THEN aborts + 1 ELSE aborts

\* Close synchronizes records this handle appended since its last
\* synchronization; an error does not keep the lock.
Close ==
  /\ open
  /\ comp.phase = "none" /\ ~iter.active
  /\ walFiles' \in (IF WalHealthy /\ mem.dirty > 0 THEN {WalSynced, walFiles} ELSE {walFiles})
  /\ HandleGone
  /\ UNCHANGED <<config, current, stable, lastGen, segFiles, idmapFiles, deleteFiles>>

Kill ==
  /\ open
  /\ HandleGone
  /\ UNCHANGED <<config, diskVars>>

\* Any suffix of the records that were not synchronized is lost, and CURRENT
\* is what the last synchronization of the root directory made durable.
PowerLoss ==
  /\ HandleGone
  /\ current' = stable
  /\ stable.wal \in DOMAIN walFiles
  /\ \E n \in walFiles[stable.wal].synced..Len(walFiles[stable.wal].recs) :
       walFiles' = [walFiles EXCEPT ![stable.wal] = [recs |-> SubSeq(@.recs, 1, n), synced |-> n]]
  /\ UNCHANGED <<config, stable, lastGen, segFiles, idmapFiles, deleteFiles>>

\* OpenCollection.  Records that survived a process crash are replayed but
\* not synchronized.
OpenCollection ==
  /\ ~open
  /\ Recoverable(current, Len(Wal.recs))
  /\ open' = TRUE
  /\ LET r == Recovered(current, Len(Wal.recs))
     IN  mem' = Manager(r.segs, r.writing, r.idmap, r.deletes, 0, 0)
  /\ UNCHANGED <<config, diskVars, poison, comp, iter, aborts>>

Next ==
  \/ \E k \in config.keys : Insert(k) \/ Upsert(k) \/ Update(k) \/ Delete(k)
  \/ WalFails
  \/ Flush \/ RewriteDocuments \/ PublishMetadata
  \/ BeginCompaction \/ PrepareReserve \/ PrepareOutput \/ Commit \/ CompactionClose
  \/ PruneObsoleteArtifacts
  \/ CreateIterator \/ CloseIterator
  \/ Close \/ Kill \/ PowerLoss \/ OpenCollection

Spec == Init /\ [][Next]_vars

-----------------------------------------------------------------------------
(* Properties.                                                             *)

DocIDs == 0..MaxDocID
Schemas == 1..MaxSchema
Name == Nat \X Nat

IsMapTo(f, T) == DOMAIN f \subseteq Keys /\ Range(f) \subseteq T

IsDocuments(f) ==
  DOMAIN f \subseteq DocIDs /\ Range(f) \subseteq [key : Keys, schema : Schemas]

IsOperation(op) ==
  op \in [type : {"insert", "upsert", "update", "delete"}, key : Keys, doc : DocIDs, schema : Schemas]

IsManifest(m) ==
  /\ m.gen \in 1..lastGen /\ m.schema \in Schemas
  /\ m.segs \subseteq Name /\ m.wal \in Name
  /\ m.start \in 0..(MaxDocID + 1) /\ m.next \in Nat

\* Every variable keeps its type.
TypeOK ==
  /\ IsManifest(current) /\ IsManifest(stable) /\ lastGen \in 1..MaxGeneration
  /\ \A p \in DOMAIN segFiles : p \in Name /\ IsDocuments(segFiles[p])
  /\ \A n \in DOMAIN idmapFiles : IsMapTo(idmapFiles[n], DocIDs)
  /\ \A n \in DOMAIN deleteFiles : deleteFiles[n] \subseteq DocIDs
  /\ \A p \in DOMAIN walFiles :
       /\ \A i \in DOMAIN walFiles[p].recs : IsOperation(walFiles[p].recs[i])
       /\ walFiles[p].synced \in 0..Len(walFiles[p].recs)
  /\ open \in BOOLEAN /\ poison \subseteq {"wal", "engine", "store"}
  /\ IsDocuments(mem.writing.docs) /\ \A id \in DOMAIN mem.segs : IsDocuments(mem.segs[id])
  /\ IsMapTo(mem.idmap, DocIDs) /\ mem.deletes \subseteq DocIDs
  /\ mem.dirty \in Nat /\ mem.reserved \in Nat
  /\ comp.phase \in {"none", "begun", "unchanged", "writing", "committed"}
  /\ iter.active \in BOOLEAN /\ IsMapTo(iter.map, DocIDs)
  /\ aborts \in 0..(MaxAborts + 1)

\* Whatever prefix of the log a crash leaves, in the middle of whatever
\* maintenance, OpenCollection finds every artifact, replays every record and
\* passes its own validation; and the memory of a healthy handle is what
\* reopening the collection would build, so that no operation lets memory and
\* disk drift apart.
RecoveryExact ==
  /\ \A n \in Wal.synced..Len(Wal.recs) : Recoverable(current, n)
  /\ Writable =>
       LET r == Recovered(current, Len(Wal.recs))
       IN  /\ r.segs = mem.segs /\ r.writing = mem.writing
           /\ r.idmap = mem.idmap /\ r.deletes = mem.deletes

\* Flush never has to give up a handle after CURRENT changed: the rotation
\* RotateWriting checks after the commit is always accepted.
RotationNeverFails ==
  Writable /\ FlushNeeded => RotationAccepted(FlushPlan) /\ ValidManifest(FlushPlan.manifest)

\* RewriteDocuments never refuses the documents it was given: the runs it cuts,
\* the segment and document IDs it hands out and the new IDMap always pass the
\* checks it makes before it publishes.
RewriteNeverRejected ==
  Writable => /\ RewriteAccepted(RewritePlan(current.schema))
              /\ ValidManifest(RewritePlan(current.schema).manifest)

\* Writes and flushes during a compaction never make Commit reject what was
\* prepared, so the segment IDs it reserved and its inputs are still its own.
CommitNeverRejected ==
  Prepared /\ Writable => CommitAccepted

\* Flush, a compaction and a schema rewrite compute their artifacts from state
\* that others may have changed and check the result before or after they
\* publish: none of the checks ever fails.
PublicationsNeverRejected ==
  RotationNeverFails /\ RewriteNeverRejected /\ CommitNeverRejected

\* An open iterator can still fetch every document of its snapshot, under the
\* key it had and in the encoding of the schema the iterator captured.
IteratorSnapshotRetained ==
  iter.active =>
    \A k \in DOMAIN iter.map :
      /\ iter.map[k] \in DOMAIN Retained(mem)
      /\ Retained(mem)[iter.map[k]] = [key |-> k, schema |-> iter.schema]

\* A schema change and the re-encoding of the documents are one atomic step:
\* no crash exposes a document in another schema's encoding.
SchemaMatchesDocuments ==
  LET docs == Retained(Recovered(current, Len(Wal.recs)))
  IN  \A d \in DOMAIN docs : docs[d].schema = current.schema

\* OptimizationNeeded and Prepare decide the same question with different
\* algorithms; were the first to say yes for ever, Optimize would rewrite the
\* collection on every call.
OptimizeConverges ==
  /\ comp.phase = "begun"
  /\ mem.segs = comp.inputs /\ mem.deletes = comp.captured /\ mem.writing.docs = EmptyMap
  => (OptimizationNeeded <=> LayoutChanges)

\* The document ID recovery would hand out next if every record that is not
\* synchronized were lost.
DurableNextDocID == NextDocumentID(Recovered(current, Wal.synced).writing)

\* Document IDs that were durably given out are never given out again, even
\* when the documents were purged and the segment that held them is gone.
DurableDocIDsNeverReused == [][DurableNextDocID' >= DurableNextDocID]_vars

\* An artifact never changes once it exists: a publication, a retry after a
\* failure and a compaction never write over a file, orphaned or not.
ArtifactsImmutable ==
  [][/\ \A p \in DOMAIN segFiles \cap DOMAIN segFiles' : segFiles'[p] = segFiles[p]
     /\ \A n \in DOMAIN idmapFiles \cap DOMAIN idmapFiles' : idmapFiles'[n] = idmapFiles[n]
     /\ \A n \in DOMAIN deleteFiles \cap DOMAIN deleteFiles' : deleteFiles'[n] = deleteFiles[n]
     /\ \A p \in DOMAIN walFiles \cap DOMAIN walFiles' : p # current.wal => walFiles'[p] = walFiles[p]]_vars

\* "CURRENT is already the commit point, so an interrupted prune is harmless"
\* (collection.go:588): whatever CURRENT names after a power loss, its
\* artifacts exist.
PruneHarmless == FilesPresent(stable)

-----------------------------------------------------------------------------
(* The promise: the store implements DurableMap.                           *)

CrashVersions ==
  [i \in 1..(Len(Wal.recs) - Wal.synced + 1) |-> Recovered(current, Wal.synced + i - 1).idmap]

Promise == INSTANCE DurableMap WITH
  Versions <- UNION {0..c.maxDocID : c \in Configs},
  up       <- Writable,
  map      <- IF Writable THEN mem.idmap ELSE EmptyMap,
  hist     <- CrashVersions

\* Every behaviour of the store is one of the durable map: only a write
\* changes what a caller reads, a synchronized write is never lost, and what
\* is lost is always the newest suffix.
ImplementsDurableMap == Promise!Spec

=============================================================================
