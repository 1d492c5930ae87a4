---------------------------- MODULE QueryRuntime ----------------------------
(***************************************************************************)
(* The query side of xvec.Collection: segment runtimes (the decoded        *)
(* documents and indexes of one segment) with their reference counts, the  *)
(* cache of prepared runtimes, the query snapshots built from it, leases   *)
(* of running queries, Optimize and CreateIndex, which build replacements  *)
(* while queries and writes go on, and Close.                              *)
(*                                                                         *)
(* An operation that holds Collection.mu exclusively is one action.  What  *)
(* runs without it is split: a query takes its snapshot under the read     *)
(* lock in two steps and returns its runtimes one at a time under no lock; *)
(* a build and a compaction hold only maintenanceMu between their steps;   *)
(* Close holds both locks while it waits for the leases.                   *)
(*                                                                         *)
(* A segment is its number of documents, which only grow at the end while  *)
(* it is the writing segment, so <<schema, count>> is collectionRuntimeKey. *)
(***************************************************************************)
EXTENDS Integers, FiniteSets, FiniteSetsExt, Functions

CONSTANTS
  Queries,   \* goroutines that query
  Copies,    \* bound: runtimes of one segment that are open together
  Configs,   \* the collections, and the bounds of each, that are explored
  None

\* options: the goroutines that query and what they call, MaxDocsPerSegment,
\* the documents in the persisted segment Open finds, ReadOnly, and the schemas
\* without scalar, FTS or quantized Flat indexes.  bounds: documents of one
\* write, segment IDs, schemas, deletions, index closes that fail, iterators and
\* runtimes that are open together.
ASSUME RuntimeConstants ==
  /\ Copies \in Nat \ {0} /\ IsFiniteSet(Queries)
  /\ \A c \in Configs :
       /\ None \notin (1..c.maxSegment) \X (1..Copies)
       /\ c.queries \subseteq Queries /\ c.kinds \subseteq {"full", "vector", "multi"}
       /\ c.capacity \in Nat \ {0} /\ c.initDocs \in 0..c.capacity /\ c.readOnly \in BOOLEAN
       /\ c.maxBatch \in 0..c.capacity /\ c.maxSegment \in Nat \ {0, 1}
       /\ c.maxSchema \in Nat \ {0} /\ c.appendSchemas \subseteq 1..c.maxSchema
       /\ c.maxDeletes \in Nat /\ c.maxFailures \in Nat /\ c.maxIterators \in Nat
       /\ c.maxRuntimes \in Nat

VARIABLES
  config,     \* the member of Configs this collection is
  docs,       \* documents of each segment; an absent segment has none
  writing,    \* the segment that accepts documents
  nextSeg,    \* the next unreserved segment ID
  schema,     \* Collection.schema
  deletes,    \* number of deletions: which documents are live
  indexed,    \* segments with a committed index artifact for schema
  rt,         \* segment, schema and count of each open runtime
  refs,       \* collectionSegmentRuntime.refs
  cache,      \* Collection.segmentIndexes
  retired,    \* Collection.retiredRuntimes: runtimes whose Close failed
  snap,       \* querySnapshot ("full") and vectorQuerySnapshots ("vector")
  leases,     \* Collection.queryLeases
  query,      \* the query goroutines
  maint,      \* the maintenance that holds maintenanceMu between its steps
  iterators,  \* Collection.activeIterators
  phase,      \* "open", "draining" (Close waits), "closed"
  prepared,   \* the latest preparation succeeded
  failures    \* index closes that failed so far

storeVars == <<config, docs, writing, nextSeg, schema, deletes, indexed>>
poolVars == <<rt, refs, retired, failures>>
vars == <<storeVars, poolVars, cache, snap, leases, query, maint, iterators,
          phase, prepared>>

Capacity == config.capacity
InitDocs == config.initDocs
ReadOnly == config.readOnly
AppendSchemas == config.appendSchemas
MaxBatch == config.maxBatch
MaxSegment == config.maxSegment
MaxSchema == config.maxSchema
MaxDeletes == config.maxDeletes
MaxFailures == config.maxFailures

Segments == 1..MaxSegment
SnapKinds == {"full", "vector"}

\* Identities of segment runtimes; a closed one is used again.
Runtimes == Segments \X (1..Copies)

-----------------------------------------------------------------------------
(* Runtimes and their owners.                                              *)

Closed == [seg |-> 0, schema |-> 0, count |-> 0]
Key(s, sc, n) == [seg |-> s, schema |-> sc, count |-> n]
Free == {r \in Runtimes : rt[r] = Closed}

\* New runtimes for the segments S; no step when the bounds forbid them.
Allocations(S) ==
  {made \in {[s \in S |-> <<s, Min({i \in 1..Copies : <<s, i>> \in Free} \cup {Copies})>>]} :
     /\ Range(made) \subseteq Free
     /\ Cardinality(Runtimes \ Free) + Cardinality(S) <= config.maxRuntimes}

NoSnapshot == [set |-> FALSE, view |-> <<>>, deletes |-> 0]
IdleQuery == [pc |-> "idle", kind |-> None, held |-> {}, view |-> <<>>]
NoMaintenance == [pc |-> "none", inputs |-> {}, sources |-> {}, outputs |-> <<>>]

Cached == Range(cache) \ {None}

\* How many references each runtime loses when the snapshots are dropped, and
\* when the cache drops the entries of the segments S.
BySnapshots == [r \in Runtimes |-> Cardinality({k \in SnapKinds : r \in DOMAIN snap[k].view})]
ByCache(S) == [r \in Runtimes |-> Cardinality({s \in S : cache[s] = r})]
ByMembership(S) == [r \in Runtimes |-> IF r \in S THEN 1 ELSE 0]
NoRelease == ByMembership({})
Plus(f, g) == [r \in Runtimes |-> f[r] + g[r]]

\* Mutant: release forgets the runtime whose indexes did not close.
SettleForgets(open, counts, released, kept) ==
  LET left == [r \in Runtimes |-> counts[r] - released[r]]
      last == {r \in Runtimes : released[r] > 0 /\ left[r] = 0}
  IN  \E bad \in SUBSET last :
        /\ failures + Cardinality(bad) <= MaxFailures
        /\ failures' = failures + Cardinality(bad)
        /\ refs' = [r \in Runtimes |-> IF r \in bad THEN 1 ELSE left[r]]
        /\ rt' = [r \in Runtimes |-> IF r \in last \ bad THEN Closed ELSE open[r]]
        /\ retired' = kept

\* releaseSegmentRuntime for every release of a step: open and counts are the
\* pool after its retains and new runtimes.  The last release closes the
\* indexes; if that fails the runtime gets its reference back and is retired.
Settle(open, counts, released, kept) ==
  LET left == [r \in Runtimes |-> counts[r] - released[r]]
      last == {r \in Runtimes : released[r] > 0 /\ left[r] = 0}
  IN  \E bad \in SUBSET last :
        /\ failures + Cardinality(bad) <= MaxFailures
        /\ failures' = failures + Cardinality(bad)
        /\ refs' = [r \in Runtimes |-> IF r \in bad THEN 1 ELSE left[r]]
        /\ rt' = [r \in Runtimes |-> IF r \in last \ bad THEN Closed ELSE open[r]]
        /\ retired' = kept \cup bad

\* The pool with a new runtime, referenced once, for each entry of made.
Opened(made, keys) ==
  [r \in Runtimes |-> IF \E s \in DOMAIN made : made[s] = r
                      THEN keys[CHOOSE s \in DOMAIN made : made[s] = r] ELSE rt[r]]
Counted(made) ==
  [r \in Runtimes |-> IF r \in Range(made) THEN 1 ELSE refs[r]]

-----------------------------------------------------------------------------
(* Locks.                                                                  *)

\* mu can be taken exclusively and the collection is open.
Exclusive == phase = "open" /\ \A q \in Queries : query[q].pc # "acquiring"

\* maintenanceMu can be taken as well.
ExclusiveMaintenance == Exclusive /\ maint.pc = "none"

\* invalidateQuerySnapshotLocked; the releases are BySnapshots.
Invalidate == snap' = [k \in SnapKinds |-> NoSnapshot]

-----------------------------------------------------------------------------
(* Storage, as far as queries see it.                                      *)

Sealed == {s \in Segments : docs[s] > 0 /\ s # writing}

\* Insert, Upsert, Update: n documents go to the writing segment, which is
\* sealed when they do not fit.
StoreAppend(n) ==
  LET room == Capacity - docs[writing]
  IN  IF n <= room
      THEN /\ docs' = [docs EXCEPT ![writing] = @ + n]
           /\ UNCHANGED <<writing, nextSeg>>
      ELSE /\ nextSeg \in Segments
           /\ docs' = [docs EXCEPT ![writing] = Capacity, ![nextSeg] = n - room]
           /\ writing' = nextSeg
           /\ nextSeg' = nextSeg + 1

\* CollectionStore.Flush seals a writing segment that has documents.
StoreFlush ==
  /\ UNCHANGED docs
  /\ IF docs[writing] = 0
     THEN UNCHANGED <<writing, nextSeg>>
     ELSE nextSeg \in Segments /\ writing' = nextSeg /\ nextSeg' = nextSeg + 1

\* rewriteDocumentRuns over live documents: the segments S are replaced by new
\* ones, numbered from first on, that hold at most as many documents.
Rewrites(S, first) ==
  {out \in UNION {[first..last -> 1..Capacity] : last \in (first - 1)..MaxSegment} :
     MapThenSumSet(LAMBDA s : out[s], DOMAIN out) <= MapThenSumSet(LAMBDA s : docs[s], S)}

-----------------------------------------------------------------------------
(* prepareSegmentRuntimesLocked.  The new documents and schema are in the  *)
(* primed variables; before and after are the references that the calling  *)
(* operation releases before and after it prepares.                        *)

Wanted == {s \in Segments : docs'[s] > 0}
Ready(s) == cache[s] # None /\ rt[cache[s]] = Key(s, schema', docs'[s])

\* Mutant: the number of references is not looked at.
CanAppendShared(before) ==
  LET r == cache[writing']
  IN  /\ schema' \in AppendSchemas
      /\ r # None
      /\ rt[r].schema = schema' /\ rt[r].count < docs'[writing']

\* appendOwnedMutableRuntimeLocked: the cache is the only owner of the
\* runtime of the writing segment, which grows in place.
CanAppend(before) ==
  LET r == cache[writing']
  IN  /\ schema' \in AppendSchemas
      /\ r # None
      /\ refs[r] - before[r] = 1
      /\ rt[r].schema = schema' /\ rt[r].count < docs'[writing']

AppendRuntime(before, after) ==
  /\ CanAppend(before)
  /\ LET r == cache[writing']
     IN  Settle([rt EXCEPT ![r].count = docs'[writing']], refs, Plus(before, after), retired)
  /\ prepared' = TRUE
  /\ UNCHANGED cache

\* segmentRuntimeIndexesLocked: runtimes with the wanted key stay, the others
\* are built, and what the cache no longer holds is released.
ReplaceRuntimes(before, after) ==
  /\ ~CanAppend(before)
  /\ LET stale == {s \in Wanted : ~Ready(s)}
         dropped == {s \in Segments : cache[s] # None /\ (s \in stale \/ s \notin Wanted)}
         keys == [s \in stale |-> Key(s, schema', docs'[s])]
     IN  \E made \in Allocations(stale) :
           /\ cache' = [s \in Segments |-> IF s \in stale THEN made[s]
                                           ELSE IF s \in dropped THEN None ELSE cache[s]]
           /\ Settle(Opened(made, keys), Counted(made),
                     Plus(Plus(before, after), ByCache(dropped)), retired)
  /\ prepared' = TRUE

\* An index does not open: the runtimes made so far are released, the cache
\* stays as it was.
PrepareFails(before, after) ==
  /\ ~CanAppend(before)
  /\ LET stale == {s \in Wanted : ~Ready(s)}
     IN  \E some \in SUBSET stale : \E made \in Allocations(some) :
           /\ some # stale
           /\ Settle(Opened(made, [s \in some |-> Key(s, schema', docs'[s])]), Counted(made),
                     Plus(Plus(before, after), ByMembership(Range(made))), retired)
  /\ prepared' = FALSE
  /\ UNCHANGED cache

Prepare(before, after) ==
  \/ AppendRuntime(before, after)
  \/ ReplaceRuntimes(before, after)

\* Only the snapshots are released; nothing is prepared.
ReleaseSnapshots ==
  /\ Settle(rt, refs, BySnapshots, retired)
  /\ UNCHANGED <<cache, prepared>>

-----------------------------------------------------------------------------
(* Open.  OpenCollection found one persisted segment, or none.             *)

Init ==
  /\ config \in Configs
  /\ docs = [s \in Segments |-> IF s = 1 THEN InitDocs ELSE 0]
  /\ writing = (IF InitDocs = 0 THEN 1 ELSE 2)
  /\ nextSeg = writing + 1
  /\ schema = 1 /\ deletes = 0 /\ indexed = {}
  /\ LET r == <<1, 1>>
         S == IF InitDocs = 0 THEN {} ELSE {1}
     IN  /\ cache = [s \in Segments |-> IF s \in S THEN r ELSE None]
         /\ rt = [t \in Runtimes |-> IF S # {} /\ t = r THEN Key(1, 1, InitDocs) ELSE Closed]
         /\ refs = [t \in Runtimes |-> IF S # {} /\ t = r THEN 1 ELSE 0]
  /\ retired = {} /\ failures = 0
  /\ snap = [k \in SnapKinds |-> NoSnapshot]
  /\ leases = 0
  /\ query = [q \in Queries |-> IdleQuery]
  /\ maint = NoMaintenance
  /\ iterators = 0
  /\ phase = "open"
  /\ prepared = TRUE

-----------------------------------------------------------------------------
(* Writes.  maintenanceMu is not taken: they run during a build.           *)

\* writeDocuments, insertDocumentsLocked: the store may accept any number of
\* the documents; a read-only one accepts none.
Write(n) ==
  /\ Exclusive
  /\ ReadOnly => n = 0
  /\ StoreAppend(n)
  /\ UNCHANGED <<config, schema, deletes, indexed, leases, query, maint, iterators, phase>>
  /\ Invalidate
  /\ Prepare(BySnapshots, NoRelease) \/ PrepareFails(BySnapshots, NoRelease)

\* Mutant: Delete keeps the cached snapshots.
DeleteKeepsSnapshots ==
  /\ Exclusive
  /\ deletes' \in {deletes, deletes + 1} \cap 0..MaxDeletes
  /\ ReadOnly => deletes' = deletes
  /\ UNCHANGED <<config, docs, writing, nextSeg, schema, indexed, poolVars, cache, snap, leases,
                 query, maint, iterators, phase, prepared>>

\* Delete, DeleteByFilter: runtimes hold deleted documents as well, so only
\* the snapshots are dropped, also when the store deletes nothing.
Delete ==
  /\ Exclusive
  /\ deletes' \in {deletes, deletes + 1} \cap 0..MaxDeletes
  /\ ReadOnly => deletes' = deletes
  /\ UNCHANGED <<config, docs, writing, nextSeg, schema, indexed, leases, query, maint, iterators, phase>>
  /\ Invalidate
  /\ ReleaseSnapshots

-----------------------------------------------------------------------------
(* Operations under both locks.                                            *)

\* Flush: returns early when the store or the persistence of index artifacts
\* fails, possibly after the writing segment was sealed.
Flush ==
  /\ ExclusiveMaintenance
  /\ UNCHANGED <<config, schema, deletes, indexed, leases, query, maint, iterators, phase>>
  /\ Invalidate
  /\ \/ UNCHANGED <<docs, writing, nextSeg>> /\ ReleaseSnapshots
     \/ ~ReadOnly /\ StoreFlush /\ ReleaseSnapshots
     \/ ~ReadOnly /\ StoreFlush /\ (Prepare(BySnapshots, NoRelease) \/ PrepareFails(BySnapshots, NoRelease))

SchemaMayChange == ExclusiveMaintenance /\ ~ReadOnly /\ iterators = 0 /\ schema < MaxSchema

\* publishSchemaLocked for DropIndex, AddColumn, AlterColumn and DropColumn:
\* rebindUnchangedIndexArtifacts keeps or loses the artifacts.
PublishSchema ==
  /\ SchemaMayChange
  /\ schema' = schema + 1
  /\ indexed' \in {indexed, {}}
  /\ UNCHANGED <<config, docs, writing, nextSeg, deletes, leases, query, maint, iterators, phase>>
  /\ Invalidate
  /\ Prepare(BySnapshots, NoRelease) \/ PrepareFails(BySnapshots, NoRelease)

\* rewriteCollectionDocumentsLocked: every segment is replaced.
RewriteDocuments ==
  /\ SchemaMayChange
  /\ schema' = schema + 1
  /\ indexed' = {}
  /\ \E out \in Rewrites(Segments, nextSeg) :
       LET w == nextSeg + Cardinality(DOMAIN out)
       IN  /\ out # <<>> /\ w \in Segments
           /\ docs' = [s \in Segments |-> IF s \in DOMAIN out THEN out[s] ELSE 0]
           /\ writing' = w /\ nextSeg' = w + 1
  /\ UNCHANGED <<config, deletes, leases, query, maint, iterators, phase>>
  /\ Invalidate
  /\ Prepare(BySnapshots, NoRelease) \/ PrepareFails(BySnapshots, NoRelease)

\* CreateIterator: it needs maintenanceMu at once, prepares with the snapshots
\* still referenced, then drops them.
CreateIterator ==
  /\ ExclusiveMaintenance
  /\ iterators < config.maxIterators
  /\ UNCHANGED <<storeVars, leases, query, maint, phase>>
  /\ \/ Prepare(NoRelease, BySnapshots) /\ Invalidate /\ iterators' = iterators + 1
     \/ PrepareFails(NoRelease, NoRelease) /\ UNCHANGED <<snap, iterators>>

CloseIterator ==
  /\ Exclusive
  /\ iterators > 0
  /\ iterators' = iterators - 1
  /\ UNCHANGED <<storeVars, poolVars, cache, snap, leases, query, maint, phase, prepared>>

-----------------------------------------------------------------------------
(* Optimize and CreateIndex: a first part under both locks, then a build   *)
(* of native indexes or a compaction under maintenanceMu alone.            *)

MayOptimize == ExclusiveMaintenance /\ ~ReadOnly /\ iterators = 0

\* optimize when nothing is needed, and the CreateIndex of an index that
\* exists: runtimes are prepared and a build follows.
OptimizeBuild ==
  /\ MayOptimize
  /\ UNCHANGED <<config, schema, deletes, indexed, leases, query, iterators, phase>>
  /\ \/ /\ docs[writing] = 0 /\ UNCHANGED <<docs, writing, nextSeg, snap>>
        /\ Prepare(NoRelease, NoRelease)
        /\ maint' = [NoMaintenance EXCEPT !.pc = "build"]
     \/ /\ StoreFlush
        /\ Prepare(NoRelease, BySnapshots) /\ Invalidate
        /\ maint' = [NoMaintenance EXCEPT !.pc = "build"]
     \/ StoreFlush /\ PrepareFails(NoRelease, NoRelease) /\ UNCHANGED <<snap, maint>>

\* optimize when it is needed: the snapshots are dropped and the writing
\* segment is sealed; then a fresh segment is built directly, or the sealed
\* segments are captured by BeginCompaction, or an error ends it.
OptimizeFlush ==
  /\ MayOptimize
  /\ docs[writing] > 0 \/ deletes > 0 \/ Cardinality(Sealed) > 1
  /\ StoreFlush
  /\ UNCHANGED <<config, schema, deletes, indexed, leases, query, iterators, phase>>
  /\ Invalidate
  /\ ReleaseSnapshots
  /\ maint' \in {NoMaintenance,
                 [NoMaintenance EXCEPT !.pc = "build"],
                 [NoMaintenance EXCEPT !.pc = "compact",
                                       !.inputs = {s \in Segments : docs[s] > 0}]}

\* CreateIndex of a new index: Flush, publishSchemaLocked, then the build.
CreateIndex ==
  /\ SchemaMayChange
  /\ StoreFlush
  /\ schema' = schema + 1
  /\ indexed' \in {indexed, {}}
  /\ UNCHANGED <<config, deletes, leases, query, iterators, phase>>
  /\ Invalidate
  /\ \/ /\ Prepare(BySnapshots, NoRelease)
        /\ maint' = [NoMaintenance EXCEPT !.pc = "build"]
     \/ PrepareFails(BySnapshots, NoRelease) /\ UNCHANGED maint

\* Mutant: the build does not retain the runtimes whose documents it reads.
BuildSourcesBorrowed ==
  /\ maint.pc = "build" /\ phase = "open"
  /\ maint' = [maint EXCEPT !.pc = "building", !.inputs = Sealed \ indexed, !.sources = Cached]
  /\ UNCHANGED <<storeVars, poolVars, cache, snap, leases, query, iterators, phase, prepared>>

\* buildAndPublishNativeIndexes under the read lock: every cached runtime is
\* retained, the sealed segments without artifacts will be built.
BuildSources ==
  /\ maint.pc = "build" /\ phase = "open"
  /\ maint' = [maint EXCEPT !.pc = "building", !.inputs = Sealed \ indexed, !.sources = Cached]
  /\ refs' = [r \in Runtimes |-> IF r \in Cached THEN refs[r] + 1 ELSE refs[r]]
  /\ UNCHANGED <<storeVars, rt, retired, failures, cache, snap, leases, query, iterators,
                 phase, prepared>>

\* The indexes are built, written, and opened again as new runtimes.
BuildRuntimes ==
  /\ maint.pc = "building" /\ maint.inputs # {}
  /\ \E made \in Allocations(maint.inputs) :
       /\ maint' = [maint EXCEPT !.pc = "built", !.outputs = made]
       /\ rt' = Opened(made, [s \in maint.inputs |-> Key(s, schema, docs[s])])
       /\ refs' = Counted(made)
  /\ UNCHANGED <<storeVars, retired, failures, cache, snap, leases, query, iterators,
                 phase, prepared>>

\* Publication under mu: the new runtimes take the place of the cached ones.
BuildPublish ==
  /\ maint.pc = "built" /\ Exclusive
  /\ Invalidate
  /\ indexed' = indexed \cup maint.inputs
  /\ cache' = [s \in Segments |-> IF s \in maint.inputs THEN maint.outputs[s] ELSE cache[s]]
  /\ Settle(rt, refs, Plus(BySnapshots, ByCache(maint.inputs)), retired)
  /\ maint' = [maint EXCEPT !.pc = "release", !.outputs = <<>>]
  /\ UNCHANGED <<config, docs, writing, nextSeg, schema, deletes, leases, query, iterators, phase,
                 prepared>>

\* The deferred functions, without mu: what was not published and the sources
\* are released, maintenanceMu is given back.  Also every error of a build.
BuildEnds ==
  /\ maint.pc \in {"building", "built", "release"}
  /\ Settle(rt, refs, Plus(ByMembership(maint.sources), ByMembership(Range(maint.outputs))), retired)
  /\ maint' = NoMaintenance
  /\ UNCHANGED <<storeVars, cache, snap, leases, query, iterators, phase, prepared>>

\* Compaction.Prepare and the runtimes of its outputs; an unchanged layout is
\* built instead.
CompactPrepare ==
  /\ maint.pc = "compact"
  /\ \/ \E out \in Rewrites(maint.inputs, nextSeg) :
        LET ids == DOMAIN out
        IN  \E made \in Allocations(ids) :
              /\ nextSeg' = nextSeg + Cardinality(ids)
              /\ maint' = [maint EXCEPT !.pc = "compacted", !.outputs = made]
              /\ rt' = Opened(made, [s \in ids |-> Key(s, schema, out[s])])
              /\ refs' = Counted(made)
     \/ /\ maint' = [NoMaintenance EXCEPT !.pc = "build"]
        /\ UNCHANGED <<nextSeg, rt, refs>>
  /\ UNCHANGED <<config, docs, writing, schema, deletes, indexed, retired, failures, cache, snap,
                 leases, query, iterators, phase, prepared>>

\* Mutant: the runtimes of the inputs stay in the cache.
CompactCommitKeepsInputs ==
  /\ maint.pc = "compacted" /\ Exclusive
  /\ LET ids == DOMAIN maint.outputs
     IN  /\ docs' = [s \in Segments |-> IF s \in ids THEN rt[maint.outputs[s]].count
                                        ELSE IF s \in maint.inputs THEN 0 ELSE docs[s]]
         /\ indexed' = (indexed \ maint.inputs) \cup ids
         /\ cache' = [s \in Segments |-> IF s \in ids THEN maint.outputs[s] ELSE cache[s]]
  /\ Invalidate
  /\ Settle(rt, refs, BySnapshots, retired)
  /\ maint' = NoMaintenance
  /\ UNCHANGED <<config, writing, nextSeg, schema, deletes, leases, query, iterators, phase, prepared>>

\* buildAndPublishCompaction: Compaction.Commit, then the cache drops the
\* inputs and takes the prepared runtimes.
CompactCommit ==
  /\ maint.pc = "compacted" /\ Exclusive
  /\ LET ids == DOMAIN maint.outputs
     IN  /\ docs' = [s \in Segments |-> IF s \in ids THEN rt[maint.outputs[s]].count
                                        ELSE IF s \in maint.inputs THEN 0 ELSE docs[s]]
         /\ indexed' = (indexed \ maint.inputs) \cup ids
         /\ cache' = [s \in Segments |-> IF s \in ids THEN maint.outputs[s]
                                         ELSE IF s \in maint.inputs THEN None ELSE cache[s]]
  /\ Invalidate
  /\ Settle(rt, refs, Plus(BySnapshots, ByCache(maint.inputs)), retired)
  /\ maint' = NoMaintenance
  /\ UNCHANGED <<config, writing, nextSeg, schema, deletes, leases, query, iterators, phase, prepared>>

\* A compaction that fails releases the prepared runtimes.
CompactFails ==
  /\ maint.pc \in {"compact", "compacted"}
  /\ Settle(rt, refs, ByMembership(Range(maint.outputs)), retired)
  /\ maint' = NoMaintenance
  /\ UNCHANGED <<storeVars, cache, snap, leases, query, iterators, phase, prepared>>

-----------------------------------------------------------------------------
(* Queries.                                                                *)

SnapOf(kind) == IF kind = "vector" THEN "vector" ELSE "full"

\* A full snapshot has every segment, a vector snapshot under
\* SkipUnindexedSegments only the sealed ones with a committed artifact.
Selected(k) == IF k = "full" THEN {s \in Segments : docs[s] > 0} ELSE Sealed \cap indexed

\* cachedSegmentRuntimeIndexesLocked: queries do not build runtimes.
Servable(S) == \A s \in S : cache[s] # None /\ rt[cache[s]] = Key(s, schema, docs[s])

\* querySnapshotLocked under the read lock: the cached snapshot, or a new one
\* that retains its runtimes.
QueryBegin(q, kind) ==
  LET k == SnapOf(kind)
      used == {cache[s] : s \in Selected(k)}
      new == [set |-> TRUE, view |-> [r \in used |-> rt[r]], deletes |-> deletes]
  IN  /\ q \in config.queries /\ kind \in config.kinds
      /\ query[q].pc = "idle" /\ phase = "open"
      /\ IF snap[k].set
         THEN UNCHANGED <<snap, refs>>
         ELSE /\ Servable(Selected(k))
              /\ snap' = [snap EXCEPT ![k] = new]
              /\ refs' = [r \in Runtimes |-> IF r \in used THEN refs[r] + 1 ELSE refs[r]]
      /\ query' = [query EXCEPT ![q] = [pc |-> "acquiring", kind |-> kind, held |-> {},
                                        view |-> snap'[k].view]]
      /\ UNCHANGED <<storeVars, rt, retired, failures, cache, leases, maint, iterators,
                     phase, prepared>>

\* The rest of acquireQuerySnapshotLocked; the read lock is given back.
QueryLease(q) ==
  LET used == DOMAIN query[q].view
  IN  /\ query[q].pc = "acquiring"
      /\ query' = [query EXCEPT ![q].pc = "leased", ![q].held = used]
      /\ refs' = [r \in Runtimes |-> IF r \in used THEN refs[r] + 1 ELSE refs[r]]
      /\ leases' = leases + 1
      /\ UNCHANGED <<storeVars, rt, retired, failures, cache, snap, maint, iterators, phase,
                     prepared>>

\* releaseSnapshotRuntimes, one runtime after the other, without mu.
QueryRelease(q) ==
  /\ query[q].pc = "leased"
  /\ \E r \in query[q].held :
       /\ query' = [query EXCEPT ![q].held = @ \ {r}]
       /\ Settle(rt, refs, ByMembership({r}), retired)
  /\ UNCHANGED <<storeVars, cache, snap, leases, maint, iterators, phase, prepared>>

\* Mutant: the lease ends before the runtimes are released.
QueryDoneEarly(q) ==
  /\ query[q].pc = "leased"
  /\ leases > 0
  /\ leases' = leases - 1
  /\ query' = [query EXCEPT ![q].pc = "late"]
  /\ UNCHANGED <<storeVars, poolVars, cache, snap, maint, iterators, phase, prepared>>

\* Mutant: the lease of a failing query is not returned.
QueryDoneLeaks(q) ==
  /\ query[q].pc = "leased" /\ query[q].held = {}
  /\ leases' \in {leases, leases - 1}
  /\ query' = [query EXCEPT ![q] =
                 IF query[q].kind = "multi" THEN [@ EXCEPT !.pc = "reranking"] ELSE IdleQuery]
  /\ UNCHANGED <<storeVars, poolVars, cache, snap, maint, iterators, phase, prepared>>

\* queryLeases.Done.  MultiQuery goes on to the reranker without a lease.
QueryDone(q) ==
  /\ query[q].pc = "leased" /\ query[q].held = {}
  /\ leases' = leases - 1
  /\ query' = [query EXCEPT ![q] =
                 IF query[q].kind = "multi" THEN [@ EXCEPT !.pc = "reranking"] ELSE IdleQuery]
  /\ UNCHANGED <<storeVars, poolVars, cache, snap, maint, iterators, phase, prepared>>

\* validateAndProjectReranked: MultiQuery copies fields out of the documents
\* of its snapshot and returns.
QueryProject(q) ==
  /\ query[q].pc = "reranking"
  /\ query' = [query EXCEPT ![q] = IdleQuery]
  /\ UNCHANGED <<storeVars, poolVars, cache, snap, leases, maint, iterators, phase, prepared>>

-----------------------------------------------------------------------------
(* Close and Destroy.                                                      *)

\* closed is set, the snapshots are dropped, and Close waits for the leases
\* with both locks held.
CloseBegin ==
  /\ ExclusiveMaintenance
  /\ iterators = 0
  /\ phase' = "draining"
  /\ UNCHANGED <<storeVars, leases, query, maint, iterators>>
  /\ Invalidate
  /\ ReleaseSnapshots

\* The cache is released, retired runtimes are closed again, the store closes
\* its segments.
CloseEnd ==
  /\ phase = "draining" /\ leases = 0
  /\ phase' = "closed"
  /\ cache' = [s \in Segments |-> None]
  /\ Settle(rt, refs, Plus(ByCache(Segments), ByMembership(retired)), {})
  /\ UNCHANGED <<storeVars, snap, leases, query, maint, iterators, prepared>>

\* A later Close tries the retired runtimes again.
CloseAgain ==
  /\ phase = "closed" /\ retired # {}
  /\ Settle(rt, refs, ByMembership(retired), {})
  /\ UNCHANGED <<storeVars, cache, snap, leases, query, maint, iterators, phase, prepared>>

-----------------------------------------------------------------------------

QueryStep(q) == QueryLease(q) \/ QueryRelease(q) \/ QueryDone(q) \/ QueryProject(q)

MaintenanceStep ==
  \/ OptimizeBuild \/ OptimizeFlush \/ CreateIndex
  \/ BuildSources \/ BuildRuntimes \/ BuildPublish \/ BuildEnds
  \/ CompactPrepare \/ CompactCommit \/ CompactFails

Next ==
  \/ \E n \in 0..MaxBatch : Write(n)
  \/ Delete \/ Flush \/ PublishSchema \/ RewriteDocuments
  \/ CreateIterator \/ CloseIterator
  \/ MaintenanceStep
  \/ \E q \in Queries : (\E kind \in {"full", "vector", "multi"} : QueryBegin(q, kind)) \/ QueryStep(q)
  \/ CloseBegin \/ CloseEnd \/ CloseAgain

Spec == Init /\ [][Next]_vars

\* A running query ends and returns its lease, and Close, once its leases are
\* gone, is scheduled.  Nobody has to call anything.
FairSpec ==
  /\ Spec
  /\ \A q \in Queries : WF_vars(QueryStep(q))
  /\ WF_vars(CloseEnd)

-----------------------------------------------------------------------------
(* Properties.                                                             *)

RuntimeState == [seg : 0..MaxSegment, schema : 0..MaxSchema, count : 0..Capacity]

\* Type invariant.  A negative count is the panic of a release.
TypeOK ==
  /\ docs \in [Segments -> 0..Capacity]
  /\ writing \in Segments /\ nextSeg \in 2..(MaxSegment + 1)
  /\ schema \in 1..MaxSchema /\ deletes \in 0..MaxDeletes /\ indexed \subseteq Segments
  /\ rt \in [Runtimes -> RuntimeState] /\ refs \in [Runtimes -> Nat]
  /\ cache \in [Segments -> Runtimes \cup {None}]
  /\ retired \subseteq Runtimes /\ failures \in 0..MaxFailures
  /\ leases \in Nat /\ iterators \in Nat
  /\ phase \in {"open", "draining", "closed"} /\ prepared \in BOOLEAN

\* Who holds a reference to r.
Owners(r) ==
  {<<"cache", s>> : s \in {s \in Segments : cache[s] = r}}
    \cup {<<"snapshot", k>> : k \in {k \in SnapKinds : r \in DOMAIN snap[k].view}}
    \cup {<<"query", q>> : q \in {q \in Queries : r \in query[q].held}}
    \cup (IF r \in maint.sources THEN {<<"source", 0>>} ELSE {})
    \cup (IF r \in Range(maint.outputs) THEN {<<"output", 0>>} ELSE {})
    \cup (IF r \in retired THEN {<<"retired", 0>>} ELSE {})

\* The reference count of a runtime is the number of its owners, and it is
\* open exactly while it has one: no release is lost or made twice, over
\* queries, invalidation, builds, compactions, failed closes and Close.
RefsExact ==
  \A r \in Runtimes : refs[r] = Cardinality(Owners(r)) /\ (rt[r] = Closed <=> Owners(r) = {})

\* The runtimes of a snapshot that a query is acquiring or has leased are open
\* and hold exactly the documents they held when the snapshot was built, while
\* writes grow runtimes in place and maintenance replaces them.
LeasedRuntimesFrozen ==
  \A q \in Queries :
    /\ query[q].pc = "acquiring" => \A r \in DOMAIN query[q].view : rt[r] = query[q].view[r]
    /\ \A r \in query[q].held : rt[r] = query[q].view[r]

\* A cached snapshot is the current state of the collection: a query that
\* starts now sees every committed write, deletion, schema and index artifact.
SnapshotsCurrent ==
  \A k \in SnapKinds : snap[k].set =>
    /\ snap[k].deletes = deletes
    /\ Range(snap[k].view) = {Key(s, schema, docs[s]) : s \in Selected(k)}

\* While the last preparation succeeded, each segment with documents has a
\* runtime that queries accept, and no other segment has one: no operation
\* that returns early leaves queries failing with "no prepared query runtime".
QueriesServed ==
  phase = "open" /\ prepared =>
    \A s \in Segments : IF docs[s] > 0 THEN Servable({s}) ELSE cache[s] = None

\* After Close nothing is open but what failed to close, which a later Close
\* finds, and no query holds a runtime of the closed store.
CloseReleasesAll ==
  phase = "closed" =>
    /\ \A r \in Runtimes : rt[r] # Closed => r \in retired
    /\ \A q \in Queries : query[q].held = {} /\ query[q].pc # "leased"

\* A Close that waits for leases ends: no query needs, before it returns its
\* lease, a lock that Close holds.
CloseCompletes == phase = "draining" ~> phase = "closed"

\* encodedVectorFP32 says that Close drains the leases before it releases the
\* mappings that the documents of a read-only snapshot borrow from: whoever
\* still reads such documents finds them mapped.
BorrowedReadsMapped ==
  \A q \in Queries : query[q].pc \in {"leased", "reranking"} => phase # "closed"
=============================================================================
