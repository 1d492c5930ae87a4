# TLA+ specifications of xvec

xvec is an embedded vector database in Go: a collection is a directory that one
process opens for writing. This project models the parts of it that must be right
under crashes, failed I/O and concurrency, or whose answers must be exact: the
write-ahead log; the collection store with its manifest, segments, checkpoints
and compaction; the query runtimes with their reference counts and leases; the
process-wide admission of queries and optimizations; the primary-key map; the
execution of queries over segments with groups and rank fusion; the io_uring
reader of DiskANN files; full-text search and scalar filters; and the parallel
builds and the searches of the graph indexes. TLC checks the models on small
instances; TLAPS proves the safety properties of the log, of the primary-key map,
of query execution, of admission, of the io_uring reader, of the query runtimes
and of the lists of the parallel DiskANN build for every instance, and that the
collection store recovers exactly and implements the map its callers are promised.

```
tlc -workers 2 -config MCStoreRecovery.cfg MCCollectionStore   # one run
tlapm DataPathProofs.tla                                       # the proofs of one module
```

## 1. Inventory

### Write-ahead log (`internal/db/index/storage/wal/wal.go`)

- State: the file (header, checksummed records with consecutive LSNs), the
  sidecar lock, and per `WAL` handle `size`, `lastLSN`, `dirtyRecords`,
  `poisoned`, `closed`, `readOnly`; per `WALReader` its own descriptor, offset
  and limit.
- Operations: `CreateWAL`, `OpenWAL` (scan, repair of a partial tail),
  `OpenReadOnlyWAL`, `Append`, `Sync`, `NewReader`/`Next`/`Close`, `Close`.
- Hard: torn writes, failed synchronizations, a power loss keeps only a prefix,
  readers take no lock.
- Correct when: LSNs are contiguous for ever, what a caller was told is durable
  survives, a healthy writer stands at the end of the file, a reader replays
  exactly its snapshot.

### Collection store (`internal/db/collection.go`, `write_engine.go`, `compaction.go`, `iterator.go`)

- State on disk: `CURRENT` and the numbered manifests, segment files, IDMap
  checkpoints, delete snapshots, write-ahead logs. State in memory: the
  `SegmentManager` (immutable segments, the writing segment, IDMap, delete
  store), the WAL handle, the reservation of segment IDs, the poison flags of
  engine and store, a `Compaction`, iterators.
- Operations: `Insert`/`Upsert`/`Update`/`Delete` (log, then apply, then maybe
  synchronize), `Flush` (checkpoint, seal, rotate), `RewriteDocuments` and
  `PublishSchema`, `PublishSegmentIndexSnapshots`,
  `BeginCompaction`/`Prepare`/`Commit`/`Close`, `PruneObsoleteArtifacts`,
  `OptimizationNeeded`, `CreateIterator`, `Close`, `OpenCollection`.
- Interaction: every publishing operation writes new artifacts under fresh
  names, then a manifest, then renames `CURRENT`; memory follows after the
  commit. `CollectionStore.mu` serializes them, but a compaction releases it
  between its steps, and writes and `Flush` run there.
- Hard: a crash or an error at each of these steps; retries over leftover
  files; deletions of documents while a compaction copies them; a log replayed
  against a checkpoint it does not belong to.
- Correct when: opening always succeeds and yields what the handle served, no
  durable write is lost, an artifact that a manifest names is never rewritten,
  and no step of a compaction is refused because of what ran in between.

### Manifest and version manager (`index/common/version_manager.go`, `manifest.go`)

Keeps the generation and the decoded manifest; `PublishVersion` checks the
expected generation, writes a manifest file under a free generation, renames
`CURRENT`, synchronizes the directory. Modelled for one writable handle inside
CollectionStore. Correct when no update is lost and a generation is never
written twice.

### Segments, IDMap, delete store (`index/segment`, `index/common/id_map.go`, `delete_store.go`)

Segments allocate consecutive document IDs inside a reserved range; the IDMap
maps a primary key to its newest document ID; the delete store is the set of dead
IDs. In CollectionStore they are functions and sets. Correct when the IDMap is
exactly the live documents.

Inside, a writable IDMap is a private copy of a Pebble checkpoint and the set of
its keys, which answers for keys that do not exist; a read-only one is the
checkpoint and an overlay with what the log adds and deletes. Checkpoints,
detached snapshots and ordered iterators are taken while others write. Correct
when every lookup, count, copy and iteration agrees with what was written.

### Runtime admission (`collection.go`, `runtimeResources`)

Two `taskLimiter`s (buffered channels) and one `memoryBudget` (mutex, counter,
broadcast channel). `begin` takes a token, then memory, and returns a release
function. Correct when the budget is exact, no wake-up is lost and every call
ends.

### Query runtimes, leases and index lifecycle (`collection*.go`, `iterator.go`)

- State: `segmentIndexes` (the cache of prepared segment runtimes, each with a
  reference count), `querySnapshot` and `vectorQuerySnapshots`, `queryLeases`,
  `retiredRuntimes` (indexes that failed to close), `activeIterators`, `closed`.
- Operations: `Query`, `GroupByQuery`, `MultiQuery` (acquire, run without a lock,
  return the lease), writes (`prepareSegmentRuntimesLocked` before they return),
  deletions, `Flush`, schema changes, `CreateIndex`, `Optimize`,
  `CreateIterator`, `Close`, `Destroy`.
- Interaction: `mu` orders them; leases are returned without it; builds and
  compactions hold only `maintenanceMu` between their steps; `Close` holds both
  while it waits.
- Hard: the last release, by anybody, closes indexes and may fail; a write grows
  a runtime in place if nobody else holds it; early returns after a commit.
- Correct when: counts equal owners, a leased snapshot is frozen, a cached
  snapshot is current, prepared runtimes are always found, `Close` ends and
  leaks nothing.

### DiskANN file I/O (`internal/core/algorithm/diskann_file_io_linux.go`, `diskann_io_uring_linux.go`)

- State: per file the pool of rings (`created`, the channel `idle`,
  `poolChange`, `fallback`, `poolMu`, `lifeMu`); per ring the submission and
  completion queues shared with the kernel, the staging memory, `poisoned`,
  `stagingRetained`; per call the requests in flight, retries and the first error.
- Operations: `ReadBatchAt` (take or create or wait for a ring, read, give the
  ring back, disable all rings after a runtime error, or fall back to `pread`),
  `Close`.
- Hard: the kernel owns a staging slot until it completes the request, whatever
  happens to the call; completions come in any order or not at all; creation,
  waiting, cancellation and fallback race for the pool.
- Correct when: no slot is reused, unmapped or copied while the kernel may write
  it, a successful read returns its own bytes, rings are neither lost nor pooled
  twice, every call ends.

### Full-text search (`internal/db/index/column/fts_column`)

Queries are parsed, simplified and turned into a tree of iterators over posting
lists in blocks; the search keeps the best `TopK` and leaps over documents and
blocks whose score bound cannot compete. Correct when simplification keeps the
meaning of a query and no leap loses a result.

### Scalar filters (`internal/db/sqlengine`, `collection_filter.go`)

A filter becomes a plan (merging of equalities, constant folding); per segment an
inverted index may give candidates, exact or to be verified; the results are
merged with the documents that are visible. Correct when exactly the live
documents are selected for which the expression is TRUE in three-valued logic,
whichever way was taken.

### Graph builds (`vamana_algorithm.go`, `hnsw_builder.go`, `parallel/thread_pool.go`)

Workers insert nodes into a graph that the others search and change at the same
time. Vamana prunes a full list outside its lock and retries when the version of
the list moved; HNSW merges under the lock of a list, layer by layer, and moves
the entry point at the end of an insertion. Correct when the build ends, no link
is overwritten, and the graph passes its own validation and can be searched from
its entry point.

### Graph searches (`hnsw_algorithm.go`, `vamana_algorithm.go`, `diskann_algorithm.go`, `block_heap.go`, `hnsw_visit_filter.go`, `hnsw_group_searcher.go`)

A search descends the upper layers of an HNSW graph and then expands nodes of the
base layer, best first, until no waiting node can improve the results. Without
filter and radius one block heap holds results and waiting nodes; otherwise there
are two heaps; DiskANN reads a beam of nodes at a time, ordered by codes, and ranks
what it read by exact scores. Groups are completed by a second traversal. Visit
marks come from a pool and are told apart by a generation of one byte. Correct
when no search stops before it has looked behind every node that is as good as
its results, ties included, and no mark of an earlier search is taken for its own.

### Query execution (`collection.go`, `flat_algorithm.go`, `basic_refiner.go`, `reranker_*.go`)

- State: the snapshot of a query (documents per segment, deletions, the result of
  the filter), the Flat storage of the segment being written, which grows under
  running queries, and the partial results of the segments.
- Operations: `Query`, `GroupByQuery`, `MultiQuery`, queries without a target.
  `ParallelFor` searches the segments, each with the index that filter, radius and
  parameters select, possibly refined with original vectors; results or groups
  are merged; branches of a `MultiQuery` are fused; documents are materialized.
- Correct when: an answer is a function of the snapshot whatever is written and in
  whatever order the segments answer, an exact scan misses nothing, groups are
  ranked globally, and fusion never prefers a document to a better one.

### Left out

Floating-point scores, quantizers and IVF, distance
kernels, tokenizers and stemmers, lexers and parsers, file formats, the
benchmark command, the documentation site, value types and their validation. See
section 8; `PROJECT.json` lists every component with its status.

## 2. Modules

| module | models | extends / composes |
|---|---|---|
| `Wal` | the log file, handles, readers, crashes | |
| `DurableMap` | abstract: the primary-key map a caller is promised | |
| `CollectionStore` | disk, memory and operations of one collection | instantiates `DurableMap` |
| `CollectionStoreProofs` | proofs about `CollectionStore`: types, artifacts | `CollectionStore` |
| `CollectionRecoveryProofs` | proofs about `CollectionStore`: recovery, refinement of `DurableMap`, iterators, publications, layout | `CollectionStoreProofs` |
| `RuntimeAdmission` | limiters and memory budget | |
| `RuntimeAdmissionProofs` | proofs about `RuntimeAdmission` | `RuntimeAdmission` |
| `QueryRuntime` | segment runtimes, snapshots, leases, maintenance, Close | |
| `QueryRuntimeProofs` | proofs about `QueryRuntime` | `QueryRuntime` |
| `Ordering` | finite sets as sorted sequences | |
| `PrimaryKeyMap` | the IDMap: overlay, checkpoints, detached snapshots, iterators | `Ordering` |
| `SegmentQuery` | queries over the segments of a snapshot, groups, fusion | `Ordering` |
| `DataPathProofs` | proofs about `Wal`, `PrimaryKeyMap` and `SegmentQuery` | all three |
| `IoUring` | one batch of reads on a ring, and the kernel | |
| `DiskReader` | the pool of rings and the calls that share it | `IoUring` |
| `DiskReaderProofs` | proofs about `DiskReader` and `IoUring` | `DiskReader` |
| `FtsQuery` | query trees, simplification, what a query means | |
| `FtsSearch` | postings, iterators, the top-K search | `FtsQuery` |
| `FilterPlan` | filter plans, inverted indexes, the merge over segments | |
| `GraphBuild` | the graph under construction and the search of a worker | |
| `VamanaBuild`, `HnswBuild` | the two parallel builds | `GraphBuild` |
| `FiniteLemmas` | facts about finite sets, their orders and numbers that several proofs use | `Ordering` |
| `GraphSearch` | searches of finished HNSW, Vamana and DiskANN graphs | `Ordering` |
| `GraphProofs` | proofs about `VamanaBuild` and `GraphSearch` | both |
| `MCWal`, `MCCollectionStore`, `MCRuntimeAdmission`, `MCQueryRuntime`, `MCDiskReader` | instances for TLC | |
| `MCDataPath` | instances of the log, the key map, queries and graph searches; each behavior is one of them | `Wal`, `PrimaryKeyMap`, `SegmentQuery`, `GraphSearch` |
| `MCIndexes` | instances of the four index algorithms; each behavior is one of them | `FtsSearch`, `FilterPlan`, `VamanaBuild`, `HnswBuild` |

Definitions with a comment starting "Mutant:" are deliberately wrong variants of
the definition that follows them. They are used nowhere in the specifications:
each one, put in the place of the original, makes TLC violate a property, which
shows that the property depends on the code it is about.

### Wal

`file` is the sequence of complete records, `tail` what a scan finds behind them
(`none`, `partial`, `damaged`), `synced` how many records survive a power loss.
`handle` and `reader` are the Go structs; `promised` is a history variable with
the records a successful `Sync`, batch or `Close` vouched for. One action per
method and per way it can end: `Append` is `AppendRecord` (unsynchronized, synchronized,
synchronization failed) or `AppendWriteFails`; opening a writer repairs a partial
tail or fails to; `Kill`, `KillDuringAppend` and `PowerLoss` are the crashes. A
power loss keeps any number of records from `synced` on, and may leave a damaged
tail, because a file system may extend a file without its data. Bytes, magics and
checksums are abstracted to what the scan concludes from them.

### CollectionStore

`current` is the manifest `CURRENT` names and `stable` the one it names after a
power loss: they differ only when the directory synchronization after the rename
failed. `segFiles`, `idmapFiles`, `deleteFiles`, `walFiles` map artifact names to
contents. `mem` is the manager of the one writable handle, `poison` which part
refuses further work, `comp` the compaction with what it captured, `iter` an
iterator.

- A writing operation (`LogAndApply`) has the code's outcomes: applied; logged
  and applied but its synchronization failed; logged but not applied, after
  which the engine is poisoned. A batch is a sequence of such operations, as in
  the code.
- A publication is computed once as a plan (the new manifest and the artifacts it
  adds). `Committed` installs the plan; `Abandoned` leaves any prefix of its
  artifacts and possibly a manifest that `CURRENT` does not name. Followed by
  `Kill`, the latter is also a crash in the middle of a publication. `Flush`,
  `RewriteDocuments`, `PublishMetadata` and `Commit` use both.
- `Recovered(m, n)` is `OpenCollection` as a function: the checkpoint of manifest
  `m` with the first `n` log records replayed by the code's checks. It is both
  the action's effect and what the properties compare memory with.
- A compaction is `BeginCompaction` (which requires an empty log),
  `PrepareReserve`, one `PrepareOutput` per output segment, `Commit`,
  `CompactionClose`. Writes and `Flush` run between them; rewrites, schema
  changes, pruning, `Close` and new iterators do not, because `maintenanceMu` of
  `xvec.Collection` is held throughout.

Abstractions: a document is its key and the schema it was encoded for, its ID
stands for the payload; a schema is a number; index artifacts only advance the
generation; an artifact is durable when the function that creates it returns,
which is when the code has synchronized it; the tail of the log is in `Wal`, here
a log is its complete records; there is one writable handle, as the collection
lock guarantees, and read-only handles are left out.

### DurableMap

The promise to the caller: `map` is what a handle serves, `hist` the versions a
crash may leave, from the newest certainly durable one to the newest one. Writes
append a version or make it durable, maintenance may only persist, a power loss
keeps one version from the durable one on. `CollectionStore` implements it with
`map` as the IDMap and `hist` as what recovery of each possible prefix of the log
yields.

### RuntimeAdmission

`task` says where each caller is, `queue` the senders blocked on a limiter in
order, `epoch` counts how often the broadcast channel was closed: a waiter
remembers the channel it saw and can run when `epoch` moved on. Contexts may be
done at each place where the code looks. Statistics that nothing reads back
(peaks, completed) are left out.

### QueryRuntime

`rt` and `refs` are the pool of runtimes: the segment, schema and number of
documents each one was built from, and its reference count. `cache`, `snap`,
`query[q].held`, `maint.sources`, `maint.outputs` and `retired` are the places
that own references; `Owners` collects them for the property `RefsExact`, the
actions only count. An operation under the exclusive lock is one action; its
releases are summed up and `Settle` applies them, closing what reaches zero or
retiring what fails to close. `Prepare` is `prepareSegmentRuntimesLocked` with its
two ways, growth in place and replacement; `PrepareFails` its error path.
Operations name which references they drop before and after they prepare, since
`CreateIterator` and the repeated `CreateIndex` prepare while snapshots are still
held. A query is `QueryBegin` and `QueryLease` under the read lock, one
`QueryRelease` per runtime, `QueryDone`, and for `MultiQuery` `QueryProject`.

Abstractions: the store is the number of documents of each segment; a deletion is
a counter, so a rewrite or compaction may keep any number of documents up to the
number it read; a `Flush` that replaces one empty writing segment by another is a
stutter; Flat storage that successive runtimes share is part of the count, since
searches bound their keys to the documents of the snapshot; a closed runtime's
identity may be used again; errors before a state change are left out.

### PrimaryKeyMap

`checkpoints` are the directories that exist; `maps[h]` is a `PrimaryKeyMap`: its
database, the known keys of a writable one, the overlay of a read-only one, the
count. `served[h]` is a history variable, the mapping the callers wrote. A
checkpoint or detached snapshot has three steps, because the lock is held only
for the middle one; the iterator of the model advances one round of the loop of
`Next` at a time, between writes. Pebble itself is a function, its snapshots are
copies. `KeyMapExact` compares the four ways to read a map with `served`.

### SegmentQuery

`snapshot` and `request` are fixed by `Init` and stand for every input: which
documents are deleted, rejected, without a vector, misjudged by quantized codes;
which index, parameters and operation. `storage` is what writers share and extend.
`stage`, `candidates` and `batches` are the tasks of `ParallelFor`; a refined
search has two steps, since the lock of the index is not held between them. The
merges, heaps, groups and rerankers are operators with the code's order of
results. The traversal of a graph index is external: it meets any documents of its
index, so completeness is stated for scanned segments only (`GraphSearch` has the
traversals).

A segment applies `GroupCount` to its own groups before the merge, so a group that
is not among the best of one segment loses its documents there. `AnswersExact`
therefore claims of groups that the right ones are returned, in the right order,
each with its best document, and not that each holds its best `TopKPerGroup`.

The segment that is written has no graph yet: in its place it has a Flat index of the
original vectors (`WriterFlat`), which is not refined; a flushed segment keeps it until
`Optimize` builds the graph. A Flat index that is quantized
is made of codes in every segment (`Codes`), the written one included; it is built
anew with each runtime, so that only original vectors are ever appended to under a
query (`AppendRow`).

`WeightedReranker` takes a weight for each branch from the request. A weight may be
negative, which puts what the branch scores well behind, or 0; with too few or too
many weights the call ends in an error (`WeightsMatch`). `FusionOrdered` compares two
documents accordingly: one dominates another if every branch with a positive weight
holds it as good and every branch with a negative weight holds the other as good, and
one of them strictly or the primary key decides. A document that a branch does not
list gets nothing from it, which is as much as the worst normalized score, 0.

Abstractions: scores are small integers, smaller is better, and codes turn a score
into the opposite one; reciprocal ranks are compared over a common denominator, and
sums are exact, where the code rounds; normalization is a decreasing function to
0; weights are integers; primary keys are ordered opposite to document IDs, so that
the two ways to break a tie differ. Of the indexes that RaBitQ codes rank, a linear
scan reads original vectors for groups; the model has codes there and claims nothing.

### IoUring and DiskReader

A ring is its submission queue `sq`, the requests the `kernel` works on, its
completion queue `cq`, and for each staging slot what it holds: the bytes of this
batch, or those of an earlier one (`fresh` tells them apart). `read[p]` is the
local state of `diskANNIOUring.Read`; its steps are the submission loop, the wait
and the completion loop with the code's retries and its two kinds of failure:
an error after which the batch is still drained, and uncertainty, after which the
ring is closed and its staging memory stays mapped for ever. The kernel is
external: it accepts any prefix of what is submitted, completes in any order,
answers short or "again", overflows the queue or completes a request that does
not exist, a bounded number of times.

`DiskReader` adds `acquireRing`, `releaseRing`, `disableRings`, the `pread` path
and `Close`. Critical sections under `poolMu` are one step except the one of
`disableRings`, which receives from a channel inside it: its length test and its
receive are separate steps, and everybody else who needs `poolMu` waits meanwhile.

Abstractions: a request is its index, its bytes are "own" or "old"; mapping and
probing of a ring either succeed or fail; a call of the model is one goroutine.

### FtsQuery and FtsSearch

A parsed expression is what the analyzer left of it: a token sequence per word or
phrase, modifiers, groups. `BuildAST`, `SimplifyAnd`, `SimplifyOr`, `Flatten` and
`MergeDuplicates` are the code's, on records with the code's flags. `Matches` and
`Score` define what a query means for one document, independently of any
iterator. An iterator is a record and its methods are functions to the moved
iterator; the search is one action per round of its loop. BM25 is replaced by
integers of the same shape (rarer terms weigh more, more occurrences count more up
to a limit, longer documents less), because the bounds the code derives from
blocks depend on nothing else. Rounding of floats is left out.

### FilterPlan

A scalar is a sequence of numbers in lexical order, a value is NULL or a sequence
of items, which covers integers, strings and arrays. `Evaluate` is the
three-valued evaluation of a tree and serves twice: for documents that the code
verifies, and on the expression as written as the reference of `FilterExact`.
`Indexed` is an inverted index after `Seal`, `Search` and its parts answer a
predicate from it, `Candidates` combines answers. `EvaluateSegment` is one round
of `evaluateSnapshotFilters`. Expressions are those that the parser produces and
the binder accepts; type errors, which are reported before evaluation, are left
out.

### GraphBuild, VamanaBuild, HnswBuild

Vectors are points on a line, with no two at the same distance from a third
(`NoTies` is checked), so that the distance order is that of the code. A worker
is a record with its step, its node, and what it copied. The search of a worker
expands one node per step, because others change the graph between; lists are
read under their locks, so one list is read at once. `Link` and `Relink` are the
two critical sections of `addReverseEdgeInterleaved`, with the copy that is pruned
between them; `MergeOwn` and `MergeReverse` are one critical section each, because
`mergeNeighbors` holds the lock of the list throughout.

### GraphSearch

`traversal` is the index and the request; it does not change, because a search
holds the read lock of its index. `frontier`, `retained`, `popped` and `overflow`
are the heaps, `collected` the results of DiskANN or the nodes of the groups;
`seen` and `expanded` are the marks with their generation, as they came from the
pool. One action is one round of a loop. `Consider`, `BoundaryTies` and
`ProcessNode` are what the three loops do with a neighbor. `Met` is the reference:
the nodes that any traversal must meet which expands whatever is as good as its
worst result. Scores are small integers, smaller is better; errors and
cancellation end a search without a result and are left out.

## 3. Runs

| run | instance | shows |
|---|---|---|
| `data_path` | log: 2 handles, 1 reader, 2 payloads, batches of 2, 3 LSNs; key map: 3 keys, 2 handles, 2 checkpoints, 2 writes; queries: 4 documents in 1 or 2 segments, a fifth written meanwhile, 2 scores, `TopK` 2, 2 workers; graphs: 5 nodes, 288 link patterns, 2 or 3 scores, lists of 1 to 5 | contiguous LSNs, promises kept, a writer at the end, stable readers; an exact key map; exact answers from the snapshot, global ranking of groups, fusion respects dominance; complete graph searches |
| `wal_close` | the log with 1 payload, 2 LSNs | finding 1 |
| `store_recovery` | `Batched`: 2 keys, 2 IDs, batches of 2, 3 generations; `Retried`: 1 key, explicit synchronization only, two aborted publications | recovery succeeds and agrees with memory, leftovers are never reused, the store implements `DurableMap` |
| `store_maintenance` | `Compacted`: 2 keys, 2 IDs, 4 generations, no iterator; `Rewritten`: capacity 1, 2 schemas, 3 generations, iterators | compaction, rewrites, iterators and full segments against writes and `Flush` |
| `store_prune` | directory synchronization may fail | finding 2 |
| `admission` | 3 tasks, 2+1 tokens, limits 0 and 2, estimates 1 to 3, 4 calls | exact accounts, no lost wake-up, every call ends |
| `runtime` | `Writes`: 2 queries, capacity 2, batches of 2, 2 segments, 4 runtimes; `Maintenance`: vector queries, capacity 1, 4 segments, 1 deletion; `Schemas`: a `MultiQuery`, 2 schemas, 1 failing close, 1 iterator | exact counts, frozen leases, current snapshots, served queries, nothing leaks, `Close` ends |
| `runtime_borrowed` | read-only, 1 query | finding 3 |
| `disk_io` | 1 ring, 2 calls of 2 requests with cancellation; 2 rings, 3 calls of 1 request; 1 kernel fault | staging is safe, reads return their own bytes, the pool is exact, reads end |
| `disk_fallback` | 2 rings, 3 calls | finding 4 |
| `indexes` | about 30,000 searches, 30,000 filters, 5 Vamana and 3 HNSW layouts with 2 workers | exact searches, exact filters, valid graphs, ended builds |
| `fts_required` | the two queries of the finding | finding 5 |

The instances of `CollectionStore`, `QueryRuntime` and `DiskReader` are records
chosen in `Init`, so that one run covers several shapes.

Why the bounds are enough to be interesting. Two handles are needed for one to
find the log that another left; three LSNs allow a full batch of two and one
record beyond it. Two document IDs allow a version and its replacement, two
segments that merge, a gap in a segment, and a deletion while a compaction copies
its victim; three generations allow a publication on top of a publication,
four a `Flush` inside a compaction and a maintenance step after it. Capacity 1
makes every segment full, which is where a rewrite must extend the next document
ID. One aborted publication and one retry is the shortest history in which a name
can collide; `syncEvery = 0` puts the whole log at risk. With limit 2 and
estimates 1 to 3 a task can be refused, can wait, and one release can wake two
waiters of which one fits; with limit 0 and a maximum of 4 the overflow check
fires. Four runtimes allow a cached one, its replacement under construction, and
an older one that only a lease still holds; three segments allow one sealed
before, one sealed by rotation and a writing one, a fourth an output of a
compaction of two.

Three keys give an iterator a key of the base, one of the overlay and one of both,
in each order; two writes delete a stored key and write it again. With four
documents over two segments and `TopK` 2 every merge must drop results of both
segments; two scores give ties, which the document IDs decide; the document that is
written meanwhile has the best score and would enter every heap. `GroupCount` 1
and 2 against up to three groups cut off groups in a segment and in the merge.
Graphs of five nodes with lists of one or two results have nodes that tie with the
worst result and are the only way to better ones, which is where the block heap and
the two heaps differ; generations wrap around at 4, once in a descent or between
the search and its groups.

Two requests allow a completion out of order and one that is submitted again while
the other is in flight; one fault puts the ring in doubt at any point. A second
batch on the same ring meets what the first left. Three calls on two rings are the
smallest case in which one waits while another disables the rings and a third
returns one. Blocks of two postings cut lists of up to five documents; `TopK` of 1
and 2 make the heap full early, which is when skipping begins. For filters, four
distinct rows and range blocks of two terms give ranges that begin or end inside a
block and a partial last block; three rows over one or two nonempty segments, with
an empty one between and the first document possibly deleted, reach each way of
merging; the ratios use, verify and set aside the candidates. The layouts of the
graphs include lists that are always full, never cut, or cut only at the end, and
for HNSW several nodes above the bottom layer and a race for the entry point.

Primary keys are symmetric in the store runs; no run with a liveness property uses
symmetry. Deadlock is checked in all runs but `admission` and the two of
`DiskReader`, whose callers may simply stop calling, those of `QueryRuntime`,
where nothing happens after `Close`. In `data_path` a finished query or search
stutters.

## 4. Fairness

`RuntimeAdmission`, `QueryRuntime`, `DiskReader` and the graph builds have
liveness properties; all fairness is weak. In `QueryRuntime`, `WF(QueryStep(q))`
says that a query that has its snapshot ends, and `WF(CloseEnd)` that a `Close`
whose wait is over continues; no call is ever required to happen. In `RuntimeAdmission`, `WF(Proceed(t))` says that the Go
scheduler runs a goroutine that can run, that a released mutex is obtained, and
that a query or optimization ends. Cancellation is not fair. The bound on calls
matters here: with callers that return for ever, a waiter can be overtaken each
time the memory is free, since the code wakes all waiters and lets them compete;
`CallsEnd` states what the code guarantees, that nobody is forgotten.

In `DiskReader`, `WF(Proceed(p))` lets each call run and `WF(KernelCompletes(r))`
says that the kernel ends a read it accepted, with whatever result; neither calls,
nor cancellation, nor faults have to happen. `ReadsEnd` excepts the state
`DisableStuck`, which is finding 4: everything else that could keep a call waiting
is excluded. In the graph builds each worker runs until its function returns, and
the coordinator after them. That suffices although `Relink` may start over: a
version moves only when another worker completes a link, and there are finitely
many of them.

## 5. What is proved

`DataPathProofs` proves of the log, for every set of handles, readers and payloads, every batch
size and LSN space:

- `WalSafety`: `Spec => []WalInv`, the inductive invariant;
- `WalTypeCorrect`, `WalDurability`, `WalWriter`, `WalReaders`: the properties of
  the log in the `data_path` run as consequences.

`PromisedRecordsSurvive` alone is not inductive: a step of a second writer could
truncate a promised record. `WalInv` adds that a writer is alone
(`WriterAlone`), that every healthy open handle stands where the file ends
(`OpenHandlesAtEnd`), that the durable prefix is within the file, and that the
snapshot of a reader is a prefix of the file. With these, each action either
extends the file at its end, leaves it, or cuts a tail that holds no complete
record; only a power loss removes records, and only behind `synced`. The proof
has one lemma per group of actions.

It proves of the primary-key map, for every finite set of keys and all handles,
paths, document IDs and numbers of writes:

- `KeyMapIsExact`: `KeyMapSpec => []KeyMapExact`, that lookups, counts, checkpoints,
  detached snapshots and exhausted iterators are exact.

The inductive invariant is `KeyMapInv`. `Serves` says of an open map that its
database and its overlay together are the mapping that was written; the count is the
cardinality of that mapping, and the known keys of a writable map are the keys of
its database, which `PutNew` relies on to skip the lookup. An iterator is exact only
when it is exhausted, so the invariant says what it is on the way: both of its key
lists are sorted (`IteratorSorted`), and every binding of its view has been returned
or is still to come, from the overlay if that has the key and from the base
otherwise (`IteratorCovers`). The delicate step is a key in both lists, which must
leave both in the same round. A checkpoint keeps the image it took under the lock
equal to the mapping of that moment until it is installed (`CallExact`).

It proves of queries, for every finite set of documents, every number of segments,
all scores, snapshots, requests, limits, ratios and scale factors, every order in
which the tasks of `ParallelFor` run and fail, and every append meanwhile:

- `AnswersAreExact`: `QuerySpec => []AnswersExact`;
- `FusionIsOrdered`: `QuerySpec => []FusionOrdered`.

The inductive invariant is `QueryInv`. Neither property says anything while a query
runs, so the invariant says what each intermediate result is worth. `StorageHolds`:
an index has the documents of its segment and some later ones, which no
filter lets through. `TasksHold`: what a task has found is a `VectorBatch`, a
`CandidateBatch`, a text or a `GroupBatch`. Such a batch names documents
of its own segment, each once, with the right score, and *covers* every document
of the segment: a document is in the batch, or the batch is full and all of it
is better (`Covers`). `BranchHolds` and `FirstList` say the same of the lists of
`MultiQuery`, `Answered` and `Reranked` of the outcome. The argument has four parts:

- `BestIsTop`: a heap that keeps the `k` best of what it has seen, sorted, is the
  best `k` of the whole list (`HeapKeepsBest`, by the first result where it fails);
- `MergeKeyed` and `MergeCovers`: merging lists that each cover their segment covers
  them all. The case to argue is a document its own segment has cut: `k` better
  ones of that segment are in the merge, and by counting (`AllTaken`) those that
  are kept are as good;
- `GroupPlaced`: the best groups of the merge are the best groups overall, with the
  right leader, because a group whose leader is cut in its segment has as many
  better groups before it as are asked for. The proof does not extend to the later
  members of a group, for the reason given in section 2;
- fusion: what a branch adds to the score of a document is its weight times the
  document's strength, which is 0 unless the branch lists it (`StrengthExists`). One
  document is as good as another in a branch exactly if it is as strong
  (`AsGoodStrength`), and the sign of the weight decides which of the two gains
  (`AtLeastScores`). A dominating document is therefore strictly above, or ties and
  is placed by its primary key. The sums are recursive functions (`ListScore`,
  `FusedScore`) over integers of either sign, so the proof goes by their terms.

The proof makes one qualification explicit: with refinement, `RefinementCandidateCount`
may return fewer candidates than results when the scale factor is below one, and
completeness is then not claimed (`SearchedExactly`).

`RuntimeAdmissionProofs` proves, for every finite set of tasks and all limits and
estimates:

- `AdmissionSafety`: no wake-up is lost and the budget is neither exceeded nor
  wrapped around;
- `AccountsHold`: `AccountsExact`, the memory in use is the sum of the estimates of
  the running tasks and the tokens taken are those of the tasks that hold one;
- `AdmissionTypeCorrect`: the type invariant.

The invariant `WakeUpInv` adds that a waiter saw a channel of the past or the
present one: memory only becomes free in `ReleaseMemory`, which replaces the channel
in the same critical section. `AccountInv` adds that the queue holds exactly the
tasks that wait for a token, each once, so that handing a token over and
withdrawing from the queue move one task each. The sum is a recursive function over
sets of tasks; that it exists and changes by one summand when the set does is an
induction over finite sets, which is done in first-order form: of the subsets where
the claim fails, take a smallest one (`SmallestSubset`).

`DiskReaderProofs` proves, for every set of calls and rings, every number of
requests, retries and kernel faults:

- `ReaderSafety`: `Spec => []ReaderInv`, the inductive invariant;
- `StagingSafe`, `ReadsOwnData`, `PoolAccounts`, `ReaderTypeCorrect`: the safety
  properties of the `disk_io` run as consequences.

None of these is inductive alone. That a slot is free can only be kept if every
request of a batch is accounted for: it is prepared, with the kernel, in the
completion queue or done, and it is in one of these places once. `Accounted` says
so for a ring in use (`QueueExact`, `FlightExact`, `SlotsExact`); a ring that
nobody reads from is `Resting`, which for an open one means that nothing is with
the kernel. `OwnersExact` and `DrainExact` say which place of a call owns a ring,
and that only `disableRings` is inside `poolMu` between two steps. The two halves
meet where a call starts to read: the ring it holds is nobody else's, so it rests.
A poisoned or damaged ring is the case that the proof turns on: a request may be
missing there, and it is exactly then that the code retains the staging memory.

`QueryRuntimeProofs` proves, for every set of queries, every number of segments,
schemas, deletions and failing closes, and every capacity and batch size:

- `RuntimeSafety`: `Spec => []RuntimeInv`, the inductive invariant;
- `RuntimeTypeCorrect`, `ReferencesExact`, `LeasesFrozen`, `SnapshotsNeverStale`,
  `QueriesAlwaysServed`, `CloseReleases`: the safety properties of the `runtime`
  run as consequences.

Its core is `Counts`: `refs[r]` is a sum with one term per kind of owner (the
cache, the snapshots, the queries that hold `r`, maintenance, the retired
runtimes). An operation releases several references at once, and a sum lets each
term move on its own; `OwnersCounted` shows that the sum is the number of owners,
which is `RefsExact`. The other parts are what the operations rely on when they
count: `CacheInv` (a cached runtime is of its segment), `MaintInv` (the
inputs of a build or a compaction stay sealed while it holds no lock, and what it
made fits them or takes unused segments), `QueryInv` and `SnapInv` (the runtimes of
a lease or a snapshot are still what they were), `PhaseInv` (what `Close` has
dropped). A runtime grows in place only when its count is one; with `Counts` no
lease or snapshot can be at it, which is `LeasedRuntimesFrozen`. `QueriesServed`
needed the strengthening `ServedInv`: a runtime of the writing segment under the
present schema is only ever made together with those of all the other segments, so
that a write which grows it in place and looks at no other segment may call the
collection prepared. There is one lemma per action.

`GraphProofs` proves of the build, for every input, every degree and list size, every
number of workers and every interleaving of their critical sections:

- `VamanaSafety`: `VamanaInv`, the inductive invariant of the build;
- `NoLinkIsLost`: the action property `LinksNotLost` of the `indexes` run.

The code cuts a list outside its lock and replaces it if the version did not move.
`CopyInv` says what the version is worth: a copy whose version is the present one
is the present list and the new node. `UnpublishedInv` says that a node is in no
list, and no search has met it, before its own list is published, so that a
publication finds an empty list; `publishVamanaNeighborsInterleaved` has a second
branch for a list that is not empty, and this shows that it is dead. Two facts
about definitions are needed on the way. A prune pass is described by what it
selects, and such a selection exists because whether a candidate is taken depends
on nearer ones only; the medoid is a position because it is the nearest of
finitely many to a sum that exists. Ties of distances do not matter here, since
positions break them.

Of the searches it proves, for every graph, all scores and codes (ties included),
every filter and radius, list size, number of results, beam width and group count, and
whatever marks the pool hands out:

- `SearchIsClosed`: the invariant `SearchClosed` of the `data_path` run.

The inductive invariant is `GraphInv`; TLC checked it on all states of the instances
before it was proved. A loop of the base layer keeps `DualInv`, `BlockInv` or
`BeamInv`: the list holds the best of what is marked, and a marked node waits, was
looked behind, or is worse than all of a full list. For a block heap a node may also
wait in `overflow`; this is where the ties matter. A node that ties with the worst
result is neither retained nor worse, and `BlockStep` shows that every such node is
popped, expanded or in `overflow`: with the mutant `BoundaryTiesEvictedOnly` that step
is false. For DiskANN the list holds the best codes of what is marked and the results
are the best of what was read. When the loop is over nothing waits, so the marked
nodes contain the links of every node that qualifies, hence all of `Met`
(`MetWithin`), and the list, being the best of them, misses none (`SettledComplete`,
`ReadComplete`). `DescendInv` says that a descent holds the nearest of the marked
nodes and has looked behind it or will, from which the entry of the layer below has no
better neighbor. `GroupsInv` says that there are enough groups or every node met is
collected and waits or was looked behind. The marks are exact because a reset leaves
no mark of the new generation (`ResetBlank`), also when the generation wraps.

The facts about lists are few: `Top(S, n, R)`, the elements with fewer than `n` before
them, keeps the best `n` of a set (`TopKeeps`), and adding a batch to a list that
keeps the best of `V` gives one that keeps the best of `V` and the batch (`KeepsMore`),
so no node that was dropped comes back. What a loop over a batch of neighbors computes
is a recursive function of the position in the batch; its value exists and unrolls
(`IterationExists`), and a property is carried along by the least position where it
fails (`UpTo`).

`CollectionStoreProofs` proves, for every set of keys and every configuration
(segment capacity, batch size, directory synchronizations that fail, and any bound on
documents, generations, schemas and failed publications):

- `StoreTypeCorrect`: the type invariant;
- `ArtifactsNeverRewritten`: the action property `ArtifactsImmutable` of the
  `store_recovery` run.

Both follow from `TypeInv`, and neither is a matter of types. A number that is free
exists because there are finitely many files (`Pigeonhole`); the segments of a
compaction or a rewrite are numbered without gaps because its runs are told apart by
their first document (`RunsNumbered`), and `CompOK` carries this through the steps
that write the outputs one by one while flushes go on; the document IDs that recovery
hands out stay in range because a replay whose records were all accepted
appends contiguously (`ReplayBounded`, an induction over the log by its shortest bad
prefix). A power loss writes to a log, and this is no breach of immutability only
because the log it comes back to is either the current one or synchronized to its
end (`SettledLog`): the publication that left it behind synchronized it first.
`PlanOK` states what a publication may do with the disk; it is shown for each plan and
used for committed and abandoned publications alike.

`CollectionRecoveryProofs` proves, for the same constants and every collection in
which the synchronization of the directory after the rename of `CURRENT` does not
fail:

- `RecoveryIsExact`: `RecoveryExact`, that recovery succeeds after any crash and
  rebuilds what a healthy handle holds in memory;
- `SchemasAreAtomic`: `SchemaMatchesDocuments`;
- `DocIDsNeverReused`: the action property `DurableDocIDsNeverReused`;
- `StoreImplementsDurableMap`: `ImplementsDurableMap`, the refinement of
  `DurableMap`;
- `IteratorsKeepTheirSnapshot`: `IteratorSnapshotRetained`;
- `PublicationsAreAccepted`: `PublicationsNeverRejected`;
- `OptimizeAgrees`: `OptimizeConverges`.

The hypothesis `~DirSyncMayFail` is the one finding 2 is about: with it `stable` is
`current`, and without it `store_prune` shows the artifacts of the manifest a power
loss brings back removed. The inductive invariant is `DataInv`:

- `DiskSound`: the artifacts `current` names exist, its segments are not empty,
  apart from each other and below the writing segment, and replaying *every*
  prefix of its log is accepted and yields a state in which IDMap and live documents
  are inverse and every document has the schema of the manifest (`Valid`). Every
  prefix, and not only those a crash may leave now, since a later synchronization
  moves that bound;
- `MemorySound`: replaying the whole log gives the memory of a handle that accepts
  writes. It is claimed of no other handle: after a failed application memory is
  wrong, and the handle is poisoned;
- `CompactionSound`: what a compaction is going to purge is deleted in the checkpoint
  it runs over, and the outputs it has written are the documents it planned. Without
  it `Commit` could not be shown to keep the live documents, because writes and
  flushes run between its steps.

`RecoveryExact` compares numbers where `DiskSound` says inverse
(`validateCollectionState` counts); `ExactIsValid` shows that with the lookups it
makes this is the same. A record is accepted by replay because the writer checked it
against memory, which is the replay so far (`WritesLogged`, `EffectExact`). A flush
or rewrite checkpoints memory, so its new log may be empty; a compaction instead puts
the same log over other segments, and `ValidPurged` shows by induction over the log
that no record notices: purged documents are deleted already, and a record only
deletes what the IDMap names. For the document IDs and the refinement, `StepLog`
says what a step does to the versions of the collection that a crash may leave: it
keeps them all, settles on the last, adds one, or is the crash and keeps one.
Each is a step of `DurableMap`, where a write must change the map: it does, because the
document ID it maps its key to is greater than all that are retained.

The last three rest on invariants of their own, on top of `DataInv`:

- `IterInv`, for iterators: the memory of a handle serves its IDMap and the
  snapshot of its iterator. Unlike `MemorySound` it must hold of a poisoned handle
  too, because an iterator outlives the failure; it does, since a half-applied write
  still only adds documents;
- `CompactionHeld`, for publications: while a compaction runs its inputs stay as it
  read them, segments sealed meanwhile hold later documents, and nobody has an ID it
  reserved. With `RunsConvex` (a run is an interval, so ranges of runs do not
  overlap) the segments that Commit installs are shown acceptable. Flush and
  `RewriteDocuments` need only `DataInv`;
- `LayoutInv`, for the optimization: every segment file, orphans included, is an
  interval of at most `Capacity` documents, and so are the inputs of a compaction.
  For a sealed segment this is `ReplayRoom`, that no accepted log fills a writing
  segment beyond its capacity. `RunsOfPieces` is the heart of it: for intervals of at
  most `Capacity` documents that are apart, the runs cut at multiples of the capacity
  are the intervals themselves exactly if none with room has a neighbour right
  behind it. `PiecesAligned` shows the harder half, by the first interval that does
  not start at a multiple.

Assumptions: `WalConstants`, `KeyMapConstants`, `QueryConstants`, `CasesValid` (the
inputs of a query are well formed, segments share no document, a `MultiQuery` has two
branches, weights are integers), `AdmissionConstants`, `IoUringConstants`,
`ReaderConfigs`, `RuntimeConstants`, `VamanaConstants`, `GraphSearchConstants`,
`TraversalsValid` (the links of a graph are its nodes, keys are unique, only HNSW has
upper layers and groups, sizes are positive, and no mark of the pool is of a generation
later than the pool's, which `SearchClosed` shows of every search that returns one) and
`StoreConstants`. They state
types, that limits and estimates are below the largest integer, that there are
finitely many tasks, rings, calls, queries, documents and primary keys, and that `None` is neither a ring, a
call nor a runtime.

Only model-checked:

- the HNSW build; that the finished graphs are valid and can be searched (`GraphsServe`), which holds of the
  layouts that are checked and not of every input, because pruning may disconnect a
  graph;
- the liveness properties `CallsEnd`, `CloseCompletes`, `ReadsEnd` and `BuildEnds`:
  liveness under fairness is outside what the proof system supports;
- `FtsQuery`, `FtsSearch` and `FilterPlan`, which describe recursive functions over
  trees: what these compute for every input needs induction over data.

## 6. Findings

1. `wal_close`: `Close` is documented to synchronize complete records, but it
   does so only for records of its own handle (`dirtyRecords > 0`). Records that
   a crashed process left unsynchronized and the next handle recovered are still
   unsynchronized after that handle's successful `Close`.
2. `store_prune`: pruning is commented as harmless because `CURRENT` is the
   commit point. A publication whose directory synchronization failed after the
   rename is reported as committed and never synchronized again; pruning then
   removes the artifacts of the manifest that a power loss brings back.
3. `runtime_borrowed`: vectors of a read-only snapshot borrow from the segment
   mappings, which `Close` is said to release only after the leases are drained.
   `MultiQuery` returns its lease before the reranker and copies vectors of its
   snapshot afterwards, so a `Close` in between has unmapped them.
4. `disk_fallback`: a runtime error is tested to close every ring of a file.
   `disableRings` tests `len(r.idle) > 0` and then receives from `idle` with
   `poolMu` held, but a call that waits in `acquireRing` receives from `idle`
   without it. If it takes the last idle ring between the test and the receive,
   `disableRings` never returns, the waiter blocks on `poolMu` with its ring
   open, and so does every later call and `Close`.
5. `fts_required`: simplification marks the optional part beside a required one,
   but flattening and merging do not look at the mark. `+a (b AND c)` becomes
   `a AND b AND c` and loses documents with `a` alone; `(+a b) AND b` loses the
   required `b`. `SimplifyKeepsMeaning` shows that queries without a required
   part are not affected.

## 7. Plan

The models above are done, and so are the proofs about the log, the primary-key map,
queries, admission, the io_uring reader, the query runtimes, the DiskANN build, the
graph searches and the store. What could follow: proofs about the HNSW build, and
models of the sparse and quantized indexes.

## 8. Not modelled

The map names about a tenth of the lines of the implementation. What it leaves
out, and why:

- A third of the code is generated or third-party: the Snowball stemmers, Jieba
  and RaBitQ under `pkg`, the ANTLR parser, the distance kernels and their
  assembly stubs, Unicode tables.
- Vector scoring, quantizers and IVF are floating-point arithmetic with
  approximate results. A model with small integers would check its own arithmetic,
  not theirs; `SegmentQuery` and `GraphSearch` model what is done with the scores.
  Sparse, quantized and RaBitQ indexes repeat the loops of `GraphSearch` with other
  distances. Vamana's batch
  build and single-threaded HNSW insertion have no concurrency and differ from the
  modelled ones only in that.
- File formats (segments, index artifacts, posting blocks, Pebble keys) are
  encodings whose faults are in bytes; the models use what a reader concludes.
- Lexers, parsers, tokenizers, schema and document validation are stateless
  functions of unbounded strings.
- `CreateCollection` is the initial state of `CollectionStore`: a creation that
  dies before `CURRENT` exists leaves artifacts with fixed names, so that it
  cannot be repeated in the same directory; nothing was promised yet.
- A nil `segmentIndexes` map of a collection opened empty (assigned at
  `collection_optimize_indexes.go:288` after every earlier preparation failed): the
  model does not tell a nil map from an empty one.
- Several writable handles of one collection: the collection lock admits one.
- An append to a runtime in place that fails half-way, and a `CreateIndex` whose
  schema publication does not commit after its flush: in `QueryRuntime` both succeed.
- `verifyPositions`: phrases of `FtsSearch` are matched by their meaning. The options
  of `BuildInterleavedWithWorkers` are those DiskANN passes.
- Indexes built but not yet rebound to a segment, and read-only handles beside a
  writer, only appear as generations that advance.
- A damaged tail of the log after a power loss is in `Wal`; that opening then
  answers `ErrWALCorrupt` is what the code documents. The temporary directory of
  an iterator that outlives a crash costs disk space only.
