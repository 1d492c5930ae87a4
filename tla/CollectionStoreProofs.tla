----------------------- MODULE CollectionStoreProofs -----------------------
(***************************************************************************)
(* Proofs about the collection store, for every set of keys, segment       *)
(* capacity, batch size and number of documents, generations, schemas and  *)
(* failures.                                                               *)
(***************************************************************************)
EXTENDS CollectionStore, FiniteLemmas, SequenceTheorems

-----------------------------------------------------------------------------
(* Maps: functions whose domain is a part of a set.                        *)

Partial(D, T) == UNION {[S -> T] : S \in SUBSET D}

LEMMA PartialIs ==
  ASSUME NEW D, NEW T, NEW f
  PROVE  f \in Partial(D, T) <=> f \in [DOMAIN f -> T] /\ DOMAIN f \in SUBSET D
BY DEF Partial

LEMMA EmptyMapIs ==
  /\ DOMAIN EmptyMap = {}
  /\ \A D, T : EmptyMap \in Partial(D, T)
  /\ \A f : (f \in [DOMAIN f -> {f[x] : x \in DOMAIN f}] /\ DOMAIN f = {}) => f = EmptyMap
<1>1. DOMAIN EmptyMap = {} /\ \A T : EmptyMap \in [{} -> T]
  BY DEF EmptyMap
<1>2. \A D, T : EmptyMap \in Partial(D, T)
  BY <1>1, PartialIs
<1>3. ASSUME NEW f, f \in [DOMAIN f -> {f[x] : x \in DOMAIN f}], DOMAIN f = {} PROVE f = EmptyMap
  BY <1>3 DEF EmptyMap
<1> QED BY <1>1, <1>2, <1>3

LEMMA EntryIs ==
  ASSUME NEW x, NEW value
  PROVE  DOMAIN Entry(x, value) = {x} /\ Entry(x, value)[x] = value
BY DEF Entry

LEMMA EntryType ==
  ASSUME NEW D, NEW T, NEW x \in D, NEW value \in T
  PROVE  Entry(x, value) \in Partial(D, T)
<1>1. Entry(x, value) \in [{x} -> T]
  BY DEF Entry
<1> QED BY <1>1, EntryIs, PartialIs

LEMMA OverIs ==
  ASSUME NEW f, NEW g
  PROVE  /\ DOMAIN Over(f, g) = DOMAIN f \cup DOMAIN g
         /\ \A x \in DOMAIN f : Over(f, g)[x] = f[x]
         /\ \A x \in DOMAIN g : x \notin DOMAIN f => Over(f, g)[x] = g[x]
BY DEF Over

LEMMA OverType ==
  ASSUME NEW D, NEW T, NEW f \in Partial(D, T), NEW g \in Partial(D, T)
  PROVE  Over(f, g) \in Partial(D, T)
<1>1. /\ f \in [DOMAIN f -> T] /\ DOMAIN f \in SUBSET D
      /\ g \in [DOMAIN g -> T] /\ DOMAIN g \in SUBSET D
  BY PartialIs
<1>2. Over(f, g) \in [DOMAIN f \cup DOMAIN g -> T]
  BY <1>1 DEF Over
<1> QED BY <1>1, <1>2, OverIs, PartialIs

LEMMA RestrictIs ==
  ASSUME NEW f, NEW S
  PROVE  DOMAIN Restrict(f, S) = S /\ \A x \in S : Restrict(f, S)[x] = f[x]
BY DEF Restrict

LEMMA RestrictType ==
  ASSUME NEW D, NEW T, NEW f \in Partial(D, T), NEW S \in SUBSET DOMAIN f
  PROVE  Restrict(f, S) \in Partial(D, T)
<1>1. f \in [DOMAIN f -> T] /\ DOMAIN f \in SUBSET D
  BY PartialIs
<1>2. Restrict(f, S) \in [S -> T]
  BY <1>1 DEF Restrict
<1> QED BY <1>1, <1>2, RestrictIs, PartialIs

\* A member of a union of maps is the value of one of them.
LEMMA MergedIs ==
  ASSUME NEW fs
  PROVE  /\ DOMAIN Merged(fs) = UNION {DOMAIN f : f \in fs}
         /\ \A d \in DOMAIN Merged(fs) : \E f \in fs : d \in DOMAIN f /\ Merged(fs)[d] = f[d]
         /\ Merged(fs) = [d \in DOMAIN Merged(fs) |-> Merged(fs)[d]]
<1>1. DOMAIN Merged(fs) = UNION {DOMAIN f : f \in fs}
  BY DEF Merged
<1>2. \A d \in DOMAIN Merged(fs) : \E f \in fs : d \in DOMAIN f /\ Merged(fs)[d] = f[d]
  BY <1>1 DEF Merged
<1>3. Merged(fs) = [d \in DOMAIN Merged(fs) |-> Merged(fs)[d]]
  BY DEF Merged
<1> QED BY <1>1, <1>2, <1>3

LEMMA MergedType ==
  ASSUME NEW D, NEW T, NEW fs \in SUBSET Partial(D, T)
  PROVE  Merged(fs) \in Partial(D, T)
<1>1. \A f \in fs : f \in [DOMAIN f -> T] /\ DOMAIN f \in SUBSET D
  BY PartialIs
<1>2. \A d \in DOMAIN Merged(fs) : d \in D /\ Merged(fs)[d] \in T
  <2> SUFFICES ASSUME NEW d \in DOMAIN Merged(fs) PROVE d \in D /\ Merged(fs)[d] \in T
    OBVIOUS
  <2>1. PICK f \in fs : d \in DOMAIN f /\ Merged(fs)[d] = f[d]
    BY MergedIs
  <2> QED BY <1>1, <2>1
<1>3. Merged(fs) \in [DOMAIN Merged(fs) -> T] /\ DOMAIN Merged(fs) \in SUBSET D
  BY <1>2, MergedIs
<1> QED BY <1>3, PartialIs

-----------------------------------------------------------------------------
(* Names and numbers of artifacts.                                         *)

LEMMA FreeNumberIs ==
  ASSUME NEW taken, IsFiniteSet(taken), NEW n \in Nat
  PROVE  /\ FreeNumber(taken, n) \in Nat /\ FreeNumber(taken, n) >= n
         /\ FreeNumber(taken, n) \notin taken
<1> DEFINE S == {i \in n..(n + Cardinality(taken)) : i \notin taken}
<1>1. Cardinality(taken) \in Nat
  BY FS_CardinalityType
<1>2. S # {}
  BY Pigeonhole
<1>3. S \in SUBSET Nat /\ \A i \in S : i >= n /\ i \notin taken
  BY <1>1
<1> HIDE DEF S
<1>4. Min(S) \in S
  BY <1>2, <1>3, MinOfNats
<1>5. FreeNumber(taken, n) = Min(S)
  BY DEF FreeNumber, S
<1> QED BY <1>3, <1>4, <1>5

LEMMA NumbersFinite ==
  ASSUME NEW names, IsFiniteSet(names), NEW id
  PROVE  IsFiniteSet(NumbersOf(names, id))
<1> DEFINE Q == {q \in names : q[1] = id}
           g == [q \in Q |-> q[2]]
<1>1. IsFiniteSet(Q)
  BY FS_Subset
<1>2. g \in Surjection(Q, NumbersOf(names, id))
  BY DEF Surjection, NumbersOf
<1> QED BY <1>1, <1>2, FS_Surjection

LEMMA FreeName ==
  ASSUME NEW names, IsFiniteSet(names), NEW id \in Nat, NEW gen \in Nat
  PROVE  /\ <<id, FreeNumber(NumbersOf(names, id), gen)>> \in Name
         /\ <<id, FreeNumber(NumbersOf(names, id), gen)>> \notin names
<1> DEFINE n == FreeNumber(NumbersOf(names, id), gen)
<1>1. n \in Nat /\ n \notin NumbersOf(names, id)
  BY NumbersFinite, FreeNumberIs
<1> HIDE DEF n
<1>2. <<id, n>> \notin names
  BY <1>1 DEF NumbersOf
<1> QED BY <1>1, <1>2 DEF Name, n

-----------------------------------------------------------------------------
(* The configuration, and the types of the state.                          *)

LEMMA ConfigIs ==
  ASSUME config \in Configs
  PROVE  /\ Capacity = config.capacity /\ config.capacity \in Nat \ {0}
         /\ SyncEvery = config.syncEvery /\ config.syncEvery \in Nat
         /\ MaxDocID = config.maxDocID /\ config.maxDocID \in Nat
         /\ MaxGeneration = config.maxGeneration /\ config.maxGeneration \in Nat \ {0}
         /\ MaxSchema = config.maxSchema /\ config.maxSchema \in Nat \ {0}
         /\ MaxAborts = config.maxAborts /\ config.maxAborts \in Nat
         /\ config.keys \in SUBSET Keys
BY StoreConstants DEF Capacity, SyncEvery, MaxDocID, MaxGeneration, MaxSchema, MaxAborts

Doc == [key : Keys, schema : Nat]
Documents == Partial(Nat, Doc)
SegmentMaps == Partial(Nat, Documents)
KeyMaps == Partial(Keys, Nat)
Ops == [type : {"insert", "upsert", "update", "delete"}, key : Keys, doc : Nat, schema : Nat]
Logs == [recs : Seq(Ops), synced : Nat]
Manifests == [gen : Nat, schema : Nat, segs : SUBSET Name, wal : Name, start : Nat,
              idmap : Nat, deletes : Nat, next : Nat]
WriteSegments == [id : Nat, min : Nat, docs : Documents]
Managers == [segs : SegmentMaps, writing : WriteSegments, idmap : KeyMaps,
             deletes : SUBSET Nat, dirty : Nat, reserved : Nat]
Replays == [segs : SegmentMaps, writing : WriteSegments, idmap : KeyMaps,
            deletes : SUBSET Nat, ok : BOOLEAN]
Compactions == [phase : {"none", "begun", "unchanged", "writing", "committed"},
                gen : Nat, schema : Nat, inputs : SegmentMaps, purged : SUBSET Nat,
                captured : SUBSET Nat, runs : SUBSET (SUBSET Nat), first : Nat,
                outputs : SUBSET Name]
Iterators == [active : BOOLEAN, map : KeyMaps, schema : Nat]

\* The bounds of collection c: document IDs and schemas.
DocsBounded(c, f) ==
  DOMAIN f \subseteq 0..c.maxDocID /\ \A d \in DOMAIN f : f[d].schema \in 1..c.maxSchema
MapBounded(c, f) == \A k \in DOMAIN f : f[k] \in 0..c.maxDocID
OpBounded(c, op) == op.doc \in 0..c.maxDocID /\ op.schema \in 1..c.maxSchema
LogBounded(c, l) == l.synced <= Len(l.recs) /\ \A i \in DOMAIN l.recs : OpBounded(c, l.recs[i])

-----------------------------------------------------------------------------
(* Runs of documents.                                                      *)

\* The classes of rewriteDocumentRuns: the maximal run a document is in, and
\* its piece of that run.
RunStart(ids, d) == Min({s \in ids : s <= d /\ s..d \subseteq ids})
SameRun(ids, d, e) ==
  /\ RunStart(ids, e) = RunStart(ids, d)
  /\ (e - RunStart(ids, d)) \div Capacity = (d - RunStart(ids, d)) \div Capacity

LEMMA RunOfIs ==
  ASSUME NEW ids, NEW d
  PROVE  RunOf(ids, d) = {e \in ids : SameRun(ids, d, e)}
BY DEF RunOf, SameRun, RunStart

\* The runs are disjoint, not empty, and cover the documents.
LEMMA RunsPartition ==
  ASSUME NEW ids
  PROVE  /\ \A r \in DocumentRuns(ids) : r \in SUBSET ids /\ r # {}
         /\ \A d \in ids : \E r \in DocumentRuns(ids) : d \in r
         /\ \A q, r \in DocumentRuns(ids) : (\E d : d \in q /\ d \in r) => q = r
<1>1. \A d \in ids : SameRun(ids, d, d)
  BY DEF SameRun
<1>2. \A c, d, e \in ids : SameRun(ids, c, e) /\ SameRun(ids, d, e) => SameRun(ids, c, d) /\ SameRun(ids, d, c)
  BY DEF SameRun
<1>3. \A c, d, e \in ids : SameRun(ids, c, d) /\ SameRun(ids, d, e) => SameRun(ids, c, e)
  BY DEF SameRun
<1> HIDE DEF SameRun
<1>4. \A r \in DocumentRuns(ids) : r \in SUBSET ids /\ r # {}
  BY <1>1, RunOfIs DEF DocumentRuns
<1>5. \A d \in ids : \E r \in DocumentRuns(ids) : d \in r
  BY <1>1, RunOfIs DEF DocumentRuns
<1>6. ASSUME NEW q \in DocumentRuns(ids), NEW r \in DocumentRuns(ids), NEW x, x \in q, x \in r
      PROVE  q = r
  <2>1. PICK c \in ids : q = {e \in ids : SameRun(ids, c, e)}
    BY RunOfIs DEF DocumentRuns
  <2>2. PICK d \in ids : r = {e \in ids : SameRun(ids, d, e)}
    BY RunOfIs DEF DocumentRuns
  <2>3. SameRun(ids, c, d) /\ SameRun(ids, d, c)
    BY <1>2, <1>6, <2>1, <2>2
  <2>4. \A e \in ids : SameRun(ids, c, e) <=> SameRun(ids, d, e)
    BY <1>3, <2>3
  <2> QED BY <2>1, <2>2, <2>4
<1> QED BY <1>4, <1>5, <1>6

\* Runs of finitely many document IDs are told apart by their first one, so
\* that their segment IDs are consecutive.
LEMMA RunsNumbered ==
  ASSUME NEW ids \in SUBSET Nat, IsFiniteSet(ids), NEW firstID \in Nat
  PROVE  LET runs == DocumentRuns(ids)
         IN  /\ IsFiniteSet(runs) /\ Cardinality(runs) \in Nat
             /\ \A r \in runs : RunID(runs, r, firstID) \in firstID..(firstID + Cardinality(runs) - 1)
             /\ \A q, r \in runs : RunID(runs, q, firstID) = RunID(runs, r, firstID) => q = r
             /\ \A id \in firstID..(firstID + Cardinality(runs) - 1) :
                  \E r \in runs : RunID(runs, r, firstID) = id
<1> DEFINE runs == DocumentRuns(ids)
           R == {x \in runs \X runs : Min(x[1]) < Min(x[2])}
           Before(r) == {q \in runs : Min(q) < Min(r)}
<1>1. IsFiniteSet(runs) /\ Cardinality(runs) \in Nat
  <2>1. runs \in SUBSET (SUBSET ids)
    BY RunsPartition
  <2> DEFINE g == [d \in ids |-> RunOf(ids, d)]
  <2>2. g \in Surjection(ids, runs)
    BY DEF Surjection, DocumentRuns
  <2>3. IsFiniteSet(runs)
    BY <2>2, FS_Surjection
  <2> QED BY <2>3, FS_CardinalityType
<1>2. \A r \in runs : Min(r) \in r /\ Min(r) \in Nat
  <2>1. \A r \in runs : r \in SUBSET Nat /\ r # {}
    BY RunsPartition
  <2> HIDE DEF runs
  <2> QED BY <2>1, MinOfNats
<1>3. \A q, r \in runs : Min(q) = Min(r) => q = r
  BY <1>2, RunsPartition
<1> HIDE DEF runs
<1>4. StrictlyOrders(R, runs)
  <2>1. \A q, r \in runs : <<q, r>> \in R <=> Min(q) < Min(r)
    OBVIOUS
  <2> HIDE DEF R
  <2>2. Orders(R, runs)
    BY <1>2, <1>3, <2>1 DEF Orders
  <2>3. \A r \in runs : <<r, r>> \notin R
    BY <1>2, <2>1
  <2> QED BY <2>2, <2>3 DEF StrictlyOrders
<1>5. \A r \in runs : RunID(runs, r, firstID) = firstID + Cardinality(Before(r))
  BY DEF RunID
<1>6. \A r \in runs : /\ {q \in runs : <<q, r>> \in R} = Before(r)
                      /\ Before(r) \in SUBSET runs /\ IsFiniteSet(Before(r))
                      /\ Cardinality(Before(r)) \in 0..(Cardinality(runs) - 1)
  <2> SUFFICES ASSUME NEW r \in runs
               PROVE  /\ {q \in runs : <<q, r>> \in R} = Before(r)
                      /\ Before(r) \in SUBSET runs /\ IsFiniteSet(Before(r))
                      /\ Cardinality(Before(r)) \in 0..(Cardinality(runs) - 1)
    OBVIOUS
  <2>1. {q \in runs : <<q, r>> \in R} = Before(r) /\ Before(r) \in SUBSET runs
    OBVIOUS
  <2>2. Before(r) # runs
    BY <1>2
  <2> HIDE DEF Before
  <2>3. /\ IsFiniteSet(Before(r)) /\ Cardinality(Before(r)) <= Cardinality(runs)
        /\ Cardinality(Before(r)) # Cardinality(runs)
    BY <1>1, <2>1, <2>2, FS_Subset
  <2>4. Cardinality(Before(r)) \in Nat
    BY <2>3, FS_CardinalityType
  <2> QED BY <1>1, <2>1, <2>3, <2>4
<1>7. \A q, r \in runs : Cardinality(Before(q)) = Cardinality(Before(r)) => q = r
  <2>1. ASSUME NEW q \in runs, NEW r \in runs, Min(q) < Min(r)
        PROVE  Cardinality(Before(q)) # Cardinality(Before(r))
    <3>1. Before(q) \in SUBSET Before(r) /\ q \in Before(r) /\ q \notin Before(q)
      BY <1>2, <2>1
    <3>2. IsFiniteSet(Before(r)) /\ Before(q) # Before(r)
      BY <1>6, <3>1
    <3> HIDE DEF Before
    <3> QED BY <3>1, <3>2, FS_Subset
  <2> HIDE DEF Before
  <2> QED BY <1>2, <1>3, <2>1
<1>8. ASSUME NEW id \in firstID..(firstID + Cardinality(runs) - 1)
      PROVE  \E r \in runs : RunID(runs, r, firstID) = id
  <2>1. id - firstID + 1 \in 1..Cardinality(runs)
    BY <1>1
  <2> HIDE DEF R
  <2>2. PICK r \in runs : Cardinality({q \in runs : <<q, r>> \in R}) = id - firstID + 1 - 1
    BY <1>1, <1>4, <2>1, RankExists
  <2> HIDE DEF Before
  <2>3. Cardinality(Before(r)) = id - firstID + 1 - 1
    BY <1>6, <2>2
  <2>4. id \in Nat
    BY <1>1
  <2> QED BY <1>5, <2>3, <2>4
<1> HIDE DEF Before
<1>9. \A r \in runs : RunID(runs, r, firstID) \in firstID..(firstID + Cardinality(runs) - 1)
  BY <1>1, <1>5, <1>6
<1>10. \A q, r \in runs : RunID(runs, q, firstID) = RunID(runs, r, firstID) => q = r
  BY <1>5, <1>6, <1>7
<1> QED BY <1>1, <1>8, <1>9, <1>10 DEF runs

\* The segments cut from docs: one for each run, numbered from firstID.
LEMMA SegmentsOfIs ==
  ASSUME NEW docs \in Documents, NEW ids \in SUBSET DOMAIN docs, IsFiniteSet(ids),
         NEW firstID \in Nat
  PROVE  LET runs == DocumentRuns(ids)
             segs == SegmentsOf(runs, docs, firstID)
         IN  /\ DOMAIN segs = firstID..(firstID + Cardinality(runs) - 1)
             /\ segs \in SegmentMaps
             /\ \A id \in DOMAIN segs : \E r \in runs : RunID(runs, r, firstID) = id /\ segs[id] = Restrict(docs, r)
             /\ \A r \in runs : /\ RunID(runs, r, firstID) \in DOMAIN segs
                                /\ segs[RunID(runs, r, firstID)] = Restrict(docs, r)
<1> DEFINE runs == DocumentRuns(ids)
           segs == SegmentsOf(runs, docs, firstID)
           cut  == {RunID(runs, r, firstID) : r \in runs}
<1>1. docs \in [DOMAIN docs -> Doc] /\ DOMAIN docs \in SUBSET Nat
  BY PartialIs DEF Documents
<1>2. ids \in SUBSET Nat
  BY <1>1
<1>3. /\ IsFiniteSet(runs) /\ Cardinality(runs) \in Nat
      /\ \A r \in runs : RunID(runs, r, firstID) \in firstID..(firstID + Cardinality(runs) - 1)
      /\ \A q, r \in runs : RunID(runs, q, firstID) = RunID(runs, r, firstID) => q = r
      /\ \A id \in firstID..(firstID + Cardinality(runs) - 1) :
           \E r \in runs : RunID(runs, r, firstID) = id
  BY <1>2, RunsNumbered
<1>4. \A r \in runs : r \in SUBSET DOMAIN docs
  BY RunsPartition
<1> HIDE DEF runs
<1>5. cut = firstID..(firstID + Cardinality(runs) - 1)
  BY <1>3
<1>6. segs = [id \in cut |-> Restrict(docs, CHOOSE r \in runs : RunID(runs, r, firstID) = id)]
  BY DEF SegmentsOf
<1>7. \A r \in runs : segs[RunID(runs, r, firstID)] = Restrict(docs, r)
  <2> SUFFICES ASSUME NEW r \in runs PROVE segs[RunID(runs, r, firstID)] = Restrict(docs, r)
    OBVIOUS
  <2>1. (CHOOSE q \in runs : RunID(runs, q, firstID) = RunID(runs, r, firstID)) = r
    BY <1>3
  <2>2. RunID(runs, r, firstID) \in cut
    OBVIOUS
  <2> QED BY <1>6, <2>1, <2>2
<1>8. DOMAIN segs = cut
  BY <1>6
<1> HIDE DEF segs
<1>9. \A id \in DOMAIN segs : \E r \in runs : RunID(runs, r, firstID) = id /\ segs[id] = Restrict(docs, r)
  BY <1>7, <1>8
<1>10. \A r \in runs : Restrict(docs, r) \in Documents
  BY <1>4, RestrictType DEF Documents
<1>11. \A id \in DOMAIN segs : segs[id] \in Documents /\ id \in Nat
  BY <1>3, <1>5, <1>8, <1>9, <1>10
<1>12. segs \in SegmentMaps
  <2>1. segs = [id \in DOMAIN segs |-> segs[id]]
    BY <1>6, <1>8
  <2>2. segs \in [DOMAIN segs -> Documents] /\ DOMAIN segs \in SUBSET Nat
    BY <1>11, <2>1
  <2> QED BY <2>2, PartialIs DEF SegmentMaps
<1>13. \A r \in runs : RunID(runs, r, firstID) \in DOMAIN segs
  BY <1>8
<1> QED BY <1>5, <1>7, <1>8, <1>9, <1>12, <1>13 DEF segs, runs

-----------------------------------------------------------------------------
(* Replay of the log, as a function of its inputs.                         *)

Accepts(cap, s, op) ==
  LET known == op.key \in DOMAIN s.idmap
  IN  CASE op.type = "delete" -> known /\ s.idmap[op.key] = op.doc
        [] OTHER -> /\ op.type = "insert" => ~known
                    /\ op.type = "update" => known
                    /\ ~(Cardinality(DOMAIN s.writing.docs) >= cap)
                    /\ op.doc = NextDocumentID(s.writing)

Step(cap, s, op) == [Applied(s, op) EXCEPT !.ok = @ /\ Accepts(cap, s, op)]

IsReplay(f, cap, c, recs, n) ==
  f = [i \in 0..n |-> IF i = 0 THEN c ELSE Eagerly(LAMBDA s : Step(cap, s, recs[i]), f[i - 1])]

\* The same without the device that makes TLC evaluate an argument once.
LEMMA IsReplayIs ==
  ASSUME NEW f, NEW cap, NEW c, NEW recs, NEW n
  PROVE  IsReplay(f, cap, c, recs, n) <=>
           f = [i \in 0..n |-> IF i = 0 THEN c ELSE Step(cap, f[i - 1], recs[i])]
<1>1. \A i : (CHOOSE y \in {Step(cap, z, recs[i]) : z \in {f[i - 1]}} : TRUE) = Step(cap, f[i - 1], recs[i])
  OBVIOUS
<1> QED BY <1>1 DEF IsReplay, Eagerly

Replay(cap, c, recs, n) == (CHOOSE f : IsReplay(f, cap, c, recs, n))[n]

LEMMA RecoveredIsReplay ==
  ASSUME NEW m, NEW n
  PROVE  Recovered(m, n) = Replay(Capacity, Checkpoint(m), walFiles[m.wal].recs, n)
BY DEF Recovered, Replay, IsReplay, ApplyRecovered, Step, ReplayAccepts, Accepts, Full

\* Every number of records has exactly one replay, and they agree.
LEMMA ReplayUnique ==
  ASSUME NEW cap, NEW c, NEW recs, NEW n \in Nat, NEW k \in 0..n, NEW f, NEW g,
         IsReplay(f, cap, c, recs, n), IsReplay(g, cap, c, recs, k)
  PROVE  \A i \in 0..k : f[i] = g[i]
<1> DEFINE Bad == {i \in 0..k : f[i] # g[i]}
<1>1. SUFFICES ASSUME Bad # {} PROVE FALSE
  OBVIOUS
<1>2. Bad \in SUBSET Nat
  OBVIOUS
<1>3. PICK m \in Bad : \A i \in Bad : m <= i
  BY <1>1, <1>2, LeastNat
<1>4. /\ \A i \in 0..n : f[i] = IF i = 0 THEN c ELSE Step(cap, f[i - 1], recs[i])
      /\ \A i \in 0..k : g[i] = IF i = 0 THEN c ELSE Step(cap, g[i - 1], recs[i])
  BY IsReplayIs
<1>5. m # 0
  BY <1>3, <1>4
<1>6. m - 1 \in 0..k /\ m \in 0..k /\ m \in 0..n /\ ~(m <= m - 1)
  BY <1>3, <1>5
<1>7. f[m - 1] = g[m - 1]
  BY <1>3, <1>6
<1> QED BY <1>3, <1>4, <1>5, <1>6, <1>7

LEMMA ReplayExists ==
  ASSUME NEW cap, NEW c, NEW recs, NEW n \in Nat
  PROVE  \E f : IsReplay(f, cap, c, recs, n)
<1> DEFINE Bad == {i \in Nat : ~\E f : IsReplay(f, cap, c, recs, i)}
<1>1. SUFFICES ASSUME Bad # {} PROVE FALSE
  OBVIOUS
<1>2. PICK m \in Bad : \A i \in Bad : m <= i
  BY <1>1, LeastNat
<1>3. CASE m = 0
  <2> DEFINE g == [i \in 0..0 |-> c]
  <2>1. g = [i \in 0..0 |-> IF i = 0 THEN c ELSE Step(cap, g[i - 1], recs[i])]
    <3>1. \A i \in 0..0 : i = 0
      OBVIOUS
    <3> QED BY <3>1
  <2>2. IsReplay(g, cap, c, recs, 0)
    BY <2>1, IsReplayIs
  <2> QED BY <1>2, <1>3, <2>2
<1>4. CASE m # 0
  <2>1. m - 1 \in Nat /\ ~(m <= m - 1) /\ m \in Nat
    BY <1>2, <1>4
  <2>2. PICK f : IsReplay(f, cap, c, recs, m - 1)
    BY <1>2, <2>1
  <2> DEFINE v == Step(cap, f[m - 1], recs[m])
             g == [i \in 0..m |-> IF i = m THEN v ELSE f[i]]
  <2>3. \A i \in 0..(m - 1) : f[i] = IF i = 0 THEN c ELSE Step(cap, f[i - 1], recs[i])
    BY <2>2, IsReplayIs
  <2>4. g[m] = v /\ \A i \in 0..(m - 1) : g[i] = f[i]
    BY <2>1
  <2> HIDE DEF v
  <2>5. \A i \in 0..m : g[i] = IF i = 0 THEN c ELSE Step(cap, g[i - 1], recs[i])
    <3> HIDE DEF g
    <3> SUFFICES ASSUME NEW i \in 0..m
                 PROVE  g[i] = IF i = 0 THEN c ELSE Step(cap, g[i - 1], recs[i])
      OBVIOUS
    <3>1. CASE i = m
      <4>1. g[m - 1] = f[m - 1]
        BY <2>1, <2>4
      <4> QED BY <1>4, <2>4, <3>1, <4>1 DEF v
    <3>2. CASE i # m /\ i # 0
      <4>1. i \in 0..(m - 1) /\ i - 1 \in 0..(m - 1)
        BY <2>1, <3>2
      <4> QED BY <2>3, <2>4, <3>2, <4>1
    <3>3. CASE i # m /\ i = 0
      <4>1. i \in 0..(m - 1)
        BY <2>1, <3>3
      <4> QED BY <2>3, <2>4, <3>3, <4>1
    <3> QED BY <3>1, <3>2, <3>3
  <2>6. IsReplay(g, cap, c, recs, m)
    <3>1. g = [i \in 0..m |-> g[i]]
      OBVIOUS
    <3> HIDE DEF g
    <3> QED BY <2>5, <3>1, IsReplayIs
  <2> QED BY <1>2, <2>6
<1> QED BY <1>3, <1>4

LEMMA ReplayStep ==
  ASSUME NEW cap, NEW c, NEW recs, NEW n \in Nat
  PROVE  /\ Replay(cap, c, recs, 0) = c
         /\ Replay(cap, c, recs, n + 1) = Step(cap, Replay(cap, c, recs, n), recs[n + 1])
<1>1. \A k \in Nat : IsReplay(CHOOSE f : IsReplay(f, cap, c, recs, k), cap, c, recs, k)
  BY ReplayExists
<1>2. Replay(cap, c, recs, 0) = c
  <2>1. PICK f : IsReplay(f, cap, c, recs, 0) /\ Replay(cap, c, recs, 0) = f[0]
    BY <1>1 DEF Replay
  <2> QED BY <2>1, IsReplayIs
<1>3. PICK f : IsReplay(f, cap, c, recs, n + 1) /\ Replay(cap, c, recs, n + 1) = f[n + 1]
  <2>1. n + 1 \in Nat
    OBVIOUS
  <2> QED BY <1>1, <2>1 DEF Replay
<1>4. PICK g : IsReplay(g, cap, c, recs, n) /\ Replay(cap, c, recs, n) = g[n]
  BY <1>1 DEF Replay
<1>5. f[n] = g[n]
  BY <1>3, <1>4, ReplayUnique
<1>6. f[n + 1] = Step(cap, f[n], recs[n + 1])
  BY <1>3, IsReplayIs
<1> QED BY <1>2, <1>3, <1>4, <1>5, <1>6

\* The replay of a prefix does not depend on what follows it.
LEMMA ReplayPrefix ==
  ASSUME NEW cap, NEW c, NEW r1, NEW r2, NEW n \in Nat, \A i \in 1..n : r1[i] = r2[i]
  PROVE  Replay(cap, c, r1, n) = Replay(cap, c, r2, n)
<1> DEFINE Bad == {i \in 0..n : Replay(cap, c, r1, i) # Replay(cap, c, r2, i)}
<1>1. SUFFICES ASSUME Bad # {} PROVE FALSE
  OBVIOUS
<1>2. PICK m \in Bad : \A i \in Bad : m <= i
  <2>1. Bad \in SUBSET Nat
    OBVIOUS
  <2> QED BY <1>1, <2>1, LeastNat
<1>3. m # 0
  BY <1>2, ReplayStep
<1>4. m - 1 \in 0..n /\ m \in 1..n /\ ~(m <= m - 1) /\ m - 1 \in Nat /\ (m - 1) + 1 = m
  BY <1>2, <1>3
<1>5. Replay(cap, c, r1, m - 1) = Replay(cap, c, r2, m - 1)
  BY <1>2, <1>4
<1>6. /\ Replay(cap, c, r1, m) = Step(cap, Replay(cap, c, r1, m - 1), r1[m])
      /\ Replay(cap, c, r2, m) = Step(cap, Replay(cap, c, r2, m - 1), r2[m])
  <2>1. /\ Replay(cap, c, r1, (m - 1) + 1) = Step(cap, Replay(cap, c, r1, m - 1), r1[(m - 1) + 1])
        /\ Replay(cap, c, r2, (m - 1) + 1) = Step(cap, Replay(cap, c, r2, m - 1), r2[(m - 1) + 1])
    BY <1>4, ReplayStep
  <2> QED BY <1>4, <2>1
<1> QED BY <1>2, <1>4, <1>5, <1>6

-----------------------------------------------------------------------------
(* The effect of an operation.                                             *)

\* The document IDs of a writing segment follow each other from its minimum.
Contiguous(w) ==
  /\ IsFiniteSet(DOMAIN w.docs) /\ NextDocumentID(w) \in Nat
  /\ DOMAIN w.docs = w.min..(NextDocumentID(w) - 1)

DocsAfter(w, op) ==
  IF op.type = "delete" THEN w.docs
  ELSE Over(Entry(op.doc, [key |-> op.key, schema |-> op.schema]), w.docs)
Previous(s, op) == IF op.key \in DOMAIN s.idmap THEN {s.idmap[op.key]} ELSE {}
MapAfter(s, op) ==
  IF op.type = "delete" THEN Without(s.idmap, {op.key}) ELSE Over(Entry(op.key, op.doc), s.idmap)

\* What an operation changes, for a manager and for the state of a replay.
Effect(s, t, op) ==
  /\ t.segs = s.segs /\ t.writing \in WriteSegments
  /\ t.writing.id = s.writing.id /\ t.writing.min = s.writing.min
  /\ t.writing.docs = DocsAfter(s.writing, op)
  /\ t.deletes = s.deletes \cup Previous(s, op)
  /\ t.idmap = MapAfter(s, op)

LEMMA EffectTypes ==
  ASSUME NEW docs \in Documents, NEW idmap \in KeyMaps, NEW op \in Ops
  PROVE  /\ Over(Entry(op.doc, [key |-> op.key, schema |-> op.schema]), docs) \in Documents
         /\ Over(Entry(op.key, op.doc), idmap) \in KeyMaps
         /\ Without(idmap, {op.key}) \in KeyMaps
         /\ \A k \in DOMAIN idmap : idmap[k] \in Nat
<1>1. /\ op.doc \in Nat /\ op.key \in Keys
      /\ [key |-> op.key, schema |-> op.schema] \in Doc
  BY DEF Ops, Doc
<1>2. /\ Entry(op.doc, [key |-> op.key, schema |-> op.schema]) \in Partial(Nat, Doc)
      /\ Entry(op.key, op.doc) \in Partial(Keys, Nat)
  BY <1>1, EntryType
<1>3. /\ Over(Entry(op.doc, [key |-> op.key, schema |-> op.schema]), docs) \in Documents
      /\ Over(Entry(op.key, op.doc), idmap) \in KeyMaps
  BY <1>2, OverType DEF Documents, KeyMaps
<1>4. Without(idmap, {op.key}) \in KeyMaps
  BY RestrictType DEF Without, KeyMaps
<1>5. \A k \in DOMAIN idmap : idmap[k] \in Nat
  BY PartialIs DEF KeyMaps
<1> QED BY <1>3, <1>4, <1>5

LEMMA AppliedManager ==
  ASSUME NEW s \in Managers, NEW op \in Ops
  PROVE  /\ Applied(s, op) \in Managers
         /\ Effect(s, Applied(s, op), op)
         /\ Applied(s, op).dirty = s.dirty /\ Applied(s, op).reserved = s.reserved
<1>1. s.writing \in WriteSegments /\ s.writing.docs \in Documents /\ s.idmap \in KeyMaps /\ s.deletes \in SUBSET Nat
  BY DEF Managers, WriteSegments
<1> DEFINE docs == Over(Entry(op.doc, [key |-> op.key, schema |-> op.schema]), s.writing.docs)
           put  == Over(Entry(op.key, op.doc), s.idmap)
           cut  == Without(s.idmap, {op.key})
<1>2. docs \in Documents /\ put \in KeyMaps /\ cut \in KeyMaps /\ \A k \in DOMAIN s.idmap : s.idmap[k] \in Nat
  BY <1>1, EffectTypes
<1>3. Applied(s, op) = [s EXCEPT !.writing = [s.writing EXCEPT !.docs = IF op.type = "delete" THEN s.writing.docs ELSE docs],
                                 !.deletes = s.deletes \cup Previous(s, op),
                                 !.idmap = IF op.type = "delete" THEN cut ELSE put]
  BY DEF Applied, Previous, Managers
<1> HIDE DEF docs, put, cut
<1>4. Previous(s, op) \in SUBSET Nat
  BY <1>2 DEF Previous
<1> DEFINE w == [s.writing EXCEPT !.docs = IF op.type = "delete" THEN s.writing.docs ELSE docs]
<1>5. /\ w \in WriteSegments /\ w.id = s.writing.id /\ w.min = s.writing.min
      /\ w.docs = IF op.type = "delete" THEN s.writing.docs ELSE docs
  BY <1>1, <1>2 DEF WriteSegments
<1> HIDE DEF w
<1> DEFINE dels == s.deletes \cup Previous(s, op)
           map  == IF op.type = "delete" THEN cut ELSE put
           b    == Applied(s, op)
<1>5a. dels \in SUBSET Nat /\ map \in KeyMaps /\ b = [s EXCEPT !.writing = w, !.deletes = dels, !.idmap = map]
  BY <1>1, <1>2, <1>3, <1>4 DEF w
<1> HIDE DEF dels, map, b
<1>5b. /\ b \in Managers /\ b.segs = s.segs /\ b.writing = w /\ b.deletes = dels /\ b.idmap = map
      /\ b.dirty = s.dirty /\ b.reserved = s.reserved
  BY <1>5, <1>5a DEF Managers
<1>6. /\ Applied(s, op) \in Managers /\ Applied(s, op).segs = s.segs /\ Applied(s, op).writing = w
      /\ Applied(s, op).deletes = s.deletes \cup Previous(s, op)
      /\ Applied(s, op).idmap = IF op.type = "delete" THEN cut ELSE put
      /\ Applied(s, op).dirty = s.dirty /\ Applied(s, op).reserved = s.reserved
  BY <1>5b DEF dels, map, b
<1> QED BY <1>5, <1>6 DEF Effect, DocsAfter, MapAfter, docs, put, cut

LEMMA StepReplay ==
  ASSUME NEW s \in Replays, NEW op \in Ops, NEW cap
  PROVE  /\ Step(cap, s, op) \in Replays
         /\ Effect(s, Step(cap, s, op), op)
         /\ Step(cap, s, op).ok <=> s.ok /\ Accepts(cap, s, op)
<1>1. s.writing \in WriteSegments /\ s.writing.docs \in Documents /\ s.idmap \in KeyMaps /\ s.deletes \in SUBSET Nat
  BY DEF Replays, WriteSegments
<1> DEFINE docs == Over(Entry(op.doc, [key |-> op.key, schema |-> op.schema]), s.writing.docs)
           put  == Over(Entry(op.key, op.doc), s.idmap)
           cut  == Without(s.idmap, {op.key})
<1>2. docs \in Documents /\ put \in KeyMaps /\ cut \in KeyMaps /\ \A k \in DOMAIN s.idmap : s.idmap[k] \in Nat
  BY <1>1, EffectTypes
<1>3. Applied(s, op) = [s EXCEPT !.writing = [s.writing EXCEPT !.docs = IF op.type = "delete" THEN s.writing.docs ELSE docs],
                                 !.deletes = s.deletes \cup Previous(s, op),
                                 !.idmap = IF op.type = "delete" THEN cut ELSE put]
  BY DEF Applied, Previous, Replays
<1> HIDE DEF docs, put, cut
<1>4. Previous(s, op) \in SUBSET Nat
  BY <1>2 DEF Previous
<1> DEFINE w == [s.writing EXCEPT !.docs = IF op.type = "delete" THEN s.writing.docs ELSE docs]
<1>5. /\ w \in WriteSegments /\ w.id = s.writing.id /\ w.min = s.writing.min
      /\ w.docs = IF op.type = "delete" THEN s.writing.docs ELSE docs
  BY <1>1, <1>2 DEF WriteSegments
<1> HIDE DEF w
<1> DEFINE dels == s.deletes \cup Previous(s, op)
           map  == IF op.type = "delete" THEN cut ELSE put
           b    == Applied(s, op)
<1>5a. dels \in SUBSET Nat /\ map \in KeyMaps /\ b = [s EXCEPT !.writing = w, !.deletes = dels, !.idmap = map]
  BY <1>1, <1>2, <1>3, <1>4 DEF w
<1> HIDE DEF dels, map, b
<1>5b. /\ b \in Replays /\ b.segs = s.segs /\ b.writing = w /\ b.deletes = dels /\ b.idmap = map
      /\ b.ok = s.ok
  BY <1>5, <1>5a DEF Replays
<1>6. /\ Applied(s, op) \in Replays /\ Applied(s, op).segs = s.segs /\ Applied(s, op).writing = w
      /\ Applied(s, op).deletes = s.deletes \cup Previous(s, op)
      /\ Applied(s, op).idmap = IF op.type = "delete" THEN cut ELSE put
      /\ Applied(s, op).ok = s.ok
  BY <1>5b DEF dels, map, b
<1>7. Accepts(cap, s, op) \in BOOLEAN
  BY DEF Accepts
<1> DEFINE a == Applied(s, op)
<1> HIDE DEF a
<1>8. Step(cap, s, op) = [a EXCEPT !.ok = a.ok /\ Accepts(cap, s, op)]
  BY DEF Step, a
<1>9. /\ Step(cap, s, op) \in Replays /\ Step(cap, s, op).segs = a.segs /\ Step(cap, s, op).writing = a.writing
      /\ Step(cap, s, op).deletes = a.deletes /\ Step(cap, s, op).idmap = a.idmap
      /\ Step(cap, s, op).ok = (a.ok /\ Accepts(cap, s, op))
  BY <1>6, <1>7, <1>8 DEF Replays, a
<1> QED BY <1>5, <1>6, <1>9 DEF Effect, DocsAfter, MapAfter, docs, put, cut, a

\* A document is appended behind the last one.
LEMMA AppendContiguous ==
  ASSUME NEW w \in WriteSegments, Contiguous(w), NEW op \in Ops,
         op.type # "delete" => op.doc = NextDocumentID(w),
         NEW v \in WriteSegments, v.min = w.min, v.docs = DocsAfter(w, op)
  PROVE  /\ Contiguous(v)
         /\ op.type = "delete" => NextDocumentID(v) = NextDocumentID(w)
         /\ op.type # "delete" =>
              /\ NextDocumentID(v) = NextDocumentID(w) + 1
              /\ Cardinality(DOMAIN v.docs) = Cardinality(DOMAIN w.docs) + 1
              /\ op.doc \notin DOMAIN w.docs
<1>1. CASE op.type = "delete"
  BY <1>1 DEF DocsAfter, Contiguous, NextDocumentID
<1>2. CASE op.type # "delete"
  <2> DEFINE D == DOMAIN w.docs
  <2>1. w.min \in Nat /\ op.doc \in Nat /\ op.doc = NextDocumentID(w)
    BY <1>2 DEF WriteSegments, Ops
  <2>2. DOMAIN v.docs = {op.doc} \cup D
    <3>1. v.docs = Over(Entry(op.doc, [key |-> op.key, schema |-> op.schema]), w.docs)
      BY <1>2 DEF DocsAfter
    <3> QED BY <3>1 DEF Over, Entry
  <2>3. IsFiniteSet(D) /\ D = w.min..(op.doc - 1) /\ op.doc = w.min + Cardinality(D)
    BY <2>1 DEF Contiguous, NextDocumentID
  <2>4. Cardinality(D) \in Nat /\ op.doc \notin D
    BY <2>1, <2>3, FS_CardinalityType
  <2>5. IsFiniteSet(D \cup {op.doc}) /\ Cardinality(D \cup {op.doc}) = Cardinality(D) + 1
    BY <2>3, <2>4, FS_AddElement
  <2>6. DOMAIN v.docs = D \cup {op.doc} /\ D \cup {op.doc} = w.min..op.doc
    BY <2>1, <2>2, <2>3, <2>4
  <2>7. NextDocumentID(v) = op.doc + 1
    BY <2>1, <2>3, <2>4, <2>5, <2>6 DEF NextDocumentID
  <2>8. Contiguous(v)
    BY <2>1, <2>5, <2>6, <2>7 DEF Contiguous
  <2>9. /\ NextDocumentID(v) = NextDocumentID(w) + 1
        /\ Cardinality(DOMAIN v.docs) = Cardinality(DOMAIN w.docs) + 1
        /\ op.doc \notin DOMAIN w.docs
    BY <2>1, <2>4, <2>5, <2>6, <2>7
  <2> QED BY <1>2, <2>8, <2>9
<1> QED BY <1>1, <1>2

-----------------------------------------------------------------------------
(* Bounds of a manager or of the state of a replay.                        *)

Bounded(c, s) ==
  /\ \A id \in DOMAIN s.segs : DocsBounded(c, s.segs[id])
  /\ DocsBounded(c, s.writing.docs) /\ MapBounded(c, s.idmap) /\ s.deletes \subseteq 0..c.maxDocID
  /\ Contiguous(s.writing) /\ NextDocumentID(s.writing) <= c.maxDocID + 1

\* An operation is appended behind the last document or deletes.
Placed(s, op) == op.type # "delete" => op.doc = NextDocumentID(s.writing)

LEMMA EffectBounded ==
  ASSUME NEW c, c.maxDocID \in Nat, NEW s, NEW t, NEW op \in Ops,
         s.writing \in WriteSegments, s.idmap \in KeyMaps,
         Bounded(c, s), OpBounded(c, op), Effect(s, t, op), Placed(s, op)
  PROVE  Bounded(c, t)
<1> DEFINE D == DOMAIN s.writing.docs
<1>1. \A id \in DOMAIN t.segs : DocsBounded(c, t.segs[id])
  BY DEF Bounded, Effect
<1>2. DocsBounded(c, t.writing.docs)
  <2>1. CASE op.type = "delete"
    BY <2>1 DEF Bounded, Effect, DocsAfter
  <2>2. CASE op.type # "delete"
    <3> DEFINE r == [key |-> op.key, schema |-> op.schema]
               f == s.writing.docs
               g == t.writing.docs
    <3>1. g = Over(Entry(op.doc, r), f)
      BY <2>2 DEF Effect, DocsAfter
    <3>2. r.schema \in 1..c.maxSchema /\ op.doc \in 0..c.maxDocID
      BY DEF OpBounded
    <3>3. DocsBounded(c, f)
      BY DEF Bounded
    <3> HIDE DEF r, f, g
    <3>4. /\ DOMAIN g = {op.doc} \cup DOMAIN f
          /\ g[op.doc] = r /\ \A y \in DOMAIN f : y # op.doc => g[y] = f[y]
      BY <3>1 DEF Over, Entry
    <3>5. DocsBounded(c, g)
      BY <3>2, <3>3, <3>4 DEF DocsBounded
    <3> QED BY <3>5 DEF g
  <2> QED BY <2>1, <2>2
<1>3. MapBounded(c, t.idmap) /\ Previous(s, op) \subseteq 0..c.maxDocID
  <2> DEFINE f == s.idmap
             g == t.idmap
  <2>1. MapBounded(c, f) /\ op.doc \in 0..c.maxDocID
    BY DEF Bounded, OpBounded
  <2>2. Previous(s, op) \subseteq 0..c.maxDocID
    BY <2>1 DEF Previous, MapBounded
  <2>3. CASE op.type = "delete"
    <3>1. g = Restrict(f, DOMAIN f \ {op.key})
      BY <2>3 DEF Effect, MapAfter, Without
    <3> HIDE DEF f, g
    <3>2. MapBounded(c, g)
      BY <2>1, <3>1, RestrictIs DEF MapBounded
    <3> QED BY <2>2, <3>2 DEF g
  <2>4. CASE op.type # "delete"
    <3>1. g = Over(Entry(op.key, op.doc), f)
      BY <2>4 DEF Effect, MapAfter
    <3> HIDE DEF f, g
    <3>2. /\ DOMAIN g = {op.key} \cup DOMAIN f
          /\ g[op.key] = op.doc /\ \A y \in DOMAIN f : y # op.key => g[y] = f[y]
      BY <3>1 DEF Over, Entry
    <3>3. MapBounded(c, g)
      BY <2>1, <3>2 DEF MapBounded
    <3> QED BY <2>2, <3>3 DEF g
  <2> QED BY <2>3, <2>4
<1>4. t.deletes \subseteq 0..c.maxDocID
  BY <1>3 DEF Effect, Bounded
<1>5. Contiguous(t.writing) /\ NextDocumentID(t.writing) <= c.maxDocID + 1
  <2> DEFINE w == s.writing
             v == t.writing
  <2>1. /\ Contiguous(w) /\ w \in WriteSegments /\ v \in WriteSegments /\ v.min = w.min
        /\ v.docs = DocsAfter(w, op) /\ (op.type # "delete" => op.doc = NextDocumentID(w))
        /\ NextDocumentID(w) <= c.maxDocID + 1 /\ op.doc \in 0..c.maxDocID
    BY DEF Bounded, Effect, OpBounded, Placed
  <2> HIDE DEF v, w
  <2>2. /\ Contiguous(v)
        /\ op.type = "delete" => NextDocumentID(v) = NextDocumentID(w)
        /\ op.type # "delete" => NextDocumentID(v) = NextDocumentID(w) + 1
    BY <2>1, AppendContiguous
  <2>3. NextDocumentID(v) <= c.maxDocID + 1
    BY <2>1, <2>2
  <2> QED BY <2>2, <2>3 DEF v
<1> QED BY <1>1, <1>2, <1>3, <1>4, <1>5 DEF Bounded

LEMMA AcceptsPlaced ==
  ASSUME NEW cap, NEW s, NEW op, Accepts(cap, s, op)
  PROVE  Placed(s, op)
BY DEF Accepts, Placed

\* A replay that the checks accepted stays within the bounds.
LEMMA ReplayBounded ==
  ASSUME NEW c, c.maxDocID \in Nat, NEW cap, NEW s \in Replays, Bounded(c, s),
         NEW recs \in Seq(Ops), \A i \in 1..Len(recs) : OpBounded(c, recs[i]),
         NEW n \in 0..Len(recs)
  PROVE  /\ Replay(cap, s, recs, n) \in Replays
         /\ Replay(cap, s, recs, n).ok => Bounded(c, Replay(cap, s, recs, n))
<1> DEFINE R(i) == Replay(cap, s, recs, i)
           Good(i) == R(i) \in Replays /\ (R(i).ok => Bounded(c, R(i)))
           Bad == {i \in 0..Len(recs) : ~Good(i)}
<1>1. SUFFICES ASSUME Bad # {} PROVE FALSE
  OBVIOUS
<1>2. Len(recs) \in Nat /\ Bad \in SUBSET Nat
  OBVIOUS
<1>3. PICK m \in Bad : \A i \in Bad : m <= i
  BY <1>1, <1>2, LeastNat
<1>4. m # 0
  <2>1. R(0) = s
    BY ReplayStep
  <2> QED BY <1>3, <2>1
<1>5. /\ m - 1 \in 0..Len(recs) /\ m \in 1..Len(recs) /\ ~(m <= m - 1)
      /\ m - 1 \in Nat /\ (m - 1) + 1 = m
  BY <1>2, <1>3, <1>4
<1>6. Good(m - 1)
  BY <1>3, <1>5
<1>7. R((m - 1) + 1) = Step(cap, R(m - 1), recs[(m - 1) + 1])
  BY <1>5, ReplayStep
<1>8. R(m) = Step(cap, R(m - 1), recs[m])
  BY <1>5, <1>7
<1>9. recs[m] \in Ops /\ OpBounded(c, recs[m])
  BY <1>5
<1> HIDE DEF R
<1>10. R(m) \in Replays /\ Effect(R(m - 1), R(m), recs[m]) /\ (R(m).ok <=> R(m - 1).ok /\ Accepts(cap, R(m - 1), recs[m]))
  BY <1>6, <1>8, <1>9, StepReplay
<1>11. ASSUME R(m).ok PROVE Bounded(c, R(m))
  <2>1. Bounded(c, R(m - 1)) /\ Placed(R(m - 1), recs[m])
    BY <1>6, <1>10, <1>11, AcceptsPlaced
  <2>2. R(m - 1).writing \in WriteSegments /\ R(m - 1).idmap \in KeyMaps
    BY <1>6 DEF Replays
  <2> QED BY <1>9, <1>10, <2>1, <2>2, EffectBounded
<1> QED BY <1>3, <1>10, <1>11

-----------------------------------------------------------------------------
(* The type invariant.                                                     *)

SegFilesOK(c, f) ==
  /\ f \in Partial(Name, Documents) /\ IsFiniteSet(DOMAIN f)
  /\ \A p \in DOMAIN f : DocsBounded(c, f[p])
IDMapFilesOK(c, f) ==
  /\ f \in Partial(Nat, KeyMaps) /\ IsFiniteSet(DOMAIN f)
  /\ \A n \in DOMAIN f : MapBounded(c, f[n])
DeleteFilesOK(c, f) ==
  /\ f \in Partial(Nat, SUBSET Nat) /\ IsFiniteSet(DOMAIN f)
  /\ \A n \in DOMAIN f : f[n] \subseteq 0..c.maxDocID
WalFilesOK(c, f) ==
  /\ f \in Partial(Name, Logs) /\ IsFiniteSet(DOMAIN f)
  /\ \A p \in DOMAIN f : LogBounded(c, f[p])

ManifestOK(c, m, last) ==
  m \in Manifests /\ m.gen \in 1..last /\ m.schema \in 1..c.maxSchema /\ m.start <= c.maxDocID + 1

\* A log that a power loss may bring back is synchronized to its end.
SettledLog ==
  stable.wal # current.wal /\ stable.wal \in DOMAIN walFiles =>
    walFiles[stable.wal].synced = Len(walFiles[stable.wal].recs)

DiskOK ==
  /\ config \in Configs
  /\ ManifestOK(config, current, lastGen) /\ ManifestOK(config, stable, lastGen)
  /\ lastGen \in 1..config.maxGeneration
  /\ SegFilesOK(config, segFiles) /\ IDMapFilesOK(config, idmapFiles)
  /\ DeleteFilesOK(config, deleteFiles) /\ WalFilesOK(config, walFiles)
  /\ current.wal \in DOMAIN walFiles
  /\ SettledLog

MemOK(c, s) == s \in Managers /\ Bounded(c, s)

\* While outputs are written they are numbered from first on, as the runs are.
CompOK ==
  /\ comp \in Compactions
  /\ \A id \in DOMAIN comp.inputs : DocsBounded(config, comp.inputs[id])
  /\ comp.phase = "begun" => comp.outputs = {}
  /\ comp.phase = "writing" =>
       /\ comp.runs = OutputRuns
       /\ comp.outputs \subseteq DOMAIN segFiles /\ IsFiniteSet(comp.outputs)
       /\ {p[1] : p \in comp.outputs} = comp.first..(comp.first + Cardinality(comp.outputs) - 1)
       /\ Cardinality(comp.outputs) <= Cardinality(comp.runs)
       /\ comp.outputs \cap current.segs = {}

IterOK == iter \in Iterators /\ MapBounded(config, iter.map)

HandleOK ==
  /\ open \in BOOLEAN /\ poison \subseteq {"wal", "engine", "store"}
  /\ aborts \in 0..(config.maxAborts + 1)
  /\ comp.phase # "none" => open /\ aborts <= config.maxAborts
  /\ open => FilesPresent(current)

TypeInv == DiskOK /\ MemOK(config, mem) /\ CompOK /\ IterOK /\ HandleOK

\* No artifact but the log that is being written changes.
FilesKept ==
  /\ \A p \in DOMAIN segFiles \cap DOMAIN segFiles' : segFiles'[p] = segFiles[p]
  /\ \A n \in DOMAIN idmapFiles \cap DOMAIN idmapFiles' : idmapFiles'[n] = idmapFiles[n]
  /\ \A n \in DOMAIN deleteFiles \cap DOMAIN deleteFiles' : deleteFiles'[n] = deleteFiles[n]
  /\ \A p \in DOMAIN walFiles \cap DOMAIN walFiles' : p # current.wal => walFiles'[p] = walFiles[p]

-----------------------------------------------------------------------------
(* Artifacts are added and removed.                                        *)

LEMMA OverFinite ==
  ASSUME NEW f, NEW g, IsFiniteSet(DOMAIN f), IsFiniteSet(DOMAIN g)
  PROVE  IsFiniteSet(DOMAIN Over(f, g))
<1> DEFINE S == DOMAIN f \cup DOMAIN g
<1>1. IsFiniteSet(S)
  BY FS_Union
<1>2. DOMAIN Over(f, g) = S
  BY DEF Over
<1> HIDE DEF S
<1> QED BY <1>1, <1>2

LEMMA OverMembers ==
  ASSUME NEW f, NEW g, NEW x \in DOMAIN Over(f, g)
  PROVE  \/ x \in DOMAIN f /\ Over(f, g)[x] = f[x]
         \/ x \in DOMAIN g /\ Over(f, g)[x] = g[x]
BY DEF Over

LEMMA FilesOver ==
  ASSUME NEW c, NEW f, NEW g
  PROVE  /\ SegFilesOK(c, f) /\ SegFilesOK(c, g) => SegFilesOK(c, Over(f, g))
         /\ IDMapFilesOK(c, f) /\ IDMapFilesOK(c, g) => IDMapFilesOK(c, Over(f, g))
         /\ DeleteFilesOK(c, f) /\ DeleteFilesOK(c, g) => DeleteFilesOK(c, Over(f, g))
         /\ WalFilesOK(c, f) /\ WalFilesOK(c, g) => WalFilesOK(c, Over(f, g))
<1> DEFINE h == Over(f, g)
<1>1. \A x \in DOMAIN h : \/ x \in DOMAIN f /\ h[x] = f[x]
                          \/ x \in DOMAIN g /\ h[x] = g[x]
  BY OverMembers
<1>2. IsFiniteSet(DOMAIN f) /\ IsFiniteSet(DOMAIN g) => IsFiniteSet(DOMAIN h)
  BY OverFinite
<1>3. /\ f \in Partial(Name, Documents) /\ g \in Partial(Name, Documents) => h \in Partial(Name, Documents)
      /\ f \in Partial(Nat, KeyMaps) /\ g \in Partial(Nat, KeyMaps) => h \in Partial(Nat, KeyMaps)
      /\ f \in Partial(Nat, SUBSET Nat) /\ g \in Partial(Nat, SUBSET Nat) => h \in Partial(Nat, SUBSET Nat)
      /\ f \in Partial(Name, Logs) /\ g \in Partial(Name, Logs) => h \in Partial(Name, Logs)
  BY OverType
<1> HIDE DEF h
<1>4. SegFilesOK(c, f) /\ SegFilesOK(c, g) => SegFilesOK(c, h)
  BY <1>1, <1>2, <1>3 DEF SegFilesOK
<1>5. IDMapFilesOK(c, f) /\ IDMapFilesOK(c, g) => IDMapFilesOK(c, h)
  BY <1>1, <1>2, <1>3 DEF IDMapFilesOK
<1>6. DeleteFilesOK(c, f) /\ DeleteFilesOK(c, g) => DeleteFilesOK(c, h)
  BY <1>1, <1>2, <1>3 DEF DeleteFilesOK
<1>7. WalFilesOK(c, f) /\ WalFilesOK(c, g) => WalFilesOK(c, h)
  BY <1>1, <1>2, <1>3 DEF WalFilesOK
<1> QED BY <1>4, <1>5, <1>6, <1>7 DEF h

LEMMA FilesRestrict ==
  ASSUME NEW c, NEW f, NEW S \in SUBSET DOMAIN f
  PROVE  /\ SegFilesOK(c, f) => SegFilesOK(c, Restrict(f, S))
         /\ IDMapFilesOK(c, f) => IDMapFilesOK(c, Restrict(f, S))
         /\ DeleteFilesOK(c, f) => DeleteFilesOK(c, Restrict(f, S))
         /\ WalFilesOK(c, f) => WalFilesOK(c, Restrict(f, S))
<1> DEFINE h == Restrict(f, S)
<1>1. DOMAIN h = S /\ \A x \in S : x \in DOMAIN f /\ h[x] = f[x]
  BY RestrictIs
<1>2. IsFiniteSet(DOMAIN f) => IsFiniteSet(S)
  BY FS_Subset
<1>3. /\ f \in Partial(Name, Documents) => h \in Partial(Name, Documents)
      /\ f \in Partial(Nat, KeyMaps) => h \in Partial(Nat, KeyMaps)
      /\ f \in Partial(Nat, SUBSET Nat) => h \in Partial(Nat, SUBSET Nat)
      /\ f \in Partial(Name, Logs) => h \in Partial(Name, Logs)
  BY RestrictType
<1> HIDE DEF h
<1>4. SegFilesOK(c, f) => SegFilesOK(c, h)
  BY <1>1, <1>2, <1>3 DEF SegFilesOK
<1>5. IDMapFilesOK(c, f) => IDMapFilesOK(c, h)
  BY <1>1, <1>2, <1>3 DEF IDMapFilesOK
<1>6. DeleteFilesOK(c, f) => DeleteFilesOK(c, h)
  BY <1>1, <1>2, <1>3 DEF DeleteFilesOK
<1>7. WalFilesOK(c, f) => WalFilesOK(c, h)
  BY <1>1, <1>2, <1>3 DEF WalFilesOK
<1> QED BY <1>4, <1>5, <1>6, <1>7 DEF h

LEMMA FilesEmpty ==
  ASSUME NEW c
  PROVE  /\ SegFilesOK(c, EmptyMap) /\ IDMapFilesOK(c, EmptyMap)
         /\ DeleteFilesOK(c, EmptyMap) /\ WalFilesOK(c, EmptyMap)
BY EmptyMapIs, FS_EmptySet DEF SegFilesOK, IDMapFilesOK, DeleteFilesOK, WalFilesOK

LEMMA FilesEntry ==
  ASSUME NEW c, NEW p \in Name, NEW n \in Nat
  PROVE  /\ \A docs \in Documents : DocsBounded(c, docs) => SegFilesOK(c, Entry(p, docs))
         /\ \A f \in KeyMaps : MapBounded(c, f) => IDMapFilesOK(c, Entry(n, f))
         /\ \A S \in SUBSET Nat : S \subseteq 0..c.maxDocID => DeleteFilesOK(c, Entry(n, S))
         /\ \A l \in Logs : LogBounded(c, l) => WalFilesOK(c, Entry(p, l))
<1>1. \A x, v : IsFiniteSet(DOMAIN Entry(x, v)) /\ \A y \in DOMAIN Entry(x, v) : Entry(x, v)[y] = v
  <2> SUFFICES ASSUME NEW x, NEW v
               PROVE  IsFiniteSet(DOMAIN Entry(x, v)) /\ \A y \in DOMAIN Entry(x, v) : Entry(x, v)[y] = v
    OBVIOUS
  <2> DEFINE S == {x}
  <2>1. IsFiniteSet(S)
    BY FS_Singleton
  <2>2. DOMAIN Entry(x, v) = S /\ \A y \in S : Entry(x, v)[y] = v
    BY DEF Entry
  <2> HIDE DEF S
  <2> QED BY <2>1, <2>2
<1>2. ASSUME NEW docs \in Documents, DocsBounded(c, docs) PROVE SegFilesOK(c, Entry(p, docs))
  BY <1>1, <1>2, EntryType DEF SegFilesOK
<1>3. ASSUME NEW f \in KeyMaps, MapBounded(c, f) PROVE IDMapFilesOK(c, Entry(n, f))
  BY <1>1, <1>3, EntryType DEF IDMapFilesOK
<1>4. ASSUME NEW S \in SUBSET Nat, S \subseteq 0..c.maxDocID PROVE DeleteFilesOK(c, Entry(n, S))
  BY <1>1, <1>4, EntryType DEF DeleteFilesOK
<1>5. ASSUME NEW l \in Logs, LogBounded(c, l) PROVE WalFilesOK(c, Entry(p, l))
  BY <1>1, <1>5, EntryType DEF WalFilesOK
<1> QED BY <1>2, <1>3, <1>4, <1>5

LEMMA NewWalIs == NewWal \in Logs /\ \A c : LogBounded(c, NewWal)
<1>1. <<>> \in Seq(Ops) /\ Len(<<>>) = 0 /\ DOMAIN <<>> = {}
  OBVIOUS
<1> QED BY <1>1 DEF NewWal, Logs, LogBounded

\* One log is replaced.
LEMMA FilesExcept ==
  ASSUME NEW c, NEW f, WalFilesOK(c, f), NEW p, NEW l \in Logs, LogBounded(c, l)
  PROVE  /\ WalFilesOK(c, [f EXCEPT ![p] = l])
         /\ DOMAIN [f EXCEPT ![p] = l] = DOMAIN f
         /\ \A q \in DOMAIN f : [f EXCEPT ![p] = l][q] = IF q = p THEN l ELSE f[q]
<1> DEFINE h == [f EXCEPT ![p] = l]
<1>1. f \in [DOMAIN f -> Logs] /\ DOMAIN f \in SUBSET Name
  BY PartialIs DEF WalFilesOK
<1>2. /\ DOMAIN h = DOMAIN f /\ h \in [DOMAIN f -> Logs]
      /\ \A q \in DOMAIN f : h[q] = IF q = p THEN l ELSE f[q]
  BY <1>1
<1> HIDE DEF h
<1>3. h \in Partial(Name, Logs)
  BY <1>1, <1>2, PartialIs
<1>4. WalFilesOK(c, h)
  BY <1>2, <1>3 DEF WalFilesOK
<1> QED BY <1>2, <1>4 DEF h

LEMMA WalSyncedIs ==
  ASSUME DiskOK
  PROVE  /\ WalFilesOK(config, WalSynced) /\ DOMAIN WalSynced = DOMAIN walFiles
         /\ \A p \in DOMAIN walFiles : p # current.wal => WalSynced[p] = walFiles[p]
         /\ WalSynced[current.wal].recs = Wal.recs
         /\ WalSynced[current.wal].synced = Len(Wal.recs)
<1> DEFINE l == [recs |-> Wal.recs, synced |-> Len(Wal.recs)]
<1>1. Wal \in Logs /\ LogBounded(config, Wal)
  BY PartialIs DEF DiskOK, WalFilesOK, Wal
<1>2. l \in Logs /\ LogBounded(config, l)
  BY <1>1 DEF Logs, LogBounded
<1>3. WalSynced = [walFiles EXCEPT ![current.wal] = l]
  BY DEF WalSynced, Wal
<1>4. l.recs = Wal.recs /\ l.synced = Len(Wal.recs)
  OBVIOUS
<1> HIDE DEF l
<1>5. WalFilesOK(config, walFiles) /\ current.wal \in DOMAIN walFiles
  BY DEF DiskOK
<1>6. /\ WalFilesOK(config, WalSynced) /\ DOMAIN WalSynced = DOMAIN walFiles
      /\ \A q \in DOMAIN walFiles : WalSynced[q] = IF q = current.wal THEN l ELSE walFiles[q]
  BY <1>2, <1>3, <1>5, FilesExcept
<1> QED BY <1>4, <1>5, <1>6

-----------------------------------------------------------------------------
(* Publications.                                                           *)

\* A plan writes new artifacts only, and its manifest names artifacts that
\* exist or that it writes.
PlanOK(plan) ==
  /\ plan.manifest \in Manifests
  /\ plan.manifest.schema \in 1..config.maxSchema /\ plan.manifest.start <= config.maxDocID + 1
  /\ SegFilesOK(config, plan.segs) /\ DOMAIN plan.segs \cap DOMAIN segFiles = {}
  /\ IDMapFilesOK(config, plan.idmaps) /\ DOMAIN plan.idmaps \cap DOMAIN idmapFiles = {}
  /\ DeleteFilesOK(config, plan.deletes) /\ DOMAIN plan.deletes \cap DOMAIN deleteFiles = {}
  /\ WalFilesOK(config, plan.wals) /\ DOMAIN plan.wals \cap DOMAIN walFiles = {}
  /\ \A p \in DOMAIN plan.wals : plan.wals[p] = NewWal
  /\ plan.syncs \in BOOLEAN
  /\ plan.manifest.segs \subseteq DOMAIN plan.segs \cup DOMAIN segFiles
  /\ plan.manifest.idmap \in DOMAIN plan.idmaps \cup DOMAIN idmapFiles
  /\ plan.manifest.deletes \in DOMAIN plan.deletes \cup DOMAIN deleteFiles
  /\ \/ plan.manifest.wal = current.wal
     \/ plan.manifest.wal \in DOMAIN plan.wals /\ plan.syncs

\* The log as a publication leaves it, before it adds another one.
LogsAfter(plan) == IF plan.syncs THEN WalSynced ELSE walFiles

LEMMA LogsAfterIs ==
  ASSUME DiskOK, NEW plan, plan.syncs \in BOOLEAN
  PROVE  /\ WalFilesOK(config, LogsAfter(plan)) /\ DOMAIN LogsAfter(plan) = DOMAIN walFiles
         /\ \A p \in DOMAIN walFiles : p # current.wal => LogsAfter(plan)[p] = walFiles[p]
         /\ plan.syncs => LogsAfter(plan)[current.wal].synced = Len(LogsAfter(plan)[current.wal].recs)
<1>1. CASE plan.syncs
  BY <1>1, WalSyncedIs DEF LogsAfter
<1>2. CASE ~plan.syncs
  BY <1>2 DEF LogsAfter, DiskOK
<1> QED BY <1>1, <1>2

\* Artifacts added by a plan.
LEMMA AddedOK ==
  ASSUME DiskOK, NEW plan, PlanOK(plan)
  PROVE  /\ SegFilesOK(config, Over(plan.segs, segFiles))
         /\ IDMapFilesOK(config, Over(plan.idmaps, idmapFiles))
         /\ DeleteFilesOK(config, Over(plan.deletes, deleteFiles))
         /\ WalFilesOK(config, Over(plan.wals, LogsAfter(plan)))
         /\ DOMAIN Over(plan.segs, segFiles) = DOMAIN plan.segs \cup DOMAIN segFiles
         /\ DOMAIN Over(plan.idmaps, idmapFiles) = DOMAIN plan.idmaps \cup DOMAIN idmapFiles
         /\ DOMAIN Over(plan.deletes, deleteFiles) = DOMAIN plan.deletes \cup DOMAIN deleteFiles
         /\ DOMAIN Over(plan.wals, LogsAfter(plan)) = DOMAIN plan.wals \cup DOMAIN walFiles
         /\ \A p \in DOMAIN segFiles : Over(plan.segs, segFiles)[p] = segFiles[p]
         /\ \A n \in DOMAIN idmapFiles : Over(plan.idmaps, idmapFiles)[n] = idmapFiles[n]
         /\ \A n \in DOMAIN deleteFiles : Over(plan.deletes, deleteFiles)[n] = deleteFiles[n]
         /\ \A p \in DOMAIN walFiles : Over(plan.wals, LogsAfter(plan))[p] = LogsAfter(plan)[p]
         /\ \A p \in DOMAIN plan.wals : Over(plan.wals, LogsAfter(plan))[p] = NewWal
<1>1. /\ SegFilesOK(config, plan.segs) /\ SegFilesOK(config, segFiles)
      /\ IDMapFilesOK(config, plan.idmaps) /\ IDMapFilesOK(config, idmapFiles)
      /\ DeleteFilesOK(config, plan.deletes) /\ DeleteFilesOK(config, deleteFiles)
      /\ WalFilesOK(config, plan.wals) /\ plan.syncs \in BOOLEAN
  BY DEF DiskOK, PlanOK
<1>2. WalFilesOK(config, LogsAfter(plan)) /\ DOMAIN LogsAfter(plan) = DOMAIN walFiles
  BY <1>1, LogsAfterIs
<1>3. /\ SegFilesOK(config, Over(plan.segs, segFiles))
      /\ IDMapFilesOK(config, Over(plan.idmaps, idmapFiles))
      /\ DeleteFilesOK(config, Over(plan.deletes, deleteFiles))
      /\ WalFilesOK(config, Over(plan.wals, LogsAfter(plan)))
  BY <1>1, <1>2, FilesOver
<1>4. /\ DOMAIN plan.segs \cap DOMAIN segFiles = {}
      /\ DOMAIN plan.idmaps \cap DOMAIN idmapFiles = {}
      /\ DOMAIN plan.deletes \cap DOMAIN deleteFiles = {}
      /\ DOMAIN plan.wals \cap DOMAIN walFiles = {}
      /\ \A p \in DOMAIN plan.wals : plan.wals[p] = NewWal
  BY DEF PlanOK
<1>5. /\ DOMAIN Over(plan.segs, segFiles) = DOMAIN plan.segs \cup DOMAIN segFiles
      /\ \A p \in DOMAIN segFiles : Over(plan.segs, segFiles)[p] = segFiles[p]
  BY <1>4 DEF Over
<1>6. /\ DOMAIN Over(plan.idmaps, idmapFiles) = DOMAIN plan.idmaps \cup DOMAIN idmapFiles
      /\ \A p \in DOMAIN idmapFiles : Over(plan.idmaps, idmapFiles)[p] = idmapFiles[p]
  BY <1>4 DEF Over
<1>7. /\ DOMAIN Over(plan.deletes, deleteFiles) = DOMAIN plan.deletes \cup DOMAIN deleteFiles
      /\ \A p \in DOMAIN deleteFiles : Over(plan.deletes, deleteFiles)[p] = deleteFiles[p]
  BY <1>4 DEF Over
<1>8. /\ DOMAIN Over(plan.wals, LogsAfter(plan)) = DOMAIN plan.wals \cup DOMAIN walFiles
      /\ \A p \in DOMAIN walFiles : Over(plan.wals, LogsAfter(plan))[p] = LogsAfter(plan)[p]
      /\ \A p \in DOMAIN plan.wals : Over(plan.wals, LogsAfter(plan))[p] = NewWal
  BY <1>2, <1>4 DEF Over
<1> QED BY <1>3, <1>5, <1>6, <1>7, <1>8

LEMMA CommittedOK ==
  ASSUME DiskOK, NEW plan, PlanOK(plan), Committed(plan), config' = config
  PROVE  /\ DiskOK' /\ FilesKept /\ FilesPresent(current)'
         /\ current' = [plan.manifest EXCEPT !.gen = lastGen + 1]
         /\ DOMAIN segFiles \subseteq DOMAIN segFiles'
<1>1. /\ current' = [plan.manifest EXCEPT !.gen = lastGen + 1]
      /\ lastGen' = lastGen + 1 /\ lastGen < config.maxGeneration
      /\ stable' = current' \/ stable' = stable
      /\ segFiles' = Over(plan.segs, segFiles)
      /\ idmapFiles' = Over(plan.idmaps, idmapFiles)
      /\ deleteFiles' = Over(plan.deletes, deleteFiles)
      /\ walFiles' = Over(plan.wals, LogsAfter(plan))
  BY DEF Committed, LogsAfter, MaxGeneration
<1>2. lastGen \in 1..config.maxGeneration /\ config.maxGeneration \in Nat /\ config \in Configs
  BY ConfigIs DEF DiskOK
<1>3. /\ plan.manifest \in Manifests
      /\ plan.manifest.schema \in 1..config.maxSchema /\ plan.manifest.start <= config.maxDocID + 1
  BY DEF PlanOK
<1>4. /\ current' \in Manifests /\ current'.gen = lastGen + 1
      /\ current'.schema = plan.manifest.schema /\ current'.start = plan.manifest.start
      /\ current'.wal = plan.manifest.wal /\ current'.segs = plan.manifest.segs
      /\ current'.idmap = plan.manifest.idmap /\ current'.deletes = plan.manifest.deletes
  BY <1>1, <1>2, <1>3 DEF Manifests
<1>5. ManifestOK(config, current', lastGen') /\ lastGen' \in 1..config.maxGeneration
  BY <1>1, <1>2, <1>3, <1>4 DEF ManifestOK
<1>6. ManifestOK(config, stable', lastGen')
  <2>1. ManifestOK(config, stable, lastGen)
    BY DEF DiskOK
  <2>2. ManifestOK(config, stable, lastGen')
    BY <1>1, <1>2, <2>1 DEF ManifestOK
  <2> QED BY <1>1, <1>5, <2>2
<1>7. /\ SegFilesOK(config, segFiles') /\ IDMapFilesOK(config, idmapFiles')
      /\ DeleteFilesOK(config, deleteFiles') /\ WalFilesOK(config, walFiles')
      /\ \A p \in DOMAIN segFiles : segFiles'[p] = segFiles[p]
      /\ \A n \in DOMAIN idmapFiles : idmapFiles'[n] = idmapFiles[n]
      /\ \A n \in DOMAIN deleteFiles : deleteFiles'[n] = deleteFiles[n]
      /\ \A p \in DOMAIN walFiles : walFiles'[p] = LogsAfter(plan)[p]
      /\ \A p \in DOMAIN plan.wals : walFiles'[p] = NewWal
      /\ DOMAIN segFiles' = DOMAIN plan.segs \cup DOMAIN segFiles
      /\ DOMAIN idmapFiles' = DOMAIN plan.idmaps \cup DOMAIN idmapFiles
      /\ DOMAIN deleteFiles' = DOMAIN plan.deletes \cup DOMAIN deleteFiles
      /\ DOMAIN walFiles' = DOMAIN plan.wals \cup DOMAIN walFiles
  BY <1>1, AddedOK
<1>8. /\ \A p \in DOMAIN walFiles : p # current.wal => LogsAfter(plan)[p] = walFiles[p]
      /\ plan.syncs => LogsAfter(plan)[current.wal].synced = Len(LogsAfter(plan)[current.wal].recs)
      /\ current.wal \in DOMAIN walFiles
  BY LogsAfterIs DEF PlanOK, DiskOK
<1>9. FilesKept
  BY <1>7, <1>8 DEF FilesKept
<1>10. FilesPresent(current)' /\ current'.wal \in DOMAIN walFiles'
  BY <1>4, <1>7, <1>8 DEF FilesPresent, PlanOK
<1>11. SettledLog'
  <2> SUFFICES ASSUME stable'.wal # current'.wal, stable'.wal \in DOMAIN walFiles'
               PROVE  walFiles'[stable'.wal].synced = Len(walFiles'[stable'.wal].recs)
    BY DEF SettledLog
  <2>1. stable' = stable
    BY <1>1
  <2>2. CASE stable.wal \in DOMAIN plan.wals
    <3>1. NewWal.synced = Len(NewWal.recs)
      BY DEF NewWal
    <3> QED BY <1>7, <2>1, <2>2, <3>1
  <2>3. CASE stable.wal = current.wal
    BY <1>4, <1>7, <1>8, <2>1, <2>3 DEF PlanOK
  <2>4. CASE stable.wal \notin DOMAIN plan.wals /\ stable.wal # current.wal
    BY <1>7, <1>8, <2>1, <2>4 DEF DiskOK, SettledLog
  <2> QED BY <2>2, <2>3, <2>4
<1>12. DiskOK'
  BY <1>2, <1>5, <1>6, <1>7, <1>10, <1>11 DEF DiskOK
<1> QED BY <1>1, <1>7, <1>9, <1>10, <1>12

LEMMA AbandonedOK ==
  ASSUME DiskOK, NEW plan, PlanOK(plan), Abandoned(plan), config' = config
  PROVE  /\ DiskOK' /\ FilesKept /\ current' = current
         /\ FilesPresent(current) => FilesPresent(current)'
         /\ aborts < MaxAborts /\ aborts' = aborts + 1
         /\ DOMAIN segFiles \subseteq DOMAIN segFiles'
<1>1. /\ current' = current /\ stable' = stable
      /\ lastGen' = lastGen \/ (lastGen' = lastGen + 1 /\ lastGen < config.maxGeneration)
      /\ segFiles' = Over(plan.segs, segFiles) \/ segFiles' = segFiles
      /\ idmapFiles' = Over(plan.idmaps, idmapFiles) \/ idmapFiles' = idmapFiles
      /\ deleteFiles' = Over(plan.deletes, deleteFiles) \/ deleteFiles' = deleteFiles
      /\ walFiles' = Over(plan.wals, LogsAfter(plan)) \/ walFiles' = LogsAfter(plan)
      /\ aborts < MaxAborts /\ aborts' = aborts + 1
  BY DEF Abandoned, LogsAfter, MaxGeneration
<1>2. lastGen \in 1..config.maxGeneration /\ config.maxGeneration \in Nat /\ config \in Configs
  BY ConfigIs DEF DiskOK
<1>2a. SegFilesOK(config, segFiles) /\ IDMapFilesOK(config, idmapFiles) /\ DeleteFilesOK(config, deleteFiles)
  BY DEF DiskOK
<1>3. /\ ManifestOK(config, current', lastGen') /\ ManifestOK(config, stable', lastGen')
      /\ lastGen' \in 1..config.maxGeneration
  BY <1>1, <1>2 DEF DiskOK, ManifestOK
<1>4. /\ WalFilesOK(config, LogsAfter(plan)) /\ DOMAIN LogsAfter(plan) = DOMAIN walFiles
      /\ \A p \in DOMAIN walFiles : p # current.wal => LogsAfter(plan)[p] = walFiles[p]
      /\ current.wal \in DOMAIN walFiles
  BY LogsAfterIs DEF PlanOK, DiskOK
<1>5. /\ SegFilesOK(config, segFiles') /\ DOMAIN segFiles \subseteq DOMAIN segFiles'
      /\ \A p \in DOMAIN segFiles : segFiles'[p] = segFiles[p]
  <2>1. CASE segFiles' = segFiles
    BY <1>2a, <2>1
  <2>2. CASE segFiles' = Over(plan.segs, segFiles)
    <3>1. /\ SegFilesOK(config, Over(plan.segs, segFiles)) /\ DOMAIN Over(plan.segs, segFiles) = DOMAIN plan.segs \cup DOMAIN segFiles
          /\ \A x \in DOMAIN segFiles : Over(plan.segs, segFiles)[x] = segFiles[x]
      BY AddedOK
    <3> QED BY <2>2, <3>1
  <2> QED BY <1>1, <2>1, <2>2
<1>6. /\ IDMapFilesOK(config, idmapFiles') /\ DOMAIN idmapFiles \subseteq DOMAIN idmapFiles'
      /\ \A n \in DOMAIN idmapFiles : idmapFiles'[n] = idmapFiles[n]
  <2>1. CASE idmapFiles' = idmapFiles
    BY <1>2a, <2>1
  <2>2. CASE idmapFiles' = Over(plan.idmaps, idmapFiles)
    <3>1. /\ IDMapFilesOK(config, Over(plan.idmaps, idmapFiles)) /\ DOMAIN Over(plan.idmaps, idmapFiles) = DOMAIN plan.idmaps \cup DOMAIN idmapFiles
          /\ \A x \in DOMAIN idmapFiles : Over(plan.idmaps, idmapFiles)[x] = idmapFiles[x]
      BY AddedOK
    <3> QED BY <2>2, <3>1
  <2> QED BY <1>1, <2>1, <2>2
<1>7. /\ DeleteFilesOK(config, deleteFiles') /\ DOMAIN deleteFiles \subseteq DOMAIN deleteFiles'
      /\ \A n \in DOMAIN deleteFiles : deleteFiles'[n] = deleteFiles[n]
  <2>1. CASE deleteFiles' = deleteFiles
    BY <1>2a, <2>1
  <2>2. CASE deleteFiles' = Over(plan.deletes, deleteFiles)
    <3>1. /\ DeleteFilesOK(config, Over(plan.deletes, deleteFiles)) /\ DOMAIN Over(plan.deletes, deleteFiles) = DOMAIN plan.deletes \cup DOMAIN deleteFiles
          /\ \A x \in DOMAIN deleteFiles : Over(plan.deletes, deleteFiles)[x] = deleteFiles[x]
      BY AddedOK
    <3> QED BY <2>2, <3>1
  <2> QED BY <1>1, <2>1, <2>2
<1>8. /\ WalFilesOK(config, walFiles') /\ DOMAIN walFiles \subseteq DOMAIN walFiles'
      /\ \A p \in DOMAIN walFiles : walFiles'[p] = LogsAfter(plan)[p]
      /\ \A p \in DOMAIN walFiles' : p \notin DOMAIN walFiles => walFiles'[p] = NewWal
  <2>1. CASE walFiles' = LogsAfter(plan)
    BY <1>4, <2>1
  <2>2. CASE walFiles' = Over(plan.wals, LogsAfter(plan))
    BY <2>2, AddedOK
  <2> QED BY <1>1, <2>1, <2>2
<1>9. FilesKept
  BY <1>4, <1>5, <1>6, <1>7, <1>8 DEF FilesKept
<1>10. FilesPresent(current) => FilesPresent(current)'
  BY <1>1, <1>5, <1>6, <1>7, <1>8 DEF FilesPresent
<1>11. SettledLog'
  <2> SUFFICES ASSUME stable.wal # current.wal, stable.wal \in DOMAIN walFiles'
               PROVE  walFiles'[stable.wal].synced = Len(walFiles'[stable.wal].recs)
    BY <1>1 DEF SettledLog
  <2>1. CASE stable.wal \in DOMAIN walFiles
    BY <1>4, <1>8, <2>1 DEF DiskOK, SettledLog
  <2>2. CASE stable.wal \notin DOMAIN walFiles
    <3>1. NewWal.synced = Len(NewWal.recs)
      BY DEF NewWal
    <3> QED BY <1>8, <2>2, <3>1
  <2> QED BY <2>1, <2>2
<1>12. DiskOK'
  BY <1>1, <1>2, <1>3, <1>4, <1>5, <1>6, <1>7, <1>8, <1>11 DEF DiskOK
<1> QED BY <1>1, <1>5, <1>9, <1>10, <1>12

-----------------------------------------------------------------------------
(* The plans.                                                              *)

LEMMA ManagerFields ==
  ASSUME MemOK(config, mem)
  PROVE  /\ mem.segs \in SegmentMaps /\ mem.writing \in WriteSegments /\ mem.idmap \in KeyMaps
         /\ mem.deletes \in SUBSET Nat /\ mem.dirty \in Nat /\ mem.reserved \in Nat
         /\ mem.writing.id \in Nat /\ mem.writing.min \in Nat /\ mem.writing.docs \in Documents
         /\ DocsBounded(config, mem.writing.docs) /\ MapBounded(config, mem.idmap)
         /\ mem.deletes \subseteq 0..config.maxDocID
         /\ NextDocumentID(mem.writing) \in Nat /\ NextDocumentID(mem.writing) <= config.maxDocID + 1
BY DEF MemOK, Managers, WriteSegments, Bounded, Contiguous

LEMMA NewWriteSegmentIs ==
  ASSUME NEW c, NEW id \in Nat, NEW min \in Nat
  PROVE  LET w == NewWriteSegment(id, min)
         IN  /\ w \in WriteSegments /\ w.id = id /\ w.min = min /\ w.docs = EmptyMap
             /\ Contiguous(w) /\ NextDocumentID(w) = min /\ DocsBounded(c, w.docs)
<1> DEFINE w == NewWriteSegment(id, min)
<1>1. DOMAIN EmptyMap = {} /\ EmptyMap \in Documents
  BY EmptyMapIs DEF Documents
<1>2. w \in WriteSegments /\ w.id = id /\ w.min = min /\ w.docs = EmptyMap
  BY <1>1 DEF NewWriteSegment, WriteSegments
<1> HIDE DEF w
<1>3. NextDocumentID(w) = min /\ IsFiniteSet(DOMAIN w.docs)
  BY <1>1, <1>2, FS_EmptySet DEF NextDocumentID
<1>4. Contiguous(w) /\ DocsBounded(c, w.docs)
  BY <1>1, <1>2, <1>3 DEF Contiguous, DocsBounded
<1> QED BY <1>2, <1>3, <1>4 DEF w

\* The numbers and names that a publication takes.
LEMMA FreshNames ==
  ASSUME DiskOK, MemOK(config, mem)
  PROVE  /\ NextSegmentID \in Nat /\ NextSegmentID >= current.next /\ NextSegmentID >= mem.reserved
         /\ IDMapNumber \in Nat /\ IDMapNumber \notin DOMAIN idmapFiles
         /\ DeleteNumber \in Nat /\ DeleteNumber \notin DOMAIN deleteFiles
         /\ \A id \in Nat : SegmentName(id, current.gen + 1) \in Name
                            /\ SegmentName(id, current.gen + 1) \notin DOMAIN segFiles
                            /\ SegmentName(id, current.gen + 1)[1] = id
         /\ \A id \in Nat : WalName(id, current.gen + 1) \in Name
                            /\ WalName(id, current.gen + 1) \notin DOMAIN walFiles
                            /\ WalName(id, current.gen + 1)[1] = id
<1>1. current \in Manifests /\ current.gen + 1 \in Nat /\ current.deletes + 1 \in Nat /\ current.next \in Nat
  BY DEF DiskOK, ManifestOK, Manifests
<1>2. /\ IsFiniteSet(DOMAIN segFiles) /\ IsFiniteSet(DOMAIN idmapFiles)
      /\ IsFiniteSet(DOMAIN deleteFiles) /\ IsFiniteSet(DOMAIN walFiles)
  BY DEF DiskOK, SegFilesOK, IDMapFilesOK, DeleteFilesOK, WalFilesOK
<1>3. NextSegmentID \in Nat /\ NextSegmentID >= current.next /\ NextSegmentID >= mem.reserved
  <2>1. mem.reserved \in Nat
    BY ManagerFields
  <2> DEFINE S == {current.next, mem.reserved}
  <2>2. \E x \in S : \A y \in S : x >= y
    BY <1>1, <2>1
  <2>3. Max(S) \in S /\ \A y \in S : Max(S) >= y
    BY <2>2 DEF Max
  <2> QED BY <1>1, <2>1, <2>3 DEF NextSegmentID
<1>4. /\ IDMapNumber \in Nat /\ IDMapNumber \notin DOMAIN idmapFiles
      /\ DeleteNumber \in Nat /\ DeleteNumber \notin DOMAIN deleteFiles
  BY <1>1, <1>2, FreeNumberIs DEF IDMapNumber, DeleteNumber
<1>5. ASSUME NEW id \in Nat
      PROVE  /\ SegmentName(id, current.gen + 1) \in Name
             /\ SegmentName(id, current.gen + 1) \notin DOMAIN segFiles
             /\ SegmentName(id, current.gen + 1)[1] = id
  BY <1>1, <1>2, FreeName DEF SegmentName
<1>6. ASSUME NEW id \in Nat
      PROVE  /\ WalName(id, current.gen + 1) \in Name
             /\ WalName(id, current.gen + 1) \notin DOMAIN walFiles
             /\ WalName(id, current.gen + 1)[1] = id
  BY <1>1, <1>2, FreeName DEF WalName
<1> QED BY <1>3, <1>4, <1>5, <1>6

\* The checkpoint that Flush and a rewrite make: an IDMap, a delete snapshot
\* and an empty log under fresh names.
LEMMA CheckpointArtifacts ==
  ASSUME DiskOK, MemOK(config, mem), NEW id \in Nat, NEW f \in KeyMaps, MapBounded(config, f),
         NEW S \in SUBSET Nat, S \subseteq 0..config.maxDocID
  PROVE  /\ IDMapFilesOK(config, Entry(IDMapNumber, f))
         /\ DOMAIN Entry(IDMapNumber, f) \cap DOMAIN idmapFiles = {}
         /\ IDMapNumber \in DOMAIN Entry(IDMapNumber, f)
         /\ DeleteFilesOK(config, Entry(DeleteNumber, S))
         /\ DOMAIN Entry(DeleteNumber, S) \cap DOMAIN deleteFiles = {}
         /\ DeleteNumber \in DOMAIN Entry(DeleteNumber, S)
         /\ WalFilesOK(config, Entry(WalName(id, current.gen + 1), NewWal))
         /\ DOMAIN Entry(WalName(id, current.gen + 1), NewWal) \cap DOMAIN walFiles = {}
         /\ \A p \in DOMAIN Entry(WalName(id, current.gen + 1), NewWal) :
              Entry(WalName(id, current.gen + 1), NewWal)[p] = NewWal
         /\ WalName(id, current.gen + 1) \in DOMAIN Entry(WalName(id, current.gen + 1), NewWal)
<1> DEFINE n == IDMapNumber
           d == DeleteNumber
           p == WalName(id, current.gen + 1)
<1>1. n \in Nat /\ n \notin DOMAIN idmapFiles /\ d \in Nat /\ d \notin DOMAIN deleteFiles
  BY FreshNames
<1>2. p \in Name /\ p \notin DOMAIN walFiles
  BY FreshNames
<1> HIDE DEF n, d, p
<1>3. IDMapFilesOK(config, Entry(n, f)) /\ DeleteFilesOK(config, Entry(d, S)) /\ WalFilesOK(config, Entry(p, NewWal))
  BY <1>1, <1>2, FilesEntry, NewWalIs
<1>4. /\ DOMAIN Entry(n, f) \cap DOMAIN idmapFiles = {} /\ n \in DOMAIN Entry(n, f)
      /\ DOMAIN Entry(d, S) \cap DOMAIN deleteFiles = {} /\ d \in DOMAIN Entry(d, S)
      /\ DOMAIN Entry(p, NewWal) \cap DOMAIN walFiles = {} /\ p \in DOMAIN Entry(p, NewWal)
      /\ \A q \in DOMAIN Entry(p, NewWal) : Entry(p, NewWal)[q] = NewWal
  BY <1>1, <1>2 DEF Entry
<1> QED BY <1>3, <1>4 DEF n, d, p

LEMMA FlushPlanOK ==
  ASSUME TypeInv
  PROVE  /\ PlanOK(FlushPlan) \/ ~FilesPresent(current)
         /\ MemOK(config, FlushPlan.mem)
         /\ FlushPlan.manifest.segs \subseteq current.segs \cup DOMAIN FlushPlan.segs
<1> DEFINE w     == mem.writing
           id    == NextSegmentID
           start == NextDocumentID(w)
           seg   == SegmentName(w.id, current.gen + 1)
           wal   == WalName(id, current.gen + 1)
           sealed == w.docs # EmptyMap
           plan  == FlushPlan
<1>1. DiskOK /\ MemOK(config, mem)
  BY DEF TypeInv
<1>2. /\ plan.manifest = [current EXCEPT !.segs = IF sealed THEN current.segs \cup {seg} ELSE current.segs,
                                    !.wal = wal, !.start = start, !.idmap = IDMapNumber,
                                    !.deletes = DeleteNumber, !.next = id + 1]
      /\ plan.segs = IF sealed THEN Entry(seg, w.docs) ELSE EmptyMap
      /\ plan.idmaps = Entry(IDMapNumber, mem.idmap)
      /\ plan.deletes = Entry(DeleteNumber, mem.deletes)
      /\ plan.wals = Entry(wal, NewWal)
      /\ plan.syncs = TRUE
      /\ plan.mem = Manager(IF sealed THEN Over(Entry(w.id, w.docs), mem.segs) ELSE mem.segs,
                            NewWriteSegment(id, start), mem.idmap, mem.deletes, 0, mem.reserved)
  BY DEF FlushPlan
<1>3. /\ w \in WriteSegments /\ w.id \in Nat /\ w.docs \in Documents /\ DocsBounded(config, w.docs)
      /\ start \in Nat /\ start <= config.maxDocID + 1
      /\ mem.idmap \in KeyMaps /\ MapBounded(config, mem.idmap) /\ mem.segs \in SegmentMaps
      /\ mem.deletes \in SUBSET Nat /\ mem.deletes \subseteq 0..config.maxDocID /\ mem.reserved \in Nat
  BY <1>1, ManagerFields
<1>4. /\ id \in Nat /\ seg \in Name /\ seg \notin DOMAIN segFiles /\ wal \in Name
      /\ IDMapNumber \in Nat /\ DeleteNumber \in Nat
  BY <1>1, <1>3, FreshNames
<1>5. /\ IDMapFilesOK(config, plan.idmaps) /\ DOMAIN plan.idmaps \cap DOMAIN idmapFiles = {}
      /\ DeleteFilesOK(config, plan.deletes) /\ DOMAIN plan.deletes \cap DOMAIN deleteFiles = {}
      /\ WalFilesOK(config, plan.wals) /\ DOMAIN plan.wals \cap DOMAIN walFiles = {}
      /\ \A p \in DOMAIN plan.wals : plan.wals[p] = NewWal
      /\ IDMapNumber \in DOMAIN plan.idmaps /\ DeleteNumber \in DOMAIN plan.deletes
      /\ wal \in DOMAIN plan.wals
  BY <1>1, <1>2, <1>3, <1>4, CheckpointArtifacts
<1>6. current \in Manifests /\ current.schema \in 1..config.maxSchema
  BY <1>1 DEF DiskOK, ManifestOK
<1> HIDE DEF w, id, start, seg, wal, plan
<1>7. /\ SegFilesOK(config, plan.segs) /\ DOMAIN plan.segs \cap DOMAIN segFiles = {}
      /\ sealed => seg \in DOMAIN plan.segs
  <2>1. CASE sealed
    <3>1. SegFilesOK(config, plan.segs)
      BY <1>2, <1>3, <1>4, <2>1, FilesEntry
    <3>2. DOMAIN plan.segs = {seg}
      BY <1>2, <2>1 DEF Entry
    <3> QED BY <1>4, <3>1, <3>2
  <2>2. CASE ~sealed
    BY <1>2, <2>2, FilesEmpty, EmptyMapIs
  <2> QED BY <2>1, <2>2
<1>8. /\ plan.manifest \in Manifests /\ plan.manifest.schema = current.schema
      /\ plan.manifest.start = start /\ plan.manifest.idmap = IDMapNumber
      /\ plan.manifest.deletes = DeleteNumber /\ plan.manifest.wal = wal
      /\ plan.manifest.segs = IF sealed THEN current.segs \cup {seg} ELSE current.segs
  <2> DEFINE S == IF sealed THEN current.segs \cup {seg} ELSE current.segs
             next == id + 1
  <2>1. S \in SUBSET Name /\ next \in Nat
    BY <1>4, <1>6 DEF Manifests
  <2>2. plan.manifest = [current EXCEPT !.segs = S, !.wal = wal, !.start = start, !.idmap = IDMapNumber,
                                        !.deletes = DeleteNumber, !.next = next]
    BY <1>2
  <2> HIDE DEF S, next
  <2>3. /\ plan.manifest \in Manifests /\ plan.manifest.schema = current.schema
        /\ plan.manifest.start = start /\ plan.manifest.idmap = IDMapNumber
        /\ plan.manifest.deletes = DeleteNumber /\ plan.manifest.wal = wal
        /\ plan.manifest.segs = S
    BY <1>3, <1>4, <1>6, <2>1, <2>2 DEF Manifests
  <2> QED BY <2>3 DEF S
<1>9. plan.manifest.segs \subseteq current.segs \cup DOMAIN plan.segs
  BY <1>7, <1>8
<1>10. ASSUME FilesPresent(current) PROVE PlanOK(plan)
  <2>1. plan.manifest.segs \subseteq DOMAIN plan.segs \cup DOMAIN segFiles
    BY <1>9, <1>10 DEF FilesPresent
  <2>2. plan.syncs = TRUE
    BY <1>2
  <2> QED BY <1>3, <1>5, <1>6, <1>7, <1>8, <2>1, <2>2 DEF PlanOK
<1>11. MemOK(config, plan.mem)
  <2> DEFINE segs == IF sealed THEN Over(Entry(w.id, w.docs), mem.segs) ELSE mem.segs
             v    == NewWriteSegment(id, start)
  <2>1. segs \in SegmentMaps /\ \A i \in DOMAIN segs : DocsBounded(config, segs[i])
    <3>1. \A i \in DOMAIN mem.segs : DocsBounded(config, mem.segs[i])
      BY <1>1 DEF MemOK, Bounded
    <3>2. CASE sealed
      <4>1. Entry(w.id, w.docs) \in SegmentMaps
        BY <1>3, EntryType DEF SegmentMaps
      <4>2. Over(Entry(w.id, w.docs), mem.segs) \in SegmentMaps
        BY <1>3, <4>1, OverType DEF SegmentMaps
      <4>3. \A i \in DOMAIN Over(Entry(w.id, w.docs), mem.segs) :
              DocsBounded(config, Over(Entry(w.id, w.docs), mem.segs)[i])
        BY <1>3, <3>1 DEF Over, Entry
      <4> QED BY <3>2, <4>2, <4>3
    <3>3. CASE ~sealed
      BY <1>3, <3>1, <3>3
    <3> QED BY <3>2, <3>3
  <2>2. v \in WriteSegments /\ Contiguous(v) /\ NextDocumentID(v) = start /\ DocsBounded(config, v.docs)
    BY <1>3, <1>4, NewWriteSegmentIs
  <2>3. plan.mem = [segs |-> segs, writing |-> v, idmap |-> mem.idmap, deletes |-> mem.deletes,
                    dirty |-> 0, reserved |-> mem.reserved]
    BY <1>2 DEF Manager
  <2> HIDE DEF segs, v
  <2> QED BY <1>3, <2>1, <2>2, <2>3 DEF MemOK, Managers, Bounded
<1> QED BY <1>9, <1>10, <1>11 DEF plan

\* The union of bounded segments.
LEMMA MergedBounded ==
  ASSUME NEW c, c.maxDocID \in Nat, NEW fs \in SUBSET Documents, \A f \in fs : DocsBounded(c, f)
  PROVE  /\ Merged(fs) \in Documents /\ DocsBounded(c, Merged(fs))
         /\ IsFiniteSet(DOMAIN Merged(fs)) /\ DOMAIN Merged(fs) \in SUBSET Nat
<1>1. Merged(fs) \in Documents
  BY MergedType DEF Documents
<1>2. DocsBounded(c, Merged(fs))
  <2>1. ASSUME NEW d \in DOMAIN Merged(fs)
        PROVE  d \in 0..c.maxDocID /\ Merged(fs)[d].schema \in 1..c.maxSchema
    <3>1. PICK f \in fs : d \in DOMAIN f /\ Merged(fs)[d] = f[d]
      BY MergedIs
    <3> QED BY <3>1 DEF DocsBounded
  <2> QED BY <2>1 DEF DocsBounded
<1>3. IsFiniteSet(0..c.maxDocID)
  BY FS_Interval
<1>4. DOMAIN Merged(fs) \in SUBSET (0..c.maxDocID)
  BY <1>2 DEF DocsBounded
<1>5. IsFiniteSet(DOMAIN Merged(fs))
  BY <1>3, <1>4, FS_Subset
<1> QED BY <1>1, <1>2, <1>4, <1>5

LEMMA SegmentMembers ==
  ASSUME NEW segs \in SegmentMaps
  PROVE  /\ DOMAIN segs \in SUBSET Nat /\ \A i \in DOMAIN segs : segs[i] \in Documents
         /\ Range(segs) \in SUBSET Documents
         /\ \A f \in Range(segs) : \E i \in DOMAIN segs : f = segs[i]
         /\ \A i \in DOMAIN segs : segs[i] \in Range(segs)
<1>1. segs \in [DOMAIN segs -> Documents] /\ DOMAIN segs \in SUBSET Nat
  BY PartialIs DEF SegmentMaps
<1> QED BY <1>1 DEF Range

LEMMA RetainedBounded ==
  ASSUME NEW c, c.maxDocID \in Nat, NEW s, s.segs \in SegmentMaps, s.writing.docs \in Documents,
         \A id \in DOMAIN s.segs : DocsBounded(c, s.segs[id]), DocsBounded(c, s.writing.docs)
  PROVE  /\ Retained(s) \in Documents /\ DocsBounded(c, Retained(s))
         /\ IsFiniteSet(DOMAIN Retained(s)) /\ DOMAIN Retained(s) \in SUBSET Nat
<1> DEFINE fs == Range(s.segs) \cup {s.writing.docs}
<1>1. fs \in SUBSET Documents /\ \A f \in fs : DocsBounded(c, f)
  BY SegmentMembers
<1> HIDE DEF fs
<1>2. Retained(s) = Merged(fs)
  BY DEF Retained, fs
<1> QED BY <1>1, <1>2, MergedBounded

\* The documents of a rewrite.
Rewritten(schema) == [d \in LiveIDs(mem) |-> [Retained(mem)[d] EXCEPT !.schema = schema]]

LEMMA RewrittenIs ==
  ASSUME DiskOK, MemOK(config, mem), NEW schema \in 1..config.maxSchema
  PROVE  /\ Rewritten(schema) \in Documents /\ DocsBounded(config, Rewritten(schema))
         /\ DOMAIN Rewritten(schema) = LiveIDs(mem) /\ IsFiniteSet(LiveIDs(mem))
         /\ LiveIDs(mem) \in SUBSET DOMAIN Retained(mem) /\ LiveIDs(mem) \in SUBSET Nat
         /\ \A d \in LiveIDs(mem) : Rewritten(schema)[d] = [key |-> Retained(mem)[d].key, schema |-> schema]
<1>1. config.maxDocID \in Nat /\ config.maxSchema \in Nat
  BY ConfigIs DEF DiskOK
<1>2. /\ Retained(mem) \in Documents /\ DocsBounded(config, Retained(mem))
      /\ IsFiniteSet(DOMAIN Retained(mem)) /\ DOMAIN Retained(mem) \in SUBSET Nat
  <2>1. \A id \in DOMAIN mem.segs : DocsBounded(config, mem.segs[id])
    BY DEF MemOK, Bounded
  <2> QED BY <1>1, <2>1, ManagerFields, RetainedBounded
<1>3. LiveIDs(mem) \in SUBSET DOMAIN Retained(mem) /\ LiveIDs(mem) \in SUBSET Nat
  BY <1>2 DEF LiveIDs
<1>4. IsFiniteSet(LiveIDs(mem))
  BY <1>2, <1>3, FS_Subset
<1>5. \A d \in LiveIDs(mem) : Retained(mem)[d] \in Doc
  BY <1>2, <1>3, PartialIs DEF Documents
<1>6. \A d \in LiveIDs(mem) :
        /\ [Retained(mem)[d] EXCEPT !.schema = schema] = [key |-> Retained(mem)[d].key, schema |-> schema]
        /\ [key |-> Retained(mem)[d].key, schema |-> schema] \in Doc
  BY <1>1, <1>5 DEF Doc
<1>7. /\ DOMAIN Rewritten(schema) = LiveIDs(mem)
      /\ \A d \in LiveIDs(mem) : Rewritten(schema)[d] = [key |-> Retained(mem)[d].key, schema |-> schema]
      /\ Rewritten(schema) \in [LiveIDs(mem) -> Doc]
  BY <1>6 DEF Rewritten
<1>8. Rewritten(schema) \in Documents
  BY <1>3, <1>7, PartialIs DEF Documents
<1>9. DocsBounded(config, Rewritten(schema))
  BY <1>2, <1>3, <1>7 DEF DocsBounded
<1> QED BY <1>3, <1>4, <1>7, <1>8, <1>9

\* Each key with a document that has it.
KeysOf(docs) == [k \in {docs[d].key : d \in DOMAIN docs} |-> CHOOSE d \in DOMAIN docs : docs[d].key = k]

LEMMA KeysOfIs ==
  ASSUME NEW c, NEW docs \in Documents, DocsBounded(c, docs)
  PROVE  /\ KeysOf(docs) \in KeyMaps /\ MapBounded(c, KeysOf(docs))
         /\ DOMAIN KeysOf(docs) = {docs[d].key : d \in DOMAIN docs}
         /\ \A k \in DOMAIN KeysOf(docs) : KeysOf(docs)[k] \in DOMAIN docs /\ docs[KeysOf(docs)[k]].key = k
<1>1. docs \in [DOMAIN docs -> Doc] /\ DOMAIN docs \in SUBSET Nat
  BY PartialIs DEF Documents
<1> DEFINE K == {docs[d].key : d \in DOMAIN docs}
           g == KeysOf(docs)
<1>2. K \in SUBSET Keys
  BY <1>1 DEF Doc
<1>3. \A k \in K : \E d \in DOMAIN docs : docs[d].key = k
  OBVIOUS
<1>4. DOMAIN g = K /\ \A k \in K : g[k] = CHOOSE d \in DOMAIN docs : docs[d].key = k
  BY DEF KeysOf
<1>5. g = [k \in K |-> g[k]]
  BY DEF KeysOf
<1>6. \A k \in K : g[k] \in DOMAIN docs /\ docs[g[k]].key = k
  BY <1>3, <1>4
<1> HIDE DEF g, K
<1>7. g \in [K -> Nat]
  BY <1>1, <1>5, <1>6
<1>8. g \in KeyMaps
  BY <1>2, <1>4, <1>7, PartialIs DEF KeyMaps
<1>9. MapBounded(c, g)
  BY <1>4, <1>6 DEF MapBounded, DocsBounded
<1> QED BY <1>4, <1>6, <1>8, <1>9 DEF g, K

LEMMA RewritePlanOK ==
  ASSUME TypeInv, NEW schema \in 1..config.maxSchema
  PROVE  PlanOK(RewritePlan(schema)) /\ MemOK(config, RewritePlan(schema).mem)
<1> DEFINE docs  == Rewritten(schema)
           runs  == DocumentRuns(DOMAIN docs)
           segs  == SegmentsOf(runs, docs, NextSegmentID)
           names == {SegmentName(i, current.gen + 1) : i \in DOMAIN segs}
           id    == NextSegmentID + Cardinality(runs)
           start == NextDocumentID(mem.writing)
           wal   == WalName(id, current.gen + 1)
           files == [p \in names |-> segs[p[1]]]
           plan  == RewritePlan(schema)
<1>1. DiskOK /\ MemOK(config, mem)
  BY DEF TypeInv
<1>2. /\ plan.manifest = [current EXCEPT !.schema = schema, !.segs = names, !.wal = wal,
                                    !.start = start, !.idmap = IDMapNumber,
                                    !.deletes = DeleteNumber, !.next = id + 1]
      /\ plan.segs = files
      /\ plan.idmaps = Entry(IDMapNumber, KeysOf(docs))
      /\ plan.deletes = Entry(DeleteNumber, {})
      /\ plan.wals = Entry(wal, NewWal)
      /\ plan.syncs = TRUE
      /\ plan.mem = Manager(segs, NewWriteSegment(id, start), KeysOf(docs), {}, 0, mem.reserved)
  BY DEF RewritePlan, Rewritten, KeysOf
<1>3. /\ docs \in Documents /\ DocsBounded(config, docs) /\ IsFiniteSet(DOMAIN docs)
      /\ DOMAIN docs \in SUBSET DOMAIN docs /\ DOMAIN docs \in SUBSET Nat
  BY <1>1, RewrittenIs
<1>4. start \in Nat /\ start <= config.maxDocID + 1 /\ mem.reserved \in Nat
  BY <1>1, ManagerFields
<1>5. NextSegmentID \in Nat /\ IDMapNumber \in Nat /\ DeleteNumber \in Nat
  BY <1>1, FreshNames
<1> HIDE DEF docs
<1>6. /\ IsFiniteSet(runs) /\ Cardinality(runs) \in Nat
  BY <1>3, <1>5, RunsNumbered
<1>7. /\ DOMAIN segs = NextSegmentID..(NextSegmentID + Cardinality(runs) - 1)
      /\ segs \in SegmentMaps
      /\ \A i \in DOMAIN segs : \E r \in runs : segs[i] = Restrict(docs, r)
  BY <1>3, <1>5, SegmentsOfIs
<1>8. \A r \in runs : r \in SUBSET DOMAIN docs
  BY RunsPartition
<1>9. KeysOf(docs) \in KeyMaps /\ MapBounded(config, KeysOf(docs))
  BY <1>3, KeysOfIs
<1> HIDE DEF runs, segs
<1>10. \A i \in DOMAIN segs : i \in Nat /\ segs[i] \in Documents /\ DocsBounded(config, segs[i])
  <2> SUFFICES ASSUME NEW i \in DOMAIN segs
               PROVE  i \in Nat /\ segs[i] \in Documents /\ DocsBounded(config, segs[i])
    OBVIOUS
  <2>1. PICK r \in runs : segs[i] = Restrict(docs, r)
    BY <1>7
  <2>2. DOMAIN Restrict(docs, r) = r /\ \A x \in r : Restrict(docs, r)[x] = docs[x]
    BY RestrictIs
  <2>3. DocsBounded(config, segs[i])
    BY <1>3, <1>8, <2>1, <2>2 DEF DocsBounded
  <2>4. i \in Nat /\ segs[i] \in Documents
    BY <1>7, SegmentMembers
  <2> QED BY <2>3, <2>4
<1>11. IsFiniteSet(DOMAIN segs)
  BY <1>5, <1>6, <1>7, FS_Interval
<1>12. id \in Nat
  BY <1>5, <1>6
<1>13. \A p \in names : p \in Name /\ p \notin DOMAIN segFiles /\ p[1] \in DOMAIN segs
  BY <1>1, <1>10, FreshNames
<1>14. IsFiniteSet(names)
  <2> DEFINE g == [i \in DOMAIN segs |-> SegmentName(i, current.gen + 1)]
  <2>1. g \in Surjection(DOMAIN segs, names)
    BY DEF Surjection
  <2> QED BY <1>11, <2>1, FS_Surjection
<1> HIDE DEF id, names
<1>15. wal \in Name
  BY <1>1, <1>12, FreshNames
<1>16. SegFilesOK(config, files) /\ DOMAIN files = names /\ names \cap DOMAIN segFiles = {}
  <2>1. files \in [names -> Documents] /\ names \in SUBSET Name /\ DOMAIN files = names
    BY <1>10, <1>13
  <2>2. \A p \in names : files[p] = segs[p[1]]
    OBVIOUS
  <2> HIDE DEF files
  <2>3. files \in Partial(Name, Documents)
    BY <2>1, PartialIs
  <2>4. SegFilesOK(config, files)
    BY <1>10, <1>13, <1>14, <2>1, <2>2, <2>3 DEF SegFilesOK
  <2> QED BY <1>13, <2>1, <2>4
<1>17. /\ IDMapFilesOK(config, plan.idmaps) /\ DOMAIN plan.idmaps \cap DOMAIN idmapFiles = {}
       /\ DeleteFilesOK(config, plan.deletes) /\ DOMAIN plan.deletes \cap DOMAIN deleteFiles = {}
       /\ WalFilesOK(config, plan.wals) /\ DOMAIN plan.wals \cap DOMAIN walFiles = {}
       /\ \A p \in DOMAIN plan.wals : plan.wals[p] = NewWal
       /\ IDMapNumber \in DOMAIN plan.idmaps /\ DeleteNumber \in DOMAIN plan.deletes
       /\ wal \in DOMAIN plan.wals
  <2> DEFINE S == {}
  <2>1. S \in SUBSET Nat /\ S \subseteq 0..config.maxDocID /\ plan.deletes = Entry(DeleteNumber, S)
    BY <1>2
  <2> HIDE DEF S
  <2> QED BY <1>1, <1>2, <1>9, <1>12, <2>1, CheckpointArtifacts
<1>18. current \in Manifests
  BY <1>1 DEF DiskOK, ManifestOK
<1> HIDE DEF files, start, wal, plan
<1>19. /\ plan.manifest \in Manifests /\ plan.manifest.schema = schema
       /\ plan.manifest.start = start /\ plan.manifest.idmap = IDMapNumber
       /\ plan.manifest.deletes = DeleteNumber /\ plan.manifest.wal = wal
       /\ plan.manifest.segs = names
  <2> DEFINE next == id + 1
  <2>1. next \in Nat /\ names \in SUBSET Name /\ schema \in Nat
    BY <1>12, <1>13
  <2>2. plan.manifest = [current EXCEPT !.schema = schema, !.segs = names, !.wal = wal,
                                    !.start = start, !.idmap = IDMapNumber,
                                    !.deletes = DeleteNumber, !.next = next]
    BY <1>2
  <2> HIDE DEF next
  <2> QED BY <1>4, <1>5, <1>15, <1>18, <2>1, <2>2 DEF Manifests
<1>20. PlanOK(plan)
  <2>1. plan.manifest.segs \subseteq DOMAIN plan.segs \cup DOMAIN segFiles
    BY <1>2, <1>16, <1>19
  <2>2. plan.syncs = TRUE /\ SegFilesOK(config, plan.segs) /\ DOMAIN plan.segs \cap DOMAIN segFiles = {}
    BY <1>2, <1>16
  <2> QED BY <1>4, <1>17, <1>19, <2>1, <2>2 DEF PlanOK
<1>21. MemOK(config, plan.mem)
  <2> DEFINE v == NewWriteSegment(id, start)
  <2>1. v \in WriteSegments /\ Contiguous(v) /\ NextDocumentID(v) = start /\ DocsBounded(config, v.docs)
    BY <1>4, <1>12, NewWriteSegmentIs
  <2>2. plan.mem = [segs |-> segs, writing |-> v, idmap |-> KeysOf(docs), deletes |-> {},
                    dirty |-> 0, reserved |-> mem.reserved]
    BY <1>2 DEF Manager
  <2> HIDE DEF v
  <2> QED BY <1>4, <1>7, <1>9, <1>10, <2>1, <2>2 DEF MemOK, Managers, Bounded
<1> QED BY <1>20, <1>21 DEF plan

-----------------------------------------------------------------------------
(* What steps leave alone.                                                 *)

\* The runs of a set of documents, as a function of the capacity.
RunsIn(cap, ids) ==
  {LET first(e) == Min({s \in ids : s <= e /\ s..e \subseteq ids})
       start == first(d)
   IN  {e \in ids : first(e) = start /\ (e - start) \div cap = (d - start) \div cap} : d \in ids}

LEMMA OutputRunsAre ==
  OutputRuns = RunsIn(Capacity, DOMAIN Merged(Range(comp.inputs)) \ comp.captured)
BY DEF OutputRuns, DocumentRuns, RunOf, RunsIn, InputDocuments

LEMMA OutputRunsNext ==
  OutputRuns' = RunsIn(Capacity', DOMAIN Merged(Range(comp'.inputs)) \ comp'.captured)
BY DEF OutputRuns, DocumentRuns, RunOf, RunsIn, InputDocuments

LEMMA CompKept ==
  ASSUME CompOK, config' = config, comp' = comp,
         comp.phase = "writing" =>
           comp.outputs \subseteq DOMAIN segFiles' /\ comp.outputs \cap current'.segs = {}
  PROVE  CompOK'
<1>1. Capacity' = Capacity
  BY DEF Capacity
<1>2. OutputRuns' = OutputRuns
  BY <1>1, OutputRunsAre, OutputRunsNext
<1>3. \A f : DocsBounded(config, f)' <=> DocsBounded(config, f)
  BY DEF DocsBounded
<1>4. \A id \in DOMAIN comp'.inputs : DocsBounded(config', comp'.inputs[id])
  BY DEF CompOK
<1>5. ASSUME comp.phase = "writing"
      PROVE  /\ comp'.runs = OutputRuns'
             /\ comp'.outputs \subseteq DOMAIN segFiles' /\ IsFiniteSet(comp'.outputs)
             /\ {p[1] : p \in comp'.outputs} = comp'.first..(comp'.first + Cardinality(comp'.outputs) - 1)
             /\ Cardinality(comp'.outputs) <= Cardinality(comp'.runs)
             /\ comp'.outputs \cap current'.segs = {}
  BY <1>2, <1>5 DEF CompOK
<1>6. comp' \in Compactions /\ (comp'.phase = "begun" => comp'.outputs = {})
  BY DEF CompOK
<1> QED BY <1>4, <1>5, <1>6 DEF CompOK

LEMMA CompIdle ==
  ASSUME comp' \in Compactions, \A id \in DOMAIN comp'.inputs : DocsBounded(config', comp'.inputs[id]),
         comp'.phase # "writing", comp'.phase = "begun" => comp'.outputs = {}
  PROVE  CompOK'
BY DEF CompOK

LEMMA NoCompIs == NoComp \in Compactions /\ NoComp.phase = "none" /\ DOMAIN NoComp.inputs = {}
<1>1. EmptyMap \in SegmentMaps /\ DOMAIN EmptyMap = {}
  BY EmptyMapIs DEF SegmentMaps
<1> QED BY <1>1 DEF NoComp, Compactions

LEMMA NoIterIs == NoIter \in Iterators /\ ~NoIter.active /\ \A c : MapBounded(c, NoIter.map)
<1>1. EmptyMap \in KeyMaps /\ DOMAIN EmptyMap = {}
  BY EmptyMapIs DEF KeyMaps
<1> QED BY <1>1 DEF NoIter, Iterators, MapBounded

LEMMA NoManagerIs ==
  ASSUME NEW c, c.maxDocID \in Nat
  PROVE  MemOK(c, NoManager)
<1> DEFINE w == NewWriteSegment(0, 0)
<1>1. EmptyMap \in KeyMaps /\ EmptyMap \in SegmentMaps /\ DOMAIN EmptyMap = {}
  BY EmptyMapIs DEF KeyMaps, SegmentMaps
<1>2. w \in WriteSegments /\ Contiguous(w) /\ NextDocumentID(w) = 0 /\ DocsBounded(c, w.docs)
  BY NewWriteSegmentIs
<1>3. NoManager = [segs |-> EmptyMap, writing |-> w, idmap |-> EmptyMap, deletes |-> {},
                   dirty |-> 0, reserved |-> 0]
  BY DEF NoManager, Manager
<1> HIDE DEF w
<1> QED BY <1>1, <1>2, <1>3 DEF MemOK, Managers, Bounded, MapBounded

\* The disk does not change.
LEMMA DiskKept ==
  ASSUME TypeInv, config' = config, UNCHANGED diskVars
  PROVE  DiskOK' /\ FilesKept /\ (FilesPresent(current) <=> FilesPresent(current)')
<1>1. /\ current' = current /\ stable' = stable /\ lastGen' = lastGen /\ segFiles' = segFiles
      /\ idmapFiles' = idmapFiles /\ deleteFiles' = deleteFiles /\ walFiles' = walFiles
  BY DEF diskVars
<1>2. DiskOK'
  BY <1>1 DEF TypeInv, DiskOK, SettledLog
<1>3. FilesKept /\ (FilesPresent(current) <=> FilesPresent(current)')
  BY <1>1 DEF FilesKept, FilesPresent
<1> QED BY <1>2, <1>3

\* The counter of records that are not synchronized does not matter.
LEMMA DirtyOK ==
  ASSUME NEW c, NEW s, MemOK(c, s), NEW x \in Nat
  PROVE  MemOK(c, [s EXCEPT !.dirty = x])
<1> DEFINE t == [s EXCEPT !.dirty = x]
<1>1. s \in Managers /\ Bounded(c, s)
  BY DEF MemOK
<1>2. /\ t \in Managers /\ t.segs = s.segs /\ t.writing = s.writing /\ t.idmap = s.idmap
      /\ t.deletes = s.deletes
  BY <1>1 DEF Managers
<1> HIDE DEF t
<1>3. Bounded(c, t)
  BY <1>1, <1>2 DEF Bounded
<1> QED BY <1>2, <1>3 DEF MemOK, t

-----------------------------------------------------------------------------
(* Writes.                                                                 *)

\* A record is appended to the log.
LEMMA LoggedOK ==
  ASSUME TypeInv, NEW op \in Ops, OpBounded(config, op), NEW synced \in BOOLEAN, Logged(op, synced),
         UNCHANGED <<config, current, stable, lastGen, segFiles, idmapFiles, deleteFiles>>
  PROVE  DiskOK' /\ FilesKept /\ (FilesPresent(current) => FilesPresent(current)')
<1>1. DiskOK /\ WalFilesOK(config, walFiles) /\ current.wal \in DOMAIN walFiles
  BY DEF TypeInv, DiskOK
<1> DEFINE l == walFiles[current.wal]
           k == [recs |-> Append(l.recs, op), synced |-> IF synced THEN Len(l.recs) + 1 ELSE l.synced]
<1>2. l \in Logs /\ LogBounded(config, l)
  BY <1>1, PartialIs DEF WalFilesOK
<1> HIDE DEF l
<1>3. k \in Logs /\ LogBounded(config, k)
  <2>1. l.recs \in Seq(Ops) /\ l.synced \in Nat /\ Len(l.recs) \in Nat
    BY <1>2 DEF Logs
  <2>2. /\ Append(l.recs, op) \in Seq(Ops) /\ Len(Append(l.recs, op)) = Len(l.recs) + 1
        /\ \A i \in 1..Len(l.recs) : Append(l.recs, op)[i] = l.recs[i]
        /\ Append(l.recs, op)[Len(l.recs) + 1] = op
    BY <2>1
  <2>3. DOMAIN l.recs = 1..Len(l.recs) /\ DOMAIN Append(l.recs, op) = 1..(Len(l.recs) + 1)
    BY <2>1, <2>2
  <2>4. k \in Logs /\ k.recs = Append(l.recs, op) /\ k.synced = IF synced THEN Len(l.recs) + 1 ELSE l.synced
    BY <2>1, <2>2 DEF Logs
  <2>5. \A i \in DOMAIN l.recs : OpBounded(config, l.recs[i])
    BY <1>2 DEF LogBounded
  <2>6. \A i \in DOMAIN Append(l.recs, op) : OpBounded(config, Append(l.recs, op)[i])
    BY <2>1, <2>2, <2>3, <2>5
  <2>7. l.synced <= Len(l.recs)
    BY <1>2 DEF LogBounded
  <2>8. k.synced <= Len(Append(l.recs, op))
    BY <2>1, <2>2, <2>4, <2>7
  <2> HIDE DEF k
  <2> QED BY <2>4, <2>6, <2>8 DEF LogBounded
<1>4. walFiles' = [walFiles EXCEPT ![current.wal] = k]
  BY DEF Logged, l
<1> HIDE DEF k
<1>5. /\ WalFilesOK(config, walFiles') /\ DOMAIN walFiles' = DOMAIN walFiles
      /\ \A q \in DOMAIN walFiles : q # current.wal => walFiles'[q] = walFiles[q]
  BY <1>1, <1>3, <1>4, FilesExcept
<1>6. DiskOK'
  BY <1>1, <1>5 DEF DiskOK, SettledLog
<1>7. FilesKept
  BY <1>5 DEF FilesKept
<1>8. FilesPresent(current) => FilesPresent(current)'
  BY <1>5 DEF FilesPresent
<1> QED BY <1>6, <1>7, <1>8

LEMMA LogAndApplyOK ==
  ASSUME TypeInv, open, NEW op \in Ops, OpBounded(config, op), Placed(mem, op), LogAndApply(op)
  PROVE  TypeInv' /\ FilesKept
<1> DEFINE a == Applied(mem, op)
<1>1. /\ config \in Configs /\ config.maxDocID \in Nat /\ MemOK(config, mem) /\ mem \in Managers
      /\ Bounded(config, mem) /\ mem.dirty \in Nat /\ mem.idmap \in KeyMaps /\ MapBounded(config, mem.idmap)
  BY ConfigIs, ManagerFields DEF TypeInv, DiskOK, MemOK
<1>2. /\ a \in Managers /\ Effect(mem, a, op) /\ a.dirty = mem.dirty
  BY <1>1, AppliedManager
<1>3. Bounded(config, a)
  BY <1>1, <1>2, ManagerFields, EffectBounded
<1>4. BatchFull \in BOOLEAN
  BY DEF BatchFull
<1> HIDE DEF a
<1> DEFINE half == [a EXCEPT !.idmap = mem.idmap]
<1>5. MemOK(config, a)
  BY <1>2, <1>3 DEF MemOK
<1>6. MemOK(config, half) /\ half.dirty = mem.dirty
  <2>1. /\ half \in Managers /\ half.segs = a.segs /\ half.writing = a.writing /\ half.idmap = mem.idmap
        /\ half.deletes = a.deletes /\ half.dirty = a.dirty
    BY <1>1, <1>2 DEF Managers
  <2> HIDE DEF half
  <2>2. Bounded(config, half)
    BY <1>1, <1>3, <2>1 DEF Bounded
  <2> QED BY <1>2, <2>1, <2>2 DEF MemOK
<1>7. /\ \E synced \in BOOLEAN : Logged(op, synced)
      /\ \E x \in Nat : mem' = [a EXCEPT !.dirty = x] \/ mem' = [half EXCEPT !.dirty = x]
      /\ poison' \subseteq poison \cup {"wal", "engine"}
  <2>1. CASE WriteSucceeds(op)
    <3> DEFINE x == IF BatchFull THEN 0 ELSE a.dirty + 1
    <3>1. x \in Nat /\ mem' = [a EXCEPT !.dirty = x]
      BY <1>1, <1>2, <2>1 DEF WriteSucceeds, a
    <3>2. Logged(op, BatchFull) /\ poison' = poison
      BY <2>1 DEF WriteSucceeds
    <3> QED BY <1>4, <3>1, <3>2
  <2>2. CASE WriteSyncFails(op)
    <3> DEFINE x == a.dirty + 1
    <3>1. x \in Nat /\ mem' = [a EXCEPT !.dirty = x]
      BY <1>1, <1>2, <2>2 DEF WriteSyncFails, a
    <3>2. Logged(op, FALSE) /\ poison' \subseteq poison \cup {"wal", "engine"}
      BY <2>2 DEF WriteSyncFails
    <3> QED BY <3>1, <3>2
  <2>3. CASE WriteApplyFails(op)
    <3>1. PICK failed \in {FALSE, BatchFull} :
            /\ Logged(op, BatchFull /\ ~failed)
            /\ mem' = [a EXCEPT !.idmap = mem.idmap, !.dirty = IF BatchFull /\ ~failed THEN 0 ELSE @ + 1]
            /\ poison' = poison \cup {"engine"} \cup (IF failed THEN {"wal"} ELSE {})
      BY <2>3 DEF WriteApplyFails, a
    <3> DEFINE x == IF BatchFull /\ ~failed THEN 0 ELSE a.dirty + 1
    <3>2. x \in Nat /\ mem' = [half EXCEPT !.dirty = x]
      BY <1>1, <1>2, <3>1 DEF Managers
    <3>3. (BatchFull /\ ~failed) \in BOOLEAN
      OBVIOUS
    <3>4. poison' \subseteq poison \cup {"wal", "engine"}
      BY <3>1
    <3> QED BY <3>1, <3>2, <3>3, <3>4
  <2> QED BY <2>1, <2>2, <2>3 DEF LogAndApply
<1>8. UNCHANGED <<config, current, stable, lastGen, segFiles, idmapFiles, deleteFiles, open, comp, iter, aborts>>
  BY DEF LogAndApply
<1>9. DiskOK' /\ FilesKept /\ (FilesPresent(current) => FilesPresent(current)')
  BY <1>7, <1>8, LoggedOK
<1> HIDE DEF half
<1>10. MemOK(config', mem')
  BY <1>5, <1>6, <1>7, <1>8, DirtyOK
<1>11. CompOK'
  <2>1. CompOK
    BY DEF TypeInv
  <2> QED BY <1>8, <2>1, CompKept DEF CompOK
<1>12. IterOK' /\ HandleOK'
  BY <1>7, <1>8, <1>9 DEF TypeInv, IterOK, HandleOK, MapBounded
<1> QED BY <1>9, <1>10, <1>11, <1>12 DEF TypeInv

\* The operations that Insert, Upsert, Update and Delete log.
LEMMA WritesOK ==
  ASSUME TypeInv, NEW k \in config.keys, Insert(k) \/ Upsert(k) \/ Update(k) \/ Delete(k)
  PROVE  TypeInv' /\ FilesKept
<1>1. /\ config \in Configs /\ k \in Keys /\ MemOK(config, mem) /\ config.maxDocID \in Nat
      /\ MaxDocID = config.maxDocID /\ current.schema \in 1..config.maxSchema /\ current.schema \in Nat
  BY ConfigIs DEF TypeInv, DiskOK, ManifestOK, Manifests
<1>2. open
  BY DEF Insert, Upsert, Update, Delete, Writable
<1> DEFINE d == NextDocumentID(mem.writing)
<1>3. \A type \in {"insert", "upsert", "update", "delete"}, doc \in Nat :
        doc <= config.maxDocID => Operation(type, k, doc) \in Ops /\ OpBounded(config, Operation(type, k, doc))
  BY <1>1 DEF Operation, Ops, OpBounded
<1>4. \A type \in {"insert", "upsert", "update"} : Placed(mem, Operation(type, k, d))
  BY DEF Operation, Placed
<1>5. \A doc : Placed(mem, Operation("delete", k, doc))
  BY DEF Operation, Placed
<1>6. d \in Nat
  BY <1>1, ManagerFields
<1> HIDE DEF d
<1>7. ASSUME NEW type \in {"insert", "upsert", "update"}, HasRoom, LogAndApply(Operation(type, k, d))
      PROVE  TypeInv' /\ FilesKept
  <2>1. d <= config.maxDocID
    BY <1>1, <1>7 DEF HasRoom, d
  <2> QED BY <1>2, <1>3, <1>4, <1>6, <1>7, <2>1, LogAndApplyOK
<1>8. CASE Insert(k)
  BY <1>7, <1>8 DEF Insert, d
<1>9. CASE Upsert(k)
  BY <1>7, <1>9 DEF Upsert, d
<1>10. CASE Update(k)
  BY <1>7, <1>10 DEF Update, d
<1>11. CASE Delete(k)
  <2>1. k \in DOMAIN mem.idmap /\ LogAndApply(Operation("delete", k, mem.idmap[k]))
    BY <1>11 DEF Delete
  <2>2. mem.idmap[k] \in Nat /\ mem.idmap[k] <= config.maxDocID
    BY <1>1, <2>1, ManagerFields DEF MapBounded
  <2> QED BY <1>2, <1>3, <1>5, <2>1, <2>2, LogAndApplyOK
<1> QED BY <1>8, <1>9, <1>10, <1>11

LEMMA WalFailsOK ==
  ASSUME TypeInv, WalFails
  PROVE  TypeInv' /\ FilesKept
<1>1. /\ UNCHANGED <<config, diskVars, open, mem, comp, iter, aborts>> /\ poison' = poison \cup {"wal"}
  BY DEF WalFails
<1>2. DiskOK' /\ FilesKept /\ (FilesPresent(current) <=> FilesPresent(current)')
  BY <1>1, DiskKept
<1>3. CompOK'
  BY <1>1, CompKept DEF TypeInv, CompOK, diskVars
<1>4. MemOK(config', mem') /\ IterOK' /\ HandleOK'
  BY <1>1, <1>2 DEF TypeInv, IterOK, HandleOK, MapBounded
<1> QED BY <1>2, <1>3, <1>4 DEF TypeInv

-----------------------------------------------------------------------------
(* Flush, schema rewrite, metadata.                                        *)

\* A publication that keeps a compaction's outputs apart from its segments.
LEMMA PublishedOK ==
  ASSUME TypeInv, open, NEW plan, PlanOK(plan), Committed(plan) \/ Abandoned(plan),
         Committed(plan) => \/ plan.manifest.segs \subseteq current.segs \cup DOMAIN plan.segs
                            \/ comp.phase # "writing",
         UNCHANGED <<config, open, comp, iter>>, MemOK(config, mem'),
         poison' \subseteq {"wal", "engine", "store"}
  PROVE  TypeInv' /\ FilesKept
<1>1. DiskOK /\ CompOK /\ IterOK /\ HandleOK /\ FilesPresent(current)
  BY DEF TypeInv, HandleOK
<1>2. config.maxAborts \in Nat /\ MaxAborts = config.maxAborts
  BY <1>1, ConfigIs DEF DiskOK
<1>3. /\ DiskOK' /\ FilesKept /\ FilesPresent(current)' /\ DOMAIN segFiles \subseteq DOMAIN segFiles'
      /\ aborts' = aborts \/ (aborts' = aborts + 1 /\ aborts < config.maxAborts)
      /\ (Committed(plan) /\ current'.segs = plan.manifest.segs) \/ current'.segs = current.segs
  <2>1. CASE Committed(plan)
    <3>1. /\ DiskOK' /\ FilesKept /\ FilesPresent(current)' /\ DOMAIN segFiles \subseteq DOMAIN segFiles'
          /\ current' = [plan.manifest EXCEPT !.gen = lastGen + 1]
      BY <1>1, <2>1, CommittedOK
    <3>2. aborts' = aborts
      BY <2>1 DEF Committed
    <3>3. plan.manifest \in Manifests
      BY DEF PlanOK
    <3>4. current'.segs = plan.manifest.segs
      BY <3>1, <3>3 DEF Manifests
    <3> QED BY <2>1, <3>1, <3>2, <3>4
  <2>2. CASE Abandoned(plan)
    BY <1>1, <1>2, <2>2, AbandonedOK
  <2> QED BY <2>1, <2>2
<1>4. DOMAIN plan.segs \cap DOMAIN segFiles = {}
  BY DEF PlanOK
<1>5. comp.phase = "writing" =>
           comp.outputs \subseteq DOMAIN segFiles' /\ comp.outputs \cap current'.segs = {}
  BY <1>1, <1>3, <1>4 DEF CompOK
<1>6. CompOK'
  BY <1>1, <1>5, CompKept
<1>7. IterOK'
  BY <1>1 DEF IterOK, MapBounded
<1>8. HandleOK'
  BY <1>1, <1>2, <1>3 DEF HandleOK
<1> QED BY <1>3, <1>6, <1>7, <1>8 DEF TypeInv

LEMMA FlushOK ==
  ASSUME TypeInv, Flush
  PROVE  TypeInv' /\ FilesKept
<1>1. open /\ FilesPresent(current) /\ MemOK(config, mem) /\ poison \subseteq {"wal", "engine", "store"}
  BY DEF Flush, Writable, TypeInv, HandleOK
<1>2. /\ PlanOK(FlushPlan) /\ MemOK(config, FlushPlan.mem)
      /\ FlushPlan.manifest.segs \subseteq current.segs \cup DOMAIN FlushPlan.segs
  BY <1>1, FlushPlanOK
<1>3. MemOK(config, [mem EXCEPT !.dirty = 0])
  BY <1>1, DirtyOK
<1>4. /\ Committed(FlushPlan) \/ Abandoned(FlushPlan)
      /\ mem' \in {FlushPlan.mem, mem, [mem EXCEPT !.dirty = 0]}
      /\ poison' \subseteq poison \cup {"store"}
      /\ UNCHANGED <<config, open, comp, iter>>
  BY DEF Flush
<1>5. MemOK(config, mem') /\ poison' \subseteq {"wal", "engine", "store"}
  BY <1>1, <1>2, <1>3, <1>4
<1> QED BY <1>1, <1>2, <1>4, <1>5, PublishedOK

LEMMA RewriteDocumentsOK ==
  ASSUME TypeInv, RewriteDocuments
  PROVE  TypeInv' /\ FilesKept
<1> DEFINE plan == RewritePlan(current.schema + 1)
<1>1. open /\ MemOK(config, mem) /\ poison \subseteq {"wal", "engine", "store"} /\ comp.phase # "writing"
  BY DEF RewriteDocuments, Writable, TypeInv, HandleOK
<1>2. current.schema + 1 \in 1..config.maxSchema
  <2>1. current.schema \in 1..config.maxSchema /\ config.maxSchema \in Nat /\ MaxSchema = config.maxSchema
    BY ConfigIs DEF TypeInv, DiskOK, ManifestOK
  <2> QED BY <2>1 DEF RewriteDocuments
<1>3. PlanOK(plan) /\ MemOK(config, plan.mem)
  BY <1>2, RewritePlanOK
<1>4. MemOK(config, [mem EXCEPT !.dirty = 0])
  BY <1>1, DirtyOK
<1>5. /\ Committed(plan) \/ Abandoned(plan)
      /\ mem' \in {plan.mem, [mem EXCEPT !.dirty = 0]}
      /\ UNCHANGED <<config, open, poison, comp, iter>>
  BY DEF RewriteDocuments
<1> HIDE DEF plan
<1>6. MemOK(config, mem') /\ poison' \subseteq {"wal", "engine", "store"}
  BY <1>1, <1>3, <1>4, <1>5
<1> QED BY <1>1, <1>3, <1>5, <1>6, PublishedOK

LEMMA PublishMetadataOK ==
  ASSUME TypeInv, PublishMetadata
  PROVE  TypeInv' /\ FilesKept
<1> DEFINE plan == [manifest |-> current, segs |-> EmptyMap, idmaps |-> EmptyMap,
                    deletes |-> EmptyMap, wals |-> EmptyMap, syncs |-> FALSE]
<1>1. /\ open /\ MemOK(config, mem) /\ poison \subseteq {"wal", "engine", "store"} /\ comp.phase # "writing"
      /\ FilesPresent(current) /\ DiskOK
  BY DEF PublishMetadata, Writable, TypeInv, HandleOK
<1>2. /\ Committed(plan) \/ Abandoned(plan)
      /\ UNCHANGED <<config, open, poison, mem, comp, iter>>
  BY DEF PublishMetadata
<1>3. /\ plan.manifest = current /\ plan.segs = EmptyMap /\ plan.idmaps = EmptyMap
      /\ plan.deletes = EmptyMap /\ plan.wals = EmptyMap /\ plan.syncs = FALSE
  OBVIOUS
<1> HIDE DEF plan
<1>4. ManifestOK(config, current, lastGen)
  BY <1>1 DEF DiskOK
<1>5. DOMAIN EmptyMap = {}
  BY EmptyMapIs
<1>6. PlanOK(plan)
  BY <1>1, <1>3, <1>4, <1>5, FilesEmpty DEF PlanOK, ManifestOK, FilesPresent
<1> QED BY <1>1, <1>2, <1>6, PublishedOK

-----------------------------------------------------------------------------
(* Compaction.                                                             *)

LEMMA BeginCompactionOK ==
  ASSUME TypeInv, BeginCompaction
  PROVE  TypeInv' /\ FilesKept
<1>1. /\ UNCHANGED <<config, diskVars, open, poison, mem, iter, aborts>>
      /\ open /\ aborts <= MaxAborts
      /\ comp' = [NoComp EXCEPT !.phase = "begun", !.gen = current.gen, !.schema = current.schema,
                                !.inputs = mem.segs, !.captured = mem.deletes]
  BY DEF BeginCompaction, Writable
<1>2. DiskOK' /\ FilesKept /\ (FilesPresent(current) <=> FilesPresent(current)')
  BY <1>1, DiskKept
<1>3. /\ current.gen \in Nat /\ current.schema \in Nat /\ mem.segs \in SegmentMaps /\ mem.deletes \in SUBSET Nat
      /\ \A id \in DOMAIN mem.segs : DocsBounded(config, mem.segs[id])
      /\ MaxAborts = config.maxAborts /\ aborts \in 0..(config.maxAborts + 1) /\ config.maxAborts \in Nat
  BY ManagerFields, ConfigIs DEF TypeInv, DiskOK, ManifestOK, Manifests, MemOK, Bounded, HandleOK
<1>4. comp' \in Compactions /\ comp'.phase = "begun" /\ comp'.inputs = mem.segs /\ comp'.outputs = {}
  <2>1. NoComp.outputs = {}
    BY DEF NoComp
  <2> QED BY <1>1, <1>3, <2>1, NoCompIs DEF Compactions
<1>5. CompOK'
  BY <1>1, <1>3, <1>4, CompIdle
<1>6. HandleOK'
  BY <1>1, <1>2, <1>3 DEF TypeInv, HandleOK
<1>7. MemOK(config', mem') /\ IterOK'
  BY <1>1 DEF TypeInv, IterOK, MapBounded
<1> QED BY <1>2, <1>5, <1>6, <1>7 DEF TypeInv

\* What a compaction reads and how it is cut.
LEMMA InputsAre ==
  ASSUME TypeInv
  PROVE  /\ InputDocuments \in Documents /\ DocsBounded(config, InputDocuments)
         /\ DOMAIN InputDocuments \ comp.captured \in SUBSET DOMAIN InputDocuments
         /\ IsFiniteSet(DOMAIN InputDocuments \ comp.captured)
         /\ DOMAIN InputDocuments \in SUBSET Nat
         /\ IsFiniteSet(OutputRuns) /\ Cardinality(OutputRuns) \in Nat
         /\ OutputRuns \in SUBSET (SUBSET Nat)
<1> DEFINE fs == Range(comp.inputs)
           ids == DOMAIN InputDocuments \ comp.captured
<1>1. config.maxDocID \in Nat
  BY ConfigIs DEF TypeInv, DiskOK
<1>2. comp.inputs \in SegmentMaps /\ \A id \in DOMAIN comp.inputs : DocsBounded(config, comp.inputs[id])
  BY DEF TypeInv, CompOK, Compactions
<1>3. fs \in SUBSET Documents /\ \A f \in fs : DocsBounded(config, f)
  BY <1>2, SegmentMembers
<1> HIDE DEF fs
<1>4. InputDocuments = Merged(fs)
  BY DEF InputDocuments, fs
<1>5. /\ InputDocuments \in Documents /\ DocsBounded(config, InputDocuments)
      /\ IsFiniteSet(DOMAIN InputDocuments) /\ DOMAIN InputDocuments \in SUBSET Nat
  BY <1>1, <1>3, <1>4, MergedBounded
<1>6. ids \in SUBSET DOMAIN InputDocuments /\ ids \in SUBSET Nat
  BY <1>5
<1>7. IsFiniteSet(ids)
  BY <1>5, <1>6, FS_Subset
<1>8. OutputRuns = DocumentRuns(ids)
  BY DEF OutputRuns
<1> HIDE DEF ids
<1>9. IsFiniteSet(OutputRuns) /\ Cardinality(OutputRuns) \in Nat
  <2>1. 0 \in Nat
    OBVIOUS
  <2> QED BY <1>6, <1>7, <1>8, <2>1, RunsNumbered
<1>10. OutputRuns \in SUBSET (SUBSET Nat)
  BY <1>6, <1>8, RunsPartition
<1> QED BY <1>5, <1>6, <1>7, <1>9, <1>10 DEF ids

LEMMA PrepareReserveOK ==
  ASSUME TypeInv, PrepareReserve
  PROVE  TypeInv' /\ FilesKept
<1>1. UNCHANGED <<config, diskVars, open, poison, iter, aborts>> /\ comp.phase = "begun"
  BY DEF PrepareReserve
<1>2. DiskOK' /\ FilesKept /\ (FilesPresent(current) <=> FilesPresent(current)')
  BY <1>1, DiskKept
<1>3. comp \in Compactions /\ \A id \in DOMAIN comp.inputs : DocsBounded(config, comp.inputs[id])
  BY DEF TypeInv, CompOK
<1>4. IterOK'
  BY <1>1 DEF TypeInv, IterOK, MapBounded
<1>5. CASE comp' = [comp EXCEPT !.phase = "unchanged"] /\ UNCHANGED mem
  <2>1. comp' \in Compactions /\ comp'.phase = "unchanged" /\ comp'.inputs = comp.inputs
    BY <1>3, <1>5 DEF Compactions
  <2>2. CompOK'
    BY <1>1, <1>3, <2>1, CompIdle
  <2>3. MemOK(config', mem') /\ HandleOK'
    BY <1>1, <1>2, <1>5, <2>1 DEF TypeInv, HandleOK
  <2> QED BY <1>2, <1>4, <2>2, <2>3 DEF TypeInv
<1>6. CASE /\ comp' = [comp EXCEPT !.phase = "writing", !.purged = Purged,
                                   !.runs = OutputRuns, !.first = NextSegmentID]
           /\ mem' = [mem EXCEPT !.reserved = NextSegmentID + Cardinality(OutputRuns)]
  <2>1. NextSegmentID \in Nat
    BY FreshNames DEF TypeInv
  <2>2. Cardinality(OutputRuns) \in Nat /\ OutputRuns \in SUBSET (SUBSET Nat)
    BY InputsAre
  <2>3. Purged \in SUBSET Nat
    BY InputsAre DEF Purged
  <2>4. /\ comp' \in Compactions /\ comp'.phase = "writing" /\ comp'.inputs = comp.inputs
        /\ comp'.captured = comp.captured /\ comp'.runs = OutputRuns /\ comp'.outputs = comp.outputs
        /\ comp'.first = NextSegmentID
    BY <1>3, <1>6, <2>1, <2>2, <2>3 DEF Compactions
  <2>5. OutputRuns' = OutputRuns
    BY <1>1, <2>4, OutputRunsAre, OutputRunsNext DEF Capacity
  <2>6. comp.outputs = {}
    BY <1>1 DEF TypeInv, CompOK
  <2>7. CompOK'
    BY <1>1, <1>3, <2>1, <2>2, <2>4, <2>5, <2>6, FS_EmptySet DEF CompOK
  <2>8. MemOK(config', mem')
    <3> DEFINE x == NextSegmentID + Cardinality(OutputRuns)
    <3>1. x \in Nat /\ mem' = [mem EXCEPT !.reserved = x] /\ mem \in Managers /\ Bounded(config, mem)
      BY <1>6, <2>1, <2>2 DEF TypeInv, MemOK
    <3> HIDE DEF x
    <3>2. /\ mem' \in Managers /\ mem'.segs = mem.segs /\ mem'.writing = mem.writing
          /\ mem'.idmap = mem.idmap /\ mem'.deletes = mem.deletes
      BY <3>1 DEF Managers
    <3>3. Bounded(config, mem')
      BY <3>1, <3>2 DEF Bounded
    <3> QED BY <1>1, <3>2, <3>3 DEF MemOK
  <2>9. HandleOK'
    BY <1>1, <1>2, <2>4 DEF TypeInv, HandleOK
  <2> QED BY <1>2, <1>4, <2>7, <2>8, <2>9 DEF TypeInv
<1> QED BY <1>5, <1>6 DEF PrepareReserve

LEMMA OutputSegmentsAre ==
  ASSUME TypeInv, comp.phase = "writing"
  PROVE  /\ Cardinality(comp.runs) \in Nat /\ comp.first \in Nat
         /\ DOMAIN OutputSegments = comp.first..(comp.first + Cardinality(comp.runs) - 1)
         /\ \A id \in DOMAIN OutputSegments :
              OutputSegments[id] \in Documents /\ DocsBounded(config, OutputSegments[id])
<1> DEFINE ids == DOMAIN InputDocuments \ comp.captured
           runs == DocumentRuns(ids)
           segs == SegmentsOf(runs, InputDocuments, comp.first)
<1>1. comp.runs = OutputRuns /\ comp.first \in Nat
  BY DEF TypeInv, CompOK, Compactions
<1>2. /\ InputDocuments \in Documents /\ DocsBounded(config, InputDocuments)
      /\ ids \in SUBSET DOMAIN InputDocuments /\ IsFiniteSet(ids) /\ Cardinality(OutputRuns) \in Nat
  BY InputsAre
<1> HIDE DEF ids
<1>3. /\ DOMAIN segs = comp.first..(comp.first + Cardinality(runs) - 1) /\ segs \in SegmentMaps
      /\ \A id \in DOMAIN segs : \E r \in runs : segs[id] = Restrict(InputDocuments, r)
  BY <1>1, <1>2, SegmentsOfIs
<1>4. \A r \in runs : r \in SUBSET ids
  BY RunsPartition
<1>5. OutputSegments = segs /\ comp.runs = runs
  BY <1>1 DEF OutputSegments, OutputRuns, ids
<1> HIDE DEF runs, segs
<1>6. \A id \in DOMAIN segs : segs[id] \in Documents /\ DocsBounded(config, segs[id])
  <2> SUFFICES ASSUME NEW id \in DOMAIN segs PROVE segs[id] \in Documents /\ DocsBounded(config, segs[id])
    OBVIOUS
  <2>1. PICK r \in runs : segs[id] = Restrict(InputDocuments, r)
    BY <1>3
  <2>2. DOMAIN Restrict(InputDocuments, r) = r /\ \A x \in r : Restrict(InputDocuments, r)[x] = InputDocuments[x]
    BY RestrictIs
  <2>3. DocsBounded(config, segs[id])
    BY <1>2, <1>4, <2>1, <2>2 DEF DocsBounded
  <2> QED BY <1>3, <2>3, SegmentMembers
<1> QED BY <1>1, <1>2, <1>3, <1>5, <1>6

LEMMA PrepareOutputOK ==
  ASSUME TypeInv, PrepareOutput
  PROVE  TypeInv' /\ FilesKept
<1> DEFINE n    == Cardinality(comp.outputs)
           id   == comp.first + n
           name == SegmentName(id, comp.gen + 1)
           docs == OutputSegments[id]
<1>1. /\ UNCHANGED <<config, current, stable, lastGen, idmapFiles, deleteFiles, walFiles,
                     open, poison, mem, iter, aborts>>
      /\ comp.phase = "writing" /\ ~Prepared
      /\ segFiles' = Over(Entry(name, docs), segFiles)
      /\ comp' = [comp EXCEPT !.outputs = comp.outputs \cup {name}]
  BY DEF PrepareOutput
<1>2. /\ DiskOK /\ comp \in Compactions /\ comp.gen \in Nat /\ comp.runs = OutputRuns
      /\ comp.outputs \subseteq DOMAIN segFiles /\ IsFiniteSet(comp.outputs)
      /\ {p[1] : p \in comp.outputs} = comp.first..(comp.first + n - 1)
      /\ n <= Cardinality(comp.runs)
      /\ comp.outputs \cap current.segs = {}
      /\ open /\ FilesPresent(current) /\ SegFilesOK(config, segFiles)
      /\ \A i \in DOMAIN comp.inputs : DocsBounded(config, comp.inputs[i])
  BY <1>1 DEF TypeInv, CompOK, Compactions, HandleOK, DiskOK
<1>3. n \in Nat
  BY <1>2, FS_CardinalityType
<1>4. /\ Cardinality(comp.runs) \in Nat /\ comp.first \in Nat
      /\ DOMAIN OutputSegments = comp.first..(comp.first + Cardinality(comp.runs) - 1)
      /\ \A i \in DOMAIN OutputSegments : OutputSegments[i] \in Documents /\ DocsBounded(config, OutputSegments[i])
  BY <1>1, OutputSegmentsAre
<1>5. n < Cardinality(comp.runs)
  <2>1. n # Cardinality(comp.runs)
    BY <1>1, <1>2, <1>4 DEF Prepared
  <2> QED BY <1>2, <1>3, <1>4, <2>1
<1>6. id \in Nat /\ id \in DOMAIN OutputSegments
  BY <1>3, <1>4, <1>5
<1>7. docs \in Documents /\ DocsBounded(config, docs)
  BY <1>4, <1>6
<1>8. name \in Name /\ name \notin DOMAIN segFiles /\ name[1] = id
  <2>1. IsFiniteSet(DOMAIN segFiles) /\ comp.gen + 1 \in Nat
    BY <1>2 DEF SegFilesOK
  <2> QED BY <1>6, <2>1, FreeName DEF SegmentName
<1>9. id = comp.first + n
  OBVIOUS
<1> HIDE DEF n, id, name, docs
<1>10. /\ SegFilesOK(config, segFiles') /\ name \in DOMAIN segFiles' /\ DOMAIN segFiles \subseteq DOMAIN segFiles'
       /\ \A p \in DOMAIN segFiles : segFiles'[p] = segFiles[p]
  <2>1. SegFilesOK(config, Entry(name, docs))
    <3>1. 0 \in Nat
      OBVIOUS
    <3> QED BY <1>7, <1>8, <3>1, FilesEntry
  <2>2. SegFilesOK(config, segFiles')
    BY <1>1, <1>2, <2>1, FilesOver
  <2>3. name \in DOMAIN segFiles' /\ DOMAIN segFiles \subseteq DOMAIN segFiles'
    BY <1>1 DEF Over, Entry
  <2>4. \A p \in DOMAIN segFiles : segFiles'[p] = segFiles[p]
    BY <1>1, <1>8 DEF Over, Entry
  <2> QED BY <2>2, <2>3, <2>4
<1>11. DiskOK' /\ FilesKept /\ FilesPresent(current)'
  <2>1. DiskOK'
    BY <1>1, <1>2, <1>10 DEF DiskOK, SettledLog
  <2>2. FilesKept
    BY <1>1, <1>10 DEF FilesKept
  <2>3. FilesPresent(current)'
    BY <1>1, <1>2, <1>10 DEF FilesPresent
  <2> QED BY <2>1, <2>2, <2>3
<1> DEFINE outs == comp.outputs \cup {name}
<1>12. name \notin comp.outputs
  BY <1>2, <1>8
<1>13. IsFiniteSet(outs) /\ Cardinality(outs) = n + 1
  BY <1>2, <1>12, FS_AddElement DEF n
<1>14. {p[1] : p \in outs} = comp.first..(comp.first + Cardinality(outs) - 1)
  <2>1. {p[1] : p \in outs} = {p[1] : p \in comp.outputs} \cup {id}
    BY <1>8
  <2>2. comp.first..(comp.first + (n + 1) - 1) = (comp.first..(comp.first + n - 1)) \cup {comp.first + n}
    BY <1>3, <1>4
  <2> QED BY <1>2, <1>9, <1>13, <2>1, <2>2
<1>15. /\ outs \in SUBSET Name /\ outs \subseteq DOMAIN segFiles' /\ outs \cap current.segs = {}
       /\ Cardinality(outs) <= Cardinality(comp.runs)
  <2>1. comp.outputs \in SUBSET Name
    BY <1>2 DEF Compactions
  <2>2. name \notin current.segs
    BY <1>2, <1>8 DEF FilesPresent
  <2>3. Cardinality(outs) <= Cardinality(comp.runs)
    BY <1>3, <1>4, <1>5, <1>13
  <2> QED BY <1>2, <1>8, <1>10, <2>1, <2>2, <2>3
<1>16. comp' = [comp EXCEPT !.outputs = outs]
  BY <1>1
<1> HIDE DEF outs
<1>17. /\ comp' \in Compactions /\ comp'.phase = "writing" /\ comp'.inputs = comp.inputs
       /\ comp'.captured = comp.captured /\ comp'.runs = comp.runs /\ comp'.first = comp.first
       /\ comp'.outputs = outs
  BY <1>1, <1>2, <1>15, <1>16 DEF Compactions
<1>18. OutputRuns' = OutputRuns
  BY <1>1, <1>17, OutputRunsAre, OutputRunsNext DEF Capacity
<1>19. CompOK'
  BY <1>1, <1>2, <1>13, <1>14, <1>15, <1>17, <1>18 DEF CompOK
<1>20. HandleOK' /\ IterOK' /\ MemOK(config', mem')
  BY <1>1, <1>2, <1>11, <1>17 DEF TypeInv, HandleOK, IterOK, MapBounded
<1> QED BY <1>11, <1>19, <1>20 DEF TypeInv

LEMMA CommitPlanOK ==
  ASSUME TypeInv, Prepared, open
  PROVE  /\ PlanOK(CommitPlan) /\ MemOK(config, CommitPlan.mem)
         /\ \A synced \in BOOLEAN : PlanOK([CommitPlan EXCEPT !.syncs = synced])
<1> DEFINE plan   == CommitPlan
           ids    == {p[1] : p \in comp.outputs}
           opened == [id \in ids |-> segFiles[CHOOSE p \in comp.outputs : p[1] = id]]
           kept   == Without(mem.segs, DOMAIN comp.inputs)
           names  == {p \in current.segs : p[1] \notin DOMAIN comp.inputs} \cup comp.outputs
           number == IF comp.purged = {} THEN current.deletes ELSE DeleteNumber
           snaps  == IF comp.purged = {} THEN EmptyMap ELSE Entry(DeleteNumber, CheckpointDeletes)
<1>1. /\ DiskOK /\ MemOK(config, mem) /\ comp.phase = "writing" /\ FilesPresent(current)
      /\ comp.outputs \subseteq DOMAIN segFiles /\ comp.outputs \in SUBSET Name
  BY DEF TypeInv, CompOK, HandleOK, Prepared, Compactions
<1>2. /\ plan.manifest = [current EXCEPT !.segs = names, !.deletes = number, !.next = NextSegmentID]
      /\ plan.segs = EmptyMap /\ plan.idmaps = EmptyMap /\ plan.deletes = snaps
      /\ plan.wals = EmptyMap /\ plan.syncs = TRUE
      /\ plan.mem = [mem EXCEPT !.segs = Over(opened, kept), !.deletes = MemoryDeletes, !.dirty = 0]
  BY DEF CommitPlan
<1>3. /\ current \in Manifests /\ current.schema \in 1..config.maxSchema /\ current.start <= config.maxDocID + 1
      /\ SegFilesOK(config, segFiles)
  BY <1>1 DEF DiskOK, ManifestOK
<1>4. NextSegmentID \in Nat /\ DeleteNumber \in Nat /\ DeleteNumber \notin DOMAIN deleteFiles
  BY <1>1, FreshNames
<1>5. /\ DeleteFilesOK(config, snaps) /\ DOMAIN snaps \cap DOMAIN deleteFiles = {}
      /\ number \in Nat /\ number \in DOMAIN snaps \cup DOMAIN deleteFiles
  <2>1. CASE comp.purged = {}
    BY <1>1, <1>3, <2>1, FilesEmpty, EmptyMapIs DEF FilesPresent, Manifests
  <2>2. CASE comp.purged # {}
    <3>1. deleteFiles[current.deletes] \subseteq 0..config.maxDocID
      BY <1>1 DEF FilesPresent, DiskOK, DeleteFilesOK
    <3>2. CheckpointDeletes \in SUBSET Nat /\ CheckpointDeletes \subseteq 0..config.maxDocID
      BY <3>1 DEF CheckpointDeletes
    <3>3. DeleteFilesOK(config, Entry(DeleteNumber, CheckpointDeletes))
      <4>1. <<0, 0>> \in Name
        BY DEF Name
      <4> QED BY <1>4, <3>2, <4>1, FilesEntry
    <3>4. /\ DOMAIN Entry(DeleteNumber, CheckpointDeletes) \cap DOMAIN deleteFiles = {}
          /\ DeleteNumber \in DOMAIN Entry(DeleteNumber, CheckpointDeletes)
      BY <1>4 DEF Entry
    <3> QED BY <1>4, <2>2, <3>3, <3>4
  <2> QED BY <2>1, <2>2
<1>6. names \in SUBSET Name /\ names \subseteq DOMAIN segFiles
  BY <1>1, <1>3 DEF FilesPresent, Manifests
<1>7. /\ opened \in SegmentMaps /\ \A id \in DOMAIN opened : DocsBounded(config, opened[id])
  <2>1. \A id \in ids : /\ id \in Nat
                        /\ segFiles[CHOOSE p \in comp.outputs : p[1] = id] \in Documents
                        /\ DocsBounded(config, segFiles[CHOOSE p \in comp.outputs : p[1] = id])
    <3> SUFFICES ASSUME NEW id \in ids
                 PROVE  /\ id \in Nat
                        /\ segFiles[CHOOSE p \in comp.outputs : p[1] = id] \in Documents
                        /\ DocsBounded(config, segFiles[CHOOSE p \in comp.outputs : p[1] = id])
      OBVIOUS
    <3> DEFINE q == CHOOSE p \in comp.outputs : p[1] = id
    <3>1. q \in comp.outputs /\ q[1] = id
      OBVIOUS
    <3> HIDE DEF q
    <3>2. q \in DOMAIN segFiles /\ q \in Name
      BY <1>1, <3>1
    <3>3. segFiles[q] \in Documents /\ DocsBounded(config, segFiles[q])
      BY <1>3, <3>2, PartialIs DEF SegFilesOK
    <3>4. id \in Nat
      BY <3>1, <3>2 DEF Name
    <3> QED BY <3>3, <3>4 DEF q
  <2> HIDE DEF ids
  <2>2. opened \in [ids -> Documents] /\ DOMAIN opened = ids /\ ids \in SUBSET Nat
    BY <2>1
  <2>3. \A id \in DOMAIN opened : DocsBounded(config, opened[id])
    BY <2>1
  <2> HIDE DEF opened
  <2> QED BY <2>2, <2>3, PartialIs DEF SegmentMaps
<1>8. kept \in SegmentMaps /\ \A id \in DOMAIN kept : DocsBounded(config, kept[id])
  <2>1. mem.segs \in SegmentMaps /\ \A id \in DOMAIN mem.segs : DocsBounded(config, mem.segs[id])
    BY <1>1, ManagerFields DEF MemOK, Bounded
  <2> DEFINE S == DOMAIN mem.segs \ DOMAIN comp.inputs
  <2>2. kept = Restrict(mem.segs, S) /\ S \in SUBSET DOMAIN mem.segs
    BY DEF Without
  <2> HIDE DEF S
  <2>3. kept \in SegmentMaps
    BY <2>1, <2>2, RestrictType DEF SegmentMaps
  <2> QED BY <2>1, <2>2, <2>3, RestrictIs
<1>9. plan.manifest.segs = names /\ plan.manifest \in Manifests /\ plan.manifest.wal = current.wal
      /\ plan.manifest.deletes = number /\ plan.manifest.idmap = current.idmap
      /\ plan.manifest.schema = current.schema /\ plan.manifest.start = current.start
  <2>1. plan.manifest = [current EXCEPT !.segs = names, !.deletes = number, !.next = NextSegmentID]
    BY <1>2
  <2>2. names \in SUBSET Name /\ number \in Nat
    BY <1>5, <1>6
  <2> HIDE DEF names, number, plan
  <2> QED BY <1>3, <1>4, <2>1, <2>2 DEF Manifests
<1> DEFINE segs == Over(opened, kept)
<1> HIDE DEF opened, kept
<1>10. segs \in SegmentMaps /\ \A id \in DOMAIN segs : DocsBounded(config, segs[id])
  <2>1. segs \in SegmentMaps
    BY <1>7, <1>8, OverType DEF SegmentMaps
  <2> QED BY <1>7, <1>8, <2>1, OverMembers
<1> HIDE DEF segs
<1>11. MemOK(config, plan.mem)
  <2>1. plan.mem = [mem EXCEPT !.segs = segs, !.deletes = MemoryDeletes, !.dirty = 0]
    BY <1>2 DEF segs
  <2>2. MemoryDeletes \in SUBSET Nat /\ MemoryDeletes \subseteq 0..config.maxDocID
    BY <1>1, ManagerFields DEF MemoryDeletes
  <2>3. mem \in Managers /\ Bounded(config, mem)
    BY <1>1 DEF MemOK
  <2> DEFINE left == MemoryDeletes
             m    == plan.mem
  <2>4a. m = [mem EXCEPT !.segs = segs, !.deletes = left, !.dirty = 0] /\ left \in SUBSET Nat /\ segs \in SegmentMaps
    BY <1>10, <2>1, <2>2
  <2> HIDE DEF left, m
  <2>4b. /\ m \in Managers /\ m.segs = segs /\ m.writing = mem.writing
         /\ m.idmap = mem.idmap /\ m.deletes = left
    BY <2>3, <2>4a DEF Managers
  <2>4. /\ plan.mem \in Managers /\ plan.mem.segs = segs /\ plan.mem.writing = mem.writing
        /\ plan.mem.idmap = mem.idmap /\ plan.mem.deletes = MemoryDeletes
    BY <2>4b DEF left, m
  <2>5. Bounded(config, plan.mem)
    BY <1>10, <2>2, <2>3, <2>4 DEF Bounded
  <2> QED BY <2>4, <2>5 DEF MemOK
<1>12. ASSUME NEW p, NEW synced \in BOOLEAN, p.manifest = plan.manifest, p.segs = plan.segs,
              p.idmaps = plan.idmaps, p.deletes = plan.deletes, p.wals = plan.wals, p.syncs = synced
       PROVE  PlanOK(p)
  <2>1. DOMAIN EmptyMap = {} /\ current.wal \in DOMAIN walFiles /\ current.idmap \in DOMAIN idmapFiles
    BY <1>1, EmptyMapIs DEF FilesPresent
  <2> HIDE DEF names, number, snaps
  <2> QED BY <1>2, <1>3, <1>5, <1>6, <1>9, <1>12, <2>1, FilesEmpty DEF PlanOK
<1>13. PlanOK(plan)
  BY <1>2, <1>12
<1>14. \A synced \in BOOLEAN : PlanOK([plan EXCEPT !.syncs = synced])
  <2> SUFFICES ASSUME NEW synced \in BOOLEAN PROVE PlanOK([plan EXCEPT !.syncs = synced])
    OBVIOUS
  <2> DEFINE p == [plan EXCEPT !.syncs = synced]
  <2>1. /\ p.manifest = plan.manifest /\ p.segs = plan.segs /\ p.idmaps = plan.idmaps
        /\ p.deletes = plan.deletes /\ p.wals = plan.wals /\ p.syncs = synced
    BY DEF CommitPlan
  <2> HIDE DEF p, plan
  <2>2. PlanOK(p)
    BY <1>12, <2>1
  <2> QED BY <2>2 DEF p, plan
<1> QED BY <1>11, <1>13, <1>14 DEF plan

LEMMA CommitOK ==
  ASSUME TypeInv, Commit
  PROVE  TypeInv' /\ FilesKept
<1>1. /\ Prepared /\ open /\ UNCHANGED <<config, open, poison, iter>>
      /\ DiskOK /\ MemOK(config, mem) /\ IterOK /\ HandleOK /\ CompOK
  BY DEF Commit, Writable, TypeInv
<1>2. /\ PlanOK(CommitPlan) /\ MemOK(config, CommitPlan.mem)
      /\ \A synced \in BOOLEAN : PlanOK([CommitPlan EXCEPT !.syncs = synced])
  BY <1>1, CommitPlanOK
<1>3. CASE Committed(CommitPlan) /\ mem' = CommitPlan.mem /\ comp' = [comp EXCEPT !.phase = "committed"]
  <2>1. DiskOK' /\ FilesKept /\ FilesPresent(current)' /\ aborts' = aborts
    BY <1>1, <1>2, <1>3, CommittedOK DEF Committed
  <2>2. comp' \in Compactions /\ comp'.phase = "committed" /\ comp'.inputs = comp.inputs /\ comp.phase = "writing"
    BY <1>1, <1>3 DEF CompOK, Compactions, Prepared
  <2>3. CompOK'
    BY <1>1, <2>2, CompIdle DEF CompOK
  <2>4. IterOK' /\ HandleOK' /\ MemOK(config', mem')
    BY <1>1, <1>2, <1>3, <2>1, <2>2 DEF IterOK, HandleOK, MapBounded
  <2> QED BY <2>1, <2>3, <2>4 DEF TypeInv
<1>4. CASE /\ \E synced \in BOOLEAN : /\ Abandoned([CommitPlan EXCEPT !.syncs = synced])
                                      /\ mem' = IF synced THEN [mem EXCEPT !.dirty = 0] ELSE mem
           /\ UNCHANGED comp
  <2>1. PICK synced \in BOOLEAN : /\ Abandoned([CommitPlan EXCEPT !.syncs = synced])
                                  /\ mem' = IF synced THEN [mem EXCEPT !.dirty = 0] ELSE mem
    BY <1>4
  <2> DEFINE plan == [CommitPlan EXCEPT !.syncs = synced]
  <2>2. PlanOK(plan) /\ Abandoned(plan)
    BY <1>2, <2>1
  <2> HIDE DEF plan
  <2>3. MemOK(config, mem')
    BY <1>1, <2>1, DirtyOK
  <2>4. DiskOK' /\ FilesKept /\ FilesPresent(current)' /\ current' = current /\ DOMAIN segFiles \subseteq DOMAIN segFiles'
        /\ aborts < MaxAborts /\ aborts' = aborts + 1
    BY <1>1, <2>2, AbandonedOK DEF HandleOK
  <2>5. CompOK'
    BY <1>1, <1>4, <2>4, CompKept DEF CompOK
  <2>6. IterOK' /\ HandleOK'
    <3>1. config.maxAborts \in Nat /\ MaxAborts = config.maxAborts
      BY <1>1, ConfigIs DEF DiskOK
    <3> QED BY <1>1, <1>4, <2>4, <3>1 DEF IterOK, HandleOK, MapBounded
  <2> QED BY <1>1, <2>3, <2>4, <2>5, <2>6 DEF TypeInv
<1> QED BY <1>3, <1>4 DEF Commit

LEMMA CompactionCloseOK ==
  ASSUME TypeInv, CompactionClose
  PROVE  TypeInv' /\ FilesKept
<1>1. /\ UNCHANGED <<config, current, stable, lastGen, idmapFiles, deleteFiles, walFiles, open, poison, mem, iter>>
      /\ comp.phase # "none" /\ comp' = NoComp
      /\ IF comp.phase = "writing"
         THEN segFiles' \in {Without(segFiles, comp.outputs), segFiles} /\ aborts' = aborts + 1
         ELSE UNCHANGED <<segFiles, aborts>>
  BY DEF CompactionClose
<1>2. DiskOK /\ CompOK /\ HandleOK /\ open /\ FilesPresent(current) /\ SegFilesOK(config, segFiles)
  BY <1>1 DEF TypeInv, HandleOK, DiskOK
<1>3. /\ SegFilesOK(config, segFiles') /\ \A p \in DOMAIN segFiles' : p \in DOMAIN segFiles /\ segFiles'[p] = segFiles[p]
      /\ current.segs \subseteq DOMAIN segFiles'
  <2>1. CASE segFiles' = segFiles
    BY <1>2, <2>1 DEF FilesPresent
  <2>2. CASE comp.phase = "writing" /\ segFiles' = Without(segFiles, comp.outputs)
    <3> DEFINE S == DOMAIN segFiles \ comp.outputs
    <3>1. segFiles' = Restrict(segFiles, S) /\ S \in SUBSET DOMAIN segFiles
      BY <2>2 DEF Without
    <3>2. current.segs \subseteq S
      BY <1>2, <2>2 DEF CompOK, FilesPresent
    <3> HIDE DEF S
    <3>3. SegFilesOK(config, segFiles')
      BY <1>2, <3>1, FilesRestrict
    <3> QED BY <3>1, <3>2, <3>3, RestrictIs
  <2> QED BY <1>1, <2>1, <2>2
<1>4. DiskOK' /\ FilesKept /\ FilesPresent(current)'
  <2>1. DiskOK'
    BY <1>1, <1>2, <1>3 DEF DiskOK, SettledLog
  <2>2. FilesKept
    BY <1>1, <1>3 DEF FilesKept
  <2>3. FilesPresent(current)'
    BY <1>1, <1>2, <1>3 DEF FilesPresent
  <2> QED BY <2>1, <2>2, <2>3
<1>5. CompOK'
  BY <1>1, NoCompIs, CompIdle
<1>6. IterOK' /\ HandleOK' /\ MemOK(config', mem')
  <2>1. config.maxAborts \in Nat
    BY <1>2, ConfigIs DEF DiskOK
  <2> QED BY <1>1, <1>2, <1>4, <2>1, NoCompIs DEF TypeInv, IterOK, HandleOK, MapBounded
<1> QED BY <1>4, <1>5, <1>6 DEF TypeInv

-----------------------------------------------------------------------------
(* Pruning and iterators.                                                  *)

LEMMA PruneOK ==
  ASSUME TypeInv, PruneObsoleteArtifacts
  PROVE  TypeInv' /\ FilesKept
<1>1. /\ UNCHANGED <<config, current, stable, lastGen, open, poison, mem, comp, iter, aborts>>
      /\ open /\ comp.phase # "writing"
      /\ segFiles' = Restrict(segFiles, DOMAIN segFiles \cap current.segs)
      /\ idmapFiles' = idmapFiles \/ idmapFiles' = Restrict(idmapFiles, DOMAIN idmapFiles \cap {current.idmap})
      /\ walFiles' = walFiles \/ walFiles' = Restrict(walFiles, DOMAIN walFiles \cap {current.wal})
      /\ deleteFiles' = deleteFiles \/ deleteFiles' = Restrict(deleteFiles, DOMAIN deleteFiles \cap {current.deletes})
  BY DEF PruneObsoleteArtifacts, Kept, Keep, Writable
<1>2. /\ DiskOK /\ FilesPresent(current) /\ SegFilesOK(config, segFiles) /\ IDMapFilesOK(config, idmapFiles)
      /\ DeleteFilesOK(config, deleteFiles) /\ WalFilesOK(config, walFiles)
  BY <1>1 DEF TypeInv, HandleOK, DiskOK
<1>3. /\ SegFilesOK(config, segFiles') /\ \A p \in DOMAIN segFiles' : p \in DOMAIN segFiles /\ segFiles'[p] = segFiles[p]
      /\ current.segs \subseteq DOMAIN segFiles'
  <2> DEFINE S == DOMAIN segFiles \cap current.segs
  <2>1. segFiles' = Restrict(segFiles, S) /\ S \in SUBSET DOMAIN segFiles /\ current.segs \subseteq S
    BY <1>1, <1>2 DEF FilesPresent
  <2> HIDE DEF S
  <2>2. SegFilesOK(config, segFiles')
    BY <1>2, <2>1, FilesRestrict
  <2> QED BY <2>1, <2>2, RestrictIs
<1>4. /\ IDMapFilesOK(config, idmapFiles') /\ \A p \in DOMAIN idmapFiles' : p \in DOMAIN idmapFiles /\ idmapFiles'[p] = idmapFiles[p]
      /\ current.idmap \in DOMAIN idmapFiles'
  <2>1. CASE idmapFiles' = idmapFiles
    BY <1>2, <2>1 DEF FilesPresent
  <2> DEFINE S == DOMAIN idmapFiles \cap {current.idmap}
  <2>2. CASE idmapFiles' = Restrict(idmapFiles, S)
    <3>1. idmapFiles' = Restrict(idmapFiles, S) /\ S \in SUBSET DOMAIN idmapFiles /\ current.idmap \in S
      BY <1>2, <2>2 DEF FilesPresent
    <3> HIDE DEF S
    <3>2. IDMapFilesOK(config, idmapFiles')
      BY <1>2, <3>1, FilesRestrict
    <3> QED BY <3>1, <3>2, RestrictIs
  <2> QED BY <1>1, <2>1, <2>2
<1>5. /\ DeleteFilesOK(config, deleteFiles') /\ \A p \in DOMAIN deleteFiles' : p \in DOMAIN deleteFiles /\ deleteFiles'[p] = deleteFiles[p]
      /\ current.deletes \in DOMAIN deleteFiles'
  <2>1. CASE deleteFiles' = deleteFiles
    BY <1>2, <2>1 DEF FilesPresent
  <2> DEFINE S == DOMAIN deleteFiles \cap {current.deletes}
  <2>2. CASE deleteFiles' = Restrict(deleteFiles, S)
    <3>1. deleteFiles' = Restrict(deleteFiles, S) /\ S \in SUBSET DOMAIN deleteFiles /\ current.deletes \in S
      BY <1>2, <2>2 DEF FilesPresent
    <3> HIDE DEF S
    <3>2. DeleteFilesOK(config, deleteFiles')
      BY <1>2, <3>1, FilesRestrict
    <3> QED BY <3>1, <3>2, RestrictIs
  <2> QED BY <1>1, <2>1, <2>2
<1>6. /\ WalFilesOK(config, walFiles') /\ \A p \in DOMAIN walFiles' : p \in DOMAIN walFiles /\ walFiles'[p] = walFiles[p]
      /\ current.wal \in DOMAIN walFiles'
  <2>1. CASE walFiles' = walFiles
    BY <1>2, <2>1 DEF FilesPresent
  <2> DEFINE S == DOMAIN walFiles \cap {current.wal}
  <2>2. CASE walFiles' = Restrict(walFiles, S)
    <3>1. walFiles' = Restrict(walFiles, S) /\ S \in SUBSET DOMAIN walFiles /\ current.wal \in S
      BY <1>2, <2>2 DEF FilesPresent
    <3> HIDE DEF S
    <3>2. WalFilesOK(config, walFiles')
      BY <1>2, <3>1, FilesRestrict
    <3> QED BY <3>1, <3>2, RestrictIs
  <2> QED BY <1>1, <2>1, <2>2
<1>7. DiskOK'
  <2>1. SettledLog'
    BY <1>1, <1>2, <1>6 DEF DiskOK, SettledLog
  <2> QED BY <1>1, <1>2, <1>3, <1>4, <1>5, <1>6, <2>1 DEF DiskOK
<1>8. FilesKept
  BY <1>3, <1>4, <1>5, <1>6 DEF FilesKept
<1>9. FilesPresent(current)'
  BY <1>1, <1>3, <1>4, <1>5, <1>6 DEF FilesPresent
<1>10. CompOK'
  BY <1>1, CompKept DEF TypeInv
<1>11. IterOK' /\ HandleOK' /\ MemOK(config', mem')
  BY <1>1, <1>9 DEF TypeInv, IterOK, HandleOK, MapBounded
<1> QED BY <1>7, <1>8, <1>10, <1>11 DEF TypeInv

LEMMA IteratorsOK ==
  ASSUME TypeInv, CreateIterator \/ CloseIterator
  PROVE  TypeInv' /\ FilesKept
<1>1. UNCHANGED <<config, diskVars, open, poison, mem, comp, aborts>>
  BY DEF CreateIterator, CloseIterator
<1>2. DiskOK' /\ FilesKept /\ (FilesPresent(current) <=> FilesPresent(current)')
  BY <1>1, DiskKept
<1>3. CompOK'
  BY <1>1, CompKept DEF TypeInv, CompOK, diskVars
<1>4. IterOK'
  <2>1. CASE CreateIterator
    <3>1. iter' = [active |-> TRUE, map |-> mem.idmap, schema |-> current.schema]
      BY <2>1 DEF CreateIterator
    <3>2. mem.idmap \in KeyMaps /\ MapBounded(config, mem.idmap) /\ current.schema \in Nat
      BY ManagerFields DEF TypeInv, DiskOK, ManifestOK, Manifests
    <3> QED BY <1>1, <3>1, <3>2 DEF IterOK, Iterators, MapBounded
  <2>2. CASE CloseIterator
    BY <1>1, <2>2, NoIterIs DEF CloseIterator, IterOK
  <2> QED BY <2>1, <2>2
<1>5. MemOK(config', mem') /\ HandleOK'
  BY <1>1, <1>2 DEF TypeInv, HandleOK
<1> QED BY <1>2, <1>3, <1>4, <1>5 DEF TypeInv

-----------------------------------------------------------------------------
(* The handle's life and crashes.                                          *)

LEMMA HandleGoneOK ==
  ASSUME TypeInv, HandleGone, config' = config
  PROVE  MemOK(config', mem') /\ CompOK' /\ IterOK' /\ HandleOK'
<1>1. /\ open' = FALSE /\ poison' = {} /\ mem' = NoManager /\ comp' = NoComp /\ iter' = NoIter
      /\ aborts' = IF comp.phase = "writing" THEN aborts + 1 ELSE aborts
  BY DEF HandleGone
<1>2. config.maxDocID \in Nat /\ config.maxAborts \in Nat
  BY ConfigIs DEF TypeInv, DiskOK
<1>3. MemOK(config', mem')
  BY <1>1, <1>2, NoManagerIs
<1>4. CompOK' /\ IterOK'
  BY <1>1, NoCompIs, NoIterIs, CompIdle DEF IterOK
<1>5. HandleOK'
  <2>1. aborts \in 0..(config.maxAborts + 1) /\ (comp.phase # "none" => aborts <= config.maxAborts)
    BY DEF TypeInv, HandleOK
  <2>2. aborts' \in 0..(config.maxAborts + 1)
    BY <1>1, <1>2, <2>1
  <2>3. ~open' /\ open' \in BOOLEAN /\ poison' \subseteq {"wal", "engine", "store"} /\ comp'.phase = "none"
    BY <1>1, NoCompIs
  <2> QED BY <2>2, <2>3 DEF HandleOK
<1> QED BY <1>3, <1>4, <1>5

LEMMA CloseOK ==
  ASSUME TypeInv, Close
  PROVE  TypeInv' /\ FilesKept
<1>1. /\ UNCHANGED <<config, current, stable, lastGen, segFiles, idmapFiles, deleteFiles>>
      /\ HandleGone /\ walFiles' \in {WalSynced, walFiles}
  BY DEF Close
<1>2. DiskOK /\ WalFilesOK(config, walFiles)
  BY DEF TypeInv, DiskOK
<1>3. /\ WalFilesOK(config, walFiles') /\ DOMAIN walFiles' = DOMAIN walFiles
      /\ \A p \in DOMAIN walFiles : p # current.wal => walFiles'[p] = walFiles[p]
  BY <1>1, <1>2, WalSyncedIs
<1>4. DiskOK'
  BY <1>1, <1>2, <1>3 DEF DiskOK, SettledLog
<1>5. FilesKept
  BY <1>1, <1>3 DEF FilesKept
<1> QED BY <1>1, <1>4, <1>5, HandleGoneOK DEF TypeInv

LEMMA KillOK ==
  ASSUME TypeInv, Kill
  PROVE  TypeInv' /\ FilesKept
<1>1. HandleGone /\ UNCHANGED <<config, diskVars>>
  BY DEF Kill
<1> QED BY <1>1, DiskKept, HandleGoneOK DEF TypeInv

LEMMA PowerLossOK ==
  ASSUME TypeInv, PowerLoss
  PROVE  TypeInv' /\ FilesKept
<1> DEFINE l == walFiles[stable.wal]
<1>1. /\ HandleGone /\ current' = stable /\ stable.wal \in DOMAIN walFiles
      /\ UNCHANGED <<config, stable, lastGen, segFiles, idmapFiles, deleteFiles>>
      /\ \E n \in l.synced..Len(l.recs) :
           walFiles' = [walFiles EXCEPT ![stable.wal] = [recs |-> SubSeq(l.recs, 1, n), synced |-> n]]
  BY DEF PowerLoss
<1>2. DiskOK /\ WalFilesOK(config, walFiles)
  BY DEF TypeInv, DiskOK
<1>3. l \in Logs /\ LogBounded(config, l)
  BY <1>1, <1>2, PartialIs DEF WalFilesOK
<1>4. stable.wal # current.wal => l.synced = Len(l.recs)
  BY <1>1, <1>2 DEF DiskOK, SettledLog
<1> HIDE DEF l
<1>5. PICK n \in l.synced..Len(l.recs) :
           walFiles' = [walFiles EXCEPT ![stable.wal] = [recs |-> SubSeq(l.recs, 1, n), synced |-> n]]
  BY <1>1
<1>6. l.recs \in Seq(Ops) /\ l.synced \in Nat /\ Len(l.recs) \in Nat /\ n \in Nat /\ n <= Len(l.recs)
  BY <1>3 DEF Logs
<1> DEFINE k == [recs |-> SubSeq(l.recs, 1, n), synced |-> n]
<1>7. k \in Logs /\ LogBounded(config, k)
  <2>1. /\ SubSeq(l.recs, 1, n) \in Seq(Ops) /\ Len(SubSeq(l.recs, 1, n)) = n
        /\ \A i \in 1..n : SubSeq(l.recs, 1, n)[i] = l.recs[i]
    BY <1>6
  <2>2. DOMAIN l.recs = 1..Len(l.recs) /\ DOMAIN SubSeq(l.recs, 1, n) = 1..n
    BY <1>6, <2>1
  <2>3. \A i \in DOMAIN l.recs : OpBounded(config, l.recs[i])
    BY <1>3 DEF LogBounded
  <2>4. \A i \in DOMAIN SubSeq(l.recs, 1, n) : OpBounded(config, SubSeq(l.recs, 1, n)[i])
    BY <1>6, <2>1, <2>2, <2>3
  <2>5. k \in Logs /\ k.recs = SubSeq(l.recs, 1, n) /\ k.synced = n
    BY <1>6, <2>1 DEF Logs
  <2> HIDE DEF k
  <2> QED BY <1>6, <2>1, <2>4, <2>5 DEF LogBounded
<1>8. stable.wal # current.wal => k = l
  <2> SUFFICES ASSUME stable.wal # current.wal PROVE k = l
    OBVIOUS
  <2>1. n = Len(l.recs) /\ n = l.synced
    BY <1>4, <1>6
  <2>2. SubSeq(l.recs, 1, n) = l.recs
    BY <1>6, <2>1, SubSeqFull
  <2>3. l = [recs |-> l.recs, synced |-> l.synced]
    BY <1>3 DEF Logs
  <2> QED BY <2>1, <2>2, <2>3
<1>9. walFiles' = [walFiles EXCEPT ![stable.wal] = k]
  BY <1>5
<1> HIDE DEF k
<1>10. /\ WalFilesOK(config, walFiles') /\ DOMAIN walFiles' = DOMAIN walFiles
       /\ \A q \in DOMAIN walFiles : walFiles'[q] = IF q = stable.wal THEN k ELSE walFiles[q]
  BY <1>2, <1>7, <1>9, FilesExcept
<1>11. \A p \in DOMAIN walFiles : p # current.wal => walFiles'[p] = walFiles[p]
  BY <1>8, <1>10 DEF l
<1>12. DiskOK'
  BY <1>1, <1>2, <1>10 DEF DiskOK, SettledLog
<1>13. FilesKept
  BY <1>1, <1>11 DEF FilesKept
<1> QED BY <1>1, <1>12, <1>13, HandleGoneOK DEF TypeInv

\* What OpenCollection reads before it replays the log.
LEMMA CheckpointIs ==
  ASSUME DiskOK, FilesPresent(current)
  PROVE  Checkpoint(current) \in Replays /\ Bounded(config, Checkpoint(current)) /\ Checkpoint(current).ok
<1> DEFINE ids  == {p[1] : p \in current.segs}
           segs == [id \in ids |-> segFiles[CHOOSE p \in current.segs : p[1] = id]]
           w    == NewWriteSegment(current.wal[1], current.start)
<1>1. /\ current \in Manifests /\ current.start <= config.maxDocID + 1 /\ SegFilesOK(config, segFiles)
      /\ IDMapFilesOK(config, idmapFiles) /\ DeleteFilesOK(config, deleteFiles)
      /\ current.segs \subseteq DOMAIN segFiles /\ current.idmap \in DOMAIN idmapFiles
      /\ current.deletes \in DOMAIN deleteFiles
  BY DEF DiskOK, ManifestOK, FilesPresent
<1>2. current.segs \in SUBSET Name /\ current.wal[1] \in Nat /\ current.start \in Nat
  BY <1>1 DEF Manifests, Name
<1>3. segs \in SegmentMaps /\ \A id \in DOMAIN segs : DocsBounded(config, segs[id])
  <2>1. \A id \in ids : /\ id \in Nat
                        /\ segFiles[CHOOSE p \in current.segs : p[1] = id] \in Documents
                        /\ DocsBounded(config, segFiles[CHOOSE p \in current.segs : p[1] = id])
    <3> SUFFICES ASSUME NEW id \in ids
                 PROVE  /\ id \in Nat
                        /\ segFiles[CHOOSE p \in current.segs : p[1] = id] \in Documents
                        /\ DocsBounded(config, segFiles[CHOOSE p \in current.segs : p[1] = id])
      OBVIOUS
    <3> DEFINE q == CHOOSE p \in current.segs : p[1] = id
    <3>1. q \in current.segs /\ q[1] = id
      OBVIOUS
    <3> HIDE DEF q
    <3>2. q \in DOMAIN segFiles /\ q \in Name
      BY <1>1, <1>2, <3>1
    <3>3. segFiles[q] \in Documents /\ DocsBounded(config, segFiles[q])
      BY <1>1, <3>2, PartialIs DEF SegFilesOK
    <3>4. id \in Nat
      BY <3>1, <3>2 DEF Name
    <3> QED BY <3>3, <3>4 DEF q
  <2> HIDE DEF ids
  <2>2. segs \in [ids -> Documents] /\ DOMAIN segs = ids /\ ids \in SUBSET Nat
    BY <2>1
  <2>3. \A id \in DOMAIN segs : DocsBounded(config, segs[id])
    BY <2>1
  <2> HIDE DEF segs
  <2> QED BY <2>2, <2>3, PartialIs DEF SegmentMaps
<1>4. idmapFiles[current.idmap] \in KeyMaps /\ MapBounded(config, idmapFiles[current.idmap])
  BY <1>1, PartialIs DEF IDMapFilesOK
<1>5. deleteFiles[current.deletes] \in SUBSET Nat /\ deleteFiles[current.deletes] \subseteq 0..config.maxDocID
  BY <1>1, PartialIs DEF DeleteFilesOK
<1>6. w \in WriteSegments /\ Contiguous(w) /\ NextDocumentID(w) = current.start /\ DocsBounded(config, w.docs)
  BY <1>2, NewWriteSegmentIs
<1>7. Checkpoint(current) = [segs |-> segs, writing |-> w, idmap |-> idmapFiles[current.idmap],
                             deletes |-> deleteFiles[current.deletes], ok |-> TRUE]
  BY DEF Checkpoint
<1> HIDE DEF segs, w
<1> QED BY <1>1, <1>3, <1>4, <1>5, <1>6, <1>7 DEF Replays, Bounded

LEMMA OpenCollectionOK ==
  ASSUME TypeInv, OpenCollection
  PROVE  TypeInv' /\ FilesKept
<1> DEFINE r == Recovered(current, Len(Wal.recs))
<1>1. /\ UNCHANGED <<config, diskVars, poison, comp, iter, aborts>> /\ ~open /\ open'
      /\ FilesPresent(current) /\ r.ok
      /\ mem' = Manager(r.segs, r.writing, r.idmap, r.deletes, 0, 0)
  BY DEF OpenCollection, Recoverable
<1>2. DiskOK /\ WalFilesOK(config, walFiles) /\ current.wal \in DOMAIN walFiles /\ config.maxDocID \in Nat
  BY ConfigIs DEF TypeInv, DiskOK
<1>3. Wal \in Logs /\ LogBounded(config, Wal)
  BY <1>2, PartialIs DEF WalFilesOK, Wal
<1>4. /\ Wal.recs \in Seq(Ops) /\ Len(Wal.recs) \in 0..Len(Wal.recs)
      /\ \A i \in 1..Len(Wal.recs) : OpBounded(config, Wal.recs[i])
  BY <1>3 DEF Logs, LogBounded
<1>5. Checkpoint(current) \in Replays /\ Bounded(config, Checkpoint(current))
  BY <1>1, <1>2, CheckpointIs
<1>6. r = Replay(Capacity, Checkpoint(current), Wal.recs, Len(Wal.recs))
  BY RecoveredIsReplay DEF Wal
<1>7. r \in Replays /\ Bounded(config, r)
  BY <1>1, <1>2, <1>4, <1>5, <1>6, ReplayBounded
<1> HIDE DEF r
<1>8. mem' = [segs |-> r.segs, writing |-> r.writing, idmap |-> r.idmap, deletes |-> r.deletes,
              dirty |-> 0, reserved |-> 0]
  BY <1>1 DEF Manager
<1>9. MemOK(config', mem')
  BY <1>1, <1>7, <1>8 DEF MemOK, Managers, Replays, Bounded
<1>10. DiskOK' /\ FilesKept /\ FilesPresent(current)'
  BY <1>1, DiskKept
<1>11. CompOK'
  BY <1>1, CompKept DEF TypeInv, CompOK, diskVars
<1>12. IterOK' /\ HandleOK'
  BY <1>1, <1>10 DEF TypeInv, IterOK, HandleOK, MapBounded
<1> QED BY <1>9, <1>10, <1>11, <1>12 DEF TypeInv

-----------------------------------------------------------------------------
(* Type correctness, and immutability of the artifacts.                    *)

LEMMA InitInv ==
  ASSUME Init
  PROVE  TypeInv
<1> DEFINE m == [gen |-> 1, schema |-> 1, segs |-> {}, wal |-> <<0, 1>>, start |-> 0,
                 idmap |-> 1, deletes |-> 1, next |-> 1]
<1>1. /\ config \in Configs /\ current = m /\ stable = m /\ lastGen = 1 /\ segFiles = EmptyMap
      /\ idmapFiles = Entry(1, EmptyMap) /\ deleteFiles = Entry(1, {}) /\ walFiles = Entry(<<0, 1>>, NewWal)
      /\ open = TRUE /\ poison = {} /\ mem = NoManager /\ comp = NoComp /\ iter = NoIter /\ aborts = 0
  BY DEF Init
<1>2. /\ config.maxDocID \in Nat /\ config.maxGeneration \in Nat \ {0} /\ config.maxSchema \in Nat \ {0}
      /\ config.maxAborts \in Nat
  BY <1>1, ConfigIs
<1>3. <<0, 1>> \in Name
  BY DEF Name
<1>4. /\ m \in Manifests /\ m.gen = 1 /\ m.schema = 1 /\ m.start = 0 /\ m.segs = {} /\ m.wal = <<0, 1>>
      /\ m.idmap = 1 /\ m.deletes = 1
  BY <1>3 DEF Manifests
<1> HIDE DEF m
<1>5. ManifestOK(config, m, 1)
  BY <1>2, <1>4 DEF ManifestOK
<1>6. EmptyMap \in KeyMaps /\ MapBounded(config, EmptyMap) /\ DOMAIN EmptyMap = {}
  BY EmptyMapIs DEF KeyMaps, MapBounded
<1> DEFINE none == {}
<1>7. none \in SUBSET Nat /\ none \subseteq 0..config.maxDocID /\ deleteFiles = Entry(1, none)
  BY <1>1
<1> HIDE DEF none
<1>8. /\ SegFilesOK(config, segFiles) /\ IDMapFilesOK(config, idmapFiles)
      /\ DeleteFilesOK(config, deleteFiles) /\ WalFilesOK(config, walFiles)
  <2>1. 1 \in Nat
    OBVIOUS
  <2> QED BY <1>1, <1>3, <1>6, <1>7, <2>1, FilesEmpty, FilesEntry, NewWalIs
<1>9. 1 \in DOMAIN idmapFiles /\ 1 \in DOMAIN deleteFiles /\ <<0, 1>> \in DOMAIN walFiles
  BY <1>1 DEF Entry
<1>10. DiskOK
  BY <1>1, <1>2, <1>4, <1>5, <1>8, <1>9 DEF DiskOK, SettledLog
<1>11. FilesPresent(current)
  BY <1>1, <1>4, <1>9 DEF FilesPresent
<1>12. MemOK(config, mem)
  BY <1>1, <1>2, NoManagerIs
<1>13. CompOK
  BY <1>1, NoCompIs DEF CompOK
<1>14. IterOK /\ HandleOK
  BY <1>1, <1>2, <1>11, NoIterIs, NoCompIs DEF IterOK, HandleOK
<1> QED BY <1>10, <1>12, <1>13, <1>14 DEF TypeInv

LEMMA StepInv ==
  ASSUME TypeInv, [Next]_vars
  PROVE  TypeInv' /\ FilesKept
<1>1. CASE UNCHANGED vars
  <2>1. UNCHANGED <<config, diskVars, open, poison, mem, comp, iter, aborts>>
    BY <1>1 DEF vars
  <2>2. DiskOK' /\ FilesKept /\ (FilesPresent(current) <=> FilesPresent(current)')
    BY <2>1, DiskKept
  <2>3. CompOK'
    BY <2>1, CompKept DEF TypeInv, CompOK, diskVars
  <2>4. MemOK(config', mem') /\ IterOK' /\ HandleOK'
    BY <2>1, <2>2 DEF TypeInv, IterOK, HandleOK, MapBounded
  <2> QED BY <2>2, <2>3, <2>4 DEF TypeInv
<1>2. CASE \E k \in config.keys : Insert(k) \/ Upsert(k) \/ Update(k) \/ Delete(k)
  BY <1>2, WritesOK
<1>3. CASE WalFails
  BY <1>3, WalFailsOK
<1>4. CASE Flush
  BY <1>4, FlushOK
<1>5. CASE RewriteDocuments
  BY <1>5, RewriteDocumentsOK
<1>6. CASE PublishMetadata
  BY <1>6, PublishMetadataOK
<1>7. CASE BeginCompaction
  BY <1>7, BeginCompactionOK
<1>8. CASE PrepareReserve
  BY <1>8, PrepareReserveOK
<1>9. CASE PrepareOutput
  BY <1>9, PrepareOutputOK
<1>10. CASE Commit
  BY <1>10, CommitOK
<1>11. CASE CompactionClose
  BY <1>11, CompactionCloseOK
<1>12. CASE PruneObsoleteArtifacts
  BY <1>12, PruneOK
<1>13. CASE CreateIterator \/ CloseIterator
  BY <1>13, IteratorsOK
<1>14. CASE Close
  BY <1>14, CloseOK
<1>15. CASE Kill
  BY <1>15, KillOK
<1>16. CASE PowerLoss
  BY <1>16, PowerLossOK
<1>17. CASE OpenCollection
  BY <1>17, OpenCollectionOK
<1> QED BY <1>1, <1>2, <1>3, <1>4, <1>5, <1>6, <1>7, <1>8, <1>9, <1>10, <1>11, <1>12, <1>13,
           <1>14, <1>15, <1>16, <1>17 DEF Next

LEMMA StoreInvariant == Spec => []TypeInv
<1>1. Init => TypeInv
  BY InitInv
<1>2. TypeInv /\ [Next]_vars => TypeInv'
  BY StepInv
<1> QED BY <1>1, <1>2, PTL DEF Spec

\* The inductive invariant is stronger than the types that the runs check.
LEMMA TypesFollow ==
  ASSUME TypeInv
  PROVE  TypeOK
<1>1. /\ config \in Configs /\ DocIDs = 0..config.maxDocID /\ Schemas = 1..config.maxSchema
      /\ MaxGeneration = config.maxGeneration /\ MaxAborts = config.maxAborts /\ MaxDocID = config.maxDocID
  BY ConfigIs DEF TypeInv, DiskOK, DocIDs, Schemas
<1>2. \A f \in Documents : DocsBounded(config, f) => IsDocuments(f)
  <2> SUFFICES ASSUME NEW f \in Documents, DocsBounded(config, f) PROVE IsDocuments(f)
    OBVIOUS
  <2>1. f \in [DOMAIN f -> Doc]
    BY PartialIs DEF Documents
  <2>2. \A d \in DOMAIN f : f[d] \in [key : Keys, schema : 1..config.maxSchema]
    BY <2>1 DEF Doc, DocsBounded
  <2>3. Range(f) \subseteq [key : Keys, schema : 1..config.maxSchema]
    BY <2>2 DEF Range
  <2> QED BY <1>1, <2>3 DEF IsDocuments, DocsBounded
<1>3. \A f \in KeyMaps : MapBounded(config, f) => IsMapTo(f, DocIDs)
  BY <1>1, PartialIs DEF KeyMaps, MapBounded, IsMapTo, Range
<1>4. IsManifest(current) /\ IsManifest(stable) /\ lastGen \in 1..MaxGeneration
  <2>1. ASSUME NEW m, ManifestOK(config, m, lastGen) PROVE IsManifest(m)
    <3>1. config.maxDocID \in Nat
      BY <1>1, ConfigIs
    <3> QED BY <1>1, <2>1, <3>1 DEF IsManifest, ManifestOK, Manifests
  <2> QED BY <1>1, <2>1 DEF TypeInv, DiskOK
<1>5. \A p \in DOMAIN segFiles : p \in Name /\ IsDocuments(segFiles[p])
  BY <1>2, PartialIs DEF TypeInv, DiskOK, SegFilesOK
<1>6. \A n \in DOMAIN idmapFiles : IsMapTo(idmapFiles[n], DocIDs)
  BY <1>3, PartialIs DEF TypeInv, DiskOK, IDMapFilesOK
<1>7. \A n \in DOMAIN deleteFiles : deleteFiles[n] \subseteq DocIDs
  BY <1>1 DEF TypeInv, DiskOK, DeleteFilesOK
<1>8. \A p \in DOMAIN walFiles :
        /\ \A i \in DOMAIN walFiles[p].recs : IsOperation(walFiles[p].recs[i])
        /\ walFiles[p].synced \in 0..Len(walFiles[p].recs)
  <2> SUFFICES ASSUME NEW p \in DOMAIN walFiles
               PROVE  /\ \A i \in DOMAIN walFiles[p].recs : IsOperation(walFiles[p].recs[i])
                      /\ walFiles[p].synced \in 0..Len(walFiles[p].recs)
    OBVIOUS
  <2> DEFINE l == walFiles[p]
  <2>1. l \in Logs /\ LogBounded(config, l)
    BY PartialIs DEF TypeInv, DiskOK, WalFilesOK
  <2> HIDE DEF l
  <2>2. l.recs \in Seq(Ops) /\ l.synced \in Nat /\ Len(l.recs) \in Nat /\ l.synced <= Len(l.recs)
    BY <2>1 DEF Logs, LogBounded
  <2>3. \A i \in DOMAIN l.recs : l.recs[i] \in Ops /\ OpBounded(config, l.recs[i])
    BY <2>1, <2>2 DEF LogBounded
  <2>4. \A i \in DOMAIN l.recs : IsOperation(l.recs[i])
    BY <1>1, <2>3 DEF IsOperation, Ops, OpBounded
  <2> QED BY <2>2, <2>4 DEF l
<1>9. IsDocuments(mem.writing.docs) /\ \A id \in DOMAIN mem.segs : IsDocuments(mem.segs[id])
  BY <1>2, ManagerFields, SegmentMembers DEF TypeInv, MemOK, Bounded
<1>10. IsMapTo(mem.idmap, DocIDs) /\ mem.deletes \subseteq DocIDs /\ mem.dirty \in Nat /\ mem.reserved \in Nat
  BY <1>1, <1>3, ManagerFields DEF TypeInv
<1>11. comp.phase \in {"none", "begun", "unchanged", "writing", "committed"}
  BY DEF TypeInv, CompOK, Compactions
<1>12. iter.active \in BOOLEAN /\ IsMapTo(iter.map, DocIDs)
  BY <1>3 DEF TypeInv, IterOK, Iterators
<1>13. open \in BOOLEAN /\ poison \subseteq {"wal", "engine", "store"} /\ aborts \in 0..(MaxAborts + 1)
  BY <1>1 DEF TypeInv, HandleOK
<1> QED BY <1>4, <1>5, <1>6, <1>7, <1>8, <1>9, <1>10, <1>11, <1>12, <1>13 DEF TypeOK

\* Every variable keeps its type, whatever the number of documents, crashes
\* and failed publications: in particular the free numbers that publications
\* choose exist, and a replay that passes the checks of recovery never leaves
\* the document IDs and schemas that were given out.
THEOREM StoreTypeCorrect == Spec => []TypeOK
<1>1. TypeInv => TypeOK
  BY TypesFollow
<1> QED BY <1>1, StoreInvariant, PTL

\* No operation writes over an artifact: every name a publication or a
\* compaction takes is free on disk at that moment, orphans of failed
\* publications included, and a power loss truncates only the log that
\* CURRENT goes on with.
THEOREM ArtifactsNeverRewritten == Spec => ArtifactsImmutable
<1>1. TypeInv /\ [Next]_vars => FilesKept
  BY StepInv
<1>2. TypeInv /\ [Next]_vars => [FilesKept]_vars
  BY <1>1
<1> QED BY <1>2, StoreInvariant, PTL DEF Spec, ArtifactsImmutable, FilesKept
=============================================================================
