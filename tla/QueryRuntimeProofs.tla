------------------------- MODULE QueryRuntimeProofs -------------------------
(***************************************************************************)
(* The reference counts of segment runtimes are exact, queries read frozen *)
(* runtimes and current snapshots, and Close releases everything, for every *)
(* set of query goroutines and every collection.                           *)
(*                                                                         *)
(* The count of a runtime is a sum with one term for each kind of owner,   *)
(* and every action moves, adds or releases owners of known kinds, so that *)
(* the difference of the sums is what it adds to and subtracts from refs.  *)
(* The other parts of the invariant say what the owners may rely on.       *)
(***************************************************************************)
EXTENDS QueryRuntime, FiniteSetTheorems, TLAPS

-----------------------------------------------------------------------------
(* The inductive invariant.                                                *)

In(r, S) == IF r \in S THEN 1 ELSE 0

\* How often the cache, the snapshots, the queries and a maintenance own r.
CacheN(r) == IF cache[r[1]] = r THEN 1 ELSE 0
SnapN(r) == In(r, DOMAIN snap["full"].view) + In(r, DOMAIN snap["vector"].view)
HeldN(r) == Cardinality({q \in Queries : r \in query[q].held})
MaintN(r) == In(r, maint.sources) + In(r, Range(maint.outputs))

\* The owners that read a runtime without the exclusive lock.
Uses(r) == SnapN(r) + HeldN(r) + MaintN(r)

\* A reference for each owner; open while there is one.
Counts ==
  \A r \in Runtimes :
    /\ refs[r] = CacheN(r) + Uses(r) + In(r, retired)
    /\ rt[r] = Closed <=> refs[r] = 0

PoolTypes ==
  /\ rt \in [Runtimes -> RuntimeState] /\ refs \in [Runtimes -> Nat]
  /\ retired \subseteq Runtimes /\ failures \in 0..MaxFailures

\* The key of an open runtime: its own segment, the schema or an older one.
Proper(key, r, sc) == key = Closed \/ (key.seg = r[1] /\ key.schema <= sc)

\* A segment's entry is a runtime of that segment.
CacheInv ==
  /\ cache \in [Segments -> Runtimes \cup {None}]
  /\ \A s \in Segments : cache[s] # None => cache[s][1] = s
  /\ \A r \in Runtimes : Proper(rt[r], r, schema)

StoreInv ==
  /\ config \in Configs
  /\ docs \in [Segments -> 0..Capacity]
  /\ writing \in Segments /\ nextSeg \in 2..(MaxSegment + 1) /\ writing < nextSeg
  /\ \A s \in Segments : s >= nextSeg => docs[s] = 0 /\ cache[s] = None
  /\ schema \in 1..MaxSchema /\ deletes \in 0..MaxDeletes /\ indexed \subseteq Segments
  /\ \A s \in indexed : s < nextSeg /\ s # writing
  /\ iterators \in Nat /\ phase \in {"open", "draining", "closed"} /\ prepared \in BOOLEAN

\* The runtime that a maintenance made for s, with its n documents.
Output(s, n) ==
  /\ maint.outputs[s] \in Runtimes /\ maint.outputs[s][1] = s
  /\ rt[maint.outputs[s]] = Key(s, schema, n)

MaintShape ==
  /\ maint = [pc |-> maint.pc, inputs |-> maint.inputs, sources |-> maint.sources,
              outputs |-> maint.outputs]
  /\ maint.pc \in {"none", "build", "building", "built", "release", "compact", "compacted"}
  /\ maint.inputs \subseteq Segments
  /\ maint.pc = "none" => maint.inputs = {}
  /\ maint.pc \notin {"building", "built", "release"} => maint.sources = {}
  /\ maint.pc \notin {"built", "compacted"} => maint.outputs = <<>>

\* The inputs stay sealed; what was made fits them, or takes unused segments.
MaintInv ==
  /\ MaintShape
  /\ maint.pc \in {"building", "built", "compact", "compacted"} => maint.inputs \subseteq Sealed
  /\ maint.pc = "built" =>
       /\ DOMAIN maint.outputs = maint.inputs
       /\ \A s \in maint.inputs : Output(s, docs[s])
  /\ maint.pc = "compacted" =>
       \A s \in DOMAIN maint.outputs :
         /\ s \in Segments /\ s < nextSeg /\ s # writing /\ docs[s] = 0 /\ cache[s] = None
         /\ \E n \in 1..Capacity : Output(s, n)

QueryShape ==
  /\ query = [q \in Queries |-> query[q]]
  /\ \A q \in Queries :
       /\ query[q] = [pc |-> query[q].pc, kind |-> query[q].kind, held |-> query[q].held,
                      view |-> query[q].view]
       /\ query[q].pc \in {"idle", "acquiring", "leased", "reranking"}
       /\ query[q].held \subseteq Runtimes
       /\ query[q].held # {} => query[q].pc = "leased"

Leased == {q \in Queries : query[q].pc = "leased"}

QueryInv ==
  /\ QueryShape
  /\ leases = Cardinality(Leased)
  /\ \A q \in Queries : query[q].pc = "acquiring" =>
       /\ phase = "open" /\ snap[SnapOf(query[q].kind)].set
       /\ query[q].view = snap[SnapOf(query[q].kind)].view
  /\ \A q \in Queries : \A r \in query[q].held : rt[r] = query[q].view[r]

SnapInv ==
  /\ snap = [k \in SnapKinds |-> snap[k]]
  /\ \A k \in SnapKinds :
       /\ ~snap[k].set => snap[k].view = <<>>
       /\ DOMAIN snap[k].view \subseteq Runtimes
       /\ \A r \in DOMAIN snap[k].view : rt[r] = snap[k].view[r]
  /\ SnapshotsCurrent

PhaseInv ==
  /\ phase # "open" => snap = [k \in SnapKinds |-> NoSnapshot] /\ maint = NoMaintenance
  /\ phase = "closed" => leases = 0 /\ \A s \in Segments : cache[s] = None

\* The cache has what queries want of the segment s.
Fit(s) ==
  IF docs[s] > 0 THEN cache[s] # None /\ rt[cache[s]] = Key(s, schema, docs[s])
                 ELSE cache[s] = None

\* A runtime of the writing segment under the schema is only made with those
\* of all the others, so that growing it in place completes a preparation.
ServedInv ==
  phase = "open" =>
    /\ prepared => \A s \in Segments : Fit(s)
    /\ cache[writing] # None /\ rt[cache[writing]].schema = schema =>
         \A s \in Segments \ {writing} : Fit(s)

RuntimeInv ==
  /\ StoreInv /\ PoolTypes /\ CacheInv /\ Counts
  /\ MaintInv /\ QueryInv /\ SnapInv /\ PhaseInv /\ ServedInv

-----------------------------------------------------------------------------
(* Constants and sums.                                                     *)

\* What the constants of a collection are.
LEMMA ConfigTypes ==
  ASSUME config \in Configs
  PROVE  /\ Copies \in Nat \ {0} /\ Capacity \in Nat \ {0} /\ MaxSegment \in Nat \ {0, 1}
         /\ MaxSchema \in Nat \ {0} /\ MaxDeletes \in Nat /\ MaxFailures \in Nat
         /\ InitDocs \in 0..Capacity /\ MaxBatch \in 0..Capacity
         /\ AppendSchemas \subseteq 1..MaxSchema
         /\ None \notin Runtimes
BY RuntimeConstants
   DEF Capacity, MaxSegment, MaxSchema, MaxDeletes, MaxFailures, InitDocs, MaxBatch,
       AppendSchemas, Runtimes, Segments

\* No action changes the collection's options, so the sets they give stay.
LEMMA SameConfig ==
  ASSUME config' = config
  PROVE  /\ Segments' = Segments /\ Runtimes' = Runtimes /\ RuntimeState' = RuntimeState
         /\ Capacity' = Capacity /\ MaxSegment' = MaxSegment /\ MaxSchema' = MaxSchema
         /\ MaxDeletes' = MaxDeletes /\ MaxFailures' = MaxFailures
BY DEF Segments, Runtimes, RuntimeState, Capacity, MaxSegment, MaxSchema, MaxDeletes, MaxFailures

\* A runtime is a segment and a number.
LEMMA RuntimePairs ==
  ASSUME NEW r \in Runtimes
  PROVE  r[1] \in Segments /\ r = <<r[1], r[2]>>
BY DEF Runtimes

\* There are finitely many runtimes.
LEMMA RuntimesFinite ==
  ASSUME config \in Configs
  PROVE  IsFiniteSet(Runtimes)
<1>1. MaxSegment \in Nat /\ Copies \in Nat
  BY ConfigTypes
<1>2. IsFiniteSet(1..MaxSegment) /\ IsFiniteSet(1..Copies)
  BY <1>1, FS_Interval
<1>3. QED
  BY <1>2, FS_Product DEF Runtimes, Segments

\* The key of an open runtime is not that of a closed one.
LEMMA KeyTypes ==
  ASSUME config \in Configs, NEW s \in Segments, NEW sc \in 1..MaxSchema, NEW n \in 0..Capacity
  PROVE  Key(s, sc, n) \in RuntimeState /\ Key(s, sc, n) # Closed
<1>1. MaxSegment \in Nat /\ MaxSchema \in Nat
  BY ConfigTypes
<1>2. QED
  BY <1>1 DEF Key, RuntimeState, Closed, Segments

\* A closed runtime has a state like the others.
LEMMA ClosedType ==
  ASSUME config \in Configs
  PROVE  Closed \in RuntimeState
BY ConfigTypes DEF RuntimeState, Closed

\* Membership as a number.
LEMMA InTypes ==
  ASSUME NEW r, NEW S
  PROVE  In(r, S) \in {0, 1} /\ (In(r, S) = 1 <=> r \in S)
BY DEF In

\* The terms of the sum are naturals.
LEMMA UseTypes ==
  ASSUME NEW r
  PROVE  /\ CacheN(r) \in {0, 1} /\ SnapN(r) \in Nat /\ HeldN(r) \in Nat /\ MaintN(r) \in Nat
         /\ Uses(r) \in Nat /\ Uses(r) = SnapN(r) + HeldN(r) + MaintN(r)
<1>1. IsFiniteSet({q \in Queries : r \in query[q].held})
  BY RuntimeConstants, FS_Subset
<1>2. HeldN(r) \in Nat
  BY <1>1, FS_CardinalityType DEF HeldN
<1>3. SnapN(r) \in Nat /\ MaintN(r) \in Nat /\ CacheN(r) \in {0, 1}
  BY InTypes DEF SnapN, MaintN, CacheN
<1>4. QED
  BY <1>2, <1>3 DEF Uses

\* The same of the terms after a step.
LEMMA UseTypesNext ==
  ASSUME NEW r
  PROVE  /\ CacheN(r)' \in {0, 1} /\ SnapN(r)' \in Nat /\ HeldN(r)' \in Nat /\ MaintN(r)' \in Nat
         /\ Uses(r)' \in Nat /\ Uses(r)' = SnapN(r)' + HeldN(r)' + MaintN(r)'
<1>1. IsFiniteSet({q \in Queries : r \in query'[q].held})
  BY RuntimeConstants, FS_Subset
<1>2. HeldN(r)' \in Nat
  BY <1>1, FS_CardinalityType DEF HeldN
<1>3. SnapN(r)' \in Nat /\ MaintN(r)' \in Nat /\ CacheN(r)' \in {0, 1}
  BY InTypes DEF SnapN, MaintN, CacheN
<1>4. QED
  BY <1>2, <1>3 DEF Uses

\* Who owns a runtime in another way than by the cache has a use of it.
LEMMA UsersCount ==
  ASSUME NEW r
  PROVE  /\ \A k \in SnapKinds : r \in DOMAIN snap[k].view => SnapN(r) > 0 /\ Uses(r) > 0
         /\ \A q \in Queries : r \in query[q].held => HeldN(r) > 0 /\ Uses(r) > 0
         /\ r \in maint.sources \/ r \in Range(maint.outputs) => MaintN(r) > 0 /\ Uses(r) > 0
<1>1. ASSUME NEW k \in SnapKinds, r \in DOMAIN snap[k].view
      PROVE  SnapN(r) > 0
  BY <1>1, InTypes DEF SnapN, SnapKinds
<1>2. ASSUME NEW q \in Queries, r \in query[q].held
      PROVE  HeldN(r) > 0
  <2> DEFINE S == {p \in Queries : r \in query[p].held}
  <2>1. IsFiniteSet(S) /\ q \in S
    BY <1>2, RuntimeConstants, FS_Subset
  <2>2. Cardinality(S) \in Nat /\ Cardinality(S) # 0
    BY <2>1, FS_EmptySet, FS_CardinalityType
  <2>3. QED
    BY <2>2 DEF HeldN
<1>3. ASSUME r \in maint.sources \/ r \in Range(maint.outputs)
      PROVE  MaintN(r) > 0
  BY <1>3, InTypes DEF MaintN
<1>4. SnapN(r) \in Nat /\ HeldN(r) \in Nat /\ MaintN(r) \in Nat
  BY UseTypes
<1>5. Uses(r) = SnapN(r) + HeldN(r) + MaintN(r)
  BY DEF Uses
<1>6. QED
  BY <1>1, <1>2, <1>3, <1>4, <1>5

\* The same after a step.
LEMMA UsersCountNext ==
  ASSUME NEW r
  PROVE  /\ \A k \in SnapKinds : r \in DOMAIN snap'[k].view => Uses(r)' > 0
         /\ \A q \in Queries : r \in query'[q].held => Uses(r)' > 0
         /\ r \in maint'.sources \/ r \in Range(maint'.outputs) => Uses(r)' > 0
<1>1. ASSUME NEW k \in SnapKinds, r \in DOMAIN snap'[k].view
      PROVE  SnapN(r)' > 0
  BY <1>1, InTypes DEF SnapN, SnapKinds
<1>2. ASSUME NEW q \in Queries, r \in query'[q].held
      PROVE  HeldN(r)' > 0
  <2> DEFINE S == {p \in Queries : r \in query'[p].held}
  <2>1. IsFiniteSet(S) /\ q \in S
    BY <1>2, RuntimeConstants, FS_Subset
  <2>2. Cardinality(S) \in Nat /\ Cardinality(S) # 0
    BY <2>1, FS_EmptySet, FS_CardinalityType
  <2>3. QED
    BY <2>2 DEF HeldN
<1>3. ASSUME r \in maint'.sources \/ r \in Range(maint'.outputs)
      PROVE  MaintN(r)' > 0
  BY <1>3, InTypes DEF MaintN
<1>4. QED
  BY <1>1, <1>2, <1>3, UseTypesNext

-----------------------------------------------------------------------------
(* Releases.                                                               *)

\* Releases of a step that leave as many references as there are owners.
Balanced(open, counts, released, kept) ==
  /\ open \in [Runtimes -> RuntimeState] /\ counts \in [Runtimes -> Nat]
  /\ released \in [Runtimes -> Nat] /\ kept \subseteq Runtimes
  /\ \A r \in Runtimes :
       /\ open[r] = Closed <=> counts[r] = 0
       /\ counts[r] - released[r] = CacheN(r)' + Uses(r)' + In(r, kept)

\* What they lead to: exact counts, and nothing changes in what stays open.
Settled(open) ==
  /\ rt' \in [Runtimes -> RuntimeState] /\ refs' \in [Runtimes -> Nat]
  /\ retired' \subseteq Runtimes /\ failures' \in 0..MaxFailures
  /\ \A r \in Runtimes :
       /\ refs'[r] = CacheN(r)' + Uses(r)' + In(r, retired')
       /\ rt'[r] = Closed <=> refs'[r] = 0
       /\ refs'[r] # 0 => rt'[r] = open[r]

\* releaseSegmentRuntime: balanced releases settle.  A runtime that loses its last
\* owner is closed, or the retired list becomes its owner when that fails.
LEMMA SettleBalances ==
  ASSUME NEW open, NEW counts, NEW released, NEW kept,
         config \in Configs, failures \in 0..MaxFailures,
         Settle(open, counts, released, kept), Balanced(open, counts, released, kept)
  PROVE  Settled(open)
<1> DEFINE left == [r \in Runtimes |-> counts[r] - released[r]]
           last == {r \in Runtimes : released[r] > 0 /\ left[r] = 0}
<1>1. PICK bad \in SUBSET last :
        /\ failures + Cardinality(bad) <= MaxFailures
        /\ failures' = failures + Cardinality(bad)
        /\ refs' = [r \in Runtimes |-> IF r \in bad THEN 1 ELSE left[r]]
        /\ rt' = [r \in Runtimes |-> IF r \in last \ bad THEN Closed ELSE open[r]]
        /\ retired' = kept \cup bad
  BY DEF Settle
<1>2. failures' \in 0..MaxFailures
  <2>1. Cardinality(bad) \in Nat
    BY RuntimesFinite, FS_Subset, FS_CardinalityType
  <2>2. QED
    BY <1>1, <2>1, ConfigTypes
<1>3. rt' \in [Runtimes -> RuntimeState] /\ retired' \subseteq Runtimes
  BY <1>1, ClosedType DEF Balanced
<1>4. ASSUME NEW r \in Runtimes
      PROVE  /\ refs'[r] \in Nat
             /\ refs'[r] = CacheN(r)' + Uses(r)' + In(r, retired')
             /\ rt'[r] = Closed <=> refs'[r] = 0
             /\ refs'[r] # 0 => rt'[r] = open[r]
  <2>1. /\ left[r] = counts[r] - released[r] /\ counts[r] \in Nat /\ released[r] \in Nat
        /\ left[r] = CacheN(r)' + Uses(r)' + In(r, kept)
        /\ open[r] = Closed <=> counts[r] = 0
    BY DEF Balanced
  <2>2. /\ CacheN(r)' \in Nat /\ Uses(r)' \in Nat
        /\ In(r, kept) \in {0, 1} /\ (In(r, kept) = 1 <=> r \in kept)
        /\ In(r, retired') \in {0, 1} /\ (In(r, retired') = 1 <=> r \in retired')
    BY UseTypesNext, InTypes
  <2>3. CASE r \in bad
    <3>1. released[r] > 0 /\ left[r] = 0
      BY <2>3
    <3>2. refs'[r] = 1 /\ rt'[r] = open[r] /\ r \in retired'
      BY <2>3, <1>1
    <3> HIDE DEF left, last
    <3>3. QED
      BY <3>1, <3>2, <2>1, <2>2
  <2>4. CASE r \in last \ bad
    <3>1. released[r] > 0 /\ left[r] = 0
      BY <2>4
    <3>2. refs'[r] = left[r] /\ rt'[r] = Closed /\ (r \in retired' <=> r \in kept)
      BY <2>4, <1>1
    <3> HIDE DEF left, last
    <3>3. QED
      BY <3>1, <3>2, <2>1, <2>2
  <2>5. CASE r \notin last
    <3>1. ~(released[r] > 0 /\ left[r] = 0)
      BY <2>5
    <3>2. refs'[r] = left[r] /\ rt'[r] = open[r] /\ (r \in retired' <=> r \in kept)
      BY <2>5, <1>1
    <3> HIDE DEF left, last
    <3>3. QED
      BY <3>1, <3>2, <2>1, <2>2
  <2>6. QED
    BY <2>3, <2>4, <2>5
<1>5. refs' \in [Runtimes -> Nat]
  BY <1>1, <1>4
<1>6. QED
  BY <1>2, <1>3, <1>4, <1>5 DEF Settled

\* What stays open does not change: for every owner, or for the readers.
KeepsOpen == \A r \in Runtimes : refs[r] # 0 /\ refs'[r] # 0 => rt'[r] = rt[r]
KeepsUsed == \A r \in Runtimes : refs[r] # 0 /\ Uses(r)' > 0 => rt'[r] = rt[r]

\* A settled pool satisfies its part of the invariant.
LEMMA SettledPool ==
  ASSUME NEW open, config' = config, Settled(open)
  PROVE  PoolTypes' /\ Counts'
<1>1. Runtimes' = Runtimes /\ RuntimeState' = RuntimeState /\ MaxFailures' = MaxFailures
  BY SameConfig
<1>2. PoolTypes'
  BY <1>1 DEF Settled, PoolTypes
<1>3. \A r \in Runtimes :
        /\ refs'[r] = CacheN(r)' + Uses(r)' + In(r, retired')
        /\ rt'[r] = Closed <=> refs'[r] = 0
  BY DEF Settled
<1>4. \A r \in Runtimes' :
        /\ refs'[r] = CacheN(r)' + Uses(r)' + In(r, retired)'
        /\ rt'[r] = Closed <=> refs'[r] = 0
  BY <1>1, <1>3 DEF In
<1>5. Closed' = Closed
  BY DEF Closed
<1>6. QED
  BY <1>2, <1>4, <1>5 DEF Counts

\* Releases alone change nothing in what stays open.
LEMMA SettledKeeps ==
  ASSUME Settled(rt)
  PROVE  KeepsOpen /\ KeepsUsed
<1>1. KeepsOpen
  BY DEF Settled, KeepsOpen
<1>2. ASSUME NEW r \in Runtimes, Uses(r)' > 0
      PROVE  rt'[r] = rt[r]
  <2>1. refs'[r] = CacheN(r)' + Uses(r)' + In(r, retired') /\ (refs'[r] # 0 => rt'[r] = rt[r])
    BY DEF Settled
  <2>2. CacheN(r)' \in Nat /\ Uses(r)' \in Nat /\ In(r, retired') \in Nat
    BY UseTypesNext, InTypes
  <2>3. QED
    BY <1>2, <2>1, <2>2
<1>3. QED
  BY <1>1, <1>2 DEF KeepsUsed

\* Releases leave keys proper.
LEMMA SettledKeys ==
  ASSUME NEW open, Settled(open), NEW sc, \A r \in Runtimes : Proper(open[r], r, sc)
  PROVE  \A r \in Runtimes : Proper(rt'[r], r, sc)
<1> TAKE r \in Runtimes
<1>1. CASE refs'[r] = 0
  BY <1>1 DEF Settled, Proper
<1>2. CASE refs'[r] # 0
  BY <1>2 DEF Settled
<1>3. QED
  BY <1>1, <1>2

\* Dropping the snapshots releases what they own.
LEMMA SnapshotReleases ==
  /\ BySnapshots \in [Runtimes -> Nat]
  /\ \A r \in Runtimes : BySnapshots[r] = SnapN(r)
<1>1. ASSUME NEW r \in Runtimes
      PROVE  BySnapshots[r] = SnapN(r)
  <2> DEFINE S == {k \in SnapKinds : r \in DOMAIN snap[k].view}
  <2>1. BySnapshots[r] = Cardinality(S)
    BY DEF BySnapshots, S
  <2>2. SnapN(r) = (IF r \in DOMAIN snap["full"].view THEN 1 ELSE 0)
                    + (IF r \in DOMAIN snap["vector"].view THEN 1 ELSE 0)
    BY DEF SnapN, In
  <2> HIDE DEF S
  <2>3. CASE r \in DOMAIN snap["full"].view /\ r \in DOMAIN snap["vector"].view
    <3>1. S = {"full"} \cup {"vector"}
      BY <2>3 DEF S, SnapKinds
    <3>2. Cardinality({"full"} \cup {"vector"}) = 2
      <4>1. IsFiniteSet({"full"}) /\ Cardinality({"full"}) = 1
        BY FS_Singleton
      <4>2. "vector" \notin {"full"}
        OBVIOUS
      <4>3. QED
        BY <4>1, <4>2, FS_AddElement
    <3>3. QED
      BY <2>1, <2>2, <2>3, <3>1, <3>2
  <2>4. CASE r \in DOMAIN snap["full"].view /\ r \notin DOMAIN snap["vector"].view
    <3>1. S = {"full"}
      BY <2>4 DEF S, SnapKinds
    <3>2. Cardinality(S) = 1
      BY <3>1, FS_Singleton
    <3>3. SnapN(r) = 1
      BY <2>2, <2>4
    <3>4. QED
      BY <2>1, <3>2, <3>3
  <2>5. CASE r \notin DOMAIN snap["full"].view /\ r \in DOMAIN snap["vector"].view
    <3>1. S = {"vector"}
      BY <2>5 DEF S, SnapKinds
    <3>2. Cardinality(S) = 1
      BY <3>1, FS_Singleton
    <3>3. SnapN(r) = 1
      BY <2>2, <2>5
    <3>4. QED
      BY <2>1, <3>2, <3>3
  <2>6. CASE r \notin DOMAIN snap["full"].view /\ r \notin DOMAIN snap["vector"].view
    <3>1. S = {}
      BY <2>6 DEF S, SnapKinds
    <3>2. QED
      BY <2>1, <2>2, <2>6, <3>1, FS_EmptySet
  <2>7. QED
    BY <2>3, <2>4, <2>5, <2>6
<1>2. \A r \in Runtimes : SnapN(r) \in Nat
  BY UseTypes
<1>3. QED
  BY <1>1, <1>2 DEF BySnapshots

\* Dropping the entries of the segments S releases what those entries own.
LEMMA CacheReleases ==
  ASSUME config \in Configs, CacheInv, NEW S \in SUBSET Segments
  PROVE  /\ ByCache(S) \in [Runtimes -> Nat]
         /\ \A r \in Runtimes : ByCache(S)[r] = IF r[1] \in S THEN CacheN(r) ELSE 0
<1>1. ASSUME NEW r \in Runtimes
      PROVE  ByCache(S)[r] = (IF r[1] \in S THEN CacheN(r) ELSE 0) /\ ByCache(S)[r] \in Nat
  <2> DEFINE T == {s \in S : cache[s] = r}
  <2>1. ByCache(S)[r] = Cardinality(T)
    BY DEF ByCache
  <2>2. \A s \in T : s = r[1]
    BY ConfigTypes DEF CacheInv
  <2>3. CASE r[1] \in S /\ cache[r[1]] = r
    <3>1. T = {r[1]}
      BY <2>2, <2>3
    <3>2. Cardinality(T) = 1 /\ CacheN(r) = 1
      BY <2>3, <3>1, FS_Singleton DEF CacheN
    <3>3. QED
      BY <2>1, <2>3, <3>2
  <2>4. CASE ~(r[1] \in S /\ cache[r[1]] = r)
    <3>1. T = {}
      BY <2>2, <2>4
    <3>2. Cardinality(T) = 0 /\ (r[1] \in S => CacheN(r) = 0)
      BY <2>4, <3>1, FS_EmptySet DEF CacheN
    <3>3. QED
      BY <2>1, <3>2
  <2>5. QED
    BY <2>3, <2>4
<1>2. QED
  BY <1>1 DEF ByCache

\* Releasing the members of a set.
LEMMA MemberReleases ==
  ASSUME NEW S
  PROVE  /\ ByMembership(S) \in [Runtimes -> Nat]
         /\ \A r \in Runtimes : ByMembership(S)[r] = In(r, S)
BY DEF ByMembership, In

\* Releasing nothing.
LEMMA NoReleases ==
  /\ NoRelease \in [Runtimes -> Nat]
  /\ \A r \in Runtimes : NoRelease[r] = 0
BY DEF NoRelease, ByMembership

\* Releases add up.
LEMMA PlusReleases ==
  ASSUME NEW f \in [Runtimes -> Nat], NEW g \in [Runtimes -> Nat]
  PROVE  /\ Plus(f, g) \in [Runtimes -> Nat]
         /\ \A r \in Runtimes : Plus(f, g)[r] = f[r] + g[r]
BY DEF Plus

\* Owners of a kind that a step leaves alone.
LEMMA SameOwners ==
  ASSUME NEW r
  PROVE  /\ cache' = cache => CacheN(r)' = CacheN(r)
         /\ snap' = snap => SnapN(r)' = SnapN(r)
         /\ Invalidate => SnapN(r)' = 0
         /\ query' = query => HeldN(r)' = HeldN(r)
         /\ maint'.sources = maint.sources /\ maint'.outputs = maint.outputs =>
              MaintN(r)' = MaintN(r)
<1>1. cache' = cache => CacheN(r)' = CacheN(r)
  BY DEF CacheN
<1>2. snap' = snap => SnapN(r)' = SnapN(r)
  BY DEF SnapN, In
<1>3. Invalidate => SnapN(r)' = 0
  BY DEF SnapN, In, Invalidate, SnapKinds, NoSnapshot
<1>4. query' = query => HeldN(r)' = HeldN(r)
  BY DEF HeldN
<1>5. maint'.sources = maint.sources /\ maint'.outputs = maint.outputs => MaintN(r)' = MaintN(r)
  BY DEF MaintN, In, Range
<1>6. QED
  BY <1>1, <1>2, <1>3, <1>4, <1>5

\* New runtimes are closed ones, each of its own segment.
LEMMA AllocationFacts ==
  ASSUME NEW S, NEW made \in Allocations(S)
  PROVE  /\ DOMAIN made = S /\ made = [s \in S |-> made[s]]
         /\ \A s \in S : made[s] \in Runtimes /\ made[s][1] = s /\ rt[made[s]] = Closed
         /\ \A r \in Range(made) : r \in Runtimes /\ rt[r] = Closed /\ r[1] \in S /\ made[r[1]] = r
         /\ \A r : r[1] \in S /\ made[r[1]] = r => r \in Range(made)
<1> DEFINE m == [s \in S |-> <<s, Min({i \in 1..Copies : <<s, i>> \in Free} \cup {Copies})>>]
<1>1. made = m /\ Range(made) \subseteq Free
  BY DEF Allocations
<1>2. DOMAIN made = S /\ made = [s \in S |-> made[s]] /\ \A s \in S : made[s][1] = s
  BY <1>1
<1> HIDE DEF m
<1>3. \A s \in S : made[s] \in Free
  BY <1>1, <1>2 DEF Range
<1>4. \A s \in S : made[s] \in Runtimes /\ rt[made[s]] = Closed
  BY <1>3 DEF Free
<1>5. \A r \in Range(made) : r \in Runtimes /\ rt[r] = Closed /\ r[1] \in S /\ made[r[1]] = r
  BY <1>2, <1>4 DEF Range
<1>6. QED
  BY <1>2, <1>4, <1>5 DEF Range

\* New runtimes for the segments S, with these keys, and the pool with them.
Opening(S, made, keys) ==
  /\ S \subseteq Segments /\ made \in Allocations(S)
  /\ \A s \in S : keys[s] \in RuntimeState /\ keys[s] # Closed

PoolWith(S, made, keys) ==
  /\ Opened(made, keys) \in [Runtimes -> RuntimeState] /\ Counted(made) \in [Runtimes -> Nat]
  /\ \A s \in S : Opened(made, keys)[made[s]] = keys[s]
  /\ \A r \in Runtimes :
       /\ r \notin Range(made) => Opened(made, keys)[r] = rt[r] /\ Counted(made)[r] = refs[r]
       /\ r \in Range(made) => /\ Opened(made, keys)[r] = keys[r[1]]
                               /\ Counted(made)[r] = 1 /\ refs[r] = 0
       /\ Opened(made, keys)[r] = Closed <=> Counted(made)[r] = 0

\* A new runtime has its key and one reference; the others stay.
LEMMA OpenedFacts ==
  ASSUME config \in Configs, PoolTypes, Counts, NEW S, NEW made, NEW keys, Opening(S, made, keys)
  PROVE  PoolWith(S, made, keys)
<1> USE DEF Opening
<1>1. /\ DOMAIN made = S
      /\ \A s \in S : made[s] \in Runtimes /\ made[s][1] = s /\ rt[made[s]] = Closed
      /\ \A r \in Range(made) : r \in Runtimes /\ rt[r] = Closed /\ r[1] \in S /\ made[r[1]] = r
  BY AllocationFacts
<1>2. ASSUME NEW r \in Runtimes, r \notin Range(made)
      PROVE  Opened(made, keys)[r] = rt[r] /\ Counted(made)[r] = refs[r]
  BY <1>2 DEF Opened, Counted, Range
<1>3. ASSUME NEW r \in Runtimes, r \in Range(made)
      PROVE  Opened(made, keys)[r] = keys[r[1]] /\ Counted(made)[r] = 1
  <2>1. r[1] \in DOMAIN made /\ made[r[1]] = r
    BY <1>1, <1>3
  <2>2. \A s \in DOMAIN made : made[s] = r => s = r[1]
    BY <1>1
  <2>3. (CHOOSE s \in DOMAIN made : made[s] = r) = r[1]
    BY <2>1, <2>2
  <2>4. QED
    BY <1>3, <2>1, <2>3 DEF Opened, Counted
<1>4. \A r \in Range(made) : refs[r] = 0
  BY <1>1 DEF Counts
<1>5. \A s \in S : made[s] \in Range(made)
  BY <1>1 DEF Range
<1>6. ASSUME NEW r \in Runtimes
      PROVE  /\ Opened(made, keys)[r] \in RuntimeState /\ Counted(made)[r] \in Nat
             /\ Opened(made, keys)[r] = Closed <=> Counted(made)[r] = 0
  <2>1. CASE r \in Range(made)
    BY <1>1, <1>3, <2>1
  <2>2. CASE r \notin Range(made)
    BY <1>2, <2>2 DEF PoolTypes, Counts
  <2>3. QED
    BY <2>1, <2>2
<1>7. Opened(made, keys) \in [Runtimes -> RuntimeState] /\ Counted(made) \in [Runtimes -> Nat]
  BY <1>6 DEF Opened, Counted
<1>8. \A s \in S : Opened(made, keys)[made[s]] = keys[s]
  BY <1>1, <1>3, <1>5
<1>9. QED
  BY <1>2, <1>3, <1>4, <1>6, <1>7, <1>8 DEF PoolWith

-----------------------------------------------------------------------------
(* Preparations.                                                           *)

\* What an operation does to the store and the owners when it prepares: only
\* snapshots are dropped, and the writing segment alone grows, or it is a new
\* one, or the schema is.
Preparing(before, after) ==
  /\ before \in [Runtimes -> Nat] /\ after \in [Runtimes -> Nat]
  /\ \A r \in Runtimes : SnapN(r) = before[r] + after[r] + SnapN(r)'
  /\ query' = query /\ maint'.sources = maint.sources /\ maint'.outputs = maint.outputs
  /\ config' = config /\ phase = "open" /\ phase' = phase
  /\ docs' \in [Segments -> 0..Capacity] /\ writing' \in Segments /\ schema' \in schema..MaxSchema
  /\ \/ /\ writing' = writing /\ schema' = schema
        /\ \A s \in Segments \ {writing} : docs'[s] = docs[s]
     \/ cache[writing'] = None
     \/ schema' > schema

\* What a preparation leads to.
PreparedNext ==
  /\ PoolTypes' /\ Counts' /\ CacheInv' /\ ServedInv' /\ KeepsUsed
  /\ prepared' \in BOOLEAN
  /\ \A s \in Segments : docs'[s] = 0 /\ cache[s] = None => cache'[s] = None

\* A runtime in the cache is owned by it.
LEMMA CachedOwned ==
  ASSUME StoreInv, CacheInv, PoolTypes, Counts, NEW s \in Segments, cache[s] # None
  PROVE  /\ cache[s] \in Runtimes /\ cache[s][1] = s /\ CacheN(cache[s]) = 1
         /\ refs[cache[s]] # 0 /\ rt[cache[s]] # Closed
         /\ rt[cache[s]].seg = s /\ rt[cache[s]].schema <= schema
<1>1. cache[s] \in Runtimes /\ cache[s][1] = s
  BY DEF CacheInv
<1>2. CacheN(cache[s]) = 1
  BY <1>1 DEF CacheN
<1>3. /\ refs[cache[s]] = CacheN(cache[s]) + Uses(cache[s]) + In(cache[s], retired)
      /\ rt[cache[s]] = Closed <=> refs[cache[s]] = 0
  BY <1>1 DEF Counts
<1>4. Uses(cache[s]) \in Nat /\ In(cache[s], retired) \in Nat
  BY UseTypes, InTypes
<1>5. refs[cache[s]] # 0 /\ rt[cache[s]] # Closed
  BY <1>2, <1>3, <1>4
<1>6. Proper(rt[cache[s]], cache[s], schema)
  BY <1>1 DEF CacheInv
<1>7. QED
  BY <1>1, <1>2, <1>5, <1>6 DEF Proper

\* What the cache owns after a step stays as the step opened it.
LEMMA SettledCached ==
  ASSUME NEW open, config' = config, StoreInv, Settled(open),
         cache' \in [Segments -> Runtimes \cup {None}],
         \A s \in Segments : cache'[s] # None => cache'[s][1] = s,
         NEW s \in Segments, cache'[s] # None
  PROVE  cache'[s] \in Runtimes /\ refs'[cache'[s]] # 0 /\ rt'[cache'[s]] = open[cache'[s]]
<1> SUFFICES ASSUME NEW c, c = cache'[s]
             PROVE  c \in Runtimes /\ refs'[c] # 0 /\ rt'[c] = open[c]
  OBVIOUS
<1>1. c \in Runtimes /\ c[1] = s
  OBVIOUS
<1>2. CacheN(c)' = 1
  BY <1>1 DEF CacheN
<1>3. refs'[c] = CacheN(c)' + Uses(c)' + In(c, retired') /\ (refs'[c] # 0 => rt'[c] = open[c])
  BY <1>1 DEF Settled
<1>4. Uses(c)' \in Nat /\ In(c, retired') \in Nat
  BY UseTypesNext, InTypes
<1>5. QED
  BY <1>1, <1>2, <1>3, <1>4

\* Readers of a runtime keep it open.
LEMMA SettledUsed ==
  ASSUME NEW open, Settled(open), NEW r \in Runtimes, Uses(r)' > 0
  PROVE  refs'[r] # 0 /\ rt'[r] = open[r]
<1>1. refs'[r] = CacheN(r)' + Uses(r)' + In(r, retired') /\ (refs'[r] # 0 => rt'[r] = open[r])
  BY DEF Settled
<1>2. CacheN(r)' \in Nat /\ Uses(r)' \in Nat /\ In(r, retired') \in Nat
  BY UseTypesNext, InTypes
<1>3. QED
  BY <1>1, <1>2

\* Growing in place: nobody but the cache has the runtime, so no reader sees
\* it grow, and it was the last one that was missing.
LEMMA AppendPrepares ==
  ASSUME RuntimeInv, NEW before, NEW after, Preparing(before, after), AppendRuntime(before, after)
  PROVE  PreparedNext
<1> DEFINE r0 == cache[writing']
           open == [rt EXCEPT ![r0].count = docs'[writing']]
<1>1. /\ StoreInv /\ CacheInv /\ PoolTypes /\ Counts /\ ServedInv /\ config \in Configs
      /\ schema \in Nat /\ failures \in 0..MaxFailures
  BY ConfigTypes DEF RuntimeInv, StoreInv, PoolTypes
<1>2. /\ schema' \in AppendSchemas /\ r0 # None /\ refs[r0] - before[r0] = 1
      /\ rt[r0].schema = schema' /\ rt[r0].count < docs'[writing']
      /\ Settle(open, refs, Plus(before, after), retired)
      /\ prepared' = TRUE /\ cache' = cache
  BY DEF AppendRuntime, CanAppend
<1>3. /\ before \in [Runtimes -> Nat] /\ after \in [Runtimes -> Nat] /\ config' = config
      /\ \A r \in Runtimes : SnapN(r) = before[r] + after[r] + SnapN(r)'
      /\ docs' \in [Segments -> 0..Capacity] /\ writing' \in Segments /\ schema' \in schema..MaxSchema
      /\ phase = "open" /\ phase' = phase
  BY DEF Preparing
<1>4. /\ r0 \in Runtimes /\ r0[1] = writing' /\ CacheN(r0) = 1 /\ rt[r0] # Closed
      /\ rt[r0].seg = writing' /\ rt[r0].schema <= schema
  BY <1>1, <1>2, <1>3, CachedOwned
<1>5. writing' = writing /\ schema' = schema /\ \A s \in Segments \ {writing} : docs'[s] = docs[s]
  <2>1. cache[writing'] # None /\ ~(schema' > schema)
    BY <1>1, <1>2, <1>3, <1>4, ConfigTypes
  <2>2. QED
    BY <2>1 DEF Preparing
<1>6. \A r \in Runtimes : /\ CacheN(r)' = CacheN(r) /\ HeldN(r)' = HeldN(r) /\ MaintN(r)' = MaintN(r)
                         /\ Uses(r) = SnapN(r) + HeldN(r) + MaintN(r)
                         /\ Uses(r)' = SnapN(r)' + HeldN(r)' + MaintN(r)'
  BY <1>2, SameOwners, UseTypes, UseTypesNext DEF Preparing
<1>7. \A r \in Runtimes : /\ CacheN(r) \in Nat /\ SnapN(r) \in Nat /\ HeldN(r) \in Nat /\ MaintN(r) \in Nat
                         /\ SnapN(r)' \in Nat /\ In(r, retired) \in Nat
                         /\ before[r] \in Nat /\ after[r] \in Nat
                         /\ refs[r] = CacheN(r) + Uses(r) + In(r, retired)
  BY <1>1, <1>3, UseTypes, UseTypesNext, InTypes DEF Counts
<1>8. \A r \in Runtimes : r = r0 => Uses(r)' = 0
  <2>1. ASSUME NEW r \in Runtimes, refs[r] - before[r] = 1, CacheN(r) = 1
        PROVE  Uses(r)' = 0
    <3>1. SnapN(r) = before[r] + after[r] + SnapN(r)'
      BY <1>3
    <3>2. /\ SnapN(r) \in Nat /\ HeldN(r) \in Nat /\ MaintN(r) \in Nat /\ SnapN(r)' \in Nat
          /\ In(r, retired) \in Nat /\ before[r] \in Nat /\ after[r] \in Nat
      BY <1>7
    <3>3. refs[r] = 1 + (SnapN(r) + HeldN(r) + MaintN(r)) + In(r, retired)
      BY <1>6, <1>7, <2>1
    <3>4. PICK n \in Nat : n = SnapN(r)'
      BY <3>2
    <3>5. SnapN(r) = before[r] + after[r] + n
      BY <3>1, <3>4
    <3>6. n = 0 /\ HeldN(r) = 0 /\ MaintN(r) = 0
      BY <2>1, <3>2, <3>3, <3>5
    <3>7. Uses(r)' = SnapN(r)' + HeldN(r)' + MaintN(r)'
      BY <1>6
    <3>8. HeldN(r)' = HeldN(r) /\ MaintN(r)' = MaintN(r)
      BY <1>6
    <3>9. Uses(r)' = n + HeldN(r) + MaintN(r)
      BY <3>4, <3>7, <3>8
    <3>10. QED
      BY <3>6, <3>9
  <2>2. QED
    BY <1>2, <1>4, <2>1
<1>9. /\ open \in [Runtimes -> RuntimeState]
      /\ open[r0] = Key(writing', schema', docs'[writing'])
      /\ \A r \in Runtimes : r # r0 => open[r] = rt[r]
  <2>1. rt \in [Runtimes -> RuntimeState]
    BY <1>1 DEF PoolTypes
  <2>2. docs'[writing'] \in 0..Capacity
    BY <1>3
  <2>3. [rt[r0] EXCEPT !.count = docs'[writing']] = Key(writing', schema', docs'[writing'])
    BY <1>2, <1>4, <2>1 DEF RuntimeState, Key
  <2>4. Key(writing', schema', docs'[writing']) \in RuntimeState
    BY <1>1, <1>3, <2>2, KeyTypes, ConfigTypes DEF StoreInv
  <2>5. open[r0] = [rt[r0] EXCEPT !.count = docs'[writing']]
    BY <1>4, <2>1
  <2>6. \A r \in Runtimes : r # r0 => open[r] = rt[r]
    BY <2>1
  <2> HIDE DEF r0
  <2>7. open = [r \in Runtimes |-> IF r = r0 THEN [rt[r0] EXCEPT !.count = docs'[writing']] ELSE rt[r]]
    BY <1>4, <2>1
  <2>8. open \in [Runtimes -> RuntimeState]
    BY <2>1, <2>3, <2>4, <2>7
  <2>9. QED
    BY <2>3, <2>5, <2>6, <2>8 DEF r0
<1> HIDE DEF open, r0
<1>10. open[r0] # Closed
  BY <1>1, <1>3, <1>9, KeyTypes DEF StoreInv
<1>11. Balanced(open, refs, Plus(before, after), retired)
  <2>1. Plus(before, after) \in [Runtimes -> Nat]
    BY <1>3, PlusReleases
  <2>2. \A r \in Runtimes : Plus(before, after)[r] = before[r] + after[r]
    BY <1>3, PlusReleases
  <2>3. refs \in [Runtimes -> Nat] /\ retired \subseteq Runtimes
    BY <1>1 DEF PoolTypes
  <2>4. ASSUME NEW r \in Runtimes
        PROVE  open[r] = Closed <=> refs[r] = 0
    BY <1>1, <1>4, <1>9, <1>10 DEF Counts
  <2>5. ASSUME NEW r \in Runtimes
        PROVE  refs[r] - Plus(before, after)[r] = CacheN(r)' + Uses(r)' + In(r, retired)
    BY <1>3, <1>6, <1>7, <2>2
  <2>6. QED
    BY <1>9, <2>1, <2>3, <2>4, <2>5 DEF Balanced
<1>12. Settled(open)
  BY <1>1, <1>2, <1>11, SettleBalances
<1>13. PoolTypes' /\ Counts'
  BY <1>3, <1>12, SettledPool
<1>14. KeepsUsed
  <2>1. ASSUME NEW r \in Runtimes, Uses(r)' > 0
        PROVE  rt'[r] = rt[r]
    <3>1. r # r0
      BY <1>8, <2>1
    <3>2. rt'[r] = open[r]
      BY <1>12, <2>1, SettledUsed
    <3>3. QED
      BY <1>9, <3>1, <3>2
  <2>2. QED
    BY <2>1 DEF KeepsUsed
<1>15. Segments' = Segments /\ Runtimes' = Runtimes
  BY <1>3, SameConfig
<1>16. /\ cache' \in [Segments -> Runtimes \cup {None}]
       /\ \A s \in Segments : cache'[s] # None => cache'[s][1] = s
  BY <1>1, <1>2 DEF CacheInv
<1>17. CacheInv'
  <2>1. \A r \in Runtimes : Proper(rt[r], r, schema)
    BY <1>1 DEF CacheInv
  <2>2. Proper(open[r0], r0, schema')
    BY <1>1, <1>3, <1>4, <1>9, ConfigTypes DEF Proper, Key, StoreInv
  <2>3. \A r \in Runtimes : Proper(open[r], r, schema')
    BY <1>5, <1>9, <2>1, <2>2
  <2>4. \A r \in Runtimes : Proper(rt'[r], r, schema')
    BY <1>12, <2>3, SettledKeys
  <2>5. \A r \in Runtimes : Proper(rt[r], r, schema)'
    BY <2>4 DEF Proper, Closed
  <2>6. QED
    BY <1>15, <1>16, <2>5 DEF CacheInv
<1>18. ASSUME NEW s \in Segments
       PROVE  Fit(s)'
  <2>1. cache[s] # None => cache[s] \in Runtimes /\ rt'[cache[s]] = open[cache[s]]
    BY <1>1, <1>2, <1>3, <1>12, <1>16, SettledCached
  <2>2. CASE s = writing'
    <3>1. cache[s] = r0 /\ rt'[cache[s]] = Key(writing', schema', docs'[writing'])
      BY <1>2, <1>9, <2>1, <2>2 DEF r0
    <3>2. docs'[s] > 0
      <4>1. rt[r0].count \in Nat /\ docs'[s] \in Nat
        BY <1>1, <1>3, <1>4, ConfigTypes DEF PoolTypes, RuntimeState
      <4>2. QED
        BY <1>2, <2>2, <4>1
    <3>3. QED
      BY <1>2, <2>2, <3>1, <3>2 DEF Fit, Key
  <2>3. CASE s # writing'
    <3>1. Fit(s)
      <4>1. cache[writing] # None /\ rt[cache[writing]].schema = schema
        BY <1>2, <1>5 DEF r0
      <4>2. QED
        BY <1>1, <1>3, <1>5, <2>3, <4>1 DEF ServedInv
    <3>2. cache[s] # r0 /\ docs'[s] = docs[s]
      BY <1>1, <1>2, <1>4, <1>5, <2>3 DEF CacheInv
    <3>3. cache[s] # None => rt'[cache[s]] = rt[cache[s]]
      BY <1>9, <2>1, <3>2
    <3>4. QED
      BY <1>2, <1>5, <3>1, <3>2, <3>3 DEF Fit, Key
  <2>4. QED
    BY <2>2, <2>3
<1>19. ServedInv'
  BY <1>15, <1>18 DEF ServedInv
<1>20. QED
  BY <1>2, <1>13, <1>14, <1>17, <1>19 DEF PreparedNext

\* What a preparation releases besides cached runtimes is what snapshots used.
LEMMA PreparingSums ==
  ASSUME RuntimeInv, NEW before, NEW after, Preparing(before, after), NEW r \in Runtimes
  PROVE  /\ before[r] \in Nat /\ after[r] \in Nat /\ Uses(r) \in Nat /\ Uses(r)' \in Nat
         /\ CacheN(r) \in {0, 1} /\ In(r, retired) \in Nat
         /\ Uses(r) = before[r] + after[r] + Uses(r)'
         /\ refs[r] = CacheN(r) + Uses(r) + In(r, retired)
<1>1. before[r] \in Nat /\ after[r] \in Nat /\ SnapN(r) = before[r] + after[r] + SnapN(r)'
  BY DEF Preparing
<1>2. HeldN(r)' = HeldN(r) /\ MaintN(r)' = MaintN(r)
  BY SameOwners DEF Preparing
<1>3. /\ Uses(r) \in Nat /\ CacheN(r) \in {0, 1} /\ SnapN(r) \in Nat /\ HeldN(r) \in Nat
      /\ MaintN(r) \in Nat /\ Uses(r) = SnapN(r) + HeldN(r) + MaintN(r)
  BY UseTypes
<1>4. Uses(r)' \in Nat /\ SnapN(r)' \in Nat /\ Uses(r)' = SnapN(r)' + HeldN(r)' + MaintN(r)'
  BY UseTypesNext
<1>5. Uses(r)' = SnapN(r)' + HeldN(r) + MaintN(r)
  BY <1>2, <1>4
<1>6. Uses(r) = before[r] + after[r] + Uses(r)'
  BY <1>1, <1>3, <1>4, <1>5
<1>7. refs[r] = CacheN(r) + Uses(r) + In(r, retired) /\ In(r, retired) \in Nat
  BY InTypes DEF RuntimeInv, Counts
<1>8. QED
  BY <1>1, <1>3, <1>4, <1>6, <1>7

\* Replacing: what the cache keeps has the wanted key, the rest is new.
LEMMA ReplacePrepares ==
  ASSUME RuntimeInv, NEW before, NEW after, Preparing(before, after), ReplaceRuntimes(before, after)
  PROVE  PreparedNext
<1> DEFINE stale == {s \in Wanted : ~Ready(s)}
           dropped == {s \in Segments : cache[s] # None /\ (s \in stale \/ s \notin Wanted)}
           keys == [s \in stale |-> Key(s, schema', docs'[s])]
           released == Plus(Plus(before, after), ByCache(dropped))
<1>1. /\ StoreInv /\ CacheInv /\ PoolTypes /\ Counts /\ config \in Configs
      /\ schema \in Nat /\ schema > 0 /\ failures \in 0..MaxFailures
  BY ConfigTypes DEF RuntimeInv, StoreInv, PoolTypes
<1>2. PICK made \in Allocations(stale) :
        /\ cache' = [s \in Segments |-> IF s \in stale THEN made[s]
                                        ELSE IF s \in dropped THEN None ELSE cache[s]]
        /\ Settle(Opened(made, keys), Counted(made), released, retired)
  BY DEF ReplaceRuntimes
<1>3. /\ before \in [Runtimes -> Nat] /\ after \in [Runtimes -> Nat] /\ config' = config
      /\ docs' \in [Segments -> 0..Capacity] /\ schema' \in schema..MaxSchema
  BY DEF Preparing
<1>4. stale \in SUBSET Segments /\ dropped \in SUBSET Segments
  BY DEF Wanted
<1>5. \A s \in stale : /\ keys[s] = Key(s, schema', docs'[s])
                      /\ keys[s] \in RuntimeState /\ keys[s] # Closed
                      /\ Proper(keys[s], <<s, 0>>, schema')
  <2>1. \A s \in Segments : docs'[s] \in 0..Capacity
    BY <1>3
  <2>2. schema' \in 1..MaxSchema
    BY <1>1, <1>3, ConfigTypes
  <2>3. \A s \in Segments : Key(s, schema', docs'[s]) \in RuntimeState /\ Key(s, schema', docs'[s]) # Closed
    BY <1>1, <2>1, <2>2, KeyTypes
  <2>4. \A s \in Segments : Proper(Key(s, schema', docs'[s]), <<s, 0>>, schema')
    BY <2>2, <1>1, ConfigTypes DEF Proper, Key
  <2>5. QED
    BY <1>4, <2>3, <2>4
<1> HIDE DEF stale, dropped, keys
<1>6. /\ \A s \in stale : made[s] \in Runtimes /\ made[s][1] = s
      /\ \A r \in Range(made) : r \in Runtimes /\ rt[r] = Closed /\ r[1] \in stale /\ made[r[1]] = r
      /\ \A r : r[1] \in stale /\ made[r[1]] = r => r \in Range(made)
  BY AllocationFacts
<1> DEFINE open == Opened(made, keys)
           counts == Counted(made)
<1>7. PoolWith(stale, made, keys)
  <2>1. Opening(stale, made, keys)
    BY <1>4, <1>5 DEF Opening
  <2>2. QED
    BY <1>1, <2>1, OpenedFacts
<1>8. open \in [Runtimes -> RuntimeState] /\ counts \in [Runtimes -> Nat]
  BY <1>7 DEF PoolWith
<1>9. \A s \in stale : open[made[s]] = keys[s]
  BY <1>7 DEF PoolWith
<1>10. \A r \in Runtimes :
        /\ r \notin Range(made) => open[r] = rt[r] /\ counts[r] = refs[r]
        /\ r \in Range(made) => open[r] = keys[r[1]] /\ counts[r] = 1 /\ refs[r] = 0
        /\ open[r] = Closed <=> counts[r] = 0
  BY <1>7 DEF PoolWith
<1>11. /\ released \in [Runtimes -> Nat]
       /\ \A r \in Runtimes : released[r] = (before[r] + after[r]) + ByCache(dropped)[r]
  <2>1. /\ Plus(before, after) \in [Runtimes -> Nat]
        /\ \A r \in Runtimes : Plus(before, after)[r] = before[r] + after[r]
    BY <1>3, PlusReleases
  <2>2. ByCache(dropped) \in [Runtimes -> Nat]
    BY <1>1, <1>4, CacheReleases
  <2>3. QED
    <3> DEFINE f == Plus(before, after)
               g == ByCache(dropped)
    <3>1. f \in [Runtimes -> Nat] /\ g \in [Runtimes -> Nat] /\ released = Plus(f, g)
      BY <2>1, <2>2
    <3>2. \A r \in Runtimes : f[r] = before[r] + after[r]
      BY <2>1
    <3> HIDE DEF f, g, released
    <3>3. released \in [Runtimes -> Nat] /\ \A r \in Runtimes : released[r] = f[r] + g[r]
      BY <3>1, PlusReleases
    <3>4. QED
      BY <3>2, <3>3 DEF g
<1>12. \A r \in Runtimes : ByCache(dropped)[r] = IF r[1] \in dropped THEN CacheN(r) ELSE 0
  BY <1>1, <1>4, CacheReleases
<1>13. /\ \A s \in stale : cache'[s] = made[s]
       /\ \A s \in Segments \ stale : cache'[s] = IF s \in Wanted THEN cache[s] ELSE None
  BY <1>2, <1>4 DEF dropped
<1>14. /\ \A s \in stale : s \in Segments /\ s \in Wanted /\ ~Ready(s)
       /\ \A s \in Segments \ stale : s \in Wanted => Ready(s)
       /\ \A s \in Segments : s \in dropped <=> cache[s] # None /\ (s \in stale \/ s \notin Wanted)
  BY <1>4 DEF stale, dropped
<1>15. Settle(open, counts, released, retired)
  BY <1>2
<1> HIDE DEF stale, dropped, keys, open, counts, released
<1>16. ASSUME NEW r \in Runtimes
       PROVE  counts[r] - released[r] = CacheN(r)' + Uses(r)' + In(r, retired)
  <2>1. /\ before[r] \in Nat /\ after[r] \in Nat /\ Uses(r) \in Nat /\ Uses(r)' \in Nat
        /\ CacheN(r) \in {0, 1} /\ In(r, retired) \in Nat
        /\ Uses(r) = before[r] + after[r] + Uses(r)'
        /\ refs[r] = CacheN(r) + Uses(r) + In(r, retired)
    BY PreparingSums
  <2>2. r[1] \in Segments /\ r # None
    BY <1>1, RuntimePairs, ConfigTypes
  <2>3. CASE r \in Range(made)
    <3>1. CacheN(r)' = 1
      BY <1>6, <1>13, <2>3 DEF CacheN
    <3>2. counts[r] = 1 /\ refs[r] = 0
      BY <1>10, <2>3
    <3>3. CacheN(r) = 0 /\ before[r] = 0 /\ after[r] = 0 /\ Uses(r)' = 0 /\ In(r, retired) = 0
      <4>1. PICK n \in Nat : n = Uses(r)'
        BY <2>1
      <4>2. n = 0 /\ CacheN(r) = 0 /\ before[r] = 0 /\ after[r] = 0 /\ In(r, retired) = 0
        <5>1. Uses(r) = before[r] + after[r] + n
          BY <2>1, <4>1
        <5>2. 0 = CacheN(r) + Uses(r) + In(r, retired)
          BY <2>1, <3>2
        <5>3. /\ CacheN(r) \in Nat /\ before[r] \in Nat /\ after[r] \in Nat /\ Uses(r) \in Nat
              /\ In(r, retired) \in Nat
          BY <2>1
        <5>4. Uses(r) = 0 /\ CacheN(r) = 0 /\ In(r, retired) = 0
          BY <5>2, <5>3
        <5>5. QED
          BY <5>1, <5>3, <5>4
      <4>3. QED
        BY <4>1, <4>2
    <3>4. ByCache(dropped)[r] = 0
      BY <1>12, <3>3
    <3>5. released[r] = 0
      BY <1>11, <3>3, <3>4
    <3>6. QED
      BY <3>1, <3>2, <3>3, <3>5
  <2>4. CASE r \notin Range(made)
    <3>1. counts[r] = refs[r]
      BY <1>10, <2>4
    <3>2. CacheN(r)' = CacheN(r) - ByCache(dropped)[r]
      <4>1. CASE r[1] \in stale
        <5>1. CacheN(r)' = 0
          BY <1>6, <1>13, <2>4, <4>1 DEF CacheN
        <5>2. CacheN(r) = ByCache(dropped)[r]
          BY <1>12, <1>14, <2>2, <4>1 DEF CacheN
        <5>3. QED
          BY <2>1, <5>1, <5>2
      <4>2. CASE r[1] \notin stale /\ r[1] \in Wanted
        <5>1. CacheN(r)' = CacheN(r)
          BY <1>13, <2>2, <4>2 DEF CacheN
        <5>2. ByCache(dropped)[r] = 0
          BY <1>12, <1>14, <2>2, <4>2
        <5>3. QED
          BY <2>1, <5>1, <5>2
      <4>3. CASE r[1] \notin stale /\ r[1] \notin Wanted
        <5>1. CacheN(r)' = 0
          BY <1>13, <2>2, <4>3 DEF CacheN
        <5>2. CacheN(r) = ByCache(dropped)[r]
          BY <1>12, <1>14, <2>2, <4>3 DEF CacheN
        <5>3. QED
          BY <2>1, <5>1, <5>2
      <4>4. QED
        BY <4>1, <4>2, <4>3
    <3>3. ByCache(dropped)[r] \in {0, 1}
      BY <1>12, <2>1
    <3>4. released[r] = (before[r] + after[r]) + ByCache(dropped)[r]
      BY <1>11
    <3>5. QED
      BY <2>1, <3>1, <3>2, <3>3, <3>4
  <2>5. QED
    BY <2>3, <2>4
<1>17. Settled(open)
  <2>1. retired \subseteq Runtimes
    BY <1>1 DEF PoolTypes
  <2>2. Balanced(open, counts, released, retired)
    BY <1>8, <1>10, <1>11, <1>16, <2>1 DEF Balanced
  <2>3. QED
    BY <1>1, <1>15, <2>2, SettleBalances
<1>18. PoolTypes' /\ Counts'
  BY <1>3, <1>17, SettledPool
<1>19. KeepsUsed
  <2>1. ASSUME NEW r \in Runtimes, refs[r] # 0, Uses(r)' > 0
        PROVE  rt'[r] = rt[r]
    <3>1. open[r] = rt[r]
      BY <1>10, <2>1
    <3>2. QED
      BY <1>17, <2>1, <3>1, SettledUsed
  <2>2. QED
    BY <2>1 DEF KeepsUsed
<1>20. Segments' = Segments /\ Runtimes' = Runtimes
  BY <1>3, SameConfig
<1>21. /\ cache' \in [Segments -> Runtimes \cup {None}]
       /\ \A s \in Segments : cache'[s] # None => cache'[s][1] = s
  <2>1. cache' = [s \in Segments |-> cache'[s]]
    BY <1>2
  <2>2. ASSUME NEW s \in Segments
        PROVE  cache'[s] \in Runtimes \cup {None} /\ (cache'[s] # None => cache'[s][1] = s)
    BY <1>1, <1>6, <1>13 DEF CacheInv
  <2>3. QED
    BY <2>1, <2>2
<1>22. CacheInv'
  <2>1. ASSUME NEW r \in Runtimes
        PROVE  Proper(open[r], r, schema')
    <3>1. CASE r \in Range(made)
      <4>1. open[r] = keys[r[1]] /\ r[1] \in stale
        BY <1>6, <1>10, <3>1
      <4>2. QED
        BY <1>5, <4>1 DEF Proper
    <3>2. CASE r \notin Range(made)
      <4>1. open[r] = rt[r] /\ Proper(rt[r], r, schema)
        BY <1>1, <1>10, <3>2 DEF CacheInv
      <4>2. rt[r].schema \in Nat
        BY <1>1, ConfigTypes DEF PoolTypes, RuntimeState
      <4>3. schema' \in Nat /\ schema <= schema'
        BY <1>1, <1>3, ConfigTypes
      <4>4. QED
        BY <1>1, <4>1, <4>2, <4>3 DEF Proper
    <3>3. QED
      BY <3>1, <3>2
  <2>2. \A r \in Runtimes : Proper(rt'[r], r, schema')
    BY <1>17, <2>1, SettledKeys
  <2>3. \A r \in Runtimes : Proper(rt[r], r, schema)'
    BY <2>2 DEF Proper, Closed
  <2>4. QED
    BY <1>20, <1>21, <2>3 DEF CacheInv
<1>23. ASSUME NEW s \in Segments
       PROVE  Fit(s)'
  <2>1. cache'[s] # None => cache'[s] \in Runtimes /\ rt'[cache'[s]] = open[cache'[s]]
    BY <1>1, <1>3, <1>17, <1>21, SettledCached
  <2>2. s \in Wanted <=> docs'[s] > 0
    BY DEF Wanted
  <2>3. CASE s \in stale
    <3>1. cache'[s] = made[s] /\ made[s] \in Runtimes /\ docs'[s] > 0
      BY <1>6, <1>13, <1>14, <2>2, <2>3
    <3>2. open[made[s]] = Key(s, schema', docs'[s])
      BY <1>5, <1>9, <2>3
    <3>3. cache'[s] # None
      BY <1>1, <3>1, ConfigTypes
    <3>4. QED
      BY <2>1, <3>1, <3>2, <3>3 DEF Fit, Key
  <2>4. CASE s \notin stale /\ s \in Wanted
    <3>1. cache'[s] = cache[s] /\ cache[s] # None /\ rt[cache[s]] = Key(s, schema', docs'[s])
      BY <1>13, <1>14, <2>4 DEF Ready
    <3>2. cache[s] \in Runtimes /\ rt[cache[s]] # Closed
      BY <1>1, <3>1, CachedOwned
    <3>3. open[cache[s]] = rt[cache[s]]
      BY <1>6, <1>10, <3>2
    <3>4. QED
      BY <2>1, <2>2, <2>4, <3>1, <3>3 DEF Fit, Key
  <2>5. CASE s \notin Wanted
    <3>1. s \notin stale /\ cache'[s] = None
      BY <1>13, <1>14, <2>5
    <3>2. QED
      BY <2>2, <2>5, <3>1 DEF Fit
  <2>6. QED
    BY <2>3, <2>4, <2>5
<1>24. ServedInv'
  BY <1>20, <1>23 DEF ServedInv
<1>25. ASSUME NEW s \in Segments, docs'[s] = 0, cache[s] = None
       PROVE  cache'[s] = None
  BY <1>13, <1>14, <1>25 DEF Wanted
<1>26. prepared' = TRUE
  BY DEF ReplaceRuntimes
<1>27. QED
  BY <1>18, <1>19, <1>22, <1>24, <1>25, <1>26 DEF PreparedNext

\* A preparation that fails closes what it opened and leaves the cache.
LEMMA FailedPrepares ==
  ASSUME RuntimeInv, NEW before, NEW after, Preparing(before, after), PrepareFails(before, after)
  PROVE  PreparedNext
<1> DEFINE stale == {s \in Wanted : ~Ready(s)}
           KeysOf(S) == [s \in S |-> Key(s, schema', docs'[s])]
<1>1. /\ StoreInv /\ CacheInv /\ PoolTypes /\ Counts /\ ServedInv /\ config \in Configs
      /\ schema \in Nat /\ schema > 0 /\ failures \in 0..MaxFailures
  BY ConfigTypes DEF RuntimeInv, StoreInv, PoolTypes
<1>2. PICK some \in SUBSET stale : \E made \in Allocations(some) :
        Settle(Opened(made, KeysOf(some)), Counted(made),
               Plus(Plus(before, after), ByMembership(Range(made))), retired)
  BY DEF PrepareFails
<1> DEFINE keys == KeysOf(some)
<1>3. PICK made \in Allocations(some) :
        Settle(Opened(made, keys), Counted(made),
               Plus(Plus(before, after), ByMembership(Range(made))), retired)
  BY <1>2
<1> DEFINE open == Opened(made, keys)
           counts == Counted(made)
           released == Plus(Plus(before, after), ByMembership(Range(made)))
<1>4. cache' = cache /\ prepared' = FALSE
  BY DEF PrepareFails
<1>5. /\ before \in [Runtimes -> Nat] /\ after \in [Runtimes -> Nat] /\ config' = config
      /\ docs' \in [Segments -> 0..Capacity] /\ writing' \in Segments /\ schema' \in schema..MaxSchema
      /\ phase = "open" /\ phase' = phase
  BY DEF Preparing
<1>6. some \subseteq Segments
  BY DEF Wanted
<1>7. \A s \in some : /\ keys[s] \in RuntimeState /\ keys[s] # Closed
                     /\ Proper(keys[s], <<s, 0>>, schema')
  <2>1. \A s \in Segments : docs'[s] \in 0..Capacity
    BY <1>5
  <2>2. schema' \in 1..MaxSchema
    BY <1>1, <1>5, ConfigTypes
  <2>3. \A s \in Segments : Key(s, schema', docs'[s]) \in RuntimeState /\ Key(s, schema', docs'[s]) # Closed
    BY <1>1, <2>1, <2>2, KeyTypes
  <2>4. \A s \in Segments : Proper(Key(s, schema', docs'[s]), <<s, 0>>, schema')
    BY <2>2, <1>1, ConfigTypes DEF Proper, Key
  <2>5. QED
    BY <1>6, <2>3, <2>4
<1>8. \A r \in Range(made) : r \in Runtimes /\ rt[r] = Closed /\ r[1] \in some
  BY AllocationFacts
<1>9. Settle(open, counts, released, retired)
  BY <1>3
<1> HIDE DEF stale, keys
<1>10. PoolWith(some, made, keys)
  <2>1. Opening(some, made, keys)
    BY <1>6, <1>7 DEF Opening
  <2>2. QED
    BY <1>1, <2>1, OpenedFacts
<1>11. open \in [Runtimes -> RuntimeState] /\ counts \in [Runtimes -> Nat]
  BY <1>10 DEF PoolWith
<1>12. \A r \in Runtimes :
         /\ r \notin Range(made) => open[r] = rt[r] /\ counts[r] = refs[r]
         /\ r \in Range(made) => open[r] = keys[r[1]] /\ counts[r] = 1 /\ refs[r] = 0
         /\ open[r] = Closed <=> counts[r] = 0
  BY <1>10 DEF PoolWith
<1>13. /\ released \in [Runtimes -> Nat]
       /\ \A r \in Runtimes : released[r] = (before[r] + after[r]) + In(r, Range(made))
  <2> DEFINE f == Plus(before, after)
             g == ByMembership(Range(made))
  <2>1. f \in [Runtimes -> Nat] /\ \A r \in Runtimes : f[r] = before[r] + after[r]
    BY <1>5, PlusReleases
  <2>2. g \in [Runtimes -> Nat] /\ \A r \in Runtimes : g[r] = In(r, Range(made))
    BY MemberReleases
  <2>3. released = Plus(f, g)
    OBVIOUS
  <2> HIDE DEF f, g, released
  <2>4. released \in [Runtimes -> Nat] /\ \A r \in Runtimes : released[r] = f[r] + g[r]
    BY <2>1, <2>2, <2>3, PlusReleases
  <2>5. QED
    BY <2>1, <2>2, <2>4
<1> HIDE DEF open, counts, released
<1>14. ASSUME NEW r \in Runtimes
       PROVE  counts[r] - released[r] = CacheN(r)' + Uses(r)' + In(r, retired)
  <2>1. /\ before[r] \in Nat /\ after[r] \in Nat /\ Uses(r) \in Nat /\ Uses(r)' \in Nat
        /\ CacheN(r) \in {0, 1} /\ In(r, retired) \in Nat
        /\ Uses(r) = before[r] + after[r] + Uses(r)'
        /\ refs[r] = CacheN(r) + Uses(r) + In(r, retired)
    BY PreparingSums
  <2>2. CacheN(r)' = CacheN(r)
    BY <1>4, SameOwners
  <2>3. counts[r] = refs[r] + In(r, Range(made)) /\ In(r, Range(made)) \in {0, 1}
    <3>1. refs[r] \in Nat
      BY <1>1 DEF PoolTypes
    <3>2. QED
      BY <1>12, <3>1 DEF In
  <2>4. released[r] = (before[r] + after[r]) + In(r, Range(made))
    BY <1>13
  <2>5. QED
    BY <2>1, <2>2, <2>3, <2>4
<1>15. Settled(open)
  <2>1. retired \subseteq Runtimes
    BY <1>1 DEF PoolTypes
  <2>2. Balanced(open, counts, released, retired)
    BY <1>11, <1>12, <1>13, <1>14, <2>1 DEF Balanced
  <2>3. QED
    BY <1>1, <1>9, <2>2, SettleBalances
<1>16. PoolTypes' /\ Counts'
  BY <1>5, <1>15, SettledPool
<1>17. \A r \in Runtimes : refs[r] # 0 => open[r] = rt[r]
  BY <1>12
<1>18. KeepsUsed
  BY <1>15, <1>17, SettledUsed DEF KeepsUsed
<1>19. Segments' = Segments /\ Runtimes' = Runtimes
  BY <1>5, SameConfig
<1>20. /\ cache' \in [Segments -> Runtimes \cup {None}]
       /\ \A s \in Segments : cache'[s] # None => cache'[s][1] = s
  BY <1>1, <1>4 DEF CacheInv
<1>21. CacheInv'
  <2>1. ASSUME NEW r \in Runtimes
        PROVE  Proper(open[r], r, schema')
    <3>1. CASE r \in Range(made)
      <4>1. open[r] = keys[r[1]] /\ r[1] \in some
        BY <1>8, <1>12, <3>1
      <4>2. QED
        BY <1>7, <4>1 DEF Proper
    <3>2. CASE r \notin Range(made)
      <4>1. open[r] = rt[r] /\ Proper(rt[r], r, schema)
        BY <1>1, <1>12, <3>2 DEF CacheInv
      <4>2. rt[r].schema \in Nat
        BY <1>1, ConfigTypes DEF PoolTypes, RuntimeState
      <4>3. schema' \in Nat /\ schema <= schema'
        BY <1>1, <1>5, ConfigTypes
      <4>4. QED
        BY <1>1, <4>1, <4>2, <4>3 DEF Proper
    <3>3. QED
      BY <3>1, <3>2
  <2>2. \A r \in Runtimes : Proper(rt'[r], r, schema')
    BY <1>15, <2>1, SettledKeys
  <2>3. \A r \in Runtimes : Proper(rt[r], r, schema)'
    BY <2>2 DEF Proper, Closed
  <2>4. QED
    BY <1>19, <1>20, <2>3 DEF CacheInv
<1>22. ASSUME NEW s \in Segments, cache[s] # None
       PROVE  rt'[cache[s]] = rt[cache[s]] /\ rt[cache[s]].schema <= schema
  <2>1. refs[cache[s]] # 0 /\ cache[s] \in Runtimes /\ rt[cache[s]].schema <= schema
    BY <1>1, <1>22, CachedOwned
  <2>2. rt'[cache[s]] = open[cache[s]]
    BY <1>1, <1>4, <1>5, <1>15, <1>20, <1>22, SettledCached
  <2>3. QED
    BY <1>17, <2>1, <2>2
<1>23. ServedInv'
  <2>1. SUFFICES ASSUME cache[writing'] # None, rt'[cache[writing']].schema = schema',
                        NEW s \in Segments, s # writing'
                 PROVE  Fit(s)'
    BY <1>4, <1>19 DEF ServedInv
  <2>2. writing' = writing /\ schema' = schema /\ docs'[s] = docs[s]
    <3>1. rt[cache[writing']].schema = schema' /\ rt[cache[writing']].schema <= schema
      BY <1>5, <1>22, <2>1
    <3>2. ~(schema' > schema)
      BY <1>1, <1>5, <3>1, ConfigTypes
    <3>3. QED
      BY <2>1, <3>2 DEF Preparing
  <2>3. Fit(s)
    <3>1. cache[writing] # None /\ rt[cache[writing]].schema = schema
      BY <1>5, <1>22, <2>1, <2>2
    <3>2. QED
      BY <1>1, <1>5, <2>1, <2>2, <3>1 DEF ServedInv
  <2>4. QED
    BY <1>4, <1>22, <2>2, <2>3 DEF Fit, Key
<1>24. QED
  BY <1>4, <1>16, <1>18, <1>21, <1>23 DEF PreparedNext

\* prepareSegmentRuntimesLocked, whether it grows, replaces or fails.
LEMMA Prepares ==
  ASSUME RuntimeInv, NEW before, NEW after, Preparing(before, after),
         Prepare(before, after) \/ PrepareFails(before, after)
  PROVE  PreparedNext
BY AppendPrepares, ReplacePrepares, FailedPrepares DEF Prepare

-----------------------------------------------------------------------------
(* Parts of the invariant that a step leaves alone.                        *)

\* Who reads a runtime had it open before.
LEMMA UsedOpen ==
  ASSUME Counts, PoolTypes, NEW r \in Runtimes, Uses(r) > 0
  PROVE  refs[r] # 0
<1>1. refs[r] = CacheN(r) + Uses(r) + In(r, retired)
  BY DEF Counts
<1>2. CacheN(r) \in Nat /\ Uses(r) \in Nat /\ In(r, retired) \in Nat
  BY UseTypes, InTypes
<1>3. QED
  BY <1>1, <1>2

\* The queries, when a step leaves the goroutines and what they read alone.
LEMMA QueryKept ==
  ASSUME RuntimeInv, config' = config, query' = query, leases' = leases, KeepsUsed,
         Exclusive \/ (snap' = snap /\ (phase' = phase \/ phase # "open"))
  PROVE  QueryInv'
<1>1. QueryInv /\ Counts /\ PoolTypes
  BY DEF RuntimeInv
<1>2. Runtimes' = Runtimes
  BY SameConfig
<1>3. QueryShape'
  BY <1>1, <1>2 DEF QueryInv, QueryShape
<1>4. leases' = Cardinality(Leased)'
  BY <1>1 DEF QueryInv, Leased
<1>5. ASSUME NEW q \in Queries, query'[q].pc = "acquiring"
      PROVE  /\ phase' = "open" /\ snap'[SnapOf(query'[q].kind)].set
             /\ query'[q].view = snap'[SnapOf(query'[q].kind)].view
  BY <1>1, <1>5 DEF QueryInv, Exclusive, SnapOf
<1>6. ASSUME NEW q \in Queries, NEW r \in query'[q].held
      PROVE  rt'[r] = query'[q].view[r]
  <2>1. r \in query[q].held /\ r \in Runtimes /\ rt[r] = query[q].view[r]
    BY <1>1 DEF QueryInv, QueryShape
  <2>2. refs[r] # 0
    BY <1>1, <2>1, UsersCount, UsedOpen
  <2>3. Uses(r)' > 0
    BY <1>6, UsersCountNext
  <2>4. QED
    BY <2>1, <2>2, <2>3 DEF KeepsUsed
<1>7. QED
  BY <1>3, <1>4, <1>5, <1>6 DEF QueryInv, SnapOf

\* invalidateQuerySnapshotLocked leaves no snapshot that could be stale.
LEMMA SnapDropped ==
  ASSUME Invalidate
  PROVE  SnapInv' /\ snap' = [k \in SnapKinds |-> NoSnapshot]
<1>1. snap' = [k \in SnapKinds |-> NoSnapshot]
  BY DEF Invalidate
<1>2. \A k \in SnapKinds : ~snap'[k].set /\ snap'[k].view = <<>> /\ DOMAIN snap'[k].view = {}
  BY <1>1 DEF NoSnapshot
<1>3. snap' = [k \in SnapKinds |-> snap'[k]]
  BY <1>1
<1>4. SnapshotsCurrent'
  BY <1>2 DEF SnapshotsCurrent, SnapKinds
<1>5. QED
  BY <1>1, <1>2, <1>3, <1>4 DEF SnapInv, SnapKinds

\* Snapshots stay current when a step leaves what they select alone.
LEMMA SnapKept ==
  ASSUME RuntimeInv, config' = config, snap' = snap, KeepsUsed, deletes' = deletes, schema' = schema,
         docs' = docs, \A k \in SnapKinds : Selected(k)' = Selected(k)
  PROVE  SnapInv'
<1>1. SnapInv /\ Counts /\ PoolTypes
  BY DEF RuntimeInv
<1>2. Runtimes' = Runtimes
  BY SameConfig
<1>3. \A k \in SnapKinds : (~snap[k].set => snap[k].view = <<>>) /\ DOMAIN snap[k].view \subseteq Runtimes
  BY <1>1 DEF SnapInv
<1>4. ASSUME NEW k \in SnapKinds, NEW r \in DOMAIN snap'[k].view
      PROVE  rt'[r] = snap'[k].view[r]
  <2>1. r \in DOMAIN snap[k].view /\ r \in Runtimes /\ rt[r] = snap[k].view[r]
    BY <1>1, <1>4 DEF SnapInv
  <2>2. refs[r] # 0
    BY <1>1, <2>1, UsersCount, UsedOpen
  <2>3. Uses(r)' > 0
    BY <1>4, UsersCountNext
  <2>4. QED
    BY <2>1, <2>2, <2>3 DEF KeepsUsed
<1>5. SnapshotsCurrent'
  <2>1. SnapshotsCurrent
    BY <1>1 DEF SnapInv
  <2>2. SUFFICES ASSUME NEW k \in SnapKinds, snap[k].set
                 PROVE  /\ snap[k].deletes = deletes
                        /\ Range(snap[k].view) = {Key(s, schema, docs[s]) : s \in Selected(k)}'
    BY DEF SnapshotsCurrent, SnapKinds, Range
  <2>3. {Key(s, schema, docs[s]) : s \in Selected(k)}' = {Key(s, schema, docs[s]) : s \in Selected(k)}
    BY DEF Key
  <2>4. QED
    BY <2>1, <2>2, <2>3 DEF SnapshotsCurrent
<1>6. snap' = [k \in SnapKinds |-> snap'[k]]
  BY <1>1 DEF SnapInv
<1>7. QED
  BY <1>2, <1>3, <1>4, <1>5, <1>6 DEF SnapInv, SnapKinds

\* What a snapshot selects depends on documents, the writing segment and the
\* artifacts; sealing a segment without an artifact does not show.
LEMMA SelectionKept ==
  ASSUME StoreInv, config' = config, docs' = docs, indexed' = indexed,
         writing' = writing \/ writing' >= nextSeg
  PROVE  \A k \in SnapKinds : Selected(k)' = Selected(k)
<1>1. Segments' = Segments
  BY SameConfig
<1>2. Sealed' \cap indexed' = Sealed \cap indexed
  <2>1. \A s \in indexed : s # writing /\ s # writing' /\ s \in Segments
    BY ConfigTypes DEF StoreInv, Segments
  <2>2. QED
    BY <1>1, <2>1 DEF Sealed
<1>3. QED
  BY <1>1, <1>2 DEF Selected

\* A maintenance that has nothing yet.
LEMMA MaintFresh ==
  ASSUME \/ maint' = NoMaintenance
         \/ maint' = [NoMaintenance EXCEPT !.pc = "build"]
  PROVE  MaintInv'
<1>1. /\ maint' = [pc |-> maint'.pc, inputs |-> maint'.inputs, sources |-> maint'.sources,
                   outputs |-> maint'.outputs]
      /\ maint'.pc \in {"none", "build"} /\ maint'.inputs = {} /\ maint'.sources = {}
      /\ maint'.outputs = <<>>
  BY DEF NoMaintenance
<1>2. MaintShape'
  BY <1>1 DEF MaintShape
<1>3. QED
  BY <1>1, <1>2 DEF MaintInv

\* A maintenance under way: the store goes on in the writing segment and in
\* segments that were not reserved.
LEMMA MaintKept ==
  ASSUME RuntimeInv, maint' = maint, config' = config, schema' = schema, KeepsUsed,
         nextSeg' \in Int, nextSeg <= nextSeg',
         \A s \in Segments : s # writing /\ s < nextSeg => docs'[s] = docs[s] /\ s # writing',
         \A s \in Segments : docs'[s] = 0 /\ cache[s] = None => cache'[s] = None
  PROVE  MaintInv'
<1>1. MaintInv /\ StoreInv /\ Counts /\ PoolTypes /\ nextSeg \in Int
  BY ConfigTypes DEF RuntimeInv, StoreInv
<1>2. Segments' = Segments /\ Runtimes' = Runtimes /\ Capacity' = Capacity
  BY SameConfig
<1>3. MaintShape'
  BY <1>1, <1>2 DEF MaintInv, MaintShape
<1>4. \A s \in Sealed : s \in Segments /\ s < nextSeg /\ s # writing
  <2>1. MaxSegment \in Nat /\ \A s \in Segments : s >= nextSeg => docs[s] = 0
    BY <1>1, ConfigTypes DEF StoreInv
  <2>2. \A s \in Segments : s \in Int
    BY <2>1 DEF Segments
  <2>3. \A s \in Sealed : s \in Segments /\ docs[s] > 0 /\ s # writing
    BY DEF Sealed
  <2>4. QED
    BY <1>1, <2>1, <2>2, <2>3
<1>5. Sealed \subseteq Sealed'
  BY <1>2, <1>4 DEF Sealed
<1>6. ASSUME NEW s \in DOMAIN maint.outputs, NEW n, Output(s, n)
      PROVE  Output(s, n)'
  <2> DEFINE r == maint.outputs[s]
  <2>1. r \in Runtimes /\ r[1] = s /\ rt[r] = Key(s, schema, n)
    BY <1>6 DEF Output
  <2>2. r \in Range(maint.outputs) /\ r \in Range(maint'.outputs)
    BY DEF Range
  <2> HIDE DEF r
  <2>3. refs[r] # 0
    BY <1>1, <2>1, <2>2, UsersCount, UsedOpen
  <2>4. rt'[r] = rt[r]
    BY <2>1, <2>2, <2>3, UsersCountNext DEF KeepsUsed
  <2>5. QED
    BY <1>2, <2>1, <2>4 DEF Output, Key, r
<1>7. CASE maint.pc = "built"
  <2>1. /\ DOMAIN maint.outputs = maint.inputs /\ maint.inputs \subseteq Sealed
        /\ \A s \in maint.inputs : Output(s, docs[s])
    BY <1>1, <1>7 DEF MaintInv
  <2>2. \A s \in maint.inputs : docs'[s] = docs[s]
    BY <1>4, <2>1
  <2>3. \A s \in maint.inputs : Output(s, docs[s])'
    BY <1>6, <2>1, <2>2 DEF Output, Key
  <2>4. QED
    BY <1>3, <1>5, <1>7, <2>1, <2>3 DEF MaintInv
<1>8. CASE maint.pc = "compacted"
  <2>1. /\ maint.inputs \subseteq Sealed
        /\ \A s \in DOMAIN maint.outputs :
             /\ s \in Segments /\ s < nextSeg /\ s # writing /\ docs[s] = 0 /\ cache[s] = None
             /\ \E n \in 1..Capacity : Output(s, n)
    BY <1>1, <1>8 DEF MaintInv
  <2>2. ASSUME NEW s \in DOMAIN maint.outputs
        PROVE  /\ s \in Segments /\ s < nextSeg' /\ s # writing' /\ docs'[s] = 0 /\ cache'[s] = None
               /\ \E n \in 1..Capacity : Output(s, n)'
    <3>1. s \in Int
      BY <1>1, <2>1, ConfigTypes DEF Segments, StoreInv
    <3>2. QED
      BY <1>1, <1>6, <2>1, <3>1
  <2>3. QED
    BY <1>2, <1>3, <1>5, <1>8, <2>1, <2>2 DEF MaintInv
<1>9. CASE maint.pc \notin {"built", "compacted"}
  BY <1>1, <1>3, <1>5, <1>9 DEF MaintInv
<1>10. QED
  BY <1>7, <1>8, <1>9

\* A step that only releases keeps what queries are served from.
LEMMA ServedKept ==
  ASSUME RuntimeInv, config' = config, cache' = cache, docs' = docs, schema' = schema,
         prepared' = prepared, phase' = "open" => phase = "open",
         Settled(rt), writing' \in Segments, writing' = writing \/ cache[writing'] = None
  PROVE  ServedInv'
<1>1. StoreInv /\ CacheInv /\ PoolTypes /\ Counts /\ ServedInv
  BY DEF RuntimeInv
<1>2. Segments' = Segments
  BY SameConfig
<1>3. /\ cache' \in [Segments -> Runtimes \cup {None}]
      /\ \A s \in Segments : cache'[s] # None => cache'[s][1] = s
  BY <1>1 DEF CacheInv
<1>4. ASSUME NEW s \in Segments, cache[s] # None
      PROVE  rt'[cache[s]] = rt[cache[s]]
  BY <1>1, <1>3, <1>4, SettledCached
<1>5. \A s \in Segments : Fit(s) => Fit(s)'
  BY <1>4 DEF Fit, Key
<1>6. QED
  BY <1>1, <1>2, <1>4, <1>5 DEF ServedInv

\* A step that only releases keeps the entries of the cache.
LEMMA CacheKept ==
  ASSUME RuntimeInv, config' = config, cache' = cache, schema' = schema, Settled(rt)
  PROVE  CacheInv'
<1>1. CacheInv
  BY DEF RuntimeInv
<1>2. Segments' = Segments /\ Runtimes' = Runtimes
  BY SameConfig
<1>3. \A r \in Runtimes : Proper(rt[r], r, schema)
  BY <1>1 DEF CacheInv
<1>4. \A r \in Runtimes : Proper(rt'[r], r, schema)
  BY <1>3, SettledKeys
<1>5. \A r \in Runtimes : Proper(rt[r], r, schema)'
  BY <1>4 DEF Proper, Closed
<1>6. QED
  BY <1>1, <1>2, <1>5 DEF CacheInv

-----------------------------------------------------------------------------
(* The store.                                                              *)

\* A step of the store: segments are only reserved, the schema only grows, and
\* documents are in reserved segments.
StoreGoes ==
  /\ config' = config
  /\ docs' \in [Segments -> 0..Capacity]
  /\ writing' \in Segments /\ nextSeg' \in 2..(MaxSegment + 1) /\ writing' < nextSeg'
  /\ nextSeg <= nextSeg' /\ \A s \in Segments : s >= nextSeg' => docs'[s] = 0
  /\ schema' \in schema..MaxSchema /\ deletes' \in 0..MaxDeletes /\ indexed' \subseteq Segments
  /\ \A s \in indexed' : s < nextSeg' /\ s # writing'

\* The writing segment grows or is sealed; the others stay.
StoreGrows ==
  /\ schema' = schema
  /\ \A s \in Segments : s # writing /\ s < nextSeg => docs'[s] = docs[s] /\ s # writing'
  /\ \/ writing' = writing /\ \A s \in Segments \ {writing} : docs'[s] = docs[s]
     \/ cache[writing'] = None

\* The part of the invariant about the store.
LEMMA StoreNext ==
  ASSUME StoreInv, StoreGoes, iterators' \in Nat, phase' \in {"open", "draining", "closed"},
         prepared' \in BOOLEAN,
         \A s \in Segments : docs'[s] = 0 /\ cache[s] = None => cache'[s] = None
  PROVE  StoreInv'
<1>1. /\ Segments' = Segments /\ Capacity' = Capacity /\ MaxSegment' = MaxSegment
      /\ MaxSchema' = MaxSchema /\ MaxDeletes' = MaxDeletes
  BY SameConfig DEF StoreGoes
<1>2. MaxSegment \in Nat /\ MaxSchema \in Nat /\ schema \in 1..MaxSchema /\ nextSeg \in Int
  BY ConfigTypes DEF StoreInv
<1>3. schema' \in 1..MaxSchema
  BY <1>2 DEF StoreGoes
<1>4. ASSUME NEW s \in Segments, s >= nextSeg'
      PROVE  docs'[s] = 0 /\ cache'[s] = None
  <2>1. docs'[s] = 0 /\ s >= nextSeg
    BY <1>2, <1>4 DEF StoreGoes, Segments
  <2>2. cache[s] = None
    BY <2>1 DEF StoreInv
  <2>3. QED
    BY <2>1, <2>2
<1>5. QED
  BY <1>1, <1>3, <1>4 DEF StoreInv, StoreGoes

\* StoreAppend, with or without sealing the writing segment.
LEMMA StoreAppendGrows ==
  ASSUME StoreInv, NEW n \in 0..MaxBatch, StoreAppend(n), config' = config, schema' = schema,
         deletes' = deletes, indexed' = indexed
  PROVE  StoreGoes /\ StoreGrows
<1>1. /\ Capacity \in Nat /\ MaxSegment \in Nat /\ MaxBatch \in 0..Capacity /\ n \in 0..Capacity
      /\ MaxSchema \in Nat
  BY ConfigTypes DEF StoreInv
<1>2. /\ docs \in [Segments -> 0..Capacity] /\ writing \in Segments /\ writing < nextSeg
      /\ nextSeg \in 2..(MaxSegment + 1) /\ docs[writing] \in 0..Capacity
      /\ \A s \in Segments : s >= nextSeg => docs[s] = 0 /\ cache[s] = None
      /\ \A s \in indexed : s \in Segments /\ s < nextSeg /\ s # writing
      /\ schema \in 1..MaxSchema /\ deletes \in 0..MaxDeletes
  BY DEF StoreInv
<1>3. CASE n <= Capacity - docs[writing]
  <2>1. docs' = [docs EXCEPT ![writing] = @ + n] /\ writing' = writing /\ nextSeg' = nextSeg
    BY <1>3 DEF StoreAppend
  <2>2. docs[writing] + n \in 0..Capacity
    BY <1>1, <1>2, <1>3
  <2>3. /\ docs' \in [Segments -> 0..Capacity]
        /\ \A s \in Segments \ {writing} : docs'[s] = docs[s]
    BY <1>2, <2>1, <2>2
  <2>4. schema' \in schema..MaxSchema
    BY <1>1, <1>2
  <2>5. StoreGoes
    BY <1>1, <1>2, <2>1, <2>3, <2>4 DEF StoreGoes, Segments
  <2>6. QED
    BY <2>1, <2>3, <2>5 DEF StoreGrows
<1>4. CASE ~(n <= Capacity - docs[writing])
  <2>1. /\ nextSeg \in Segments /\ writing' = nextSeg /\ nextSeg' = nextSeg + 1
        /\ docs' = [docs EXCEPT ![writing] = Capacity, ![nextSeg] = n - (Capacity - docs[writing])]
    BY <1>4 DEF StoreAppend
  <2>2. n - (Capacity - docs[writing]) \in 0..Capacity /\ Capacity \in 0..Capacity
    BY <1>1, <1>2, <1>4
  <2>3. /\ docs' \in [Segments -> 0..Capacity]
        /\ \A s \in Segments : s # writing /\ s # nextSeg => docs'[s] = docs[s]
    BY <1>2, <2>1, <2>2
  <2>4. schema' \in schema..MaxSchema
    BY <1>1, <1>2
  <2>5. \A s \in Segments : s >= nextSeg + 1 => docs'[s] = 0
    BY <1>1, <1>2, <2>3 DEF Segments
  <2>6. \A s \in indexed : s < nextSeg + 1 /\ s # nextSeg
    BY <1>1, <1>2 DEF Segments
  <2>7. StoreGoes
    <3>1. nextSeg' \in 2..(MaxSegment + 1) /\ writing' < nextSeg' /\ nextSeg <= nextSeg'
      BY <1>1, <1>2, <2>1 DEF Segments
    <3>2. writing' \in Segments /\ deletes' \in 0..MaxDeletes /\ indexed' \subseteq Segments
      BY <1>2, <2>1
    <3>3. QED
      BY <2>1, <2>3, <2>4, <2>5, <2>6, <3>1, <3>2 DEF StoreGoes
  <2>8. cache[writing'] = None
    BY <1>1, <1>2, <2>1 DEF Segments
  <2>9. QED
    BY <1>2, <2>1, <2>3, <2>7, <2>8 DEF StoreGrows, Segments
<1>5. QED
  BY <1>3, <1>4

\* StoreFlush.
LEMMA StoreFlushGrows ==
  ASSUME StoreInv, StoreFlush, config' = config, schema' \in schema..MaxSchema, deletes' = deletes,
         indexed' \subseteq indexed
  PROVE  /\ StoreGoes /\ docs' = docs /\ (writing' = writing \/ writing' >= nextSeg)
         /\ writing' = writing \/ cache[writing'] = None
         /\ docs[writing'] = 0
         /\ schema' = schema => StoreGrows
<1>1. Capacity \in Nat /\ MaxSegment \in Nat /\ MaxSchema \in Nat
  BY ConfigTypes DEF StoreInv
<1>2. /\ docs \in [Segments -> 0..Capacity] /\ writing \in Segments /\ writing < nextSeg
      /\ nextSeg \in 2..(MaxSegment + 1)
      /\ \A s \in Segments : s >= nextSeg => docs[s] = 0 /\ cache[s] = None
      /\ \A s \in indexed : s \in Segments /\ s < nextSeg /\ s # writing
      /\ deletes \in 0..MaxDeletes
  BY DEF StoreInv
<1>3. docs' = docs
  BY DEF StoreFlush
<1>4. CASE docs[writing] = 0
  <2>1. writing' = writing /\ nextSeg' = nextSeg
    BY <1>4 DEF StoreFlush
  <2>2. StoreGoes
    BY <1>1, <1>2, <1>3, <2>1 DEF StoreGoes, Segments
  <2>3. QED
    BY <1>2, <1>3, <1>4, <2>1, <2>2 DEF StoreGrows
<1>5. CASE docs[writing] # 0
  <2>1. nextSeg \in Segments /\ writing' = nextSeg /\ nextSeg' = nextSeg + 1
    BY <1>5 DEF StoreFlush
  <2>2. \A s \in Segments : s >= nextSeg + 1 => docs[s] = 0
    BY <1>1, <1>2 DEF Segments
  <2>3. \A s \in indexed : s < nextSeg + 1 /\ s # nextSeg
    BY <1>1, <1>2 DEF Segments
  <2>4. StoreGoes
    BY <1>1, <1>2, <1>3, <2>1, <2>2, <2>3 DEF StoreGoes, Segments
  <2>5. cache[writing'] = None /\ docs[writing'] = 0 /\ writing' >= nextSeg
    BY <1>1, <1>2, <2>1 DEF Segments
  <2>6. QED
    BY <1>2, <1>3, <2>1, <2>4, <2>5 DEF StoreGrows, Segments
<1>6. QED
  BY <1>4, <1>5

\* A store in which at most the schema, deletions or artifacts change.
LEMMA StoreStays ==
  ASSUME StoreInv, config' = config, docs' = docs, writing' = writing, nextSeg' = nextSeg,
         schema' \in schema..MaxSchema, deletes' \in 0..MaxDeletes, indexed' \subseteq indexed
  PROVE  StoreGoes /\ (schema' = schema => StoreGrows)
<1>1. MaxSegment \in Nat /\ nextSeg \in Int
  BY ConfigTypes DEF StoreInv
<1>2. QED
  BY <1>1 DEF StoreInv, StoreGoes, StoreGrows

\* The snapshots are released before or after a preparation, or kept.
LEMMA SnapshotsReleased ==
  /\ Invalidate =>
       /\ \A r \in Runtimes : SnapN(r) = BySnapshots[r] + NoRelease[r] + SnapN(r)'
       /\ \A r \in Runtimes : SnapN(r) = NoRelease[r] + BySnapshots[r] + SnapN(r)'
  /\ snap' = snap => \A r \in Runtimes : SnapN(r) = NoRelease[r] + NoRelease[r] + SnapN(r)'
<1>1. \A r \in Runtimes : BySnapshots[r] = SnapN(r) /\ NoRelease[r] = 0
  BY SnapshotReleases, NoReleases
<1>2. \A r \in Runtimes : SnapN(r) \in Nat
  BY UseTypes
<1>3. Invalidate => \A r \in Runtimes : SnapN(r)' = 0
  BY SameOwners
<1>4. snap' = snap => \A r \in Runtimes : SnapN(r)' = SnapN(r)
  BY SameOwners
<1>5. QED
  BY <1>1, <1>2, <1>3, <1>4

\* Rewritten documents fill consecutive segments from first on.
LEMMA RewriteFacts ==
  ASSUME config \in Configs, NEW S, NEW first \in 2..(MaxSegment + 1), NEW out \in Rewrites(S, first)
  PROVE  \E last \in (first - 1)..MaxSegment :
           /\ DOMAIN out = first..last /\ out \in [first..last -> 1..Capacity]
           /\ Cardinality(DOMAIN out) = last - first + 1
<1>1. out \in UNION {[first..last -> 1..Capacity] : last \in (first - 1)..MaxSegment}
  BY DEF Rewrites
<1>2. PICK last \in (first - 1)..MaxSegment : out \in [first..last -> 1..Capacity]
  BY <1>1
<1>3. DOMAIN out = first..last
  BY <1>2
<1>4. MaxSegment \in Nat /\ first \in Int /\ last \in Int /\ last >= first - 1
  BY ConfigTypes
<1>5. Cardinality(first..last) = last - first + 1
  <2>1. Cardinality(first..last) = IF first > last THEN 0 ELSE last - first + 1
    BY <1>4, FS_Interval
  <2>2. QED
    BY <1>4, <2>1
<1>6. QED
  BY <1>2, <1>3, <1>5

-----------------------------------------------------------------------------
(* Operations that prepare runtimes.                                       *)

PrepareStep(before, after) ==
  /\ Exclusive /\ StoreGoes
  /\ before \in [Runtimes -> Nat] /\ after \in [Runtimes -> Nat]
  /\ \A r \in Runtimes : SnapN(r) = before[r] + after[r] + SnapN(r)'
  /\ query' = query /\ leases' = leases /\ phase' = phase /\ iterators' \in Nat
  /\ maint'.sources = maint.sources /\ maint'.outputs = maint.outputs
  /\ \/ /\ writing' = writing /\ schema' = schema
        /\ \A s \in Segments \ {writing} : docs'[s] = docs[s]
     \/ cache[writing'] = None
     \/ schema' > schema
  /\ Prepare(before, after) \/ PrepareFails(before, after)

\* An operation that prepares runtimes keeps the invariant.
LEMMA PrepareStepInv ==
  ASSUME RuntimeInv, NEW before, NEW after, PrepareStep(before, after), SnapInv',
         PreparedNext => MaintInv'
  PROVE  RuntimeInv'
<1>1. Preparing(before, after)
  BY DEF Preparing, PrepareStep, StoreGoes, Exclusive
<1>2. PreparedNext
  BY <1>1, Prepares DEF PrepareStep
<1>3. StoreInv /\ config' = config
  BY DEF RuntimeInv, PrepareStep, StoreGoes
<1>4. StoreInv'
  <2>1. /\ iterators' \in Nat /\ phase' \in {"open", "draining", "closed"} /\ prepared' \in BOOLEAN
        /\ StoreGoes
    BY <1>2, <1>3 DEF StoreInv, PrepareStep, PreparedNext
  <2>2. \A s \in Segments : docs'[s] = 0 /\ cache[s] = None => cache'[s] = None
    BY <1>2 DEF PreparedNext
  <2>3. QED
    BY <1>3, <2>1, <2>2, StoreNext
<1>5. QueryInv'
  BY <1>2, <1>3, QueryKept DEF PrepareStep, PreparedNext
<1>6. PhaseInv'
  BY DEF PrepareStep, Exclusive, PhaseInv
<1>7. MaintInv'
  BY <1>2
<1>8. QED
  BY <1>2, <1>4, <1>5, <1>6, <1>7 DEF PreparedNext, RuntimeInv

\* The three ways in which operations release the snapshots.
LEMMA ReleaseKinds ==
  /\ NoRelease \in [Runtimes -> Nat] /\ BySnapshots \in [Runtimes -> Nat]
BY NoReleases, SnapshotReleases

\* Insert, Upsert and Update, also during a build.
LEMMA WriteInv ==
  ASSUME RuntimeInv, NEW n \in 0..MaxBatch, Write(n)
  PROVE  RuntimeInv'
<1>1. StoreInv /\ Exclusive /\ config' = config
  BY DEF RuntimeInv, Write
<1>2. StoreGoes /\ StoreGrows
  BY <1>1, StoreAppendGrows DEF Write
<1>3. Invalidate /\ SnapInv'
  BY SnapDropped DEF Write
<1>4. PrepareStep(BySnapshots, NoRelease)
  <2>1. \A r \in Runtimes : SnapN(r) = BySnapshots[r] + NoRelease[r] + SnapN(r)'
    BY <1>3, SnapshotsReleased
  <2>2. /\ query' = query /\ leases' = leases /\ phase' = phase /\ iterators' = iterators /\ maint' = maint
        /\ Prepare(BySnapshots, NoRelease) \/ PrepareFails(BySnapshots, NoRelease)
    BY DEF Write
  <2>3. iterators \in Nat
    BY <1>1 DEF StoreInv
  <2>4. \/ /\ writing' = writing /\ schema' = schema
           /\ \A s \in Segments \ {writing} : docs'[s] = docs[s]
        \/ cache[writing'] = None
    BY <1>2 DEF StoreGrows
  <2>5. QED
    BY <1>1, <1>2, <2>1, <2>2, <2>3, <2>4, ReleaseKinds DEF PrepareStep
<1>5. ASSUME PreparedNext
      PROVE  MaintInv'
  <2>1. maint' = maint /\ schema' = schema /\ KeepsUsed
    BY <1>2, <1>5 DEF Write, PreparedNext
  <2>2. nextSeg' \in Int /\ nextSeg <= nextSeg'
    BY <1>2 DEF StoreGoes
  <2>3. /\ \A s \in Segments : s # writing /\ s < nextSeg => docs'[s] = docs[s] /\ s # writing'
        /\ \A s \in Segments : docs'[s] = 0 /\ cache[s] = None => cache'[s] = None
    BY <1>2, <1>5 DEF StoreGrows, PreparedNext
  <2>4. QED
    BY <1>1, <2>1, <2>2, <2>3, MaintKept
<1>6. QED
  BY <1>3, <1>4, <1>5, PrepareStepInv

\* No maintenance is under way while the operation has both locks.
LEMMA Unmaintained ==
  ASSUME RuntimeInv, maint.pc = "none"
  PROVE  maint = NoMaintenance
BY DEF RuntimeInv, MaintInv, MaintShape, NoMaintenance

\* A build that begins has no runtimes yet.
LEMMA BuildBegins ==
  ASSUME maint = NoMaintenance,
         maint' = maint \/ maint' = [NoMaintenance EXCEPT !.pc = "build"]
  PROVE  MaintInv' /\ maint'.sources = maint.sources /\ maint'.outputs = maint.outputs
<1>1. maint'.sources = maint.sources /\ maint'.outputs = maint.outputs
  BY DEF NoMaintenance
<1>2. MaintInv'
  BY MaintFresh
<1>3. QED
  BY <1>1, <1>2

\* Operations under both locks: a preparation with no maintenance before it.
LEMMA LockedPrepareInv ==
  ASSUME RuntimeInv, ExclusiveMaintenance, StoreGoes, NEW before, NEW after,
         before \in [Runtimes -> Nat], after \in [Runtimes -> Nat],
         \A r \in Runtimes : SnapN(r) = before[r] + after[r] + SnapN(r)',
         query' = query, leases' = leases, phase' = phase, iterators' \in Nat,
         maint' = maint \/ maint' = [NoMaintenance EXCEPT !.pc = "build"],
         \/ /\ writing' = writing /\ schema' = schema
            /\ \A s \in Segments \ {writing} : docs'[s] = docs[s]
         \/ cache[writing'] = None
         \/ schema' > schema,
         Prepare(before, after) \/ PrepareFails(before, after), SnapInv'
  PROVE  RuntimeInv'
<1>1. maint = NoMaintenance /\ Exclusive
  BY Unmaintained DEF ExclusiveMaintenance
<1>2. MaintInv' /\ maint'.sources = maint.sources /\ maint'.outputs = maint.outputs
  BY <1>1, BuildBegins
<1>3. PrepareStep(before, after)
  BY <1>1, <1>2 DEF PrepareStep
<1>4. QED
  BY <1>2, <1>3, PrepareStepInv

\* publishSchemaLocked.
LEMMA PublishSchemaInv ==
  ASSUME RuntimeInv, PublishSchema
  PROVE  RuntimeInv'
<1>1. /\ StoreInv /\ ExclusiveMaintenance /\ schema < MaxSchema /\ schema' = schema + 1
      /\ config' = config /\ query' = query /\ leases' = leases /\ phase' = phase /\ maint' = maint
      /\ iterators' = iterators /\ Invalidate
      /\ Prepare(BySnapshots, NoRelease) \/ PrepareFails(BySnapshots, NoRelease)
  BY DEF RuntimeInv, PublishSchema, SchemaMayChange
<1>2. schema' \in schema..MaxSchema /\ schema' > schema /\ iterators \in Nat
  BY <1>1, ConfigTypes DEF StoreInv
<1>3. StoreGoes
  BY <1>1, <1>2, StoreStays DEF PublishSchema, StoreInv
<1>4. /\ \A r \in Runtimes : SnapN(r) = BySnapshots[r] + NoRelease[r] + SnapN(r)'
      /\ SnapInv'
  BY <1>1, SnapshotsReleased, SnapDropped
<1>5. QED
  BY <1>1, <1>2, <1>3, <1>4, ReleaseKinds, LockedPrepareInv

\* rewriteCollectionDocumentsLocked.
LEMMA RewriteDocumentsInv ==
  ASSUME RuntimeInv, RewriteDocuments
  PROVE  RuntimeInv'
<1>1. /\ StoreInv /\ ExclusiveMaintenance /\ schema < MaxSchema /\ schema' = schema + 1
      /\ config' = config /\ query' = query /\ leases' = leases /\ phase' = phase /\ maint' = maint
      /\ iterators' = iterators /\ Invalidate /\ deletes' = deletes /\ indexed' = {}
      /\ Prepare(BySnapshots, NoRelease) \/ PrepareFails(BySnapshots, NoRelease)
  BY DEF RuntimeInv, RewriteDocuments, SchemaMayChange
<1>2. schema' \in schema..MaxSchema /\ schema' > schema /\ iterators \in Nat
  BY <1>1, ConfigTypes DEF StoreInv
<1>3. StoreGoes
  <2>1. PICK out \in Rewrites(Segments, nextSeg) :
          /\ nextSeg + Cardinality(DOMAIN out) \in Segments
          /\ docs' = [s \in Segments |-> IF s \in DOMAIN out THEN out[s] ELSE 0]
          /\ writing' = nextSeg + Cardinality(DOMAIN out) /\ nextSeg' = writing' + 1
    BY DEF RewriteDocuments
  <2>2. config \in Configs /\ nextSeg \in 2..(MaxSegment + 1) /\ MaxSegment \in Nat /\ Capacity \in Nat
    BY <1>1, ConfigTypes DEF StoreInv
  <2>3. PICK last \in (nextSeg - 1)..MaxSegment :
          /\ DOMAIN out = nextSeg..last /\ out \in [nextSeg..last -> 1..Capacity]
          /\ Cardinality(DOMAIN out) = last - nextSeg + 1
    BY <2>2, RewriteFacts
  <2>4. nextSeg \in Int /\ last \in Int /\ last >= nextSeg - 1
    BY <2>2
  <2>5. writing' = last + 1 /\ nextSeg' = last + 2 /\ writing' \in Segments
    BY <2>1, <2>3, <2>4
  <2>6. \A s \in DOMAIN out : out[s] \in 0..Capacity
    BY <2>2, <2>3
  <2>7. docs' \in [Segments -> 0..Capacity]
    BY <2>1, <2>2, <2>6
  <2>8. \A s \in Segments : s >= nextSeg' => docs'[s] = 0
    BY <2>1, <2>2, <2>3, <2>4, <2>5 DEF Segments
  <2>9. nextSeg' \in 2..(MaxSegment + 1) /\ writing' < nextSeg' /\ nextSeg <= nextSeg'
    BY <2>2, <2>4, <2>5 DEF Segments
  <2>10. QED
    BY <1>1, <1>2, <2>5, <2>7, <2>8, <2>9 DEF StoreGoes, StoreInv
<1>4. /\ \A r \in Runtimes : SnapN(r) = BySnapshots[r] + NoRelease[r] + SnapN(r)'
      /\ SnapInv'
  BY <1>1, SnapshotsReleased, SnapDropped
<1>5. QED
  BY <1>1, <1>2, <1>3, <1>4, ReleaseKinds, LockedPrepareInv

\* CreateIndex up to its build.
LEMMA CreateIndexInv ==
  ASSUME RuntimeInv, CreateIndex
  PROVE  RuntimeInv'
<1>1. /\ StoreInv /\ ExclusiveMaintenance /\ schema < MaxSchema /\ schema' = schema + 1
      /\ config' = config /\ query' = query /\ leases' = leases /\ phase' = phase
      /\ iterators' = iterators /\ Invalidate /\ StoreFlush /\ deletes' = deletes
      /\ indexed' \subseteq indexed
      /\ maint' = maint \/ maint' = [NoMaintenance EXCEPT !.pc = "build"]
      /\ Prepare(BySnapshots, NoRelease) \/ PrepareFails(BySnapshots, NoRelease)
  BY DEF RuntimeInv, CreateIndex, SchemaMayChange
<1>2. schema' \in schema..MaxSchema /\ schema' > schema /\ iterators \in Nat
  BY <1>1, ConfigTypes DEF StoreInv
<1>3. StoreGoes
  BY <1>1, <1>2, StoreFlushGrows
<1>4. /\ \A r \in Runtimes : SnapN(r) = BySnapshots[r] + NoRelease[r] + SnapN(r)'
      /\ SnapInv'
  BY <1>1, SnapshotsReleased, SnapDropped
<1>5. QED
  BY <1>1, <1>2, <1>3, <1>4, ReleaseKinds, LockedPrepareInv

\* A preparation that keeps the snapshots: a reader of a runtime keeps it, and
\* so does a snapshot, as the store did not change.
LEMMA KeptSnapshotsInv ==
  ASSUME RuntimeInv, ExclusiveMaintenance, StoreGoes, schema' = schema, deletes' = deletes,
         docs' = docs, indexed' = indexed, snap' = snap,
         query' = query, leases' = leases, phase' = phase, iterators' \in Nat,
         maint' = maint \/ maint' = [NoMaintenance EXCEPT !.pc = "build"],
         writing' = writing \/ (writing' >= nextSeg /\ cache[writing'] = None),
         Prepare(NoRelease, NoRelease) \/ PrepareFails(NoRelease, NoRelease)
  PROVE  RuntimeInv'
<1>1. /\ maint = NoMaintenance /\ Exclusive /\ StoreInv /\ config' = config
  BY Unmaintained DEF ExclusiveMaintenance, RuntimeInv, StoreGoes
<1>2. MaintInv' /\ maint'.sources = maint.sources /\ maint'.outputs = maint.outputs
  BY <1>1, BuildBegins
<1>3. \A r \in Runtimes : SnapN(r) = NoRelease[r] + NoRelease[r] + SnapN(r)'
  BY SnapshotsReleased
<1>4. \/ /\ writing' = writing /\ schema' = schema
         /\ \A s \in Segments \ {writing} : docs'[s] = docs[s]
      \/ cache[writing'] = None
  OBVIOUS
<1>5. PrepareStep(NoRelease, NoRelease)
  BY <1>1, <1>2, <1>3, <1>4, ReleaseKinds DEF PrepareStep
<1>6. Preparing(NoRelease, NoRelease)
  BY <1>5 DEF Preparing, PrepareStep, StoreGoes, Exclusive
<1>7. PreparedNext
  BY <1>6, Prepares
<1>8. \A k \in SnapKinds : Selected(k)' = Selected(k)
  BY <1>1, SelectionKept
<1>9. SnapInv'
  BY <1>1, <1>7, <1>8, SnapKept DEF PreparedNext
<1>10. QED
  BY <1>2, <1>5, <1>9, PrepareStepInv

\* CreateIterator, also when its preparation fails.
LEMMA CreateIteratorInv ==
  ASSUME RuntimeInv, CreateIterator
  PROVE  RuntimeInv'
<1>1. /\ StoreInv /\ ExclusiveMaintenance /\ iterators \in Nat
      /\ config' = config /\ docs' = docs /\ writing' = writing /\ nextSeg' = nextSeg
      /\ schema' = schema /\ deletes' = deletes /\ indexed' = indexed
      /\ query' = query /\ leases' = leases /\ phase' = phase /\ maint' = maint
  BY DEF RuntimeInv, CreateIterator, storeVars, StoreInv
<1>2. StoreGoes
  <2>1. schema' \in schema..MaxSchema /\ deletes' \in 0..MaxDeletes
    BY <1>1, ConfigTypes DEF StoreInv
  <2>2. QED
    BY <1>1, <2>1, StoreStays
<1>3. CASE Prepare(NoRelease, BySnapshots) /\ Invalidate /\ iterators' = iterators + 1
  <2>1. /\ \A r \in Runtimes : SnapN(r) = NoRelease[r] + BySnapshots[r] + SnapN(r)'
        /\ SnapInv'
    BY <1>3, SnapshotsReleased, SnapDropped
  <2>2. iterators' \in Nat
    BY <1>1, <1>3
  <2>3. QED
    BY <1>1, <1>2, <1>3, <2>1, <2>2, ReleaseKinds, LockedPrepareInv
<1>4. CASE PrepareFails(NoRelease, NoRelease) /\ UNCHANGED <<snap, iterators>>
  BY <1>1, <1>2, <1>4, KeptSnapshotsInv
<1>5. QED
  BY <1>3, <1>4 DEF CreateIterator

\* Optimize when nothing is to be compacted.
LEMMA OptimizeBuildInv ==
  ASSUME RuntimeInv, OptimizeBuild
  PROVE  RuntimeInv'
<1>1. /\ StoreInv /\ ExclusiveMaintenance /\ iterators \in Nat /\ iterators' = iterators
      /\ config' = config /\ schema' = schema /\ deletes' = deletes /\ indexed' = indexed
      /\ query' = query /\ leases' = leases /\ phase' = phase
  BY DEF RuntimeInv, OptimizeBuild, StoreInv, MayOptimize
<1>2. schema' \in schema..MaxSchema /\ deletes' \in 0..MaxDeletes
  BY <1>1, ConfigTypes DEF StoreInv
<1>3. CASE /\ docs[writing] = 0 /\ UNCHANGED <<docs, writing, nextSeg, snap>>
           /\ Prepare(NoRelease, NoRelease)
           /\ maint' = [NoMaintenance EXCEPT !.pc = "build"]
  <2>1. StoreGoes
    BY <1>1, <1>2, <1>3, StoreStays
  <2>2. QED
    BY <1>1, <1>3, <2>1, KeptSnapshotsInv
<1>4. CASE /\ StoreFlush
           /\ Prepare(NoRelease, BySnapshots) /\ Invalidate
           /\ maint' = [NoMaintenance EXCEPT !.pc = "build"]
  <2>1. StoreGoes /\ docs' = docs /\ (writing' = writing \/ cache[writing'] = None)
    BY <1>1, <1>2, <1>4, StoreFlushGrows
  <2>2. /\ \A r \in Runtimes : SnapN(r) = NoRelease[r] + BySnapshots[r] + SnapN(r)'
        /\ SnapInv'
    BY <1>4, SnapshotsReleased, SnapDropped
  <2>3. QED
    BY <1>1, <1>4, <2>1, <2>2, ReleaseKinds, LockedPrepareInv
<1>5. CASE StoreFlush /\ PrepareFails(NoRelease, NoRelease) /\ UNCHANGED <<snap, maint>>
  <2>1. /\ StoreGoes /\ docs' = docs /\ (writing' = writing \/ cache[writing'] = None)
        /\ writing' = writing \/ writing' >= nextSeg
    BY <1>1, <1>2, <1>5, StoreFlushGrows
  <2>2. QED
    BY <1>1, <1>5, <2>1, KeptSnapshotsInv
<1>6. QED
  BY <1>3, <1>4, <1>5 DEF OptimizeBuild

-----------------------------------------------------------------------------
(* Operations that only drop the snapshots.                                *)

\* A step that leaves the pool's other owners alone.
DropStep ==
  /\ Exclusive /\ Invalidate /\ ReleaseSnapshots
  /\ query' = query /\ leases' = leases /\ iterators' = iterators
  /\ maint'.sources = maint.sources /\ maint'.outputs = maint.outputs
  /\ StoreGoes /\ docs' = docs /\ schema' = schema
  /\ writing' = writing \/ cache[writing'] = None

\* The releases of such a step are balanced.
LEMMA DropSettles ==
  ASSUME RuntimeInv, DropStep
  PROVE  Settled(rt) /\ cache' = cache /\ prepared' = prepared
<1>1. /\ PoolTypes /\ Counts /\ config \in Configs /\ Settle(rt, refs, BySnapshots, retired)
      /\ cache' = cache /\ prepared' = prepared
  BY DEF RuntimeInv, StoreInv, DropStep, ReleaseSnapshots
<1>2. ASSUME NEW r \in Runtimes
      PROVE  refs[r] - BySnapshots[r] = CacheN(r)' + Uses(r)' + In(r, retired)
  <2>1. refs[r] = CacheN(r) + Uses(r) + In(r, retired)
    BY <1>1 DEF Counts
  <2>2. /\ CacheN(r) \in Nat /\ SnapN(r) \in Nat /\ HeldN(r) \in Nat /\ MaintN(r) \in Nat
        /\ Uses(r) = SnapN(r) + HeldN(r) + MaintN(r) /\ In(r, retired) \in Nat
    BY UseTypes, InTypes
  <2>3. CacheN(r)' = CacheN(r) /\ SnapN(r)' = 0 /\ HeldN(r)' = HeldN(r) /\ MaintN(r)' = MaintN(r)
    BY <1>1, SameOwners DEF DropStep
  <2>4. Uses(r)' = SnapN(r)' + HeldN(r)' + MaintN(r)'
    BY UseTypesNext
  <2>5. Uses(r)' = HeldN(r) + MaintN(r)
    BY <2>2, <2>3, <2>4
  <2>6. BySnapshots[r] = SnapN(r)
    BY SnapshotReleases
  <2>7. QED
    BY <2>1, <2>2, <2>3, <2>5, <2>6
<1>3. Balanced(rt, refs, BySnapshots, retired)
  BY <1>1, <1>2, SnapshotReleases DEF Balanced, PoolTypes, Counts
<1>4. QED
  BY <1>1, <1>3, SettleBalances DEF PoolTypes

\* Such a step keeps the invariant.
LEMMA DropStepInv ==
  ASSUME RuntimeInv, DropStep, MaintInv' \/ maint' = maint,
         phase' = phase \/ (phase' = "draining" /\ maint' = NoMaintenance),
         maint' = maint => StoreGrows
  PROVE  RuntimeInv'
<1>1. Settled(rt) /\ cache' = cache /\ prepared' = prepared
  BY DropSettles
<1>2. /\ Invalidate /\ query' = query /\ leases' = leases /\ iterators' = iterators /\ StoreGoes
      /\ docs' = docs /\ schema' = schema /\ config' = config /\ Exclusive
      /\ writing' = writing \/ cache[writing'] = None
  BY DEF DropStep, StoreGoes
<1>3. StoreInv /\ phase = "open"
  BY <1>2 DEF RuntimeInv, Exclusive
<1>4. PoolTypes' /\ Counts' /\ KeepsUsed
  BY <1>1, <1>2, SettledPool, SettledKeeps
<1>5. StoreInv'
  BY <1>1, <1>2, <1>3, StoreNext DEF StoreInv
<1>6. CacheInv'
  BY <1>1, <1>2, CacheKept
<1>7. QueryInv'
  BY <1>2, <1>4, QueryKept
<1>8. SnapInv' /\ snap' = [k \in SnapKinds |-> NoSnapshot]
  BY <1>2, SnapDropped
<1>9. ServedInv'
  <2>1. writing' \in Segments
    BY <1>2 DEF StoreGoes
  <2>2. QED
    BY <1>1, <1>2, <1>3, <2>1, ServedKept
<1>10. MaintInv'
  <2>1. ASSUME maint' = maint
        PROVE  MaintInv'
    <3>1. nextSeg' \in Int /\ nextSeg <= nextSeg'
      BY <1>2 DEF StoreGoes
    <3>2. \A s \in Segments : s # writing /\ s < nextSeg => docs'[s] = docs[s] /\ s # writing'
      BY <2>1 DEF StoreGrows
    <3>3. QED
      BY <1>1, <1>2, <1>4, <2>1, <3>1, <3>2, MaintKept
  <2>2. QED
    BY <2>1
<1>11. PhaseInv'
  BY <1>3, <1>8 DEF PhaseInv, NoMaintenance, NoSnapshot
<1>12. QED
  BY <1>4, <1>5, <1>6, <1>7, <1>8, <1>9, <1>10, <1>11 DEF RuntimeInv

\* Delete and DeleteByFilter.
LEMMA DeleteInv ==
  ASSUME RuntimeInv, Delete
  PROVE  RuntimeInv'
<1>1. StoreInv
  BY DEF RuntimeInv
<1>2. /\ config' = config /\ docs' = docs /\ writing' = writing /\ nextSeg' = nextSeg
      /\ schema' = schema /\ indexed' = indexed /\ phase' = phase /\ maint' = maint
  BY DEF Delete
<1>3. schema' \in schema..MaxSchema /\ deletes' \in 0..MaxDeletes
  BY <1>1, <1>2, ConfigTypes DEF StoreInv, Delete
<1>4. StoreGoes /\ StoreGrows
  BY <1>1, <1>2, <1>3, StoreStays
<1>5. DropStep
  BY <1>2, <1>4 DEF DropStep, Delete
<1>6. QED
  BY <1>2, <1>4, <1>5, DropStepInv

\* Flush, with its early returns.
LEMMA FlushInv ==
  ASSUME RuntimeInv, Flush
  PROVE  RuntimeInv'
<1>1. /\ StoreInv /\ iterators \in Nat /\ ExclusiveMaintenance /\ Exclusive /\ Invalidate
      /\ config' = config /\ schema' = schema /\ deletes' = deletes /\ indexed' = indexed
      /\ leases' = leases /\ query' = query /\ maint' = maint /\ iterators' = iterators
      /\ phase' = phase
  BY DEF RuntimeInv, StoreInv, Flush, ExclusiveMaintenance
<1>2. schema' \in schema..MaxSchema /\ deletes' \in 0..MaxDeletes
  BY <1>1, ConfigTypes DEF StoreInv
<1>3. CASE UNCHANGED <<docs, writing, nextSeg>> /\ ReleaseSnapshots
  <2>1. StoreGoes /\ StoreGrows
    BY <1>1, <1>2, <1>3, StoreStays
  <2>2. DropStep
    BY <1>1, <1>3, <2>1 DEF DropStep
  <2>3. QED
    BY <1>1, <2>1, <2>2, DropStepInv
<1>4. CASE StoreFlush /\ ReleaseSnapshots
  <2>1. StoreGoes /\ StoreGrows /\ docs' = docs /\ (writing' = writing \/ cache[writing'] = None)
    BY <1>1, <1>2, <1>4, StoreFlushGrows
  <2>2. DropStep
    BY <1>1, <1>4, <2>1 DEF DropStep
  <2>3. QED
    BY <1>1, <2>1, <2>2, DropStepInv
<1>5. CASE StoreFlush /\ (Prepare(BySnapshots, NoRelease) \/ PrepareFails(BySnapshots, NoRelease))
  <2>1. StoreGoes /\ docs' = docs /\ (writing' = writing \/ cache[writing'] = None)
    BY <1>1, <1>2, <1>5, StoreFlushGrows
  <2>2. /\ \A r \in Runtimes : SnapN(r) = BySnapshots[r] + NoRelease[r] + SnapN(r)'
        /\ SnapInv'
    BY <1>1, SnapshotsReleased, SnapDropped
  <2>3. QED
    BY <1>1, <1>5, <2>1, <2>2, ReleaseKinds, LockedPrepareInv
<1>6. QED
  BY <1>3, <1>4, <1>5 DEF Flush

\* Optimize up to the capture of its inputs.
LEMMA OptimizeFlushInv ==
  ASSUME RuntimeInv, OptimizeFlush
  PROVE  RuntimeInv'
<1> DEFINE captured == [NoMaintenance EXCEPT !.pc = "compact", !.inputs = {s \in Segments : docs[s] > 0}]
<1>1. /\ StoreInv /\ ExclusiveMaintenance /\ Exclusive /\ Invalidate /\ StoreFlush /\ ReleaseSnapshots
      /\ config' = config /\ schema' = schema /\ deletes' = deletes /\ indexed' = indexed
      /\ leases' = leases /\ query' = query /\ iterators' = iterators /\ phase' = phase
      /\ maint' \in {NoMaintenance, [NoMaintenance EXCEPT !.pc = "build"], captured}
  BY DEF RuntimeInv, OptimizeFlush, MayOptimize, ExclusiveMaintenance
<1>2. schema' \in schema..MaxSchema /\ deletes' \in 0..MaxDeletes
  BY <1>1, ConfigTypes DEF StoreInv
<1>3. /\ StoreGoes /\ docs' = docs /\ (writing' = writing \/ cache[writing'] = None)
      /\ StoreGrows /\ docs[writing'] = 0
  BY <1>1, <1>2, StoreFlushGrows
<1>4. maint = NoMaintenance
  BY <1>1, Unmaintained DEF ExclusiveMaintenance
<1>5. maint'.sources = maint.sources /\ maint'.outputs = maint.outputs
  BY <1>1, <1>4 DEF NoMaintenance
<1>6. DropStep
  BY <1>1, <1>3, <1>5 DEF DropStep
<1>7. MaintInv'
  <2>1. CASE maint' = captured
    <3>1. /\ maint' = [pc |-> maint'.pc, inputs |-> maint'.inputs, sources |-> maint'.sources,
                       outputs |-> maint'.outputs]
          /\ maint'.pc = "compact" /\ maint'.inputs = {s \in Segments : docs[s] > 0}
          /\ maint'.sources = {} /\ maint'.outputs = <<>>
      BY <2>1 DEF NoMaintenance
    <3>2. Segments' = Segments
      BY <1>1, SameConfig
    <3>3. MaintShape'
      BY <3>1, <3>2 DEF MaintShape
    <3>4. maint'.inputs \subseteq Sealed'
      BY <1>3, <3>1, <3>2 DEF Sealed
    <3>5. QED
      BY <3>1, <3>3, <3>4 DEF MaintInv
  <2>2. CASE maint' # captured
    BY <1>1, <2>2, MaintFresh
  <2>3. QED
    BY <2>1, <2>2
<1>8. QED
  BY <1>1, <1>3, <1>6, <1>7, DropStepInv

\* Close up to its wait for the leases.
LEMMA CloseBeginInv ==
  ASSUME RuntimeInv, CloseBegin
  PROVE  RuntimeInv'
<1>1. /\ StoreInv /\ ExclusiveMaintenance /\ Exclusive /\ Invalidate /\ ReleaseSnapshots
      /\ config' = config /\ docs' = docs /\ writing' = writing /\ nextSeg' = nextSeg
      /\ schema' = schema /\ deletes' = deletes /\ indexed' = indexed
      /\ leases' = leases /\ query' = query /\ iterators' = iterators /\ maint' = maint
      /\ phase' = "draining"
  BY DEF RuntimeInv, CloseBegin, ExclusiveMaintenance, storeVars
<1>2. schema' \in schema..MaxSchema /\ deletes' \in 0..MaxDeletes
  BY <1>1, ConfigTypes DEF StoreInv
<1>3. StoreGoes /\ StoreGrows
  BY <1>1, <1>2, StoreStays
<1>4. DropStep
  BY <1>1, <1>3 DEF DropStep
<1>5. maint' = NoMaintenance
  BY <1>1, Unmaintained DEF ExclusiveMaintenance
<1>6. QED
  BY <1>1, <1>3, <1>4, <1>5, DropStepInv

-----------------------------------------------------------------------------
(* Steps that leave the store alone.                                       *)

\* The store stays and the phase with it.
StoreRests ==
  /\ UNCHANGED storeVars
  /\ iterators' \in Nat /\ phase' \in {"open", "draining", "closed"} /\ prepared' = prepared

\* The store satisfies its part of the invariant again.
LEMMA RestingStore ==
  ASSUME StoreInv, StoreRests, \A s \in Segments : cache[s] = None => cache'[s] = None
  PROVE  /\ StoreInv' /\ config' = config /\ docs' = docs /\ writing' = writing /\ nextSeg' = nextSeg
         /\ schema' = schema /\ deletes' = deletes /\ indexed' = indexed
         /\ StoreGoes /\ StoreGrows /\ \A k \in SnapKinds : Selected(k)' = Selected(k)
<1>1. /\ config' = config /\ docs' = docs /\ writing' = writing /\ nextSeg' = nextSeg
      /\ schema' = schema /\ deletes' = deletes /\ indexed' = indexed
  BY DEF StoreRests, storeVars
<1>2. schema' \in schema..MaxSchema /\ deletes' \in 0..MaxDeletes
  BY <1>1, ConfigTypes DEF StoreInv
<1>3. StoreGoes /\ StoreGrows
  BY <1>1, <1>2, StoreStays
<1>4. StoreInv'
  BY <1>3, StoreNext DEF StoreInv, StoreRests
<1>5. \A k \in SnapKinds : Selected(k)' = Selected(k)
  BY <1>1, SelectionKept
<1>6. QED
  BY <1>1, <1>3, <1>4, <1>5

\* A pool that does not change.
LEMMA PoolRests ==
  ASSUME RuntimeInv, UNCHANGED poolVars, \A r \in Runtimes : CacheN(r)' = CacheN(r) /\ Uses(r)' = Uses(r)
  PROVE  Settled(rt)
<1>1. PoolTypes /\ Counts /\ rt' = rt /\ refs' = refs /\ retired' = retired /\ failures' = failures
  BY DEF RuntimeInv, poolVars
<1>2. \A r \in Runtimes : refs'[r] = CacheN(r)' + Uses(r)' + In(r, retired')
  BY <1>1 DEF Counts
<1>3. QED
  BY <1>1, <1>2 DEF Settled, PoolTypes, Counts

\* A step of a query or of a maintenance that leaves store, cache and phase.
QuietStep ==
  /\ StoreRests /\ phase' = phase /\ cache' = cache /\ Settled(rt)

\* What such a step keeps.
LEMMA QuietParts ==
  ASSUME RuntimeInv, QuietStep
  PROVE  /\ StoreInv' /\ PoolTypes' /\ Counts' /\ CacheInv' /\ ServedInv' /\ KeepsUsed /\ KeepsOpen
         /\ config' = config
         /\ maint' = maint => MaintInv'
         /\ snap' = snap => SnapInv'
         /\ query' = query /\ leases' = leases /\ snap' = snap => QueryInv'
<1>1. /\ StoreInv /\ StoreRests /\ cache' = cache /\ phase' = phase /\ Settled(rt)
      /\ prepared' = prepared
  BY DEF RuntimeInv, QuietStep, StoreRests
<1>2. /\ StoreInv' /\ config' = config /\ docs' = docs /\ writing' = writing /\ nextSeg' = nextSeg
      /\ schema' = schema /\ deletes' = deletes /\ indexed' = indexed
      /\ StoreGoes /\ StoreGrows /\ \A k \in SnapKinds : Selected(k)' = Selected(k)
  BY <1>1, RestingStore
<1>3. PoolTypes' /\ Counts' /\ KeepsUsed /\ KeepsOpen
  BY <1>1, <1>2, SettledPool, SettledKeeps
<1>4. CacheInv'
  BY <1>1, <1>2, CacheKept
<1>5. ServedInv'
  <2>1. writing' \in Segments
    BY <1>2 DEF StoreGoes
  <2>2. QED
    BY <1>1, <1>2, <2>1, ServedKept
<1>6. ASSUME maint' = maint PROVE MaintInv'
  <2>1. nextSeg' \in Int /\ nextSeg <= nextSeg'
    BY <1>2 DEF StoreGoes
  <2>2. \A s \in Segments : s # writing /\ s < nextSeg => docs'[s] = docs[s] /\ s # writing'
    BY <1>2 DEF StoreGrows
  <2>3. QED
    BY <1>1, <1>2, <1>3, <1>6, <2>1, <2>2, MaintKept
<1>7. ASSUME snap' = snap PROVE SnapInv'
  BY <1>2, <1>3, <1>7, SnapKept
<1>8. ASSUME query' = query, leases' = leases, snap' = snap PROVE QueryInv'
  BY <1>1, <1>2, <1>3, <1>8, QueryKept
<1>9. QED
  BY <1>2, <1>3, <1>4, <1>5, <1>6, <1>7, <1>8

\* Closing an iterator.
LEMMA CloseIteratorInv ==
  ASSUME RuntimeInv, CloseIterator
  PROVE  RuntimeInv'
<1>1. /\ iterators \in Nat /\ iterators > 0 /\ iterators' = iterators - 1 /\ UNCHANGED storeVars
      /\ UNCHANGED poolVars /\ cache' = cache /\ snap' = snap /\ leases' = leases /\ query' = query
      /\ maint' = maint /\ phase' = phase /\ prepared' = prepared
      /\ phase \in {"open", "draining", "closed"}
  BY DEF CloseIterator, RuntimeInv, StoreInv
<1>2. \A r \in Runtimes : CacheN(r)' = CacheN(r) /\ Uses(r)' = Uses(r)
  BY <1>1, SameOwners, UseTypes, UseTypesNext
<1>3. QuietStep
  BY <1>1, <1>2, PoolRests DEF QuietStep, StoreRests
<1>4. PhaseInv'
  <2>1. PhaseInv /\ Segments' = Segments
    BY <1>3, SameConfig, QuietParts DEF RuntimeInv
  <2>2. QED
    BY <1>1, <2>1 DEF PhaseInv, NoMaintenance, NoSnapshot
<1>5. QED
  BY <1>1, <1>3, <1>4, QuietParts DEF RuntimeInv

-----------------------------------------------------------------------------
(* Queries.                                                                *)

\* Only the goroutine q moves.
QueryMoves(q) ==
  /\ query' = [p \in Queries |-> query'[p]]
  /\ \A p \in Queries \ {q} : query'[p] = query[p]

\* Only q changes how many goroutines hold a runtime.
LEMMA HeldChange ==
  ASSUME NEW q \in Queries, QueryMoves(q), NEW r
  PROVE  HeldN(r)' = HeldN(r) - In(r, query[q].held) + In(r, query'[q].held)
<1> DEFINE S == {p \in Queries : r \in query[p].held}
           T == {p \in Queries : r \in query'[p].held}
<1>1. IsFiniteSet(S) /\ Cardinality(S) \in Nat
  BY RuntimeConstants, FS_Subset, FS_CardinalityType
<1>2. HeldN(r) = Cardinality(S) /\ HeldN(r)' = Cardinality(T)
  BY DEF HeldN
<1>3. CASE r \in query[q].held /\ r \in query'[q].held
  <2>1. T = S
    BY <1>3 DEF QueryMoves
  <2> HIDE DEF S, T
  <2>2. QED
    BY <1>1, <1>2, <1>3, <2>1 DEF In
<1>4. CASE r \in query[q].held /\ r \notin query'[q].held
  <2>1. T = S \ {q} /\ q \in S
    BY <1>4 DEF QueryMoves
  <2> HIDE DEF S, T
  <2>2. Cardinality(T) = Cardinality(S) - 1
    BY <1>1, <2>1, FS_RemoveElement
  <2>3. QED
    BY <1>1, <1>2, <1>4, <2>2 DEF In
<1>5. CASE r \notin query[q].held /\ r \in query'[q].held
  <2>1. T = S \cup {q} /\ q \notin S
    BY <1>5 DEF QueryMoves
  <2> HIDE DEF S, T
  <2>2. Cardinality(T) = Cardinality(S) + 1
    BY <1>1, <2>1, FS_AddElement
  <2>3. QED
    BY <1>1, <1>2, <1>5, <2>2 DEF In
<1>6. CASE r \notin query[q].held /\ r \notin query'[q].held
  <2>1. T = S
    BY <1>6 DEF QueryMoves
  <2> HIDE DEF S, T
  <2>2. QED
    BY <1>1, <1>2, <1>6, <2>1 DEF In
<1>7. QED
  BY <1>3, <1>4, <1>5, <1>6

\* Only q changes how many goroutines have a lease.
LEMMA LeasedChange ==
  ASSUME NEW q \in Queries, QueryMoves(q)
  PROVE  /\ IsFiniteSet(Leased) /\ Cardinality(Leased) \in Nat
         /\ (query[q].pc = "leased" <=> query'[q].pc = "leased") =>
              Cardinality(Leased)' = Cardinality(Leased)
         /\ query[q].pc # "leased" /\ query'[q].pc = "leased" =>
              Cardinality(Leased)' = Cardinality(Leased) + 1
         /\ query[q].pc = "leased" /\ query'[q].pc # "leased" =>
              Cardinality(Leased)' = Cardinality(Leased) - 1
<1>1. IsFiniteSet(Leased) /\ Cardinality(Leased) \in Nat
  BY RuntimeConstants, FS_Subset, FS_CardinalityType DEF Leased
<1>2. ASSUME query[q].pc = "leased" <=> query'[q].pc = "leased"
      PROVE  Cardinality(Leased)' = Cardinality(Leased)
  <2>1. Leased' = Leased
    BY <1>2 DEF Leased, QueryMoves
  <2>2. QED
    BY <2>1
<1>3. ASSUME query[q].pc # "leased", query'[q].pc = "leased"
      PROVE  Cardinality(Leased)' = Cardinality(Leased) + 1
  <2>1. Leased' = Leased \cup {q} /\ q \notin Leased
    BY <1>3 DEF Leased, QueryMoves
  <2>2. Cardinality(Leased \cup {q}) = Cardinality(Leased) + 1
    BY <1>1, <2>1, FS_AddElement
  <2>3. QED
    BY <2>1, <2>2
<1>4. ASSUME query[q].pc = "leased", query'[q].pc # "leased"
      PROVE  Cardinality(Leased)' = Cardinality(Leased) - 1
  <2>1. Leased' = Leased \ {q} /\ q \in Leased
    BY <1>4 DEF Leased, QueryMoves
  <2>2. Cardinality(Leased \ {q}) = Cardinality(Leased) - 1
    BY <1>1, <2>1, FS_RemoveElement
  <2>3. QED
    BY <2>1, <2>2
<1>5. QED
  BY <1>1, <1>2, <1>3, <1>4

\* The state of q after its step.
QueryProper(q) ==
  /\ query[q] = [pc |-> query[q].pc, kind |-> query[q].kind, held |-> query[q].held,
                 view |-> query[q].view]
  /\ query[q].pc \in {"idle", "acquiring", "leased", "reranking"}
  /\ query[q].held \subseteq Runtimes
  /\ query[q].held # {} => query[q].pc = "leased"
  /\ query[q].pc = "acquiring" =>
       /\ phase = "open" /\ snap[SnapOf(query[q].kind)].set
       /\ query[q].view = snap[SnapOf(query[q].kind)].view
  /\ \A r \in query[q].held : rt[r] = query[q].view[r]

\* The other goroutines keep what they rely on.
LEMMA QueryMoved ==
  ASSUME RuntimeInv, NEW q \in Queries, QueryMoves(q), config' = config, phase' = phase, KeepsUsed,
         \A k \in SnapKinds : snap[k].set => snap'[k] = snap[k],
         QueryProper(q)', leases' = Cardinality(Leased)'
  PROVE  QueryInv'
<1>1. QueryInv /\ Counts /\ PoolTypes
  BY DEF RuntimeInv
<1>2. Runtimes' = Runtimes
  BY SameConfig
<1>3. ASSUME NEW p \in Queries, p # q
      PROVE  QueryProper(p)'
  <2>1. query'[p] = query[p]
    BY <1>3 DEF QueryMoves
  <2>2. /\ query[p] = [pc |-> query[p].pc, kind |-> query[p].kind, held |-> query[p].held,
                      view |-> query[p].view]
        /\ query[p].pc \in {"idle", "acquiring", "leased", "reranking"}
        /\ query[p].held \subseteq Runtimes
        /\ query[p].held # {} => query[p].pc = "leased"
    BY <1>1 DEF QueryInv, QueryShape
  <2>3. ASSUME query[p].pc = "acquiring"
        PROVE  /\ phase' = "open" /\ snap'[SnapOf(query[p].kind)].set
               /\ query[p].view = snap'[SnapOf(query[p].kind)].view
    <3>1. /\ phase = "open" /\ snap[SnapOf(query[p].kind)].set
          /\ query[p].view = snap[SnapOf(query[p].kind)].view
      BY <1>1, <2>3 DEF QueryInv
    <3>2. SnapOf(query[p].kind) \in SnapKinds
      BY DEF SnapOf, SnapKinds
    <3>3. QED
      BY <3>1, <3>2
  <2>4. ASSUME NEW r \in query[p].held
        PROVE  rt'[r] = query[p].view[r]
    <3>1. r \in Runtimes /\ rt[r] = query[p].view[r]
      BY <1>1, <2>2 DEF QueryInv
    <3>2. refs[r] # 0
      BY <1>1, <3>1, UsersCount, UsedOpen
    <3>3. Uses(r)' > 0
      BY <2>1, UsersCountNext
    <3>4. QED
      BY <3>1, <3>2, <3>3 DEF KeepsUsed
  <2>5. QED
    BY <1>2, <2>1, <2>2, <2>3, <2>4 DEF QueryProper, SnapOf
<1>4. \A p \in Queries : QueryProper(p)'
  BY <1>3
<1>5. QueryShape'
  BY <1>4 DEF QueryShape, QueryProper, QueryMoves
<1>6. QED
  BY <1>4, <1>5 DEF QueryInv, QueryProper

\* What the invariant says of one goroutine.
LEMMA QueryIs ==
  ASSUME QueryInv, NEW q \in Queries
  PROVE  QueryProper(q) /\ query = [p \in Queries |-> query[p]]
BY DEF QueryInv, QueryShape, QueryProper

\* A step that leaves the phase and the cache alone.
LEMMA PhaseKept ==
  ASSUME RuntimeInv, config' = config, phase' = phase, cache' = cache,
         phase # "open" => snap' = snap /\ maint' = maint,
         phase = "closed" => leases' = leases
  PROVE  PhaseInv'
<1>1. PhaseInv /\ Segments' = Segments
  BY SameConfig DEF RuntimeInv
<1>2. QED
  BY <1>1 DEF PhaseInv, NoMaintenance, NoSnapshot

\* A step of the goroutine q that leaves snapshots and maintenance.
LEMMA QueryStepInv ==
  ASSUME RuntimeInv, NEW q \in Queries, QuietStep, QueryMoves(q), snap' = snap, maint' = maint,
         QueryProper(q)', leases' = Cardinality(Leased)', phase = "closed" => leases' = leases
  PROVE  RuntimeInv'
<1>1. /\ StoreInv' /\ PoolTypes' /\ Counts' /\ CacheInv' /\ ServedInv' /\ KeepsUsed
      /\ config' = config /\ MaintInv' /\ SnapInv'
  BY QuietParts
<1>2. phase' = phase /\ cache' = cache
  BY DEF QuietStep
<1>3. QueryInv'
  BY <1>1, <1>2, QueryMoved
<1>4. PhaseInv'
  BY <1>1, <1>2, PhaseKept
<1>5. QED
  BY <1>1, <1>3, <1>4 DEF RuntimeInv

\* validateAndProjectReranked after the lease was returned.
LEMMA QueryProjectInv ==
  ASSUME RuntimeInv, NEW q \in Queries, QueryProject(q)
  PROVE  RuntimeInv'
<1>1. /\ query[q].pc = "reranking" /\ query' = [query EXCEPT ![q] = IdleQuery]
      /\ UNCHANGED storeVars /\ UNCHANGED poolVars /\ cache' = cache /\ snap' = snap
      /\ leases' = leases /\ maint' = maint /\ iterators' = iterators /\ phase' = phase
      /\ prepared' = prepared
  BY DEF QueryProject
<1>2. /\ StoreInv /\ QueryInv /\ iterators \in Nat /\ phase \in {"open", "draining", "closed"}
      /\ leases = Cardinality(Leased)
  BY DEF RuntimeInv, StoreInv, QueryInv
<1>3. QueryProper(q) /\ query = [p \in Queries |-> query[p]]
  BY <1>2, QueryIs
<1>4. QueryMoves(q) /\ query'[q] = IdleQuery
  BY <1>1, <1>3 DEF QueryMoves
<1>5. query[q].held = {} /\ query'[q].held = {} /\ query'[q].pc = "idle"
  BY <1>1, <1>3, <1>4 DEF QueryProper, IdleQuery
<1>6. ASSUME NEW r \in Runtimes
      PROVE  CacheN(r)' = CacheN(r) /\ Uses(r)' = Uses(r)
  <2>1. HeldN(r)' = HeldN(r)
    <3>1. HeldN(r)' = HeldN(r) - In(r, query[q].held) + In(r, query'[q].held)
      BY <1>4, HeldChange
    <3>2. HeldN(r) \in Nat
      BY UseTypes
    <3>3. QED
      BY <1>5, <3>1, <3>2 DEF In
  <2>2. QED
    BY <1>1, <2>1, SameOwners, UseTypes, UseTypesNext
<1>7. QuietStep
  BY <1>1, <1>2, <1>6, PoolRests DEF QuietStep, StoreRests
<1>8. QueryProper(q)'
  BY <1>4 DEF QueryProper, IdleQuery
<1>9. leases' = Cardinality(Leased)'
  BY <1>1, <1>2, <1>4, <1>5, LeasedChange
<1>10. QED
  BY <1>1, <1>4, <1>7, <1>8, <1>9, QueryStepInv

\* queryLeases.Done.
LEMMA QueryDoneInv ==
  ASSUME RuntimeInv, NEW q \in Queries, QueryDone(q)
  PROVE  RuntimeInv'
<1>1. /\ query[q].pc = "leased" /\ query[q].held = {} /\ leases' = leases - 1
      /\ query' = [query EXCEPT ![q] =
                     IF query[q].kind = "multi" THEN [@ EXCEPT !.pc = "reranking"] ELSE IdleQuery]
      /\ UNCHANGED storeVars /\ UNCHANGED poolVars /\ cache' = cache /\ snap' = snap
      /\ maint' = maint /\ iterators' = iterators /\ phase' = phase /\ prepared' = prepared
  BY DEF QueryDone
<1>2. /\ StoreInv /\ QueryInv /\ iterators \in Nat /\ phase \in {"open", "draining", "closed"}
      /\ leases = Cardinality(Leased)
  BY DEF RuntimeInv, StoreInv, QueryInv
<1>3. QueryProper(q) /\ query = [p \in Queries |-> query[p]]
  BY <1>2, QueryIs
<1>4. /\ QueryMoves(q)
      /\ query'[q] = IF query[q].kind = "multi" THEN [query[q] EXCEPT !.pc = "reranking"] ELSE IdleQuery
  BY <1>1, <1>3 DEF QueryMoves
<1>5. /\ query'[q] = [pc |-> query'[q].pc, kind |-> query'[q].kind, held |-> query'[q].held,
                      view |-> query'[q].view]
      /\ query'[q].held = {} /\ query'[q].pc \in {"idle", "reranking"}
  <2>1. query[q] = [pc |-> query[q].pc, kind |-> query[q].kind, held |-> query[q].held,
                    view |-> query[q].view]
    BY <1>3 DEF QueryProper
  <2>2. [query[q] EXCEPT !.pc = "reranking"] =
           [pc |-> "reranking", kind |-> query[q].kind, held |-> query[q].held, view |-> query[q].view]
    BY <2>1
  <2>3. CASE query[q].kind = "multi"
    <3>1. query'[q] = [pc |-> "reranking", kind |-> query[q].kind, held |-> query[q].held,
                       view |-> query[q].view]
      BY <1>4, <2>2, <2>3
    <3>2. QED
      BY <1>1, <3>1
  <2>4. CASE query[q].kind # "multi"
    BY <1>4, <2>4 DEF IdleQuery
  <2>5. QED
    BY <2>3, <2>4
<1>6. ASSUME NEW r \in Runtimes
      PROVE  CacheN(r)' = CacheN(r) /\ Uses(r)' = Uses(r)
  <2>1. HeldN(r)' = HeldN(r)
    <3>1. HeldN(r)' = HeldN(r) - In(r, query[q].held) + In(r, query'[q].held)
      BY <1>4, HeldChange
    <3>2. HeldN(r) \in Nat
      BY UseTypes
    <3>3. QED
      BY <1>1, <1>5, <3>1, <3>2 DEF In
  <2>2. QED
    BY <1>1, <2>1, SameOwners, UseTypes, UseTypesNext
<1>7. QuietStep
  BY <1>1, <1>2, <1>6, PoolRests DEF QuietStep, StoreRests
<1>8. QueryProper(q)'
  BY <1>5 DEF QueryProper
<1>9. leases' = Cardinality(Leased)' /\ Cardinality(Leased)' = Cardinality(Leased) - 1
  BY <1>1, <1>2, <1>4, <1>5, LeasedChange
<1>10. phase # "closed"
  <2>1. IsFiniteSet(Leased) /\ q \in Leased
    BY <1>1, <1>4, LeasedChange DEF Leased
  <2>2. Cardinality(Leased) # 0
    BY <2>1, FS_EmptySet
  <2>3. QED
    BY <1>2, <2>2 DEF RuntimeInv, PhaseInv
<1>11. QED
  BY <1>1, <1>4, <1>7, <1>8, <1>9, <1>10, QueryStepInv

\* releaseSnapshotRuntimes, one runtime.
LEMMA QueryReleaseInv ==
  ASSUME RuntimeInv, NEW q \in Queries, QueryRelease(q)
  PROVE  RuntimeInv'
<1>1. PICK r0 \in query[q].held :
        /\ query' = [query EXCEPT ![q].held = @ \ {r0}]
        /\ Settle(rt, refs, ByMembership({r0}), retired)
  BY DEF QueryRelease
<1>2. /\ query[q].pc = "leased" /\ UNCHANGED storeVars /\ cache' = cache /\ snap' = snap
      /\ leases' = leases /\ maint' = maint /\ iterators' = iterators /\ phase' = phase
      /\ prepared' = prepared
  BY DEF QueryRelease
<1>3. /\ StoreInv /\ QueryInv /\ PoolTypes /\ Counts /\ iterators \in Nat
      /\ phase \in {"open", "draining", "closed"} /\ leases = Cardinality(Leased)
      /\ config \in Configs /\ failures \in 0..MaxFailures /\ config' = config
  BY <1>2 DEF RuntimeInv, StoreInv, QueryInv, PoolTypes, storeVars
<1>4. QueryProper(q) /\ query = [p \in Queries |-> query[p]]
  BY <1>3, QueryIs
<1>5. /\ QueryMoves(q)
      /\ query'[q] = [query[q] EXCEPT !.held = @ \ {r0}]
  BY <1>1, <1>4 DEF QueryMoves
<1>6. query'[q] = [pc |-> "leased", kind |-> query[q].kind, held |-> query[q].held \ {r0},
                   view |-> query[q].view]
  <2>1. query[q] = [pc |-> query[q].pc, kind |-> query[q].kind, held |-> query[q].held,
                    view |-> query[q].view]
    BY <1>4 DEF QueryProper
  <2>2. [query[q] EXCEPT !.held = @ \ {r0}] =
           [pc |-> query[q].pc, kind |-> query[q].kind, held |-> query[q].held \ {r0}, view |-> query[q].view]
    BY <2>1
  <2>3. QED
    BY <1>2, <1>5, <2>2
<1>7. ASSUME NEW r \in Runtimes
      PROVE  refs[r] - ByMembership({r0})[r] = CacheN(r)' + Uses(r)' + In(r, retired)
  <2>1. refs[r] = CacheN(r) + Uses(r) + In(r, retired)
    BY <1>3 DEF Counts
  <2>2. /\ CacheN(r) \in Nat /\ SnapN(r) \in Nat /\ HeldN(r) \in Nat /\ MaintN(r) \in Nat
        /\ Uses(r) = SnapN(r) + HeldN(r) + MaintN(r) /\ In(r, retired) \in Nat
    BY UseTypes, InTypes
  <2>3. HeldN(r)' = HeldN(r) - In(r, query[q].held) + In(r, query'[q].held)
    BY <1>5, HeldChange
  <2>4. In(r, query'[q].held) = In(r, query[q].held) - In(r, {r0})
    BY <1>1, <1>6 DEF In
  <2>5. In(r, query[q].held) \in {0, 1} /\ In(r, {r0}) \in {0, 1}
    BY InTypes
  <2>6. HeldN(r)' = HeldN(r) - In(r, {r0})
    BY <2>2, <2>3, <2>4, <2>5
  <2>7. CacheN(r)' = CacheN(r) /\ SnapN(r)' = SnapN(r) /\ MaintN(r)' = MaintN(r)
    BY <1>2, SameOwners
  <2>8. Uses(r)' = SnapN(r)' + HeldN(r)' + MaintN(r)'
    BY UseTypesNext
  <2>9. Uses(r)' = Uses(r) - In(r, {r0})
    BY <2>2, <2>5, <2>6, <2>7, <2>8
  <2>10. ByMembership({r0})[r] = In(r, {r0})
    BY MemberReleases
  <2>11. Uses(r) \in Nat
    BY UseTypes
  <2>12. QED
    BY <2>1, <2>2, <2>5, <2>7, <2>9, <2>10, <2>11
<1>8. Settled(rt)
  <2>1. ByMembership({r0}) \in [Runtimes -> Nat]
    BY MemberReleases
  <2>2. Balanced(rt, refs, ByMembership({r0}), retired)
    BY <1>3, <1>7, <2>1 DEF Balanced, PoolTypes, Counts
  <2>3. QED
    BY <1>1, <1>3, <2>2, SettleBalances
<1>9. QuietStep
  BY <1>2, <1>3, <1>8 DEF QuietStep, StoreRests
<1>10. KeepsUsed /\ Runtimes' = Runtimes
  BY <1>3, <1>9, QuietParts, SameConfig
<1>11. QueryProper(q)'
  <2>1. ASSUME NEW r \in query'[q].held
        PROVE  rt'[r] = query'[q].view[r]
    <3>1. r \in query[q].held /\ r \in Runtimes /\ rt[r] = query[q].view[r]
      BY <1>4, <1>6 DEF QueryProper
    <3>2. refs[r] # 0
      BY <1>3, <3>1, UsersCount, UsedOpen
    <3>3. Uses(r)' > 0
      BY UsersCountNext
    <3>4. QED
      BY <1>6, <1>10, <3>1, <3>2, <3>3 DEF KeepsUsed
  <2>2. query[q].held \subseteq Runtimes
    BY <1>4 DEF QueryProper
  <2>3. QED
    BY <1>6, <1>10, <2>1, <2>2 DEF QueryProper
<1>12. leases' = Cardinality(Leased)'
  <2>1. query'[q].pc = "leased"
    BY <1>6
  <2>2. QED
    BY <1>2, <1>3, <1>5, <2>1, LeasedChange
<1>13. QED
  BY <1>2, <1>5, <1>9, <1>11, <1>12, QueryStepInv

\* Open runtimes that get one more owner are retained.
LEMMA RetainSettles ==
  ASSUME RuntimeInv, NEW used,
         refs' = [r \in Runtimes |-> IF r \in used THEN refs[r] + 1 ELSE refs[r]],
         rt' = rt, retired' = retired, failures' = failures,
         \A r \in Runtimes : r \in used => rt[r] # Closed,
         cache' = cache, \A r \in Runtimes : Uses(r)' = Uses(r) + In(r, used)
  PROVE  Settled(rt)
<1>1. PoolTypes /\ Counts
  BY DEF RuntimeInv
<1>2. ASSUME NEW r \in Runtimes
      PROVE  /\ refs'[r] \in Nat /\ refs'[r] = CacheN(r)' + Uses(r)' + In(r, retired')
             /\ rt'[r] = Closed <=> refs'[r] = 0
  <2>1. /\ refs[r] \in Nat /\ refs[r] = CacheN(r) + Uses(r) + In(r, retired)
        /\ rt[r] = Closed <=> refs[r] = 0
    BY <1>1 DEF PoolTypes, Counts
  <2>2. CacheN(r) \in Nat /\ Uses(r) \in Nat /\ In(r, retired) \in Nat
    BY UseTypes, InTypes
  <2>3. CacheN(r)' = CacheN(r) /\ Uses(r)' = Uses(r) + In(r, used)
    BY SameOwners
  <2>4. refs'[r] = refs[r] + In(r, used) /\ In(r, used) \in {0, 1} /\ (In(r, used) = 1 <=> r \in used)
    BY <2>1 DEF In
  <2>5. refs'[r] \in Nat /\ refs'[r] = CacheN(r)' + Uses(r)' + In(r, retired')
    BY <2>1, <2>2, <2>3, <2>4
  <2>6. rt'[r] = Closed <=> refs'[r] = 0
    BY <2>1, <2>4
  <2>7. QED
    BY <2>5, <2>6
<1>3. refs' \in [Runtimes -> Nat]
  BY <1>2
<1>4. QED
  BY <1>1, <1>2, <1>3 DEF Settled, PoolTypes

\* acquireQuerySnapshotLocked retains the runtimes of the snapshot for the query.
LEMMA QueryLeaseInv ==
  ASSUME RuntimeInv, NEW q \in Queries, QueryLease(q)
  PROVE  RuntimeInv'
<1> DEFINE used == DOMAIN query[q].view
           k == SnapOf(query[q].kind)
<1>1. /\ query[q].pc = "acquiring"
      /\ query' = [query EXCEPT ![q].pc = "leased", ![q].held = used]
      /\ refs' = [r \in Runtimes |-> IF r \in used THEN refs[r] + 1 ELSE refs[r]]
      /\ leases' = leases + 1
      /\ UNCHANGED storeVars /\ rt' = rt /\ retired' = retired /\ failures' = failures
      /\ cache' = cache /\ snap' = snap /\ maint' = maint /\ iterators' = iterators
      /\ phase' = phase /\ prepared' = prepared
  BY DEF QueryLease
<1>2. /\ StoreInv /\ QueryInv /\ SnapInv /\ PoolTypes /\ Counts /\ iterators \in Nat
      /\ phase \in {"open", "draining", "closed"} /\ leases = Cardinality(Leased) /\ config' = config
  BY <1>1 DEF RuntimeInv, StoreInv, QueryInv, storeVars
<1>3. QueryProper(q) /\ query = [p \in Queries |-> query[p]]
  BY <1>2, QueryIs
<1>4. /\ phase = "open" /\ query[q].view = snap[k].view /\ k \in SnapKinds
      /\ query[q].held = {}
  BY <1>1, <1>3 DEF QueryProper, SnapOf, SnapKinds
<1>5. \A r \in used : r \in Runtimes /\ rt[r] = query[q].view[r] /\ r \in DOMAIN snap[k].view
  BY <1>2, <1>4 DEF SnapInv
<1>6. /\ QueryMoves(q)
      /\ query'[q] = [query[q] EXCEPT !.pc = "leased", !.held = used]
  BY <1>1, <1>3 DEF QueryMoves
<1>7. query'[q] = [pc |-> "leased", kind |-> query[q].kind, held |-> used, view |-> query[q].view]
  <2>1. query[q] = [pc |-> query[q].pc, kind |-> query[q].kind, held |-> query[q].held,
                    view |-> query[q].view]
    BY <1>3 DEF QueryProper
  <2>2. PICK x : x = [query[q] EXCEPT !.pc = "leased"]
    OBVIOUS
  <2>3. x = [pc |-> "leased", kind |-> query[q].kind, held |-> query[q].held, view |-> query[q].view]
    BY <2>1, <2>2
  <2>4. [x EXCEPT !.held = used] =
           [pc |-> "leased", kind |-> query[q].kind, held |-> used, view |-> query[q].view]
    BY <2>3
  <2>5. [query[q] EXCEPT !.pc = "leased", !.held = used] = [x EXCEPT !.held = used]
    BY <2>2
  <2>6. QED
    BY <1>6, <2>4, <2>5
<1> HIDE DEF used, k
<1>8. ASSUME NEW r \in Runtimes
      PROVE  Uses(r)' = Uses(r) + In(r, used)
  <2>1. /\ SnapN(r) \in Nat /\ HeldN(r) \in Nat /\ MaintN(r) \in Nat
        /\ Uses(r) = SnapN(r) + HeldN(r) + MaintN(r) /\ In(r, used) \in {0, 1}
    BY UseTypes, InTypes
  <2>2. HeldN(r)' = HeldN(r) - In(r, query[q].held) + In(r, query'[q].held)
    BY <1>6, HeldChange
  <2>3. In(r, query[q].held) = 0 /\ In(r, query'[q].held) = In(r, used)
    BY <1>4, <1>7 DEF In
  <2>4. HeldN(r)' = HeldN(r) + In(r, used)
    BY <2>1, <2>2, <2>3
  <2>5. SnapN(r)' = SnapN(r) /\ MaintN(r)' = MaintN(r)
    BY <1>1, SameOwners
  <2>6. Uses(r)' = SnapN(r)' + HeldN(r)' + MaintN(r)'
    BY UseTypesNext
  <2>7. QED
    BY <2>1, <2>4, <2>5, <2>6
<1>9. \A r \in Runtimes : r \in used => rt[r] # Closed
  <2>1. ASSUME NEW r \in Runtimes, r \in used
        PROVE  rt[r] # Closed
    <3>1. refs[r] # 0
      BY <1>2, <1>4, <1>5, <2>1, UsersCount, UsedOpen
    <3>2. QED
      BY <1>2, <3>1 DEF Counts
  <2>2. QED
    BY <2>1
<1>10. Settled(rt)
  BY <1>1, <1>8, <1>9, RetainSettles
<1>11. QuietStep
  BY <1>1, <1>2, <1>10 DEF QuietStep, StoreRests
<1>12. QueryProper(q)'
  <2>1. Runtimes' = Runtimes
    BY <1>2, SameConfig
  <2>2. query'[q].pc = "leased" /\ query'[q].held = used /\ query'[q].view = query[q].view
    BY <1>7
  <2>3. \A r \in query'[q].held : r \in Runtimes' /\ rt'[r] = query'[q].view[r]
    BY <1>1, <1>5, <2>1, <2>2
  <2>4. query'[q] = [pc |-> query'[q].pc, kind |-> query'[q].kind, held |-> query'[q].held,
                     view |-> query'[q].view]
    BY <1>7
  <2>5. QED
    BY <2>2, <2>3, <2>4 DEF QueryProper
<1>13. leases' = Cardinality(Leased)'
  <2>1. query'[q].pc = "leased"
    BY <1>7
  <2>2. QED
    BY <1>1, <1>2, <1>6, <2>1, LeasedChange
<1>14. QED
  BY <1>1, <1>4, <1>6, <1>11, <1>12, <1>13, QueryStepInv

\* querySnapshotLocked: the cached snapshot, or a new one that is current.
LEMMA QueryBeginInv ==
  ASSUME RuntimeInv, NEW q \in Queries, NEW kind, QueryBegin(q, kind)
  PROVE  RuntimeInv'
<1> DEFINE k == SnapOf(kind)
           used == {cache[s] : s \in Selected(k)}
           new == [set |-> TRUE, view |-> [r \in used |-> rt[r]], deletes |-> deletes]
<1>1. /\ query[q].pc = "idle" /\ phase = "open"
      /\ IF snap[k].set
         THEN snap' = snap /\ refs' = refs
         ELSE /\ Servable(Selected(k))
              /\ snap' = [snap EXCEPT ![k] = new]
              /\ refs' = [r \in Runtimes |-> IF r \in used THEN refs[r] + 1 ELSE refs[r]]
      /\ query' = [query EXCEPT ![q] = [pc |-> "acquiring", kind |-> kind, held |-> {},
                                        view |-> snap'[k].view]]
      /\ UNCHANGED storeVars /\ rt' = rt /\ retired' = retired /\ failures' = failures
      /\ cache' = cache /\ leases' = leases /\ maint' = maint /\ iterators' = iterators
      /\ phase' = phase /\ prepared' = prepared
  BY DEF QueryBegin
<1>2. /\ StoreInv /\ QueryInv /\ SnapInv /\ PoolTypes /\ Counts /\ CacheInv /\ iterators \in Nat
      /\ phase \in {"open", "draining", "closed"} /\ leases = Cardinality(Leased) /\ config' = config
  BY <1>1 DEF RuntimeInv, StoreInv, QueryInv, storeVars
<1>3. QueryProper(q) /\ query = [p \in Queries |-> query[p]] /\ k \in SnapKinds
  BY <1>2, QueryIs DEF SnapOf, SnapKinds
<1>4. /\ QueryMoves(q)
      /\ query'[q] = [pc |-> "acquiring", kind |-> kind, held |-> {}, view |-> snap'[k].view]
  BY <1>1, <1>3 DEF QueryMoves
<1>5. query[q].held = {} /\ query'[q].held = {} /\ query'[q].pc = "acquiring"
  BY <1>1, <1>3, <1>4 DEF QueryProper
<1>6. ASSUME NEW r \in Runtimes
      PROVE  HeldN(r)' = HeldN(r) /\ MaintN(r)' = MaintN(r) /\ CacheN(r)' = CacheN(r)
  <2>1. HeldN(r)' = HeldN(r) - In(r, query[q].held) + In(r, query'[q].held)
    BY <1>4, HeldChange
  <2>2. HeldN(r) \in Nat
    BY UseTypes
  <2>3. HeldN(r)' = HeldN(r)
    BY <1>5, <2>1, <2>2 DEF In
  <2>4. QED
    BY <1>1, <2>3, SameOwners
<1>7. leases' = Cardinality(Leased)'
  BY <1>1, <1>2, <1>4, <1>5, LeasedChange
<1>8. \A r \in Runtimes : Uses(r) = SnapN(r) + HeldN(r) + MaintN(r) /\ SnapN(r) \in Nat
                           /\ HeldN(r) \in Nat /\ MaintN(r) \in Nat
  BY UseTypes
<1>9. \A r \in Runtimes : Uses(r)' = SnapN(r)' + HeldN(r) + MaintN(r)
  BY <1>6, UseTypesNext
<1>10. CASE snap[k].set
  <2>1. snap' = snap /\ refs' = refs
    BY <1>1, <1>10
  <2>2. \A r \in Runtimes : CacheN(r)' = CacheN(r) /\ Uses(r)' = Uses(r)
    BY <1>6, <1>8, <1>9, <2>1, SameOwners
  <2>3. UNCHANGED poolVars
    BY <1>1, <2>1 DEF poolVars
  <2>4. QuietStep
    BY <1>1, <1>2, <2>2, <2>3, PoolRests DEF QuietStep, StoreRests
  <2>5. QueryProper(q)'
    BY <1>1, <1>4, <1>10, <2>1 DEF QueryProper
  <2>6. QED
    BY <1>1, <1>4, <1>7, <2>1, <2>4, <2>5, QueryStepInv
<1>11. CASE ~snap[k].set
  <2>1. /\ Servable(Selected(k)) /\ snap' = [snap EXCEPT ![k] = new]
        /\ refs' = [r \in Runtimes |-> IF r \in used THEN refs[r] + 1 ELSE refs[r]]
    BY <1>1, <1>11
  <2>2. \A s \in Selected(k) : s \in Segments /\ cache[s] # None /\ rt[cache[s]] = Key(s, schema, docs[s])
    BY <2>1 DEF Servable, Selected, Sealed
  <2>3. \A r \in used : r \in Runtimes /\ rt[r] # Closed
    BY <1>2, <2>2, CachedOwned
  <2>4. snap[k].view = <<>> /\ snap = [j \in SnapKinds |-> snap[j]]
    BY <1>2, <1>3, <1>11 DEF SnapInv
  <2>5. /\ snap' = [j \in SnapKinds |-> snap'[j]] /\ snap'[k] = new
        /\ \A j \in SnapKinds \ {k} : snap'[j] = snap[j]
    BY <1>3, <2>1, <2>4
  <2>6. new.set /\ DOMAIN new.view = used /\ (\A r \in used : new.view[r] = rt[r]) /\ new.deletes = deletes
    OBVIOUS
  <2> HIDE DEF k, used, new
  <2>7. ASSUME NEW r \in Runtimes
        PROVE  Uses(r)' = Uses(r) + In(r, used)
    <3>1. SnapN(r)' = SnapN(r) + In(r, used)
      <4>1. In(r, DOMAIN snap[k].view) = 0 /\ In(r, DOMAIN snap'[k].view) = In(r, used)
        BY <2>4, <2>5, <2>6 DEF In
      <4>2. \A j \in SnapKinds : In(r, DOMAIN snap[j].view) \in {0, 1} /\ In(r, used) \in {0, 1}
        BY InTypes
      <4>3. CASE k = "full"
        <5>1. snap'["vector"] = snap["vector"]
          BY <2>5, <4>3 DEF SnapKinds
        <5>2. SnapN(r) = 0 + In(r, DOMAIN snap["vector"].view)
          BY <4>1, <4>3 DEF SnapN
        <5>3. SnapN(r)' = In(r, used) + In(r, DOMAIN snap["vector"].view)
          BY <4>1, <4>3, <5>1 DEF SnapN, In
        <5>4. QED
          BY <4>2, <5>2, <5>3 DEF SnapKinds
      <4>4. CASE k = "vector"
        <5>1. snap'["full"] = snap["full"]
          BY <2>5, <4>4 DEF SnapKinds
        <5>2. SnapN(r) = In(r, DOMAIN snap["full"].view) + 0
          BY <4>1, <4>4 DEF SnapN
        <5>3. SnapN(r)' = In(r, DOMAIN snap["full"].view) + In(r, used)
          BY <4>1, <4>4, <5>1 DEF SnapN, In
        <5>4. QED
          BY <4>2, <5>2, <5>3 DEF SnapKinds
      <4>5. QED
        BY <1>3, <4>3, <4>4 DEF SnapKinds
    <3>2. In(r, used) \in {0, 1}
      BY InTypes
    <3>3. Uses(r) = SnapN(r) + HeldN(r) + MaintN(r) /\ SnapN(r) \in Nat
                           /\ HeldN(r) \in Nat /\ MaintN(r) \in Nat
      BY <1>8
    <3>4. Uses(r)' = SnapN(r)' + HeldN(r) + MaintN(r)
      BY <1>9
    <3>5. QED
      BY <3>1, <3>2, <3>3, <3>4
  <2>8. Settled(rt)
    BY <1>1, <2>1, <2>3, <2>7, RetainSettles
  <2>9. QuietStep
    BY <1>1, <1>2, <2>8 DEF QuietStep, StoreRests
  <2>10. /\ StoreInv' /\ PoolTypes' /\ Counts' /\ CacheInv' /\ ServedInv' /\ KeepsUsed
         /\ config' = config /\ MaintInv'
    BY <1>1, <2>9, QuietParts
  <2>11. QueryProper(q)'
    BY <1>1, <1>4, <2>5, <2>6 DEF QueryProper, k
  <2>12. QueryInv'
    <3>1. \A j \in SnapKinds : snap[j].set => snap'[j] = snap[j]
      BY <1>11, <2>5
    <3>2. QED
      BY <1>1, <1>4, <1>7, <2>10, <2>11, <3>1, QueryMoved
  <2>13. PhaseInv'
    BY <1>1, <2>10, PhaseKept
  <2>14. SnapInv'
    <3>1. /\ Runtimes' = Runtimes /\ docs' = docs /\ schema' = schema /\ deletes' = deletes
          /\ \A j \in SnapKinds : Selected(j)' = Selected(j)
      <4>1. \A s \in Segments : cache[s] = None => cache'[s] = None
        BY <1>1
      <4>2. StoreRests
        BY <2>9 DEF QuietStep
      <4>3. QED
        BY <1>2, <4>1, <4>2, RestingStore, SameConfig
    <3>2. ASSUME NEW j \in SnapKinds
          PROVE  /\ ~snap'[j].set => snap'[j].view = <<>>
                 /\ DOMAIN snap'[j].view \subseteq Runtimes
                 /\ \A r \in DOMAIN snap'[j].view : rt'[r] = snap'[j].view[r]
      <4>1. CASE j = k
        BY <1>1, <2>3, <2>5, <2>6, <4>1
      <4>2. CASE j # k
        BY <1>1, <1>2, <2>5, <4>2 DEF SnapInv
      <4>3. QED
        BY <4>1, <4>2
    <3>3. ASSUME NEW j \in SnapKinds, snap'[j].set
          PROVE  /\ snap'[j].deletes = deletes
                 /\ Range(snap'[j].view) = {Key(s, schema, docs[s]) : s \in Selected(j)}
      <4>1. CASE j = k
        <5>1. Range(new.view) = {rt[r] : r \in used}
          BY <2>6 DEF Range
        <5>2. {rt[r] : r \in used} = {Key(s, schema, docs[s]) : s \in Selected(k)}
          BY <2>2 DEF used
        <5>3. QED
          BY <2>5, <2>6, <4>1, <5>1, <5>2
      <4>2. CASE j # k
        <5>1. SnapshotsCurrent /\ snap'[j] = snap[j]
          BY <1>2, <2>5, <4>2 DEF SnapInv
        <5>2. QED
          BY <3>3, <5>1 DEF SnapshotsCurrent
      <4>3. QED
        BY <4>1, <4>2
    <3>4. SnapshotsCurrent'
      <4>1. \A j \in SnapKinds : {Key(s, schema, docs[s]) : s \in Selected(j)}' =
                                   {Key(s, schema, docs[s]) : s \in Selected(j)}
        BY <3>1 DEF Key
      <4>2. QED
        BY <3>1, <3>3, <4>1 DEF SnapshotsCurrent, SnapKinds, Range
    <3>5. QED
      BY <2>5, <3>1, <3>2, <3>4 DEF SnapInv, SnapKinds
  <2>15. QED
    BY <2>10, <2>12, <2>13, <2>14 DEF RuntimeInv
<1>12. QED
  BY <1>10, <1>11

-----------------------------------------------------------------------------
(* Maintenance.                                                            *)

\* The fields that the steps of a maintenance change.
LEMMA MaintRecord ==
  ASSUME MaintShape, NEW p, NEW i, NEW s, NEW o
  PROVE  /\ [maint EXCEPT !.pc = p, !.inputs = i, !.sources = s] =
              [pc |-> p, inputs |-> i, sources |-> s, outputs |-> maint.outputs]
         /\ [maint EXCEPT !.pc = p, !.outputs = o] =
              [pc |-> p, inputs |-> maint.inputs, sources |-> maint.sources, outputs |-> o]
<1>1. PICK x : x = [maint EXCEPT !.pc = p]
  OBVIOUS
<1>2. x = [pc |-> p, inputs |-> maint.inputs, sources |-> maint.sources, outputs |-> maint.outputs]
  <2>1. maint = [pc |-> maint.pc, inputs |-> maint.inputs, sources |-> maint.sources,
                 outputs |-> maint.outputs]
    BY DEF MaintShape
  <2>2. QED
    BY <1>1, <2>1
<1>3. PICK y : y = [x EXCEPT !.inputs = i]
  OBVIOUS
<1>4. y = [pc |-> p, inputs |-> i, sources |-> maint.sources, outputs |-> maint.outputs]
  BY <1>2, <1>3
<1>5. [y EXCEPT !.sources = s] = [pc |-> p, inputs |-> i, sources |-> s, outputs |-> maint.outputs]
  BY <1>4
<1>6. [x EXCEPT !.outputs = o] =
        [pc |-> p, inputs |-> maint.inputs, sources |-> maint.sources, outputs |-> o]
  BY <1>2
<1>7. [maint EXCEPT !.pc = p, !.inputs = i, !.sources = s] = [y EXCEPT !.sources = s]
  BY <1>1, <1>3
<1>8. [maint EXCEPT !.pc = p, !.outputs = o] = [x EXCEPT !.outputs = o]
  BY <1>1
<1>9. QED
  BY <1>5, <1>6, <1>7, <1>8

\* A step of a maintenance that leaves store, cache, snapshots and queries.
LEMMA MaintStepInv ==
  ASSUME RuntimeInv, QuietStep, snap' = snap, query' = query, leases' = leases, MaintInv',
         maint.pc # "none"
  PROVE  RuntimeInv'
<1>1. /\ StoreInv' /\ PoolTypes' /\ Counts' /\ CacheInv' /\ ServedInv' /\ SnapInv' /\ QueryInv'
      /\ config' = config
  BY QuietParts
<1>2. phase' = phase /\ cache' = cache
  BY DEF QuietStep
<1>3. phase = "open"
  BY DEF RuntimeInv, PhaseInv, NoMaintenance
<1>4. PhaseInv'
  BY <1>1, <1>2, <1>3, PhaseKept
<1>5. QED
  BY <1>1, <1>4 DEF RuntimeInv

\* A build retains the runtimes it reads.
LEMMA BuildSourcesInv ==
  ASSUME RuntimeInv, BuildSources
  PROVE  RuntimeInv'
<1>1. /\ maint.pc = "build" /\ UNCHANGED storeVars /\ rt' = rt /\ retired' = retired
      /\ failures' = failures /\ cache' = cache /\ snap' = snap /\ leases' = leases /\ query' = query
      /\ iterators' = iterators /\ phase' = phase /\ prepared' = prepared /\ phase = "open"
      /\ refs' = [r \in Runtimes |-> IF r \in Cached THEN refs[r] + 1 ELSE refs[r]]
      /\ maint' = [maint EXCEPT !.pc = "building", !.inputs = Sealed \ indexed, !.sources = Cached]
  BY DEF BuildSources
<1>2. /\ StoreInv /\ MaintShape /\ CacheInv /\ Counts /\ PoolTypes /\ iterators \in Nat
      /\ config' = config /\ config \in Configs
  BY <1>1 DEF RuntimeInv, StoreInv, MaintInv, storeVars
<1>3. maint' = [pc |-> "building", inputs |-> Sealed \ indexed, sources |-> Cached,
                outputs |-> maint.outputs]
  BY <1>1, <1>2, MaintRecord
<1>4. maint.sources = {} /\ maint.outputs = <<>>
  BY <1>1, <1>2 DEF MaintShape
<1>5. /\ maint'.pc = "building" /\ maint'.inputs = Sealed \ indexed /\ maint'.sources = Cached
      /\ maint'.outputs = maint.outputs
  BY <1>3
<1>6. ASSUME NEW r \in Runtimes
      PROVE  Uses(r)' = Uses(r) + In(r, Cached)
  <2>1. /\ SnapN(r) \in Nat /\ HeldN(r) \in Nat /\ MaintN(r) \in Nat
        /\ Uses(r) = SnapN(r) + HeldN(r) + MaintN(r) /\ In(r, Cached) \in {0, 1}
    BY UseTypes, InTypes
  <2>2. MaintN(r) = 0 + In(r, Range(maint.outputs)) /\ In(r, Range(maint.outputs)) \in {0, 1}
    BY <1>4 DEF MaintN, In
  <2>3. MaintN(r)' = In(r, Cached) + In(r, Range(maint.outputs))
    BY <1>5 DEF MaintN, In, Range
  <2>4. SnapN(r)' = SnapN(r) /\ HeldN(r)' = HeldN(r)
    BY <1>1, SameOwners
  <2>5. Uses(r)' = SnapN(r)' + HeldN(r)' + MaintN(r)'
    BY UseTypesNext
  <2>6. QED
    BY <2>1, <2>2, <2>3, <2>4, <2>5
<1>7. \A r \in Runtimes : r \in Cached => rt[r] # Closed
  <2>1. ASSUME NEW r \in Runtimes, r \in Cached
        PROVE  rt[r] # Closed
    <3>1. PICK s \in Segments : cache[s] = r /\ cache[s] # None
      BY <1>2, <2>1 DEF Cached, Range, CacheInv
    <3>2. QED
      BY <1>2, <3>1, CachedOwned
  <2>2. QED
    BY <2>1
<1>8. Settled(rt)
  BY <1>1, <1>6, <1>7, RetainSettles
<1>9. QuietStep
  BY <1>1, <1>2, <1>8 DEF QuietStep, StoreRests, StoreInv
<1>10. MaintInv'
  <2>1. Segments' = Segments /\ Sealed' = Sealed
    BY <1>1, <1>2, SameConfig DEF Sealed, storeVars
  <2>2. maint'.inputs \subseteq Segments
    BY <1>5 DEF Sealed
  <2>3. MaintShape'
    BY <1>3, <1>4, <1>5, <2>1, <2>2 DEF MaintShape
  <2>4. QED
    BY <1>5, <2>1, <2>3 DEF MaintInv
<1>11. QED
  BY <1>1, <1>9, <1>10, MaintStepInv

\* A maintenance opens new runtimes for the segments S: nobody else has them.
OpenStep(S, made, keys) ==
  /\ Opening(S, made, keys) /\ \A s \in S : Proper(keys[s], <<s, 0>>, schema)
  /\ rt' = Opened(made, keys) /\ refs' = Counted(made) /\ retired' = retired /\ failures' = failures
  /\ cache' = cache /\ snap' = snap /\ query' = query /\ leases' = leases
  /\ phase = "open" /\ phase' = phase /\ prepared' = prepared /\ iterators' = iterators
  /\ config' = config /\ docs' = docs /\ writing' = writing /\ schema' = schema
  /\ deletes' = deletes /\ indexed' = indexed /\ nextSeg' \in nextSeg..(MaxSegment + 1)
  /\ maint'.sources = maint.sources /\ maint.outputs = <<>> /\ maint'.outputs = made

\* The pool stays exact, and every runtime that was open stays as it was.
LEMMA OpenSettles ==
  ASSUME RuntimeInv, NEW S, NEW made, NEW keys, OpenStep(S, made, keys)
  PROVE  /\ PoolTypes' /\ Counts' /\ \A r \in Runtimes : refs[r] # 0 => rt'[r] = rt[r]
         /\ \A r \in Runtimes : Proper(rt'[r], r, schema)
<1>1. /\ PoolTypes /\ Counts /\ CacheInv /\ config \in Configs /\ config' = config
      /\ Opening(S, made, keys)
      /\ rt' = Opened(made, keys) /\ refs' = Counted(made) /\ retired' = retired
      /\ failures' = failures
  BY DEF RuntimeInv, StoreInv, OpenStep
<1>2. PoolWith(S, made, keys)
  BY <1>1, OpenedFacts
<1>3. /\ rt' \in [Runtimes -> RuntimeState] /\ refs' \in [Runtimes -> Nat]
      /\ \A r \in Runtimes :
           /\ r \notin Range(made) => rt'[r] = rt[r] /\ refs'[r] = refs[r]
           /\ r \in Range(made) => rt'[r] = keys[r[1]] /\ refs'[r] = 1 /\ refs[r] = 0
           /\ rt'[r] = Closed <=> refs'[r] = 0
  BY <1>1, <1>2 DEF PoolWith
<1>4. ASSUME NEW r \in Runtimes
      PROVE  refs'[r] = CacheN(r)' + Uses(r)' + In(r, retired')
  <2>1. refs[r] = CacheN(r) + Uses(r) + In(r, retired)
    BY <1>1 DEF Counts
  <2>2. /\ CacheN(r) \in Nat /\ SnapN(r) \in Nat /\ HeldN(r) \in Nat /\ MaintN(r) \in Nat
        /\ Uses(r) = SnapN(r) + HeldN(r) + MaintN(r) /\ In(r, retired) \in Nat
        /\ In(r, maint.sources) \in Nat /\ In(r, Range(made)) \in {0, 1}
        /\ (In(r, Range(made)) = 1 <=> r \in Range(made)) /\ Uses(r) \in Nat
    BY UseTypes, InTypes
  <2>3. MaintN(r) = In(r, maint.sources) + 0
    BY DEF OpenStep, MaintN, In, Range
  <2>4. MaintN(r)' = In(r, maint.sources) + In(r, Range(made))
    BY DEF OpenStep, MaintN, In, Range
  <2>5. CacheN(r)' = CacheN(r) /\ SnapN(r)' = SnapN(r) /\ HeldN(r)' = HeldN(r)
    BY SameOwners DEF OpenStep
  <2>6. Uses(r)' = SnapN(r)' + HeldN(r)' + MaintN(r)'
    BY UseTypesNext
  <2>7. Uses(r)' = Uses(r) + In(r, Range(made))
    BY <2>2, <2>3, <2>4, <2>5, <2>6
  <2>8. refs'[r] = refs[r] + In(r, Range(made))
    <3>1. CASE r \in Range(made)
      BY <1>3, <2>2, <3>1
    <3>2. CASE r \notin Range(made)
      BY <1>3, <2>1, <2>2, <3>2
    <3>3. QED
      BY <3>1, <3>2
  <2>9. In(r, retired') = In(r, retired)
    BY <1>1
  <2>10. QED
    BY <2>1, <2>2, <2>5, <2>7, <2>8, <2>9
<1>5. \A r \in Runtimes : refs[r] # 0 => rt'[r] = rt[r]
  BY <1>3
<1>6. Runtimes' = Runtimes /\ RuntimeState' = RuntimeState /\ MaxFailures' = MaxFailures
  BY <1>1, SameConfig
<1>7. PoolTypes'
  BY <1>1, <1>3, <1>6 DEF PoolTypes
<1>8. Counts'
  <2>1. \A r \in Runtimes' :
          /\ refs'[r] = CacheN(r)' + Uses(r)' + In(r, retired)'
          /\ rt'[r] = Closed <=> refs'[r] = 0
    BY <1>3, <1>4, <1>6 DEF In
  <2>2. Closed' = Closed
    BY DEF Closed
  <2>3. QED
    BY <2>1, <2>2 DEF Counts
<1>9. ASSUME NEW r \in Runtimes
      PROVE  Proper(rt'[r], r, schema)
  <2>1. CASE r \in Range(made)
    <3>1. r[1] \in S
      BY <1>1, <2>1, AllocationFacts DEF Opening
    <3>2. Proper(keys[r[1]], <<r[1], 0>>, schema)
      BY <3>1 DEF OpenStep
    <3>3. QED
      BY <1>3, <2>1, <3>2 DEF Proper
  <2>2. CASE r \notin Range(made)
    BY <1>1, <1>3, <2>2 DEF CacheInv
  <2>3. QED
    BY <2>1, <2>2
<1>10. QED
  BY <1>5, <1>7, <1>8, <1>9

\* Such a step keeps the invariant.
LEMMA OpenStepInv ==
  ASSUME RuntimeInv, NEW S, NEW made, NEW keys, OpenStep(S, made, keys), MaintInv'
  PROVE  RuntimeInv'
<1>1. /\ StoreInv /\ CacheInv /\ PoolTypes /\ Counts /\ ServedInv /\ MaxSegment \in Nat
      /\ nextSeg \in 2..(MaxSegment + 1)
  BY ConfigTypes DEF RuntimeInv, StoreInv
<1>2. /\ PoolTypes' /\ Counts' /\ \A r \in Runtimes : refs[r] # 0 => rt'[r] = rt[r]
      /\ \A r \in Runtimes : Proper(rt'[r], r, schema)
  BY OpenSettles
<1>3. /\ cache' = cache /\ snap' = snap /\ query' = query /\ leases' = leases
      /\ phase = "open" /\ phase' = phase /\ prepared' = prepared /\ iterators' = iterators
      /\ config' = config /\ docs' = docs /\ writing' = writing /\ schema' = schema
      /\ deletes' = deletes /\ indexed' = indexed /\ nextSeg' \in nextSeg..(MaxSegment + 1)
  BY DEF OpenStep
<1>4. Segments' = Segments /\ Runtimes' = Runtimes
  BY <1>3, SameConfig
<1>5. KeepsUsed
  BY <1>2 DEF KeepsUsed
<1>6. StoreInv'
  <2>1. schema' \in schema..MaxSchema /\ nextSeg' \in 2..(MaxSegment + 1) /\ nextSeg <= nextSeg'
    BY <1>1, <1>3, ConfigTypes DEF StoreInv
  <2>2. \A s \in Segments : s \in Int
    BY <1>1 DEF Segments
  <2>3. writing \in Int /\ writing < nextSeg' /\ \A s \in Segments : s >= nextSeg' => s >= nextSeg
    BY <1>1, <1>3, <2>2 DEF StoreInv
  <2>4. \A s \in indexed : s < nextSeg'
    BY <1>1, <1>3, <2>2 DEF StoreInv
  <2>5. StoreGoes
    BY <1>1, <1>3, <2>1, <2>3, <2>4 DEF StoreGoes, StoreInv
  <2>6. QED
    BY <1>1, <1>3, <2>5, StoreNext DEF StoreInv
<1>7. CacheInv'
  <2>1. \A r \in Runtimes : Proper(rt[r], r, schema)'
    BY <1>2, <1>3 DEF Proper, Closed
  <2>2. QED
    BY <1>1, <1>3, <1>4, <2>1 DEF CacheInv
<1>8. ServedInv'
  <2>1. ASSUME NEW s \in Segments, cache[s] # None
        PROVE  rt'[cache[s]] = rt[cache[s]]
    BY <1>1, <1>2, <2>1, CachedOwned
  <2>2. \A s \in Segments : Fit(s) => Fit(s)'
    BY <1>3, <2>1 DEF Fit, Key
  <2>3. writing \in Segments
    BY <1>1 DEF StoreInv
  <2>4. QED
    BY <1>1, <1>3, <1>4, <2>1, <2>2, <2>3 DEF ServedInv
<1>9. QueryInv'
  BY <1>3, <1>5, QueryKept
<1>10. SnapInv'
  <2>1. \A k \in SnapKinds : Selected(k)' = Selected(k)
    BY <1>1, <1>3, SelectionKept
  <2>2. QED
    BY <1>3, <1>5, <2>1, SnapKept
<1>11. PhaseInv'
  BY <1>3, PhaseKept
<1>12. QED
  BY <1>2, <1>6, <1>7, <1>8, <1>9, <1>10, <1>11 DEF RuntimeInv

\* A build opens the runtimes of its inputs, which writes do not reach.
LEMMA BuildRuntimesInv ==
  ASSUME RuntimeInv, BuildRuntimes
  PROVE  RuntimeInv'
<1> DEFINE S == maint.inputs
           keys == [s \in S |-> Key(s, schema, docs[s])]
<1>1. PICK made \in Allocations(S) :
        /\ maint' = [maint EXCEPT !.pc = "built", !.outputs = made]
        /\ rt' = Opened(made, keys) /\ refs' = Counted(made)
  BY DEF BuildRuntimes
<1>2. /\ maint.pc = "building" /\ UNCHANGED storeVars /\ retired' = retired
      /\ failures' = failures /\ cache' = cache /\ snap' = snap /\ leases' = leases /\ query' = query
      /\ iterators' = iterators /\ phase' = phase /\ prepared' = prepared
  BY DEF BuildRuntimes
<1>3. /\ StoreInv /\ MaintInv /\ MaintShape /\ PoolTypes /\ Counts /\ config \in Configs
      /\ schema \in 1..MaxSchema /\ docs \in [Segments -> 0..Capacity]
      /\ MaxSchema \in Nat /\ MaxSegment \in Nat /\ nextSeg \in 2..(MaxSegment + 1)
  BY ConfigTypes DEF RuntimeInv, StoreInv, MaintInv
<1>4. S \subseteq Segments /\ S \subseteq Sealed /\ maint.outputs = <<>>
  BY <1>2, <1>3 DEF MaintInv, MaintShape
<1>5. maint' = [pc |-> "built", inputs |-> S, sources |-> maint.sources, outputs |-> made]
  BY <1>1, <1>3, MaintRecord
<1>6. /\ maint'.pc = "built" /\ maint'.inputs = S /\ maint'.sources = maint.sources
      /\ maint'.outputs = made
  BY <1>5
<1>7. \A s \in S : /\ keys[s] = Key(s, schema, docs[s]) /\ keys[s] \in RuntimeState
                  /\ keys[s] # Closed /\ Proper(keys[s], <<s, 0>>, schema)
  <2>1. \A s \in S : Key(s, schema, docs[s]) \in RuntimeState /\ Key(s, schema, docs[s]) # Closed
    BY <1>3, <1>4, KeyTypes
  <2>2. \A s \in S : Proper(Key(s, schema, docs[s]), <<s, 0>>, schema)
    BY <1>3 DEF Proper, Key
  <2>3. QED
    BY <2>1, <2>2
<1> HIDE DEF S, keys
<1>8. Opening(S, made, keys)
  BY <1>4, <1>7 DEF Opening
<1>9. /\ config' = config /\ docs' = docs /\ writing' = writing /\ nextSeg' = nextSeg
      /\ schema' = schema /\ deletes' = deletes /\ indexed' = indexed
  BY <1>2 DEF storeVars
<1>10. OpenStep(S, made, keys)
  <2>1. phase = "open"
    BY <1>2 DEF RuntimeInv, PhaseInv, NoMaintenance
  <2>2. nextSeg' \in nextSeg..(MaxSegment + 1)
    BY <1>3, <1>9
  <2>3. QED
    BY <1>1, <1>2, <1>4, <1>6, <1>7, <1>8, <1>9, <2>1, <2>2 DEF OpenStep
<1>11. MaintInv'
  <2>1. Segments' = Segments /\ Sealed' = Sealed /\ Runtimes' = Runtimes
    BY <1>9, SameConfig DEF Sealed
  <2>2. MaintShape'
    BY <1>4, <1>5, <1>6, <2>1 DEF MaintShape
  <2>3. /\ DOMAIN made = S
        /\ \A s \in S : made[s] \in Runtimes /\ made[s][1] = s
    BY AllocationFacts
  <2>4. \A s \in S : rt'[made[s]] = keys[s]
    BY <1>1, <1>3, <1>8, OpenedFacts DEF PoolWith
  <2>5. \A s \in S : Output(s, docs[s])'
    BY <1>6, <1>7, <1>9, <2>1, <2>3, <2>4 DEF Output, Key
  <2>6. QED
    BY <1>4, <1>6, <2>1, <2>2, <2>3, <2>5 DEF MaintInv
<1>12. QED
  BY <1>10, <1>11, OpenStepInv

\* Compaction.Prepare opens runtimes for the segments it reserves.
LEMMA CompactPrepareInv ==
  ASSUME RuntimeInv, CompactPrepare
  PROVE  RuntimeInv'
<1>1. /\ maint.pc = "compact" /\ config' = config /\ docs' = docs /\ writing' = writing
      /\ schema' = schema /\ deletes' = deletes /\ indexed' = indexed /\ retired' = retired
      /\ failures' = failures /\ cache' = cache /\ snap' = snap /\ leases' = leases /\ query' = query
      /\ iterators' = iterators /\ phase' = phase /\ prepared' = prepared
  BY DEF CompactPrepare
<1>2. /\ StoreInv /\ MaintInv /\ MaintShape /\ PoolTypes /\ Counts /\ config \in Configs
      /\ schema \in 1..MaxSchema /\ iterators \in Nat /\ writing < nextSeg /\ writing \in Int
      /\ MaxSchema \in Nat /\ MaxSegment \in Nat /\ nextSeg \in 2..(MaxSegment + 1)
  <2>1. StoreInv /\ MaintInv /\ MaintShape /\ PoolTypes /\ Counts
    BY DEF RuntimeInv, MaintInv
  <2>2. MaxSchema \in Nat /\ MaxSegment \in Nat
    BY <2>1, ConfigTypes DEF StoreInv
  <2>3. /\ config \in Configs /\ schema \in 1..MaxSchema /\ iterators \in Nat /\ writing < nextSeg
        /\ writing \in Segments /\ nextSeg \in 2..(MaxSegment + 1)
    BY <2>1 DEF StoreInv
  <2>4. QED
    BY <2>1, <2>2, <2>3 DEF Segments
<1>3. /\ maint.inputs \subseteq Segments /\ maint.inputs \subseteq Sealed /\ maint.outputs = <<>>
      /\ maint.sources = {}
  BY <1>1, <1>2 DEF MaintInv, MaintShape
<1>4. ASSUME NEW out \in Rewrites(maint.inputs, nextSeg), NEW made \in Allocations(DOMAIN out),
             nextSeg' = nextSeg + Cardinality(DOMAIN out),
             maint' = [maint EXCEPT !.pc = "compacted", !.outputs = made],
             rt' = Opened(made, [s \in DOMAIN out |-> Key(s, schema, out[s])]),
             refs' = Counted(made)
      PROVE  RuntimeInv'
  <2> DEFINE S == DOMAIN out
             keys == [s \in S |-> Key(s, schema, out[s])]
  <2>1. PICK last \in (nextSeg - 1)..MaxSegment :
          /\ S = nextSeg..last /\ out \in [nextSeg..last -> 1..Capacity]
          /\ Cardinality(S) = last - nextSeg + 1
    BY <1>2, RewriteFacts
  <2>2. maint' = [pc |-> "compacted", inputs |-> maint.inputs, sources |-> maint.sources,
                  outputs |-> made]
    BY <1>2, <1>4, MaintRecord
  <2>3. /\ maint'.pc = "compacted" /\ maint'.inputs = maint.inputs
        /\ maint'.sources = maint.sources /\ maint'.outputs = made
    BY <2>2
  <2>4. \A s \in S : out[s] \in 1..Capacity
    BY <2>1
  <2>5. nextSeg' = last + 1 /\ last \in Int
    BY <1>2, <1>4, <2>1
  <2>6. rt' = Opened(made, keys) /\ made \in Allocations(S)
    BY <1>4
  <2>7. \A s \in S : keys[s] = Key(s, schema, out[s])
    OBVIOUS
  <2> HIDE DEF S, keys
  <2>8. \A s \in S : s \in Segments /\ s >= nextSeg /\ s < nextSeg' /\ s # writing
    BY <1>2, <2>1, <2>5 DEF Segments
  <2>9. \A s \in S : keys[s] \in RuntimeState /\ keys[s] # Closed /\ Proper(keys[s], <<s, 0>>, schema)
    <3>1. Capacity \in Nat /\ \A s \in S : out[s] \in 0..Capacity
      BY <1>2, <2>4, ConfigTypes
    <3>2. \A s \in S : Key(s, schema, out[s]) \in RuntimeState /\ Key(s, schema, out[s]) # Closed
      BY <1>2, <2>8, <3>1, KeyTypes
    <3>3. \A s \in S : Proper(Key(s, schema, out[s]), <<s, 0>>, schema)
      BY <1>2 DEF Proper, Key
    <3>4. QED
      BY <2>7, <3>2, <3>3
  <2>10. Opening(S, made, keys)
    BY <2>6, <2>8, <2>9 DEF Opening
  <2>11. OpenStep(S, made, keys)
    <3>1. phase = "open"
      BY <1>1 DEF RuntimeInv, PhaseInv, NoMaintenance
    <3>2. nextSeg' \in nextSeg..(MaxSegment + 1)
      BY <1>2, <2>1, <2>5
    <3>3. QED
      BY <1>1, <1>3, <1>4, <2>3, <2>6, <2>9, <2>10, <3>1, <3>2 DEF OpenStep
  <2>12. MaintInv'
    <3>1. Segments' = Segments /\ Sealed' = Sealed /\ Runtimes' = Runtimes /\ Capacity' = Capacity
      BY <1>1, SameConfig DEF Sealed
    <3>2. MaintShape'
      BY <1>3, <2>2, <2>3, <3>1 DEF MaintShape
    <3>3. /\ DOMAIN made = S
          /\ \A s \in S : made[s] \in Runtimes /\ made[s][1] = s
      BY <2>6, AllocationFacts
    <3>4. \A s \in S : rt'[made[s]] = keys[s]
      BY <1>2, <2>6, <2>10, OpenedFacts DEF PoolWith
    <3>5. ASSUME NEW s \in S
          PROVE  \E n \in 1..Capacity : Output(s, n)'
      <4>1. rt'[made[s]] = Key(s, schema', out[s])
        BY <1>1, <2>7, <3>4
      <4>2. Output(s, out[s])'
        BY <2>3, <3>1, <3>3, <4>1 DEF Output, Key
      <4>3. QED
        BY <2>4, <4>2
    <3>6. \A s \in S : docs[s] = 0 /\ cache[s] = None
      BY <1>2, <2>8 DEF StoreInv
    <3>7. QED
      BY <1>1, <1>3, <2>3, <2>8, <3>1, <3>2, <3>3, <3>5, <3>6 DEF MaintInv
  <2>13. QED
    BY <2>11, <2>12, OpenStepInv
<1>5. CASE maint' = [NoMaintenance EXCEPT !.pc = "build"] /\ nextSeg' = nextSeg /\ rt' = rt /\ refs' = refs
  <2>1. maint'.sources = maint.sources /\ maint'.outputs = maint.outputs
    BY <1>3, <1>5 DEF NoMaintenance
  <2>2. UNCHANGED poolVars /\ UNCHANGED storeVars
    BY <1>1, <1>5 DEF poolVars, storeVars
  <2>3. \A r \in Runtimes : CacheN(r)' = CacheN(r) /\ Uses(r)' = Uses(r)
    BY <1>1, <2>1, SameOwners, UseTypes, UseTypesNext
  <2>4. QuietStep
    BY <1>1, <1>2, <2>2, <2>3, PoolRests DEF QuietStep, StoreRests, StoreInv
  <2>5. MaintInv'
    BY <1>5, MaintFresh
  <2>6. QED
    BY <1>1, <2>4, <2>5, MaintStepInv
<1>6. QED
  BY <1>4, <1>5 DEF CompactPrepare

\* A maintenance ends with the release of all it owns.
LEMMA MaintEndsInv ==
  ASSUME RuntimeInv, NEW released \in [Runtimes -> Nat], \A r \in Runtimes : released[r] = MaintN(r),
         Settle(rt, refs, released, retired), maint.pc # "none", maint' = NoMaintenance,
         UNCHANGED <<storeVars, cache, snap, leases, query, iterators, phase, prepared>>
  PROVE  RuntimeInv'
<1>1. /\ UNCHANGED storeVars /\ cache' = cache /\ snap' = snap /\ leases' = leases /\ query' = query
      /\ iterators' = iterators /\ phase' = phase /\ prepared' = prepared
  OBVIOUS
<1>2. /\ StoreInv /\ PoolTypes /\ Counts /\ config \in Configs /\ failures \in 0..MaxFailures
      /\ iterators \in Nat
  BY DEF RuntimeInv, StoreInv, PoolTypes
<1>3. ASSUME NEW r \in Runtimes
      PROVE  refs[r] - released[r] = CacheN(r)' + Uses(r)' + In(r, retired)
  <2>1. refs[r] = CacheN(r) + Uses(r) + In(r, retired)
    BY <1>2 DEF Counts
  <2>2. /\ CacheN(r) \in Nat /\ SnapN(r) \in Nat /\ HeldN(r) \in Nat /\ MaintN(r) \in Nat
        /\ Uses(r) = SnapN(r) + HeldN(r) + MaintN(r) /\ In(r, retired) \in Nat
    BY UseTypes, InTypes
  <2>3. MaintN(r)' = 0
    BY DEF MaintN, In, Range, NoMaintenance
  <2>4. CacheN(r)' = CacheN(r) /\ SnapN(r)' = SnapN(r) /\ HeldN(r)' = HeldN(r)
    BY <1>1, SameOwners
  <2>5. Uses(r)' = SnapN(r)' + HeldN(r)' + MaintN(r)'
    BY UseTypesNext
  <2>6. Uses(r)' = SnapN(r) + HeldN(r)
    BY <2>2, <2>3, <2>4, <2>5
  <2>7. released[r] = MaintN(r)
    OBVIOUS
  <2>8. QED
    BY <2>1, <2>2, <2>4, <2>6, <2>7
<1>4. Balanced(rt, refs, released, retired)
  BY <1>2, <1>3 DEF Balanced, PoolTypes, Counts
<1>5. Settled(rt)
  BY <1>2, <1>4, SettleBalances
<1>6. QuietStep
  BY <1>1, <1>2, <1>5 DEF QuietStep, StoreRests, StoreInv
<1>7. MaintInv'
  BY MaintFresh
<1>8. QED
  BY <1>1, <1>6, <1>7, MaintStepInv

\* The deferred functions of a build.
LEMMA BuildEndsInv ==
  ASSUME RuntimeInv, BuildEnds
  PROVE  RuntimeInv'
<1> DEFINE f == ByMembership(maint.sources)
           g == ByMembership(Range(maint.outputs))
<1>1. f \in [Runtimes -> Nat] /\ g \in [Runtimes -> Nat]
  BY MemberReleases
<1>2. \A r \in Runtimes : f[r] = In(r, maint.sources) /\ g[r] = In(r, Range(maint.outputs))
  BY MemberReleases
<1>3. /\ Settle(rt, refs, Plus(f, g), retired) /\ maint.pc # "none" /\ maint' = NoMaintenance
      /\ UNCHANGED <<storeVars, cache, snap, leases, query, iterators, phase, prepared>>
  BY DEF BuildEnds
<1> HIDE DEF f, g
<1>4. Plus(f, g) \in [Runtimes -> Nat] /\ \A r \in Runtimes : Plus(f, g)[r] = f[r] + g[r]
  BY <1>1, PlusReleases
<1>5. \A r \in Runtimes : Plus(f, g)[r] = MaintN(r)
  BY <1>2, <1>4 DEF MaintN
<1>6. QED
  BY <1>3, <1>4, <1>5, MaintEndsInv

\* A compaction that fails.
LEMMA CompactFailsInv ==
  ASSUME RuntimeInv, CompactFails
  PROVE  RuntimeInv'
<1> DEFINE g == ByMembership(Range(maint.outputs))
<1>1. g \in [Runtimes -> Nat]
  BY MemberReleases
<1>2. \A r \in Runtimes : g[r] = In(r, Range(maint.outputs))
  BY MemberReleases
<1>3. /\ Settle(rt, refs, g, retired) /\ maint.pc # "none" /\ maint' = NoMaintenance
      /\ UNCHANGED <<storeVars, cache, snap, leases, query, iterators, phase, prepared>>
  BY DEF CompactFails
<1>4. maint.sources = {}
  BY DEF CompactFails, RuntimeInv, MaintInv, MaintShape
<1> HIDE DEF g
<1>5. \A r \in Runtimes : MaintN(r) = 0 + In(r, Range(maint.outputs)) /\ In(r, Range(maint.outputs)) \in Nat
  BY <1>4 DEF MaintN, In
<1>6. \A r \in Runtimes : g[r] = MaintN(r)
  BY <1>2, <1>5
<1>7. QED
  BY <1>1, <1>3, <1>6, MaintEndsInv

\* What a maintenance is about to publish.
LEMMA PublishFacts ==
  ASSUME RuntimeInv, maint.pc \in {"built", "compacted"}
  PROVE  /\ \A s \in DOMAIN maint.outputs :
              /\ s \in Segments /\ s < nextSeg /\ s # writing
              /\ s \in maint.inputs \/ cache[s] = None
              /\ maint.outputs[s] \in Runtimes /\ maint.outputs[s][1] = s
              /\ rt[maint.outputs[s]] = Key(s, schema, rt[maint.outputs[s]].count)
              /\ rt[maint.outputs[s]].count \in 1..Capacity
         /\ \A s \in maint.inputs : s \in Segments /\ s < nextSeg /\ s # writing /\ docs[s] > 0
<1>1. /\ StoreInv /\ MaintInv /\ docs \in [Segments -> 0..Capacity] /\ nextSeg \in Int /\ Capacity \in Nat
      /\ MaxSegment \in Nat
  BY ConfigTypes DEF RuntimeInv, StoreInv
<1>2. \A s \in maint.inputs : s \in Segments /\ s < nextSeg /\ s # writing /\ docs[s] > 0
  <2>1. maint.inputs \subseteq Sealed
    BY <1>1 DEF MaintInv
  <2>2. \A s \in Sealed : s \in Segments /\ s \in Int /\ s # writing /\ docs[s] > 0
    BY <1>1 DEF Sealed, Segments
  <2>3. \A s \in Segments : s >= nextSeg => docs[s] = 0
    BY <1>1 DEF StoreInv
  <2>4. QED
    BY <1>1, <2>1, <2>2, <2>3
<1>3. ASSUME NEW s \in DOMAIN maint.outputs
      PROVE  /\ s \in Segments /\ s < nextSeg /\ s # writing
             /\ s \in maint.inputs \/ cache[s] = None
             /\ \E n \in 1..Capacity : Output(s, n)
  <2>1. CASE maint.pc = "built"
    <3>1. s \in maint.inputs /\ Output(s, docs[s])
      BY <1>1, <2>1 DEF MaintInv
    <3>2. s \in Segments /\ s < nextSeg /\ s # writing /\ docs[s] > 0
      BY <1>2, <3>1
    <3>3. docs[s] \in 1..Capacity
      BY <1>1, <3>2
    <3>4. QED
      BY <3>1, <3>2, <3>3
  <2>2. CASE maint.pc = "compacted"
    BY <1>1, <2>2 DEF MaintInv
  <2>3. QED
    BY <2>1, <2>2
<1>4. ASSUME NEW s \in DOMAIN maint.outputs
      PROVE  /\ maint.outputs[s] \in Runtimes /\ maint.outputs[s][1] = s
             /\ rt[maint.outputs[s]] = Key(s, schema, rt[maint.outputs[s]].count)
             /\ rt[maint.outputs[s]].count \in 1..Capacity
  <2>1. PICK n \in 1..Capacity : Output(s, n)
    BY <1>3
  <2>2. rt[maint.outputs[s]] = Key(s, schema, n) /\ maint.outputs[s] \in Runtimes /\ maint.outputs[s][1] = s
    BY <2>1 DEF Output
  <2>3. rt[maint.outputs[s]].count = n
    BY <2>2 DEF Key
  <2>4. QED
    BY <2>2, <2>3
<1>5. QED
  BY <1>2, <1>3, <1>4

\* Publication: the cache takes the outputs and drops the inputs.
PublishStep ==
  /\ maint.pc \in {"built", "compacted"} /\ Exclusive /\ Invalidate
  /\ cache' = [s \in Segments |-> IF s \in DOMAIN maint.outputs THEN maint.outputs[s]
                                  ELSE IF s \in maint.inputs THEN None ELSE cache[s]]
  /\ docs' = [s \in Segments |-> IF s \in DOMAIN maint.outputs THEN rt[maint.outputs[s]].count
                                 ELSE IF s \in maint.inputs THEN 0 ELSE docs[s]]
  /\ indexed' \subseteq indexed \cup DOMAIN maint.outputs
  /\ Settle(rt, refs, Plus(BySnapshots, ByCache(maint.inputs)), retired)
  /\ maint'.sources = maint.sources /\ maint'.outputs = <<>>
  /\ config' = config /\ writing' = writing /\ nextSeg' = nextSeg /\ schema' = schema
  /\ deletes' = deletes /\ leases' = leases /\ query' = query /\ iterators' = iterators
  /\ phase' = phase /\ prepared' = prepared

\* What the maintenance owned, the cache owns now.
LEMMA PublishSettles ==
  ASSUME RuntimeInv, PublishStep
  PROVE  Settled(rt)
<1> DEFINE f == BySnapshots
           g == ByCache(maint.inputs)
<1>1. /\ StoreInv /\ CacheInv /\ PoolTypes /\ Counts /\ config \in Configs /\ failures \in 0..MaxFailures
      /\ maint.inputs \in SUBSET Segments
  BY DEF RuntimeInv, StoreInv, PoolTypes, MaintInv, MaintShape
<1>2. /\ f \in [Runtimes -> Nat] /\ \A r \in Runtimes : f[r] = SnapN(r)
      /\ g \in [Runtimes -> Nat]
      /\ \A r \in Runtimes : g[r] = IF r[1] \in maint.inputs THEN CacheN(r) ELSE 0
  BY <1>1, SnapshotReleases, CacheReleases
<1>3. Settle(rt, refs, Plus(f, g), retired)
  BY DEF PublishStep
<1> HIDE DEF f, g
<1>4. Plus(f, g) \in [Runtimes -> Nat] /\ \A r \in Runtimes : Plus(f, g)[r] = f[r] + g[r]
  BY <1>2, PlusReleases
<1>5. ASSUME NEW r \in Runtimes
      PROVE  CacheN(r)' = CacheN(r) - g[r] + In(r, Range(maint.outputs))
  <2>1. r[1] \in Segments /\ r # None
    BY <1>1, RuntimePairs, ConfigTypes
  <2>2. cache'[r[1]] = IF r[1] \in DOMAIN maint.outputs THEN maint.outputs[r[1]]
                       ELSE IF r[1] \in maint.inputs THEN None ELSE cache[r[1]]
    BY <2>1 DEF PublishStep
  <2>3. /\ \A s \in DOMAIN maint.outputs : maint.outputs[s][1] = s
        /\ r[1] \in DOMAIN maint.outputs => r[1] \in maint.inputs \/ cache[r[1]] = None
    BY PublishFacts DEF PublishStep
  <2>4. r \in Range(maint.outputs) <=> r[1] \in DOMAIN maint.outputs /\ maint.outputs[r[1]] = r
    BY <2>3 DEF Range
  <2>5. /\ CacheN(r) = (IF cache[r[1]] = r THEN 1 ELSE 0)
        /\ CacheN(r)' = (IF cache'[r[1]] = r THEN 1 ELSE 0)
        /\ In(r, Range(maint.outputs)) = (IF r \in Range(maint.outputs) THEN 1 ELSE 0)
    BY DEF CacheN, In
  <2>6. g[r] = IF r[1] \in maint.inputs THEN CacheN(r) ELSE 0
    BY <1>2
  <2>7. CASE r[1] \in DOMAIN maint.outputs
    <3>1. CacheN(r) = g[r]
      BY <2>1, <2>3, <2>5, <2>6, <2>7
    <3>2. CacheN(r)' = In(r, Range(maint.outputs))
      BY <2>2, <2>4, <2>5, <2>7
    <3>3. CacheN(r) \in Nat /\ CacheN(r)' \in Nat
      BY UseTypes, UseTypesNext
    <3>4. QED
      BY <3>1, <3>2, <3>3
  <2>8. CASE r[1] \notin DOMAIN maint.outputs /\ r[1] \in maint.inputs
    <3>1. CacheN(r) = g[r] /\ In(r, Range(maint.outputs)) = 0
      BY <2>4, <2>5, <2>6, <2>8
    <3>2. CacheN(r)' = 0
      BY <2>1, <2>2, <2>5, <2>8
    <3>3. CacheN(r) \in Nat
      BY UseTypes
    <3>4. QED
      BY <3>1, <3>2, <3>3
  <2>9. CASE r[1] \notin DOMAIN maint.outputs /\ r[1] \notin maint.inputs
    <3>1. g[r] = 0 /\ In(r, Range(maint.outputs)) = 0
      BY <2>4, <2>5, <2>6, <2>9
    <3>2. CacheN(r)' = CacheN(r)
      BY <2>2, <2>5, <2>9
    <3>3. CacheN(r) \in Nat
      BY UseTypes
    <3>4. QED
      BY <3>1, <3>2, <3>3
  <2>10. QED
    BY <2>7, <2>8, <2>9
<1>6. ASSUME NEW r \in Runtimes
      PROVE  refs[r] - Plus(f, g)[r] = CacheN(r)' + Uses(r)' + In(r, retired)
  <2>1. refs[r] = CacheN(r) + Uses(r) + In(r, retired)
    BY <1>1 DEF Counts
  <2>2. /\ CacheN(r) \in Nat /\ SnapN(r) \in Nat /\ HeldN(r) \in Nat
        /\ Uses(r) = SnapN(r) + HeldN(r) + MaintN(r) /\ In(r, retired) \in Nat
        /\ In(r, maint.sources) \in Nat /\ In(r, Range(maint.outputs)) \in Nat
        /\ MaintN(r) = In(r, maint.sources) + In(r, Range(maint.outputs)) /\ g[r] \in Nat
    <3>1. /\ CacheN(r) \in Nat /\ SnapN(r) \in Nat /\ HeldN(r) \in Nat
          /\ Uses(r) = SnapN(r) + HeldN(r) + MaintN(r)
      BY UseTypes
    <3>2. /\ In(r, retired) \in Nat /\ In(r, maint.sources) \in Nat
          /\ In(r, Range(maint.outputs)) \in Nat
      BY InTypes
    <3>3. MaintN(r) = In(r, maint.sources) + In(r, Range(maint.outputs))
      BY DEF MaintN
    <3>4. g[r] \in Nat
      BY <1>2
    <3>5. QED
      BY <3>1, <3>2, <3>3, <3>4
  <2>3. MaintN(r)' = In(r, maint.sources) + 0
    BY DEF PublishStep, MaintN, In, Range
  <2>4. SnapN(r)' = 0 /\ HeldN(r)' = HeldN(r)
    BY SameOwners DEF PublishStep
  <2>5. Uses(r)' = SnapN(r)' + HeldN(r)' + MaintN(r)'
    BY UseTypesNext
  <2>6. Uses(r)' = HeldN(r) + In(r, maint.sources)
    BY <2>2, <2>3, <2>4, <2>5
  <2>7. Plus(f, g)[r] = SnapN(r) + g[r]
    BY <1>2, <1>4
  <2>8. CacheN(r)' = CacheN(r) - g[r] + In(r, Range(maint.outputs))
    BY <1>5
  <2>9. QED
    BY <2>1, <2>2, <2>6, <2>7, <2>8
<1>7. Balanced(rt, refs, Plus(f, g), retired)
  BY <1>1, <1>4, <1>6 DEF Balanced, PoolTypes, Counts
<1>8. QED
  BY <1>1, <1>3, <1>7, SettleBalances

\* A publication keeps the invariant: the cache fits the new documents.
LEMMA PublishStepInv ==
  ASSUME RuntimeInv, PublishStep, MaintInv'
  PROVE  RuntimeInv'
<1>1. /\ StoreInv /\ CacheInv /\ PoolTypes /\ Counts /\ ServedInv /\ docs \in [Segments -> 0..Capacity]
      /\ writing \in Segments /\ Capacity \in Nat
  BY ConfigTypes DEF RuntimeInv, StoreInv
<1>2. Settled(rt)
  BY PublishSettles
<1>3. /\ config' = config /\ writing' = writing /\ nextSeg' = nextSeg /\ schema' = schema
      /\ deletes' = deletes /\ leases' = leases /\ query' = query /\ iterators' = iterators
      /\ phase' = phase /\ prepared' = prepared /\ Exclusive /\ Invalidate /\ phase = "open"
      /\ indexed' \subseteq indexed \cup DOMAIN maint.outputs
  BY DEF PublishStep, Exclusive
<1>4. /\ PoolTypes' /\ Counts' /\ KeepsUsed /\ Segments' = Segments /\ Runtimes' = Runtimes
  BY <1>2, <1>3, SettledPool, SettledKeeps, SameConfig
<1>5. /\ \A s \in DOMAIN maint.outputs :
           /\ s \in Segments /\ s < nextSeg /\ s # writing
           /\ s \in maint.inputs \/ cache[s] = None
           /\ maint.outputs[s] \in Runtimes /\ maint.outputs[s][1] = s
           /\ rt[maint.outputs[s]] = Key(s, schema, rt[maint.outputs[s]].count)
           /\ rt[maint.outputs[s]].count \in 1..Capacity
      /\ \A s \in maint.inputs : s \in Segments /\ s < nextSeg /\ s # writing /\ docs[s] > 0
  BY PublishFacts DEF PublishStep
<1>6. /\ \A s \in DOMAIN maint.outputs : /\ cache'[s] = maint.outputs[s]
                                        /\ docs'[s] = rt[maint.outputs[s]].count
      /\ \A s \in maint.inputs \ DOMAIN maint.outputs : cache'[s] = None /\ docs'[s] = 0
      /\ \A s \in Segments \ (maint.inputs \cup DOMAIN maint.outputs) :
           cache'[s] = cache[s] /\ docs'[s] = docs[s]
      /\ cache' = [s \in Segments |-> cache'[s]] /\ docs' = [s \in Segments |-> docs'[s]]
  BY <1>5 DEF PublishStep
<1>7. /\ cache' \in [Segments -> Runtimes \cup {None}]
      /\ \A s \in Segments : cache'[s] # None => cache'[s][1] = s
  <2>1. ASSUME NEW s \in Segments
        PROVE  cache'[s] \in Runtimes \cup {None} /\ (cache'[s] # None => cache'[s][1] = s)
    <3>1. CASE s \in DOMAIN maint.outputs
      BY <1>5, <1>6, <3>1
    <3>2. CASE s \in maint.inputs \ DOMAIN maint.outputs
      BY <1>6, <3>2
    <3>3. CASE s \notin maint.inputs \cup DOMAIN maint.outputs
      BY <1>1, <1>6, <3>3 DEF CacheInv
    <3>4. QED
      BY <3>1, <3>2, <3>3
  <2>2. QED
    BY <1>6, <2>1
<1>8. CacheInv'
  <2>1. \A r \in Runtimes : Proper(rt'[r], r, schema)
    BY <1>1, <1>2, SettledKeys DEF CacheInv
  <2>2. \A r \in Runtimes : Proper(rt[r], r, schema)'
    BY <1>3, <2>1 DEF Proper, Closed
  <2>3. QED
    BY <1>4, <1>7, <2>2 DEF CacheInv
<1>9. \A s \in Segments : cache'[s] # None => rt'[cache'[s]] = rt[cache'[s]]
  BY <1>1, <1>2, <1>3, <1>7, SettledCached
<1>10. StoreInv'
  <2>1. ASSUME NEW s \in Segments
        PROVE  /\ docs'[s] \in 0..Capacity /\ (s >= nextSeg => docs'[s] = 0)
               /\ docs'[s] = 0 /\ cache[s] = None => cache'[s] = None
    <3>1. s \in Int /\ nextSeg \in Int
      BY <1>1, ConfigTypes DEF Segments, StoreInv
    <3>2. CASE s \in DOMAIN maint.outputs
      <4>1. docs'[s] \in 1..Capacity /\ s < nextSeg
        BY <1>5, <1>6, <3>2
      <4>2. QED
        BY <1>1, <3>1, <4>1
    <3>3. CASE s \in maint.inputs \ DOMAIN maint.outputs
      BY <1>1, <1>6, <3>3
    <3>4. CASE s \notin maint.inputs \cup DOMAIN maint.outputs
      BY <1>1, <1>6, <3>4 DEF StoreInv
    <3>5. QED
      BY <3>2, <3>3, <3>4
  <2>2. docs' \in [Segments -> 0..Capacity]
    BY <1>6, <2>1
  <2>3. schema' \in schema..MaxSchema /\ nextSeg \in Int /\ nextSeg <= nextSeg'
    BY <1>1, <1>3, ConfigTypes DEF StoreInv
  <2>4. indexed' \subseteq Segments /\ \A s \in indexed' : s < nextSeg /\ s # writing
    BY <1>1, <1>3, <1>5 DEF StoreInv
  <2>5. StoreGoes
    BY <1>1, <1>3, <2>1, <2>2, <2>3, <2>4 DEF StoreGoes, StoreInv
  <2>6. QED
    BY <1>1, <1>3, <2>1, <2>5, StoreNext DEF StoreInv
<1>11. ServedInv'
  <2>1. ASSUME NEW s \in DOMAIN maint.outputs
        PROVE  Fit(s)'
    <3>1. /\ cache'[s] = maint.outputs[s] /\ maint.outputs[s] \in Runtimes /\ s \in Segments
          /\ docs'[s] = rt[maint.outputs[s]].count /\ docs'[s] \in 1..Capacity
          /\ rt[maint.outputs[s]] = Key(s, schema, docs'[s])
      BY <1>5, <1>6
    <3>2. cache'[s] # None /\ docs'[s] > 0
      BY <1>1, <3>1, ConfigTypes DEF StoreInv
    <3>3. rt'[cache'[s]] = Key(s, schema', docs'[s])
      BY <1>3, <1>9, <3>1, <3>2
    <3>4. QED
      BY <3>2, <3>3 DEF Fit, Key
  <2>2. ASSUME NEW s \in maint.inputs \ DOMAIN maint.outputs
        PROVE  Fit(s)'
    BY <1>6 DEF Fit
  <2>3. ASSUME NEW s \in Segments \ (maint.inputs \cup DOMAIN maint.outputs), Fit(s)
        PROVE  Fit(s)'
    BY <1>3, <1>6, <1>9, <2>3 DEF Fit, Key
  <2>4. \A s \in Segments : Fit(s) => Fit(s)'
    BY <2>1, <2>2, <2>3
  <2>5. cache'[writing] = cache[writing] /\ (cache[writing] # None => rt'[cache[writing]] = rt[cache[writing]])
    BY <1>1, <1>5, <1>6, <1>9
  <2>6. QED
    BY <1>1, <1>3, <1>4, <2>4, <2>5 DEF ServedInv
<1>12. QueryInv'
  BY <1>3, <1>4, QueryKept
<1>13. SnapInv'
  BY <1>3, SnapDropped
<1>14. PhaseInv'
  BY <1>3 DEF PhaseInv
<1>15. QED
  BY <1>4, <1>8, <1>10, <1>11, <1>12, <1>13, <1>14 DEF RuntimeInv

\* buildAndPublishNativeIndexes.
LEMMA BuildPublishInv ==
  ASSUME RuntimeInv, BuildPublish
  PROVE  RuntimeInv'
<1>1. /\ maint.pc = "built" /\ Exclusive /\ Invalidate
      /\ indexed' = indexed \cup maint.inputs
      /\ cache' = [s \in Segments |-> IF s \in maint.inputs THEN maint.outputs[s] ELSE cache[s]]
      /\ Settle(rt, refs, Plus(BySnapshots, ByCache(maint.inputs)), retired)
      /\ maint' = [maint EXCEPT !.pc = "release", !.outputs = <<>>]
      /\ config' = config /\ docs' = docs /\ writing' = writing /\ nextSeg' = nextSeg
      /\ schema' = schema /\ deletes' = deletes /\ leases' = leases /\ query' = query
      /\ iterators' = iterators /\ phase' = phase /\ prepared' = prepared
  BY DEF BuildPublish
<1>2. /\ MaintInv /\ MaintShape /\ docs \in [Segments -> 0..Capacity]
  BY DEF RuntimeInv, MaintInv, StoreInv
<1>3. /\ DOMAIN maint.outputs = maint.inputs /\ maint.inputs \subseteq Segments
      /\ \A s \in maint.inputs : Output(s, docs[s])
  BY <1>1, <1>2 DEF MaintInv, MaintShape
<1>4. maint' = [pc |-> "release", inputs |-> maint.inputs, sources |-> maint.sources, outputs |-> <<>>]
  BY <1>1, <1>2, MaintRecord
<1>5. /\ maint'.pc = "release" /\ maint'.inputs = maint.inputs /\ maint'.sources = maint.sources
      /\ maint'.outputs = <<>>
  BY <1>4
<1>6. MaintInv'
  <2>1. Segments' = Segments
    BY <1>1, SameConfig
  <2>2. MaintShape'
    BY <1>3, <1>4, <1>5, <2>1 DEF MaintShape
  <2>3. QED
    BY <1>5, <2>2 DEF MaintInv
<1>7. PublishStep
  <2>1. ASSUME NEW s \in maint.inputs
        PROVE  rt[maint.outputs[s]].count = docs[s]
    <3>1. rt[maint.outputs[s]] = Key(s, schema, docs[s])
      BY <1>3 DEF Output
    <3>2. Key(s, schema, docs[s]).count = docs[s]
      BY DEF Key
    <3>3. QED
      BY <3>1, <3>2
  <2>2. docs' = [s \in Segments |-> IF s \in DOMAIN maint.outputs THEN rt[maint.outputs[s]].count
                                    ELSE IF s \in maint.inputs THEN 0 ELSE docs[s]]
    BY <1>1, <1>2, <1>3, <2>1
  <2>3. cache' = [s \in Segments |-> IF s \in DOMAIN maint.outputs THEN maint.outputs[s]
                                     ELSE IF s \in maint.inputs THEN None ELSE cache[s]]
    BY <1>1, <1>3
  <2>4. QED
    BY <1>1, <1>3, <1>5, <2>2, <2>3 DEF PublishStep
<1>8. QED
  BY <1>6, <1>7, PublishStepInv

\* buildAndPublishCompaction.
LEMMA CompactCommitInv ==
  ASSUME RuntimeInv, CompactCommit
  PROVE  RuntimeInv'
<1>1. maint' = NoMaintenance /\ maint.pc = "compacted"
  BY DEF CompactCommit
<1>2. MaintInv'
  BY <1>1, MaintFresh
<1>3. maint'.sources = maint.sources /\ maint'.outputs = <<>>
  BY <1>1 DEF NoMaintenance, RuntimeInv, MaintInv, MaintShape
<1>4. PublishStep
  BY <1>3 DEF CompactCommit, PublishStep
<1>5. QED
  BY <1>2, <1>4, PublishStepInv

-----------------------------------------------------------------------------
(* The end of Close.                                                       *)

\* Close after the last lease was returned.
LEMMA CloseEndInv ==
  ASSUME RuntimeInv, CloseEnd
  PROVE  RuntimeInv'
<1> DEFINE f == ByCache(Segments)
           g == ByMembership(retired)
<1>1. /\ phase = "draining" /\ leases = 0 /\ phase' = "closed"
      /\ cache' = [s \in Segments |-> None]
      /\ Settle(rt, refs, Plus(f, g), {})
      /\ UNCHANGED storeVars /\ snap' = snap /\ leases' = leases /\ query' = query /\ maint' = maint
      /\ iterators' = iterators /\ prepared' = prepared
  BY DEF CloseEnd
<1>2. /\ StoreInv /\ CacheInv /\ PoolTypes /\ Counts /\ PhaseInv /\ config \in Configs
      /\ failures \in 0..MaxFailures /\ iterators \in Nat /\ Segments \in SUBSET Segments
  BY DEF RuntimeInv, StoreInv, PoolTypes
<1>3. /\ f \in [Runtimes -> Nat] /\ g \in [Runtimes -> Nat]
      /\ \A r \in Runtimes : f[r] = IF r[1] \in Segments THEN CacheN(r) ELSE 0
      /\ \A r \in Runtimes : g[r] = In(r, retired)
  BY <1>2, CacheReleases, MemberReleases
<1> HIDE DEF f, g
<1>4. Plus(f, g) \in [Runtimes -> Nat] /\ \A r \in Runtimes : Plus(f, g)[r] = f[r] + g[r]
  BY <1>3, PlusReleases
<1>5. ASSUME NEW r \in Runtimes
      PROVE  refs[r] - Plus(f, g)[r] = CacheN(r)' + Uses(r)' + In(r, {})
  <2>1. refs[r] = CacheN(r) + Uses(r) + In(r, retired)
    BY <1>2 DEF Counts
  <2>2. CacheN(r) \in Nat /\ Uses(r) \in Nat /\ In(r, retired) \in Nat
    BY UseTypes, InTypes
  <2>3. r[1] \in Segments /\ r # None
    BY <1>2, RuntimePairs, ConfigTypes
  <2>4. CacheN(r)' = 0
    BY <1>1, <2>3 DEF CacheN
  <2>5. Uses(r)' = Uses(r)
    BY <1>1, SameOwners, UseTypes, UseTypesNext
  <2>6. Plus(f, g)[r] = CacheN(r) + In(r, retired)
    BY <1>3, <1>4, <2>3
  <2>7. In(r, {}) = 0
    BY DEF In
  <2>8. QED
    BY <2>1, <2>2, <2>4, <2>5, <2>6, <2>7
<1>6. Settled(rt)
  <2>1. Balanced(rt, refs, Plus(f, g), {})
    BY <1>2, <1>4, <1>5 DEF Balanced, PoolTypes, Counts
  <2>2. QED
    BY <1>1, <1>2, <2>1, SettleBalances
<1>7. StoreRests /\ \A s \in Segments : cache[s] = None => cache'[s] = None
  BY <1>1, <1>2 DEF StoreRests
<1>8. /\ StoreInv' /\ config' = config /\ docs' = docs /\ writing' = writing /\ nextSeg' = nextSeg
      /\ schema' = schema /\ deletes' = deletes /\ StoreGoes /\ StoreGrows
      /\ \A k \in SnapKinds : Selected(k)' = Selected(k)
  BY <1>2, <1>7, RestingStore
<1>9. PoolTypes' /\ Counts' /\ KeepsUsed /\ Segments' = Segments /\ Runtimes' = Runtimes
  BY <1>6, <1>8, SettledPool, SettledKeeps, SameConfig
<1>10. CacheInv'
  <2>1. \A r \in Runtimes : Proper(rt'[r], r, schema)
    BY <1>2, <1>6, SettledKeys DEF CacheInv
  <2>2. \A r \in Runtimes : Proper(rt[r], r, schema)'
    BY <1>8, <2>1 DEF Proper, Closed
  <2>3. QED
    BY <1>1, <1>9, <2>2 DEF CacheInv
<1>11. QueryInv'
  BY <1>1, <1>8, <1>9, QueryKept
<1>12. SnapInv'
  BY <1>1, <1>8, <1>9, SnapKept
<1>13. MaintInv'
  BY <1>1, <1>2, MaintFresh DEF PhaseInv
<1>14. PhaseInv' /\ ServedInv'
  BY <1>1, <1>2, <1>9 DEF PhaseInv, ServedInv, NoMaintenance, NoSnapshot
<1>15. QED
  BY <1>8, <1>9, <1>10, <1>11, <1>12, <1>13, <1>14 DEF RuntimeInv

\* A later Close closes the retired runtimes.
LEMMA CloseAgainInv ==
  ASSUME RuntimeInv, CloseAgain
  PROVE  RuntimeInv'
<1> DEFINE g == ByMembership(retired)
<1>1. /\ Settle(rt, refs, g, {}) /\ UNCHANGED storeVars /\ cache' = cache /\ snap' = snap
      /\ leases' = leases /\ query' = query /\ maint' = maint /\ iterators' = iterators
      /\ phase' = phase /\ prepared' = prepared
  BY DEF CloseAgain
<1>2. /\ StoreInv /\ PoolTypes /\ Counts /\ config \in Configs /\ failures \in 0..MaxFailures
      /\ iterators \in Nat
  BY DEF RuntimeInv, StoreInv, PoolTypes
<1>3. g \in [Runtimes -> Nat] /\ \A r \in Runtimes : g[r] = In(r, retired)
  BY MemberReleases
<1> HIDE DEF g
<1>4. ASSUME NEW r \in Runtimes
      PROVE  refs[r] - g[r] = CacheN(r)' + Uses(r)' + In(r, {})
  <2>1. refs[r] = CacheN(r) + Uses(r) + In(r, retired)
    BY <1>2 DEF Counts
  <2>2. CacheN(r) \in Nat /\ Uses(r) \in Nat /\ In(r, retired) \in Nat
    BY UseTypes, InTypes
  <2>3. CacheN(r)' = CacheN(r) /\ Uses(r)' = Uses(r)
    BY <1>1, SameOwners, UseTypes, UseTypesNext
  <2>4. g[r] = In(r, retired) /\ In(r, {}) = 0
    BY <1>3 DEF In
  <2>5. QED
    BY <2>1, <2>2, <2>3, <2>4
<1>5. Settled(rt)
  <2>1. Balanced(rt, refs, g, {})
    BY <1>2, <1>3, <1>4 DEF Balanced, PoolTypes, Counts
  <2>2. QED
    BY <1>1, <1>2, <2>1, SettleBalances
<1>6. QuietStep
  BY <1>1, <1>2, <1>5 DEF QuietStep, StoreRests, StoreInv
<1>7. PhaseInv'
  BY <1>1, <1>6, QuietParts, PhaseKept
<1>8. QED
  BY <1>1, <1>6, <1>7, QuietParts DEF RuntimeInv

-----------------------------------------------------------------------------
(* The invariant is inductive.                                             *)

\* A step of somebody else.
LEMMA StutterInv ==
  ASSUME RuntimeInv, UNCHANGED vars
  PROVE  RuntimeInv'
<1>1. /\ UNCHANGED storeVars /\ UNCHANGED poolVars /\ cache' = cache /\ snap' = snap
      /\ leases' = leases /\ query' = query /\ maint' = maint /\ iterators' = iterators
      /\ phase' = phase /\ prepared' = prepared
  BY DEF vars
<1>2. \A r \in Runtimes : CacheN(r)' = CacheN(r) /\ Uses(r)' = Uses(r)
  BY <1>1, SameOwners, UseTypes, UseTypesNext
<1>3. iterators \in Nat /\ phase \in {"open", "draining", "closed"}
  BY DEF RuntimeInv, StoreInv
<1>4. QuietStep
  BY <1>1, <1>2, <1>3, PoolRests DEF QuietStep, StoreRests
<1>5. PhaseInv'
  BY <1>1, <1>4, QuietParts, PhaseKept
<1>6. QED
  BY <1>1, <1>4, <1>5, QuietParts DEF RuntimeInv

\* Every step keeps the invariant.
LEMMA StepInv ==
  ASSUME RuntimeInv, [Next]_vars
  PROVE  RuntimeInv'
<1>1. ASSUME NEW n \in 0..MaxBatch, Write(n) PROVE RuntimeInv'
  BY <1>1, WriteInv
<1>2. CASE Delete \/ Flush \/ PublishSchema \/ RewriteDocuments \/ CreateIterator \/ CloseIterator
  BY <1>2, DeleteInv, FlushInv, PublishSchemaInv, RewriteDocumentsInv, CreateIteratorInv,
     CloseIteratorInv
<1>3. CASE OptimizeBuild \/ OptimizeFlush \/ CreateIndex
  BY <1>3, OptimizeBuildInv, OptimizeFlushInv, CreateIndexInv
<1>4. CASE BuildSources \/ BuildRuntimes \/ BuildPublish \/ BuildEnds
  BY <1>4, BuildSourcesInv, BuildRuntimesInv, BuildPublishInv, BuildEndsInv
<1>5. CASE CompactPrepare \/ CompactCommit \/ CompactFails
  BY <1>5, CompactPrepareInv, CompactCommitInv, CompactFailsInv
<1>6. ASSUME NEW q \in Queries, NEW kind \in {"full", "vector", "multi"}, QueryBegin(q, kind)
      PROVE  RuntimeInv'
  BY <1>6, QueryBeginInv
<1>7. ASSUME NEW q \in Queries, QueryStep(q) PROVE RuntimeInv'
  BY <1>7, QueryLeaseInv, QueryReleaseInv, QueryDoneInv, QueryProjectInv DEF QueryStep
<1>8. CASE CloseBegin \/ CloseEnd \/ CloseAgain
  BY <1>8, CloseBeginInv, CloseEndInv, CloseAgainInv
<1>9. CASE UNCHANGED vars
  BY <1>9, StutterInv
<1>10. QED
  BY <1>1, <1>2, <1>3, <1>4, <1>5, <1>6, <1>7, <1>8, <1>9 DEF Next, MaintenanceStep

\* OpenCollection finds one segment, which its runtime fits, or none.
LEMMA InitInv ==
  ASSUME Init
  PROVE  RuntimeInv
<1> DEFINE r0 == <<1, 1>>
<1>1. /\ config \in Configs /\ Copies \in Nat \ {0} /\ Capacity \in Nat \ {0}
      /\ MaxSegment \in Nat \ {0, 1} /\ MaxSchema \in Nat \ {0} /\ MaxDeletes \in Nat
      /\ MaxFailures \in Nat /\ InitDocs \in 0..Capacity /\ None \notin Runtimes
  BY ConfigTypes DEF Init
<1>2. /\ docs = [s \in Segments |-> IF s = 1 THEN InitDocs ELSE 0]
      /\ writing = (IF InitDocs = 0 THEN 1 ELSE 2) /\ nextSeg = writing + 1
      /\ schema = 1 /\ deletes = 0 /\ indexed = {}
      /\ cache = [s \in Segments |-> IF InitDocs # 0 /\ s = 1 THEN r0 ELSE None]
      /\ rt = [t \in Runtimes |-> IF InitDocs # 0 /\ t = r0 THEN Key(1, 1, InitDocs) ELSE Closed]
      /\ refs = [t \in Runtimes |-> IF InitDocs # 0 /\ t = r0 THEN 1 ELSE 0]
      /\ retired = {} /\ failures = 0
      /\ snap = [k \in SnapKinds |-> NoSnapshot] /\ leases = 0
      /\ query = [q \in Queries |-> IdleQuery] /\ maint = NoMaintenance
      /\ iterators = 0 /\ phase = "open" /\ prepared = TRUE
  BY DEF Init
<1>3. 1 \in Segments /\ 2 \in Segments /\ r0 \in Runtimes /\ r0[1] = 1
  BY <1>1 DEF Segments, Runtimes
<1>4. writing \in Segments /\ nextSeg \in 2..(MaxSegment + 1) /\ writing < nextSeg
      /\ (InitDocs # 0 => writing # 1)
  BY <1>1, <1>2, <1>3 DEF Segments
<1>5. Key(1, 1, InitDocs) \in RuntimeState /\ Key(1, 1, InitDocs) # Closed /\ Closed \in RuntimeState
  BY <1>1, <1>3, KeyTypes, ClosedType
<1> HIDE DEF r0
<1>6. StoreInv
  <2>1. docs \in [Segments -> 0..Capacity]
    BY <1>1, <1>2
  <2>2. \A s \in Segments : s >= nextSeg => docs[s] = 0 /\ cache[s] = None
    BY <1>2, <1>4 DEF Segments
  <2>3. schema \in 1..MaxSchema /\ deletes \in 0..MaxDeletes
    BY <1>1, <1>2
  <2>4. QED
    BY <1>1, <1>2, <1>4, <2>1, <2>2, <2>3 DEF StoreInv
<1>7. PoolTypes
  BY <1>1, <1>2, <1>5 DEF PoolTypes
<1>8. CacheInv
  <2>1. cache \in [Segments -> Runtimes \cup {None}] /\ \A s \in Segments : cache[s] # None => cache[s][1] = s
    BY <1>2, <1>3
  <2>2. \A r \in Runtimes : Proper(rt[r], r, schema)
    BY <1>2, <1>3 DEF Proper, Key
  <2>3. QED
    BY <2>1, <2>2 DEF CacheInv
<1>9. \A k \in SnapKinds : ~snap[k].set /\ snap[k].view = <<>> /\ DOMAIN snap[k].view = {}
  BY <1>2 DEF NoSnapshot
<1>10. \A q \in Queries : query[q] = IdleQuery /\ query[q].held = {} /\ query[q].pc = "idle"
  BY <1>2 DEF IdleQuery
<1>11. ASSUME NEW r \in Runtimes
       PROVE  refs[r] = CacheN(r) + Uses(r) + In(r, retired) /\ (rt[r] = Closed <=> refs[r] = 0)
  <2>1. SnapN(r) = 0
    BY <1>9 DEF SnapN, In, SnapKinds
  <2>2. HeldN(r) = 0
    <3>1. {q \in Queries : r \in query[q].held} = {}
      BY <1>10
    <3>2. QED
      BY <3>1, FS_EmptySet DEF HeldN
  <2>3. MaintN(r) = 0
    BY <1>2 DEF MaintN, In, Range, NoMaintenance
  <2>4. Uses(r) = SnapN(r) + HeldN(r) + MaintN(r)
    BY UseTypes
  <2>5. Uses(r) = 0 /\ In(r, retired) = 0
    BY <1>2, <2>1, <2>2, <2>3, <2>4 DEF In
  <2>6. r[1] \in Segments /\ r # None
    BY <1>1, RuntimePairs
  <2>7. refs[r] = CacheN(r)
    BY <1>2, <1>3, <2>6 DEF CacheN
  <2>8. CacheN(r) \in Nat
    BY UseTypes
  <2>9. rt[r] = Closed <=> refs[r] = 0
    BY <1>2, <1>5
  <2>10. QED
    BY <2>5, <2>7, <2>8, <2>9
<1>12. MaintInv
  <2>1. /\ maint = [pc |-> maint.pc, inputs |-> maint.inputs, sources |-> maint.sources,
                    outputs |-> maint.outputs]
        /\ maint.pc = "none" /\ maint.inputs = {} /\ maint.sources = {} /\ maint.outputs = <<>>
    BY <1>2 DEF NoMaintenance
  <2>2. QED
    BY <2>1 DEF MaintInv, MaintShape
<1>13. QueryInv
  <2>1. \A q \in Queries : query[q] = [pc |-> query[q].pc, kind |-> query[q].kind,
                                       held |-> query[q].held, view |-> query[q].view]
    BY <1>10 DEF IdleQuery
  <2>2. Leased = {}
    BY <1>10 DEF Leased
  <2>3. leases = Cardinality(Leased)
    BY <1>2, <2>2, FS_EmptySet
  <2>4. query = [q \in Queries |-> query[q]]
    BY <1>2
  <2>5. QED
    BY <1>10, <2>1, <2>3, <2>4 DEF QueryInv, QueryShape
<1>14. SnapInv
  BY <1>2, <1>9 DEF SnapInv, SnapshotsCurrent
<1>15. PhaseInv
  BY <1>2 DEF PhaseInv
<1>16. ServedInv
  <2>1. \A s \in Segments : Fit(s)
    BY <1>1, <1>2, <1>3 DEF Fit
  <2>2. QED
    BY <2>1 DEF ServedInv
<1>17. QED
  BY <1>6, <1>7, <1>8, <1>11, <1>12, <1>13, <1>14, <1>15, <1>16 DEF RuntimeInv, Counts

-----------------------------------------------------------------------------
(* The owners of a runtime are as many as the sum says.                    *)

\* Owners of one kind are tagged with it.
LEMMA Tagged ==
  ASSUME NEW t, NEW S, IsFiniteSet(S)
  PROVE  /\ IsFiniteSet({<<t, x>> : x \in S})
         /\ Cardinality({<<t, x>> : x \in S}) = Cardinality(S)
<1> DEFINE T == {<<t, x>> : x \in S}
           f == [x \in S |-> <<t, x>>]
<1>1. f \in [S -> T] /\ \A x, y \in S : f[x] = f[y] => x = y
  OBVIOUS
<1>2. \A y \in T : \E x \in S : f[x] = y
  OBVIOUS
<1> HIDE DEF T, f
<1>3. f \in Injection(S, T)
  BY <1>1 DEF Injection, IsInjective
<1>4. f \in Surjection(S, T)
  BY <1>1, <1>2 DEF Surjection
<1>5. ExistsBijection(S, T)
  BY <1>3, <1>4 DEF ExistsBijection, Bijection
<1>6. QED
  BY <1>5, FS_Bijection DEF T

\* Sets without a common element.
LEMMA DisjointSum ==
  ASSUME NEW S, NEW T, IsFiniteSet(S), IsFiniteSet(T), S \cap T = {}
  PROVE  IsFiniteSet(S \cup T) /\ Cardinality(S \cup T) = Cardinality(S) + Cardinality(T)
<1>1. /\ IsFiniteSet(S \cup T)
      /\ Cardinality(S \cup T) = Cardinality(S) + Cardinality(T) - Cardinality(S \cap T)
  BY FS_Union
<1>2. Cardinality(S \cap T) = 0 /\ Cardinality(S) \in Nat /\ Cardinality(T) \in Nat
  BY FS_EmptySet, FS_CardinalityType
<1>3. QED
  BY <1>1, <1>2

\* A single owner of its kind, or none.
LEMMA SingleOwner ==
  ASSUME NEW r, NEW S, NEW o
  PROVE  LET T == IF r \in S THEN {o} ELSE {}
         IN  IsFiniteSet(T) /\ Cardinality(T) = In(r, S)
<1>1. CASE r \in S
  BY <1>1, FS_Singleton DEF In
<1>2. CASE r \notin S
  BY <1>2, FS_EmptySet DEF In
<1>3. QED
  BY <1>1, <1>2

\* The set of owners has one member for each term of the sum.
LEMMA OwnersCounted ==
  ASSUME RuntimeInv, NEW r \in Runtimes
  PROVE  /\ IsFiniteSet(Owners(r))
         /\ Cardinality(Owners(r)) = CacheN(r) + Uses(r) + In(r, retired)
<1> DEFINE A == {<<"cache", s>> : s \in {s \in Segments : cache[s] = r}}
           B == {<<"snapshot", k>> : k \in {k \in SnapKinds : r \in DOMAIN snap[k].view}}
           C == {<<"query", q>> : q \in {q \in Queries : r \in query[q].held}}
           D == IF r \in maint.sources THEN {<<"source", 0>>} ELSE {}
           E == IF r \in Range(maint.outputs) THEN {<<"output", 0>>} ELSE {}
           F == IF r \in retired THEN {<<"retired", 0>>} ELSE {}
<1>1. config \in Configs /\ CacheInv /\ Segments \in SUBSET Segments /\ MaxSegment \in Nat
  BY ConfigTypes DEF RuntimeInv, StoreInv
<1>2. IsFiniteSet(A) /\ Cardinality(A) = CacheN(r)
  <2>1. IsFiniteSet({s \in Segments : cache[s] = r})
    <3>1. IsFiniteSet(Segments)
      BY <1>1, FS_Interval DEF Segments
    <3>2. QED
      BY <3>1, FS_Subset
  <2>2. ByCache(Segments)[r] = Cardinality({s \in Segments : cache[s] = r})
    BY DEF ByCache
  <2>3. ByCache(Segments)[r] = CacheN(r)
    <3>1. ByCache(Segments)[r] = IF r[1] \in Segments THEN CacheN(r) ELSE 0
      BY <1>1, CacheReleases
    <3>2. QED
      BY <3>1, RuntimePairs
  <2>4. QED
    BY <2>1, <2>2, <2>3, Tagged
<1>3. IsFiniteSet(B) /\ Cardinality(B) = SnapN(r)
  <2>1. IsFiniteSet(SnapKinds)
    <3>1. IsFiniteSet({"full"}) /\ IsFiniteSet({"vector"}) /\ SnapKinds = {"full"} \cup {"vector"}
      BY FS_Singleton DEF SnapKinds
    <3>2. QED
      BY <3>1, FS_Union
  <2>2. IsFiniteSet({k \in SnapKinds : r \in DOMAIN snap[k].view})
    BY <2>1, FS_Subset
  <2>3. BySnapshots[r] = Cardinality({k \in SnapKinds : r \in DOMAIN snap[k].view})
    BY DEF BySnapshots
  <2>4. BySnapshots[r] = SnapN(r)
    BY SnapshotReleases
  <2>5. QED
    BY <2>2, <2>3, <2>4, Tagged
<1>4. IsFiniteSet(C) /\ Cardinality(C) = HeldN(r)
  <2>1. IsFiniteSet({q \in Queries : r \in query[q].held})
    BY RuntimeConstants, FS_Subset
  <2>2. QED
    BY <2>1, Tagged DEF HeldN
<1>5. IsFiniteSet(D) /\ Cardinality(D) = In(r, maint.sources)
  BY SingleOwner
<1>6. IsFiniteSet(E) /\ Cardinality(E) = In(r, Range(maint.outputs))
  BY SingleOwner
<1>7. IsFiniteSet(F) /\ Cardinality(F) = In(r, retired)
  BY SingleOwner
<1>8. /\ A \cap B = {} /\ (A \cup B) \cap C = {} /\ ((A \cup B) \cup C) \cap D = {}
      /\ (((A \cup B) \cup C) \cup D) \cap E = {} /\ ((((A \cup B) \cup C) \cup D) \cup E) \cap F = {}
  <2>1. \A x \in A : x[1] = "cache"
    OBVIOUS
  <2>2. \A x \in B : x[1] = "snapshot"
    OBVIOUS
  <2>3. \A x \in C : x[1] = "query"
    OBVIOUS
  <2>4. \A x \in D : x[1] = "source"
    OBVIOUS
  <2>5. \A x \in E : x[1] = "output"
    OBVIOUS
  <2>6. \A x \in F : x[1] = "retired"
    OBVIOUS
  <2> HIDE DEF A, B, C, D, E, F
  <2>7. QED
    BY <2>1, <2>2, <2>3, <2>4, <2>5, <2>6
<1>9. Owners(r) = ((((A \cup B) \cup C) \cup D) \cup E) \cup F
  BY DEF Owners
<1> HIDE DEF A, B, C, D, E, F
<1>10. IsFiniteSet(A \cup B) /\ Cardinality(A \cup B) = CacheN(r) + SnapN(r)
  BY <1>2, <1>3, <1>8, DisjointSum
<1>11. /\ IsFiniteSet((A \cup B) \cup C)
       /\ Cardinality((A \cup B) \cup C) = CacheN(r) + SnapN(r) + HeldN(r)
  BY <1>4, <1>8, <1>10, DisjointSum
<1>12. /\ IsFiniteSet(((A \cup B) \cup C) \cup D)
       /\ Cardinality(((A \cup B) \cup C) \cup D) = CacheN(r) + SnapN(r) + HeldN(r) + In(r, maint.sources)
  BY <1>5, <1>8, <1>11, DisjointSum
<1>13. /\ IsFiniteSet((((A \cup B) \cup C) \cup D) \cup E)
       /\ Cardinality((((A \cup B) \cup C) \cup D) \cup E) =
            CacheN(r) + SnapN(r) + HeldN(r) + In(r, maint.sources) + In(r, Range(maint.outputs))
  BY <1>6, <1>8, <1>12, DisjointSum
<1>14. /\ IsFiniteSet(Owners(r))
       /\ Cardinality(Owners(r)) = CacheN(r) + SnapN(r) + HeldN(r) + In(r, maint.sources)
                                     + In(r, Range(maint.outputs)) + In(r, retired)
  BY <1>7, <1>8, <1>9, <1>13, DisjointSum
<1>15. /\ CacheN(r) \in Nat /\ SnapN(r) \in Nat /\ HeldN(r) \in Nat
       /\ Uses(r) = SnapN(r) + HeldN(r) + MaintN(r)
  BY UseTypes
<1>16. MaintN(r) = In(r, maint.sources) + In(r, Range(maint.outputs))
  BY DEF MaintN
<1>17. In(r, maint.sources) \in Nat /\ In(r, Range(maint.outputs)) \in Nat /\ In(r, retired) \in Nat
  BY InTypes
<1>18. QED
  BY <1>14, <1>15, <1>16, <1>17

-----------------------------------------------------------------------------
(* The theorems.                                                           *)

\* The invariant holds in every behaviour of the collection.
THEOREM RuntimeSafety == Spec => []RuntimeInv
<1>1. Init => RuntimeInv
  BY InitInv
<1>2. RuntimeInv /\ [Next]_vars => RuntimeInv'
  BY StepInv
<1>3. QED
  BY <1>1, <1>2, PTL DEF Spec

\* Type correctness: no release makes a count negative.
THEOREM RuntimeTypeCorrect == Spec => []TypeOK
<1>1. RuntimeInv => TypeOK
  <2> SUFFICES ASSUME RuntimeInv PROVE TypeOK
    OBVIOUS
  <2>1. leases \in Nat
    <3>1. IsFiniteSet(Leased)
      BY RuntimeConstants, FS_Subset DEF Leased
    <3>2. QED
      BY <3>1, FS_CardinalityType DEF RuntimeInv, QueryInv
  <2>2. QED
    BY <2>1 DEF RuntimeInv, StoreInv, PoolTypes, CacheInv, TypeOK
<1>2. QED
  BY <1>1, RuntimeSafety, PTL

\* RefsExact for every collection: releaseSegmentRuntime and retain keep the
\* count of a runtime equal to the number of its owners, and close it with the
\* last one, over queries, invalidation, builds, compactions and Close.
THEOREM ReferencesExact == Spec => []RefsExact
<1>1. RuntimeInv => RefsExact
  <2> SUFFICES ASSUME RuntimeInv, NEW r \in Runtimes
               PROVE  refs[r] = Cardinality(Owners(r)) /\ (rt[r] = Closed <=> Owners(r) = {})
    BY DEF RefsExact
  <2>1. refs[r] = CacheN(r) + Uses(r) + In(r, retired) /\ (rt[r] = Closed <=> refs[r] = 0)
    BY DEF RuntimeInv, Counts
  <2>2. IsFiniteSet(Owners(r)) /\ refs[r] = Cardinality(Owners(r))
    BY <2>1, OwnersCounted
  <2>3. refs[r] = 0 <=> Owners(r) = {}
    BY <2>2, FS_EmptySet
  <2>4. QED
    BY <2>1, <2>2, <2>3
<1>2. QED
  BY <1>1, RuntimeSafety, PTL

\* LeasedRuntimesFrozen for every collection: a query reads the documents that
\* its snapshot was built with, although writes grow runtimes in place.
THEOREM LeasesFrozen == Spec => []LeasedRuntimesFrozen
<1>1. RuntimeInv => LeasedRuntimesFrozen
  <2> SUFFICES ASSUME RuntimeInv, NEW q \in Queries
               PROVE  /\ query[q].pc = "acquiring" =>
                           \A r \in DOMAIN query[q].view : rt[r] = query[q].view[r]
                      /\ \A r \in query[q].held : rt[r] = query[q].view[r]
    BY DEF LeasedRuntimesFrozen
  <2>1. QueryInv /\ SnapInv /\ SnapOf(query[q].kind) \in SnapKinds
    BY DEF RuntimeInv, SnapOf, SnapKinds
  <2>2. ASSUME query[q].pc = "acquiring", NEW r \in DOMAIN query[q].view
        PROVE  rt[r] = query[q].view[r]
    <3>1. query[q].view = snap[SnapOf(query[q].kind)].view
      BY <2>1, <2>2 DEF QueryInv
    <3>2. QED
      BY <2>1, <3>1 DEF SnapInv
  <2>3. QED
    BY <2>1, <2>2 DEF QueryInv
<1>2. QED
  BY <1>1, RuntimeSafety, PTL

\* SnapshotsCurrent for every collection: querySnapshotLocked never hands out a
\* snapshot that misses a committed write, deletion, schema or artifact.
THEOREM SnapshotsNeverStale == Spec => []SnapshotsCurrent
<1>1. RuntimeInv => SnapshotsCurrent
  BY DEF RuntimeInv, SnapInv
<1>2. QED
  BY <1>1, RuntimeSafety, PTL

\* QueriesServed for every collection: after a preparation that succeeded, the
\* cache has what cachedSegmentRuntimeIndexesLocked asks it for.
THEOREM QueriesAlwaysServed == Spec => []QueriesServed
<1>1. RuntimeInv => QueriesServed
  <2>1. RuntimeInv => (phase = "open" /\ prepared => \A s \in Segments : Fit(s))
    BY DEF RuntimeInv, ServedInv
  <2>2. \A s \in Segments : Fit(s) => IF docs[s] > 0 THEN Servable({s}) ELSE cache[s] = None
    BY DEF Fit, Servable
  <2>3. QED
    BY <2>1, <2>2 DEF QueriesServed
<1>2. QED
  BY <1>1, RuntimeSafety, PTL

\* CloseReleasesAll for every collection: Close leaves open only what failed to
\* close, which is retired, and no query holds a runtime any more.
THEOREM CloseReleases == Spec => []CloseReleasesAll
<1>1. RuntimeInv => CloseReleasesAll
  <2> SUFFICES ASSUME RuntimeInv, phase = "closed"
               PROVE  /\ \A r \in Runtimes : rt[r] # Closed => r \in retired
                      /\ \A q \in Queries : query[q].held = {} /\ query[q].pc # "leased"
    BY DEF CloseReleasesAll
  <2>1. /\ snap = [k \in SnapKinds |-> NoSnapshot] /\ maint = NoMaintenance
        /\ leases = 0 /\ \A s \in Segments : cache[s] = None
    BY DEF RuntimeInv, PhaseInv
  <2>2. QueryShape /\ leases = Cardinality(Leased) /\ config \in Configs /\ Counts
    BY DEF RuntimeInv, QueryInv, StoreInv
  <2>3. Leased = {}
    <3>1. IsFiniteSet(Leased)
      BY RuntimeConstants, FS_Subset DEF Leased
    <3>2. QED
      BY <2>1, <2>2, <3>1, FS_EmptySet
  <2>4. \A q \in Queries : query[q].held = {} /\ query[q].pc # "leased"
    BY <2>2, <2>3 DEF Leased, QueryShape
  <2>5. ASSUME NEW r \in Runtimes, rt[r] # Closed
        PROVE  r \in retired
    <3>1. refs[r] = CacheN(r) + Uses(r) + In(r, retired) /\ refs[r] # 0
      BY <2>2, <2>5 DEF Counts
    <3>2. CacheN(r) = 0
      BY <2>1, <2>2, RuntimePairs, ConfigTypes DEF CacheN
    <3>3. SnapN(r) = 0
      BY <2>1 DEF SnapN, In, SnapKinds, NoSnapshot
    <3>4. HeldN(r) = 0
      <4>1. {q \in Queries : r \in query[q].held} = {}
        BY <2>4
      <4>2. QED
        BY <4>1, FS_EmptySet DEF HeldN
    <3>5. MaintN(r) = 0
      BY <2>1 DEF MaintN, In, Range, NoMaintenance
    <3>6. Uses(r) = SnapN(r) + HeldN(r) + MaintN(r)
      BY UseTypes
    <3>7. In(r, retired) \in {0, 1} /\ (In(r, retired) = 1 <=> r \in retired)
      BY InTypes
    <3>8. QED
      BY <3>1, <3>2, <3>3, <3>4, <3>5, <3>6, <3>7
  <2>6. QED
    BY <2>4, <2>5
<1>2. QED
  BY <1>1, RuntimeSafety, PTL
=============================================================================
