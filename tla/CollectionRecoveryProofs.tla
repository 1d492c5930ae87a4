--------------------- MODULE CollectionRecoveryProofs ---------------------
(***************************************************************************)
(* Proofs about recovery: whatever part of the log a crash leaves, opening *)
(* the collection succeeds and yields what the handle had in memory.       *)
(***************************************************************************)
EXTENDS CollectionStoreProofs

-----------------------------------------------------------------------------
(* The documents of a manager.                                             *)

\* Segments hold documents below the writing segment, apart from each other.
Shape(s) ==
  /\ ImmutablesAcceptable(s.segs)
  /\ \A i \in DOMAIN s.segs : \A d \in DOMAIN s.segs[i] : d < s.writing.min
  /\ s.writing.id \notin DOMAIN s.segs

\* The typed part of a manager or of the state of a replay.
Typed(s) ==
  /\ s.segs \in SegmentMaps /\ s.writing \in WriteSegments /\ s.idmap \in KeyMaps
  /\ \A i \in DOMAIN s.segs : IsFiniteSet(DOMAIN s.segs[i])
  /\ Contiguous(s.writing)

LEMMA BoundedTyped ==
  ASSUME NEW c, c.maxDocID \in Nat, NEW s, s \in Replays \/ s \in Managers, Bounded(c, s)
  PROVE  Typed(s)
<1>1. s.segs \in SegmentMaps /\ s.writing \in WriteSegments /\ s.idmap \in KeyMaps
  BY DEF Replays, Managers
<1>2. Contiguous(s.writing) /\ \A i \in DOMAIN s.segs : DOMAIN s.segs[i] \subseteq 0..c.maxDocID
  BY DEF Bounded, DocsBounded
<1>3. IsFiniteSet(0..c.maxDocID)
  BY FS_Interval
<1>4. \A i \in DOMAIN s.segs : IsFiniteSet(DOMAIN s.segs[i])
  BY <1>2, <1>3, FS_Subset
<1> QED BY <1>1, <1>2, <1>4 DEF Typed

\* The documents of two segments are apart because their ranges are.
LEMMA SegmentsApart ==
  ASSUME NEW segs \in SegmentMaps, \A i \in DOMAIN segs : IsFiniteSet(DOMAIN segs[i]),
         ImmutablesAcceptable(segs), NEW i \in DOMAIN segs, NEW j \in DOMAIN segs,
         NEW d, d \in DOMAIN segs[i], d \in DOMAIN segs[j]
  PROVE  i = j
<1>1. \A k \in DOMAIN segs : DOMAIN segs[k] \in SUBSET Nat
  BY SegmentMembers, PartialIs DEF Documents
<1>2. ASSUME NEW k \in DOMAIN segs, d \in DOMAIN segs[k]
      PROVE  Min(DOMAIN segs[k]) <= d /\ d <= Max(DOMAIN segs[k]) /\ Min(DOMAIN segs[k]) \in Nat /\ Max(DOMAIN segs[k]) \in Nat
  <2> DEFINE S == DOMAIN segs[k]
  <2>1. S \in SUBSET Nat /\ S # {} /\ IsFiniteSet(S) /\ d \in S
    BY <1>1, <1>2
  <2> HIDE DEF S
  <2>2. Min(S) \in S /\ \A n \in S : Min(S) <= n
    BY <2>1, MinOfNats
  <2>3. Max(S) \in S /\ \A n \in S : n <= Max(S)
    BY <2>1, MaxOfNats
  <2> QED BY <2>1, <2>2, <2>3 DEF S
<1>3. d \in Nat
  BY <1>1
<1>4. ASSUME i # j PROVE FALSE
  <2>1. ~RangesOverlap(Min(DOMAIN segs[i]), Max(DOMAIN segs[i]), Min(DOMAIN segs[j]), Max(DOMAIN segs[j]))
    BY <1>4 DEF ImmutablesAcceptable
  <2> QED BY <1>2, <1>3, <2>1 DEF RangesOverlap
<1> QED BY <1>4

\* What a manager retains: the documents of its segments and of the writing
\* segment, each once.
LEMMA RetainedIs ==
  ASSUME NEW s, Typed(s), Shape(s)
  PROVE  /\ \A d : d \in DOMAIN Retained(s) <=>
                     (\E i \in DOMAIN s.segs : d \in DOMAIN s.segs[i]) \/ d \in DOMAIN s.writing.docs
         /\ \A i \in DOMAIN s.segs : \A d \in DOMAIN s.segs[i] : Retained(s)[d] = s.segs[i][d]
         /\ \A d \in DOMAIN s.writing.docs : Retained(s)[d] = s.writing.docs[d]
         /\ \A d \in DOMAIN s.writing.docs : \A i \in DOMAIN s.segs : d \notin DOMAIN s.segs[i]
         /\ DOMAIN Retained(s) \in SUBSET Nat
         /\ \A d \in DOMAIN Retained(s) : d < NextDocumentID(s.writing)
<1> DEFINE fs == Range(s.segs) \cup {s.writing.docs}
<1>1. /\ s.segs \in SegmentMaps /\ \A i \in DOMAIN s.segs : IsFiniteSet(DOMAIN s.segs[i])
      /\ s.writing.docs \in Documents /\ s.writing.min \in Nat /\ NextDocumentID(s.writing) \in Nat
      /\ DOMAIN s.writing.docs = s.writing.min..(NextDocumentID(s.writing) - 1)
      /\ Cardinality(DOMAIN s.writing.docs) \in Nat
  BY FS_CardinalityType DEF Typed, WriteSegments, Contiguous
<1>2. /\ ImmutablesAcceptable(s.segs)
      /\ \A i \in DOMAIN s.segs : \A d \in DOMAIN s.segs[i] : d < s.writing.min
  BY DEF Shape
<1>3. /\ Range(s.segs) \in SUBSET Documents
      /\ \A f \in Range(s.segs) : \E i \in DOMAIN s.segs : f = s.segs[i]
      /\ \A i \in DOMAIN s.segs : s.segs[i] \in Range(s.segs) /\ s.segs[i] \in Documents
  BY <1>1, SegmentMembers
<1>4. \A f \in fs : DOMAIN f \in SUBSET Nat
  BY <1>1, <1>3, PartialIs DEF Documents
<1>5. ASSUME NEW d \in DOMAIN s.writing.docs, NEW i \in DOMAIN s.segs PROVE d \notin DOMAIN s.segs[i]
  BY <1>1, <1>2, <1>5
<1>6. ASSUME NEW f \in fs, NEW g \in fs, NEW d, d \in DOMAIN f, d \in DOMAIN g PROVE f = g
  <2>1. CASE f = s.writing.docs \/ g = s.writing.docs
    BY <1>3, <1>5, <1>6, <2>1
  <2>2. CASE f # s.writing.docs /\ g # s.writing.docs
    <3>1. PICK i \in DOMAIN s.segs : f = s.segs[i]
      BY <1>3, <2>2
    <3>2. PICK j \in DOMAIN s.segs : g = s.segs[j]
      BY <1>3, <2>2
    <3>3. i = j
      BY <1>1, <1>2, <1>6, <3>1, <3>2, SegmentsApart
    <3> QED BY <3>1, <3>2, <3>3
  <2> QED BY <2>1, <2>2
<1> HIDE DEF fs
<1>7. Retained(s) = Merged(fs)
  BY DEF Retained, fs
<1>8. /\ DOMAIN Merged(fs) = UNION {DOMAIN f : f \in fs}
      /\ \A d \in DOMAIN Merged(fs) : \E f \in fs : d \in DOMAIN f /\ Merged(fs)[d] = f[d]
  BY MergedIs
<1>9. \A d : d \in DOMAIN Merged(fs) <=> \E f \in fs : d \in DOMAIN f
  BY <1>8
<1>10. \A f \in fs : \A d \in DOMAIN f : Merged(fs)[d] = f[d]
  BY <1>6, <1>8, <1>9
<1>11. \A f : f \in fs <=> (\E i \in DOMAIN s.segs : f = s.segs[i]) \/ f = s.writing.docs
  BY <1>3 DEF fs
<1>12. \A d : d \in DOMAIN Retained(s) <=>
                (\E i \in DOMAIN s.segs : d \in DOMAIN s.segs[i]) \/ d \in DOMAIN s.writing.docs
  BY <1>7, <1>9, <1>11
<1>13. /\ \A i \in DOMAIN s.segs : \A d \in DOMAIN s.segs[i] : Retained(s)[d] = s.segs[i][d]
       /\ \A d \in DOMAIN s.writing.docs : Retained(s)[d] = s.writing.docs[d]
  BY <1>7, <1>10, <1>11
<1>14. DOMAIN Retained(s) \in SUBSET Nat
  BY <1>4, <1>7, <1>9
<1>15. ASSUME NEW d \in DOMAIN Retained(s) PROVE d < NextDocumentID(s.writing)
  <2>1. NextDocumentID(s.writing) >= s.writing.min
    BY <1>1 DEF NextDocumentID
  <2>2. d \in Nat
    BY <1>14
  <2>3. CASE d \in DOMAIN s.writing.docs
    BY <1>1, <2>2, <2>3
  <2>4. CASE \E i \in DOMAIN s.segs : d \in DOMAIN s.segs[i]
    BY <1>1, <1>2, <2>1, <2>2, <2>4
  <2> QED BY <1>12, <2>3, <2>4
<1> QED BY <1>5, <1>12, <1>13, <1>14, <1>15

\* t has every document of s.
Grows(s, t) ==
  \A d \in DOMAIN Retained(s) : d \in DOMAIN Retained(t) /\ Retained(t)[d] = Retained(s)[d]

-----------------------------------------------------------------------------
(* What recovery validates.                                                *)

\* The IDMap and the live documents are inverses of each other.
Exact(s) ==
  /\ s.deletes \subseteq DOMAIN Retained(s)
  /\ \A k \in DOMAIN s.idmap : s.idmap[k] \in LiveIDs(s) /\ Retained(s)[s.idmap[k]].key = k
  /\ \A d \in LiveIDs(s) : /\ Retained(s)[d].key \in DOMAIN s.idmap
                           /\ s.idmap[Retained(s)[d].key] = d

\* validateCollectionState compares the numbers instead of looking up every
\* live document; with the lookups it makes that is the same.
LEMMA ExactIsValid ==
  ASSUME NEW s, s.idmap \in KeyMaps, IsFiniteSet(LiveIDs(s))
  PROVE  ValidState(s) <=> Exact(s)
<1> DEFINE D == DOMAIN s.idmap
           L == LiveIDs(s)
           f == s.idmap
<1>1. f \in [D -> Nat]
  BY PartialIs DEF KeyMaps
<1>2. ASSUME \A k \in D : f[k] \in L /\ Retained(s)[f[k]].key = k
      PROVE  /\ Cardinality(D) = Cardinality(L) <=>
                  \A d \in L : Retained(s)[d].key \in D /\ f[Retained(s)[d].key] = d
  <2>1. \A k \in D : f[k] \in L /\ Retained(s)[f[k]].key = k
    BY <1>2
  <2> HIDE DEF D, L, f
  <2>2. f \in [D -> L]
    BY <1>1, <2>1
  <2>2a. \A k, l \in D : f[k] = f[l] => k = l
    BY <2>1
  <2>3. f \in Injection(D, L)
    BY <2>2, <2>2a DEF Injection, IsInjective
  <2>4. Cardinality(D) = Cardinality(L) <=> f \in Surjection(D, L)
    BY <2>3, FS_Injection DEF L
  <2>5. f \in Surjection(D, L) <=> \A d \in L : \E k \in D : f[k] = d
    BY <2>2 DEF Surjection
  <2>6. (\A d \in L : \E k \in D : f[k] = d) <=> \A d \in L : Retained(s)[d].key \in D /\ f[Retained(s)[d].key] = d
    BY <2>1
  <2> QED BY <2>4, <2>5, <2>6
<1> QED BY <1>2 DEF ValidState, Exact

\* An operation keeps the shape.
LEMMA EffectShape ==
  ASSUME NEW s, NEW t, NEW op, Effect(s, t, op), Shape(s)
  PROVE  Shape(t)
BY DEF Effect, Shape

LEMMA EffectTyped ==
  ASSUME NEW s, NEW t, NEW op \in Ops, Typed(s), Effect(s, t, op), Placed(s, op)
  PROVE  Typed(t)
<1>1. Contiguous(t.writing)
  <2>1. /\ s.writing \in WriteSegments /\ t.writing \in WriteSegments /\ t.writing.min = s.writing.min
        /\ t.writing.docs = DocsAfter(s.writing, op)
        /\ (op.type # "delete" => op.doc = NextDocumentID(s.writing)) /\ Contiguous(s.writing)
    BY DEF Typed, Effect, Placed
  <2> QED BY <2>1, AppendContiguous
<1>2. t.idmap \in KeyMaps
  <2>1. s.idmap \in KeyMaps /\ s.writing.docs \in Documents
    BY DEF Typed, WriteSegments
  <2>2. Over(Entry(op.key, op.doc), s.idmap) \in KeyMaps /\ Without(s.idmap, {op.key}) \in KeyMaps
    BY <2>1, EffectTypes
  <2>3. t.idmap = MapAfter(s, op)
    BY DEF Effect
  <2> QED BY <2>2, <2>3 DEF MapAfter
<1> QED BY <1>1, <1>2 DEF Typed, Effect

\* What an operation adds to the documents.
LEMMA EffectRetained ==
  ASSUME NEW s, NEW t, NEW op \in Ops, Typed(s), Shape(s), Effect(s, t, op), Placed(s, op)
  PROVE  /\ op.type = "delete" => Retained(t) = Retained(s)
         /\ op.type # "delete" =>
              /\ op.doc \notin DOMAIN Retained(s)
              /\ DOMAIN Retained(t) = DOMAIN Retained(s) \cup {op.doc}
              /\ Retained(t)[op.doc] = [key |-> op.key, schema |-> op.schema]
              /\ \A d \in DOMAIN Retained(s) : Retained(t)[d] = Retained(s)[d]
<1>1. CASE op.type = "delete"
  BY <1>1 DEF Effect, DocsAfter, Retained
<1>2. CASE op.type # "delete"
  <2> DEFINE f == s.writing.docs
             g == t.writing.docs
             r == [key |-> op.key, schema |-> op.schema]
  <2>1. Typed(t) /\ Shape(t)
    BY EffectTyped, EffectShape
  <2>2. t.segs = s.segs /\ op.doc = NextDocumentID(s.writing) /\ g = Over(Entry(op.doc, r), f)
    BY <1>2 DEF Effect, DocsAfter, Placed
  <2>3. /\ \A d : d \in DOMAIN Retained(s) <=> (\E i \in DOMAIN s.segs : d \in DOMAIN s.segs[i]) \/ d \in DOMAIN f
        /\ \A i \in DOMAIN s.segs : \A d \in DOMAIN s.segs[i] : Retained(s)[d] = s.segs[i][d]
        /\ \A d \in DOMAIN f : Retained(s)[d] = f[d]
        /\ \A d \in DOMAIN Retained(s) : d \in Nat /\ d < NextDocumentID(s.writing)
    BY RetainedIs
  <2>4. /\ \A d : d \in DOMAIN Retained(t) <=> (\E i \in DOMAIN s.segs : d \in DOMAIN s.segs[i]) \/ d \in DOMAIN g
        /\ \A i \in DOMAIN s.segs : \A d \in DOMAIN s.segs[i] : Retained(t)[d] = s.segs[i][d]
        /\ \A d \in DOMAIN g : Retained(t)[d] = g[d]
    BY <2>1, <2>2, RetainedIs
  <2>5. /\ \A d : d \in DOMAIN g <=> d \in DOMAIN f \/ d = op.doc
        /\ g[op.doc] = r /\ \A d \in DOMAIN f : d # op.doc => g[d] = f[d]
    BY <2>2 DEF Over, Entry
  <2> HIDE DEF f, g, r
  <2>6. op.doc \notin DOMAIN Retained(s)
    BY <2>2, <2>3
  <2>7. \A d : d \in DOMAIN Retained(t) <=> d \in DOMAIN Retained(s) \/ d = op.doc
    BY <2>3, <2>4, <2>5
  <2>8. Retained(t)[op.doc] = r
    BY <2>4, <2>5
  <2>9. ASSUME NEW d \in DOMAIN Retained(s) PROVE Retained(t)[d] = Retained(s)[d]
    BY <2>3, <2>4, <2>5, <2>6
  <2> QED BY <1>2, <2>6, <2>7, <2>8, <2>9 DEF r
<1> QED BY <1>1, <1>2

\* An operation that replay accepts keeps the IDMap exact.
LEMMA EffectExact ==
  ASSUME NEW s, NEW t, NEW op \in Ops, NEW cap, Typed(s), Shape(s), Exact(s),
         Effect(s, t, op), Accepts(cap, s, op)
  PROVE  Exact(t)
<1> DEFINE R == Retained(s)
           Q == Retained(t)
           f == s.idmap
           g == t.idmap
<1>1. Placed(s, op)
  BY AcceptsPlaced
<1>2. /\ s.deletes \subseteq DOMAIN R
      /\ \A k \in DOMAIN f : f[k] \in DOMAIN R /\ f[k] \notin s.deletes /\ R[f[k]].key = k
      /\ \A d \in DOMAIN R : d \notin s.deletes => R[d].key \in DOMAIN f /\ f[R[d].key] = d
  BY DEF Exact, LiveIDs
<1>3. t.deletes = s.deletes \cup Previous(s, op)
  BY DEF Effect
<1>4. CASE op.type = "delete"
  <2>1. op.key \in DOMAIN f /\ f[op.key] = op.doc /\ Previous(s, op) = {op.doc}
    BY <1>4 DEF Accepts, Previous
  <2>2. Q = R
    BY <1>1, <1>4, EffectRetained
  <2>3. g = Restrict(f, DOMAIN f \ {op.key})
    BY <1>4 DEF Effect, MapAfter, Without
  <2>4. (\A k : k \in DOMAIN g <=> k \in DOMAIN f /\ k # op.key) /\ \A k \in DOMAIN g : g[k] = f[k]
    BY <2>3, RestrictIs
  <2> HIDE DEF R, Q, f, g
  <2>5. \A d : d \in t.deletes <=> d \in s.deletes \/ d = op.doc
    BY <1>3, <2>1
  <2>6. t.deletes \subseteq DOMAIN Q
    BY <1>2, <2>1, <2>2, <2>5
  <2>7. \A k \in DOMAIN g : g[k] \in DOMAIN Q /\ g[k] \notin t.deletes /\ Q[g[k]].key = k
    BY <1>2, <2>1, <2>2, <2>4, <2>5
  <2>8. \A d \in DOMAIN Q : d \notin t.deletes => Q[d].key \in DOMAIN g /\ g[Q[d].key] = d
    BY <1>2, <2>1, <2>2, <2>4, <2>5
  <2> QED BY <2>6, <2>7, <2>8 DEF Exact, LiveIDs, Q, g
<1>5. CASE op.type # "delete"
  <2>1. /\ op.doc \notin DOMAIN R /\ \A d : d \in DOMAIN Q <=> d \in DOMAIN R \/ d = op.doc
        /\ Q[op.doc] = [key |-> op.key, schema |-> op.schema]
        /\ \A d \in DOMAIN R : Q[d] = R[d]
    <3>1. /\ op.type # "delete" =>
              /\ op.doc \notin DOMAIN Retained(s)
              /\ DOMAIN Retained(t) = DOMAIN Retained(s) \cup {op.doc}
              /\ Retained(t)[op.doc] = [key |-> op.key, schema |-> op.schema]
              /\ \A d \in DOMAIN Retained(s) : Retained(t)[d] = Retained(s)[d]
      BY <1>1, EffectRetained
    <3> QED BY <1>5, <3>1
  <2>2. g = Over(Entry(op.key, op.doc), f)
    BY <1>5 DEF Effect, MapAfter
  <2>3. /\ \A k : k \in DOMAIN g <=> k \in DOMAIN f \/ k = op.key
        /\ g[op.key] = op.doc /\ \A k \in DOMAIN f : k # op.key => g[k] = f[k]
    BY <2>2 DEF Over, Entry
  <2>4. \A d : d \in t.deletes <=> d \in s.deletes \/ (op.key \in DOMAIN f /\ d = f[op.key])
    BY <1>3 DEF Previous
  <2>5. Q[op.doc].key = op.key
    BY <2>1
  <2> HIDE DEF R, Q, f, g
  <2>6. t.deletes \subseteq DOMAIN Q
    BY <1>2, <2>1, <2>4
  <2>7. ASSUME NEW k \in DOMAIN g PROVE g[k] \in DOMAIN Q /\ g[k] \notin t.deletes /\ Q[g[k]].key = k
    <3>1. CASE k = op.key
      BY <1>2, <2>1, <2>3, <2>4, <2>5, <3>1
    <3>2. CASE k # op.key
      <4>1. k \in DOMAIN f /\ g[k] = f[k]
        BY <2>3, <3>2
      <4> QED BY <1>2, <2>1, <2>4, <3>2, <4>1
    <3> QED BY <3>1, <3>2
  <2>8. ASSUME NEW d \in DOMAIN Q, d \notin t.deletes PROVE Q[d].key \in DOMAIN g /\ g[Q[d].key] = d
    <3>1. CASE d = op.doc
      BY <2>3, <2>5, <3>1
    <3>2. CASE d # op.doc
      <4>1. d \in DOMAIN R /\ d \notin s.deletes /\ Q[d] = R[d]
        BY <2>1, <2>4, <2>8, <3>2
      <4>2. R[d].key \in DOMAIN f /\ f[R[d].key] = d
        BY <1>2, <4>1
      <4>3. R[d].key # op.key
        BY <2>4, <2>8, <4>2
      <4> QED BY <2>3, <4>1, <4>2, <4>3
    <3> QED BY <3>1, <3>2
  <2> QED BY <2>6, <2>7, <2>8 DEF Exact, LiveIDs, Q, g
<1> QED BY <1>4, <1>5

\* The state of a replay or a manager: documents and IDMap agree, and every
\* document is encoded for the schema.
Sound(schema, s) == Exact(s) /\ \A d \in DOMAIN Retained(s) : Retained(s)[d].schema = schema

LEMMA EffectSound ==
  ASSUME NEW schema, NEW s, NEW t, NEW op \in Ops, NEW cap, Typed(s), Shape(s), Sound(schema, s),
         Effect(s, t, op), Accepts(cap, s, op), op.schema = schema
  PROVE  Sound(schema, t)
<1>1. Exact(t)
  BY EffectExact DEF Sound
<1>2. /\ op.type = "delete" => Retained(t) = Retained(s)
      /\ op.type # "delete" =>
           /\ DOMAIN Retained(t) = DOMAIN Retained(s) \cup {op.doc}
           /\ Retained(t)[op.doc] = [key |-> op.key, schema |-> op.schema]
           /\ \A d \in DOMAIN Retained(s) : Retained(t)[d] = Retained(s)[d]
  BY AcceptsPlaced, EffectRetained
<1>3. \A d \in DOMAIN Retained(s) : Retained(s)[d].schema = schema
  BY DEF Sound
<1>4. \A d \in DOMAIN Retained(t) : Retained(t)[d].schema = schema
  <2>1. CASE op.type = "delete"
    BY <1>2, <1>3, <2>1
  <2>2. CASE op.type # "delete"
    <3>1. Retained(t)[op.doc].schema = op.schema
      BY <1>2, <2>2
    <3>2. ASSUME NEW d \in DOMAIN Retained(t) PROVE Retained(t)[d].schema = schema
      <4>1. d = op.doc \/ d \in DOMAIN Retained(s)
        BY <1>2, <2>2
      <4> QED BY <1>2, <1>3, <2>2, <3>1, <4>1
    <3> QED BY <3>2
  <2> QED BY <2>1, <2>2
<1> QED BY <1>1, <1>4 DEF Sound

-----------------------------------------------------------------------------
(* Replays of a whole log.                                                 *)

\* A checkpoint of collection c and a log over it.
ReplayTyped(c, s, recs) ==
  /\ c.maxDocID \in Nat /\ s \in Replays /\ Bounded(c, s)
  /\ recs \in Seq(Ops) /\ \A i \in 1..Len(recs) : OpBounded(c, recs[i])

\* Replaying any prefix succeeds and yields a sound state.
Valid(cap, schema, s, recs) ==
  \A n \in 0..Len(recs) : Replay(cap, s, recs, n).ok /\ Sound(schema, Replay(cap, s, recs, n))

LEMMA ReplayNext ==
  ASSUME NEW c, NEW cap, NEW s, NEW recs, ReplayTyped(c, s, recs), NEW n \in 0..Len(recs), n < Len(recs)
  PROVE  /\ n + 1 \in 0..Len(recs) /\ recs[n + 1] \in Ops
         /\ Replay(cap, s, recs, n) \in Replays /\ Replay(cap, s, recs, n + 1) \in Replays
         /\ Effect(Replay(cap, s, recs, n), Replay(cap, s, recs, n + 1), recs[n + 1])
         /\ Replay(cap, s, recs, n + 1).ok <=>
              Replay(cap, s, recs, n).ok /\ Accepts(cap, Replay(cap, s, recs, n), recs[n + 1])
<1>1. Len(recs) \in Nat /\ n \in Nat /\ n + 1 \in 1..Len(recs) /\ recs[n + 1] \in Ops
  BY DEF ReplayTyped
<1>2. Replay(cap, s, recs, n) \in Replays
  BY ReplayBounded DEF ReplayTyped
<1>3. Replay(cap, s, recs, n + 1) = Step(cap, Replay(cap, s, recs, n), recs[n + 1])
  BY <1>1, ReplayStep
<1> QED BY <1>1, <1>2, <1>3, StepReplay

\* What no operation changes, and deletions are never undone.
LEMMA ReplayFields ==
  ASSUME NEW c, NEW cap, NEW s, NEW recs, ReplayTyped(c, s, recs), NEW n \in 0..Len(recs)
  PROVE  LET r == Replay(cap, s, recs, n)
         IN  /\ r \in Replays /\ (r.ok => Typed(r) /\ Bounded(c, r))
             /\ r.segs = s.segs /\ r.writing.id = s.writing.id /\ r.writing.min = s.writing.min
             /\ s.deletes \subseteq r.deletes
             /\ Shape(s) => Shape(r)
<1> DEFINE R(i) == Replay(cap, s, recs, i)
           Same(i) == /\ R(i).segs = s.segs /\ R(i).writing.id = s.writing.id /\ R(i).writing.min = s.writing.min
                      /\ s.deletes \subseteq R(i).deletes
           Bad == {i \in 0..Len(recs) : ~Same(i)}
<1>0. Len(recs) \in Nat
  BY DEF ReplayTyped
<1>1. Bad = {}
  <2>1. SUFFICES ASSUME Bad # {} PROVE FALSE
    OBVIOUS
  <2>2. Bad \in SUBSET Nat
    BY <1>0
  <2>3. PICK m \in Bad : \A i \in Bad : m <= i
    BY <2>1, <2>2, LeastNat
  <2>4. R(0) = s
    BY ReplayStep
  <2>5. m # 0
    BY <2>3, <2>4
  <2>6. /\ m - 1 \in 0..Len(recs) /\ m - 1 < Len(recs) /\ ~(m <= m - 1) /\ (m - 1) + 1 = m
    BY <1>0, <2>3, <2>5
  <2>7. Same(m - 1)
    BY <2>3, <2>6
  <2>8. Effect(R(m - 1), R(m), recs[m])
    <3>1. Effect(R(m - 1), R((m - 1) + 1), recs[(m - 1) + 1])
      BY <2>6, ReplayNext
    <3> QED BY <2>6, <3>1
  <2> HIDE DEF R
  <2>9. Same(m)
    BY <2>7, <2>8 DEF Effect
  <2> QED BY <2>3, <2>9
<1>2. Same(n)
  BY <1>1
<1>3. R(n) \in Replays /\ (R(n).ok => Bounded(c, R(n)))
  BY ReplayBounded DEF ReplayTyped
<1>4. R(n).ok => Typed(R(n))
  BY <1>3, BoundedTyped DEF ReplayTyped
<1> HIDE DEF R
<1>5. Shape(s) => Shape(R(n))
  BY <1>2 DEF Shape
<1> QED BY <1>2, <1>3, <1>4, <1>5 DEF R

LEMMA ValidEmpty ==
  ASSUME NEW cap, NEW schema, NEW s, s.ok, Sound(schema, s)
  PROVE  Valid(cap, schema, s, <<>>) /\ Replay(cap, s, <<>>, Len(<<>>)) = s
<1>1. Len(<<>>) = 0 /\ 0..0 = {0}
  OBVIOUS
<1>2. Replay(cap, s, <<>>, 0) = s
  BY ReplayStep
<1>3. \A n \in 0..Len(<<>>) : n = 0
  BY <1>1
<1> QED BY <1>1, <1>2, <1>3 DEF Valid

LEMMA ValidPrefix ==
  ASSUME NEW cap, NEW schema, NEW s, NEW recs \in Seq(Ops), Valid(cap, schema, s, recs),
         NEW n \in 0..Len(recs)
  PROVE  Valid(cap, schema, s, SubSeq(recs, 1, n))
<1> DEFINE pre == SubSeq(recs, 1, n)
<1>1. Len(recs) \in Nat /\ Len(pre) = n /\ \A i \in 1..n : pre[i] = recs[i]
  OBVIOUS
<1> HIDE DEF pre
<1>2. ASSUME NEW k \in 0..n PROVE Replay(cap, s, pre, k) = Replay(cap, s, recs, k)
  <2>1. k \in Nat /\ \A i \in 1..k : pre[i] = recs[i]
    BY <1>1
  <2> QED BY <2>1, ReplayPrefix
<1>3. \A k \in 0..n : k \in 0..Len(recs)
  BY <1>1
<1> QED BY <1>1, <1>2, <1>3 DEF Valid, pre

\* A record that the writer checked is replayed.
LEMMA ValidAppend ==
  ASSUME NEW c, NEW cap, NEW schema, NEW s, NEW recs, ReplayTyped(c, s, recs), Shape(s),
         Valid(cap, schema, s, recs), NEW op \in Ops, op.schema = schema,
         Accepts(cap, Replay(cap, s, recs, Len(recs)), op)
  PROVE  /\ Valid(cap, schema, s, Append(recs, op))
         /\ Effect(Replay(cap, s, recs, Len(recs)), Replay(cap, s, Append(recs, op), Len(recs) + 1), op)
<1> DEFINE new == Append(recs, op)
           last == Replay(cap, s, recs, Len(recs))
           next == Replay(cap, s, new, Len(recs) + 1)
<1>1. /\ Len(recs) \in Nat /\ Len(new) = Len(recs) + 1 /\ new[Len(recs) + 1] = op
      /\ \A i \in 1..Len(recs) : new[i] = recs[i]
  BY DEF ReplayTyped
<1> HIDE DEF new
<1>2. ASSUME NEW k \in 0..Len(recs) PROVE Replay(cap, s, new, k) = Replay(cap, s, recs, k)
  <2>1. k \in Nat /\ \A i \in 1..k : recs[i] = new[i]
    BY <1>1
  <2> QED BY <2>1, ReplayPrefix
<1>3. next = Step(cap, Replay(cap, s, new, Len(recs)), op)
  BY <1>1, ReplayStep
<1>4. Replay(cap, s, new, Len(recs)) = last /\ Len(recs) \in 0..Len(recs)
  BY <1>1, <1>2
<1>5. last.ok /\ Sound(schema, last)
  BY <1>4 DEF Valid
<1>6. last \in Replays /\ Typed(last) /\ Shape(last)
  BY <1>4, <1>5, ReplayFields
<1>7. Accepts(cap, last, op)
  OBVIOUS
<1> HIDE DEF last, next
<1>8. Effect(last, next, op) /\ next.ok
  BY <1>3, <1>4, <1>5, <1>6, <1>7, StepReplay
<1>9. Sound(schema, next)
  BY <1>5, <1>6, <1>7, <1>8, EffectSound
<1>10. ASSUME NEW k \in 0..Len(new) PROVE Replay(cap, s, new, k).ok /\ Sound(schema, Replay(cap, s, new, k))
  <2>1. CASE k \in 0..Len(recs)
    BY <1>2, <2>1 DEF Valid
  <2>2. CASE k = Len(recs) + 1
    BY <1>8, <1>9, <2>2 DEF next
  <2> QED BY <1>1, <2>1, <2>2
<1> QED BY <1>8, <1>10 DEF Valid, new, last, next

-----------------------------------------------------------------------------
(* Compaction: the same log over segments without the purged documents.    *)

\* d is a document of a segment.
Sealed(s, d) == \E i \in DOMAIN s.segs : d \in DOMAIN s.segs[i]

\* The segments of t hold what those of s do, except for the purged documents.
Compacts(s, t, purged) ==
  /\ \A d \in purged : Sealed(s, d)
  /\ \A d : Sealed(t, d) <=> Sealed(s, d) /\ d \notin purged
  /\ \A i \in DOMAIN s.segs, j \in DOMAIN t.segs :
       \A d \in DOMAIN s.segs[i] : d \in DOMAIN t.segs[j] => t.segs[j][d] = s.segs[i][d]

\* A deletion that was purged is forgotten, everything else is the same.
PurgedFrom(s, t, purged) ==
  /\ Compacts(s, t, purged) /\ purged \subseteq s.deletes
  /\ t.writing = s.writing /\ t.idmap = s.idmap /\ t.deletes = s.deletes \ purged

LEMMA PurgedRetained ==
  ASSUME NEW s, NEW t, NEW purged, PurgedFrom(s, t, purged), Typed(s), Shape(s), Typed(t), Shape(t)
  PROVE  /\ \A d : d \in DOMAIN Retained(t) <=> d \in DOMAIN Retained(s) /\ d \notin purged
         /\ \A d \in DOMAIN Retained(t) : Retained(t)[d] = Retained(s)[d]
         /\ \A d : d \in LiveIDs(t) <=> d \in LiveIDs(s)
<1> DEFINE w == s.writing.docs
<1>1. /\ \A d \in purged : Sealed(s, d)
      /\ \A d : Sealed(t, d) <=> Sealed(s, d) /\ d \notin purged
      /\ \A i \in DOMAIN s.segs, j \in DOMAIN t.segs :
           \A d \in DOMAIN s.segs[i] : d \in DOMAIN t.segs[j] => t.segs[j][d] = s.segs[i][d]
      /\ t.writing.docs = w /\ t.deletes = s.deletes \ purged /\ purged \subseteq s.deletes
  BY DEF PurgedFrom, Compacts
<1>2. /\ \A d : d \in DOMAIN Retained(s) <=> Sealed(s, d) \/ d \in DOMAIN w
      /\ \A i \in DOMAIN s.segs : \A d \in DOMAIN s.segs[i] : Retained(s)[d] = s.segs[i][d]
      /\ \A d \in DOMAIN w : Retained(s)[d] = w[d]
      /\ \A d \in DOMAIN w : ~Sealed(s, d)
  BY RetainedIs DEF Sealed
<1>3. /\ \A d : d \in DOMAIN Retained(t) <=> Sealed(t, d) \/ d \in DOMAIN w
      /\ \A i \in DOMAIN t.segs : \A d \in DOMAIN t.segs[i] : Retained(t)[d] = t.segs[i][d]
      /\ \A d \in DOMAIN w : Retained(t)[d] = w[d]
  <2>1. /\ \A d : d \in DOMAIN Retained(t) <=>
                     (\E i \in DOMAIN t.segs : d \in DOMAIN t.segs[i]) \/ d \in DOMAIN t.writing.docs
        /\ \A i \in DOMAIN t.segs : \A d \in DOMAIN t.segs[i] : Retained(t)[d] = t.segs[i][d]
        /\ \A d \in DOMAIN t.writing.docs : Retained(t)[d] = t.writing.docs[d]
    BY RetainedIs
  <2> QED BY <1>1, <2>1 DEF Sealed
<1> HIDE DEF w
<1>4. \A d : d \in DOMAIN Retained(t) <=> d \in DOMAIN Retained(s) /\ d \notin purged
  BY <1>1, <1>2, <1>3
<1>5. ASSUME NEW d \in DOMAIN Retained(t) PROVE Retained(t)[d] = Retained(s)[d]
  <2>1. CASE d \in DOMAIN w
    BY <1>2, <1>3, <2>1
  <2>2. CASE Sealed(t, d)
    <3>1. PICK j \in DOMAIN t.segs : d \in DOMAIN t.segs[j]
      BY <2>2 DEF Sealed
    <3>2. PICK i \in DOMAIN s.segs : d \in DOMAIN s.segs[i]
      BY <1>1, <2>2 DEF Sealed
    <3>3. Retained(t)[d] = t.segs[j][d] /\ Retained(s)[d] = s.segs[i][d] /\ t.segs[j][d] = s.segs[i][d]
      BY <1>1, <1>2, <1>3, <3>1, <3>2
    <3> QED BY <3>3
  <2> QED BY <1>3, <2>1, <2>2
<1>6. \A d : d \in LiveIDs(t) <=> d \in LiveIDs(s)
  BY <1>1, <1>4 DEF LiveIDs
<1> QED BY <1>4, <1>5, <1>6

LEMMA PurgedSound ==
  ASSUME NEW schema, NEW s, NEW t, NEW purged, PurgedFrom(s, t, purged),
         Typed(s), Shape(s), Typed(t), Shape(t), Sound(schema, s)
  PROVE  Sound(schema, t)
<1>1. /\ \A d : d \in DOMAIN Retained(t) <=> d \in DOMAIN Retained(s) /\ d \notin purged
      /\ \A d \in DOMAIN Retained(t) : Retained(t)[d] = Retained(s)[d]
      /\ \A d : d \in LiveIDs(t) <=> d \in LiveIDs(s)
  BY PurgedRetained
<1>2. t.idmap = s.idmap /\ t.deletes = s.deletes \ purged
  BY DEF PurgedFrom
<1>3. LiveIDs(t) \subseteq DOMAIN Retained(t)
  BY DEF LiveIDs
<1>4. t.deletes \subseteq DOMAIN Retained(t)
  BY <1>1, <1>2 DEF Sound, Exact
<1>5. \A k \in DOMAIN t.idmap : t.idmap[k] \in LiveIDs(t) /\ Retained(t)[t.idmap[k]].key = k
  BY <1>1, <1>2, <1>3 DEF Sound, Exact
<1>6. \A d \in LiveIDs(t) : Retained(t)[d].key \in DOMAIN t.idmap /\ t.idmap[Retained(t)[d].key] = d
  BY <1>1, <1>2, <1>3 DEF Sound, Exact
<1>7. \A d \in DOMAIN Retained(t) : Retained(t)[d].schema = schema
  BY <1>1 DEF Sound
<1> QED BY <1>4, <1>5, <1>6, <1>7 DEF Sound, Exact

\* The log cannot tell: an operation never deletes a purged document again.
LEMMA PurgedEffect ==
  ASSUME NEW cap, NEW s, NEW t, NEW s1, NEW t1, NEW op, NEW purged, PurgedFrom(s, t, purged), Exact(s),
         s1.writing \in WriteSegments, t1.writing \in WriteSegments,
         Effect(s, s1, op), Effect(t, t1, op)
  PROVE  /\ PurgedFrom(s1, t1, purged)
         /\ Accepts(cap, t, op) <=> Accepts(cap, s, op)
<1>1. t.writing = s.writing /\ t.idmap = s.idmap /\ t.deletes = s.deletes \ purged /\ purged \subseteq s.deletes
  BY DEF PurgedFrom
<1>2. Accepts(cap, t, op) <=> Accepts(cap, s, op)
  BY <1>1 DEF Accepts
<1>3. Previous(t, op) = Previous(s, op) /\ \A d \in Previous(s, op) : d \notin purged
  <2>1. \A k \in DOMAIN s.idmap : s.idmap[k] \notin s.deletes
    BY DEF Exact, LiveIDs
  <2> QED BY <1>1, <2>1 DEF Previous
<1>4. t1.deletes = s1.deletes \ purged /\ purged \subseteq s1.deletes
  <2>1. s1.deletes = s.deletes \cup Previous(s, op) /\ t1.deletes = t.deletes \cup Previous(t, op)
    BY DEF Effect
  <2> QED BY <1>1, <1>3, <2>1
<1>5. t1.idmap = s1.idmap
  BY <1>1 DEF Effect, MapAfter
<1>6. t1.writing = s1.writing
  <2>1. /\ t1.writing.id = s1.writing.id /\ t1.writing.min = s1.writing.min
        /\ t1.writing.docs = s1.writing.docs
    BY <1>1 DEF Effect, DocsAfter
  <2> QED BY <2>1 DEF WriteSegments
<1>7. Compacts(s1, t1, purged)
  <2>1. s1.segs = s.segs /\ t1.segs = t.segs
    BY DEF Effect
  <2> QED BY <2>1 DEF PurgedFrom, Compacts, Sealed
<1> QED BY <1>2, <1>4, <1>5, <1>6, <1>7 DEF PurgedFrom

LEMMA ValidPurged ==
  ASSUME NEW c, NEW cap, NEW schema, NEW s, NEW t, NEW recs, NEW purged,
         ReplayTyped(c, s, recs), ReplayTyped(c, t, recs), Shape(s), Shape(t),
         Valid(cap, schema, s, recs), PurgedFrom(s, t, purged), t.ok
  PROVE  /\ Valid(cap, schema, t, recs)
         /\ \A n \in 0..Len(recs) : PurgedFrom(Replay(cap, s, recs, n), Replay(cap, t, recs, n), purged)
<1> DEFINE R(i) == Replay(cap, s, recs, i)
           Q(i) == Replay(cap, t, recs, i)
           Bad == {i \in 0..Len(recs) : ~(Q(i).ok /\ PurgedFrom(R(i), Q(i), purged))}
<1>0. Len(recs) \in Nat
  BY DEF ReplayTyped
<1>1. \A i \in 0..Len(recs) : /\ R(i).ok /\ Sound(schema, R(i)) /\ R(i) \in Replays
                              /\ Typed(R(i)) /\ Shape(R(i))
  BY ReplayFields DEF Valid
<1>2. Bad = {}
  <2>1. SUFFICES ASSUME Bad # {} PROVE FALSE
    OBVIOUS
  <2>2. Bad \in SUBSET Nat
    BY <1>0
  <2>3. PICK m \in Bad : \A i \in Bad : m <= i
    BY <2>1, <2>2, LeastNat
  <2>4. R(0) = s /\ Q(0) = t
    BY ReplayStep
  <2>5. m # 0
    BY <2>3, <2>4
  <2>6. /\ m - 1 \in 0..Len(recs) /\ m - 1 < Len(recs) /\ ~(m <= m - 1) /\ (m - 1) + 1 = m
        /\ m \in 0..Len(recs)
    BY <1>0, <2>3, <2>5
  <2>7. Q(m - 1).ok /\ PurgedFrom(R(m - 1), Q(m - 1), purged)
    BY <2>3, <2>6
  <2>8. /\ Effect(R(m - 1), R(m), recs[m]) /\ R(m) \in Replays
        /\ R(m).ok <=> R(m - 1).ok /\ Accepts(cap, R(m - 1), recs[m])
    <3>1. /\ Effect(R(m - 1), R((m - 1) + 1), recs[(m - 1) + 1]) /\ R((m - 1) + 1) \in Replays
          /\ R((m - 1) + 1).ok <=> R(m - 1).ok /\ Accepts(cap, R(m - 1), recs[(m - 1) + 1])
      BY <2>6, ReplayNext
    <3> QED BY <2>6, <3>1
  <2>9. /\ Effect(Q(m - 1), Q(m), recs[m]) /\ Q(m) \in Replays
        /\ Q(m).ok <=> Q(m - 1).ok /\ Accepts(cap, Q(m - 1), recs[m])
    <3>1. /\ Effect(Q(m - 1), Q((m - 1) + 1), recs[(m - 1) + 1]) /\ Q((m - 1) + 1) \in Replays
          /\ Q((m - 1) + 1).ok <=> Q(m - 1).ok /\ Accepts(cap, Q(m - 1), recs[(m - 1) + 1])
      BY <2>6, ReplayNext
    <3> QED BY <2>6, <3>1
  <2>10. Exact(R(m - 1)) /\ R(m).ok
    BY <1>1, <2>6 DEF Sound
  <2>11. R(m).writing \in WriteSegments /\ Q(m).writing \in WriteSegments
    BY <2>8, <2>9 DEF Effect
  <2> HIDE DEF R, Q
  <2>12. /\ PurgedFrom(R(m), Q(m), purged)
         /\ Accepts(cap, Q(m - 1), recs[m]) <=> Accepts(cap, R(m - 1), recs[m])
    BY <2>7, <2>8, <2>9, <2>10, <2>11, PurgedEffect
  <2> QED BY <2>3, <2>7, <2>8, <2>9, <2>10, <2>12
<1>3. \A i \in 0..Len(recs) : Q(i).ok /\ PurgedFrom(R(i), Q(i), purged)
  BY <1>2
<1>4. \A i \in 0..Len(recs) : Typed(Q(i)) /\ Shape(Q(i))
  BY <1>3, ReplayFields
<1> HIDE DEF R, Q
<1>5. \A i \in 0..Len(recs) : Sound(schema, Q(i))
  BY <1>1, <1>3, <1>4, PurgedSound
<1> QED BY <1>3, <1>5 DEF Valid, R, Q

-----------------------------------------------------------------------------
(* What the disk holds.                                                    *)

\* Segments by their ID, given the names of their files.
Opened(names, sf) == [id \in {p[1] : p \in names} |-> sf[CHOOSE p \in names : p[1] = id]]

\* What a manifest says, as a function of the artifacts.
CheckpointOf(m, sf, im, df) ==
  [segs    |-> Opened(m.segs, sf),
   writing |-> NewWriteSegment(m.wal[1], m.start),
   idmap   |-> im[m.idmap],
   deletes |-> df[m.deletes],
   ok      |-> TRUE]

LEMMA OpenedIs ==
  ASSUME NEW names, NEW sf, \A p, q \in names : p[1] = q[1] => p = q
  PROVE  /\ \A id : id \in DOMAIN Opened(names, sf) <=> \E p \in names : p[1] = id
         /\ \A p \in names : p[1] \in DOMAIN Opened(names, sf) /\ Opened(names, sf)[p[1]] = sf[p]
<1>1. \A id : id \in DOMAIN Opened(names, sf) <=> \E p \in names : p[1] = id
  BY DEF Opened
<1>2. ASSUME NEW p \in names PROVE p[1] \in DOMAIN Opened(names, sf) /\ Opened(names, sf)[p[1]] = sf[p]
  <2>1. (CHOOSE q \in names : q[1] = p[1]) = p
    OBVIOUS
  <2> QED BY <2>1 DEF Opened
<1> QED BY <1>1, <1>2

LEMMA CheckpointNow ==
  Checkpoint(current) = CheckpointOf(current, segFiles, idmapFiles, deleteFiles)
BY DEF Checkpoint, CheckpointOf, Opened

LEMMA CheckpointNext ==
  Checkpoint(current)' = CheckpointOf(current', segFiles', idmapFiles', deleteFiles')
BY DEF Checkpoint, CheckpointOf, Opened

\* Opening the collection works, however much of the log is left.
DiskSound ==
  /\ FilesPresent(current) /\ ValidManifest(current) /\ Shape(Checkpoint(current))
  /\ Valid(Capacity, current.schema, Checkpoint(current), Wal.recs)

SameState(r, s) ==
  r.segs = s.segs /\ r.writing = s.writing /\ r.idmap = s.idmap /\ r.deletes = s.deletes

\* A handle that accepts operations has what reopening would build.
MemorySound ==
  Writable => SameState(Replay(Capacity, Checkpoint(current), Wal.recs, Len(Wal.recs)), mem)

\* A compaction may purge what the checkpoint it runs over has deleted, and
\* its outputs are the documents it was to write.
CompactionSound ==
  /\ comp.phase \in {"begun", "writing"} => comp.captured \subseteq deleteFiles[current.deletes]
  /\ comp.phase = "writing" =>
       comp.purged = Purged /\ \A p \in comp.outputs : segFiles[p] = OutputSegments[p[1]]

DataInv == stable = current /\ DiskSound /\ MemorySound /\ CompactionSound

Present == FilesPresent(current)

ReplayReady == ReplayTyped(config, Checkpoint(current), Wal.recs) /\ Checkpoint(current).ok

LEMMA CheckpointTyped == TypeInv /\ Present => ReplayReady
<1> SUFFICES ASSUME TypeInv, FilesPresent(current)
             PROVE  ReplayTyped(config, Checkpoint(current), Wal.recs) /\ Checkpoint(current).ok
  BY DEF Present, ReplayReady
<1>1. DiskOK /\ WalFilesOK(config, walFiles) /\ current.wal \in DOMAIN walFiles /\ config.maxDocID \in Nat
  BY ConfigIs DEF TypeInv, DiskOK
<1>2. Wal \in Logs /\ LogBounded(config, Wal)
  BY <1>1, PartialIs DEF WalFilesOK, Wal
<1>3. Wal.recs \in Seq(Ops) /\ \A i \in 1..Len(Wal.recs) : OpBounded(config, Wal.recs[i])
  BY <1>2 DEF Logs, LogBounded
<1>4. Checkpoint(current) \in Replays /\ Bounded(config, Checkpoint(current)) /\ Checkpoint(current).ok
  BY <1>1, CheckpointIs
<1> QED BY <1>1, <1>3, <1>4 DEF ReplayTyped

LEMMA CheckpointTypedNext == TypeInv' /\ Present' => ReplayReady'
BY CheckpointTyped, PTL

LEMMA MemTyped ==
  ASSUME TypeInv
  PROVE  Typed(mem) /\ mem \in Managers /\ Bounded(config, mem)
BY ConfigIs, BoundedTyped DEF TypeInv, MemOK, DiskOK

\* The documents of a segment lie between its least and its greatest.
LEMMA SegmentRange ==
  ASSUME NEW segs \in SegmentMaps, NEW i \in DOMAIN segs, IsFiniteSet(DOMAIN segs[i]), segs[i] # EmptyMap
  PROVE  /\ Min(DOMAIN segs[i]) \in DOMAIN segs[i] /\ Max(DOMAIN segs[i]) \in DOMAIN segs[i]
         /\ \A d \in DOMAIN segs[i] : d \in Nat /\ Min(DOMAIN segs[i]) <= d /\ d <= Max(DOMAIN segs[i])
<1> DEFINE S == DOMAIN segs[i]
<1>1. segs[i] \in Documents
  BY SegmentMembers
<1>2. S \in SUBSET Nat /\ segs[i] \in [S -> Doc]
  BY <1>1, PartialIs DEF Documents
<1>3. S # {}
  BY <1>2, EmptyMapIs
<1>4. IsFiniteSet(S)
  OBVIOUS
<1> HIDE DEF S
<1>5. Min(S) \in S /\ \A n \in S : Min(S) <= n
  BY <1>2, <1>3, MinOfNats
<1>6. Max(S) \in S /\ \A n \in S : n <= Max(S)
  BY <1>2, <1>3, <1>4, MaxOfNats
<1> QED BY <1>2, <1>5, <1>6 DEF S

\* No segment reaches into the range that the writing segment reserves.
LEMMA ShapeAccepted ==
  ASSUME NEW s, Typed(s), Shape(s), Capacity \in Nat
  PROVE  /\ \A i \in DOMAIN s.segs : Max(DOMAIN s.segs[i]) < s.writing.min
         /\ WritingAcceptable(s.segs, s.writing)
<1>1. /\ s.segs \in SegmentMaps /\ \A i \in DOMAIN s.segs : IsFiniteSet(DOMAIN s.segs[i])
      /\ s.writing.min \in Nat
  BY DEF Typed, WriteSegments
<1>2. \A i \in DOMAIN s.segs : s.segs[i] # EmptyMap
  BY DEF Shape, ImmutablesAcceptable
<1>3. \A i \in DOMAIN s.segs : Max(DOMAIN s.segs[i]) < s.writing.min /\ Max(DOMAIN s.segs[i]) \in Nat
  BY <1>1, <1>2, SegmentRange DEF Shape
<1>4. \A i \in DOMAIN s.segs : ~RangesOverlap(s.writing.min, s.writing.min + Capacity - 1,
                                              Min(DOMAIN s.segs[i]), Max(DOMAIN s.segs[i]))
  BY <1>1, <1>3 DEF RangesOverlap
<1> QED BY <1>3, <1>4 DEF WritingAcceptable, Shape

\* Only finitely many documents are live.
LEMMA LiveFinite ==
  ASSUME NEW s, Typed(s), Shape(s)
  PROVE  IsFiniteSet(LiveIDs(s))
<1>1. DOMAIN Retained(s) \in SUBSET Nat /\ \A d \in DOMAIN Retained(s) : d < NextDocumentID(s.writing)
  BY RetainedIs
<1>2. NextDocumentID(s.writing) \in Nat
  BY DEF Typed, Contiguous
<1>3. LiveIDs(s) \subseteq 0..NextDocumentID(s.writing)
  BY <1>1, <1>2 DEF LiveIDs
<1>4. IsFiniteSet(0..NextDocumentID(s.writing))
  BY <1>2, FS_Interval
<1> QED BY <1>3, <1>4, FS_Subset

LEMMA DataRecovers ==
  ASSUME TypeInv, DataInv
  PROVE  RecoveryExact
<1> DEFINE c == Checkpoint(current)
           R(n) == Replay(Capacity, c, Wal.recs, n)
<1>1. /\ FilesPresent(current) /\ ValidManifest(current) /\ Shape(c)
      /\ Valid(Capacity, current.schema, c, Wal.recs)
  BY DEF DataInv, DiskSound
<1>2. ReplayTyped(config, c, Wal.recs) /\ c \in Replays /\ Len(Wal.recs) \in Nat
  BY <1>1, CheckpointTyped DEF Present, ReplayReady, ReplayTyped
<1>3. Wal.synced \in Nat
  <2>1. Wal \in Logs
    BY PartialIs DEF TypeInv, DiskOK, WalFilesOK, Wal
  <2> QED BY <2>1 DEF Logs
<1>4. Typed(c) /\ Capacity \in Nat
  BY <1>2, BoundedTyped, ConfigIs DEF ReplayTyped, TypeInv, DiskOK
<1>5. \A n : Recovered(current, n) = R(n)
  BY RecoveredIsReplay DEF Wal
<1>6. (\A i \in DOMAIN c.segs : Max(DOMAIN c.segs[i]) < c.writing.min) /\ WritingAcceptable(c.segs, c.writing)
  BY <1>1, <1>4, ShapeAccepted
<1>7. ASSUME NEW p \in current.segs PROVE Max(DOMAIN segFiles[p]) < current.start
  <2>1. c.segs = Opened(current.segs, segFiles) /\ c.writing.min = current.start
    BY CheckpointNow DEF CheckpointOf, NewWriteSegment
  <2>2. p[1] \in DOMAIN c.segs /\ c.segs[p[1]] = segFiles[p]
    BY <1>1, <2>1, OpenedIs DEF ValidManifest
  <2> QED BY <1>6, <2>1, <2>2
<1>8. ASSUME NEW n \in 0..Len(Wal.recs) PROVE R(n).ok /\ ValidState(R(n))
  <2>1. R(n).ok /\ Exact(R(n))
    BY <1>1 DEF Valid, Sound
  <2>2. Typed(R(n)) /\ Shape(R(n))
    BY <1>1, <1>2, <2>1, ReplayFields
  <2> HIDE DEF R
  <2> QED BY <2>1, <2>2, LiveFinite, ExactIsValid DEF Typed
<1>9. ASSUME NEW n \in Wal.synced..Len(Wal.recs) PROVE Recoverable(current, n)
  <2>1. n \in 0..Len(Wal.recs)
    BY <1>2, <1>3
  <2>2. ImmutablesAcceptable(c.segs)
    BY <1>1 DEF Shape
  <2> HIDE DEF R
  <2> QED BY <1>1, <1>5, <1>6, <1>7, <1>8, <2>1, <2>2 DEF Recoverable
<1>10. Writable => SameState(R(Len(Wal.recs)), mem)
  BY DEF DataInv, MemorySound
<1> HIDE DEF R
<1> QED BY <1>5, <1>9, <1>10 DEF RecoveryExact, SameState

-----------------------------------------------------------------------------
(* Steps that leave the checkpoint alone.                                  *)

\* The next manifest names the same data.
SameManifest ==
  /\ current'.segs = current.segs /\ current'.wal = current.wal /\ current'.start = current.start
  /\ current'.idmap = current.idmap /\ current'.deletes = current.deletes
  /\ current'.schema = current.schema /\ current'.next = current.next

LEMMA CheckpointKept ==
  ASSUME SameManifest, FilesKept, FilesPresent(current), FilesPresent(current)'
  PROVE  /\ Checkpoint(current)' = Checkpoint(current)
         /\ ValidManifest(current) => ValidManifest(current)'
<1>1. /\ current'.segs = current.segs /\ current'.wal = current.wal /\ current'.start = current.start
      /\ current'.idmap = current.idmap /\ current'.deletes = current.deletes /\ current'.next = current.next
  BY DEF SameManifest
<1>2. /\ \A p \in current.segs : segFiles'[p] = segFiles[p]
      /\ idmapFiles'[current.idmap] = idmapFiles[current.idmap]
      /\ deleteFiles'[current.deletes] = deleteFiles[current.deletes]
  BY <1>1 DEF FilesPresent, FilesKept
<1>3. Opened(current'.segs, segFiles') = Opened(current.segs, segFiles)
  <2>1. \A id \in {p[1] : p \in current.segs} : (CHOOSE p \in current.segs : p[1] = id) \in current.segs
    OBVIOUS
  <2> QED BY <1>1, <1>2, <2>1 DEF Opened
<1>4. Checkpoint(current)' = Checkpoint(current)
  BY <1>1, <1>2, <1>3, CheckpointNow, CheckpointNext DEF CheckpointOf
<1>5. ValidManifest(current) => ValidManifest(current)'
  BY <1>1 DEF ValidManifest
<1> QED BY <1>4, <1>5

LEMMA DiskSoundKept ==
  ASSUME DiskSound, config' = config, SameManifest, FilesKept, FilesPresent(current)',
         walFiles'[current.wal].recs = Wal.recs
  PROVE  DiskSound' /\ Checkpoint(current)' = Checkpoint(current) /\ Capacity' = Capacity /\ Wal'.recs = Wal.recs
<1>1. /\ FilesPresent(current) /\ ValidManifest(current) /\ Shape(Checkpoint(current))
      /\ Valid(Capacity, current.schema, Checkpoint(current), Wal.recs)
  BY DEF DiskSound
<1>2. Checkpoint(current)' = Checkpoint(current) /\ ValidManifest(current)'
  BY <1>1, CheckpointKept
<1>3. Capacity' = Capacity /\ Wal'.recs = Wal.recs /\ current'.schema = current.schema
  BY DEF Capacity, Wal, SameManifest
<1> QED BY <1>1, <1>2, <1>3 DEF DiskSound

LEMMA MemorySoundKept ==
  ASSUME MemorySound, Capacity' = Capacity, Checkpoint(current)' = Checkpoint(current), Wal'.recs = Wal.recs,
         Writable' => Writable, Writable' => SameState(mem, mem')
  PROVE  MemorySound'
BY DEF MemorySound, SameState

\* The compaction goes on over the same checkpoint, or over one that has at
\* least the deletions of the last.
LEMMA CompactionSoundKept ==
  ASSUME TypeInv, CompactionSound, FilesKept, comp' = comp,
         comp.phase \in {"begun", "writing"} => deleteFiles[current.deletes] \subseteq deleteFiles'[current'.deletes],
         comp.phase = "writing" => comp.outputs \subseteq DOMAIN segFiles'
  PROVE  CompactionSound'
<1>1. OutputSegments' = OutputSegments /\ Purged' = Purged
  BY DEF OutputSegments, InputDocuments, Purged
<1>2. comp.phase = "writing" => \A p \in comp.outputs : segFiles'[p] = segFiles[p]
  BY DEF TypeInv, CompOK, FilesKept
<1>3. comp.phase \in {"begun", "writing"} => comp.captured \subseteq deleteFiles'[current'.deletes]
  BY DEF CompactionSound
<1>4. ASSUME comp.phase = "writing", NEW p \in comp.outputs PROVE segFiles'[p] = OutputSegments'[p[1]]
  BY <1>1, <1>2, <1>4 DEF CompactionSound
<1>5. comp.phase = "writing" => comp.purged = Purged
  BY DEF CompactionSound
<1> QED BY <1>1, <1>3, <1>4, <1>5 DEF CompactionSound

LEMMA CompactionSoundIdle ==
  ASSUME comp'.phase \notin {"begun", "writing"}
  PROVE  CompactionSound'
BY DEF CompactionSound

\* A step that changes nothing on the disk and in memory that matters here.
LEMMA DataKept ==
  ASSUME TypeInv, DataInv, UNCHANGED <<config, diskVars>>, comp' = comp \/ comp'.phase \notin {"begun", "writing"},
         Writable' => Writable /\ SameState(mem, mem')
  PROVE  DataInv'
<1>1. /\ config' = config /\ current' = current /\ stable' = stable /\ segFiles' = segFiles
      /\ idmapFiles' = idmapFiles /\ deleteFiles' = deleteFiles /\ walFiles' = walFiles
  BY DEF diskVars
<1>2. SameManifest /\ FilesKept /\ (FilesPresent(current) => FilesPresent(current)')
  BY <1>1 DEF SameManifest, FilesKept, FilesPresent
<1>3. DiskSound /\ FilesPresent(current)
  BY DEF DataInv, DiskSound
<1>4. DiskSound' /\ Checkpoint(current)' = Checkpoint(current) /\ Capacity' = Capacity /\ Wal'.recs = Wal.recs
  BY <1>1, <1>2, <1>3, DiskSoundKept DEF Wal
<1>5. MemorySound'
  BY <1>4, MemorySoundKept DEF DataInv
<1>6. CompactionSound'
  <2>1. CASE comp' = comp
    BY <1>1, <1>2, <2>1, CompactionSoundKept DEF DataInv, TypeInv, CompOK
  <2>2. CASE comp'.phase \notin {"begun", "writing"}
    BY <2>2, CompactionSoundIdle
  <2> QED BY <2>1, <2>2
<1> QED BY <1>1, <1>4, <1>5, <1>6 DEF DataInv

-----------------------------------------------------------------------------
(* The handle's life.                                                      *)

LEMMA QuietData ==
  ASSUME TypeInv, DataInv, WalFails \/ CreateIterator \/ CloseIterator
  PROVE  DataInv'
<1>1. /\ UNCHANGED <<config, diskVars>> /\ comp' = comp /\ mem' = mem /\ open' = open
      /\ poison' = poison \/ poison' = poison \cup {"wal"}
  BY DEF WalFails, CreateIterator, CloseIterator
<1>2. Writable' => Writable /\ SameState(mem, mem')
  BY <1>1 DEF Writable, SameState
<1> QED BY <1>1, <1>2, DataKept

LEMMA KillData ==
  ASSUME TypeInv, DataInv, Kill
  PROVE  DataInv'
<1>1. UNCHANGED <<config, diskVars>> /\ comp'.phase = "none" /\ ~open'
  BY NoCompIs DEF Kill, HandleGone
<1>2. ~Writable'
  BY <1>1 DEF Writable
<1> QED BY <1>1, <1>2, DataKept

LEMMA CloseData ==
  ASSUME TypeInv, DataInv, Close, FilesKept
  PROVE  DataInv'
<1>1. /\ config' = config /\ current' = current /\ stable' = stable /\ segFiles' = segFiles
      /\ idmapFiles' = idmapFiles /\ deleteFiles' = deleteFiles
      /\ walFiles' = WalSynced \/ walFiles' = walFiles
      /\ comp'.phase = "none" /\ ~open'
  BY NoCompIs DEF Close, HandleGone
<1>2. DOMAIN walFiles' = DOMAIN walFiles /\ walFiles'[current.wal].recs = Wal.recs
  BY <1>1, WalSyncedIs DEF TypeInv, Wal
<1>3. DiskSound /\ FilesPresent(current) /\ stable = current
  BY DEF DataInv, DiskSound
<1>4. SameManifest /\ FilesPresent(current)'
  BY <1>1, <1>2, <1>3 DEF SameManifest, FilesPresent
<1>5. DiskSound'
  BY <1>1, <1>2, <1>3, <1>4, DiskSoundKept
<1>6. MemorySound' /\ CompactionSound'
  BY <1>1, CompactionSoundIdle DEF MemorySound, Writable
<1> QED BY <1>1, <1>3, <1>5, <1>6 DEF DataInv

\* Whatever is lost, it is the end of the log.
LEMMA PowerLossData ==
  ASSUME TypeInv, DataInv, PowerLoss, FilesKept
  PROVE  DataInv'
<1>1. /\ config' = config /\ current' = stable /\ stable' = stable /\ segFiles' = segFiles
      /\ idmapFiles' = idmapFiles /\ deleteFiles' = deleteFiles
      /\ comp'.phase = "none" /\ ~open'
  BY NoCompIs DEF PowerLoss, HandleGone
<1>2. /\ stable = current /\ DiskSound /\ FilesPresent(current) /\ ValidManifest(current)
      /\ Shape(Checkpoint(current)) /\ Valid(Capacity, current.schema, Checkpoint(current), Wal.recs)
  BY DEF DataInv, DiskSound
<1>3. Wal \in Logs /\ LogBounded(config, Wal) /\ current.wal \in DOMAIN walFiles
  BY PartialIs DEF TypeInv, DiskOK, WalFilesOK, Wal
<1>4. Wal.recs \in Seq(Ops) /\ Wal.synced \in Nat /\ Len(Wal.recs) \in Nat
  BY <1>3 DEF Logs
<1>5. PICK n \in Wal.synced..Len(Wal.recs) :
        walFiles' = [walFiles EXCEPT ![current.wal] = [recs |-> SubSeq(Wal.recs, 1, n), synced |-> n]]
  BY <1>2 DEF PowerLoss, Wal
<1>6. n \in 0..Len(Wal.recs)
  BY <1>4
<1>7. DOMAIN walFiles' = DOMAIN walFiles /\ Wal'.recs = SubSeq(Wal.recs, 1, n)
  BY <1>1, <1>2, <1>3, <1>5 DEF Wal
<1>8. SameManifest /\ FilesPresent(current)'
  BY <1>1, <1>2, <1>7 DEF SameManifest, FilesPresent
<1>9. Checkpoint(current)' = Checkpoint(current) /\ ValidManifest(current)'
  BY <1>2, <1>8, CheckpointKept
<1>10. Capacity' = Capacity /\ current'.schema = current.schema
  BY <1>1, <1>2 DEF Capacity
<1>11. Valid(Capacity, current.schema, Checkpoint(current), SubSeq(Wal.recs, 1, n))
  BY <1>2, <1>4, <1>6, ValidPrefix
<1>12. DiskSound'
  BY <1>2, <1>7, <1>8, <1>9, <1>10, <1>11 DEF DiskSound
<1>13. MemorySound' /\ CompactionSound'
  BY <1>1, CompactionSoundIdle DEF MemorySound, Writable
<1> QED BY <1>1, <1>2, <1>12, <1>13 DEF DataInv

LEMMA OpenCollectionData ==
  ASSUME TypeInv, DataInv, OpenCollection
  PROVE  DataInv'
<1> DEFINE r == Recovered(current, Len(Wal.recs))
<1>1. /\ UNCHANGED <<config, diskVars>> /\ comp' = comp /\ ~open
      /\ mem' = Manager(r.segs, r.writing, r.idmap, r.deletes, 0, 0)
  BY DEF OpenCollection
<1>2. /\ config' = config /\ current' = current /\ stable' = stable /\ segFiles' = segFiles
      /\ idmapFiles' = idmapFiles /\ deleteFiles' = deleteFiles /\ walFiles' = walFiles
  BY <1>1 DEF diskVars
<1>3. SameManifest /\ FilesKept /\ (FilesPresent(current) => FilesPresent(current)')
  BY <1>2 DEF SameManifest, FilesKept, FilesPresent
<1>4. DiskSound /\ FilesPresent(current) /\ stable = current
  BY DEF DataInv, DiskSound
<1>5. DiskSound' /\ Checkpoint(current)' = Checkpoint(current) /\ Capacity' = Capacity /\ Wal'.recs = Wal.recs
  BY <1>2, <1>3, <1>4, DiskSoundKept DEF Wal
<1>6. r = Replay(Capacity, Checkpoint(current), Wal.recs, Len(Wal.recs))
  BY RecoveredIsReplay DEF Wal
<1> HIDE DEF r
<1>7. mem'.segs = r.segs /\ mem'.writing = r.writing /\ mem'.idmap = r.idmap /\ mem'.deletes = r.deletes
  BY <1>1 DEF Manager
<1>8. MemorySound'
  BY <1>5, <1>6, <1>7 DEF MemorySound, SameState
<1>9. CompactionSound'
  <2>1. comp.phase = "none"
    BY <1>1 DEF TypeInv, HandleOK, CompOK, Compactions
  <2> QED BY <1>1, <2>1, CompactionSoundIdle
<1> QED BY <1>2, <1>4, <1>5, <1>8, <1>9 DEF DataInv

-----------------------------------------------------------------------------
(* Writes.                                                                 *)

LEMMA EffectSame ==
  ASSUME NEW r, NEW s, NEW r1, NEW s1, NEW op, SameState(r, s), Effect(r, r1, op), Effect(s, s1, op)
  PROVE  SameState(r1, s1)
<1>1. r.segs = s.segs /\ r.writing = s.writing /\ r.idmap = s.idmap /\ r.deletes = s.deletes
  BY DEF SameState
<1>2. r1.segs = s1.segs
  BY <1>1 DEF Effect
<1>3. r1.writing = s1.writing
  <2>1. /\ r1.writing.id = s1.writing.id /\ r1.writing.min = s1.writing.min
        /\ r1.writing.docs = s1.writing.docs /\ r1.writing \in WriteSegments /\ s1.writing \in WriteSegments
    BY <1>1 DEF Effect, DocsAfter
  <2> QED BY <2>1 DEF WriteSegments
<1>4. r1.idmap = s1.idmap
  BY <1>1 DEF Effect, MapAfter
<1>5. r1.deletes = s1.deletes
  BY <1>1 DEF Effect, Previous
<1> QED BY <1>2, <1>3, <1>4, <1>5 DEF SameState

LEMMA LogAndApplyData ==
  ASSUME TypeInv, DataInv, FilesKept, FilesPresent(current)', Writable, NEW op \in Ops, op.schema = current.schema,
         Accepts(Capacity, mem, op), LogAndApply(op)
  PROVE  DataInv'
<1> DEFINE c == Checkpoint(current)
           r == Replay(Capacity, c, Wal.recs, Len(Wal.recs))
           q == Replay(Capacity, c, Append(Wal.recs, op), Len(Wal.recs) + 1)
<1>1. /\ config' = config /\ current' = current /\ stable' = stable /\ segFiles' = segFiles
      /\ idmapFiles' = idmapFiles /\ deleteFiles' = deleteFiles /\ comp' = comp /\ open' = open
  BY DEF LogAndApply
<1>2. /\ FilesPresent(current) /\ ValidManifest(current) /\ Shape(c) /\ stable = current
      /\ Valid(Capacity, current.schema, c, Wal.recs) /\ SameState(r, mem) /\ CompactionSound
  BY DEF DataInv, DiskSound, MemorySound
<1>3. ReplayTyped(config, c, Wal.recs)
  BY <1>2, CheckpointTyped DEF Present, ReplayReady
<1>4. Accepts(Capacity, r, op)
  BY <1>2 DEF Accepts, SameState
<1>5. Valid(Capacity, current.schema, c, Append(Wal.recs, op)) /\ Effect(r, q, op)
  BY <1>2, <1>3, <1>4, ValidAppend
<1>6. current.wal \in DOMAIN walFiles
  BY <1>2 DEF FilesPresent
<1>7. \E synced : Logged(op, synced)
  BY DEF LogAndApply, WriteSucceeds, WriteSyncFails, WriteApplyFails
<1>8. Wal'.recs = Append(Wal.recs, op)
  BY <1>1, <1>6, <1>7 DEF Logged, Wal
<1>9. Len(Append(Wal.recs, op)) = Len(Wal.recs) + 1
  BY <1>3 DEF ReplayTyped
<1>10. SameManifest
  BY <1>1 DEF SameManifest
<1>11. Checkpoint(current)' = c /\ ValidManifest(current)' /\ Capacity' = Capacity
  BY <1>1, <1>2, <1>10, CheckpointKept DEF Capacity
<1>12. DiskSound'
  BY <1>1, <1>2, <1>5, <1>8, <1>11 DEF DiskSound
<1>13. MemorySound'
  <2>1. ASSUME Writable' PROVE SameState(q, mem')
    <3>1. "engine" \notin poison'
      BY <2>1 DEF Writable
    <3>2. WriteSucceeds(op)
      BY <3>1 DEF LogAndApply, WriteSyncFails, WriteApplyFails
    <3> DEFINE a == Applied(mem, op)
    <3>3. Effect(mem, a, op) /\ a \in Managers
      BY AppliedManager, MemTyped
    <3>4. SameState(q, a)
      BY <1>2, <1>5, <3>3, EffectSame
    <3>5. \E x : mem' = [a EXCEPT !.dirty = x]
      BY <3>2 DEF WriteSucceeds
    <3> HIDE DEF a
    <3>6. mem'.segs = a.segs /\ mem'.writing = a.writing /\ mem'.idmap = a.idmap /\ mem'.deletes = a.deletes
      BY <3>3, <3>5 DEF Managers
    <3> HIDE DEF q
    <3> QED BY <3>4, <3>6 DEF SameState
  <2> QED BY <1>8, <1>9, <1>11, <2>1 DEF MemorySound
<1>14. CompactionSound'
  BY <1>1, <1>2, CompactionSoundKept DEF TypeInv, CompOK
<1> QED BY <1>1, <1>2, <1>12, <1>13, <1>14 DEF DataInv

\* Every operation is logged only when replaying it would succeed.
LEMMA WritesLogged ==
  ASSUME TypeInv, NEW k \in config.keys, Insert(k) \/ Upsert(k) \/ Update(k) \/ Delete(k)
  PROVE  /\ Writable
         /\ \E op \in Ops : /\ op.schema = current.schema /\ op.key \in config.keys
                            /\ Accepts(Capacity, mem, op) /\ LogAndApply(op)
<1> DEFINE Found == \E op \in Ops : /\ op.schema = current.schema /\ op.key \in config.keys
                                    /\ Accepts(Capacity, mem, op) /\ LogAndApply(op)
<1>1. /\ k \in Keys /\ current.schema \in Nat /\ MemOK(config, mem)
  BY ConfigIs DEF TypeInv, DiskOK, ManifestOK, Manifests
<1>2. Writable
  BY DEF Insert, Upsert, Update, Delete
<1> DEFINE d == NextDocumentID(mem.writing)
<1>3. \A type \in {"insert", "upsert", "update", "delete"}, doc \in Nat :
        LET op == Operation(type, k, doc)
        IN  op \in Ops /\ op.type = type /\ op.key = k /\ op.doc = doc /\ op.schema = current.schema
  BY <1>1 DEF Operation, Ops
<1>4. d \in Nat
  BY <1>1, ManagerFields
<1>5. ASSUME NEW type \in {"insert", "upsert", "update"}, HasRoom, LogAndApply(Operation(type, k, d)),
             type = "insert" => k \notin DOMAIN mem.idmap, type = "update" => k \in DOMAIN mem.idmap
      PROVE  Found
  <2> DEFINE op == Operation(type, k, d)
  <2>1. op \in Ops /\ op.type = type /\ op.key = k /\ op.doc = d /\ op.schema = current.schema
    BY <1>3, <1>4, <1>5
  <2> HIDE DEF op
  <2>2. Accepts(Capacity, mem, op)
    BY <1>5, <2>1 DEF Accepts, HasRoom, Full
  <2>3. LogAndApply(op)
    BY <1>5 DEF op
  <2> QED BY <2>1, <2>2, <2>3
<1>6. CASE Insert(k)
  BY <1>5, <1>6 DEF Insert
<1>7. CASE Upsert(k)
  BY <1>5, <1>7 DEF Upsert
<1>8. CASE Update(k)
  BY <1>5, <1>8 DEF Update
<1>9. CASE Delete(k)
  <2>1. k \in DOMAIN mem.idmap /\ LogAndApply(Operation("delete", k, mem.idmap[k]))
    BY <1>9 DEF Delete
  <2> DEFINE op == Operation("delete", k, mem.idmap[k])
  <2>2. mem.idmap[k] \in Nat
    BY <1>1, <2>1, ManagerFields DEF MapBounded
  <2>3. op \in Ops /\ op.type = "delete" /\ op.key = k /\ op.doc = mem.idmap[k] /\ op.schema = current.schema
    BY <1>3, <2>2
  <2>4. LogAndApply(op)
    BY <2>1
  <2> HIDE DEF op
  <2>5. Accepts(Capacity, mem, op)
    BY <2>1, <2>3 DEF Accepts
  <2> QED BY <1>2, <2>3, <2>4, <2>5
<1> QED BY <1>2, <1>6, <1>7, <1>8, <1>9

LEMMA WritesData ==
  ASSUME TypeInv, DataInv, FilesKept, FilesPresent(current)', NEW k \in config.keys,
         Insert(k) \/ Upsert(k) \/ Update(k) \/ Delete(k)
  PROVE  DataInv'
BY WritesLogged, LogAndApplyData

-----------------------------------------------------------------------------
(* Publications that fail, metadata, pruning, and compaction up to Commit. *)

LEMMA DataUnmoved ==
  ASSUME DataInv, config' = config, SameManifest, stable' = current', FilesKept, FilesPresent(current)',
         walFiles'[current.wal].recs = Wal.recs, CompactionSound', Writable' => Writable /\ SameState(mem, mem')
  PROVE  DataInv'
<1>1. DiskSound' /\ Checkpoint(current)' = Checkpoint(current) /\ Capacity' = Capacity /\ Wal'.recs = Wal.recs
  BY DiskSoundKept DEF DataInv
<1>2. MemorySound'
  BY <1>1, MemorySoundKept DEF DataInv
<1> QED BY <1>1, <1>2 DEF DataInv

\* The records of the log survive a publication that does not replace it.
LEMMA LogKept ==
  ASSUME DiskOK, NEW plan, PlanOK(plan)
  PROVE  /\ Over(plan.wals, LogsAfter(plan))[current.wal].recs = Wal.recs
         /\ LogsAfter(plan)[current.wal].recs = Wal.recs
<1>1. plan.syncs \in BOOLEAN /\ DOMAIN plan.wals \cap DOMAIN walFiles = {} /\ current.wal \in DOMAIN walFiles
  BY DEF PlanOK, DiskOK
<1>2. LogsAfter(plan)[current.wal].recs = Wal.recs
  BY <1>1, WalSyncedIs DEF LogsAfter, Wal
<1>3. DOMAIN LogsAfter(plan) = DOMAIN walFiles
  BY <1>1, LogsAfterIs
<1>4. Over(plan.wals, LogsAfter(plan))[current.wal] = LogsAfter(plan)[current.wal]
  <2>1. current.wal \in DOMAIN LogsAfter(plan) /\ current.wal \notin DOMAIN plan.wals
    BY <1>1, <1>3
  <2> QED BY <2>1 DEF Over
<1> QED BY <1>2, <1>4

LEMMA AbandonedData ==
  ASSUME TypeInv, DataInv, NEW plan, PlanOK(plan), Abandoned(plan), config' = config, comp' = comp,
         Writable' => Writable /\ SameState(mem, mem')
  PROVE  DataInv'
<1>1. DiskOK /\ FilesPresent(current) /\ stable = current /\ CompactionSound
  BY DEF TypeInv, DataInv, DiskSound
<1>2. /\ FilesKept /\ current' = current /\ FilesPresent(current)' /\ DOMAIN segFiles \subseteq DOMAIN segFiles'
  BY <1>1, AbandonedOK
<1>3. stable' = stable /\ (walFiles' = Over(plan.wals, LogsAfter(plan)) \/ walFiles' = LogsAfter(plan))
  BY DEF Abandoned, LogsAfter
<1>4. walFiles'[current.wal].recs = Wal.recs
  BY <1>1, <1>3, LogKept
<1>5. deleteFiles'[current'.deletes] = deleteFiles[current.deletes]
  BY <1>1, <1>2 DEF FilesKept, FilesPresent
<1>6. comp.phase = "writing" => comp.outputs \subseteq DOMAIN segFiles'
  BY <1>2 DEF TypeInv, CompOK
<1>7. CompactionSound'
  BY <1>1, <1>2, <1>5, <1>6, CompactionSoundKept
<1>8. SameManifest
  BY <1>2 DEF SameManifest
<1> QED BY <1>1, <1>2, <1>3, <1>4, <1>7, <1>8, DataUnmoved

LEMMA PublishMetadataData ==
  ASSUME TypeInv, DataInv, ~DirSyncMayFail, PublishMetadata, FilesKept, FilesPresent(current)'
  PROVE  DataInv'
<1> DEFINE plan == [manifest |-> current, segs |-> EmptyMap, idmaps |-> EmptyMap,
                    deletes |-> EmptyMap, wals |-> EmptyMap, syncs |-> FALSE]
<1>1. /\ Committed(plan) \/ Abandoned(plan)
      /\ UNCHANGED <<config, open, poison, mem, comp, iter>> /\ comp.phase \in {"none", "unchanged"}
  BY DEF PublishMetadata
<1>2. /\ plan.manifest = current /\ plan.segs = EmptyMap /\ plan.idmaps = EmptyMap
      /\ plan.deletes = EmptyMap /\ plan.wals = EmptyMap /\ plan.syncs = FALSE
  OBVIOUS
<1> HIDE DEF plan
<1>3. DiskOK /\ FilesPresent(current) /\ stable = current /\ CompactionSound /\ current \in Manifests
  BY DEF TypeInv, DataInv, DiskSound, DiskOK, ManifestOK
<1>4. ManifestOK(config, current, lastGen)
  BY <1>3 DEF DiskOK
<1>5. DOMAIN EmptyMap = {}
  BY EmptyMapIs
<1>6. PlanOK(plan)
  BY <1>2, <1>3, <1>4, <1>5, FilesEmpty DEF PlanOK, ManifestOK, FilesPresent
<1>7. Writable' => Writable /\ SameState(mem, mem')
  BY <1>1 DEF Writable, SameState
<1>8. CompactionSound'
  BY <1>1, CompactionSoundIdle
<1>9. CASE Committed(plan)
  <2>1. /\ current' = [current EXCEPT !.gen = lastGen + 1] /\ stable' = current'
        /\ walFiles' = Over(plan.wals, LogsAfter(plan))
    BY <1>2, <1>9 DEF Committed, LogsAfter
  <2>2. SameManifest
    BY <1>3, <2>1 DEF SameManifest, Manifests
  <2>3. walFiles'[current.wal].recs = Wal.recs
    BY <1>3, <1>6, <2>1, LogKept
  <2> QED BY <1>1, <1>7, <1>8, <2>1, <2>2, <2>3, DataUnmoved
<1>10. CASE Abandoned(plan)
  BY <1>1, <1>6, <1>7, <1>10, AbandonedData
<1> QED BY <1>1, <1>9, <1>10

LEMMA PruneData ==
  ASSUME TypeInv, DataInv, PruneObsoleteArtifacts, FilesKept, FilesPresent(current)'
  PROVE  DataInv'
<1>1. /\ config' = config /\ current' = current /\ stable' = stable /\ open' = open /\ poison' = poison
      /\ mem' = mem /\ comp' = comp /\ comp.phase \in {"none", "unchanged", "committed"}
      /\ walFiles' = walFiles \/ walFiles' = Restrict(walFiles, DOMAIN walFiles \cap {current.wal})
  BY DEF PruneObsoleteArtifacts, Kept, Keep
<1>2. stable = current /\ current.wal \in DOMAIN walFiles
  BY DEF DataInv, TypeInv, DiskOK
<1>3. SameManifest
  BY <1>1 DEF SameManifest
<1>4. walFiles'[current.wal].recs = Wal.recs
  BY <1>1, <1>2, RestrictIs DEF Wal
<1>5. Writable' => Writable /\ SameState(mem, mem')
  BY <1>1 DEF Writable, SameState
<1>6. CompactionSound'
  BY <1>1, CompactionSoundIdle
<1> QED BY <1>1, <1>2, <1>3, <1>4, <1>5, <1>6, DataUnmoved

LEMMA CompactionCloseData ==
  ASSUME TypeInv, DataInv, CompactionClose, FilesKept, FilesPresent(current)'
  PROVE  DataInv'
<1>1. /\ config' = config /\ current' = current /\ stable' = stable /\ open' = open /\ poison' = poison
      /\ mem' = mem /\ comp'.phase = "none" /\ walFiles' = walFiles
  BY NoCompIs DEF CompactionClose
<1>2. stable = current
  BY DEF DataInv
<1>3. SameManifest
  BY <1>1 DEF SameManifest
<1>4. Writable' => Writable /\ SameState(mem, mem')
  BY <1>1 DEF Writable, SameState
<1>5. CompactionSound'
  BY <1>1, CompactionSoundIdle
<1> QED BY <1>1, <1>2, <1>3, <1>4, <1>5, DataUnmoved DEF Wal

\* The log is empty, so memory and checkpoint have the same deletions.
LEMMA BeginCompactionData ==
  ASSUME TypeInv, DataInv, BeginCompaction, FilesKept, FilesPresent(current)'
  PROVE  DataInv'
<1>1. /\ UNCHANGED <<config, diskVars>> /\ open' = open /\ poison' = poison /\ mem' = mem
      /\ Writable /\ ~FlushNeeded
      /\ comp' = [NoComp EXCEPT !.phase = "begun", !.gen = current.gen, !.schema = current.schema,
                                !.inputs = mem.segs, !.captured = mem.deletes]
  BY DEF BeginCompaction
<1>2. /\ config' = config /\ current' = current /\ stable' = stable /\ deleteFiles' = deleteFiles
      /\ walFiles' = walFiles
  BY <1>1 DEF diskVars
<1>3. Wal.recs = <<>>
  BY <1>1 DEF FlushNeeded
<1>4. SameState(Replay(Capacity, Checkpoint(current), Wal.recs, Len(Wal.recs)), mem)
  BY <1>1 DEF DataInv, MemorySound
<1>5. Replay(Capacity, Checkpoint(current), Wal.recs, Len(Wal.recs)) = Checkpoint(current)
  <2>1. Len(Wal.recs) = 0
    BY <1>3
  <2> QED BY <2>1, ReplayStep
<1>6. mem.deletes = deleteFiles[current.deletes]
  BY <1>4, <1>5 DEF SameState, Checkpoint
<1>7. comp'.phase = "begun" /\ comp'.captured = mem.deletes
  BY <1>1, NoCompIs DEF Compactions
<1>8. CompactionSound'
  BY <1>2, <1>6, <1>7 DEF CompactionSound
<1>9. SameManifest /\ stable' = current'
  BY <1>2 DEF SameManifest, DataInv
<1>10. Writable' => Writable /\ SameState(mem, mem')
  BY <1>1 DEF Writable, SameState
<1> QED BY <1>2, <1>8, <1>9, <1>10, DataUnmoved DEF Wal

LEMMA PrepareReserveData ==
  ASSUME TypeInv, DataInv, PrepareReserve, FilesKept, FilesPresent(current)'
  PROVE  DataInv'
<1>1. /\ UNCHANGED <<config, diskVars>> /\ open' = open /\ poison' = poison /\ comp.phase = "begun"
      /\ \/ comp' = [comp EXCEPT !.phase = "unchanged"] /\ mem' = mem
         \/ /\ comp' = [comp EXCEPT !.phase = "writing", !.purged = Purged,
                                    !.runs = OutputRuns, !.first = NextSegmentID]
            /\ mem' = [mem EXCEPT !.reserved = NextSegmentID + Cardinality(OutputRuns)]
  BY DEF PrepareReserve
<1>2. /\ config' = config /\ current' = current /\ stable' = stable /\ deleteFiles' = deleteFiles
      /\ walFiles' = walFiles
  BY <1>1 DEF diskVars
<1>3. comp \in Compactions /\ comp.outputs = {} /\ mem \in Managers
  BY <1>1 DEF TypeInv, CompOK, MemOK
<1>4. comp.captured \subseteq deleteFiles[current.deletes]
  BY <1>1 DEF DataInv, CompactionSound
<1>5. CompactionSound'
  <2>1. CASE comp' = [comp EXCEPT !.phase = "unchanged"]
    <3>1. comp'.phase = "unchanged"
      BY <1>3, <2>1 DEF Compactions
    <3> QED BY <3>1, CompactionSoundIdle
  <2>2. CASE comp' = [comp EXCEPT !.phase = "writing", !.purged = Purged,
                                  !.runs = OutputRuns, !.first = NextSegmentID]
    <3>1. /\ comp'.phase = "writing" /\ comp'.purged = Purged /\ comp'.captured = comp.captured
          /\ comp'.inputs = comp.inputs /\ comp'.outputs = {}
      BY <1>3, <2>2 DEF Compactions
    <3>2. Purged' = Purged
      BY <3>1 DEF Purged, InputDocuments
    <3> QED BY <1>2, <1>4, <3>1, <3>2 DEF CompactionSound
  <2> QED BY <1>1, <2>1, <2>2
<1>6. SameManifest /\ stable' = current'
  BY <1>2 DEF SameManifest, DataInv
<1>7. SameState(mem, mem')
  BY <1>1, <1>3 DEF Managers, SameState
<1>8. Writable' => Writable
  BY <1>1 DEF Writable
<1> QED BY <1>2, <1>5, <1>6, <1>7, <1>8, DataUnmoved DEF Wal

LEMMA PrepareOutputData ==
  ASSUME TypeInv, DataInv, PrepareOutput, FilesKept, FilesPresent(current)'
  PROVE  DataInv'
<1> DEFINE id   == comp.first + Cardinality(comp.outputs)
           name == SegmentName(id, comp.gen + 1)
<1>1. /\ config' = config /\ current' = current /\ stable' = stable /\ deleteFiles' = deleteFiles
      /\ walFiles' = walFiles /\ open' = open /\ poison' = poison /\ mem' = mem
      /\ comp.phase = "writing"
      /\ segFiles' = Over(Entry(name, OutputSegments[id]), segFiles)
      /\ comp' = [comp EXCEPT !.outputs = comp.outputs \cup {name}]
  BY DEF PrepareOutput
<1>2. name[1] = id
  BY DEF SegmentName
<1> HIDE DEF name, id
<1>3. comp \in Compactions /\ comp.outputs \subseteq DOMAIN segFiles
  BY <1>1 DEF TypeInv, CompOK
<1>4. /\ comp.captured \subseteq deleteFiles[current.deletes] /\ comp.purged = Purged
      /\ \A p \in comp.outputs : segFiles[p] = OutputSegments[p[1]]
  BY <1>1 DEF DataInv, CompactionSound
<1>5. /\ comp'.phase = "writing" /\ comp'.purged = comp.purged /\ comp'.captured = comp.captured
      /\ comp'.inputs = comp.inputs /\ comp'.runs = comp.runs /\ comp'.first = comp.first
      /\ comp'.outputs = comp.outputs \cup {name}
  BY <1>1, <1>3 DEF Compactions
<1>6. OutputSegments' = OutputSegments /\ Purged' = Purged
  BY <1>5 DEF OutputSegments, InputDocuments, Purged
<1>7. segFiles'[name] = OutputSegments[id] /\ \A p \in DOMAIN segFiles : p \in DOMAIN segFiles'
  BY <1>1 DEF Over, Entry
<1>8. \A p \in comp.outputs : segFiles'[p] = segFiles[p]
  BY <1>3, <1>7 DEF FilesKept
<1>9. \A p \in comp'.outputs : segFiles'[p] = OutputSegments[p[1]]
  BY <1>2, <1>4, <1>5, <1>7, <1>8
<1>10. CompactionSound'
  BY <1>1, <1>4, <1>5, <1>6, <1>9 DEF CompactionSound
<1>11. SameManifest /\ stable' = current'
  BY <1>1 DEF SameManifest, DataInv
<1>12. Writable' => Writable /\ SameState(mem, mem')
  BY <1>1 DEF Writable, SameState
<1> QED BY <1>1, <1>10, <1>11, <1>12, DataUnmoved DEF Wal

-----------------------------------------------------------------------------
(* Publications of a new checkpoint: Flush and RewriteDocuments.           *)

LEMMA OpenedUnion ==
  ASSUME NEW A, NEW B, NEW sf, \A p, q \in A \cup B : p[1] = q[1] => p = q
  PROVE  Opened(A \cup B, sf) = Over(Opened(B, sf), Opened(A, sf))
<1> DEFINE f == Opened(A, sf)
           g == Opened(B, sf)
           h == Opened(A \cup B, sf)
<1>1. /\ \A id : id \in DOMAIN f <=> \E p \in A : p[1] = id
      /\ \A p \in A : p[1] \in DOMAIN f /\ f[p[1]] = sf[p]
  BY OpenedIs
<1>2. /\ \A id : id \in DOMAIN g <=> \E p \in B : p[1] = id
      /\ \A p \in B : p[1] \in DOMAIN g /\ g[p[1]] = sf[p]
  BY OpenedIs
<1>3. /\ \A id : id \in DOMAIN h <=> \E p \in A \cup B : p[1] = id
      /\ \A p \in A \cup B : p[1] \in DOMAIN h /\ h[p[1]] = sf[p]
  BY OpenedIs
<1>4. h = [id \in DOMAIN h |-> h[id]]
  BY DEF Opened
<1> HIDE DEF f, g, h
<1>5. DOMAIN h = DOMAIN f \cup DOMAIN g
  <2>1. \A id : (\E p \in A \cup B : p[1] = id) <=> (\E p \in A : p[1] = id) \/ (\E p \in B : p[1] = id)
    OBVIOUS
  <2>2. \A id : id \in DOMAIN h <=> id \in DOMAIN f \/ id \in DOMAIN g
    BY <1>1, <1>2, <1>3, <2>1
  <2> QED BY <2>2
<1>6. ASSUME NEW id \in DOMAIN h PROVE h[id] = IF id \in DOMAIN g THEN g[id] ELSE f[id]
  <2>1. CASE id \in DOMAIN g
    BY <1>2, <1>3, <2>1
  <2>2. CASE id \notin DOMAIN g
    <3>1. PICK p \in A : p[1] = id
      BY <1>1, <1>5, <2>2
    <3> QED BY <1>1, <1>3, <2>2, <3>1
  <2> QED BY <2>1, <2>2
<1>7. h = Over(g, f)
  BY <1>4, <1>5, <1>6 DEF Over
<1> QED BY <1>7 DEF f, g, h

LEMMA OpenedSame ==
  ASSUME NEW A, NEW sf, NEW tf, \A p \in A : tf[p] = sf[p]
  PROVE  Opened(A, tf) = Opened(A, sf)
<1>1. \A id \in {p[1] : p \in A} : (CHOOSE p \in A : p[1] = id) \in A
  OBVIOUS
<1> QED BY <1>1 DEF Opened

LEMMA OpenedOne ==
  ASSUME NEW p, NEW sf
  PROVE  Opened({p}, sf) = Entry(p[1], sf[p])
<1>1. {q[1] : q \in {p}} = {p[1]} /\ (CHOOSE q \in {p} : q[1] = p[1]) = p
  OBVIOUS
<1> QED BY <1>1 DEF Opened, Entry

LEMMA SameStateSound ==
  ASSUME NEW r, NEW s, SameState(r, s)
  PROVE  /\ Shape(s) => Shape(r)
         /\ \A schema : Sound(schema, s) => Sound(schema, r)
<1>1. r.segs = s.segs /\ r.writing = s.writing /\ r.idmap = s.idmap /\ r.deletes = s.deletes
  BY DEF SameState
<1>2. Retained(r) = Retained(s) /\ LiveIDs(r) = LiveIDs(s)
  BY <1>1 DEF Retained, LiveIDs
<1> QED BY <1>1, <1>2 DEF Shape, Sound, Exact

\* A plan that writes a whole checkpoint and an empty log.
LEMMA CheckpointPublished ==
  ASSUME TypeInv, NEW plan, PlanOK(plan), Committed(plan), config' = config, ~DirSyncMayFail,
         FilesPresent(current)', plan.manifest.wal \in DOMAIN plan.wals, NEW s, Shape(s), Sound(plan.manifest.schema, s),
         SameState(CheckpointOf(plan.manifest, Over(plan.segs, segFiles), Over(plan.idmaps, idmapFiles),
                                Over(plan.deletes, deleteFiles)), s)
  PROVE  /\ DiskSound' /\ stable' = current'
         /\ SameState(Replay(Capacity', Checkpoint(current)', Wal'.recs, Len(Wal'.recs)), s)
<1> DEFINE cp == CheckpointOf(plan.manifest, Over(plan.segs, segFiles), Over(plan.idmaps, idmapFiles),
                              Over(plan.deletes, deleteFiles))
<1>1. /\ current' = [plan.manifest EXCEPT !.gen = lastGen + 1] /\ stable' = current'
      /\ segFiles' = Over(plan.segs, segFiles) /\ idmapFiles' = Over(plan.idmaps, idmapFiles)
      /\ deleteFiles' = Over(plan.deletes, deleteFiles) /\ walFiles' = Over(plan.wals, LogsAfter(plan))
      /\ ValidManifest(plan.manifest)
  BY DEF Committed, LogsAfter
<1>2. plan.manifest \in Manifests /\ \A p \in DOMAIN plan.wals : plan.wals[p] = NewWal
  BY DEF PlanOK
<1>3. /\ current'.segs = plan.manifest.segs /\ current'.wal = plan.manifest.wal /\ current'.start = plan.manifest.start
      /\ current'.idmap = plan.manifest.idmap /\ current'.deletes = plan.manifest.deletes
      /\ current'.schema = plan.manifest.schema /\ current'.next = plan.manifest.next
  BY <1>1, <1>2 DEF Manifests
<1>4. Checkpoint(current)' = cp
  BY <1>1, <1>3, CheckpointNext DEF CheckpointOf
<1>5. cp.ok
  BY DEF CheckpointOf
<1> HIDE DEF cp
<1>6. Shape(cp) /\ Sound(plan.manifest.schema, cp) /\ SameState(cp, s)
  BY SameStateSound DEF cp
<1>7. ValidManifest(current)'
  BY <1>1, <1>3 DEF ValidManifest
<1>8. Wal'.recs = <<>>
  <2>1. walFiles'[plan.manifest.wal] = NewWal
    BY <1>1, <1>2 DEF Over
  <2> QED BY <1>3, <2>1 DEF Wal, NewWal
<1>9. Capacity' = Capacity
  BY DEF Capacity
<1>10. Valid(Capacity, plan.manifest.schema, cp, <<>>) /\ Replay(Capacity, cp, <<>>, Len(<<>>)) = cp
  BY <1>5, <1>6, ValidEmpty
<1>11. DiskSound'
  BY <1>3, <1>4, <1>6, <1>7, <1>8, <1>9, <1>10 DEF DiskSound
<1>12. Replay(Capacity', Checkpoint(current)', Wal'.recs, Len(Wal'.recs)) = cp
  BY <1>4, <1>8, <1>9, <1>10
<1> QED BY <1>1, <1>6, <1>11, <1>12

\* The writing segment is sealed and another one follows it.
LEMMA RotatedSound ==
  ASSUME NEW s, NEW t, NEW id, Typed(s), Shape(s), Typed(t),
         t.segs = (IF s.writing.docs # EmptyMap THEN Over(Entry(s.writing.id, s.writing.docs), s.segs) ELSE s.segs),
         t.writing = NewWriteSegment(id, NextDocumentID(s.writing)), id \notin DOMAIN t.segs,
         t.idmap = s.idmap, t.deletes = s.deletes
  PROVE  /\ Shape(t) /\ Grows(s, t)
         /\ \A schema : Sound(schema, s) => Sound(schema, t)
<1> DEFINE w == s.writing
           docs == s.writing.docs
           start == NextDocumentID(s.writing)
<1>1. /\ docs \in Documents /\ w.min \in Nat /\ start \in Nat /\ w.min <= start
      /\ DOMAIN docs = w.min..(start - 1)
  BY FS_CardinalityType DEF Typed, WriteSegments, Contiguous, NextDocumentID
<1>2. t.writing.id = id /\ t.writing.min = start /\ t.writing.docs = EmptyMap
  BY DEF NewWriteSegment
<1>3. /\ t.segs \in SegmentMaps /\ \A i \in DOMAIN t.segs : IsFiniteSet(DOMAIN t.segs[i])
      /\ s.segs \in SegmentMaps /\ \A i \in DOMAIN s.segs : IsFiniteSet(DOMAIN s.segs[i])
  BY DEF Typed
<1>4. /\ \A i \in DOMAIN s.segs : s.segs[i] # EmptyMap
      /\ \A i \in DOMAIN s.segs : \A d \in DOMAIN s.segs[i] : d < w.min
      /\ w.id \notin DOMAIN s.segs
      /\ \A i, j \in DOMAIN s.segs :
           i # j => ~RangesOverlap(Min(DOMAIN s.segs[i]), Max(DOMAIN s.segs[i]),
                                   Min(DOMAIN s.segs[j]), Max(DOMAIN s.segs[j]))
  BY DEF Shape, ImmutablesAcceptable
<1>5. /\ \A i : i \in DOMAIN t.segs <=> i \in DOMAIN s.segs \/ (docs # EmptyMap /\ i = w.id)
      /\ \A i \in DOMAIN s.segs : t.segs[i] = s.segs[i]
      /\ docs # EmptyMap => t.segs[w.id] = docs
  <2>1. CASE docs # EmptyMap
    BY <1>4, <2>1 DEF Over, Entry
  <2>2. CASE docs = EmptyMap
    BY <2>2
  <2> QED BY <2>1, <2>2
<1> HIDE DEF w, docs, start
<1>6. \A i \in DOMAIN t.segs : t.segs[i] # EmptyMap
  BY <1>4, <1>5
<1>7. \A i \in DOMAIN t.segs : /\ Min(DOMAIN t.segs[i]) \in DOMAIN t.segs[i] /\ Max(DOMAIN t.segs[i]) \in DOMAIN t.segs[i]
                               /\ \A d \in DOMAIN t.segs[i] : d \in Nat
  BY <1>3, <1>6, SegmentRange
<1>8. ASSUME NEW i \in DOMAIN t.segs, NEW j \in DOMAIN t.segs, i # j
      PROVE  ~RangesOverlap(Min(DOMAIN t.segs[i]), Max(DOMAIN t.segs[i]),
                            Min(DOMAIN t.segs[j]), Max(DOMAIN t.segs[j]))
  <2>1. CASE i \in DOMAIN s.segs /\ j \in DOMAIN s.segs
    BY <1>4, <1>5, <1>8, <2>1
  <2>2. CASE i = w.id /\ docs # EmptyMap /\ j \in DOMAIN s.segs
    <3>1. Min(DOMAIN t.segs[i]) >= w.min /\ Max(DOMAIN t.segs[j]) < w.min
      BY <1>1, <1>4, <1>5, <1>7, <2>2
    <3> QED BY <1>1, <1>7, <3>1 DEF RangesOverlap
  <2>3. CASE j = w.id /\ docs # EmptyMap /\ i \in DOMAIN s.segs
    <3>1. Min(DOMAIN t.segs[j]) >= w.min /\ Max(DOMAIN t.segs[i]) < w.min
      BY <1>1, <1>4, <1>5, <1>7, <2>3
    <3> QED BY <1>1, <1>7, <3>1 DEF RangesOverlap
  <2> QED BY <1>5, <1>8, <2>1, <2>2, <2>3
<1>9. ASSUME NEW i \in DOMAIN t.segs, NEW d \in DOMAIN t.segs[i] PROVE d < start
  <2>1. CASE i \in DOMAIN s.segs
    BY <1>1, <1>4, <1>5, <1>7, <2>1
  <2>2. CASE i = w.id /\ docs # EmptyMap
    BY <1>1, <1>5, <1>7, <2>2
  <2> QED BY <1>5, <2>1, <2>2
<1>10. Shape(t)
  BY <1>2, <1>6, <1>8, <1>9 DEF Shape, ImmutablesAcceptable
<1>11. /\ \A d : d \in DOMAIN Retained(s) <=> (\E i \in DOMAIN s.segs : d \in DOMAIN s.segs[i]) \/ d \in DOMAIN docs
       /\ \A i \in DOMAIN s.segs : \A d \in DOMAIN s.segs[i] : Retained(s)[d] = s.segs[i][d]
       /\ \A d \in DOMAIN docs : Retained(s)[d] = docs[d]
  BY RetainedIs DEF docs
<1>12. /\ \A d : d \in DOMAIN Retained(t) <=> (\E i \in DOMAIN t.segs : d \in DOMAIN t.segs[i])
       /\ \A i \in DOMAIN t.segs : \A d \in DOMAIN t.segs[i] : Retained(t)[d] = t.segs[i][d]
  <2>1. /\ \A d : d \in DOMAIN Retained(t) <=> (\E i \in DOMAIN t.segs : d \in DOMAIN t.segs[i])
                                                \/ d \in DOMAIN t.writing.docs
        /\ \A i \in DOMAIN t.segs : \A d \in DOMAIN t.segs[i] : Retained(t)[d] = t.segs[i][d]
    BY <1>10, RetainedIs
  <2>2. \A d : d \notin DOMAIN t.writing.docs
    BY <1>2, EmptyMapIs
  <2> QED BY <2>1, <2>2
<1>13. DOMAIN EmptyMap = {}
  BY EmptyMapIs
<1>14. \A d : d \in DOMAIN Retained(t) <=> d \in DOMAIN Retained(s)
  BY <1>5, <1>11, <1>12, <1>13
<1>15. ASSUME NEW d \in DOMAIN Retained(t) PROVE Retained(t)[d] = Retained(s)[d]
  <2>1. PICK i \in DOMAIN t.segs : d \in DOMAIN t.segs[i]
    BY <1>12
  <2>2. CASE i \in DOMAIN s.segs
    BY <1>5, <1>11, <1>12, <2>1, <2>2
  <2>3. CASE i = w.id /\ docs # EmptyMap
    BY <1>5, <1>11, <1>12, <2>1, <2>3
  <2> QED BY <1>5, <2>1, <2>2, <2>3
<1>16. \A d : d \in LiveIDs(t) <=> d \in LiveIDs(s)
  BY <1>14 DEF LiveIDs
<1>17. LiveIDs(t) \subseteq DOMAIN Retained(t)
  BY DEF LiveIDs
<1>18. ASSUME NEW schema, Sound(schema, s) PROVE Sound(schema, t)
  <2>1. t.deletes \subseteq DOMAIN Retained(t)
    BY <1>14, <1>18 DEF Sound, Exact
  <2>2. \A k \in DOMAIN t.idmap : t.idmap[k] \in LiveIDs(t) /\ Retained(t)[t.idmap[k]].key = k
    BY <1>15, <1>16, <1>17, <1>18 DEF Sound, Exact
  <2>3. \A d \in LiveIDs(t) : Retained(t)[d].key \in DOMAIN t.idmap /\ t.idmap[Retained(t)[d].key] = d
    BY <1>15, <1>16, <1>17, <1>18 DEF Sound, Exact
  <2>4. \A d \in DOMAIN Retained(t) : Retained(t)[d].schema = schema
    BY <1>14, <1>15, <1>18 DEF Sound
  <2> QED BY <2>1, <2>2, <2>3, <2>4 DEF Sound, Exact
<1>19. Grows(s, t)
  BY <1>14, <1>15 DEF Grows
<1> QED BY <1>10, <1>18, <1>19

\* What replaying records leaves alone, and what it only adds to.
Extends(s, r) ==
  /\ r.segs = s.segs /\ r.writing.id = s.writing.id /\ r.writing.min = s.writing.min
  /\ s.deletes \subseteq r.deletes

LEMMA ReplayExtends ==
  ASSUME NEW c, NEW cap, NEW s, NEW recs, ReplayTyped(c, s, recs), NEW n \in 0..Len(recs)
  PROVE  Extends(s, Replay(cap, s, recs, n))
BY ReplayFields DEF Extends

\* The memory of a handle that accepts operations.
LEMMA MemoryIs ==
  ASSUME TypeInv, DataInv, Writable
  PROVE  /\ Typed(mem) /\ Shape(mem) /\ Sound(current.schema, mem)
         /\ mem.segs = Opened(current.segs, segFiles)
         /\ mem.writing.id = current.wal[1] /\ mem.writing.min = current.start
         /\ deleteFiles[current.deletes] \subseteq mem.deletes
<1> DEFINE base == Checkpoint(current)
           r == Replay(Capacity, base, Wal.recs, Len(Wal.recs))
<1>1. FilesPresent(current) /\ Shape(base) /\ Valid(Capacity, current.schema, base, Wal.recs) /\ SameState(r, mem)
  BY DEF DataInv, DiskSound, MemorySound
<1>2. ReplayTyped(config, base, Wal.recs) /\ Len(Wal.recs) \in 0..Len(Wal.recs)
  BY <1>1, CheckpointTyped DEF Present, ReplayReady, ReplayTyped
<1>3. Sound(current.schema, r)
  BY <1>1, <1>2 DEF Valid
<1>4. /\ base.segs = Opened(current.segs, segFiles) /\ base.writing.id = current.wal[1]
      /\ base.writing.min = current.start /\ base.deletes = deleteFiles[current.deletes]
  BY CheckpointNow DEF CheckpointOf, NewWriteSegment
<1> HIDE DEF base
<1> DEFINE R(n) == Replay(Capacity, base, Wal.recs, n)
<1>5. Extends(base, r) /\ Shape(r)
  <2>1. ASSUME NEW n \in 0..Len(Wal.recs) PROVE Extends(base, R(n))
    BY <1>2, ReplayExtends
  <2>2. ASSUME NEW n \in 0..Len(Wal.recs) PROVE Shape(R(n))
    BY <1>1, <1>2, ReplayFields
  <2> HIDE DEF R
  <2> QED BY <1>2, <2>1, <2>2 DEF R
<1> HIDE DEF r
<1>6. SameState(mem, r)
  BY <1>1 DEF SameState
<1> QED BY <1>1, <1>3, <1>4, <1>5, <1>6, SameStateSound, MemTyped DEF SameState, Extends

LEMMA FlushPlanIs ==
  ASSUME TypeInv, DataInv, Writable, ValidManifest(FlushPlan.manifest)
  PROVE  /\ Shape(FlushPlan.mem) /\ Sound(FlushPlan.manifest.schema, FlushPlan.mem)
         /\ FlushPlan.manifest.wal \in DOMAIN FlushPlan.wals
         /\ SameState(CheckpointOf(FlushPlan.manifest, Over(FlushPlan.segs, segFiles),
                                   Over(FlushPlan.idmaps, idmapFiles), Over(FlushPlan.deletes, deleteFiles)),
                      FlushPlan.mem)
         /\ FlushPlan.mem.deletes = mem.deletes /\ FlushPlan.manifest.schema = current.schema
         /\ Grows(mem, FlushPlan.mem)
<1> DEFINE w     == mem.writing
           id    == NextSegmentID
           start == NextDocumentID(w)
           seg   == SegmentName(w.id, current.gen + 1)
           wal   == WalName(id, current.gen + 1)
           sealed == w.docs # EmptyMap
           plan  == FlushPlan
           m     == FlushPlan.manifest
           t     == FlushPlan.mem
<1>1. DiskOK /\ MemOK(config, mem) /\ current \in Manifests /\ config.maxDocID \in Nat
  BY ConfigIs DEF TypeInv, DiskOK, ManifestOK
<1>2. /\ m = [current EXCEPT !.segs = IF sealed THEN current.segs \cup {seg} ELSE current.segs,
                             !.wal = wal, !.start = start, !.idmap = IDMapNumber,
                             !.deletes = DeleteNumber, !.next = id + 1]
      /\ plan.segs = IF sealed THEN Entry(seg, w.docs) ELSE EmptyMap
      /\ plan.idmaps = Entry(IDMapNumber, mem.idmap)
      /\ plan.deletes = Entry(DeleteNumber, mem.deletes)
      /\ plan.wals = Entry(wal, NewWal)
      /\ t = Manager(IF sealed THEN Over(Entry(w.id, w.docs), mem.segs) ELSE mem.segs,
                     NewWriteSegment(id, start), mem.idmap, mem.deletes, 0, mem.reserved)
  BY DEF FlushPlan
<1>3. /\ seg \notin DOMAIN segFiles /\ seg[1] = w.id /\ wal[1] = id
  BY <1>1, ManagerFields, FreshNames
<1>4. /\ Typed(mem) /\ Shape(mem) /\ Sound(current.schema, mem) /\ mem.segs = Opened(current.segs, segFiles)
  BY MemoryIs
<1>5. Typed(t)
  BY <1>1, FlushPlanOK, BoundedTyped DEF MemOK
<1>6. current.segs \subseteq DOMAIN segFiles
  BY DEF DataInv, DiskSound, FilesPresent
<1>7. /\ \A p, q \in m.segs : p[1] = q[1] => p = q
      /\ m.wal[1] \notin {p[1] : p \in m.segs}
  BY DEF ValidManifest
<1> HIDE DEF w, id, start, seg, wal, plan
<1>8. /\ m.segs = (IF sealed THEN current.segs \cup {seg} ELSE current.segs) /\ m.wal = wal
      /\ m.start = start /\ m.idmap = IDMapNumber /\ m.deletes = DeleteNumber /\ m.schema = current.schema
  BY <1>1, <1>2 DEF Manifests
<1>9. /\ t.segs = (IF sealed THEN Over(Entry(w.id, w.docs), mem.segs) ELSE mem.segs)
      /\ t.writing = NewWriteSegment(id, start) /\ t.idmap = mem.idmap /\ t.deletes = mem.deletes
  BY <1>2 DEF Manager
<1> HIDE DEF m, t
<1>10. Opened(m.segs, Over(plan.segs, segFiles)) = t.segs
  <2> DEFINE sf == Over(plan.segs, segFiles)
  <2>1. \A p \in current.segs : sf[p] = segFiles[p]
    <3>1. \A p \in current.segs : p \in DOMAIN segFiles /\ p \notin DOMAIN plan.segs
      BY <1>2, <1>3, <1>6, EmptyMapIs DEF Entry
    <3> QED BY <3>1 DEF Over
  <2>2. sealed => sf[seg] = w.docs
    BY <1>2 DEF Over, Entry
  <2> HIDE DEF sf
  <2>3. Opened(current.segs, sf) = mem.segs
    BY <1>4, <2>1, OpenedSame
  <2>4. CASE sealed
    <3>1. Opened(current.segs \cup {seg}, sf) = Over(Opened({seg}, sf), Opened(current.segs, sf))
      BY <1>7, <1>8, <2>4, OpenedUnion
    <3>2. Opened({seg}, sf) = Entry(w.id, w.docs)
      BY <1>3, <2>2, <2>4, OpenedOne
    <3> QED BY <1>8, <1>9, <2>3, <2>4, <3>1, <3>2 DEF sf
  <2>5. CASE ~sealed
    BY <1>8, <1>9, <2>3, <2>5 DEF sf
  <2> QED BY <2>4, <2>5
<1>11. id \notin DOMAIN t.segs
  <2>1. \A i : i \in DOMAIN t.segs <=> \E p \in m.segs : p[1] = i
    BY <1>7, <1>10, OpenedIs
  <2> QED BY <1>3, <1>7, <1>8, <2>1
<1>12. Shape(t) /\ Sound(current.schema, t) /\ Grows(mem, t)
  BY <1>4, <1>5, <1>9, <1>11, RotatedSound DEF w, start
<1>13. /\ Over(plan.idmaps, idmapFiles)[m.idmap] = t.idmap
       /\ Over(plan.deletes, deleteFiles)[m.deletes] = t.deletes
  BY <1>2, <1>8, <1>9 DEF Over, Entry
<1>14. SameState(CheckpointOf(m, Over(plan.segs, segFiles), Over(plan.idmaps, idmapFiles),
                              Over(plan.deletes, deleteFiles)), t)
  BY <1>3, <1>8, <1>9, <1>10, <1>13 DEF SameState, CheckpointOf
<1>15. m.wal \in DOMAIN plan.wals
  BY <1>2, <1>8 DEF Entry
<1> QED BY <1>8, <1>9, <1>12, <1>14, <1>15 DEF m, t, plan

LEMMA FlushData ==
  ASSUME TypeInv, DataInv, ~DirSyncMayFail, Flush, FilesKept, FilesPresent(current)'
  PROVE  DataInv'
<1>1. /\ Writable /\ UNCHANGED <<config, open, comp, iter>>
      /\ \/ /\ Committed(FlushPlan)
            /\ mem' = IF RotationAccepted(FlushPlan) THEN FlushPlan.mem ELSE mem
            /\ poison' = IF RotationAccepted(FlushPlan) THEN poison ELSE poison \cup {"store"}
         \/ /\ Abandoned(FlushPlan) /\ mem' = [mem EXCEPT !.dirty = 0] /\ poison' = poison
  BY DEF Flush
<1>2. FilesPresent(current) /\ DiskOK /\ mem \in Managers
  BY DEF DataInv, DiskSound, TypeInv, MemOK
<1>3. PlanOK(FlushPlan)
  BY <1>2, FlushPlanOK
<1>4. CASE Committed(FlushPlan) /\ mem' = (IF RotationAccepted(FlushPlan) THEN FlushPlan.mem ELSE mem)
           /\ poison' = IF RotationAccepted(FlushPlan) THEN poison ELSE poison \cup {"store"}
  <2>1. ValidManifest(FlushPlan.manifest)
    BY <1>4 DEF Committed
  <2>2. /\ Shape(FlushPlan.mem) /\ Sound(FlushPlan.manifest.schema, FlushPlan.mem)
        /\ FlushPlan.manifest.wal \in DOMAIN FlushPlan.wals
        /\ SameState(CheckpointOf(FlushPlan.manifest, Over(FlushPlan.segs, segFiles),
                                  Over(FlushPlan.idmaps, idmapFiles), Over(FlushPlan.deletes, deleteFiles)),
                     FlushPlan.mem)
        /\ FlushPlan.mem.deletes = mem.deletes
    BY <1>1, <2>1, FlushPlanIs
  <2>3. /\ DiskSound' /\ stable' = current'
        /\ SameState(Replay(Capacity', Checkpoint(current)', Wal'.recs, Len(Wal'.recs)), FlushPlan.mem)
    BY <1>1, <1>3, <1>4, <2>2, CheckpointPublished
  <2>4. Writable' => mem' = FlushPlan.mem
    BY <1>4 DEF Writable
  <2>5. MemorySound'
    BY <2>3, <2>4 DEF MemorySound
  <2>6. deleteFiles'[current'.deletes] = mem.deletes
    <3>1. /\ current' = [FlushPlan.manifest EXCEPT !.gen = lastGen + 1]
          /\ deleteFiles' = Over(FlushPlan.deletes, deleteFiles)
      BY <1>4 DEF Committed
    <3>2. FlushPlan.manifest \in Manifests
      BY <1>3 DEF PlanOK
    <3>3. current'.deletes = FlushPlan.manifest.deletes
      BY <3>1, <3>2 DEF Manifests
    <3> QED BY <2>2, <3>1, <3>3 DEF SameState, CheckpointOf
  <2>7. deleteFiles[current.deletes] \subseteq mem.deletes
    BY <1>1, MemoryIs
  <2>8. DOMAIN segFiles \subseteq DOMAIN segFiles'
    BY <1>1, <1>2, <1>3, <1>4, CommittedOK
  <2>9. comp.phase = "writing" => comp.outputs \subseteq DOMAIN segFiles'
    BY <2>8 DEF TypeInv, CompOK
  <2>10. CompactionSound'
    BY <1>1, <2>6, <2>7, <2>9, CompactionSoundKept DEF DataInv
  <2> QED BY <2>3, <2>5, <2>10 DEF DataInv
<1>5. CASE Abandoned(FlushPlan) /\ mem' = [mem EXCEPT !.dirty = 0] /\ poison' = poison
  <2>1. Writable' => Writable /\ SameState(mem, mem')
    BY <1>1, <1>2, <1>5 DEF Writable, SameState, Managers
  <2> QED BY <1>1, <1>3, <1>5, <2>1, AbandonedData
<1> QED BY <1>1, <1>4, <1>5

-----------------------------------------------------------------------------
(* Rewriting the documents.                                                *)

\* The segments cut from the runs of ids hold those documents and no others.
LEMMA SegmentsHold ==
  ASSUME NEW docs \in Documents, NEW ids \in SUBSET DOMAIN docs, IsFiniteSet(ids), NEW firstID \in Nat,
         NEW segs, segs = SegmentsOf(DocumentRuns(ids), docs, firstID)
  PROVE  /\ segs \in SegmentMaps
         /\ DOMAIN segs = firstID..(firstID + Cardinality(DocumentRuns(ids)) - 1)
         /\ \A i \in DOMAIN segs : segs[i] # EmptyMap
         /\ \A d : (\E i \in DOMAIN segs : d \in DOMAIN segs[i]) <=> d \in ids
         /\ \A i \in DOMAIN segs : \A d \in DOMAIN segs[i] : segs[i][d] = docs[d]
<1> DEFINE runs == DocumentRuns(ids)
           ID(r) == RunID(runs, r, firstID)
<1>1. /\ segs \in SegmentMaps /\ DOMAIN segs = firstID..(firstID + Cardinality(runs) - 1)
      /\ \A i \in DOMAIN segs : \E r \in runs : segs[i] = Restrict(docs, r)
      /\ \A r \in runs : ID(r) \in DOMAIN segs /\ segs[ID(r)] = Restrict(docs, r)
  BY SegmentsOfIs
<1>2. /\ \A r \in runs : r \in SUBSET ids /\ r # {}
      /\ \A d \in ids : \E r \in runs : d \in r
  BY RunsPartition
<1> HIDE DEF runs, ID
<1>3. \A r : DOMAIN Restrict(docs, r) = r /\ \A x \in r : Restrict(docs, r)[x] = docs[x]
  BY RestrictIs
<1>4. ASSUME NEW i \in DOMAIN segs
      PROVE  /\ segs[i] # EmptyMap /\ DOMAIN segs[i] \in SUBSET ids
             /\ \A d \in DOMAIN segs[i] : segs[i][d] = docs[d]
  <2>1. PICK r \in runs : segs[i] = Restrict(docs, r)
    BY <1>1
  <2> QED BY <1>2, <1>3, <2>1, EmptyMapIs
<1>5. ASSUME NEW d \in ids PROVE \E i \in DOMAIN segs : d \in DOMAIN segs[i]
  <2>1. PICK r \in runs : d \in r
    BY <1>2
  <2> QED BY <1>1, <1>3, <2>1
<1>6. \A d : (\E i \in DOMAIN segs : d \in DOMAIN segs[i]) <=> d \in ids
  BY <1>4, <1>5
<1> QED BY <1>1, <1>4, <1>6 DEF runs

\* Opening files that hold segments under their IDs.
LEMMA OpenedFiles ==
  ASSUME NEW names, NEW sf, NEW segs, segs = [i \in DOMAIN segs |-> segs[i]],
         \A p, q \in names : p[1] = q[1] => p = q,
         \A i : i \in DOMAIN segs <=> \E p \in names : p[1] = i,
         \A p \in names : sf[p] = segs[p[1]]
  PROVE  Opened(names, sf) = segs
<1> DEFINE O == Opened(names, sf)
<1>1. /\ \A i : i \in DOMAIN O <=> \E p \in names : p[1] = i
      /\ \A p \in names : O[p[1]] = sf[p]
  BY OpenedIs
<1>2. O = [i \in DOMAIN O |-> O[i]]
  BY DEF Opened
<1> HIDE DEF O
<1>3. DOMAIN O = DOMAIN segs
  BY <1>1
<1>4. \A i \in DOMAIN O : O[i] = segs[i]
  BY <1>1
<1> QED BY <1>2, <1>3, <1>4 DEF O

\* A rewrite keeps the live documents, under their keys and in the new schema.
LEMMA RewrittenSound ==
  ASSUME TypeInv, DataInv, Writable, NEW schema \in 1..config.maxSchema, NEW t, Typed(t), Shape(t),
         \A d : (\E i \in DOMAIN t.segs : d \in DOMAIN t.segs[i]) <=> d \in LiveIDs(mem),
         \A i \in DOMAIN t.segs : \A d \in DOMAIN t.segs[i] : t.segs[i][d] = Rewritten(schema)[d],
         t.writing.docs = EmptyMap, t.idmap = KeysOf(Rewritten(schema)), t.deletes = {}
  PROVE  Sound(schema, t)
<1> DEFINE docs == Rewritten(schema)
           live == LiveIDs(mem)
           base == Retained(mem)
<1>1. DiskOK /\ MemOK(config, mem)
  BY DEF TypeInv
<1>2. /\ docs \in Documents /\ DocsBounded(config, docs) /\ DOMAIN docs = live
      /\ \A d \in live : docs[d] = [key |-> base[d].key, schema |-> schema]
  BY <1>1, RewrittenIs
<1>3. \A d \in live : base[d].key \in DOMAIN mem.idmap /\ mem.idmap[base[d].key] = d
  BY MemoryIs DEF Sound, Exact
<1>4. /\ DOMAIN KeysOf(docs) = {docs[d].key : d \in DOMAIN docs}
      /\ \A k \in DOMAIN KeysOf(docs) : KeysOf(docs)[k] \in DOMAIN docs /\ docs[KeysOf(docs)[k]].key = k
  BY <1>2, KeysOfIs
<1> HIDE DEF docs, live, base
<1>5. /\ \A d : d \in DOMAIN Retained(t) <=> d \in live
      /\ \A d \in live : Retained(t)[d] = docs[d]
  <2>1. /\ \A d : d \in DOMAIN Retained(t) <=>
                    (\E i \in DOMAIN t.segs : d \in DOMAIN t.segs[i]) \/ d \in DOMAIN t.writing.docs
        /\ \A i \in DOMAIN t.segs : \A d \in DOMAIN t.segs[i] : Retained(t)[d] = t.segs[i][d]
    BY RetainedIs
  <2> QED BY <2>1, EmptyMapIs DEF live, docs
<1>6. \A d : d \in LiveIDs(t) <=> d \in live
  BY <1>5 DEF LiveIDs
<1>7. \A d \in live : docs[d].key = base[d].key /\ docs[d].schema = schema
  BY <1>2
<1>8. t.idmap = KeysOf(docs)
  BY DEF docs
<1>9. \A k \in DOMAIN t.idmap : t.idmap[k] \in live /\ docs[t.idmap[k]].key = k
  BY <1>2, <1>4, <1>8
<1>10. \A d \in live : docs[d].key \in DOMAIN t.idmap /\ t.idmap[docs[d].key] = d
  <2> SUFFICES ASSUME NEW d \in live PROVE docs[d].key \in DOMAIN t.idmap /\ t.idmap[docs[d].key] = d
    OBVIOUS
  <2>1. docs[d].key \in DOMAIN t.idmap
    BY <1>2, <1>4, <1>8
  <2> DEFINE e == t.idmap[docs[d].key]
  <2>2. e \in live /\ docs[e].key = docs[d].key
    BY <1>9, <2>1
  <2>3. e = d
    BY <1>3, <1>7, <2>2
  <2> QED BY <2>1, <2>3
<1>11. Exact(t)
  BY <1>5, <1>6, <1>9, <1>10 DEF Exact
<1> QED BY <1>5, <1>7, <1>11 DEF Sound

LEMMA RewritePlanIs ==
  ASSUME TypeInv, DataInv, Writable, NEW schema \in 1..config.maxSchema,
         ImmutablesAcceptable(RewritePlan(schema).mem.segs)
  PROVE  LET plan == RewritePlan(schema) IN
         /\ Shape(plan.mem) /\ Sound(plan.manifest.schema, plan.mem)
         /\ plan.manifest.wal \in DOMAIN plan.wals
         /\ SameState(CheckpointOf(plan.manifest, Over(plan.segs, segFiles),
                                   Over(plan.idmaps, idmapFiles), Over(plan.deletes, deleteFiles)),
                      plan.mem)
<1> DEFINE docs  == Rewritten(schema)
           runs  == DocumentRuns(DOMAIN docs)
           segs  == SegmentsOf(runs, docs, NextSegmentID)
           names == {SegmentName(i, current.gen + 1) : i \in DOMAIN segs}
           id    == NextSegmentID + Cardinality(runs)
           start == NextDocumentID(mem.writing)
           wal   == WalName(id, current.gen + 1)
           files == [p \in names |-> segs[p[1]]]
           plan  == RewritePlan(schema)
           m     == RewritePlan(schema).manifest
           t     == RewritePlan(schema).mem
<1>1. DiskOK /\ MemOK(config, mem) /\ current \in Manifests /\ config.maxDocID \in Nat
  BY ConfigIs DEF TypeInv, DiskOK, ManifestOK
<1>2. /\ m = [current EXCEPT !.schema = schema, !.segs = names, !.wal = wal,
                             !.start = start, !.idmap = IDMapNumber,
                             !.deletes = DeleteNumber, !.next = id + 1]
      /\ plan.segs = files
      /\ plan.idmaps = Entry(IDMapNumber, KeysOf(docs))
      /\ plan.deletes = Entry(DeleteNumber, {})
      /\ plan.wals = Entry(wal, NewWal)
      /\ t = Manager(segs, NewWriteSegment(id, start), KeysOf(docs), {}, 0, mem.reserved)
  BY DEF RewritePlan, Rewritten, KeysOf
<1>3. Typed(t)
  BY <1>1, RewritePlanOK, BoundedTyped DEF MemOK
<1>4. /\ docs \in Documents /\ DOMAIN docs = LiveIDs(mem) /\ IsFiniteSet(DOMAIN docs)
      /\ DOMAIN docs \in SUBSET DOMAIN docs /\ DOMAIN docs \in SUBSET Nat
      /\ DOMAIN docs \in SUBSET DOMAIN Retained(mem)
  BY <1>1, RewrittenIs
<1>5. NextSegmentID \in Nat
  BY <1>1, FreshNames
<1>6. /\ \A i \in Nat : SegmentName(i, current.gen + 1) \notin DOMAIN segFiles /\ SegmentName(i, current.gen + 1)[1] = i
      /\ \A i \in Nat : WalName(i, current.gen + 1)[1] = i
  BY <1>1, FreshNames
<1>7. \A d \in DOMAIN Retained(mem) : d < start
  BY MemoryIs, RetainedIs
<1> HIDE DEF docs
<1>8. Cardinality(runs) \in Nat
  BY <1>4, <1>5, RunsNumbered
<1>9. /\ segs \in SegmentMaps /\ DOMAIN segs = NextSegmentID..(NextSegmentID + Cardinality(runs) - 1)
      /\ \A d : (\E i \in DOMAIN segs : d \in DOMAIN segs[i]) <=> d \in DOMAIN docs
      /\ \A i \in DOMAIN segs : \A d \in DOMAIN segs[i] : segs[i][d] = docs[d]
  BY <1>4, <1>5, SegmentsHold
<1> HIDE DEF segs, runs, start, wal, plan
<1>10. id \in Nat /\ id \notin DOMAIN segs /\ DOMAIN segs \in SUBSET Nat
  BY <1>5, <1>8, <1>9
<1>11. /\ \A p \in names : p[1] \in DOMAIN segs /\ p \notin DOMAIN segFiles
       /\ \A p, q \in names : p[1] = q[1] => p = q
       /\ \A i : i \in DOMAIN segs <=> \E p \in names : p[1] = i
  BY <1>6, <1>10
<1>12. wal[1] = id
  BY <1>6, <1>10 DEF wal
<1> HIDE DEF names, id
<1>13. /\ m.segs = names /\ m.wal = wal /\ m.start = start /\ m.idmap = IDMapNumber
       /\ m.deletes = DeleteNumber /\ m.schema = schema
  BY <1>1, <1>2 DEF Manifests
<1>14. /\ t.segs = segs /\ t.writing = NewWriteSegment(id, start) /\ t.idmap = KeysOf(docs) /\ t.deletes = {}
  BY <1>2 DEF Manager
<1>15. t.writing.id = id /\ t.writing.min = start /\ t.writing.docs = EmptyMap
  BY <1>14 DEF NewWriteSegment
<1> HIDE DEF m, t
<1>16. Shape(t)
  <2>1. ImmutablesAcceptable(segs)
    BY <1>14 DEF t
  <2>2. \A i \in DOMAIN segs : \A d \in DOMAIN segs[i] : d < start
    BY <1>4, <1>7, <1>9
  <2> QED BY <1>10, <1>14, <1>15, <2>1, <2>2 DEF Shape
<1>17. Sound(schema, t)
  BY <1>3, <1>4, <1>9, <1>14, <1>15, <1>16, RewrittenSound DEF docs
<1>18. Opened(names, Over(plan.segs, segFiles)) = segs
  <2>1. segs = [i \in DOMAIN segs |-> segs[i]]
    BY <1>9, PartialIs DEF SegmentMaps
  <2>2. \A p \in names : Over(plan.segs, segFiles)[p] = segs[p[1]]
    BY <1>2 DEF Over
  <2> DEFINE sf == Over(plan.segs, segFiles)
  <2> HIDE DEF sf
  <2>3. Opened(names, sf) = segs
    BY <1>11, <2>1, <2>2, OpenedFiles DEF sf
  <2> QED BY <2>3 DEF sf
<1>19. /\ Over(plan.idmaps, idmapFiles)[m.idmap] = t.idmap
       /\ Over(plan.deletes, deleteFiles)[m.deletes] = t.deletes
  BY <1>2, <1>13, <1>14 DEF Over, Entry
<1>20. SameState(CheckpointOf(m, Over(plan.segs, segFiles), Over(plan.idmaps, idmapFiles),
                              Over(plan.deletes, deleteFiles)), t)
  BY <1>12, <1>13, <1>14, <1>18, <1>19 DEF SameState, CheckpointOf
<1>21. m.wal \in DOMAIN plan.wals
  BY <1>2, <1>13 DEF Entry
<1> QED BY <1>13, <1>16, <1>17, <1>20, <1>21 DEF m, t, plan

LEMMA RewriteData ==
  ASSUME TypeInv, DataInv, ~DirSyncMayFail, RewriteDocuments, FilesKept, FilesPresent(current)'
  PROVE  DataInv'
<1> DEFINE schema == current.schema + 1
           plan   == RewritePlan(schema)
<1>1. /\ Writable /\ UNCHANGED <<config, open, poison, comp, iter>> /\ comp.phase = "none"
      /\ current.schema < MaxSchema /\ ImmutablesAcceptable(plan.mem.segs)
      /\ \/ Committed(plan) /\ mem' = plan.mem
         \/ Abandoned(plan) /\ mem' = [mem EXCEPT !.dirty = 0]
  BY DEF RewriteDocuments, RewriteAccepted
<1>2. DiskOK /\ mem \in Managers
  BY DEF TypeInv, MemOK
<1>3. schema \in 1..config.maxSchema
  BY <1>1, <1>2, ConfigIs DEF DiskOK, ManifestOK, Manifests
<1> HIDE DEF schema
<1>4. PlanOK(plan)
  BY <1>3, RewritePlanOK
<1>5. /\ Shape(plan.mem) /\ Sound(plan.manifest.schema, plan.mem)
      /\ plan.manifest.wal \in DOMAIN plan.wals
      /\ SameState(CheckpointOf(plan.manifest, Over(plan.segs, segFiles),
                                Over(plan.idmaps, idmapFiles), Over(plan.deletes, deleteFiles)),
                   plan.mem)
  BY <1>1, <1>3, RewritePlanIs
<1> HIDE DEF plan
<1>6. CASE Committed(plan) /\ mem' = plan.mem
  <2>1. /\ DiskSound' /\ stable' = current'
        /\ SameState(Replay(Capacity', Checkpoint(current)', Wal'.recs, Len(Wal'.recs)), plan.mem)
    BY <1>1, <1>4, <1>5, <1>6, CheckpointPublished
  <2>2. MemorySound'
    BY <1>6, <2>1 DEF MemorySound
  <2>3. CompactionSound'
    BY <1>1, CompactionSoundIdle
  <2> QED BY <2>1, <2>2, <2>3 DEF DataInv
<1>7. CASE Abandoned(plan) /\ mem' = [mem EXCEPT !.dirty = 0]
  <2>1. Writable' => Writable /\ SameState(mem, mem')
    BY <1>1, <1>2, <1>7 DEF Writable, SameState, Managers
  <2> QED BY <1>1, <1>4, <1>7, <2>1, AbandonedData
<1> QED BY <1>1, <1>6, <1>7

-----------------------------------------------------------------------------
(* What a step does to the versions of the collection that a crash may     *)
(* leave.                                                                  *)

\* The state recovery builds from n records, now and after a step.
Version(n) == Replay(Capacity, Checkpoint(current), Wal.recs, n)
NextVersion(n) == Replay(Capacity', Checkpoint(current)', Wal'.recs, n)

\* The same map and the same next document ID.
SameOutcome(r, s) == r.idmap = s.idmap /\ NextDocumentID(r.writing) = NextDocumentID(s.writing)

\* The versions stay.
KeepsLog ==
  /\ Wal'.synced = Wal.synced /\ Len(Wal'.recs) = Len(Wal.recs)
  /\ \A n \in Wal.synced..Len(Wal.recs) : SameOutcome(NextVersion(n), Version(n))

\* Only the last version is left, and it is durable.
SettlesLog ==
  /\ Wal'.synced = Len(Wal'.recs)
  /\ SameOutcome(NextVersion(Len(Wal'.recs)), Version(Len(Wal.recs)))

\* Only one version is left.
CutsLog ==
  \E n \in Wal.synced..Len(Wal.recs) :
    /\ Wal'.synced = n /\ Len(Wal'.recs) = n
    /\ SameOutcome(NextVersion(n), Version(n))

\* A record is added, and the log synchronized or not.
AppendsLog(op) ==
  /\ Len(Wal'.recs) = Len(Wal.recs) + 1
  /\ Wal'.synced \in {Wal.synced, Len(Wal.recs) + 1}
  /\ \A n \in 0..Len(Wal.recs) : NextVersion(n) = Version(n)
  /\ Effect(Version(Len(Wal.recs)), NextVersion(Len(Wal.recs) + 1), op)
  /\ Accepts(Capacity, Version(Len(Wal.recs)), op)

LEMMA LogIs ==
  ASSUME TypeInv
  PROVE  /\ Wal \in Logs /\ Wal.recs \in Seq(Ops) /\ Len(Wal.recs) \in Nat
         /\ Wal.synced \in 0..Len(Wal.recs) /\ current.wal \in DOMAIN walFiles
<1>1. Wal \in Logs /\ LogBounded(config, Wal) /\ current.wal \in DOMAIN walFiles
  BY PartialIs DEF TypeInv, DiskOK, WalFilesOK, Wal
<1> QED BY <1>1 DEF Logs, LogBounded

LEMMA SameLog ==
  ASSUME Capacity' = Capacity, Checkpoint(current)' = Checkpoint(current), Wal'.recs = Wal.recs
  PROVE  /\ \A n : NextVersion(n) = Version(n)
         /\ Wal'.synced = Wal.synced => KeepsLog
         /\ Wal'.synced = Len(Wal.recs) => SettlesLog
<1>1. \A n : NextVersion(n) = Version(n)
  BY DEF NextVersion, Version
<1>2. \A n : SameOutcome(NextVersion(n), Version(n))
  BY <1>1 DEF SameOutcome
<1> HIDE DEF NextVersion, Version
<1> QED BY <1>1, <1>2 DEF KeepsLog, SettlesLog

\* Maintenance that does not publish.
LEMMA UnpublishedLog ==
  ASSUME TypeInv, DataInv, config' = config, SameManifest, FilesKept, FilesPresent(current)',
         walFiles'[current.wal].recs = Wal.recs,
         walFiles'[current.wal].synced = Wal.synced \/ walFiles'[current.wal].synced = Len(Wal.recs)
  PROVE  /\ walFiles'[current.wal].synced = Wal.synced => KeepsLog
         /\ KeepsLog \/ SettlesLog
<1>1. Wal' = walFiles'[current.wal]
  BY DEF Wal, SameManifest
<1>2. Capacity' = Capacity /\ Checkpoint(current)' = Checkpoint(current)
  BY CheckpointKept DEF Capacity, DataInv, DiskSound
<1> QED BY <1>1, <1>2, SameLog

LEMMA LogSyncedOrNot ==
  ASSUME DiskOK, NEW plan, PlanOK(plan)
  PROVE  /\ Over(plan.wals, LogsAfter(plan))[current.wal] = LogsAfter(plan)[current.wal]
         /\ LogsAfter(plan)[current.wal].synced = (IF plan.syncs THEN Len(Wal.recs) ELSE Wal.synced)
<1>1. plan.syncs \in BOOLEAN /\ DOMAIN plan.wals \cap DOMAIN walFiles = {} /\ current.wal \in DOMAIN walFiles
  BY DEF PlanOK, DiskOK
<1>2. LogsAfter(plan)[current.wal].synced = (IF plan.syncs THEN Len(Wal.recs) ELSE Wal.synced)
  BY <1>1, WalSyncedIs DEF LogsAfter, Wal
<1>3. DOMAIN LogsAfter(plan) = DOMAIN walFiles
  BY <1>1, LogsAfterIs
<1>4. Over(plan.wals, LogsAfter(plan))[current.wal] = LogsAfter(plan)[current.wal]
  <2>1. current.wal \in DOMAIN LogsAfter(plan) /\ current.wal \notin DOMAIN plan.wals
    BY <1>1, <1>3
  <2> QED BY <2>1 DEF Over
<1> QED BY <1>2, <1>4

LEMMA AbandonedLog ==
  ASSUME TypeInv, DataInv, NEW plan, PlanOK(plan), Abandoned(plan), config' = config
  PROVE  KeepsLog \/ SettlesLog
<1>1. DiskOK /\ FilesPresent(current)
  BY DEF TypeInv, DataInv, DiskSound
<1>2. /\ FilesKept /\ current' = current /\ FilesPresent(current)'
  BY <1>1, AbandonedOK
<1>3. walFiles' = Over(plan.wals, LogsAfter(plan)) \/ walFiles' = LogsAfter(plan)
  BY DEF Abandoned, LogsAfter
<1>4. walFiles'[current.wal].recs = Wal.recs
  BY <1>1, <1>3, LogKept
<1>5. walFiles'[current.wal].synced = Wal.synced \/ walFiles'[current.wal].synced = Len(Wal.recs)
  BY <1>1, <1>3, LogSyncedOrNot
<1>6. SameManifest
  BY <1>2 DEF SameManifest
<1> QED BY <1>2, <1>4, <1>5, <1>6, UnpublishedLog

-----------------------------------------------------------------------------
(* Committing a compaction.                                                *)

\* The union of some of the segments of a manager.
LEMMA InputsUnion ==
  ASSUME NEW segs \in SegmentMaps, \A i \in DOMAIN segs : IsFiniteSet(DOMAIN segs[i]), ImmutablesAcceptable(segs),
         NEW ins \in SegmentMaps, DOMAIN ins \subseteq DOMAIN segs, \A i \in DOMAIN ins : segs[i] = ins[i]
  PROVE  /\ \A d : d \in DOMAIN Merged(Range(ins)) <=> \E i \in DOMAIN ins : d \in DOMAIN segs[i]
         /\ \A i \in DOMAIN ins : \A d \in DOMAIN segs[i] : Merged(Range(ins))[d] = segs[i][d]
<1> DEFINE fs == Range(ins)
           docs == Merged(fs)
<1>1. \A f : f \in fs <=> \E i \in DOMAIN ins : f = ins[i]
  BY SegmentMembers
<1>2. /\ DOMAIN docs = UNION {DOMAIN f : f \in fs}
      /\ \A d \in DOMAIN docs : \E f \in fs : d \in DOMAIN f /\ docs[d] = f[d]
  BY MergedIs
<1> HIDE DEF fs
<1>3. \A d : d \in DOMAIN docs <=> \E f \in fs : d \in DOMAIN f
  BY <1>2
<1> HIDE DEF docs
<1>4. \A d : d \in DOMAIN docs <=> \E i \in DOMAIN ins : d \in DOMAIN segs[i]
  BY <1>1, <1>3
<1>5. ASSUME NEW i \in DOMAIN ins, NEW d \in DOMAIN segs[i] PROVE docs[d] = segs[i][d]
  <2>1. PICK f \in fs : d \in DOMAIN f /\ docs[d] = f[d]
    BY <1>2, <1>4
  <2>2. PICK j \in DOMAIN ins : f = ins[j]
    BY <1>1
  <2>3. i \in DOMAIN segs /\ j \in DOMAIN segs /\ d \in DOMAIN segs[j]
    BY <2>1, <2>2
  <2>4. i = j
    BY <2>3, SegmentsApart
  <2> QED BY <2>1, <2>2, <2>4
<1> QED BY <1>4, <1>5 DEF docs, fs

\* docs is the contents of the segments in ins.
ContentsOf(docs, segs, ins) ==
  /\ ins \subseteq DOMAIN segs
  /\ \A d : d \in DOMAIN docs <=> \E i \in ins : d \in DOMAIN segs[i]
  /\ \A i \in ins : \A d \in DOMAIN segs[i] : docs[d] = segs[i][d]

\* The segments in outs hold what of docs is not captured.
LeftOf(docs, captured, outs) ==
  /\ \A d : (\E j \in DOMAIN outs : d \in DOMAIN outs[j]) <=> d \in DOMAIN docs /\ d \notin captured
  /\ \A j \in DOMAIN outs : \A d \in DOMAIN outs[j] : outs[j][d] = docs[d]

\* Replacing the inputs by what is left of their documents.
LEMMA ReplacedCompacts ==
  ASSUME NEW segs \in SegmentMaps, \A i \in DOMAIN segs : IsFiniteSet(DOMAIN segs[i]), ImmutablesAcceptable(segs),
         NEW ins, NEW docs, NEW captured, NEW outs,
         ContentsOf(docs, segs, ins), LeftOf(docs, captured, outs),
         \A j \in DOMAIN outs : j \in DOMAIN segs => j \in ins,
         NEW s, s.segs = segs, NEW t, t.segs = Over(outs, Without(segs, ins)),
         NEW purged, \A d : d \in purged <=> d \in DOMAIN docs /\ d \in captured
  PROVE  Compacts(s, t, purged)
<1>0. /\ ins \subseteq DOMAIN segs
      /\ \A d : d \in DOMAIN docs <=> \E i \in ins : d \in DOMAIN segs[i]
      /\ \A i \in ins : \A d \in DOMAIN segs[i] : docs[d] = segs[i][d]
      /\ \A d : (\E j \in DOMAIN outs : d \in DOMAIN outs[j]) <=> d \in DOMAIN docs /\ d \notin captured
      /\ \A j \in DOMAIN outs : \A d \in DOMAIN outs[j] : outs[j][d] = docs[d]
  BY DEF ContentsOf, LeftOf
<1> DEFINE new == Over(outs, Without(segs, ins))
<1>1. /\ \A j : j \in DOMAIN new <=> j \in DOMAIN outs \/ (j \in DOMAIN segs /\ j \notin ins)
      /\ \A j \in DOMAIN outs : new[j] = outs[j]
      /\ \A j \in DOMAIN segs : j \notin ins => new[j] = segs[j]
  <2> DEFINE K == DOMAIN segs \ ins
             kept == Restrict(segs, K)
  <2>1. new = Over(outs, kept)
    BY DEF Without
  <2>2. DOMAIN kept = K /\ \A x \in K : kept[x] = segs[x]
    BY RestrictIs
  <2> HIDE DEF kept
  <2> QED BY <2>1, <2>2 DEF Over
<1> HIDE DEF new
<1>2. ASSUME NEW i \in DOMAIN segs, NEW j \in DOMAIN segs, NEW d, d \in DOMAIN segs[i], d \in DOMAIN segs[j]
      PROVE  i = j
  BY <1>2, SegmentsApart
<1>3. \A d \in purged : \E i \in DOMAIN segs : d \in DOMAIN segs[i]
  BY <1>0
<1>4. \A d : (\E j \in DOMAIN new : d \in DOMAIN new[j]) <=> (\E i \in DOMAIN segs : d \in DOMAIN segs[i]) /\ d \notin purged
  <2> SUFFICES ASSUME NEW d
               PROVE  (\E j \in DOMAIN new : d \in DOMAIN new[j]) <=> (\E i \in DOMAIN segs : d \in DOMAIN segs[i]) /\ d \notin purged
    OBVIOUS
  <2>1. ASSUME NEW j \in DOMAIN new, d \in DOMAIN new[j]
        PROVE  (\E i \in DOMAIN segs : d \in DOMAIN segs[i]) /\ d \notin purged
    <3>1. CASE j \in DOMAIN outs
      BY <1>0, <1>1, <2>1, <3>1
    <3>2. CASE j \in DOMAIN segs /\ j \notin ins
      BY <1>0, <1>1, <1>2, <2>1, <3>2
    <3> QED BY <1>1, <3>1, <3>2
  <2>2. ASSUME NEW i \in DOMAIN segs, d \in DOMAIN segs[i], d \notin purged
        PROVE  \E j \in DOMAIN new : d \in DOMAIN new[j]
    <3>1. CASE i \in ins
      <4>1. \E j \in DOMAIN outs : d \in DOMAIN outs[j]
        BY <1>0, <2>2, <3>1
      <4> QED BY <1>1, <4>1
    <3>2. CASE i \notin ins
      BY <1>1, <2>2, <3>2
    <3> QED BY <3>1, <3>2
  <2> QED BY <2>1, <2>2
<1>5. ASSUME NEW i \in DOMAIN segs, NEW j \in DOMAIN new, NEW d \in DOMAIN segs[i], d \in DOMAIN new[j]
      PROVE  new[j][d] = segs[i][d]
  <2>1. CASE j \in DOMAIN outs
    <3>1. d \in DOMAIN outs[j] /\ new[j][d] = docs[d] /\ d \in DOMAIN docs
      BY <1>0, <1>1, <1>5, <2>1
    <3>2. PICK k \in ins : d \in DOMAIN segs[k]
      BY <1>0, <3>1
    <3>3. k = i
      BY <1>0, <1>2, <3>2
    <3> QED BY <1>0, <3>1, <3>2, <3>3
  <2>2. CASE j \in DOMAIN segs /\ j \notin ins
    BY <1>1, <1>2, <1>5, <2>2
  <2> QED BY <1>1, <2>1, <2>2
<1> QED BY <1>3, <1>4, <1>5 DEF Compacts, Sealed, new

\* The segments a prepared compaction hands over.
LEMMA OutputsAre ==
  ASSUME TypeInv, DataInv, Writable, Prepared,
         DOMAIN comp.inputs \subseteq DOMAIN mem.segs, \A id \in DOMAIN comp.inputs : mem.segs[id] = comp.inputs[id],
         {p[1] : p \in comp.outputs} \cap (DOMAIN mem.segs \ DOMAIN comp.inputs) = {},
         \A p, q \in comp.outputs : p[1] = q[1] => p = q,
         NEW s, s.segs = mem.segs,
         NEW t, t.segs = Over(Opened(comp.outputs, segFiles), Without(mem.segs, DOMAIN comp.inputs))
  PROVE  Compacts(s, t, comp.purged)
<1> DEFINE outs == Opened(comp.outputs, segFiles)
           docs == InputDocuments
           ins  == DOMAIN comp.inputs
           ids  == DOMAIN InputDocuments \ comp.captured
           made == OutputSegments
<1>1. /\ comp.phase = "writing" /\ comp.inputs \in SegmentMaps /\ comp.first \in Nat /\ comp.runs = OutputRuns
      /\ {p[1] : p \in comp.outputs} = DOMAIN OutputSegments
  BY DEF Prepared, TypeInv, CompOK, Compactions
<1>2. /\ mem.segs \in SegmentMaps /\ \A i \in DOMAIN mem.segs : IsFiniteSet(DOMAIN mem.segs[i])
      /\ ImmutablesAcceptable(mem.segs)
  BY MemoryIs DEF Typed, Shape
<1>3. /\ \A d : d \in DOMAIN docs <=> \E i \in ins : d \in DOMAIN mem.segs[i]
      /\ \A i \in ins : \A d \in DOMAIN mem.segs[i] : docs[d] = mem.segs[i][d]
  BY <1>1, <1>2, InputsUnion DEF InputDocuments
<1>4. docs \in Documents /\ ids \in SUBSET DOMAIN docs /\ IsFiniteSet(ids)
  BY InputsAre
<1>5. /\ \A d : (\E j \in DOMAIN made : d \in DOMAIN made[j]) <=> d \in ids
      /\ \A j \in DOMAIN made : \A d \in DOMAIN made[j] : made[j][d] = docs[d]
  <2>1. made = SegmentsOf(DocumentRuns(ids), docs, comp.first)
    BY <1>1 DEF OutputSegments, OutputRuns
  <2> HIDE DEF made, docs, ids
  <2> QED BY <1>1, <1>4, <2>1, SegmentsHold
<1>6. comp.purged = Purged /\ \A p \in comp.outputs : segFiles[p] = made[p[1]]
  BY <1>1 DEF DataInv, CompactionSound
<1>7. \A d : d \in comp.purged <=> d \in DOMAIN docs /\ d \in comp.captured
  BY <1>6 DEF Purged
<1>8. /\ \A j : j \in DOMAIN outs <=> \E p \in comp.outputs : p[1] = j
      /\ \A p \in comp.outputs : outs[p[1]] = segFiles[p]
  BY OpenedIs
<1> HIDE DEF outs, docs, made, ins
<1>9. \A j : j \in DOMAIN made <=> \E p \in comp.outputs : p[1] = j
  BY <1>1 DEF made
<1>10. \A j : j \in DOMAIN outs <=> j \in DOMAIN made
  BY <1>8, <1>9
<1>11. \A j \in DOMAIN outs : outs[j] = made[j]
  BY <1>6, <1>8
<1>12. /\ \A d : (\E j \in DOMAIN outs : d \in DOMAIN outs[j]) <=> d \in DOMAIN docs /\ d \notin comp.captured
       /\ \A j \in DOMAIN outs : \A d \in DOMAIN outs[j] : outs[j][d] = docs[d]
  BY <1>5, <1>10, <1>11 DEF docs
<1>13. \A j \in DOMAIN outs : j \in DOMAIN mem.segs => j \in ins
  BY <1>8 DEF ins
<1>14. ins \subseteq DOMAIN mem.segs /\ t.segs = Over(outs, Without(mem.segs, ins))
  BY DEF outs, ins
<1> DEFINE f == mem.segs
           g == comp.captured
           h == comp.purged
<1>15. /\ f \in SegmentMaps /\ \A i \in DOMAIN f : IsFiniteSet(DOMAIN f[i])
       /\ ImmutablesAcceptable(f) /\ \A j \in DOMAIN outs : j \in DOMAIN f => j \in ins
  BY <1>2, <1>13
<1>16. ContentsOf(docs, f, ins)
  BY <1>3, <1>14 DEF ContentsOf
<1>17. LeftOf(docs, g, outs)
  BY <1>12 DEF LeftOf
<1>18. s.segs = f /\ t.segs = Over(outs, Without(f, ins)) /\ \A d : d \in h <=> d \in DOMAIN docs /\ d \in g
  BY <1>7, <1>14
<1> HIDE DEF f, g, h, ids
<1>19. Compacts(s, t, h)
  BY <1>15, <1>16, <1>17, <1>18, ReplacedCompacts
<1> QED BY <1>19 DEF h

LEMMA CommitPlanIs ==
  ASSUME TypeInv, DataInv, Writable, Prepared, CommitAccepted
  PROVE  LET m == CommitPlan.manifest
             t == CheckpointOf(m, segFiles, idmapFiles, Over(CommitPlan.deletes, deleteFiles))
         IN  /\ Shape(t) /\ PurgedFrom(Checkpoint(current), t, comp.purged)
             /\ t.segs = CommitPlan.mem.segs /\ CommitPlan.mem.writing = mem.writing
             /\ CommitPlan.mem.idmap = mem.idmap /\ CommitPlan.mem.deletes = mem.deletes \ comp.purged
             /\ m.wal = current.wal /\ m.schema = current.schema
             /\ CommitPlan.segs = EmptyMap /\ CommitPlan.idmaps = EmptyMap
<1> DEFINE m      == CommitPlan.manifest
           t      == CheckpointOf(m, segFiles, idmapFiles, Over(CommitPlan.deletes, deleteFiles))
           n      == CommitPlan.mem
           ins    == DOMAIN comp.inputs
           old    == {p \in current.segs : p[1] \notin ins}
           names  == old \cup comp.outputs
           kept   == Without(mem.segs, ins)
           number == IF comp.purged = {} THEN current.deletes ELSE DeleteNumber
           snaps  == IF comp.purged = {} THEN EmptyMap ELSE Entry(DeleteNumber, CheckpointDeletes)
           s      == Checkpoint(current)
<1>1. /\ ins \subseteq DOMAIN mem.segs /\ \A id \in ins : mem.segs[id] = comp.inputs[id]
      /\ {p[1] : p \in comp.outputs} \cap (DOMAIN mem.segs \ ins) = {}
      /\ ImmutablesAcceptable(n.segs) /\ WritingAcceptable(n.segs, mem.writing)
      /\ ValidManifest(m)
  BY DEF CommitAccepted
<1>2. /\ m = [current EXCEPT !.segs = names, !.deletes = number, !.next = NextSegmentID]
      /\ CommitPlan.segs = EmptyMap /\ CommitPlan.idmaps = EmptyMap /\ CommitPlan.deletes = snaps
      /\ n = [mem EXCEPT !.segs = Over(Opened(comp.outputs, segFiles), kept), !.deletes = MemoryDeletes, !.dirty = 0]
  BY DEF CommitPlan, Opened
<1>3. /\ current \in Manifests /\ mem \in Managers /\ FilesPresent(current) /\ ValidManifest(current)
  BY DEF TypeInv, DiskOK, ManifestOK, MemOK, DataInv, DiskSound
<1>4. /\ Typed(mem) /\ Shape(mem) /\ mem.segs = Opened(current.segs, segFiles)
      /\ mem.writing.id = current.wal[1] /\ mem.writing.min = current.start
  BY MemoryIs
<1>5. /\ s.segs = Opened(current.segs, segFiles) /\ s.writing = NewWriteSegment(current.wal[1], current.start)
      /\ s.idmap = idmapFiles[current.idmap] /\ s.deletes = deleteFiles[current.deletes]
  BY CheckpointNow DEF CheckpointOf
<1> HIDE DEF ins, names, kept, number, snaps, s
<1>6. /\ m.segs = names /\ m.wal = current.wal /\ m.start = current.start /\ m.idmap = current.idmap
      /\ m.deletes = number /\ m.schema = current.schema
  BY <1>2, <1>3 DEF Manifests
<1>7. /\ n.segs = Over(Opened(comp.outputs, segFiles), kept) /\ n.writing = mem.writing
      /\ n.idmap = mem.idmap /\ n.deletes = MemoryDeletes
  <2> DEFINE O == Over(Opened(comp.outputs, segFiles), kept)
             D == MemoryDeletes
  <2>1. n = [mem EXCEPT !.segs = O, !.deletes = D, !.dirty = 0]
    BY <1>2
  <2> HIDE DEF O, D, n
  <2>2. n.segs = O /\ n.writing = mem.writing /\ n.idmap = mem.idmap /\ n.deletes = D
    BY <1>3, <2>1 DEF Managers
  <2> QED BY <2>2 DEF O, D
<1> HIDE DEF n
<1>8. \A p, q \in names : p[1] = q[1] => p = q
  BY <1>1, <1>6 DEF ValidManifest
<1>9. Opened(old, segFiles) = kept
  <2> DEFINE K == DOMAIN mem.segs \ ins
  <2>1. kept = Restrict(mem.segs, K)
    BY DEF kept, Without
  <2>2. DOMAIN kept = K /\ (\A x \in K : kept[x] = mem.segs[x]) /\ kept = [x \in K |-> mem.segs[x]]
    BY <2>1, RestrictIs DEF Restrict
  <2>3. \A p, q \in current.segs : p[1] = q[1] => p = q
    BY <1>3 DEF ValidManifest
  <2>4. /\ \A i : i \in DOMAIN mem.segs <=> \E p \in current.segs : p[1] = i
        /\ \A p \in current.segs : mem.segs[p[1]] = segFiles[p]
    BY <1>4, <2>3, OpenedIs
  <2>5. \A i : i \in DOMAIN kept <=> \E p \in old : p[1] = i
    BY <2>2, <2>4
  <2>6. \A p \in old : segFiles[p] = kept[p[1]]
    BY <2>2, <2>4
  <2>7. kept = [i \in DOMAIN kept |-> kept[i]]
    BY <2>2
  <2>8. \A p, q \in old : p[1] = q[1] => p = q
    BY <2>3
  <2> HIDE DEF old
  <2> QED BY <2>5, <2>6, <2>7, <2>8, OpenedFiles
<1>10. Opened(names, segFiles) = n.segs
  <2> HIDE DEF old
  <2>1. Opened(old \cup comp.outputs, segFiles) = Over(Opened(comp.outputs, segFiles), Opened(old, segFiles))
    BY <1>8, OpenedUnion DEF names
  <2> QED BY <1>7, <1>9, <2>1 DEF names
<1>11. /\ t.segs = n.segs /\ t.writing = s.writing /\ t.idmap = s.idmap
       /\ t.deletes = Over(snaps, deleteFiles)[number]
  BY <1>2, <1>5, <1>6, <1>10 DEF CheckpointOf
<1>12. t.deletes = s.deletes \ comp.purged
  <2>1. CASE comp.purged = {}
    <3>1. Over(snaps, deleteFiles)[number] = deleteFiles[current.deletes]
      BY <1>3, <2>1, EmptyMapIs DEF snaps, number, Over, FilesPresent
    <3> QED BY <1>5, <1>11, <2>1, <3>1
  <2>2. CASE comp.purged # {}
    <3>1. Over(snaps, deleteFiles)[number] = CheckpointDeletes
      BY <2>2 DEF snaps, number, Over, Entry
    <3> QED BY <1>5, <1>11, <3>1 DEF CheckpointDeletes
  <2> QED BY <2>1, <2>2
<1> HIDE DEF t, m
<1>13. Compacts(s, t, comp.purged)
  <2>1. \A p, q \in comp.outputs : p[1] = q[1] => p = q
    BY <1>8 DEF names
  <2>2. s.segs = mem.segs
    BY <1>4, <1>5
  <2>3. t.segs = Over(Opened(comp.outputs, segFiles), Without(mem.segs, DOMAIN comp.inputs))
    BY <1>7, <1>11 DEF kept, ins
  <2> QED BY <1>1, <2>1, <2>2, <2>3, OutputsAre DEF ins
<1>14. comp.purged \subseteq s.deletes
  BY <1>5 DEF DataInv, CompactionSound, Purged, Prepared
<1>15. PurgedFrom(s, t, comp.purged)
  BY <1>11, <1>12, <1>13, <1>14 DEF PurgedFrom
<1>16. Shape(t)
  <2>1. s.segs = mem.segs /\ t.writing.min = mem.writing.min /\ t.writing.id = mem.writing.id
    BY <1>4, <1>5, <1>11 DEF NewWriteSegment
  <2>2. \A i \in DOMAIN mem.segs : \A d \in DOMAIN mem.segs[i] : d < mem.writing.min
    BY <1>4 DEF Shape
  <2>3. ASSUME NEW i \in DOMAIN t.segs, NEW d \in DOMAIN t.segs[i] PROVE d < t.writing.min
    <3>1. Sealed(s, d)
      BY <1>13 DEF Compacts, Sealed
    <3> QED BY <2>1, <2>2, <3>1 DEF Sealed
  <2>4. mem.writing.id \notin DOMAIN n.segs
    BY <1>1 DEF WritingAcceptable, n
  <2>5. ImmutablesAcceptable(t.segs)
    BY <1>1, <1>11 DEF n
  <2> QED BY <1>11, <2>1, <2>3, <2>4, <2>5 DEF Shape
<1>17. n.deletes = mem.deletes \ comp.purged
  BY <1>7 DEF MemoryDeletes
<1> QED BY <1>2, <1>6, <1>7, <1>11, <1>15, <1>16, <1>17 DEF m, n, s, t

LEMMA CommitData ==
  ASSUME TypeInv, DataInv, ~DirSyncMayFail, Commit, TypeInv', FilesKept, FilesPresent(current)'
  PROVE  DataInv' /\ (KeepsLog \/ SettlesLog)
<1>1. /\ Prepared /\ Writable /\ CommitAccepted /\ UNCHANGED <<config, open, poison, iter>>
      /\ \/ Committed(CommitPlan) /\ mem' = CommitPlan.mem /\ comp' = [comp EXCEPT !.phase = "committed"]
         \/ /\ \E synced \in BOOLEAN :
                 /\ Abandoned([CommitPlan EXCEPT !.syncs = synced])
                 /\ mem' = IF synced THEN [mem EXCEPT !.dirty = 0] ELSE mem
            /\ comp' = comp
  BY DEF Commit
<1>2. /\ PlanOK(CommitPlan) /\ \A synced \in BOOLEAN : PlanOK([CommitPlan EXCEPT !.syncs = synced])
  BY <1>1, CommitPlanOK DEF Writable
<1>3. /\ DiskOK /\ mem \in Managers /\ FilesPresent(current) /\ comp \in Compactions
      /\ Shape(Checkpoint(current)) /\ Valid(Capacity, current.schema, Checkpoint(current), Wal.recs)
      /\ SameState(Replay(Capacity, Checkpoint(current), Wal.recs, Len(Wal.recs)), mem)
  BY <1>1 DEF DataInv, DiskSound, MemorySound, TypeInv, MemOK, CompOK
<1>4. CASE Committed(CommitPlan) /\ mem' = CommitPlan.mem /\ comp' = [comp EXCEPT !.phase = "committed"]
  <2> DEFINE m == CommitPlan.manifest
             t == CheckpointOf(m, segFiles, idmapFiles, Over(CommitPlan.deletes, deleteFiles))
             s == Checkpoint(current)
  <2>1. /\ Shape(t) /\ PurgedFrom(s, t, comp.purged)
        /\ t.segs = CommitPlan.mem.segs /\ CommitPlan.mem.writing = mem.writing
        /\ CommitPlan.mem.idmap = mem.idmap /\ CommitPlan.mem.deletes = mem.deletes \ comp.purged
        /\ m.wal = current.wal /\ m.schema = current.schema
        /\ CommitPlan.segs = EmptyMap /\ CommitPlan.idmaps = EmptyMap
    BY <1>1, CommitPlanIs
  <2>2. /\ current' = [m EXCEPT !.gen = lastGen + 1] /\ stable' = current' /\ ValidManifest(m)
        /\ segFiles' = Over(CommitPlan.segs, segFiles) /\ idmapFiles' = Over(CommitPlan.idmaps, idmapFiles)
        /\ deleteFiles' = Over(CommitPlan.deletes, deleteFiles)
        /\ walFiles' = Over(CommitPlan.wals, LogsAfter(CommitPlan))
    BY <1>4 DEF Committed, LogsAfter
  <2>3. m \in Manifests
    BY <1>2 DEF PlanOK
  <2>4. /\ current'.segs = m.segs /\ current'.wal = m.wal /\ current'.start = m.start /\ current'.idmap = m.idmap
        /\ current'.deletes = m.deletes /\ current'.schema = m.schema /\ current'.next = m.next
    <3> HIDE DEF m
    <3> QED BY <2>2, <2>3 DEF Manifests
  <2>5. segFiles' = segFiles /\ idmapFiles' = idmapFiles
    <3>1. segFiles = [x \in DOMAIN segFiles |-> segFiles[x]] /\ idmapFiles = [x \in DOMAIN idmapFiles |-> idmapFiles[x]]
      BY <1>3, PartialIs DEF DiskOK, SegFilesOK, IDMapFilesOK
    <3> QED BY <2>1, <2>2, <3>1, EmptyMapIs DEF Over
  <2>6. Checkpoint(current)' = t
    BY <2>2, <2>4, <2>5, CheckpointNext DEF CheckpointOf
  <2>7. Wal'.recs = Wal.recs /\ Capacity' = Capacity
    BY <1>1, <1>2, <1>3, <2>1, <2>2, <2>4, LogKept DEF Wal, Capacity
  <2>8. ReplayTyped(config, s, Wal.recs)
    BY <1>3, CheckpointTyped DEF Present, ReplayReady
  <2>9. ReplayTyped(config', Checkpoint(current)', Wal'.recs) /\ Checkpoint(current)'.ok
    BY CheckpointTypedNext DEF Present, ReplayReady
  <2>10. ReplayTyped(config, t, Wal.recs) /\ t.ok
    BY <1>1, <2>6, <2>7, <2>9
  <2>11. ValidManifest(current)'
    BY <2>2, <2>4 DEF ValidManifest
  <2> HIDE DEF s, t, m
  <2> DEFINE R(n) == Replay(Capacity, s, Wal.recs, n)
             Q(n) == Replay(Capacity, t, Wal.recs, n)
  <2>12. /\ Valid(Capacity, current.schema, t, Wal.recs)
         /\ \A n \in 0..Len(Wal.recs) : PurgedFrom(R(n), Q(n), comp.purged)
    BY <1>3, <2>1, <2>8, <2>10, ValidPurged DEF s
  <2>13. \A n \in 0..Len(Wal.recs) : Extends(t, Q(n))
    BY <2>10, ReplayExtends
  <2>14. Len(Wal.recs) \in 0..Len(Wal.recs)
    BY <2>10 DEF ReplayTyped
  <2> DEFINE r == R(Len(Wal.recs))
             q == Q(Len(Wal.recs))
  <2>15. PurgedFrom(r, q, comp.purged) /\ Extends(t, q) /\ SameState(r, mem)
    BY <1>3, <2>12, <2>13, <2>14 DEF s
  <2>16. q = Replay(Capacity', Checkpoint(current)', Wal'.recs, Len(Wal'.recs))
    BY <2>6, <2>7
  <2> HIDE DEF r, q
  <2>17. SameState(q, mem')
    BY <1>4, <2>1, <2>15 DEF PurgedFrom, Extends, SameState
  <2>18. DiskSound'
    BY <2>1, <2>4, <2>6, <2>7, <2>11, <2>12 DEF DiskSound
  <2>19. MemorySound'
    BY <2>16, <2>17 DEF MemorySound
  <2>20. CompactionSound'
    BY <1>3, <1>4, CompactionSoundIdle DEF Compactions
  <2>21. SettlesLog
    <3>1. CommitPlan.syncs = TRUE
      BY DEF CommitPlan
    <3>2. Wal'.synced = Len(Wal'.recs)
      BY <1>2, <1>3, <2>1, <2>2, <2>4, <2>7, <3>1, LogSyncedOrNot DEF Wal
    <3>3. q = NextVersion(Len(Wal'.recs)) /\ r = Version(Len(Wal.recs))
      BY <2>16 DEF NextVersion, Version, r, s
    <3>4. SameOutcome(q, r)
      BY <2>15 DEF PurgedFrom, SameOutcome
    <3> QED BY <3>2, <3>3, <3>4 DEF SettlesLog
  <2> QED BY <2>2, <2>18, <2>19, <2>20, <2>21 DEF DataInv
<1>5. CASE /\ \E synced \in BOOLEAN : /\ Abandoned([CommitPlan EXCEPT !.syncs = synced])
                                      /\ mem' = IF synced THEN [mem EXCEPT !.dirty = 0] ELSE mem
           /\ comp' = comp
  <2>1. PICK synced \in BOOLEAN : /\ Abandoned([CommitPlan EXCEPT !.syncs = synced])
                                  /\ mem' = IF synced THEN [mem EXCEPT !.dirty = 0] ELSE mem
    BY <1>5
  <2> DEFINE plan == [CommitPlan EXCEPT !.syncs = synced]
  <2>2. PlanOK(plan) /\ Abandoned(plan)
    BY <1>2, <2>1
  <2> HIDE DEF plan
  <2>3. Writable' => Writable /\ SameState(mem, mem')
    BY <1>1, <1>3, <2>1 DEF Writable, SameState, Managers
  <2> QED BY <1>1, <1>5, <2>2, <2>3, AbandonedData, AbandonedLog
<1> QED BY <1>1, <1>4, <1>5

-----------------------------------------------------------------------------
(* The invariant and what it says of recovery.                             *)

LEMMA InitData ==
  ASSUME Init
  PROVE  DataInv
<1>1. TypeInv
  BY InitInv
<1>2. /\ stable = current /\ current.segs = {} /\ current.wal = <<0, 1>> /\ current.start = 0 /\ current.idmap = 1
      /\ current.deletes = 1 /\ current.next = 1 /\ current.schema = 1
      /\ segFiles = EmptyMap /\ idmapFiles = Entry(1, EmptyMap) /\ deleteFiles = Entry(1, {})
      /\ walFiles = Entry(<<0, 1>>, NewWal) /\ open = TRUE /\ poison = {} /\ mem = NoManager /\ comp = NoComp
  BY DEF Init
<1>3. FilesPresent(current)
  BY <1>1, <1>2 DEF TypeInv, HandleOK
<1>4. ValidManifest(current)
  BY <1>2 DEF ValidManifest
<1>5. Wal.recs = <<>>
  BY <1>2 DEF Wal, Entry, NewWal
<1> DEFINE c == Checkpoint(current)
<1>6. ReplayTyped(config, c, <<>>) /\ c.ok
  BY <1>1, <1>3, <1>5, CheckpointTyped DEF Present, ReplayReady
<1>7. /\ c.segs = Opened({}, EmptyMap) /\ c.writing = NewWriteSegment(0, 0) /\ c.idmap = EmptyMap /\ c.deletes = {}
  <2>1. idmapFiles[1] = EmptyMap /\ deleteFiles[1] = {}
    BY <1>2 DEF Entry
  <2> QED BY <1>2, <2>1, CheckpointNow DEF CheckpointOf
<1>8. DOMAIN Opened({}, EmptyMap) = {} /\ Opened({}, EmptyMap) = EmptyMap
  <2>1. DOMAIN Opened({}, EmptyMap) = {}
    BY DEF Opened
  <2>2. Opened({}, EmptyMap) = [x \in DOMAIN Opened({}, EmptyMap) |-> Opened({}, EmptyMap)[x]]
    BY DEF Opened
  <2>3. EmptyMap = [x \in DOMAIN EmptyMap |-> EmptyMap[x]] /\ DOMAIN EmptyMap = {}
    BY EmptyMapIs
  <2> QED BY <2>1, <2>2, <2>3
<1> HIDE DEF c
<1>9. c.segs = EmptyMap /\ DOMAIN EmptyMap = {} /\ c.writing.docs = EmptyMap
  BY <1>7, <1>8 DEF NewWriteSegment
<1>10. Shape(c)
  BY <1>9 DEF Shape, ImmutablesAcceptable
<1>11. Typed(c)
  BY <1>6, BoundedTyped DEF ReplayTyped
<1>12. Sound(1, c)
  <2>1. \A d : d \notin DOMAIN Retained(c)
    BY <1>9, <1>10, <1>11, RetainedIs
  <2> QED BY <1>7, <1>9, <2>1 DEF Sound, Exact, LiveIDs
<1>13. Valid(Capacity, 1, c, <<>>) /\ Replay(Capacity, c, <<>>, Len(<<>>)) = c
  BY <1>6, <1>12, ValidEmpty
<1>14. DiskSound
  BY <1>2, <1>3, <1>4, <1>5, <1>10, <1>13 DEF DiskSound, c
<1>15. SameState(c, mem)
  BY <1>2, <1>7, <1>9 DEF SameState, NoManager, Manager
<1>16. MemorySound
  BY <1>5, <1>13, <1>15 DEF MemorySound, c
<1>17. CompactionSound
  BY <1>2, NoCompIs DEF CompactionSound
<1> QED BY <1>2, <1>14, <1>16, <1>17 DEF DataInv

LEMMA ConfigKept ==
  ASSUME [Next]_vars
  PROVE  config' = config
BY DEF Next, vars, Insert, Upsert, Update, Delete, LogAndApply, WalFails, Flush, RewriteDocuments, PublishMetadata,
       BeginCompaction, PrepareReserve, PrepareOutput, Commit, CompactionClose, PruneObsoleteArtifacts,
       CreateIterator, CloseIterator, Close, Kill, PowerLoss, OpenCollection

LEMMA StepData ==
  ASSUME TypeInv, DataInv, ~DirSyncMayFail, [Next]_vars
  PROVE  DataInv'
<1>1. TypeInv' /\ FilesKept
  BY StepInv
<1>2. open' => FilesPresent(current)'
  BY <1>1 DEF TypeInv, HandleOK
<1>3. CASE UNCHANGED vars
  <2>1. UNCHANGED <<config, diskVars, open, poison, mem, comp>>
    BY <1>3 DEF vars
  <2> QED BY <2>1, DataKept DEF Writable, SameState
<1>4. ASSUME NEW k \in config.keys, Insert(k) \/ Upsert(k) \/ Update(k) \/ Delete(k) PROVE DataInv'
  <2>1. open'
    BY <1>4 DEF Insert, Upsert, Update, Delete, LogAndApply, Writable
  <2> QED BY <1>1, <1>2, <1>4, <2>1, WritesData
<1>5. CASE WalFails \/ CreateIterator \/ CloseIterator
  BY <1>5, QuietData
<1>6. CASE Flush
  <2>1. open'
    BY <1>6 DEF Flush, Writable
  <2> QED BY <1>1, <1>2, <1>6, <2>1, FlushData
<1>7. CASE RewriteDocuments
  <2>1. open'
    BY <1>7 DEF RewriteDocuments, Writable
  <2> QED BY <1>1, <1>2, <1>7, <2>1, RewriteData
<1>8. CASE PublishMetadata
  <2>1. open'
    BY <1>8 DEF PublishMetadata, Writable
  <2> QED BY <1>1, <1>2, <1>8, <2>1, PublishMetadataData
<1>9. CASE BeginCompaction
  <2>1. open'
    BY <1>9 DEF BeginCompaction, Writable
  <2> QED BY <1>1, <1>2, <1>9, <2>1, BeginCompactionData
<1>10. CASE PrepareReserve
  <2>1. open'
    BY <1>10 DEF PrepareReserve, TypeInv, HandleOK
  <2> QED BY <1>1, <1>2, <1>10, <2>1, PrepareReserveData
<1>11. CASE PrepareOutput
  <2>1. open'
    BY <1>11 DEF PrepareOutput, TypeInv, HandleOK
  <2> QED BY <1>1, <1>2, <1>11, <2>1, PrepareOutputData
<1>12. CASE Commit
  <2>1. open'
    BY <1>12 DEF Commit, Writable
  <2> QED BY <1>1, <1>2, <1>12, <2>1, CommitData
<1>13. CASE CompactionClose
  <2>1. open'
    BY <1>13 DEF CompactionClose, TypeInv, HandleOK
  <2> QED BY <1>1, <1>2, <1>13, <2>1, CompactionCloseData
<1>14. CASE PruneObsoleteArtifacts
  <2>1. open'
    BY <1>14 DEF PruneObsoleteArtifacts, Writable
  <2> QED BY <1>1, <1>2, <1>14, <2>1, PruneData
<1>15. CASE Close
  BY <1>1, <1>15, CloseData
<1>16. CASE Kill
  BY <1>16, KillData
<1>17. CASE PowerLoss
  BY <1>1, <1>17, PowerLossData
<1>18. CASE OpenCollection
  BY <1>18, OpenCollectionData
<1> QED BY <1>3, <1>4, <1>5, <1>6, <1>7, <1>8, <1>9, <1>10, <1>11, <1>12, <1>13, <1>14, <1>15,
           <1>16, <1>17, <1>18 DEF Next

LEMMA DataInvariant == Spec => [](~DirSyncMayFail => DataInv)
<1>1. Init => (~DirSyncMayFail => DataInv)
  BY InitData
<1>2. TypeInv /\ (~DirSyncMayFail => DataInv) /\ [Next]_vars => (~DirSyncMayFail => DataInv)'
  <2> SUFFICES ASSUME TypeInv, ~DirSyncMayFail => DataInv, [Next]_vars, ~DirSyncMayFail'
               PROVE  DataInv'
    OBVIOUS
  <2>1. ~DirSyncMayFail
    BY ConfigKept DEF DirSyncMayFail
  <2> QED BY <2>1, StepData
<1> QED BY <1>1, <1>2, StoreInvariant, PTL DEF Spec

\* Crash recovery is exact (OpenCollection, replayOperations,
\* validateCollectionState): whatever suffix of the unsynchronized records a
\* crash takes, in the middle of any maintenance, every artifact the manifest
\* names exists, every remaining record is accepted, the result passes
\* validation, and a handle that still accepts operations holds in memory
\* exactly what reopening would build.  It needs the synchronization of the
\* directory after the rename of CURRENT to succeed (SaveManifest,
\* syncDirectory); run store_prune shows what happens when it fails.
THEOREM RecoveryIsExact == Spec => [](~DirSyncMayFail => RecoveryExact)
<1>1. TypeInv /\ (~DirSyncMayFail => DataInv) => (~DirSyncMayFail => RecoveryExact)
  BY DataRecovers
<1> QED BY <1>1, StoreInvariant, DataInvariant, PTL

LEMMA DataSchemas ==
  ASSUME TypeInv, DataInv
  PROVE  SchemaMatchesDocuments
<1>1. FilesPresent(current) /\ Valid(Capacity, current.schema, Checkpoint(current), Wal.recs)
  BY DEF DataInv, DiskSound
<1>2. Len(Wal.recs) \in 0..Len(Wal.recs)
  BY <1>1, CheckpointTyped DEF Present, ReplayReady, ReplayTyped
<1>3. Sound(current.schema, Replay(Capacity, Checkpoint(current), Wal.recs, Len(Wal.recs)))
  BY <1>1, <1>2 DEF Valid
<1>4. Recovered(current, Len(Wal.recs)) = Replay(Capacity, Checkpoint(current), Wal.recs, Len(Wal.recs))
  BY RecoveredIsReplay DEF Wal
<1> QED BY <1>3, <1>4 DEF SchemaMatchesDocuments, Sound

\* A schema change and the re-encoding of every document are one atomic step
\* (RewriteDocuments): no crash exposes a document in another schema's
\* encoding, and no record of the log carries the schema of an earlier
\* manifest.
THEOREM SchemasAreAtomic == Spec => [](~DirSyncMayFail => SchemaMatchesDocuments)
<1>1. TypeInv /\ (~DirSyncMayFail => DataInv) => (~DirSyncMayFail => SchemaMatchesDocuments)
  BY DataSchemas
<1> QED BY <1>1, StoreInvariant, DataInvariant, PTL

-----------------------------------------------------------------------------
(* What every step does to the versions.                                   *)

\* A publication with a log of its own.
LEMMA PublishedLog ==
  ASSUME NEW plan, PlanOK(plan), Committed(plan), plan.manifest.wal \in DOMAIN plan.wals
  PROVE  Wal'.synced = Len(Wal'.recs)
<1>1. /\ current' = [plan.manifest EXCEPT !.gen = lastGen + 1] /\ walFiles' = Over(plan.wals, LogsAfter(plan))
  BY DEF Committed, LogsAfter
<1>2. plan.manifest \in Manifests /\ \A p \in DOMAIN plan.wals : plan.wals[p] = NewWal
  BY DEF PlanOK
<1>3. current'.wal = plan.manifest.wal
  BY <1>1, <1>2 DEF Manifests
<1>4. walFiles'[plan.manifest.wal] = NewWal
  BY <1>1, <1>2 DEF Over
<1> QED BY <1>3, <1>4 DEF Wal, NewWal

LEMMA PublishedOutcome ==
  ASSUME TypeInv, DataInv, Writable, ~DirSyncMayFail, NEW plan, PlanOK(plan), Committed(plan), config' = config,
         FilesPresent(current)', plan.manifest.wal \in DOMAIN plan.wals,
         NEW s, Shape(s), Sound(plan.manifest.schema, s), SameOutcome(s, mem),
         SameState(CheckpointOf(plan.manifest, Over(plan.segs, segFiles), Over(plan.idmaps, idmapFiles),
                                Over(plan.deletes, deleteFiles)), s)
  PROVE  SettlesLog
<1>1. SameState(NextVersion(Len(Wal'.recs)), s)
  BY CheckpointPublished DEF NextVersion
<1>2. SameState(Version(Len(Wal.recs)), mem)
  BY DEF DataInv, MemorySound, Version
<1>3. Wal'.synced = Len(Wal'.recs)
  BY PublishedLog
<1> HIDE DEF NextVersion, Version
<1> QED BY <1>1, <1>2, <1>3 DEF SettlesLog, SameState, SameOutcome

LEMMA FlushLog ==
  ASSUME TypeInv, DataInv, ~DirSyncMayFail, Flush, FilesPresent(current)'
  PROVE  KeepsLog \/ SettlesLog
<1>1. Writable /\ config' = config /\ (Committed(FlushPlan) \/ Abandoned(FlushPlan))
  BY DEF Flush
<1>2. DiskOK /\ MemOK(config, mem)
  BY DEF TypeInv
<1>3. PlanOK(FlushPlan)
  BY <1>2, FlushPlanOK DEF DataInv, DiskSound
<1>4. CASE Committed(FlushPlan)
  <2>1. ValidManifest(FlushPlan.manifest)
    BY <1>4 DEF Committed
  <2>2. /\ Shape(FlushPlan.mem) /\ Sound(FlushPlan.manifest.schema, FlushPlan.mem)
        /\ FlushPlan.manifest.wal \in DOMAIN FlushPlan.wals
        /\ SameState(CheckpointOf(FlushPlan.manifest, Over(FlushPlan.segs, segFiles),
                                  Over(FlushPlan.idmaps, idmapFiles), Over(FlushPlan.deletes, deleteFiles)),
                     FlushPlan.mem)
    BY <1>1, <2>1, FlushPlanIs
  <2>3. SameOutcome(FlushPlan.mem, mem)
    <3> DEFINE id == NextSegmentID
               start == NextDocumentID(mem.writing)
               t == FlushPlan.mem
    <3>1. t.idmap = mem.idmap /\ t.writing = NewWriteSegment(id, start)
      BY DEF FlushPlan, Manager
    <3>2. NextSegmentID \in Nat /\ start \in Nat /\ start <= config.maxDocID + 1
      BY <1>2, FreshNames, ManagerFields
    <3> HIDE DEF t, start
    <3>3. NextDocumentID(NewWriteSegment(id, start)) = start
      BY <3>2, NewWriteSegmentIs
    <3> QED BY <3>1, <3>3 DEF SameOutcome, t, start
  <2> QED BY <1>1, <1>3, <1>4, <2>2, <2>3, PublishedOutcome
<1>5. CASE Abandoned(FlushPlan)
  BY <1>1, <1>3, <1>5, AbandonedLog
<1> QED BY <1>1, <1>4, <1>5

\* The IDMap of a rewrite is the one in memory.
LEMMA RewrittenMap ==
  ASSUME TypeInv, DataInv, Writable, NEW schema \in 1..config.maxSchema
  PROVE  KeysOf(Rewritten(schema)) = mem.idmap
<1> DEFINE docs == Rewritten(schema)
           live == LiveIDs(mem)
           base == Retained(mem)
           f    == KeysOf(Rewritten(schema))
           g    == mem.idmap
<1>1. DiskOK /\ MemOK(config, mem)
  BY DEF TypeInv
<1>2. /\ docs \in Documents /\ DocsBounded(config, docs) /\ DOMAIN docs = live
      /\ \A d \in live : docs[d] = [key |-> base[d].key, schema |-> schema]
  BY <1>1, RewrittenIs
<1>3. /\ \A d \in live : base[d].key \in DOMAIN g /\ g[base[d].key] = d
      /\ \A k \in DOMAIN g : g[k] \in live /\ base[g[k]].key = k
  BY MemoryIs DEF Sound, Exact
<1>4. /\ f \in KeyMaps /\ DOMAIN f = {docs[d].key : d \in DOMAIN docs}
      /\ \A k \in DOMAIN f : f[k] \in DOMAIN docs /\ docs[f[k]].key = k
  BY <1>2, KeysOfIs
<1>5. g \in KeyMaps
  BY <1>1, ManagerFields
<1> HIDE DEF docs, live, base, f, g
<1>6. \A d \in live : docs[d].key = base[d].key
  BY <1>2
<1>7. \A k : k \in DOMAIN f <=> \E d \in live : base[d].key = k
  BY <1>2, <1>4, <1>6
<1>8. \A k : k \in DOMAIN f <=> k \in DOMAIN g
  BY <1>3, <1>7
<1>9. \A k \in DOMAIN f : f[k] = g[k]
  BY <1>2, <1>3, <1>4, <1>6, <1>8
<1>10. f = [k \in DOMAIN f |-> f[k]] /\ g = [k \in DOMAIN g |-> g[k]]
  BY <1>4, <1>5, PartialIs DEF KeyMaps
<1>11. DOMAIN f = DOMAIN g
  BY <1>8
<1>12. f = g
  BY <1>9, <1>10, <1>11
<1> QED BY <1>12 DEF f, g

LEMMA RewriteLog ==
  ASSUME TypeInv, DataInv, ~DirSyncMayFail, RewriteDocuments, FilesPresent(current)'
  PROVE  KeepsLog \/ SettlesLog
<1> DEFINE schema == current.schema + 1
           plan   == RewritePlan(schema)
<1>1. /\ Writable /\ config' = config /\ current.schema < MaxSchema /\ ImmutablesAcceptable(plan.mem.segs)
      /\ Committed(plan) \/ Abandoned(plan)
  BY DEF RewriteDocuments, RewriteAccepted
<1>2. DiskOK /\ MemOK(config, mem)
  BY DEF TypeInv
<1>3. schema \in 1..config.maxSchema
  BY <1>1, <1>2, ConfigIs DEF DiskOK, ManifestOK, Manifests
<1> HIDE DEF schema
<1>4. PlanOK(plan)
  BY <1>3, RewritePlanOK
<1>5. /\ Shape(plan.mem) /\ Sound(plan.manifest.schema, plan.mem)
      /\ plan.manifest.wal \in DOMAIN plan.wals
      /\ SameState(CheckpointOf(plan.manifest, Over(plan.segs, segFiles),
                                Over(plan.idmaps, idmapFiles), Over(plan.deletes, deleteFiles)),
                   plan.mem)
  BY <1>1, <1>3, RewritePlanIs
<1>6. SameOutcome(plan.mem, mem)
  <2> DEFINE docs  == Rewritten(schema)
             id    == NextSegmentID + Cardinality(DocumentRuns(DOMAIN docs))
             start == NextDocumentID(mem.writing)
  <2>1. plan.mem.idmap = KeysOf(docs) /\ plan.mem.writing = NewWriteSegment(id, start)
    BY DEF RewritePlan, Rewritten, KeysOf, Manager
  <2>2. NextSegmentID \in Nat /\ start \in Nat
    BY <1>2, FreshNames, ManagerFields
  <2>3. IsFiniteSet(DOMAIN docs) /\ DOMAIN docs \in SUBSET Nat
    BY <1>2, <1>3, RewrittenIs
  <2> HIDE DEF docs
  <2>4. Cardinality(DocumentRuns(DOMAIN docs)) \in Nat
    BY <2>2, <2>3, RunsNumbered
  <2>5. id \in Nat
    BY <2>2, <2>4
  <2> HIDE DEF id, start
  <2>6. NextDocumentID(NewWriteSegment(id, start)) = start
    BY <2>2, <2>5, NewWriteSegmentIs
  <2>7. KeysOf(docs) = mem.idmap
    BY <1>1, <1>3, RewrittenMap DEF docs
  <2> HIDE DEF plan
  <2> QED BY <2>1, <2>6, <2>7 DEF SameOutcome, start
<1> HIDE DEF plan
<1>7. CASE Committed(plan)
  BY <1>1, <1>4, <1>5, <1>6, <1>7, PublishedOutcome
<1>8. CASE Abandoned(plan)
  BY <1>1, <1>4, <1>8, AbandonedLog
<1> QED BY <1>1, <1>7, <1>8

LEMMA PublishMetadataLog ==
  ASSUME TypeInv, DataInv, ~DirSyncMayFail, PublishMetadata, FilesKept, FilesPresent(current)'
  PROVE  KeepsLog \/ SettlesLog
<1> DEFINE plan == [manifest |-> current, segs |-> EmptyMap, idmaps |-> EmptyMap,
                    deletes |-> EmptyMap, wals |-> EmptyMap, syncs |-> FALSE]
<1>1. (Committed(plan) \/ Abandoned(plan)) /\ config' = config
  BY DEF PublishMetadata
<1>2. /\ plan.manifest = current /\ plan.segs = EmptyMap /\ plan.idmaps = EmptyMap
      /\ plan.deletes = EmptyMap /\ plan.wals = EmptyMap /\ plan.syncs = FALSE
  OBVIOUS
<1> HIDE DEF plan
<1>3. DiskOK /\ FilesPresent(current) /\ current \in Manifests
  BY DEF TypeInv, DataInv, DiskSound, DiskOK, ManifestOK
<1>4. ManifestOK(config, current, lastGen)
  BY <1>3 DEF DiskOK
<1>5. DOMAIN EmptyMap = {}
  BY EmptyMapIs
<1>6. PlanOK(plan)
  BY <1>2, <1>3, <1>4, <1>5, FilesEmpty DEF PlanOK, ManifestOK, FilesPresent
<1>7. CASE Committed(plan)
  <2>1. /\ current' = [current EXCEPT !.gen = lastGen + 1]
        /\ walFiles' = Over(plan.wals, LogsAfter(plan))
    BY <1>2, <1>7 DEF Committed, LogsAfter
  <2>2. SameManifest
    BY <1>3, <2>1 DEF SameManifest, Manifests
  <2>3. walFiles'[current.wal].recs = Wal.recs
    BY <1>3, <1>6, <2>1, LogKept
  <2>4. walFiles'[current.wal].synced = Wal.synced
    BY <1>2, <1>3, <1>6, <2>1, LogSyncedOrNot
  <2> QED BY <1>1, <2>2, <2>3, <2>4, UnpublishedLog
<1>8. CASE Abandoned(plan)
  BY <1>1, <1>6, <1>8, AbandonedLog
<1> QED BY <1>1, <1>7, <1>8

LEMMA DiskUnchangedLog ==
  ASSUME TypeInv, DataInv, UNCHANGED <<config, diskVars>>
  PROVE  KeepsLog
<1>1. /\ config' = config /\ current' = current /\ segFiles' = segFiles /\ idmapFiles' = idmapFiles
      /\ deleteFiles' = deleteFiles /\ walFiles' = walFiles
  BY DEF diskVars
<1>2. SameManifest /\ FilesKept /\ FilesPresent(current)'
  BY <1>1 DEF SameManifest, FilesKept, FilesPresent, DataInv, DiskSound
<1> QED BY <1>1, <1>2, UnpublishedLog DEF Wal

\* Steps that leave CURRENT and its log alone.
LEMMA ArtifactsLog ==
  ASSUME TypeInv, DataInv, FilesKept, FilesPresent(current)',
         PrepareOutput \/ CompactionClose \/ PruneObsoleteArtifacts
  PROVE  KeepsLog
<1>1. config' = config /\ current' = current
  BY DEF PrepareOutput, CompactionClose, PruneObsoleteArtifacts
<1>2. walFiles' = walFiles \/ walFiles' = Restrict(walFiles, DOMAIN walFiles \cap {current.wal})
  BY DEF PrepareOutput, CompactionClose, PruneObsoleteArtifacts, Kept, Keep
<1>3. current.wal \in DOMAIN walFiles
  BY LogIs
<1>4. walFiles'[current.wal] = Wal
  BY <1>2, <1>3, RestrictIs DEF Wal
<1>5. SameManifest
  BY <1>1 DEF SameManifest
<1> QED BY <1>1, <1>4, <1>5, UnpublishedLog

LEMMA CloseLog ==
  ASSUME TypeInv, DataInv, Close, FilesKept
  PROVE  (KeepsLog \/ SettlesLog) /\ ~Writable'
<1>1. /\ config' = config /\ current' = current /\ segFiles' = segFiles /\ idmapFiles' = idmapFiles
      /\ deleteFiles' = deleteFiles /\ walFiles' \in {WalSynced, walFiles} /\ ~open'
  BY DEF Close, HandleGone
<1>2. DiskOK /\ FilesPresent(current) /\ current.wal \in DOMAIN walFiles
  BY DEF TypeInv, DataInv, DiskSound, FilesPresent
<1>3. /\ DOMAIN walFiles' = DOMAIN walFiles /\ walFiles'[current.wal].recs = Wal.recs
      /\ walFiles'[current.wal].synced = Wal.synced \/ walFiles'[current.wal].synced = Len(Wal.recs)
  BY <1>1, <1>2, WalSyncedIs DEF Wal
<1>4. SameManifest /\ FilesPresent(current)'
  BY <1>1, <1>2, <1>3 DEF SameManifest, FilesPresent
<1> QED BY <1>1, <1>3, <1>4, UnpublishedLog DEF Writable

LEMMA PowerLossLog ==
  ASSUME TypeInv, DataInv, PowerLoss, FilesKept
  PROVE  CutsLog /\ ~Writable'
<1>1. /\ config' = config /\ current' = stable /\ segFiles' = segFiles
      /\ idmapFiles' = idmapFiles /\ deleteFiles' = deleteFiles /\ ~open'
  BY DEF PowerLoss, HandleGone
<1>2. stable = current /\ FilesPresent(current)
  BY DEF DataInv, DiskSound
<1>3. Wal.recs \in Seq(Ops) /\ Wal.synced \in Nat /\ Len(Wal.recs) \in Nat /\ current.wal \in DOMAIN walFiles
  BY LogIs
<1>4. PICK n \in Wal.synced..Len(Wal.recs) :
        walFiles' = [walFiles EXCEPT ![current.wal] = [recs |-> SubSeq(Wal.recs, 1, n), synced |-> n]]
  BY <1>2 DEF PowerLoss, Wal
<1>5. DOMAIN walFiles' = DOMAIN walFiles /\ Wal'.recs = SubSeq(Wal.recs, 1, n) /\ Wal'.synced = n
  BY <1>1, <1>2, <1>3, <1>4 DEF Wal
<1>6. SameManifest /\ FilesPresent(current)'
  BY <1>1, <1>2, <1>5 DEF SameManifest, FilesPresent
<1>7. Checkpoint(current)' = Checkpoint(current) /\ Capacity' = Capacity
  BY <1>1, <1>2, <1>6, CheckpointKept DEF Capacity
<1> DEFINE recs == Wal.recs
           cut  == SubSeq(recs, 1, n)
<1>8. n \in Nat /\ n <= Len(recs) /\ recs \in Seq(Ops)
  BY <1>3
<1> HIDE DEF recs
<1>9. Len(cut) = n /\ \A i \in 1..n : cut[i] = recs[i]
  BY <1>8
<1> HIDE DEF cut
<1>10. \A cap, c : Replay(cap, c, cut, n) = Replay(cap, c, recs, n)
  BY <1>8, <1>9, ReplayPrefix
<1>11. NextVersion(n) = Version(n)
  BY <1>5, <1>7, <1>10 DEF NextVersion, Version, recs, cut
<1>12. Len(Wal'.recs) = n
  BY <1>5, <1>9 DEF recs, cut
<1> HIDE DEF NextVersion, Version
<1> QED BY <1>1, <1>5, <1>11, <1>12 DEF CutsLog, SameOutcome, Writable

LEMMA LogAndApplyLog ==
  ASSUME TypeInv, DataInv, FilesKept, FilesPresent(current)', Writable, NEW op \in Ops, op.schema = current.schema,
         Accepts(Capacity, mem, op), LogAndApply(op)
  PROVE  AppendsLog(op)
<1> DEFINE c == Checkpoint(current)
           r == Replay(Capacity, c, Wal.recs, Len(Wal.recs))
           q == Replay(Capacity, c, Append(Wal.recs, op), Len(Wal.recs) + 1)
<1>1. config' = config /\ current' = current /\ SameManifest
  BY DEF LogAndApply, SameManifest
<1>2. /\ FilesPresent(current) /\ Shape(c) /\ Valid(Capacity, current.schema, c, Wal.recs) /\ SameState(r, mem)
  BY DEF DataInv, DiskSound, MemorySound
<1>3. ReplayTyped(config, c, Wal.recs)
  BY <1>2, CheckpointTyped DEF Present, ReplayReady
<1>4. Accepts(Capacity, r, op)
  BY <1>2 DEF Accepts, SameState
<1>5. Effect(r, q, op)
  BY <1>2, <1>3, <1>4, ValidAppend
<1>6. Checkpoint(current)' = c /\ Capacity' = Capacity
  BY <1>1, <1>2, CheckpointKept DEF Capacity
<1>7. current.wal \in DOMAIN walFiles /\ Wal.recs \in Seq(Ops) /\ Len(Wal.recs) \in Nat
  BY LogIs
<1>8. PICK synced : Logged(op, synced)
  BY DEF LogAndApply, WriteSucceeds, WriteSyncFails, WriteApplyFails
<1>9. /\ Wal'.recs = Append(Wal.recs, op) /\ Wal'.synced \in {Wal.synced, Len(Wal.recs) + 1}
  BY <1>1, <1>7, <1>8 DEF Logged, Wal
<1> DEFINE recs == Wal.recs
           new  == Append(recs, op)
<1>10. recs \in Seq(Ops) /\ Len(recs) \in Nat
  BY <1>7
<1> HIDE DEF recs
<1>11. Len(new) = Len(recs) + 1 /\ \A i \in 1..Len(recs) : new[i] = recs[i]
  BY <1>10
<1> HIDE DEF new
<1>12. \A n \in 0..Len(recs) : Replay(Capacity, c, new, n) = Replay(Capacity, c, recs, n)
  <2> SUFFICES ASSUME NEW n \in 0..Len(recs) PROVE Replay(Capacity, c, new, n) = Replay(Capacity, c, recs, n)
    OBVIOUS
  <2>1. n \in Nat /\ \A i \in 1..n : new[i] = recs[i]
    BY <1>10, <1>11
  <2> QED BY <2>1, ReplayPrefix
<1>13. \A n \in 0..Len(Wal.recs) : NextVersion(n) = Version(n)
  BY <1>6, <1>9, <1>12 DEF NextVersion, Version, recs, new
<1>14. Len(Wal'.recs) = Len(Wal.recs) + 1
  BY <1>9, <1>11 DEF recs, new
<1>15. Version(Len(Wal.recs)) = r /\ NextVersion(Len(Wal.recs) + 1) = q
  BY <1>6, <1>9 DEF NextVersion, Version
<1> HIDE DEF r, q, c, NextVersion, Version
<1> QED BY <1>4, <1>5, <1>9, <1>13, <1>14, <1>15 DEF AppendsLog

\* Every step keeps the versions a crash may leave, settles on the last one,
\* adds one at the end, or is the crash.
LEMMA StepLog ==
  ASSUME TypeInv, DataInv, ~DirSyncMayFail, [Next]_vars
  PROVE  \/ KeepsLog
         \/ SettlesLog /\ (Writable' => Writable)
         \/ CutsLog /\ ~Writable'
         \/ Writable /\ \E op \in Ops : op.key \in Keys /\ AppendsLog(op)
<1>1. TypeInv' /\ FilesKept
  BY StepInv
<1>2. open' => FilesPresent(current)'
  BY <1>1 DEF TypeInv, HandleOK
<1>3. CASE UNCHANGED vars \/ WalFails \/ CreateIterator \/ CloseIterator \/ Kill \/ OpenCollection
           \/ BeginCompaction \/ PrepareReserve
  <2>1. UNCHANGED <<config, diskVars>>
    BY <1>3 DEF vars, WalFails, CreateIterator, CloseIterator, Kill, OpenCollection, BeginCompaction, PrepareReserve
  <2> QED BY <2>1, DiskUnchangedLog
<1>4. ASSUME NEW k \in config.keys, Insert(k) \/ Upsert(k) \/ Update(k) \/ Delete(k)
      PROVE  Writable /\ \E op \in Ops : op.key \in Keys /\ AppendsLog(op)
  <2>1. open'
    BY <1>4 DEF Insert, Upsert, Update, Delete, LogAndApply, Writable
  <2>2. PICK op \in Ops : op.schema = current.schema /\ Accepts(Capacity, mem, op) /\ LogAndApply(op)
    BY <1>4, WritesLogged
  <2>3. Writable /\ AppendsLog(op)
    BY <1>1, <1>2, <1>4, <2>1, <2>2, WritesLogged, LogAndApplyLog
  <2>4. op.key \in Keys
    BY DEF Ops
  <2> QED BY <2>3, <2>4
<1>5. CASE Flush
  <2>1. open' /\ Writable
    BY <1>5 DEF Flush, Writable
  <2> QED BY <1>1, <1>2, <1>5, <2>1, FlushLog
<1>6. CASE RewriteDocuments
  <2>1. open' /\ Writable
    BY <1>6 DEF RewriteDocuments, Writable
  <2> QED BY <1>1, <1>2, <1>6, <2>1, RewriteLog
<1>7. CASE PublishMetadata
  <2>1. open' /\ Writable
    BY <1>7 DEF PublishMetadata, Writable
  <2> QED BY <1>1, <1>2, <1>7, <2>1, PublishMetadataLog
<1>8. CASE Commit
  <2>1. open' /\ Writable
    BY <1>8 DEF Commit, Writable
  <2> QED BY <1>1, <1>2, <1>8, <2>1, CommitData
<1>9. CASE PrepareOutput \/ CompactionClose \/ PruneObsoleteArtifacts
  <2>1. open'
    BY <1>9 DEF PrepareOutput, CompactionClose, PruneObsoleteArtifacts, Writable, TypeInv, HandleOK
  <2> QED BY <1>1, <1>2, <1>9, <2>1, ArtifactsLog
<1>10. CASE Close
  BY <1>1, <1>10, CloseLog
<1>11. CASE PowerLoss
  BY <1>1, <1>11, PowerLossLog
<1> QED BY <1>3, <1>4, <1>5, <1>6, <1>7, <1>8, <1>9, <1>10, <1>11 DEF Next

-----------------------------------------------------------------------------
(* Document IDs.                                                           *)

NextID(r) == NextDocumentID(r.writing)

\* An operation takes the next document ID or none.
LEMMA EffectNextID ==
  ASSUME NEW s, NEW t, NEW op \in Ops, NEW cap, Typed(s), Effect(s, t, op), Accepts(cap, s, op)
  PROVE  NextID(s) \in Nat /\ NextID(t) \in Nat /\ NextID(s) <= NextID(t)
<1>1. /\ s.writing \in WriteSegments /\ t.writing \in WriteSegments /\ t.writing.min = s.writing.min
      /\ t.writing.docs = DocsAfter(s.writing, op) /\ Contiguous(s.writing)
      /\ (op.type # "delete" => op.doc = NextDocumentID(s.writing))
  BY AcceptsPlaced DEF Typed, Effect, Placed
<1>2. /\ Contiguous(t.writing)
      /\ op.type = "delete" => NextDocumentID(t.writing) = NextDocumentID(s.writing)
      /\ op.type # "delete" => NextDocumentID(t.writing) = NextDocumentID(s.writing) + 1
  BY <1>1, AppendContiguous
<1>3. NextDocumentID(s.writing) \in Nat /\ NextDocumentID(t.writing) \in Nat
  BY <1>1, <1>2 DEF Contiguous
<1> QED BY <1>2, <1>3 DEF NextID

\* Replaying more of the log never lowers it.
LEMMA ReplayNextID ==
  ASSUME NEW c, NEW cap, NEW schema, NEW s, NEW recs, ReplayTyped(c, s, recs), Valid(cap, schema, s, recs),
         NEW n \in 0..Len(recs), NEW m \in 0..n
  PROVE  /\ NextID(Replay(cap, s, recs, m)) \in Nat /\ NextID(Replay(cap, s, recs, n)) \in Nat
         /\ NextID(Replay(cap, s, recs, m)) <= NextID(Replay(cap, s, recs, n))
<1> DEFINE R(i) == Replay(cap, s, recs, i)
           Bad == {i \in m..n : ~(NextID(R(m)) <= NextID(R(i)))}
<1>0. Len(recs) \in Nat /\ n \in Nat /\ m \in Nat /\ m \in 0..Len(recs)
  BY DEF ReplayTyped
<1>1. \A i \in 0..Len(recs) : R(i).ok /\ Typed(R(i))
  BY ReplayFields DEF Valid
<1>2. \A i \in 0..Len(recs) : NextID(R(i)) \in Nat
  BY <1>1 DEF Typed, Contiguous, NextID
<1>3. Bad = {}
  <2>1. SUFFICES ASSUME Bad # {} PROVE FALSE
    OBVIOUS
  <2>2. Bad \in SUBSET Nat
    BY <1>0
  <2>3. PICK b \in Bad : \A i \in Bad : b <= i
    BY <2>1, <2>2, LeastNat
  <2>4. b # m
    BY <1>0, <1>2, <2>3
  <2>5. /\ b - 1 \in m..n /\ b - 1 \in 0..Len(recs) /\ b - 1 < Len(recs) /\ ~(b <= b - 1) /\ (b - 1) + 1 = b
        /\ b \in 0..Len(recs)
    BY <1>0, <2>3, <2>4
  <2>6. NextID(R(m)) <= NextID(R(b - 1))
    BY <2>3, <2>5
  <2>7. /\ Effect(R(b - 1), R(b), recs[b]) /\ recs[b] \in Ops
        /\ R(b).ok <=> R(b - 1).ok /\ Accepts(cap, R(b - 1), recs[b])
    <3>1. /\ Effect(R(b - 1), R((b - 1) + 1), recs[(b - 1) + 1]) /\ recs[(b - 1) + 1] \in Ops
          /\ R((b - 1) + 1).ok <=> R(b - 1).ok /\ Accepts(cap, R(b - 1), recs[(b - 1) + 1])
      BY <2>5, ReplayNext
    <3> QED BY <2>5, <3>1
  <2> HIDE DEF R
  <2>8. NextID(R(b - 1)) <= NextID(R(b))
    BY <1>1, <2>5, <2>7, EffectNextID
  <2>9. NextID(R(m)) \in Nat /\ NextID(R(b - 1)) \in Nat /\ NextID(R(b)) \in Nat
    BY <1>0, <1>2, <2>5
  <2> QED BY <2>3, <2>6, <2>8, <2>9
<1>4. n \in m..n
  BY <1>0
<1> QED BY <1>0, <1>2, <1>3, <1>4

LEMMA DurableNow == DurableNextDocID = NextID(Version(Wal.synced))
BY RecoveredIsReplay DEF DurableNextDocID, NextID, Version, Wal

LEMMA DurableNext == DurableNextDocID' = NextID(NextVersion(Wal'.synced))
BY DEF DurableNextDocID, NextID, NextVersion, Wal, Recovered, Replay, IsReplay, ApplyRecovered, Step, ReplayAccepts,
       Accepts, Full, Eagerly

\* Which versions there are, now and after a step.
LEMMA VersionIDs ==
  ASSUME TypeInv, DataInv, NEW n \in 0..Len(Wal.recs), NEW m \in 0..n
  PROVE  NextID(Version(m)) \in Nat /\ NextID(Version(n)) \in Nat /\ NextID(Version(m)) <= NextID(Version(n))
<1>1. /\ FilesPresent(current) /\ Valid(Capacity, current.schema, Checkpoint(current), Wal.recs)
  BY DEF DataInv, DiskSound
<1>2. ReplayTyped(config, Checkpoint(current), Wal.recs)
  BY <1>1, CheckpointTyped DEF Present, ReplayReady
<1> QED BY <1>1, <1>2, ReplayNextID DEF Version

LEMMA StepDocIDs ==
  ASSUME TypeInv, DataInv, ~DirSyncMayFail, [Next]_vars
  PROVE  DurableNextDocID' >= DurableNextDocID
<1> DEFINE L == Len(Wal.recs)
           s == Wal.synced
<1>1. L \in Nat /\ s \in 0..L /\ s \in Nat
  BY LogIs
<1>2. ASSUME NEW n \in s..L PROVE NextID(Version(s)) \in Nat /\ NextID(Version(n)) \in Nat /\ NextID(Version(s)) <= NextID(Version(n))
  <2>1. n \in 0..L /\ s \in 0..n
    BY <1>1
  <2> QED BY <2>1, VersionIDs
<1>3. \A n, m : SameOutcome(NextVersion(n), Version(m)) => NextID(NextVersion(n)) = NextID(Version(m))
  BY DEF SameOutcome, NextID
<1>4. ASSUME NEW n \in s..L, NextID(NextVersion(Wal'.synced)) = NextID(Version(n)) PROVE DurableNextDocID' >= DurableNextDocID
  BY <1>2, <1>4, DurableNow, DurableNext
<1> HIDE DEF L, s
<1>5. s \in s..L /\ L \in s..L
  BY <1>1
<1>6. CASE KeepsLog
  <2>1. Wal'.synced = s /\ SameOutcome(NextVersion(s), Version(s))
    BY <1>5, <1>6 DEF KeepsLog, L, s
  <2> QED BY <1>3, <1>4, <1>5, <2>1
<1>7. CASE SettlesLog
  <2>1. SameOutcome(NextVersion(Wal'.synced), Version(L))
    BY <1>7 DEF SettlesLog, L
  <2> QED BY <1>3, <1>4, <1>5, <2>1
<1>8. CASE CutsLog
  <2>1. PICK n \in s..L : Wal'.synced = n /\ SameOutcome(NextVersion(n), Version(n))
    BY <1>8 DEF CutsLog, L, s
  <2> QED BY <1>3, <1>4, <2>1
<1>9. ASSUME NEW op \in Ops, AppendsLog(op) PROVE DurableNextDocID' >= DurableNextDocID
  <2>1. /\ Wal'.synced = s \/ Wal'.synced = L + 1
        /\ \A n \in 0..L : NextVersion(n) = Version(n)
        /\ Effect(Version(L), NextVersion(L + 1), op) /\ Accepts(Capacity, Version(L), op)
    BY <1>9 DEF AppendsLog, L, s
  <2>2. CASE Wal'.synced = s
    BY <1>1, <1>4, <1>5, <2>1, <2>2
  <2>3. CASE Wal'.synced = L + 1
    <3>1. Typed(Version(L))
      <4>1. /\ FilesPresent(current) /\ Valid(Capacity, current.schema, Checkpoint(current), Wal.recs)
        BY DEF DataInv, DiskSound
      <4>2. ReplayTyped(config, Checkpoint(current), Wal.recs)
        BY <4>1, CheckpointTyped DEF Present, ReplayReady
      <4>3. L \in 0..Len(Wal.recs)
        BY <1>1 DEF L
      <4> QED BY <4>1, <4>2, <4>3, ReplayFields DEF Version, Valid
    <3>2. NextID(NextVersion(L + 1)) \in Nat /\ NextID(Version(L)) <= NextID(NextVersion(L + 1))
      BY <2>1, <3>1, EffectNextID
    <3>3. NextID(Version(s)) \in Nat /\ NextID(Version(L)) \in Nat /\ NextID(Version(s)) <= NextID(Version(L))
      BY <1>2, <1>5
    <3>4. DurableNextDocID' = NextID(NextVersion(L + 1)) /\ DurableNextDocID = NextID(Version(s))
      BY <2>3, DurableNow, DurableNext DEF s
    <3> QED BY <3>2, <3>3, <3>4
  <2> QED BY <2>1, <2>2, <2>3
<1> QED BY <1>6, <1>7, <1>8, <1>9, StepLog

\* A document ID that recovery has given out for good is never given out
\* again (NextDocumentID, rewriteNextDocumentID, the start of the writing
\* segment that every checkpoint records): not after a crash that takes later
\* records, not after a checkpoint, and not when a compaction has purged the
\* document and dropped its segment.
THEOREM DocIDsNeverReused == Spec /\ []~DirSyncMayFail => DurableDocIDsNeverReused
<1>1. TypeInv /\ ~DirSyncMayFail /\ (~DirSyncMayFail => DataInv) /\ [Next]_vars
        => [DurableNextDocID' >= DurableNextDocID]_vars
  BY StepDocIDs
<1> QED BY <1>1, StoreInvariant, DataInvariant, PTL DEF Spec, DurableDocIDsNeverReused

-----------------------------------------------------------------------------
(* The store implements the durable map.                                   *)

\* The maps of the versions.
MapOf(n) == Version(n).idmap
NextMapOf(n) == NextVersion(n).idmap

LEMMA CrashVersionsNow == CrashVersions = [i \in 1..(Len(Wal.recs) - Wal.synced + 1) |-> MapOf(Wal.synced + i - 1)]
BY RecoveredIsReplay DEF CrashVersions, MapOf, Version, Wal

LEMMA CrashVersionsNext ==
  CrashVersions' = [i \in 1..(Len(Wal'.recs) - Wal'.synced + 1) |-> NextMapOf(Wal'.synced + i - 1)]
BY DEF CrashVersions, NextMapOf, NextVersion, Wal, Recovered, Replay, IsReplay, ApplyRecovered, Step, ReplayAccepts,
       Accepts, Full, Eagerly

LogTyped == Len(Wal.recs) \in Nat /\ Wal.synced \in Nat /\ Wal.synced <= Len(Wal.recs)

LEMMA LogWas == TypeInv => LogTyped
BY LogIs DEF LogTyped

LEMMA LogWillBe ==
  ASSUME TypeInv'
  PROVE  Len(Wal'.recs) \in Nat /\ Wal'.synced \in Nat /\ Wal'.synced <= Len(Wal'.recs)
<1>1. LogTyped'
  BY LogWas, PTL
<1> QED BY <1>1 DEF LogTyped

\* h has the entries 1..k.
Entries(h, k) == k \in Nat /\ h = [i \in 1..k |-> h[i]]

LEMMA EntriesAre ==
  ASSUME NEW h, NEW k, Entries(h, k)
  PROVE  h \in Seq({h[i] : i \in 1..k}) /\ Len(h) = k
<1> DEFINE T == {h[i] : i \in 1..k}
<1>1. k \in Nat /\ \A i \in 1..k : h[i] \in T
  BY DEF Entries
<1> HIDE DEF T
<1>2. h \in [1..k -> T]
  BY <1>1 DEF Entries
<1>3. h \in Seq(T) /\ Len(h) = k
  BY <1>1, <1>2
<1> QED BY <1>3 DEF T

LEMMA SingleEntry ==
  ASSUME NEW h, Entries(h, 1)
  PROVE  h = <<h[1]>>
<1>1. h \in Seq({h[i] : i \in 1..1}) /\ Len(h) = 1
  BY EntriesAre
<1> QED BY <1>1

LEMMA OneMoreEntry ==
  ASSUME NEW g, NEW h, NEW k \in Nat, Entries(h, k), Entries(g, k + 1), \A i \in 1..k : g[i] = h[i]
  PROVE  g = Append(h, g[k + 1])
<1> DEFINE T == {g[i] : i \in 1..(k + 1)}
<1>1. g \in Seq(T) /\ Len(g) = k + 1
  BY EntriesAre
<1>2. \A i \in 1..(k + 1) : g[i] \in T
  OBVIOUS
<1> HIDE DEF T
<1>3. \A i \in 1..k : h[i] \in T
  BY <1>2
<1>4. h \in [1..k -> T]
  BY <1>3 DEF Entries
<1>5. h \in Seq(T) /\ Len(h) = k
  BY <1>4
<1>6. k + 1 \in 1..(k + 1) /\ g[k + 1] \in T
  BY <1>2
<1>7. /\ Append(h, g[k + 1]) \in Seq(T) /\ Len(Append(h, g[k + 1])) = k + 1
      /\ \A i \in 1..(k + 1) : Append(h, g[k + 1])[i] = g[i]
  BY <1>5, <1>6
<1> QED BY <1>1, <1>7

\* The versions there are: from the durable one to the last.
VersionsAre(h, s, L) == L \in Nat /\ s \in Nat /\ s <= L /\ Entries(h, L - s + 1)

LEMMA CrashVersionsAre ==
  ASSUME TypeInv
  PROVE  /\ VersionsAre(CrashVersions, Wal.synced, Len(Wal.recs))
         /\ \A n \in Wal.synced..Len(Wal.recs) : CrashVersions[n - Wal.synced + 1] = MapOf(n)
<1> DEFINE h == CrashVersions
           L == Len(Wal.recs)
           s == Wal.synced
<1>1. L \in Nat /\ s \in Nat /\ s <= L
  BY LogIs
<1>2. h = [i \in 1..(L - s + 1) |-> MapOf(s + i - 1)]
  BY CrashVersionsNow
<1> HIDE DEF h, L, s
<1>3. Entries(h, L - s + 1)
  <2>1. \A i \in 1..(L - s + 1) : h[i] = MapOf(s + i - 1)
    BY <1>2
  <2>2. L - s + 1 \in Nat
    BY <1>1
  <2> QED BY <1>2, <2>1, <2>2 DEF Entries
<1>4. ASSUME NEW n \in s..L PROVE h[n - s + 1] = MapOf(n)
  <2>1. n - s + 1 \in 1..(L - s + 1) /\ s + (n - s + 1) - 1 = n
    BY <1>1
  <2> QED BY <1>2, <2>1
<1> QED BY <1>1, <1>3, <1>4 DEF VersionsAre, h, L, s

LEMMA CrashVersionsWillBe ==
  ASSUME TypeInv'
  PROVE  /\ VersionsAre(CrashVersions', Wal'.synced, Len(Wal'.recs))
         /\ \A n \in Wal'.synced..Len(Wal'.recs) : CrashVersions'[n - Wal'.synced + 1] = NextMapOf(n)
<1> DEFINE h == CrashVersions'
           L == Len(Wal'.recs)
           s == Wal'.synced
<1>1. L \in Nat /\ s \in Nat /\ s <= L
  BY LogWillBe
<1>2. h = [i \in 1..(L - s + 1) |-> NextMapOf(s + i - 1)]
  BY CrashVersionsNext
<1> HIDE DEF h, L, s
<1>3. Entries(h, L - s + 1)
  <2>1. \A i \in 1..(L - s + 1) : h[i] = NextMapOf(s + i - 1)
    BY <1>2
  <2>2. L - s + 1 \in Nat
    BY <1>1
  <2> QED BY <1>2, <2>1, <2>2 DEF Entries
<1>4. ASSUME NEW n \in s..L PROVE h[n - s + 1] = NextMapOf(n)
  <2>1. n - s + 1 \in 1..(L - s + 1) /\ s + (n - s + 1) - 1 = n
    BY <1>1
  <2> QED BY <1>2, <2>1
<1> QED BY <1>1, <1>3, <1>4 DEF VersionsAre, h, L, s

\* Versions by their place in the log and in the history.
LEMMA HistoryPlaces ==
  ASSUME NEW h, NEW s, NEW L, VersionsAre(h, s, L)
  PROVE  /\ Len(h) = L - s + 1 /\ Len(h) \in Nat /\ Promise!LastOf(h) = h[L - s + 1] /\ L \in s..L
         /\ \A n \in s..L : n - s + 1 \in 1..Len(h)
         /\ \A i \in 1..(L - s + 1) : s + i - 1 \in s..L /\ (s + i - 1) - s + 1 = i
<1>1. L \in Nat /\ s \in Nat /\ s <= L /\ Len(h) = L - s + 1
  BY EntriesAre DEF VersionsAre
<1> QED BY <1>1 DEF Promise!LastOf

\* The histories of two states.
LEMMA SameHistory ==
  ASSUME NEW h, NEW g, NEW s, NEW L, VersionsAre(h, s, L), VersionsAre(g, s, L),
         \A n \in s..L : g[n - s + 1] = h[n - s + 1]
  PROVE  g = h
<1>1. \A i \in 1..(L - s + 1) : g[i] = h[i]
  <2> SUFFICES ASSUME NEW i \in 1..(L - s + 1) PROVE g[i] = h[i]
    OBVIOUS
  <2>1. s + i - 1 \in s..L /\ (s + i - 1) - s + 1 = i
    BY HistoryPlaces
  <2>2. g[(s + i - 1) - s + 1] = h[(s + i - 1) - s + 1]
    BY <2>1
  <2> QED BY <2>1, <2>2
<1> QED BY <1>1 DEF VersionsAre, Entries

LEMMA LastHistory ==
  ASSUME NEW h, NEW s, VersionsAre(h, s, s)
  PROVE  h = <<h[1]>>
<1>1. s - s + 1 = 1
  BY DEF VersionsAre
<1> QED BY <1>1, SingleEntry DEF VersionsAre

LEMMA LongerHistory ==
  ASSUME NEW h, NEW g, NEW s, NEW L, VersionsAre(h, s, L), VersionsAre(g, s, L + 1),
         \A n \in s..L : g[n - s + 1] = h[n - s + 1]
  PROVE  g = Append(h, g[L - s + 2])
<1>1. L - s + 1 \in Nat /\ (L - s + 1) + 1 = L - s + 2 /\ (L + 1) - s + 1 = L - s + 2
  BY DEF VersionsAre
<1>2. \A i \in 1..(L - s + 1) : g[i] = h[i]
  <2> SUFFICES ASSUME NEW i \in 1..(L - s + 1) PROVE g[i] = h[i]
    OBVIOUS
  <2>1. s + i - 1 \in s..L /\ (s + i - 1) - s + 1 = i
    BY HistoryPlaces
  <2>2. g[(s + i - 1) - s + 1] = h[(s + i - 1) - s + 1]
    BY <2>1
  <2> QED BY <2>1, <2>2
<1>3. Entries(h, L - s + 1) /\ Entries(g, (L - s + 1) + 1)
  BY <1>1 DEF VersionsAre
<1> QED BY <1>1, <1>2, <1>3, OneMoreEntry

\* An operation changes the map: it removes a key, or gives one a document ID
\* that no key had.
LEMMA EffectChanges ==
  ASSUME NEW schema, NEW s, NEW t, NEW op \in Ops, NEW cap, Typed(s), Shape(s), Sound(schema, s),
         Effect(s, t, op), Accepts(cap, s, op), NEW c \in Configs, MapBounded(c, t.idmap)
  PROVE  t.idmap \in Promise!Changed(s.idmap)
<1> DEFINE f == s.idmap
           g == t.idmap
<1>1. op.key \in Keys /\ g = MapAfter(s, op) /\ (op.type # "delete" => op.doc = NextDocumentID(s.writing))
  BY AcceptsPlaced DEF Ops, Effect, Placed
<1>2. CASE op.type = "delete"
  <2>1. op.key \in DOMAIN f
    BY <1>2 DEF Accepts
  <2>2. g = Promise!Removed(f, op.key)
    BY <1>1, <1>2 DEF MapAfter, Without, Restrict, Promise!Removed
  <2> HIDE DEF f, g
  <2> QED BY <2>1, <2>2 DEF Promise!Changed, f, g
<1>3. CASE op.type # "delete"
  <2>1. g = Over(Entry(op.key, op.doc), f)
    BY <1>1, <1>3 DEF MapAfter
  <2>2. op.key \in DOMAIN g /\ g[op.key] = op.doc
    BY <2>1 DEF Over, Entry
  <2>3. op.doc \in UNION {0..d.maxDocID : d \in Configs}
    <3>1. g[op.key] \in 0..c.maxDocID
      BY <2>2 DEF MapBounded
    <3> QED BY <2>2, <3>1
  <2>4. g = Promise!Put(f, op.key, op.doc)
    BY <2>1 DEF Over, Entry, Promise!Put
  <2>5. g # f
    <3>1. \A k \in DOMAIN f : f[k] \in DOMAIN Retained(s)
      BY DEF Sound, Exact, LiveIDs
    <3>2. \A d \in DOMAIN Retained(s) : d \in Nat /\ d < NextDocumentID(s.writing)
      BY RetainedIs
    <3> HIDE DEF f, g
    <3>3. \A k \in DOMAIN f : f[k] # op.doc
      BY <1>1, <1>3, <3>1, <3>2
    <3> QED BY <2>2, <3>3
  <2> HIDE DEF f, g
  <2> QED BY <1>1, <2>3, <2>4, <2>5 DEF Promise!Changed, f, g
<1> QED BY <1>2, <1>3

\* A handle serves the last version.
ServedIsLast == Writable => mem.idmap = Version(Len(Wal.recs)).idmap

LEMMA ServedNow == DataInv => ServedIsLast
BY DEF DataInv, MemorySound, ServedIsLast, SameState, Version

LEMMA ServedNext ==
  ASSUME DataInv'
  PROVE  Writable' => mem'.idmap = NextMapOf(Len(Wal'.recs))
BY DEF DataInv, MemorySound, SameState, NextMapOf, NextVersion

\* The version a record adds.
LEMMA AppendedChanges ==
  ASSUME TypeInv, DataInv, TypeInv', DataInv', config' = config, NEW op \in Ops, AppendsLog(op)
  PROVE  NextMapOf(Len(Wal.recs) + 1) \in Promise!Changed(MapOf(Len(Wal.recs)))
<1> DEFINE L == Len(Wal.recs)
           s == Version(L)
           t == NextVersion(L + 1)
<1>1. /\ Effect(s, t, op) /\ Accepts(Capacity, s, op) /\ Len(Wal'.recs) = L + 1 /\ L \in Nat
  BY LogIs DEF AppendsLog
<1>2. Typed(s) /\ Shape(s) /\ Sound(current.schema, s)
  <2>1. /\ FilesPresent(current) /\ Valid(Capacity, current.schema, Checkpoint(current), Wal.recs)
        /\ Shape(Checkpoint(current))
    BY DEF DataInv, DiskSound
  <2>2. ReplayTyped(config, Checkpoint(current), Wal.recs)
    BY <2>1, CheckpointTyped DEF Present, ReplayReady
  <2>3. L \in 0..Len(Wal.recs)
    BY <1>1
  <2> QED BY <2>1, <2>2, <2>3, ReplayFields DEF Version, Valid
<1>3. MapBounded(config, t.idmap)
  <2>1. FilesPresent(current)' /\ Valid(Capacity', current.schema', Checkpoint(current)', Wal'.recs)
    BY DEF DataInv, DiskSound
  <2>2. ReplayTyped(config', Checkpoint(current)', Wal'.recs)
    BY <2>1, CheckpointTypedNext DEF Present, ReplayReady
  <2>3. L + 1 \in 0..Len(Wal'.recs)
    BY <1>1
  <2>4. Bounded(config', t)
    BY <2>1, <2>2, <2>3, ReplayFields DEF NextVersion, Valid
  <2> QED BY <2>4 DEF Bounded
<1>4. config \in Configs
  BY DEF TypeInv, DiskOK
<1> HIDE DEF s, t
<1>5. t.idmap \in Promise!Changed(s.idmap)
  BY <1>1, <1>2, <1>3, <1>4, EffectChanges
<1> QED BY <1>5 DEF MapOf, NextMapOf, s, t

\* Every step of the store is a step of the durable map or changes nothing it
\* can see.
LEMMA StepPromise ==
  ASSUME TypeInv, DataInv, ~DirSyncMayFail, [Next]_vars
  PROVE  [Promise!Next]_(Promise!vars)
<1> DEFINE h == CrashVersions
           g == CrashVersions'
           L == Len(Wal.recs)
           s == Wal.synced
           L1 == Len(Wal'.recs)
           s1 == Wal'.synced
           m == IF Writable THEN mem.idmap ELSE EmptyMap
           m1 == IF Writable' THEN mem'.idmap ELSE EmptyMap
<1>1. TypeInv' /\ DataInv' /\ config' = config
  BY StepInv, StepData, ConfigKept
<1>2. VersionsAre(h, s, L) /\ \A n \in s..L : h[n - s + 1] = MapOf(n)
  BY CrashVersionsAre
<1>3. VersionsAre(g, s1, L1) /\ \A n \in s1..L1 : g[n - s1 + 1] = NextMapOf(n)
  BY <1>1, CrashVersionsWillBe
<1>4. (Writable => m = MapOf(L)) /\ (~Writable => m = EmptyMap)
  BY ServedNow DEF ServedIsLast, MapOf
<1>5. (Writable' => m1 = NextMapOf(L1)) /\ (~Writable' => m1 = EmptyMap)
  BY <1>1, ServedNext
<1>6. \A n, k : SameOutcome(NextVersion(n), Version(k)) => NextMapOf(n) = MapOf(k)
  BY DEF SameOutcome, MapOf, NextMapOf
<1>7. L \in s..L /\ L \in Nat /\ Promise!LastOf(h) = MapOf(L)
  BY <1>2, HistoryPlaces
<1>8. ASSUME s1 = L1 PROVE g = <<NextMapOf(L1)>>
  <2>1. g = <<g[1]>>
    BY <1>3, <1>8, LastHistory
  <2>2. L1 \in s1..L1 /\ L1 - s1 + 1 = 1
    BY <1>3, <1>8 DEF VersionsAre
  <2> QED BY <1>3, <2>1, <2>2
<1> DEFINE Keeps == g = h /\ NextMapOf(L1) = MapOf(L)
           Settles == g = <<MapOf(L)>> /\ NextMapOf(L1) = MapOf(L) /\ (Writable' => Writable)
           Cuts == ~Writable' /\ \E n \in 1..Len(h) : g = <<h[n]>>
           Appends == /\ Writable /\ NextMapOf(L1) \in Promise!Changed(MapOf(L))
                      /\ g \in {Append(h, NextMapOf(L1)), <<NextMapOf(L1)>>}
                      /\ Promise!LastOf(g) = NextMapOf(L1)
<1>9. ASSUME KeepsLog PROVE Keeps
  <2>1. s1 = s /\ L1 = L /\ \A n \in s..L : NextMapOf(n) = MapOf(n)
    BY <1>6, <1>9 DEF KeepsLog
  <2> HIDE DEF h, g, L, s, L1, s1
  <2>2. \A n \in s..L : g[n - s + 1] = h[n - s + 1]
    BY <1>2, <1>3, <2>1
  <2>3. g = h
    BY <1>2, <1>3, <2>1, <2>2, SameHistory
  <2> QED BY <1>7, <2>1, <2>3
<1>10. ASSUME SettlesLog, Writable' => Writable PROVE Settles
  <2>1. s1 = L1 /\ NextMapOf(L1) = MapOf(L)
    BY <1>6, <1>10 DEF SettlesLog
  <2> HIDE DEF h, g, L, s, L1, s1
  <2> QED BY <1>8, <1>10, <2>1
<1>11. ASSUME CutsLog, ~Writable' PROVE Cuts
  <2>1. PICK n \in s..L : s1 = n /\ L1 = n /\ NextMapOf(n) = MapOf(n)
    BY <1>6, <1>11 DEF CutsLog
  <2> HIDE DEF h, g, L, s, L1, s1
  <2>2. g = <<h[n - s + 1]>>
    BY <1>2, <1>8, <2>1
  <2>3. n - s + 1 \in 1..Len(h)
    BY <1>2, HistoryPlaces
  <2> QED BY <1>11, <2>2, <2>3
<1>12. ASSUME Writable, NEW op \in Ops, AppendsLog(op) PROVE Appends
  <2>1. /\ L1 = L + 1 /\ (s1 = s \/ s1 = L1) /\ \A n \in 0..L : NextMapOf(n) = MapOf(n)
    BY <1>12 DEF AppendsLog, MapOf, NextMapOf
  <2>2. NextMapOf(L1) \in Promise!Changed(MapOf(L))
    BY <1>1, <1>12, <2>1, AppendedChanges
  <2> HIDE DEF h, g, L, s, L1, s1
  <2>3. L1 \in s1..L1 /\ Promise!LastOf(g) = NextMapOf(L1)
    BY <1>3, HistoryPlaces
  <2>4. CASE s1 = L1
    BY <1>8, <1>12, <2>2, <2>3, <2>4
  <2>5. CASE s1 = s
    <3>1. \A n \in s..L : g[n - s + 1] = h[n - s + 1]
      <4>1. \A n \in s..L : n \in 0..L /\ n \in s1..L1
        BY <1>2, <2>1, <2>5 DEF VersionsAre
      <4> QED BY <1>2, <1>3, <2>1, <2>5, <4>1
    <3>2. g = Append(h, g[L - s + 2])
      BY <1>2, <1>3, <2>1, <2>5, <3>1, LongerHistory
    <3>3. L1 - s1 + 1 = L - s + 2
      BY <1>2, <2>1, <2>5 DEF VersionsAre
    <3> QED BY <1>3, <1>12, <2>2, <2>3, <3>2, <3>3
  <2> QED BY <2>1, <2>4, <2>5
<1>13. Keeps \/ Settles \/ Cuts \/ Appends
  BY <1>9, <1>10, <1>11, <1>12, StepLog
<1>14. /\ Promise!vars' = Promise!vars <=> (Writable' = Writable /\ m1 = m /\ g = h)
       /\ Promise!Write <=> (/\ Writable /\ Writable' = Writable /\ m1 \in Promise!Changed(m)
                             /\ g \in {Append(h, m1), <<m1>>})
       /\ Promise!FailedWrite <=> (/\ Writable /\ Writable' = FALSE /\ m1 = EmptyMap
                                   /\ Promise!LastOf(g) \in Promise!Changed(m)
                                   /\ g \in {Append(h, Promise!LastOf(g)), <<Promise!LastOf(g)>>})
       /\ Promise!Persist <=> Writable' = Writable /\ m1 = m /\ g = <<Promise!LastOf(h)>>
       /\ Promise!Stop <=> Writable' = FALSE /\ m1 = EmptyMap /\ g \in {h, <<Promise!LastOf(h)>>}
       /\ Promise!PowerLoss <=> Writable' = FALSE /\ m1 = EmptyMap /\ \E n \in 1..Len(h) : g = <<h[n]>>
       /\ Promise!Restart <=> ~Writable /\ Writable' = TRUE /\ m1 = Promise!LastOf(h) /\ g = h
  BY DEF Promise!vars, Promise!Write, Promise!FailedWrite, Promise!Persist, Promise!Stop, Promise!PowerLoss,
         Promise!Restart, Promise!EmptyMap, EmptyMap
<1>0. Writable \in BOOLEAN /\ Writable' \in BOOLEAN
  BY DEF Writable
<1> HIDE DEF h, g, L, L1, m, m1
<1>15. CASE Keeps
  <2>1. CASE Writable /\ Writable'
    <3>1. Promise!vars' = Promise!vars
      BY <1>4, <1>5, <1>14, <1>15, <2>1
    <3> QED BY <3>1
  <2>2. CASE ~Writable /\ ~Writable'
    <3>1. Promise!vars' = Promise!vars
      BY <1>0, <1>4, <1>5, <1>14, <1>15, <2>2
    <3> QED BY <3>1
  <2>3. CASE Writable /\ ~Writable'
    <3>1. Promise!Stop
      BY <1>5, <1>14, <1>15, <2>3
    <3> QED BY <3>1 DEF Promise!Next
  <2>4. CASE ~Writable /\ Writable'
    <3>1. Promise!Restart
      BY <1>5, <1>7, <1>14, <1>15, <2>4
    <3> QED BY <3>1 DEF Promise!Next
  <2> QED BY <2>1, <2>2, <2>3, <2>4
<1>16. CASE Settles
  <2>1. CASE (Writable /\ Writable') \/ (~Writable /\ ~Writable')
    <3>1. Promise!Persist
      BY <1>0, <1>4, <1>5, <1>7, <1>14, <1>16, <2>1
    <3> QED BY <3>1 DEF Promise!Next
  <2>2. CASE Writable /\ ~Writable'
    <3>1. Promise!Stop
      BY <1>5, <1>7, <1>14, <1>16, <2>2
    <3> QED BY <3>1 DEF Promise!Next
  <2>3. Writable' => Writable
    BY <1>16
  <2> QED BY <2>1, <2>2, <2>3
<1>17. CASE Cuts
  BY <1>5, <1>14, <1>17 DEF Promise!Next
<1>18. CASE Appends
  <2>1. CASE Writable'
    <3>1. Promise!Write
      BY <1>4, <1>5, <1>14, <1>18, <2>1
    <3> QED BY <3>1 DEF Promise!Next
  <2>2. CASE ~Writable'
    <3>1. Promise!FailedWrite
      BY <1>4, <1>5, <1>14, <1>18, <2>2
    <3> QED BY <3>1 DEF Promise!Next
  <2> QED BY <2>1, <2>2
<1> QED BY <1>13, <1>15, <1>16, <1>17, <1>18

LEMMA InitPromise ==
  ASSUME Init
  PROVE  Promise!Init
<1>1. TypeInv
  BY InitInv
<1>2. /\ current.wal = <<0, 1>> /\ current.idmap = 1 /\ idmapFiles = Entry(1, EmptyMap)
      /\ walFiles = Entry(<<0, 1>>, NewWal) /\ open = TRUE /\ poison = {} /\ mem = NoManager
  BY DEF Init
<1>3. Wal.recs = <<>> /\ Wal.synced = 0
  BY <1>2 DEF Wal, Entry, NewWal
<1>4. Writable = TRUE
  BY <1>2 DEF Writable
<1>5. mem.idmap = EmptyMap
  BY <1>2 DEF NoManager, Manager
<1>6. MapOf(0) = EmptyMap
  <2>1. Version(0) = Checkpoint(current)
    BY ReplayStep DEF Version
  <2>2. Checkpoint(current).idmap = idmapFiles[current.idmap]
    BY CheckpointNow DEF CheckpointOf
  <2> QED BY <1>2, <2>1, <2>2 DEF Entry, MapOf
<1>7. Len(Wal.recs) = 0
  BY <1>3
<1>8. VersionsAre(CrashVersions, 0, 0) /\ \A n \in 0..0 : CrashVersions[n - 0 + 1] = MapOf(n)
  BY <1>1, <1>3, <1>7, CrashVersionsAre
<1>9. CrashVersions[1] = EmptyMap
  <2>1. 0 \in 0..0 /\ 0 - 0 + 1 = 1
    OBVIOUS
  <2> QED BY <1>6, <1>8, <2>1
<1>10. CrashVersions = <<EmptyMap>>
  BY <1>8, <1>9, LastHistory
<1> QED BY <1>4, <1>5, <1>10 DEF Promise!Init, Promise!EmptyMap, EmptyMap

\* The collection implements the durable map: recovery, checkpoints, rewrites,
\* compaction, pruning and crashes, whatever they do to the files, show a
\* caller only what DurableMap allows.  Only a write changes what is read, a
\* write that was synchronized is never lost, a power loss takes the newest
\* writes and no others, and a new handle serves the newest version left.
THEOREM StoreImplementsDurableMap == Spec /\ []~DirSyncMayFail => ImplementsDurableMap
<1>1. Init => Promise!Init
  BY InitPromise
<1>2. TypeInv /\ ~DirSyncMayFail /\ (~DirSyncMayFail => DataInv) /\ [Next]_vars => [Promise!Next]_(Promise!vars)
  BY StepPromise
<1> QED BY <1>1, <1>2, StoreInvariant, DataInvariant, PTL DEF Spec, ImplementsDurableMap, Promise!Spec

-----------------------------------------------------------------------------
(* Iterators.                                                              *)

\* The documents that m names are stored in s, in the encoding of the schema.
Serves(schema, m, s) ==
  \A k \in DOMAIN m : m[k] \in DOMAIN Retained(s) /\ Retained(s)[m[k]] = [key |-> k, schema |-> schema]

LEMMA ServesGrows ==
  ASSUME NEW schema, NEW m, NEW s, NEW t, Serves(schema, m, s), Grows(s, t)
  PROVE  Serves(schema, m, t)
BY DEF Serves, Grows

LEMMA SoundServes ==
  ASSUME NEW schema, NEW s, Typed(s), Shape(s), Sound(schema, s)
  PROVE  Serves(schema, s.idmap, s)
<1> DEFINE R == Retained(s)
<1>1. \A d \in DOMAIN R : R[d] \in Doc
  <2>1. s.segs \in SegmentMaps /\ s.writing.docs \in Documents
    BY DEF Typed, WriteSegments
  <2>2. \A i \in DOMAIN s.segs : s.segs[i] \in Documents
    BY <2>1, SegmentMembers
  <2>3. \A f \in Documents : \A d \in DOMAIN f : f[d] \in Doc
    BY PartialIs DEF Documents
  <2>4. /\ \A d \in DOMAIN R : (\E i \in DOMAIN s.segs : d \in DOMAIN s.segs[i]) \/ d \in DOMAIN s.writing.docs
        /\ \A i \in DOMAIN s.segs : \A d \in DOMAIN s.segs[i] : R[d] = s.segs[i][d]
        /\ \A d \in DOMAIN s.writing.docs : R[d] = s.writing.docs[d]
    BY RetainedIs
  <2> HIDE DEF R
  <2> QED BY <2>1, <2>2, <2>3, <2>4
<1>2. \A k \in DOMAIN s.idmap : s.idmap[k] \in DOMAIN R /\ R[s.idmap[k]].key = k
  BY DEF Sound, Exact, LiveIDs
<1>3. \A d \in DOMAIN R : R[d].schema = schema
  BY DEF Sound
<1> HIDE DEF R
<1>4. ASSUME NEW k \in DOMAIN s.idmap PROVE s.idmap[k] \in DOMAIN R /\ R[s.idmap[k]] = [key |-> k, schema |-> schema]
  <2> DEFINE x == R[s.idmap[k]]
  <2>1. x \in Doc /\ x.key = k /\ x.schema = schema /\ s.idmap[k] \in DOMAIN R
    BY <1>1, <1>2, <1>3
  <2> HIDE DEF x
  <2>2. x = [key |-> k, schema |-> schema]
    BY <2>1 DEF Doc
  <2> QED BY <2>1, <2>2 DEF x
<1> QED BY <1>4 DEF Serves, R

MemoryServes == Shape(mem) /\ Serves(current.schema, mem.idmap, mem)

LEMMA WritableServes == TypeInv /\ DataInv /\ Writable => MemoryServes
<1> SUFFICES ASSUME TypeInv, DataInv, Writable PROVE MemoryServes
  OBVIOUS
<1> QED BY MemoryIs, SoundServes DEF MemoryServes

LEMMA WritableServesNext == TypeInv' /\ DataInv' /\ Writable' => MemoryServes'
BY WritableServes, PTL

\* The memory of a handle that was poisoned, too, has what its IDMap names,
\* and that of a handle with an iterator has what the iterator names.
IterInv ==
  /\ ~open => poison = {} /\ ~iter.active
  /\ open => MemoryServes
  /\ iter.active => comp.phase = "none" /\ iter.schema = current.schema /\ Serves(current.schema, iter.map, mem)

\* Steps that leave the documents alone.
LEMMA IterUnmoved ==
  ASSUME IterInv, open' = open, ~open => poison' = {}, SameState(mem, mem'), current'.schema = current.schema,
         iter'.active => /\ comp'.phase = "none"
                         /\ iter' = iter \/ (open /\ iter'.schema = current.schema /\ iter'.map = mem.idmap)
  PROVE  IterInv'
<1>1. mem'.segs = mem.segs /\ mem'.writing = mem.writing /\ mem'.idmap = mem.idmap
  BY DEF SameState
<1>2. Retained(mem') = Retained(mem)
  BY <1>1 DEF Retained
<1>3. Shape(mem) => Shape(mem')
  BY <1>1 DEF Shape
<1>4. \A m : Serves(current.schema, m, mem) => Serves(current.schema, m, mem')
  BY <1>2 DEF Serves
<1>5. open => MemoryServes'
  BY <1>1, <1>3, <1>4 DEF IterInv, MemoryServes
<1>6. ASSUME iter'.active PROVE iter'.schema = current.schema /\ Serves(current.schema, iter'.map, mem') /\ open
  BY <1>4, <1>6 DEF IterInv, MemoryServes
<1> QED BY <1>5, <1>6 DEF IterInv

LEMMA IterGone ==
  ASSUME HandleGone
  PROVE  IterInv'
<1>1. open' = FALSE /\ poison' = {} /\ iter' = NoIter
  BY DEF HandleGone
<1>2. ~iter'.active
  BY <1>1 DEF NoIter
<1> QED BY <1>1, <1>2 DEF IterInv

LEMMA IterOpened ==
  ASSUME IterInv, OpenCollection, TypeInv', DataInv'
  PROVE  IterInv'
<1>1. ~open /\ open' = TRUE /\ poison' = poison /\ iter' = iter
  BY DEF OpenCollection
<1>2. poison = {} /\ ~iter.active
  BY <1>1 DEF IterInv
<1>3. Writable'
  BY <1>1, <1>2 DEF Writable
<1>4. MemoryServes'
  BY <1>3, WritableServesNext
<1> QED BY <1>1, <1>2, <1>4 DEF IterInv

\* A write adds to the documents; the version it replaces stays readable.
LEMMA IterWrites ==
  ASSUME TypeInv, DataInv, IterInv, Writable, NEW op \in Ops, op.schema = current.schema,
         Accepts(Capacity, mem, op), LogAndApply(op)
  PROVE  IterInv'
<1> DEFINE a == Applied(mem, op)
<1>1. current' = current /\ open' = open /\ comp' = comp /\ iter' = iter /\ open
  BY DEF LogAndApply, Writable
<1>2. Effect(mem, a, op) /\ a \in Managers
  BY AppliedManager, MemTyped
<1>3. Typed(mem) /\ Shape(mem) /\ Sound(current.schema, mem)
  BY MemoryIs
<1>4. mem' = [a EXCEPT !.dirty = mem'.dirty] \/ mem' = [a EXCEPT !.idmap = mem.idmap, !.dirty = mem'.dirty]
  <2>1. \E x : mem' = [a EXCEPT !.dirty = x] \/ mem' = [a EXCEPT !.idmap = mem.idmap, !.dirty = x]
    BY DEF LogAndApply, WriteSucceeds, WriteSyncFails, WriteApplyFails
  <2> HIDE DEF a
  <2> QED BY <1>2, <2>1 DEF Managers
<1> HIDE DEF a
<1>5. mem'.segs = a.segs /\ mem'.writing = a.writing /\ (mem'.idmap = a.idmap \/ mem'.idmap = mem.idmap)
  BY <1>2, <1>4 DEF Managers
<1>6. Placed(mem, op)
  BY AcceptsPlaced
<1>7. Shape(a) /\ Typed(a) /\ Sound(current.schema, a)
  BY <1>2, <1>3, <1>6, EffectShape, EffectTyped, EffectSound
<1>8. Grows(mem, a)
  <2>1. /\ op.type = "delete" => Retained(a) = Retained(mem)
        /\ op.type # "delete" => /\ DOMAIN Retained(a) = DOMAIN Retained(mem) \cup {op.doc}
                                 /\ \A d \in DOMAIN Retained(mem) : Retained(a)[d] = Retained(mem)[d]
    BY <1>2, <1>3, <1>6, EffectRetained
  <2> QED BY <2>1 DEF Grows
<1>9. Retained(mem') = Retained(a)
  BY <1>5 DEF Retained
<1>10. Shape(mem')
  BY <1>5, <1>7 DEF Shape
<1>11. \A m : Serves(current.schema, m, mem) => Serves(current.schema, m, mem')
  BY <1>8, <1>9 DEF Serves, Grows
<1>12. Serves(current.schema, a.idmap, mem')
  BY <1>7, <1>9, SoundServes DEF Serves
<1>13. Serves(current.schema, mem'.idmap, mem')
  BY <1>1, <1>5, <1>11, <1>12 DEF IterInv, MemoryServes
<1> QED BY <1>1, <1>10, <1>11, <1>13 DEF IterInv, MemoryServes

\* A flush moves the documents to a segment.
LEMMA IterFlush ==
  ASSUME TypeInv, DataInv, IterInv, Flush, TypeInv', DataInv'
  PROVE  IterInv'
<1>1. /\ Writable /\ open /\ open' = open /\ comp' = comp /\ iter' = iter
      /\ \/ /\ Committed(FlushPlan)
            /\ mem' = IF RotationAccepted(FlushPlan) THEN FlushPlan.mem ELSE mem
            /\ poison' = IF RotationAccepted(FlushPlan) THEN poison ELSE poison \cup {"store"}
         \/ /\ Abandoned(FlushPlan) /\ mem' = [mem EXCEPT !.dirty = 0] /\ poison' = poison
  BY DEF Flush, Writable
<1>2. mem \in Managers /\ DiskOK /\ FilesPresent(current)
  BY DEF TypeInv, MemOK, DataInv, DiskSound
<1>3. CASE Abandoned(FlushPlan) /\ mem' = [mem EXCEPT !.dirty = 0]
  <2>1. current' = current
    BY <1>3 DEF Abandoned
  <2>2. SameState(mem, mem')
    BY <1>2, <1>3 DEF SameState, Managers
  <2> QED BY <1>1, <2>1, <2>2, IterUnmoved DEF IterInv
<1>4. CASE Committed(FlushPlan) /\ mem' = (IF RotationAccepted(FlushPlan) THEN FlushPlan.mem ELSE mem)
           /\ poison' = IF RotationAccepted(FlushPlan) THEN poison ELSE poison \cup {"store"}
  <2>1. ValidManifest(FlushPlan.manifest) /\ current' = [FlushPlan.manifest EXCEPT !.gen = lastGen + 1]
    BY <1>4 DEF Committed
  <2>2. FlushPlan.manifest.schema = current.schema /\ Grows(mem, FlushPlan.mem)
    BY <1>1, <2>1, FlushPlanIs
  <2>3. FlushPlan.manifest \in Manifests
    BY <1>2, FlushPlanOK DEF PlanOK
  <2>4. current'.schema = current.schema
    BY <2>1, <2>2, <2>3 DEF Manifests
  <2>5. CASE RotationAccepted(FlushPlan)
    <3>1. Writable'
      BY <1>1, <1>4, <2>5 DEF Writable
    <3>2. MemoryServes'
      BY <3>1, WritableServesNext
    <3>3. mem' = FlushPlan.mem
      BY <1>4, <2>5
    <3>4. ASSUME iter.active PROVE Serves(current.schema, iter.map, mem')
      BY <2>2, <3>3, <3>4, ServesGrows DEF IterInv
    <3> QED BY <1>1, <2>4, <3>2, <3>4 DEF IterInv
  <2>6. CASE ~RotationAccepted(FlushPlan)
    <3>1. SameState(mem, mem')
      BY <1>4, <2>6 DEF SameState
    <3> QED BY <1>1, <2>4, <3>1, IterUnmoved DEF IterInv
  <2> QED BY <2>5, <2>6
<1> QED BY <1>1, <1>3, <1>4

\* No iterator is open while segments are replaced.
LEMMA IterReplaced ==
  ASSUME IterInv, RewriteDocuments \/ Commit, TypeInv', DataInv'
  PROVE  IterInv'
<1>1. Writable /\ open /\ UNCHANGED <<open, poison, iter>> /\ ~iter.active
  <2>1. CASE RewriteDocuments
    BY <2>1 DEF RewriteDocuments, Writable
  <2>2. CASE Commit
    BY <2>2 DEF Commit, Prepared, Writable, IterInv
  <2> QED BY <2>1, <2>2
<1>2. Writable'
  BY <1>1 DEF Writable
<1> QED BY <1>1, <1>2, WritableServesNext DEF IterInv

LEMMA IterMetadata ==
  ASSUME TypeInv, IterInv, PublishMetadata
  PROVE  IterInv'
<1>1. UNCHANGED <<open, poison, mem, comp, iter>> /\ Writable
  BY DEF PublishMetadata
<1>2. current'.schema = current.schema
  <2>1. current \in Manifests
    BY DEF TypeInv, DiskOK, ManifestOK
  <2>2. current' = current \/ current' = [current EXCEPT !.gen = lastGen + 1]
    BY DEF PublishMetadata, Committed, Abandoned
  <2> QED BY <2>1, <2>2 DEF Manifests
<1> QED BY <1>1, <1>2, IterUnmoved DEF SameState, IterInv

LEMMA StepIter ==
  ASSUME TypeInv, DataInv, IterInv, ~DirSyncMayFail, [Next]_vars
  PROVE  IterInv'
<1>1. TypeInv' /\ DataInv'
  BY StepInv, StepData
<1>2. ASSUME NEW k \in config.keys, Insert(k) \/ Upsert(k) \/ Update(k) \/ Delete(k) PROVE IterInv'
  BY <1>2, WritesLogged, IterWrites
<1>3. CASE Flush
  BY <1>1, <1>3, IterFlush
<1>4. CASE RewriteDocuments \/ Commit
  BY <1>1, <1>4, IterReplaced
<1>5. CASE PublishMetadata
  BY <1>5, IterMetadata
<1>6. CASE Close \/ Kill \/ PowerLoss
  BY <1>6, IterGone DEF Close, Kill, PowerLoss
<1>7. CASE OpenCollection
  BY <1>1, <1>7, IterOpened
<1>8. CASE UNCHANGED vars \/ CloseIterator
  <2>1. open' = open /\ poison' = poison /\ mem' = mem /\ current' = current /\ comp' = comp
    BY <1>8 DEF vars, diskVars, CloseIterator
  <2>2. iter' = iter \/ ~iter'.active
    BY <1>8 DEF vars, CloseIterator, NoIter
  <2> QED BY <2>1, <2>2, IterUnmoved DEF SameState, IterInv
<1>9. CASE CreateIterator
  <2>1. open' = open /\ open /\ mem' = mem /\ current' = current /\ comp' = comp /\ comp.phase = "none"
    BY <1>9 DEF diskVars, CreateIterator
  <2>2. iter'.schema = current.schema /\ iter'.map = mem.idmap
    BY <1>9 DEF CreateIterator
  <2> QED BY <2>1, <2>2, IterUnmoved DEF SameState
<1>10. CASE WalFails \/ PruneObsoleteArtifacts
  <2>1. open' = open /\ open /\ mem' = mem /\ current' = current /\ comp' = comp /\ iter' = iter
    BY <1>10 DEF diskVars, WalFails, PruneObsoleteArtifacts, Writable
  <2> QED BY <2>1, IterUnmoved DEF SameState, IterInv
<1>11. CASE BeginCompaction \/ PrepareReserve \/ PrepareOutput \/ CompactionClose
  <2>1. open' = open /\ poison' = poison /\ current' = current /\ iter' = iter
    BY <1>11 DEF diskVars, BeginCompaction, PrepareReserve, PrepareOutput, CompactionClose
  <2>2. ~iter.active
    BY <1>11 DEF BeginCompaction, PrepareReserve, PrepareOutput, CompactionClose, IterInv
  <2>3. SameState(mem, mem')
    <3>1. mem \in Managers
      BY DEF TypeInv, MemOK
    <3>2. mem' = mem \/ \E x : mem' = [mem EXCEPT !.reserved = x]
      BY <1>11 DEF BeginCompaction, PrepareReserve, PrepareOutput, CompactionClose
    <3> QED BY <3>1, <3>2 DEF SameState, Managers
  <2> QED BY <2>1, <2>2, <2>3, IterUnmoved DEF IterInv
<1> QED BY <1>2, <1>3, <1>4, <1>5, <1>6, <1>7, <1>8, <1>9, <1>10, <1>11 DEF Next

LEMMA InitIter ==
  ASSUME Init, ~DirSyncMayFail
  PROVE  IterInv
<1>1. TypeInv /\ DataInv
  BY InitInv, InitData
<1>2. Writable
  BY DEF Init, Writable
<1>3. open = TRUE /\ ~iter.active
  BY DEF Init, NoIter
<1> QED BY <1>1, <1>2, <1>3, WritableServes DEF IterInv

LEMMA IterInvariant == Spec => [](~DirSyncMayFail => IterInv)
<1>1. Init => (~DirSyncMayFail => IterInv)
  BY InitIter
<1>2. TypeInv /\ (~DirSyncMayFail => DataInv) /\ (~DirSyncMayFail => IterInv) /\ [Next]_vars
        => (~DirSyncMayFail => IterInv)'
  <2> SUFFICES ASSUME TypeInv, ~DirSyncMayFail => DataInv, ~DirSyncMayFail => IterInv, [Next]_vars, ~DirSyncMayFail'
               PROVE  IterInv'
    OBVIOUS
  <2>1. ~DirSyncMayFail
    BY ConfigKept DEF DirSyncMayFail
  <2> QED BY <2>1, StepIter
<1> QED BY <1>1, <1>2, StoreInvariant, DataInvariant, PTL DEF Spec

\* An open iterator fetches every document of its snapshot (DocumentIterator):
\* writes only add versions, a flush moves them to a segment under the same
\* document ID, and whatever would drop or re-encode one waits for the
\* iterator to close.  The memory of a poisoned handle serves it as well.
THEOREM IteratorsKeepTheirSnapshot == Spec => [](~DirSyncMayFail => IteratorSnapshotRetained)
<1>1. IterInv => IteratorSnapshotRetained
  BY DEF IterInv, Serves, IteratorSnapshotRetained
<1> QED BY <1>1, IterInvariant, PTL

-----------------------------------------------------------------------------
(* Publications are accepted.                                              *)

LEMMA QuotientMonotone ==
  ASSUME NEW c \in Nat \ {0}, NEW a \in Nat, NEW b \in Nat, a <= b
  PROVE  a \div c <= b \div c
<1> DEFINE p == a \div c
           q == b \div c
<1>1. p \in Int /\ q \in Int /\ c * p <= a /\ b < c * q + c
  OBVIOUS
<1> HIDE DEF p, q
<1>2. ASSUME q + 1 <= p PROVE FALSE
  <2>1. c * (q + 1) <= c * p
    BY <1>1, <1>2
  <2>2. c * (q + 1) = c * q + c
    BY <1>1
  <2> QED BY <1>1, <2>1, <2>2
<1>3. p <= q
  BY <1>1, <1>2
<1> QED BY <1>3 DEF p, q

\* Where the maximal run of a document starts.
LEMMA RunStartIs ==
  ASSUME NEW ids \in SUBSET Nat, NEW d \in ids
  PROVE  /\ RunStart(ids, d) \in ids /\ RunStart(ids, d) <= d /\ RunStart(ids, d)..d \subseteq ids
         /\ \A s \in ids : s <= d /\ s..d \subseteq ids => RunStart(ids, d) <= s
<1> DEFINE S == {s \in ids : s <= d /\ s..d \subseteq ids}
<1>1. d \in S /\ S \in SUBSET Nat
  <2>1. d \in Nat /\ \A x \in d..d : x = d
    OBVIOUS
  <2>2. d <= d /\ d..d \subseteq ids
    BY <2>1
  <2> QED BY <2>2
<1> HIDE DEF S
<1>2. Min(S) \in S /\ \A n \in S : Min(S) <= n
  BY <1>1, MinOfNats
<1>3. RunStart(ids, d) = Min(S)
  BY DEF RunStart, S
<1> QED BY <1>2, <1>3 DEF S

\* A run has no gap.
LEMMA RunsConvex ==
  ASSUME Capacity \in Nat \ {0}, NEW ids \in SUBSET Nat, NEW r \in DocumentRuns(ids), NEW a \in r, NEW b \in r,
         NEW x \in Nat, a <= x, x <= b
  PROVE  x \in r
<1>1. PICK d \in ids : r = {e \in ids : SameRun(ids, d, e)}
  BY RunOfIs DEF DocumentRuns
<1> DEFINE s == RunStart(ids, d)
<1>2. /\ a \in ids /\ b \in ids /\ RunStart(ids, a) = s /\ RunStart(ids, b) = s
      /\ (a - s) \div Capacity = (b - s) \div Capacity /\ (a - s) \div Capacity = (d - s) \div Capacity
  BY <1>1 DEF SameRun
<1> HIDE DEF s
<1>3. s \in Nat /\ s <= a /\ s <= b /\ s..b \subseteq ids
  <2>1. /\ RunStart(ids, a) \in ids /\ RunStart(ids, a) <= a
        /\ RunStart(ids, b) <= b /\ RunStart(ids, b)..b \subseteq ids
    BY <1>2, RunStartIs
  <2> QED BY <1>2, <2>1
<1>4. x \in ids
  <2>1. b \in Nat /\ x \in s..b
    BY <1>2, <1>3
  <2> QED BY <1>3, <2>1
<1>5. RunStart(ids, x) = s
  <2> DEFINE u == RunStart(ids, x)
  <2>1. u \in ids /\ u <= x /\ u..x \subseteq ids /\ \A t \in ids : t <= x /\ t..x \subseteq ids => u <= t
    BY <1>4, RunStartIs
  <2> HIDE DEF u
  <2>2. s \in ids /\ s <= x /\ s..x \subseteq ids
    BY <1>2, <1>3, RunStartIs
  <2>3. u <= s
    BY <2>1, <2>2
  <2>4. u..a \subseteq ids /\ u <= a
    BY <1>2, <1>3, <2>1, <2>3
  <2>5. s <= u
    BY <1>2, <2>1, <2>4, RunStartIs
  <2>6. u = s
    BY <1>3, <2>1, <2>3, <2>5
  <2> QED BY <2>6 DEF u
<1>6. a - s \in Nat /\ x - s \in Nat /\ b - s \in Nat /\ a - s <= x - s /\ x - s <= b - s
  BY <1>2, <1>3
<1>7. (a - s) \div Capacity <= (x - s) \div Capacity /\ (x - s) \div Capacity <= (b - s) \div Capacity
  BY <1>6, QuotientMonotone
<1>8. (x - s) \div Capacity \in Int /\ (a - s) \div Capacity \in Int
  BY <1>6
<1>9. (x - s) \div Capacity = (d - s) \div Capacity
  BY <1>2, <1>7, <1>8
<1> QED BY <1>1, <1>4, <1>5, <1>9 DEF SameRun, s

\* So the ranges of different runs do not overlap.
LEMMA RunsApart ==
  ASSUME Capacity \in Nat \ {0}, NEW ids \in SUBSET Nat, IsFiniteSet(ids),
         NEW q \in DocumentRuns(ids), NEW r \in DocumentRuns(ids), q # r
  PROVE  ~RangesOverlap(Min(q), Max(q), Min(r), Max(r))
<1>1. /\ q \in SUBSET Nat /\ q # {} /\ q \in SUBSET ids /\ r \in SUBSET Nat /\ r # {} /\ r \in SUBSET ids
      /\ \A d : ~(d \in q /\ d \in r)
  BY RunsPartition
<1>2. IsFiniteSet(q) /\ IsFiniteSet(r)
  BY <1>1, FS_Subset
<1>3. Min(q) \in q /\ Max(q) \in q /\ Min(r) \in r /\ Max(r) \in r
  BY <1>1, <1>2, MinOfNats, MaxOfNats
<1> DEFINE a == Min(q)
           b == Max(q)
           c == Min(r)
           d == Max(r)
<1>4. a \in q /\ b \in q /\ c \in r /\ d \in r /\ a \in Nat /\ b \in Nat /\ c \in Nat /\ d \in Nat
  BY <1>1, <1>3
<1> HIDE DEF a, b, c, d
<1>5. ~(a <= c /\ c <= b)
  BY <1>1, <1>4, RunsConvex
<1>6. ~(c <= a /\ a <= d)
  BY <1>1, <1>4, RunsConvex
<1>7. ~(a <= d /\ c <= b)
  BY <1>4, <1>5, <1>6
<1> QED BY <1>7 DEF RangesOverlap, a, b, c, d

\* Segments cut from runs can be added one after the other.
LEMMA RunsAcceptable ==
  ASSUME Capacity \in Nat \ {0}, NEW docs \in Documents, NEW ids \in SUBSET DOMAIN docs, IsFiniteSet(ids),
         NEW firstID \in Nat
  PROVE  ImmutablesAcceptable(SegmentsOf(DocumentRuns(ids), docs, firstID))
<1> DEFINE runs == DocumentRuns(ids)
           segs == SegmentsOf(runs, docs, firstID)
<1>1. ids \in SUBSET Nat
  BY PartialIs DEF Documents
<1>2. /\ \A i \in DOMAIN segs : \E r \in runs : RunID(runs, r, firstID) = i /\ segs[i] = Restrict(docs, r)
      /\ \A i \in DOMAIN segs : segs[i] # EmptyMap
  BY SegmentsOfIs, SegmentsHold
<1> HIDE DEF segs
<1>3. ASSUME NEW i \in DOMAIN segs, NEW j \in DOMAIN segs, i # j
      PROVE  ~RangesOverlap(Min(DOMAIN segs[i]), Max(DOMAIN segs[i]), Min(DOMAIN segs[j]), Max(DOMAIN segs[j]))
  <2>1. PICK q \in runs : RunID(runs, q, firstID) = i /\ segs[i] = Restrict(docs, q)
    BY <1>2
  <2>2. PICK r \in runs : RunID(runs, r, firstID) = j /\ segs[j] = Restrict(docs, r)
    BY <1>2
  <2>3. DOMAIN segs[i] = q /\ DOMAIN segs[j] = r
    BY <2>1, <2>2, RestrictIs
  <2>4. q # r
    BY <1>3, <2>1, <2>2
  <2> QED BY <1>1, <2>3, <2>4, RunsApart
<1> QED BY <1>2, <1>3 DEF ImmutablesAcceptable, segs

LEMMA FlushManifestValid ==
  ASSUME TypeInv, DataInv, Writable
  PROVE  ValidManifest(FlushPlan.manifest)
<1> DEFINE w     == mem.writing
           id    == NextSegmentID
           seg   == SegmentName(w.id, current.gen + 1)
           wal   == WalName(id, current.gen + 1)
           names == IF w.docs # EmptyMap THEN current.segs \cup {seg} ELSE current.segs
           start == NextDocumentID(w)
           m     == FlushPlan.manifest
<1>1. DiskOK /\ MemOK(config, mem) /\ current \in Manifests
  BY DEF TypeInv, DiskOK, ManifestOK
<1>2. m = [current EXCEPT !.segs = names, !.wal = wal, !.start = start, !.idmap = IDMapNumber,
                          !.deletes = DeleteNumber, !.next = id + 1]
  BY DEF FlushPlan
<1>3. seg[1] = w.id /\ wal[1] = id /\ id \in Nat /\ id >= current.next
  BY <1>1, ManagerFields, FreshNames
<1>4. w.id = current.wal[1]
  BY MemoryIs
<1>5. /\ \A p, q \in current.segs : p[1] = q[1] => p = q
      /\ current.wal[1] \notin {p[1] : p \in current.segs}
      /\ \A p \in current.segs \cup {current.wal} : p[1] < current.next
  BY DEF DataInv, DiskSound, ValidManifest
<1>6. current.next \in Nat /\ current.segs \in SUBSET Name /\ current.wal \in Name
  BY <1>1 DEF Manifests
<1> HIDE DEF seg, wal, id, start, names
<1>7. m.segs = names /\ m.wal = wal /\ m.next = id + 1
  BY <1>1, <1>2 DEF Manifests
<1> HIDE DEF m
<1>8. \A p \in names : p \in current.segs \/ p = seg
  BY DEF names
<1>9. ASSUME NEW p \in names PROVE p[1] \in Nat /\ p[1] < current.next
  <2>1. CASE p \in current.segs
    BY <1>5, <1>6, <2>1 DEF Name
  <2>2. CASE p = seg
    BY <1>3, <1>4, <1>5, <1>6, <2>2 DEF Name
  <2> QED BY <1>8, <2>1, <2>2
<1>10. ASSUME NEW p \in names, NEW q \in names, p[1] = q[1] PROVE p = q
  <2>1. seg[1] = current.wal[1]
    BY <1>3, <1>4
  <2> QED BY <1>5, <1>8, <1>10, <2>1
<1>11. wal[1] \notin {p[1] : p \in names}
  BY <1>3, <1>6, <1>9
<1>12. \A p \in names \cup {wal} : p[1] < id + 1
  BY <1>3, <1>6, <1>9
<1> QED BY <1>7, <1>10, <1>11, <1>12 DEF ValidManifest, m

LEMMA RotationHolds ==
  ASSUME TypeInv, DataInv
  PROVE  RotationNeverFails
<1> SUFFICES ASSUME Writable PROVE RotationAccepted(FlushPlan) /\ ValidManifest(FlushPlan.manifest)
  BY DEF RotationNeverFails
<1> DEFINE t == FlushPlan.mem
<1>1. ValidManifest(FlushPlan.manifest)
  BY FlushManifestValid
<1>2. Shape(t)
  BY <1>1, FlushPlanIs
<1>3. DiskOK /\ MemOK(config, mem) /\ Capacity \in Nat /\ config.maxDocID \in Nat
  BY ConfigIs DEF TypeInv, DiskOK
<1>4. Typed(t)
  BY <1>3, FlushPlanOK, BoundedTyped DEF MemOK
<1>5. WritingAcceptable(t.segs, t.writing)
  BY <1>2, <1>3, <1>4, ShapeAccepted
<1>6. ImmutablesAcceptable(t.segs)
  BY <1>2 DEF Shape
<1>7. mem.writing.id \notin DOMAIN mem.segs
  BY MemoryIs DEF Shape
<1>8. t.writing.id # mem.writing.id
  <2>1. t.writing.id = NextSegmentID
    BY DEF FlushPlan, Manager, NewWriteSegment
  <2>2. NextSegmentID >= current.next /\ NextSegmentID \in Nat
    BY <1>3, FreshNames
  <2>3. current.wal[1] < current.next /\ current.next \in Nat /\ current.wal[1] \in Nat
    <3>1. current \in Manifests /\ ValidManifest(current)
      BY <1>3 DEF DataInv, DiskSound, DiskOK, ManifestOK
    <3> QED BY <3>1 DEF Manifests, ValidManifest, Name
  <2>4. mem.writing.id = current.wal[1]
    BY MemoryIs
  <2> HIDE DEF t
  <2> QED BY <2>1, <2>2, <2>3, <2>4
<1> QED BY <1>1, <1>5, <1>6, <1>7, <1>8 DEF RotationAccepted

LEMMA RewriteHolds ==
  ASSUME TypeInv, DataInv
  PROVE  RewriteNeverRejected
<1> DEFINE schema == current.schema
           plan   == RewritePlan(schema)
           t      == plan.mem
           docs   == Rewritten(schema)
           live   == DOMAIN docs
           runs   == DocumentRuns(live)
           first  == NextSegmentID
           segs   == SegmentsOf(runs, docs, first)
           names  == {SegmentName(i, current.gen + 1) : i \in DOMAIN segs}
           id     == first + Cardinality(runs)
           start  == NextDocumentID(mem.writing)
           wal    == WalName(id, current.gen + 1)
           m      == plan.manifest
<1> SUFFICES ASSUME Writable PROVE RewriteAccepted(plan) /\ ValidManifest(m)
  BY DEF RewriteNeverRejected
<1>1. /\ DiskOK /\ MemOK(config, mem) /\ current \in Manifests /\ schema \in 1..config.maxSchema
      /\ Capacity \in Nat \ {0} /\ config.maxDocID \in Nat
  BY ConfigIs DEF TypeInv, DiskOK, ManifestOK
<1>2. /\ docs \in Documents /\ live \in SUBSET live /\ IsFiniteSet(live) /\ live \in SUBSET DOMAIN Retained(mem)
  BY <1>1, RewrittenIs
<1>3. /\ first \in Nat
      /\ \A i \in Nat : SegmentName(i, current.gen + 1)[1] = i
      /\ \A i \in Nat : WalName(i, current.gen + 1)[1] = i
  BY <1>1, FreshNames
<1>4. /\ m = [current EXCEPT !.schema = schema, !.segs = names, !.wal = wal, !.start = start,
                             !.idmap = IDMapNumber, !.deletes = DeleteNumber, !.next = id + 1]
      /\ t.segs = segs /\ t.writing.min = start
  BY DEF RewritePlan, Rewritten, KeysOf, Manager, NewWriteSegment
<1>5. Typed(t) /\ t \in Managers
  BY <1>1, RewritePlanOK, BoundedTyped DEF MemOK
<1> HIDE DEF schema, docs, plan
<1>6. ImmutablesAcceptable(segs)
  BY <1>1, <1>2, <1>3, RunsAcceptable
<1>7. Shape(t) /\ Sound(plan.manifest.schema, t)
  BY <1>1, <1>4, <1>6, RewritePlanIs DEF plan
<1>8. /\ DOMAIN segs = first..(first + Cardinality(runs) - 1) /\ Cardinality(runs) \in Nat
  <2>1. live \in SUBSET Nat
    BY <1>2, PartialIs DEF Documents
  <2> QED BY <1>2, <1>3, <2>1, SegmentsHold, RunsNumbered
<1>9. WritingAcceptable(t.segs, t.writing) /\ \A i \in DOMAIN t.segs : Max(DOMAIN t.segs[i]) < t.writing.min
  BY <1>1, <1>5, <1>7, ShapeAccepted
<1>10. ValidState(t)
  BY <1>5, <1>7, LiveFinite, ExactIsValid DEF Sound, Typed
<1>11. DOMAIN t.segs # {} => Max(UNION {DOMAIN t.segs[i] : i \in DOMAIN t.segs}) < t.writing.min
  <2> DEFINE U == UNION {DOMAIN t.segs[i] : i \in DOMAIN t.segs}
  <2> SUFFICES ASSUME DOMAIN t.segs # {} PROVE Max(U) < t.writing.min
    OBVIOUS
  <2>1. \A x : x \in U <=> \E i \in DOMAIN t.segs : x \in DOMAIN t.segs[i]
    OBVIOUS
  <2>2. /\ t.segs \in SegmentMaps /\ \A i \in DOMAIN t.segs : IsFiniteSet(DOMAIN t.segs[i]) /\ t.segs[i] # EmptyMap
        /\ t.writing.min \in Nat
    BY <1>5, <1>7 DEF Typed, Shape, ImmutablesAcceptable, WriteSegments
  <2>3. \A i \in DOMAIN t.segs : \A d \in DOMAIN t.segs[i] : d < t.writing.min
    BY <1>7 DEF Shape
  <2>4. \A i \in DOMAIN t.segs : /\ Min(DOMAIN t.segs[i]) \in DOMAIN t.segs[i]
                                 /\ \A d \in DOMAIN t.segs[i] : d \in Nat
    BY <2>2, SegmentRange
  <2> HIDE DEF U, t
  <2>5. U \in SUBSET Nat /\ U # {} /\ U \subseteq 0..t.writing.min
    BY <2>1, <2>2, <2>3, <2>4
  <2>6. IsFiniteSet(0..t.writing.min)
    BY <2>2, FS_Interval
  <2>7. IsFiniteSet(U)
    BY <2>5, <2>6, FS_Subset
  <2>8. Max(U) \in U
    BY <2>5, <2>7, MaxOfNats
  <2> QED BY <2>1, <2>3, <2>8
<1>12. RewriteAccepted(plan)
  BY <1>4, <1>6, <1>9, <1>10, <1>11 DEF RewriteAccepted
<1> HIDE DEF runs, first, segs, start, wal, t
<1>13. id \in Nat /\ wal[1] = id /\ \A p \in names : p[1] \in DOMAIN segs
  BY <1>3, <1>8 DEF wal
<1>14. \A p, q \in names : p[1] = q[1] => p = q
  BY <1>3, <1>8
<1> HIDE DEF names, id
<1>15. m.segs = names /\ m.wal = wal /\ m.next = id + 1
  BY <1>1, <1>4 DEF Manifests
<1> HIDE DEF m
<1>16. \A p \in names : p[1] \in Nat /\ p[1] < id
  BY <1>3, <1>8, <1>13 DEF id
<1>17. wal[1] \notin {p[1] : p \in names} /\ \A p \in names \cup {wal} : p[1] < id + 1
  BY <1>13, <1>16
<1>18. ValidManifest(m)
  BY <1>14, <1>15, <1>17 DEF ValidManifest
<1> QED BY <1>12, <1>18

\* What a compaction read is still there, and segments added since hold later
\* documents.
InputsHeld(c, schema, s) ==
  /\ c.schema = schema /\ DOMAIN c.inputs \subseteq DOMAIN s.segs
  /\ \A i \in DOMAIN c.inputs : s.segs[i] = c.inputs[i]
  /\ \A i \in DOMAIN s.segs : i \notin DOMAIN c.inputs =>
       \A j \in DOMAIN c.inputs : \A d \in DOMAIN s.segs[i], e \in DOMAIN c.inputs[j] : e < d

\* Nobody else has one of the segment IDs it reserved.
PastIDs(c) == c.first + Cardinality(c.runs)
IsReserved(c, i) == i \in c.first..(PastIDs(c) - 1)
IDsHeld(c, s) ==
  /\ PastIDs(c) <= s.reserved
  /\ \A i \in DOMAIN s.segs \cup {s.writing.id} : ~IsReserved(c, i)

CompactionHeld ==
  /\ Writable /\ comp.phase \in {"begun", "writing"} => InputsHeld(comp, current.schema, mem)
  /\ Writable /\ comp.phase = "writing" => IDsHeld(comp, mem)

\* Steps that leave segments and reservation alone.
LEMMA HeldKept ==
  ASSUME CompactionHeld,
         Writable' /\ comp'.phase \in {"begun", "writing"} =>
           /\ Writable /\ current'.schema = current.schema
           /\ mem'.segs = mem.segs /\ mem'.writing.id = mem.writing.id /\ mem'.reserved = mem.reserved
           /\ comp'.phase = comp.phase /\ comp'.schema = comp.schema /\ comp'.inputs = comp.inputs
           /\ comp'.first = comp.first /\ comp'.runs = comp.runs
  PROVE  CompactionHeld'
<1>1. ASSUME Writable', comp'.phase \in {"begun", "writing"} PROVE InputsHeld(comp', current'.schema, mem')
  <2>1. /\ InputsHeld(comp, current.schema, mem) /\ mem'.segs = mem.segs /\ current'.schema = current.schema
        /\ comp'.schema = comp.schema /\ comp'.inputs = comp.inputs
    BY <1>1 DEF CompactionHeld
  <2> QED BY <2>1 DEF InputsHeld
<1>2. ASSUME Writable', comp'.phase = "writing" PROVE IDsHeld(comp', mem')
  <2>1. /\ IDsHeld(comp, mem) /\ mem'.segs = mem.segs /\ mem'.writing.id = mem.writing.id
        /\ mem'.reserved = mem.reserved /\ comp'.first = comp.first /\ comp'.runs = comp.runs
    BY <1>2 DEF CompactionHeld
  <2>2. PastIDs(comp') = PastIDs(comp) /\ \A i : IsReserved(comp', i) <=> IsReserved(comp, i)
    BY <2>1 DEF PastIDs, IsReserved
  <2> QED BY <2>1, <2>2 DEF IDsHeld
<1> QED BY <1>1, <1>2 DEF CompactionHeld

LEMMA HeldIdle ==
  ASSUME ~Writable' \/ comp'.phase \notin {"begun", "writing"}
  PROVE  CompactionHeld'
BY DEF CompactionHeld

LEMMA HeldWrites ==
  ASSUME TypeInv, CompactionHeld, Writable, NEW op \in Ops, LogAndApply(op)
  PROVE  CompactionHeld'
<1> DEFINE a == Applied(mem, op)
<1>1. current' = current /\ comp' = comp
  BY DEF LogAndApply
<1>2. Effect(mem, a, op) /\ a \in Managers /\ a.reserved = mem.reserved
  BY AppliedManager, MemTyped
<1>3. \E x : mem' = [a EXCEPT !.dirty = x] \/ mem' = [a EXCEPT !.idmap = mem.idmap, !.dirty = x]
  BY DEF LogAndApply, WriteSucceeds, WriteSyncFails, WriteApplyFails
<1> HIDE DEF a
<1>4. mem'.segs = a.segs /\ mem'.writing = a.writing /\ mem'.reserved = a.reserved
  BY <1>2, <1>3 DEF Managers
<1>5. a.segs = mem.segs /\ a.writing.id = mem.writing.id
  BY <1>2 DEF Effect
<1> QED BY <1>1, <1>2, <1>4, <1>5, HeldKept

\* A flush seals documents that are later than all the inputs, under the ID
\* the writing segment had, and goes on under one that is not reserved.
LEMMA FlushPlanHeld ==
  ASSUME TypeInv, DataInv, CompactionHeld, Writable
  PROVE  /\ comp.phase \in {"begun", "writing"} => InputsHeld(comp, current.schema, FlushPlan.mem)
         /\ comp.phase = "writing" => IDsHeld(comp, FlushPlan.mem)
<1> DEFINE w == mem.writing
           t == FlushPlan.mem
           sealed == w.docs # EmptyMap
<1>1. DiskOK /\ MemOK(config, mem) /\ comp \in Compactions
  BY DEF TypeInv, CompOK
<1>2. /\ t.segs = (IF sealed THEN Over(Entry(w.id, w.docs), mem.segs) ELSE mem.segs)
      /\ t.writing.id = NextSegmentID /\ t.reserved = mem.reserved
  BY DEF FlushPlan, Manager, NewWriteSegment
<1>3. /\ Typed(mem) /\ w.id \notin DOMAIN mem.segs
      /\ \A i \in DOMAIN mem.segs : \A d \in DOMAIN mem.segs[i] : d < w.min
  BY MemoryIs DEF Shape
<1>4. NextSegmentID \in Nat /\ NextSegmentID >= mem.reserved /\ mem.reserved \in Nat
  BY <1>1, FreshNames, ManagerFields
<1> HIDE DEF w, t, sealed
<1>5. /\ \A i \in DOMAIN t.segs : i \in DOMAIN mem.segs \/ (sealed /\ i = w.id)
      /\ \A i \in DOMAIN mem.segs : i \in DOMAIN t.segs /\ t.segs[i] = mem.segs[i]
      /\ sealed => t.segs[w.id] = w.docs
  <2>1. CASE sealed
    BY <1>2, <1>3, <2>1 DEF Over, Entry
  <2>2. CASE ~sealed
    BY <1>2, <2>2
  <2> QED BY <2>1, <2>2
<1>6. ASSUME comp.phase \in {"begun", "writing"} PROVE InputsHeld(comp, current.schema, t)
  <2>1. /\ comp.schema = current.schema /\ DOMAIN comp.inputs \subseteq DOMAIN mem.segs
        /\ \A i \in DOMAIN comp.inputs : mem.segs[i] = comp.inputs[i]
        /\ \A i \in DOMAIN mem.segs : i \notin DOMAIN comp.inputs =>
             \A j \in DOMAIN comp.inputs : \A d \in DOMAIN mem.segs[i], e \in DOMAIN comp.inputs[j] : e < d
    BY <1>6 DEF CompactionHeld, InputsHeld
  <2>2. ASSUME NEW i \in DOMAIN t.segs, i \notin DOMAIN comp.inputs, NEW j \in DOMAIN comp.inputs,
               NEW d \in DOMAIN t.segs[i], NEW e \in DOMAIN comp.inputs[j]
        PROVE  e < d
    <3>1. CASE i \in DOMAIN mem.segs
      BY <1>5, <2>1, <2>2, <3>1
    <3>2. CASE sealed /\ i = w.id
      <4>1. d \in DOMAIN w.docs
        BY <1>5, <3>2
      <4>2. e < w.min
        BY <1>3, <2>1
      <4>3. DOMAIN w.docs = w.min..(NextDocumentID(w) - 1) /\ w.min \in Nat /\ NextDocumentID(w) \in Nat
        BY <1>3 DEF Typed, Contiguous, WriteSegments, w
      <4>4. e \in Nat
        <5>1. comp.inputs[j] \in Documents
          BY <1>1, SegmentMembers DEF Compactions
        <5> QED BY <5>1, PartialIs DEF Documents
      <4> QED BY <4>1, <4>2, <4>3, <4>4
    <3> QED BY <1>5, <3>1, <3>2
  <2> QED BY <1>5, <2>1, <2>2 DEF InputsHeld
<1>7. ASSUME comp.phase = "writing" PROVE IDsHeld(comp, t)
  <2>1. IDsHeld(comp, mem)
    BY <1>7 DEF CompactionHeld
  <2>2. PastIDs(comp) <= mem.reserved /\ \A i \in DOMAIN mem.segs \cup {mem.writing.id} : ~IsReserved(comp, i)
    BY <2>1 DEF IDsHeld
  <2>3. PastIDs(comp) \in Nat /\ comp.first \in Nat
    BY <1>7, OutputSegmentsAre DEF PastIDs
  <2>4. ~IsReserved(comp, NextSegmentID)
    BY <1>4, <2>2, <2>3 DEF IsReserved
  <2>5. \A i \in DOMAIN t.segs \cup {t.writing.id} : ~IsReserved(comp, i)
    BY <1>2, <1>5, <2>2, <2>4 DEF w
  <2> QED BY <1>2, <2>2, <2>5 DEF IDsHeld
<1> QED BY <1>6, <1>7 DEF t

LEMMA HeldFlush ==
  ASSUME TypeInv, DataInv, CompactionHeld, Flush
  PROVE  CompactionHeld'
<1>1. /\ Writable /\ open /\ open' = open /\ comp' = comp
      /\ \/ /\ Committed(FlushPlan)
            /\ mem' = IF RotationAccepted(FlushPlan) THEN FlushPlan.mem ELSE mem
            /\ poison' = IF RotationAccepted(FlushPlan) THEN poison ELSE poison \cup {"store"}
         \/ /\ Abandoned(FlushPlan) /\ mem' = [mem EXCEPT !.dirty = 0] /\ poison' = poison
  BY DEF Flush, Writable
<1>2. mem \in Managers /\ DiskOK /\ FilesPresent(current)
  BY DEF TypeInv, MemOK, DataInv, DiskSound
<1>3. CASE Abandoned(FlushPlan) /\ mem' = [mem EXCEPT !.dirty = 0]
  <2>1. current' = current
    BY <1>3 DEF Abandoned
  <2>2. mem'.segs = mem.segs /\ mem'.writing = mem.writing /\ mem'.reserved = mem.reserved
    BY <1>2, <1>3 DEF Managers
  <2> QED BY <1>1, <2>1, <2>2, HeldKept
<1>4. CASE Committed(FlushPlan) /\ mem' = (IF RotationAccepted(FlushPlan) THEN FlushPlan.mem ELSE mem)
           /\ poison' = IF RotationAccepted(FlushPlan) THEN poison ELSE poison \cup {"store"}
  <2>1. ValidManifest(FlushPlan.manifest) /\ current' = [FlushPlan.manifest EXCEPT !.gen = lastGen + 1]
    BY <1>4 DEF Committed
  <2>2. FlushPlan.manifest.schema = current.schema
    BY <1>1, <2>1, FlushPlanIs
  <2>3. FlushPlan.manifest \in Manifests
    BY <1>2, FlushPlanOK DEF PlanOK
  <2>4. current'.schema = current.schema
    BY <2>1, <2>2, <2>3 DEF Manifests
  <2>5. Writable' => mem' = FlushPlan.mem
    BY <1>4 DEF Writable
  <2> QED BY <1>1, <2>4, <2>5, FlushPlanHeld DEF CompactionHeld
<1> QED BY <1>1, <1>3, <1>4

LEMMA HeldReserve ==
  ASSUME TypeInv, DataInv, CompactionHeld, PrepareReserve
  PROVE  CompactionHeld'
<1>1. current' = current /\ open' = open /\ poison' = poison /\ comp.phase = "begun"
  BY DEF PrepareReserve, diskVars
<1>2. comp \in Compactions /\ mem \in Managers /\ DiskOK /\ MemOK(config, mem)
  BY DEF TypeInv, CompOK, MemOK
<1>3. CASE comp' = [comp EXCEPT !.phase = "unchanged"]
  <2>1. comp'.phase = "unchanged"
    BY <1>2, <1>3 DEF Compactions
  <2> QED BY <2>1, HeldIdle
<1>4. CASE /\ Writable
           /\ comp' = [comp EXCEPT !.phase = "writing", !.purged = Purged, !.runs = OutputRuns, !.first = NextSegmentID]
           /\ mem' = [mem EXCEPT !.reserved = NextSegmentID + Cardinality(OutputRuns)]
  <2> DEFINE n == Cardinality(OutputRuns)
             f == NextSegmentID
             r == OutputRuns
  <2>1. /\ comp'.schema = comp.schema /\ comp'.inputs = comp.inputs /\ comp'.first = f /\ comp'.runs = r
        /\ mem'.segs = mem.segs /\ mem'.writing = mem.writing /\ mem'.reserved = f + n
    <3> DEFINE p == Purged
               x == f + n
    <3>1. comp' = [comp EXCEPT !.phase = "writing", !.purged = p, !.runs = r, !.first = f]
          /\ mem' = [mem EXCEPT !.reserved = x]
      BY <1>4
    <3> HIDE DEF p, r, f, x, n
    <3>2. /\ comp'.schema = comp.schema /\ comp'.inputs = comp.inputs /\ comp'.first = f /\ comp'.runs = r
          /\ mem'.segs = mem.segs /\ mem'.writing = mem.writing /\ mem'.reserved = x
      BY <1>2, <3>1 DEF Compactions, Managers
    <3> QED BY <3>2 DEF x
  <2>2. f \in Nat /\ f >= current.next /\ n \in Nat
    BY <1>2, FreshNames, InputsAre
  <2>3. InputsHeld(comp, current.schema, mem)
    BY <1>1, <1>4 DEF CompactionHeld
  <2>4. InputsHeld(comp', current'.schema, mem')
    BY <1>1, <2>1, <2>3 DEF InputsHeld
  <2>5. \A i \in DOMAIN mem.segs \cup {mem.writing.id} : i \in Nat /\ i < f
    <3>1. /\ mem.segs = Opened(current.segs, segFiles) /\ mem.writing.id = current.wal[1]
      BY <1>4, MemoryIs
    <3>2. ValidManifest(current) /\ current \in Manifests
      BY <1>2 DEF DataInv, DiskSound, DiskOK, ManifestOK
    <3>3. /\ \A p, q \in current.segs : p[1] = q[1] => p = q
          /\ \A p \in current.segs \cup {current.wal} : p[1] < current.next /\ p[1] \in Nat
          /\ current.next \in Nat
      BY <3>2 DEF ValidManifest, Manifests, Name
    <3>4. \A i : i \in DOMAIN mem.segs <=> \E p \in current.segs : p[1] = i
      BY <3>1, <3>3, OpenedIs
    <3>5. \A i \in DOMAIN mem.segs \cup {mem.writing.id} : \E p \in current.segs \cup {current.wal} : p[1] = i
      BY <3>1, <3>4
    <3> HIDE DEF f
    <3> QED BY <2>2, <3>3, <3>5
  <2>6. IDsHeld(comp', mem')
    <3>1. PastIDs(comp') = f + n /\ comp'.first = f
      BY <2>1 DEF PastIDs
    <3> HIDE DEF f, n
    <3>2. \A i \in DOMAIN mem.segs \cup {mem.writing.id} : ~IsReserved(comp', i)
      BY <2>2, <2>5, <3>1 DEF IsReserved
    <3>3. PastIDs(comp') <= mem'.reserved
      BY <2>1, <2>2, <3>1
    <3> QED BY <2>1, <3>2, <3>3 DEF IDsHeld
  <2> QED BY <2>4, <2>6 DEF CompactionHeld
<1> QED BY <1>3, <1>4 DEF PrepareReserve

LEMMA HeldBegin ==
  ASSUME BeginCompaction
  PROVE  CompactionHeld'
<1>1. /\ current' = current /\ mem' = mem
      /\ comp' = [NoComp EXCEPT !.phase = "begun", !.gen = current.gen, !.schema = current.schema,
                                !.inputs = mem.segs, !.captured = mem.deletes]
  BY DEF BeginCompaction, diskVars
<1>2. comp'.phase = "begun" /\ comp'.schema = current.schema /\ comp'.inputs = mem.segs
  BY <1>1 DEF NoComp
<1>3. InputsHeld(comp', current'.schema, mem')
  BY <1>1, <1>2 DEF InputsHeld
<1> QED BY <1>2, <1>3 DEF CompactionHeld

LEMMA StepHeld ==
  ASSUME TypeInv, DataInv, CompactionHeld, [Next]_vars
  PROVE  CompactionHeld'
<1>0. comp \in Compactions /\ mem \in Managers /\ (~open => comp.phase = "none")
  BY DEF TypeInv, CompOK, MemOK, HandleOK
<1>1. CASE UNCHANGED vars \/ CreateIterator \/ CloseIterator \/ WalFails \/ PruneObsoleteArtifacts
  <2>1. open' = open /\ mem' = mem /\ current' = current /\ comp' = comp /\ (poison' = poison \/ poison' = poison \cup {"wal"})
    BY <1>1 DEF vars, diskVars, CreateIterator, CloseIterator, WalFails, PruneObsoleteArtifacts
  <2>2. Writable' => Writable
    BY <2>1 DEF Writable
  <2> QED BY <2>1, <2>2, HeldKept
<1>2. ASSUME NEW k \in config.keys, Insert(k) \/ Upsert(k) \/ Update(k) \/ Delete(k) PROVE CompactionHeld'
  BY <1>2, WritesLogged, HeldWrites
<1>3. CASE Flush
  BY <1>3, HeldFlush
<1>4. CASE RewriteDocuments \/ PublishMetadata
  <2>1. comp'.phase \in {"none", "unchanged"}
    BY <1>4 DEF RewriteDocuments, PublishMetadata
  <2> QED BY <2>1, HeldIdle
<1>5. CASE BeginCompaction
  BY <1>5, HeldBegin
<1>6. CASE PrepareReserve
  BY <1>6, HeldReserve
<1>7. CASE PrepareOutput
  <2>1. /\ current' = current /\ mem' = mem /\ open' = open /\ poison' = poison
        /\ \E x : comp' = [comp EXCEPT !.outputs = x]
    BY <1>7 DEF PrepareOutput
  <2>2. /\ comp'.phase = comp.phase /\ comp'.schema = comp.schema /\ comp'.inputs = comp.inputs
        /\ comp'.first = comp.first /\ comp'.runs = comp.runs
    BY <1>0, <2>1 DEF Compactions
  <2>3. Writable' => Writable
    BY <2>1 DEF Writable
  <2> QED BY <2>1, <2>2, <2>3, HeldKept
<1>8. CASE Commit
  <2>1. /\ Writable
        /\ \/ comp' = [comp EXCEPT !.phase = "committed"]
           \/ /\ comp' = comp /\ current' = current /\ (mem' = mem \/ mem' = [mem EXCEPT !.dirty = 0])
    BY <1>8 DEF Commit, Abandoned
  <2>2. CASE comp' = [comp EXCEPT !.phase = "committed"]
    BY <1>0, <2>2, HeldIdle DEF Compactions
  <2>3. CASE comp' = comp /\ current' = current /\ (mem' = mem \/ mem' = [mem EXCEPT !.dirty = 0])
    <3>1. mem'.segs = mem.segs /\ mem'.writing = mem.writing /\ mem'.reserved = mem.reserved
      BY <1>0, <2>3 DEF Managers
    <3> QED BY <2>1, <2>3, <3>1, HeldKept
  <2> QED BY <2>1, <2>2, <2>3
<1>9. CASE CompactionClose \/ Close \/ Kill \/ PowerLoss
  <2>1. comp' = NoComp
    BY <1>9 DEF CompactionClose, Close, Kill, PowerLoss, HandleGone
  <2> QED BY <2>1, NoCompIs, HeldIdle
<1>10. CASE OpenCollection
  <2>1. comp' = comp /\ ~open
    BY <1>10 DEF OpenCollection
  <2> QED BY <1>0, <2>1, HeldIdle
<1> QED BY <1>1, <1>2, <1>3, <1>4, <1>5, <1>6, <1>7, <1>8, <1>9, <1>10 DEF Next

\* Outputs are told apart by their IDs.
LEMMA OutputsApart ==
  ASSUME TypeInv, comp.phase = "writing"
  PROVE  \A p, q \in comp.outputs : p[1] = q[1] => p = q
<1> DEFINE S == comp.outputs
           n == Cardinality(comp.outputs)
           a == comp.first
           T == a..(a + n - 1)
           f == [p \in S |-> p[1]]
<1>1. IsFiniteSet(S) /\ {p[1] : p \in S} = T /\ a \in Nat
  BY DEF TypeInv, CompOK, Compactions
<1>2. n \in Nat
  BY <1>1, FS_CardinalityType
<1>3. Cardinality(T) = n
  <2>1. a \in Int /\ a + n - 1 \in Int
    BY <1>1, <1>2
  <2> HIDE DEF n, a
  <2>2. Cardinality(T) = IF a > a + n - 1 THEN 0 ELSE (a + n - 1) - a + 1
    BY <2>1, FS_Interval
  <2> QED BY <1>1, <1>2, <2>2
<1>4. /\ \A p \in S : p[1] \in T
      /\ \A x \in T : \E p \in S : p[1] = x
  BY <1>1
<1> HIDE DEF S, T
<1>5. f \in Surjection(S, T)
  BY <1>4 DEF Surjection
<1>6. f \in Injection(S, T)
  BY <1>1, <1>3, <1>5, FS_Surjection DEF S
<1>7. \A p, q \in S : f[p] = f[q] => p = q
  BY <1>6 DEF Injection, IsInjective
<1> QED BY <1>7 DEF S

\* The segments of a prepared compaction, as they are opened.
LEMMA OpenedOutputs ==
  ASSUME TypeInv, DataInv, Prepared
  PROVE  LET outs == Opened(comp.outputs, segFiles) IN
         /\ \A j : j \in DOMAIN outs <=> \E p \in comp.outputs : p[1] = j
         /\ \A j : j \in DOMAIN outs <=> j \in DOMAIN OutputSegments
         /\ \A j \in DOMAIN outs : outs[j] = OutputSegments[j]
<1> DEFINE outs == Opened(comp.outputs, segFiles)
           made == OutputSegments
<1>1. comp.phase = "writing" /\ {p[1] : p \in comp.outputs} = DOMAIN made
  BY DEF Prepared
<1>2. /\ \A j : j \in DOMAIN outs <=> \E p \in comp.outputs : p[1] = j
      /\ \A p \in comp.outputs : outs[p[1]] = segFiles[p]
  BY <1>1, OutputsApart, OpenedIs
<1>3. \A p \in comp.outputs : segFiles[p] = made[p[1]]
  BY <1>1 DEF DataInv, CompactionSound
<1> HIDE DEF outs, made
<1>4. \A j : j \in DOMAIN made <=> \E p \in comp.outputs : p[1] = j
  BY <1>1
<1>5. \A j : j \in DOMAIN outs <=> j \in DOMAIN made
  BY <1>2, <1>4
<1>6. \A j \in DOMAIN outs : outs[j] = made[j]
  BY <1>2, <1>3
<1> QED BY <1>2, <1>5, <1>6 DEF outs, made

\* They can be added one after the other, and hold only documents of inputs.
LEMMA OutputsAcceptable ==
  ASSUME TypeInv, comp.phase = "writing"
  PROVE  /\ ImmutablesAcceptable(OutputSegments)
         /\ \A j \in DOMAIN OutputSegments : \A d \in DOMAIN OutputSegments[j] :
              \E i \in DOMAIN comp.inputs : d \in DOMAIN comp.inputs[i]
<1> DEFINE docs == InputDocuments
           ids  == DOMAIN InputDocuments \ comp.captured
           made == OutputSegments
<1>1. comp.inputs \in SegmentMaps /\ comp.first \in Nat /\ comp.runs = OutputRuns /\ Capacity \in Nat \ {0}
  BY ConfigIs DEF TypeInv, DiskOK, CompOK, Compactions
<1>2. docs \in Documents /\ ids \in SUBSET DOMAIN docs /\ IsFiniteSet(ids)
  BY InputsAre
<1>3. made = SegmentsOf(DocumentRuns(ids), docs, comp.first)
  BY <1>1 DEF OutputSegments, OutputRuns
<1>4. \A d \in DOMAIN docs : \E i \in DOMAIN comp.inputs : d \in DOMAIN comp.inputs[i]
  <2> DEFINE fs == Range(comp.inputs)
  <2>1. \A f \in fs : \E i \in DOMAIN comp.inputs : f = comp.inputs[i]
    BY <1>1, SegmentMembers
  <2>2. DOMAIN Merged(fs) = UNION {DOMAIN f : f \in fs}
    BY MergedIs
  <2>3. docs = Merged(fs)
    BY DEF InputDocuments
  <2> HIDE DEF fs, docs
  <2> QED BY <2>1, <2>2, <2>3
<1> HIDE DEF docs, ids, made
<1>5. ImmutablesAcceptable(made)
  BY <1>1, <1>2, <1>3, RunsAcceptable
<1>6. \A d : (\E j \in DOMAIN made : d \in DOMAIN made[j]) <=> d \in ids
  BY <1>1, <1>2, <1>3, SegmentsHold
<1> QED BY <1>2, <1>4, <1>5, <1>6 DEF made

\* A segment below another one does not overlap it.
LEMMA BelowApart ==
  ASSUME NEW f \in Documents, NEW g \in Documents, IsFiniteSet(DOMAIN f), IsFiniteSet(DOMAIN g),
         f # EmptyMap, g # EmptyMap, \A e \in DOMAIN f, d \in DOMAIN g : e < d
  PROVE  /\ ~RangesOverlap(Min(DOMAIN f), Max(DOMAIN f), Min(DOMAIN g), Max(DOMAIN g))
         /\ ~RangesOverlap(Min(DOMAIN g), Max(DOMAIN g), Min(DOMAIN f), Max(DOMAIN f))
<1> DEFINE F == DOMAIN f
           G == DOMAIN g
<1>1. F \in SUBSET Nat /\ G \in SUBSET Nat /\ F # {} /\ G # {} /\ IsFiniteSet(F) /\ IsFiniteSet(G)
  BY PartialIs, EmptyMapIs DEF Documents
<1>2. \A e \in F, d \in G : e < d
  OBVIOUS
<1> HIDE DEF F, G
<1>3. Min(F) \in F /\ Max(F) \in F /\ Min(G) \in G /\ Max(G) \in G
  BY <1>1, MinOfNats, MaxOfNats
<1>4. Max(F) < Min(G) /\ Max(F) \in Nat /\ Min(G) \in Nat
  BY <1>1, <1>2, <1>3
<1> QED BY <1>4 DEF RangesOverlap, F, G

LEMMA CommitSegments ==
  ASSUME TypeInv, DataInv, CompactionHeld, Writable, Prepared
  PROVE  LET new == Over(Opened(comp.outputs, segFiles), Without(mem.segs, DOMAIN comp.inputs)) IN
         /\ ImmutablesAcceptable(new) /\ mem.writing.id \notin DOMAIN new
         /\ \A i \in DOMAIN new : \A d \in DOMAIN new[i] : d < mem.writing.min
         /\ \A j \in DOMAIN Opened(comp.outputs, segFiles) : j \notin DOMAIN mem.segs
<1> DEFINE outs == Opened(comp.outputs, segFiles)
           ins  == DOMAIN comp.inputs
           segs == mem.segs
           new  == Over(outs, Without(segs, ins))
<1>1. comp.phase = "writing" /\ comp.inputs \in SegmentMaps
  BY DEF Prepared, TypeInv, CompOK, Compactions
<1>2. InputsHeld(comp, current.schema, mem) /\ IDsHeld(comp, mem)
  BY <1>1 DEF CompactionHeld
<1>3. /\ Typed(mem) /\ ImmutablesAcceptable(segs) /\ mem.writing.id \notin DOMAIN segs
      /\ \A i \in DOMAIN segs : \A d \in DOMAIN segs[i] : d < mem.writing.min
  BY MemoryIs DEF Shape
<1>4. /\ \A j : j \in DOMAIN outs <=> j \in DOMAIN OutputSegments
      /\ \A j \in DOMAIN outs : outs[j] = OutputSegments[j]
  BY OpenedOutputs
<1>5. /\ \A j \in DOMAIN OutputSegments : IsReserved(comp, j)
      /\ \A j \in DOMAIN OutputSegments : OutputSegments[j] \in Documents /\ DocsBounded(config, OutputSegments[j])
  BY <1>1, OutputSegmentsAre DEF IsReserved, PastIDs
<1>6. /\ ImmutablesAcceptable(OutputSegments)
      /\ \A j \in DOMAIN OutputSegments : \A d \in DOMAIN OutputSegments[j] :
              \E i \in DOMAIN comp.inputs : d \in DOMAIN comp.inputs[i]
  BY <1>1, OutputsAcceptable
<1>7. /\ \A j : j \in DOMAIN new <=> j \in DOMAIN outs \/ (j \in DOMAIN segs /\ j \notin ins)
      /\ \A j \in DOMAIN outs : new[j] = outs[j]
      /\ \A j \in DOMAIN segs : j \notin ins /\ j \notin DOMAIN outs => new[j] = segs[j]
  <2> DEFINE K == DOMAIN segs \ ins
             kept == Restrict(segs, K)
  <2>1. new = Over(outs, kept)
    BY DEF Without
  <2>2. DOMAIN kept = K /\ \A x \in K : kept[x] = segs[x]
    BY RestrictIs
  <2> HIDE DEF kept, outs, segs, ins, new
  <2> QED BY <2>1, <2>2 DEF Over
<1> HIDE DEF outs, ins, segs, new
<1>8. \A j \in DOMAIN outs : j \notin DOMAIN segs /\ j # mem.writing.id
  BY <1>2, <1>4, <1>5 DEF IDsHeld, segs
<1>9. /\ \A i \in ins : i \in DOMAIN segs /\ segs[i] = comp.inputs[i]
      /\ \A i \in DOMAIN segs : i \notin ins =>
            \A j \in ins : \A d \in DOMAIN segs[i], e \in DOMAIN comp.inputs[j] : e < d
  BY <1>2 DEF InputsHeld, segs, ins
<1>10. \A j \in DOMAIN outs : \A d \in DOMAIN outs[j] : \E i \in ins : d \in DOMAIN comp.inputs[i]
  BY <1>4, <1>6 DEF ins
<1>11. \A i \in DOMAIN new : \A d \in DOMAIN new[i] : d < mem.writing.min
  <2> SUFFICES ASSUME NEW i \in DOMAIN new, NEW d \in DOMAIN new[i] PROVE d < mem.writing.min
    OBVIOUS
  <2>1. \E j \in DOMAIN segs : d \in DOMAIN segs[j]
    BY <1>7, <1>8, <1>9, <1>10
  <2> QED BY <1>3, <2>1 DEF segs
<1>12. mem.writing.id \notin DOMAIN new
  BY <1>3, <1>7, <1>8 DEF segs
<1>13. \A j \in DOMAIN outs : outs[j] \in Documents /\ IsFiniteSet(DOMAIN outs[j]) /\ outs[j] # EmptyMap
  <2>0. config.maxDocID \in Nat
    BY ConfigIs DEF TypeInv, DiskOK
  <2>1. IsFiniteSet(0..config.maxDocID)
    BY <2>0, FS_Interval
  <2>2. \A j \in DOMAIN outs : outs[j] \in Documents /\ DOMAIN outs[j] \subseteq 0..config.maxDocID /\ outs[j] # EmptyMap
    BY <1>4, <1>5, <1>6 DEF DocsBounded, ImmutablesAcceptable
  <2> QED BY <2>1, <2>2, FS_Subset
<1>14. \A j \in DOMAIN segs : segs[j] \in Documents /\ IsFiniteSet(DOMAIN segs[j]) /\ segs[j] # EmptyMap
  BY <1>3, SegmentMembers DEF Typed, ImmutablesAcceptable, segs
<1> DEFINE Apart(f, g) == ~RangesOverlap(Min(DOMAIN f), Max(DOMAIN f), Min(DOMAIN g), Max(DOMAIN g))
<1>15. \A i, j \in DOMAIN outs : i # j => Apart(outs[i], outs[j])
  <2>1. \A i, j \in DOMAIN OutputSegments : i # j => Apart(OutputSegments[i], OutputSegments[j])
    BY <1>6 DEF ImmutablesAcceptable
  <2> HIDE DEF Apart
  <2> QED BY <1>4, <2>1
<1>16. \A i, j \in DOMAIN segs : i # j => Apart(segs[i], segs[j])
  BY <1>3 DEF ImmutablesAcceptable
<1>17. ASSUME NEW i \in DOMAIN outs, NEW j \in DOMAIN segs, j \notin ins
       PROVE  Apart(outs[i], segs[j]) /\ Apart(segs[j], outs[i])
  <2>1. \A e \in DOMAIN outs[i], d \in DOMAIN segs[j] : e < d
    BY <1>9, <1>10, <1>17
  <2>2. outs[i] \in Documents /\ IsFiniteSet(DOMAIN outs[i]) /\ outs[i] # EmptyMap
    BY <1>13
  <2>3. segs[j] \in Documents /\ IsFiniteSet(DOMAIN segs[j]) /\ segs[j] # EmptyMap
    BY <1>14
  <2> DEFINE f == outs[i]
             g == segs[j]
  <2> HIDE DEF f, g
  <2>4. Apart(f, g) /\ Apart(g, f)
    BY <2>1, <2>2, <2>3, BelowApart DEF f, g
  <2> QED BY <2>4 DEF f, g
<1> HIDE DEF Apart
<1>18. ASSUME NEW i \in DOMAIN new, NEW j \in DOMAIN new, i # j PROVE Apart(new[i], new[j])
  BY <1>7, <1>8, <1>15, <1>16, <1>17, <1>18
<1>19. \A i \in DOMAIN new : new[i] # EmptyMap
  BY <1>7, <1>8, <1>13, <1>14
<1>20. ImmutablesAcceptable(new)
  BY <1>18, <1>19 DEF ImmutablesAcceptable, Apart
<1> QED BY <1>8, <1>11, <1>12, <1>20 DEF new, outs, segs, ins

LEMMA CommitHolds ==
  ASSUME TypeInv, DataInv, CompactionHeld
  PROVE  CommitNeverRejected
<1> SUFFICES ASSUME Prepared, Writable PROVE CommitAccepted
  BY DEF CommitNeverRejected
<1> DEFINE outs  == Opened(comp.outputs, segFiles)
           ins   == DOMAIN comp.inputs
           new   == Over(outs, Without(mem.segs, ins))
           names == {p \in current.segs : p[1] \notin ins} \cup comp.outputs
           number == IF comp.purged = {} THEN current.deletes ELSE DeleteNumber
           id    == NextSegmentID
           t     == CommitPlan.mem
           m     == CommitPlan.manifest
<1>1. comp.phase = "writing" /\ open
  BY DEF Prepared, Writable
<1>2. InputsHeld(comp, current.schema, mem) /\ IDsHeld(comp, mem)
  BY <1>1 DEF CompactionHeld
<1>3. /\ ImmutablesAcceptable(new) /\ mem.writing.id \notin DOMAIN new
      /\ \A i \in DOMAIN new : \A d \in DOMAIN new[i] : d < mem.writing.min
      /\ \A j \in DOMAIN outs : j \notin DOMAIN mem.segs
  BY CommitSegments
<1>4. /\ DiskOK /\ MemOK(config, mem) /\ mem \in Managers /\ current \in Manifests /\ Capacity \in Nat
      /\ config.maxDocID \in Nat /\ comp.outputs \in SUBSET Name
  BY ConfigIs DEF TypeInv, DiskOK, ManifestOK, MemOK, CompOK, Compactions
<1>5. /\ m = [current EXCEPT !.segs = names, !.deletes = number, !.next = id]
      /\ t = [mem EXCEPT !.segs = new, !.deletes = MemoryDeletes, !.dirty = 0]
  BY DEF CommitPlan, Opened
<1>6. /\ \A j : j \in DOMAIN outs <=> \E p \in comp.outputs : p[1] = j
      /\ \A j \in DOMAIN outs : j \in DOMAIN OutputSegments
  BY OpenedOutputs
<1>7. \A j \in DOMAIN OutputSegments : j \in Nat /\ j < PastIDs(comp)
  BY <1>1, OutputSegmentsAre DEF PastIDs
<1>8. /\ PastIDs(comp) <= mem.reserved /\ PastIDs(comp) \in Nat /\ mem.reserved \in Nat
      /\ id \in Nat /\ id >= current.next /\ id >= mem.reserved /\ current.next \in Nat
  <2>1. PastIDs(comp) \in Nat
    BY <1>1, OutputSegmentsAre DEF PastIDs
  <2> QED BY <1>2, <1>4, <2>1, FreshNames, ManagerFields DEF IDsHeld, Manifests
<1>9. Typed(t)
  BY <1>1, <1>4, CommitPlanOK, BoundedTyped DEF MemOK
<1> HIDE DEF new, names, number, id
<1>10. t.segs = new /\ t.writing = mem.writing
  <2> DEFINE D == MemoryDeletes
  <2>1. t = [mem EXCEPT !.segs = new, !.deletes = D, !.dirty = 0]
    BY <1>5
  <2> HIDE DEF D, t
  <2> QED BY <1>4, <2>1 DEF Managers
<1>11. m.segs = names /\ m.wal = current.wal /\ m.next = id
  <2> HIDE DEF m
  <2> QED BY <1>4, <1>5 DEF Manifests
<1> HIDE DEF t, m
<1>12. Shape(t)
  BY <1>3, <1>10 DEF Shape
<1>13. WritingAcceptable(t.segs, t.writing)
  BY <1>4, <1>9, <1>12, ShapeAccepted
<1>14. /\ \A p, q \in current.segs : p[1] = q[1] => p = q
       /\ current.wal[1] \notin {p[1] : p \in current.segs}
       /\ \A p \in current.segs \cup {current.wal} : p[1] < current.next
  BY DEF DataInv, DiskSound, ValidManifest
<1>15. /\ \A i : i \in DOMAIN mem.segs <=> \E p \in current.segs : p[1] = i
       /\ mem.writing.id = current.wal[1]
  BY <1>14, MemoryIs, OpenedIs
<1>16. \A p, q \in comp.outputs : p[1] = q[1] => p = q
  BY <1>1, OutputsApart
<1>17. ASSUME NEW p \in comp.outputs
       PROVE  /\ p[1] \in DOMAIN outs /\ p[1] \notin DOMAIN mem.segs /\ p[1] \in Nat /\ p[1] < id
              /\ p[1] # mem.writing.id
  <2>1. p[1] \in DOMAIN outs
    BY <1>6
  <2>2. p[1] \in Nat /\ p[1] < PastIDs(comp) /\ p[1] \notin DOMAIN mem.segs
    BY <1>3, <1>6, <1>7, <2>1
  <2>3. p[1] \in DOMAIN new
    <3> HIDE DEF outs
    <3> QED BY <2>1 DEF new, Over
  <2> QED BY <1>3, <1>8, <2>1, <2>2, <2>3
<1>18. ValidManifest(m)
  <2>1. ASSUME NEW p \in names, NEW q \in names, p[1] = q[1] PROVE p = q
    <3>1. (p \in current.segs \/ p \in comp.outputs) /\ (q \in current.segs \/ q \in comp.outputs)
      BY DEF names
    <3> QED BY <1>14, <1>15, <1>16, <1>17, <2>1, <3>1
  <2>2. m.wal[1] \notin {p[1] : p \in names}
    <3>1. ASSUME NEW p \in names PROVE p[1] # current.wal[1]
      <4>1. p \in current.segs \/ p \in comp.outputs
        BY DEF names
      <4> QED BY <1>14, <1>15, <1>17, <4>1
    <3> QED BY <1>11, <3>1
  <2>3. ASSUME NEW p \in names \cup {current.wal} PROVE p[1] < id
    <3>1. p \in current.segs \cup {current.wal} \/ p \in comp.outputs
      BY DEF names
    <3>2. CASE p \in current.segs \cup {current.wal}
      <4>1. p[1] < current.next /\ p[1] \in Nat
        BY <1>4, <1>14, <3>2 DEF Manifests, Name
      <4> QED BY <1>8, <4>1
    <3> QED BY <1>17, <3>1, <3>2
  <2> QED BY <1>11, <2>1, <2>2, <2>3 DEF ValidManifest
<1>19. {p[1] : p \in comp.outputs} \cap (DOMAIN mem.segs \ ins) = {}
  BY <1>17
<1>20. /\ current.schema = comp.schema /\ ins \subseteq DOMAIN mem.segs
       /\ \A i \in ins : mem.segs[i] = comp.inputs[i]
  BY <1>2 DEF InputsHeld
<1> QED BY <1>3, <1>10, <1>13, <1>18, <1>19, <1>20 DEF CommitAccepted, t, m

LEMMA HeldInvariant == Spec => [](~DirSyncMayFail => CompactionHeld)
<1>1. Init => (~DirSyncMayFail => CompactionHeld)
  BY NoCompIs DEF Init, CompactionHeld
<1>2. TypeInv /\ (~DirSyncMayFail => DataInv) /\ (~DirSyncMayFail => CompactionHeld) /\ [Next]_vars
        => (~DirSyncMayFail => CompactionHeld)'
  <2> SUFFICES ASSUME TypeInv, ~DirSyncMayFail => DataInv, ~DirSyncMayFail => CompactionHeld, [Next]_vars,
                      ~DirSyncMayFail'
               PROVE  CompactionHeld'
    OBVIOUS
  <2>1. ~DirSyncMayFail
    BY ConfigKept DEF DirSyncMayFail
  <2> QED BY <2>1, StepHeld
<1> QED BY <1>1, <1>2, StoreInvariant, DataInvariant, PTL DEF Spec

\* No publication is ever refused: what Flush, RewriteDocuments and Commit
\* check of the segments, IDs and manifest they computed always holds, whatever
\* writes and flushes ran between BeginCompaction and Commit.  A flush never
\* has to give up its handle after CURRENT changed, and the work of a
\* compaction is never thrown away.
THEOREM PublicationsAreAccepted == Spec => [](~DirSyncMayFail => PublicationsNeverRejected)
<1>1. TypeInv /\ DataInv /\ CompactionHeld => PublicationsNeverRejected
  BY RotationHolds, RewriteHolds, CommitHolds DEF PublicationsNeverRejected
<1> QED BY <1>1, StoreInvariant, DataInvariant, HeldInvariant, PTL

-----------------------------------------------------------------------------
(* When a compaction has something to do.                                  *)

LEMMA QuotientIs ==
  ASSUME NEW c \in Nat \ {0}, NEW n \in Nat, NEW k \in Int
  PROVE  /\ n \div c \in Nat
         /\ n \div c = k <=> (c * k <= n /\ n < c * k + c)
<1> DEFINE p == n \div c
<1>1. p \in Nat /\ c * p <= n /\ n < c * p + c
  OBVIOUS
<1> HIDE DEF p
<1>2. ASSUME c * k <= n, n < c * k + c PROVE p = k
  <2>1. ASSUME p + 1 <= k PROVE FALSE
    <3>1. c * (p + 1) <= c * k /\ c * (p + 1) = c * p + c
      BY <1>1, <2>1
    <3> QED BY <1>1, <1>2, <3>1
  <2>2. ASSUME k + 1 <= p PROVE FALSE
    <3>1. c * (k + 1) <= c * p /\ c * (k + 1) = c * k + c
      BY <1>1, <2>2
    <3> QED BY <1>1, <1>2, <3>1
  <2> QED BY <1>1, <2>1, <2>2
<1> QED BY <1>1, <1>2 DEF p

LEMMA RunStartSame ==
  ASSUME NEW ids \in SUBSET Nat, NEW x \in ids, NEW y \in ids, x <= y, x..y \subseteq ids
  PROVE  RunStart(ids, y) = RunStart(ids, x)
<1> DEFINE u == RunStart(ids, x)
           v == RunStart(ids, y)
<1>1. u \in ids /\ u <= x /\ u..x \subseteq ids /\ \A t \in ids : t <= x /\ t..x \subseteq ids => u <= t
  BY RunStartIs
<1>2. v \in ids /\ v <= y /\ v..y \subseteq ids /\ \A t \in ids : t <= y /\ t..y \subseteq ids => v <= t
  BY RunStartIs
<1> HIDE DEF u, v
<1>3. u..y \subseteq ids /\ u <= y
  <2>1. ASSUME NEW z \in u..y PROVE z \in ids
    <3>1. z \in u..x \/ z \in x..y
      BY <1>1
    <3> QED BY <1>1, <3>1
  <2> QED BY <1>1, <2>1
<1>4. v <= u
  BY <1>1, <1>2, <1>3
<1>5. v..x \subseteq ids /\ v <= x
  BY <1>1, <1>2, <1>4
<1>6. u <= v
  BY <1>1, <1>2, <1>5
<1>7. u = v
  BY <1>1, <1>2, <1>4, <1>6
<1> QED BY <1>7 DEF u, v

\* The document IDs of a segment: an interval of at most Capacity numbers.
Convex(S) == \A a, b \in S, x \in Nat : a <= x /\ x <= b => x \in S
PieceOf(cap, S) == S \in SUBSET Nat /\ S # {} /\ IsFiniteSet(S) /\ Convex(S) /\ Cardinality(S) <= cap
Piece(S) == PieceOf(Capacity, S)

LEMMA PieceIs ==
  ASSUME NEW S, Piece(S)
  PROVE  /\ S \in SUBSET Nat /\ Min(S) \in S /\ Max(S) \in S /\ \A x \in S : Min(S) <= x /\ x <= Max(S)
         /\ \A x \in Nat : Min(S) <= x /\ x <= Max(S) => x \in S
         /\ Cardinality(S) = Max(S) - Min(S) + 1 /\ Cardinality(S) <= Capacity
<1>1. S \in SUBSET Nat /\ S # {} /\ IsFiniteSet(S) /\ Convex(S) /\ Cardinality(S) <= Capacity
  BY DEF Piece, PieceOf
<1> DEFINE a == Min(S)
           b == Max(S)
<1>2. a \in S /\ b \in S /\ \A x \in S : a <= x /\ x <= b
  BY <1>1, MinOfNats, MaxOfNats
<1> HIDE DEF a, b
<1>3. \A x \in Nat : a <= x /\ x <= b => x \in S
  BY <1>1, <1>2 DEF Convex
<1>4. a \in Nat /\ b \in Nat /\ a <= b
  BY <1>1, <1>2
<1>5. S = a..b
  <2>1. ASSUME NEW x \in S PROVE x \in a..b
    <3>1. x \in Nat /\ a <= x /\ x <= b
      BY <1>1, <1>2
    <3> QED BY <1>4, <3>1
  <2>2. ASSUME NEW x \in a..b PROVE x \in S
    <3>1. x \in Nat /\ a <= x /\ x <= b
      BY <1>4
    <3> QED BY <1>3, <3>1
  <2> QED BY <2>1, <2>2
<1>6. Cardinality(a..b) = b - a + 1
  BY <1>4, FS_Interval
<1> QED BY <1>1, <1>2, <1>3, <1>5, <1>6 DEF a, b

\* Segments that hold all documents of U, each of them once.
Pieces(P, U) ==
  /\ \A S \in P : Piece(S)
  /\ \A S, T \in P : (\E x : x \in S /\ x \in T) => S = T
  /\ \A x : x \in U <=> \E S \in P : x \in S

LEMMA NextPiece ==
  ASSUME NEW P, NEW U, Pieces(P, U), NEW S \in P, NEW x \in S, x + 1 \in U, x + 1 \notin S
  PROVE  x = Max(S) /\ \E T \in P : Min(T) = x + 1
<1>1. /\ S \in SUBSET Nat /\ Max(S) \in S /\ x <= Max(S) /\ Min(S) <= x
      /\ \A y \in Nat : Min(S) <= y /\ y <= Max(S) => y \in S
  BY PieceIs DEF Pieces
<1>2. x \in Nat /\ Max(S) \in Nat /\ Min(S) \in Nat
  <2>1. Min(S) \in S
    BY PieceIs DEF Pieces
  <2> QED BY <1>1, <2>1
<1>3. x = Max(S)
  BY <1>1, <1>2
<1>4. PICK T \in P : x + 1 \in T
  BY DEF Pieces
<1>5. /\ T \in SUBSET Nat /\ Min(T) \in T /\ Min(T) <= x + 1 /\ x + 1 <= Max(T) /\ Max(T) \in T
      /\ \A y \in Nat : Min(T) <= y /\ y <= Max(T) => y \in T
  BY <1>4, PieceIs DEF Pieces
<1>6. x \notin T
  BY <1>4 DEF Pieces
<1>7. Min(T) \in Nat /\ Max(T) \in Nat
  BY <1>5
<1>8. Min(T) = x + 1
  BY <1>2, <1>5, <1>6, <1>7
<1> QED BY <1>3, <1>8

\* No segment with room has a neighbour right after it.
NoRoom(P) == \A S, T \in P : Max(S) + 1 = Min(T) => Cardinality(S) >= Capacity

\* Then segments start at multiples of the capacity in their maximal run.
LEMMA PiecesAligned ==
  ASSUME Capacity \in Nat \ {0}, NEW P, NEW U \in SUBSET Nat, Pieces(P, U), NoRoom(P), NEW S \in P
  PROVE  \E q \in Nat : Min(S) = RunStart(U, Min(S)) + Capacity * q
<1> DEFINE Aligned(b) == \E q \in Nat : b = RunStart(U, b) + Capacity * q
           Bad == {b \in {Min(T) : T \in P} : ~Aligned(b)}
<1>1. \A T \in P : Min(T) \in T /\ Min(T) \in Nat /\ T \in SUBSET U
  BY PieceIs DEF Pieces
<1>2. ASSUME Bad # {} PROVE FALSE
  <2>1. Bad \in SUBSET Nat
    BY <1>1
  <2> DEFINE b == Min(Bad)
  <2>2. b \in Bad /\ \A c \in Bad : b <= c
    BY <1>2, <2>1, MinOfNats
  <2>3. PICK T \in P : b = Min(T) /\ ~Aligned(b)
    BY <2>2
  <2>4. \A R \in P : Min(R) < b => Aligned(Min(R))
    <3>1. ASSUME NEW R \in P, Min(R) < b, ~Aligned(Min(R)) PROVE FALSE
      <4>1. Min(R) \in Bad
        <5> HIDE DEF Aligned
        <5> QED BY <3>1
      <4>2. Min(R) \in Nat /\ b \in Nat
        BY <1>1, <2>1, <2>2
      <4> HIDE DEF b, Bad
      <4> QED BY <2>2, <3>1, <4>1, <4>2
    <3> HIDE DEF b, Bad, Aligned
    <3> QED BY <3>1
  <2> HIDE DEF b, Bad
  <2> DEFINE s == RunStart(U, b)
  <2>5. b \in U /\ b \in Nat /\ b \in T
    BY <1>1, <2>3
  <2>6. s \in Nat /\ s <= b /\ s..b \subseteq U
    BY <2>5, RunStartIs
  <2> HIDE DEF s
  <2>7. s # b
    <3>1. ASSUME s = b PROVE b = s + Capacity * 0 /\ 0 \in Nat
      BY <2>5, <3>1
    <3> HIDE DEF Aligned
    <3> QED BY <2>3, <3>1 DEF Aligned, s
  <2>8. b - 1 \in Nat /\ b - 1 \in U /\ (b - 1) + 1 = b
    BY <2>5, <2>6, <2>7
  <2>9. PICK R \in P : b - 1 \in R
    BY <2>8 DEF Pieces
  <2>10. b \notin R
    <3>1. b - 1 \notin T
      <4>1. \A x \in T : b <= x
        BY <2>3, PieceIs DEF Pieces
      <4> QED BY <2>5, <4>1
    <3>2. R # T
      BY <2>9, <3>1
    <3> QED BY <2>5, <3>2 DEF Pieces
  <2>11. b - 1 = Max(R)
    <3> DEFINE x == b - 1
    <3>1. x \in R /\ x + 1 \in U /\ x + 1 \notin R
      BY <2>5, <2>8, <2>9, <2>10
    <3> HIDE DEF x
    <3>2. x = Max(R)
      BY <3>1, NextPiece
    <3> QED BY <3>2 DEF x
  <2>12. Cardinality(R) >= Capacity
    BY <2>3, <2>8, <2>11 DEF NoRoom
  <2>13. /\ Cardinality(R) = Max(R) - Min(R) + 1 /\ Cardinality(R) <= Capacity /\ Min(R) \in Nat /\ Min(R) \in U
         /\ \A x \in Nat : Min(R) <= x /\ x <= Max(R) => x \in U
    BY <1>1, PieceIs DEF Pieces
  <2>14. Min(R) = b - Capacity /\ Min(R) < b
    BY <2>5, <2>11, <2>12, <2>13
  <2>15. PICK q \in Nat : Min(R) = RunStart(U, Min(R)) + Capacity * q
    BY <2>4, <2>14
  <2>16. RunStart(U, Min(R)) = s
    <3>1. Min(R)..b \subseteq U
      BY <2>5, <2>11, <2>13
    <3> QED BY <2>5, <2>13, <2>14, <3>1, RunStartSame DEF s
  <2>17. q + 1 \in Nat /\ b = s + Capacity * (q + 1)
    BY <2>5, <2>6, <2>14, <2>15, <2>16
  <2>18. Aligned(b)
    BY <2>17 DEF s
  <2> QED BY <2>3, <2>18
<1> QED BY <1>2

\* And they are the runs.
LEMMA PieceIsRun ==
  ASSUME Capacity \in Nat \ {0}, NEW P, NEW U \in SUBSET Nat, Pieces(P, U), NoRoom(P), NEW S \in P
  PROVE  S \in DocumentRuns(U)
<1> DEFINE b == Min(S)
           m == Max(S)
           s == RunStart(U, b)
<1>1. /\ S \in SUBSET Nat /\ b \in S /\ m \in S /\ \A x \in S : b <= x /\ x <= m
      /\ \A x \in Nat : b <= x /\ x <= m => x \in S
      /\ Cardinality(S) = m - b + 1 /\ Cardinality(S) <= Capacity
  BY PieceIs DEF Pieces
<1>2. S \in SUBSET U /\ b \in U /\ b \in Nat /\ m \in Nat
  BY <1>1 DEF Pieces
<1>3. PICK q \in Nat : b = s + Capacity * q
  BY PiecesAligned
<1>4. s \in Nat
  BY <1>2, RunStartIs
<1> HIDE DEF b, m, s
<1>5. b - s \in Nat /\ (b - s) \div Capacity = q
  <2>1. Capacity * q \in Nat /\ b - s = Capacity * q
    BY <1>2, <1>3, <1>4
  <2> QED BY <2>1, QuotientIs
<1>6. ASSUME NEW e \in S PROVE RunStart(U, e) = s /\ (e - s) \div Capacity = q
  <2>1. e \in U /\ e \in Nat /\ b <= e /\ e <= m /\ e < b + Capacity
    BY <1>1, <1>2
  <2>2. b..e \subseteq U
    BY <1>1, <1>2, <2>1
  <2>3. RunStart(U, e) = s
    BY <1>2, <2>1, <2>2, RunStartSame DEF s
  <2>4. e - s \in Nat /\ Capacity * q \in Nat /\ Capacity * q <= e - s /\ e - s < Capacity * q + Capacity
    BY <1>2, <1>3, <1>4, <2>1
  <2> QED BY <2>3, <2>4, QuotientIs
<1>7. ASSUME NEW e \in U, RunStart(U, e) = s, (e - s) \div Capacity = q PROVE e \in S
  <2>1. s <= e /\ s..e \subseteq U /\ e \in Nat
    BY <1>7, RunStartIs
  <2>2. e - s \in Nat
    BY <1>4, <2>1
  <2>3. Capacity * q <= e - s /\ e - s < Capacity * q + Capacity
    BY <1>7, <2>2, QuotientIs
  <2>4. Capacity * q \in Nat
    OBVIOUS
  <2>5. b <= e /\ e < b + Capacity
    BY <1>2, <1>3, <1>4, <2>1, <2>3, <2>4
  <2>6. ASSUME m < e PROVE FALSE
    <3>1. m + 1 \in U
      <4>1. m + 1 \in s..e
        BY <1>1, <1>2, <1>3, <1>4, <2>1, <2>4, <2>6
      <4> QED BY <2>1, <4>1
    <3>2. m + 1 \notin S
      BY <1>1, <1>2
    <3>3. \E T \in P : Min(T) = m + 1
      <4>1. m \in S
        BY <1>1 DEF m
      <4> QED BY <3>1, <3>2, <4>1, NextPiece
    <3>4. Cardinality(S) >= Capacity
      BY <3>3 DEF NoRoom, m
    <3> QED BY <1>1, <1>2, <2>1, <2>5, <2>6, <3>4
  <2> QED BY <1>1, <1>2, <2>1, <2>5, <2>6
<1>8. S = {e \in U : SameRun(U, b, e)}
  <2>1. \A e \in U : SameRun(U, b, e) <=> RunStart(U, e) = s /\ (e - s) \div Capacity = q
    BY <1>5 DEF SameRun, s
  <2> QED BY <1>2, <1>6, <1>7, <2>1
<1> QED BY <1>2, <1>8, RunOfIs DEF DocumentRuns

LEMMA RunsOfPieces ==
  ASSUME Capacity \in Nat \ {0}, NEW P, NEW U \in SUBSET Nat, Pieces(P, U)
  PROVE  DocumentRuns(U) = P <=> NoRoom(P)
<1>1. ASSUME NoRoom(P) PROVE DocumentRuns(U) = P
  <2>1. \A S \in P : S \in DocumentRuns(U)
    BY <1>1, PieceIsRun
  <2>2. ASSUME NEW r \in DocumentRuns(U) PROVE r \in P
    <3>1. /\ r \in SUBSET U /\ r # {}
          /\ \A q \in DocumentRuns(U) : (\E d : d \in q /\ d \in r) => q = r
      BY RunsPartition
    <3>2. PICK x : x \in r /\ x \in U
      BY <3>1
    <3>3. PICK S \in P : x \in S
      BY <3>2 DEF Pieces
    <3> QED BY <2>1, <3>1, <3>2, <3>3
  <2> QED BY <2>1, <2>2
<1>2. ASSUME DocumentRuns(U) = P, NEW S \in P, NEW T \in P, Max(S) + 1 = Min(T), ~(Cardinality(S) >= Capacity)
      PROVE  FALSE
  <2> DEFINE m == Max(S)
  <2>1. /\ S \in SUBSET Nat /\ m \in S /\ Min(S) \in S /\ \A x \in S : Min(S) <= x /\ x <= m
        /\ Cardinality(S) = m - Min(S) + 1
    BY PieceIs DEF Pieces
  <2>2. Min(T) \in T
    BY PieceIs DEF Pieces
  <2>3. m \in U /\ m + 1 \in U /\ m \in Nat /\ Min(S) \in Nat
    <3>1. m \in Nat /\ Min(S) \in Nat
      BY <2>1
    <3>2. m \in U /\ Min(T) \in U
      BY <2>1, <2>2 DEF Pieces
    <3>3. m + 1 = Min(T)
      BY <1>2
    <3> QED BY <3>1, <3>2, <3>3
  <2> HIDE DEF m
  <2>4. m + 1 \notin S
    BY <2>1, <2>3
  <2>5. PICK d \in U : S = {e \in U : SameRun(U, d, e)}
    BY <1>2, RunOfIs DEF DocumentRuns
  <2> DEFINE s == RunStart(U, d)
             k == (d - s) \div Capacity
  <2>6. \A e \in U : e \in S <=> RunStart(U, e) = s /\ (e - s) \div Capacity = k
    BY <2>5 DEF SameRun
  <2>7. s \in Nat /\ s <= m /\ s..m \subseteq U /\ RunStart(U, m) = s /\ (m - s) \div Capacity = k
    <3>1. RunStart(U, m) \in U /\ RunStart(U, m) <= m /\ RunStart(U, m)..m \subseteq U
      BY <2>3, RunStartIs
    <3>2. RunStart(U, m) = s /\ (m - s) \div Capacity = k
      BY <2>1, <2>3, <2>6
    <3> HIDE DEF s, k
    <3> QED BY <3>1, <3>2
  <2> HIDE DEF s, k
  <2>8. RunStart(U, m + 1) = s
    <3>1. m..(m + 1) \subseteq U
      <4>1. \A x \in m..(m + 1) : x = m \/ x = m + 1
        BY <2>3
      <4> QED BY <2>3, <4>1
    <3> QED BY <2>3, <2>7, <3>1, RunStartSame
  <2>9. ((m + 1) - s) \div Capacity # k
    <3> DEFINE n == m + 1
    <3>1. n \in U /\ n \notin S /\ RunStart(U, n) = s
      BY <2>3, <2>4, <2>8
    <3> HIDE DEF n
    <3>2. n \in S <=> RunStart(U, n) = s /\ (n - s) \div Capacity = k
      <4> HIDE DEF s, k
      <4> QED BY <2>6, <3>1
    <3>3. (n - s) \div Capacity # k
      <4> HIDE DEF s, k
      <4> QED BY <3>1, <3>2
    <3> QED BY <3>3 DEF n
  <2>10. m - s \in Nat /\ (m + 1) - s \in Nat
    BY <2>3, <2>7
  <2>11. k \in Nat /\ Capacity * k <= m - s /\ Capacity * k \in Nat
    <3>1. k \in Nat
      BY <2>7, <2>10, QuotientIs
    <3> QED BY <2>7, <2>10, <3>1, QuotientIs
  <2>12. ~((m + 1) - s < Capacity * k + Capacity)
    <3> DEFINE ck == Capacity * k
               n == (m + 1) - s
    <3>1. ck \in Nat /\ ck <= m - s /\ n \in Nat /\ n = (m - s) + 1
      BY <2>3, <2>7, <2>10, <2>11
    <3>2. ck <= n
      <4> HIDE DEF ck, n
      <4> QED BY <2>10, <3>1
    <3>3. n \div Capacity # k /\ k \in Int
      BY <2>9, <2>11
    <3>4. n \div Capacity = k <=> (Capacity * k <= n /\ n < Capacity * k + Capacity)
      <4> HIDE DEF n
      <4> QED BY <3>1, <3>3, QuotientIs
    <3> HIDE DEF n
    <3> QED BY <3>2, <3>3, <3>4 DEF n
  <2> DEFINE a == s + Capacity * k
  <2>13. a \in Nat /\ s <= a /\ a <= m /\ (m + 1) - a >= Capacity
    BY <2>7, <2>10, <2>11, <2>12, <2>3
  <2>14. a \in U
    BY <2>7, <2>13, <2>3
  <2>15. RunStart(U, a) = s
    <3>1. a..m \subseteq U
      BY <2>3, <2>7, <2>13
    <3> HIDE DEF a
    <3> QED BY <2>3, <2>7, <2>13, <2>14, <3>1, RunStartSame
  <2>16. (a - s) \div Capacity = k
    <3>1. a - s = Capacity * k /\ a - s \in Nat
      BY <2>7, <2>11
    <3> HIDE DEF a
    <3> QED BY <2>11, <3>1, QuotientIs
  <2> HIDE DEF a
  <2>17. a \in S
    BY <2>6, <2>14, <2>15, <2>16
  <2> QED BY <1>2, <2>1, <2>3, <2>13, <2>17 DEF m
<1> QED BY <1>1, <1>2 DEF NoRoom

\* The writing segment is never longer than the capacity.
Room(cap, w) == Cardinality(DOMAIN w.docs) <= cap

LEMMA EffectRoom ==
  ASSUME NEW s, NEW t, NEW op \in Ops, NEW cap \in Nat, Typed(s), Effect(s, t, op), Accepts(cap, s, op),
         Room(cap, s.writing)
  PROVE  Room(cap, t.writing)
<1>1. /\ s.writing \in WriteSegments /\ t.writing \in WriteSegments /\ t.writing.min = s.writing.min
      /\ t.writing.docs = DocsAfter(s.writing, op) /\ Contiguous(s.writing)
      /\ (op.type # "delete" => op.doc = NextDocumentID(s.writing))
  BY AcceptsPlaced DEF Typed, Effect, Placed
<1>2. /\ Contiguous(t.writing)
      /\ op.type # "delete" => NextDocumentID(t.writing) = NextDocumentID(s.writing) + 1
  BY <1>1, AppendContiguous
<1>3. CASE op.type = "delete"
  BY <1>1, <1>3 DEF DocsAfter, Room
<1>4. CASE op.type # "delete"
  <2> DEFINE n == Cardinality(DOMAIN s.writing.docs)
             m == Cardinality(DOMAIN t.writing.docs)
             a == s.writing.min
  <2>1. a \in Nat /\ n \in Nat /\ m \in Nat
    BY <1>1, <1>2, FS_CardinalityType DEF Contiguous, WriteSegments
  <2>2. ~(n >= cap)
    BY <1>4 DEF Accepts
  <2>3. a + m = a + n + 1
    BY <1>1, <1>2, <1>4 DEF NextDocumentID
  <2> HIDE DEF n, m, a
  <2>4. m <= cap
    BY <2>1, <2>2, <2>3
  <2> QED BY <2>4 DEF Room, m
<1> QED BY <1>3, <1>4

LEMMA ReplayRoom ==
  ASSUME NEW c, NEW cap \in Nat, NEW schema, NEW s, NEW recs, ReplayTyped(c, s, recs), Valid(cap, schema, s, recs),
         Room(cap, s.writing), NEW n \in 0..Len(recs)
  PROVE  Room(cap, Replay(cap, s, recs, n).writing)
<1> DEFINE R(i) == Replay(cap, s, recs, i)
           Bad == {i \in 0..Len(recs) : ~Room(cap, R(i).writing)}
<1>0. Len(recs) \in Nat
  BY DEF ReplayTyped
<1>1. \A i \in 0..Len(recs) : R(i).ok /\ Typed(R(i))
  BY ReplayFields DEF Valid
<1>2. Bad = {}
  <2>1. SUFFICES ASSUME Bad # {} PROVE FALSE
    OBVIOUS
  <2>2. Bad \in SUBSET Nat
    OBVIOUS
  <2>3. PICK b \in Bad : \A i \in Bad : b <= i
    BY <2>1, <2>2, LeastNat
  <2>4. b # 0
    <3>1. R(0) = s
      BY ReplayStep
    <3> QED BY <2>3, <3>1
  <2>5. /\ b - 1 \in 0..Len(recs) /\ b - 1 < Len(recs) /\ ~(b <= b - 1) /\ (b - 1) + 1 = b
        /\ b \in 0..Len(recs)
    BY <1>0, <2>3, <2>4
  <2>6. Room(cap, R(b - 1).writing)
    BY <2>3, <2>5
  <2>7. /\ Effect(R(b - 1), R(b), recs[b]) /\ recs[b] \in Ops
        /\ R(b).ok <=> R(b - 1).ok /\ Accepts(cap, R(b - 1), recs[b])
    <3>1. /\ Effect(R(b - 1), R((b - 1) + 1), recs[(b - 1) + 1]) /\ recs[(b - 1) + 1] \in Ops
          /\ R((b - 1) + 1).ok <=> R(b - 1).ok /\ Accepts(cap, R(b - 1), recs[(b - 1) + 1])
      BY <2>5, ReplayNext
    <3> QED BY <2>5, <3>1
  <2>8. ~Room(cap, R(b).writing)
    BY <2>3
  <2> HIDE DEF R
  <2> QED BY <1>1, <2>5, <2>6, <2>7, <2>8, EffectRoom
<1> QED BY <1>2

LEMMA WritableRoom ==
  ASSUME TypeInv, DataInv, Writable
  PROVE  Room(Capacity, mem.writing)
<1> DEFINE base == Checkpoint(current)
           r == Replay(Capacity, base, Wal.recs, Len(Wal.recs))
<1>1. FilesPresent(current) /\ Valid(Capacity, current.schema, base, Wal.recs) /\ SameState(r, mem)
  BY DEF DataInv, DiskSound, MemorySound
<1>2. ReplayTyped(config, base, Wal.recs) /\ Len(Wal.recs) \in 0..Len(Wal.recs)
  BY <1>1, CheckpointTyped DEF Present, ReplayReady, ReplayTyped
<1>3. Capacity \in Nat
  BY ConfigIs DEF TypeInv, DiskOK
<1>4. Room(Capacity, base.writing)
  <2>1. base.writing.docs = EmptyMap
    BY DEF Checkpoint, NewWriteSegment
  <2> QED BY <1>3, <2>1, EmptyMapIs, FS_EmptySet DEF Room
<1> HIDE DEF base
<1>5. Room(Capacity, r.writing)
  BY <1>1, <1>2, <1>3, <1>4, ReplayRoom
<1> QED BY <1>1, <1>5 DEF SameState

LEMMA WritingPiece ==
  ASSUME NEW cap \in Nat, NEW w \in WriteSegments, Contiguous(w), Room(cap, w), w.docs # EmptyMap
  PROVE  PieceOf(cap, DOMAIN w.docs)
<1> DEFINE S == DOMAIN w.docs
           a == w.min
           b == NextDocumentID(w) - 1
<1>1. a \in Nat /\ b \in Int /\ S = a..b /\ IsFiniteSet(S)
  BY DEF Contiguous, WriteSegments
<1>2. S # {}
  BY PartialIs, EmptyMapIs DEF WriteSegments, Documents
<1>3. Cardinality(S) <= cap
  BY DEF Room
<1> HIDE DEF S, a, b
<1>4. S \in SUBSET Nat /\ Convex(S)
  BY <1>1 DEF Convex
<1> QED BY <1>1, <1>2, <1>3, <1>4 DEF PieceOf, S

LEMMA RunPiece ==
  ASSUME Capacity \in Nat \ {0}, NEW ids \in SUBSET Nat, IsFiniteSet(ids), NEW r \in DocumentRuns(ids)
  PROVE  PieceOf(Capacity, r)
<1>1. r \in SUBSET ids /\ r # {}
  BY RunsPartition
<1>2. IsFiniteSet(r) /\ r \in SUBSET Nat
  BY <1>1, FS_Subset
<1>3. Convex(r)
  BY RunsConvex DEF Convex
<1>4. PICK d \in ids : r = {e \in ids : SameRun(ids, d, e)}
  BY RunOfIs DEF DocumentRuns
<1> DEFINE s == RunStart(ids, d)
           k == (d - s) \div Capacity
           ck == Capacity * k
           a == s + ck
           b == a + (Capacity - 1)
<1>5. \A e \in r : e \in ids /\ RunStart(ids, e) = s /\ (e - s) \div Capacity = k
  BY <1>4 DEF SameRun
<1>6. s \in Nat /\ s <= d /\ d \in Nat
  BY RunStartIs
<1> HIDE DEF s
<1>7. k \in Nat
  BY <1>6, QuotientIs
<1> HIDE DEF k
<1>8. ck \in Nat
  BY <1>7
<1>9. ASSUME NEW e \in r PROVE e \in a..b
  <2>1. e \in Nat /\ s <= e
    <3>1. RunStart(ids, e) <= e /\ e \in Nat
      BY <1>5, RunStartIs
    <3> QED BY <1>5, <3>1
  <2>2. e - s \in Nat
    BY <1>6, <2>1
  <2>3. ck <= e - s /\ e - s < ck + Capacity
    BY <1>5, <1>7, <2>2, QuotientIs
  <2> HIDE DEF ck
  <2> QED BY <1>6, <1>8, <2>1, <2>2, <2>3
<1> HIDE DEF ck
<1>10. a \in Int /\ b \in Int /\ ~(a > b) /\ (b - a) + 1 = Capacity
  BY <1>6, <1>8
<1> HIDE DEF a, b
<1>11. IsFiniteSet(a..b) /\ Cardinality(a..b) = Capacity
  BY <1>10, FS_Interval
<1>12. Cardinality(r) <= Capacity
  BY <1>9, <1>11, FS_Subset
<1> QED BY <1>1, <1>2, <1>3, <1>12 DEF PieceOf

\* Segments cut from runs.
LEMMA CutPieces ==
  ASSUME Capacity \in Nat \ {0}, NEW docs \in Documents, NEW ids \in SUBSET DOMAIN docs, IsFiniteSet(ids),
         NEW firstID \in Nat
  PROVE  LET segs == SegmentsOf(DocumentRuns(ids), docs, firstID)
         IN  \A i \in DOMAIN segs : PieceOf(Capacity, DOMAIN segs[i])
<1> DEFINE runs == DocumentRuns(ids)
           segs == SegmentsOf(runs, docs, firstID)
<1>1. ids \in SUBSET Nat
  BY PartialIs DEF Documents
<1>2. \A i \in DOMAIN segs : \E r \in runs : segs[i] = Restrict(docs, r)
  BY SegmentsOfIs
<1>3. \A r \in runs : PieceOf(Capacity, r) /\ DOMAIN Restrict(docs, r) = r
  BY <1>1, RunPiece, RestrictIs
<1> HIDE DEF segs, runs
<1>4. \A i \in DOMAIN segs : PieceOf(Capacity, DOMAIN segs[i])
  BY <1>2, <1>3
<1> QED BY <1>4 DEF segs, runs

\* Every segment file holds an interval of at most Capacity documents, and so
\* does every input of a compaction; its captured deletions name documents of
\* the inputs.
Packed(cap, sf) == \A p \in DOMAIN sf : PieceOf(cap, DOMAIN sf[p])
TidyInputs(cap, ins, captured) ==
  /\ ImmutablesAcceptable(ins) /\ \A i \in DOMAIN ins : PieceOf(cap, DOMAIN ins[i])
  /\ captured \subseteq DOMAIN Merged(Range(ins))
LayoutInv ==
  /\ Packed(Capacity, segFiles)
  /\ comp.phase = "begun" => TidyInputs(Capacity, comp.inputs, comp.captured)

LEMMA PackedOver ==
  ASSUME NEW cap, NEW f, NEW g, Packed(cap, f), Packed(cap, g)
  PROVE  Packed(cap, Over(f, g))
<1>1. \A p \in DOMAIN f : PieceOf(cap, DOMAIN f[p])
  BY DEF Packed
<1>2. \A p \in DOMAIN g : PieceOf(cap, DOMAIN g[p])
  BY DEF Packed
<1> DEFINE h == Over(f, g)
<1>3. /\ DOMAIN h = DOMAIN f \cup DOMAIN g
      /\ \A x \in DOMAIN f : h[x] = f[x]
      /\ \A x \in DOMAIN g : x \notin DOMAIN f => h[x] = g[x]
  BY OverIs
<1> HIDE DEF h
<1>4. \A p \in DOMAIN h : PieceOf(cap, DOMAIN h[p])
  BY <1>1, <1>2, <1>3
<1> QED BY <1>4 DEF Packed, h

LEMMA PackedRestrict ==
  ASSUME NEW cap, NEW f, Packed(cap, f), NEW S \in SUBSET DOMAIN f
  PROVE  Packed(cap, Restrict(f, S))
<1>1. \A p \in DOMAIN f : PieceOf(cap, DOMAIN f[p])
  BY DEF Packed
<1>2. DOMAIN Restrict(f, S) = S /\ \A x \in S : Restrict(f, S)[x] = f[x]
  BY RestrictIs
<1> QED BY <1>1, <1>2 DEF Packed

LEMMA PackedEntry ==
  ASSUME NEW cap, NEW name, NEW docs, PieceOf(cap, DOMAIN docs)
  PROVE  Packed(cap, Entry(name, docs))
BY DEF Packed, Entry

LEMMA PackedEmpty == ASSUME NEW cap PROVE Packed(cap, EmptyMap)
BY EmptyMapIs DEF Packed

\* Publications.
LEMMA PackedPlan ==
  ASSUME NEW plan, Committed(plan) \/ Abandoned(plan), config' = config,
         Packed(Capacity, plan.segs), Packed(Capacity, segFiles)
  PROVE  Packed(Capacity, segFiles')
<1>1. segFiles' = Over(plan.segs, segFiles) \/ segFiles' = segFiles
  BY DEF Committed, Abandoned
<1> QED BY <1>1, PackedOver

LEMMA PackedFlush ==
  ASSUME TypeInv, DataInv, Writable
  PROVE  Packed(Capacity, FlushPlan.segs)
<1> DEFINE w == mem.writing
           seg == SegmentName(w.id, current.gen + 1)
<1>1. FlushPlan.segs = IF w.docs # EmptyMap THEN Entry(seg, w.docs) ELSE EmptyMap
  BY DEF FlushPlan
<1>2. CASE w.docs # EmptyMap
  <2>1. w \in WriteSegments /\ Contiguous(w) /\ Room(Capacity, w) /\ Capacity \in Nat
    BY MemoryIs, WritableRoom, ConfigIs DEF Typed, TypeInv, DiskOK
  <2>2. PieceOf(Capacity, DOMAIN w.docs)
    BY <1>2, <2>1, WritingPiece
  <2> QED BY <1>1, <1>2, <2>2, PackedEntry
<1>3. CASE w.docs = EmptyMap
  BY <1>1, <1>3, PackedEmpty
<1> QED BY <1>2, <1>3

LEMMA PackedRewrite ==
  ASSUME TypeInv, NEW schema \in 1..config.maxSchema
  PROVE  Packed(Capacity, RewritePlan(schema).segs)
<1> DEFINE docs  == Rewritten(schema)
           segs  == SegmentsOf(DocumentRuns(DOMAIN docs), docs, NextSegmentID)
           names == {SegmentName(i, current.gen + 1) : i \in DOMAIN segs}
           files == [p \in names |-> segs[p[1]]]
<1>1. DiskOK /\ MemOK(config, mem) /\ Capacity \in Nat \ {0}
  BY ConfigIs DEF TypeInv, DiskOK
<1>2. RewritePlan(schema).segs = files
  BY DEF RewritePlan, Rewritten
<1>3. docs \in Documents /\ DOMAIN docs \in SUBSET DOMAIN docs /\ IsFiniteSet(DOMAIN docs)
  BY <1>1, RewrittenIs
<1>4. NextSegmentID \in Nat /\ \A i \in Nat : SegmentName(i, current.gen + 1)[1] = i
  BY <1>1, FreshNames
<1> HIDE DEF docs
<1>5. \A i \in DOMAIN segs : PieceOf(Capacity, DOMAIN segs[i])
  BY <1>1, <1>3, <1>4, CutPieces
<1>6. DOMAIN segs \in SUBSET Nat
  <2>1. segs \in SegmentMaps
    BY <1>3, <1>4, SegmentsHold
  <2> QED BY <2>1, PartialIs DEF SegmentMaps
<1> HIDE DEF segs
<1>7. \A p \in names : p[1] \in DOMAIN segs
  BY <1>4, <1>6
<1>8. \A p \in names : PieceOf(Capacity, DOMAIN files[p])
  BY <1>5, <1>7
<1> QED BY <1>2, <1>8 DEF Packed

LEMMA PackedOutput ==
  ASSUME TypeInv, PrepareOutput, Packed(Capacity, segFiles)
  PROVE  Packed(Capacity, segFiles')
<1> DEFINE n    == Cardinality(comp.outputs)
           id   == comp.first + n
           name == SegmentName(id, comp.gen + 1)
           docs == OutputSegments[id]
           ids  == DOMAIN InputDocuments \ comp.captured
<1>1. comp.phase = "writing" /\ ~Prepared /\ segFiles' = Over(Entry(name, docs), segFiles)
  BY DEF PrepareOutput
<1>2. /\ comp.runs = OutputRuns /\ IsFiniteSet(comp.outputs) /\ n <= Cardinality(comp.runs)
      /\ {p[1] : p \in comp.outputs} = comp.first..(comp.first + n - 1)
      /\ Capacity \in Nat \ {0}
  BY <1>1, ConfigIs DEF TypeInv, CompOK, DiskOK
<1>3. n \in Nat
  BY <1>2, FS_CardinalityType
<1>4. /\ Cardinality(comp.runs) \in Nat /\ comp.first \in Nat
      /\ DOMAIN OutputSegments = comp.first..(comp.first + Cardinality(comp.runs) - 1)
  BY <1>1, OutputSegmentsAre
<1>5. n < Cardinality(comp.runs)
  <2>1. n # Cardinality(comp.runs)
    BY <1>1, <1>2, <1>4 DEF Prepared
  <2> QED BY <1>2, <1>3, <1>4, <2>1
<1>6. id \in DOMAIN OutputSegments
  BY <1>3, <1>4, <1>5
<1>7. \A i \in DOMAIN OutputSegments : PieceOf(Capacity, DOMAIN OutputSegments[i])
  <2>1. InputDocuments \in Documents /\ ids \in SUBSET DOMAIN InputDocuments /\ IsFiniteSet(ids)
    BY InputsAre
  <2>2. OutputSegments = SegmentsOf(DocumentRuns(ids), InputDocuments, comp.first)
    BY <1>2 DEF OutputSegments, OutputRuns
  <2> DEFINE docs0 == InputDocuments
             a == comp.first
  <2> HIDE DEF docs0, ids, a
  <2>3. \A i \in DOMAIN SegmentsOf(DocumentRuns(ids), docs0, a) :
          PieceOf(Capacity, DOMAIN SegmentsOf(DocumentRuns(ids), docs0, a)[i])
    BY <1>2, <1>4, <2>1, CutPieces DEF docs0, a
  <2> QED BY <2>2, <2>3 DEF docs0, a
<1>8. PieceOf(Capacity, DOMAIN docs)
  BY <1>6, <1>7
<1> HIDE DEF docs, name
<1> QED BY <1>1, <1>8, PackedOver, PackedEntry

LEMMA BeginTidy ==
  ASSUME TypeInv, DataInv, LayoutInv, BeginCompaction
  PROVE  TidyInputs(Capacity, mem.segs, mem.deletes)
<1>1. Writable /\ mem.writing.docs = EmptyMap
  BY DEF BeginCompaction, FlushNeeded
<1>2. /\ Typed(mem) /\ Shape(mem) /\ Exact(mem) /\ mem.segs = Opened(current.segs, segFiles)
  BY <1>1, MemoryIs DEF Sound
<1>3. \A p, q \in current.segs : p[1] = q[1] => p = q
  BY DEF DataInv, DiskSound, ValidManifest
<1>4. current.segs \subseteq DOMAIN segFiles
  BY DEF DataInv, DiskSound, FilesPresent
<1>5. \A i \in DOMAIN mem.segs : PieceOf(Capacity, DOMAIN mem.segs[i])
  <2>1. \A p \in current.segs : PieceOf(Capacity, DOMAIN segFiles[p])
    BY <1>4 DEF LayoutInv, Packed
  <2>2. /\ \A id : id \in DOMAIN mem.segs <=> \E p \in current.segs : p[1] = id
        /\ \A p \in current.segs : mem.segs[p[1]] = segFiles[p]
    BY <1>2, <1>3, OpenedIs
  <2> QED BY <2>1, <2>2
<1>6. mem.deletes \subseteq DOMAIN Merged(Range(mem.segs))
  <2> DEFINE fs == Range(mem.segs)
  <2>1. mem.deletes \subseteq DOMAIN Retained(mem)
    BY <1>2 DEF Exact
  <2>2. \A d \in DOMAIN Retained(mem) : \E i \in DOMAIN mem.segs : d \in DOMAIN mem.segs[i]
    BY <1>1, <1>2, RetainedIs, EmptyMapIs
  <2>3. \A i \in DOMAIN mem.segs : mem.segs[i] \in fs
    BY <1>2, SegmentMembers DEF Typed
  <2>4. DOMAIN Merged(fs) = UNION {DOMAIN f : f \in fs}
    BY MergedIs
  <2> HIDE DEF fs
  <2>5. \A d \in DOMAIN Retained(mem) : d \in DOMAIN Merged(fs)
    BY <2>2, <2>3, <2>4
  <2> QED BY <2>1, <2>5 DEF fs
<1> QED BY <1>2, <1>5, <1>6 DEF TidyInputs, Shape

LEMMA StepPacked ==
  ASSUME TypeInv, DataInv, Packed(Capacity, segFiles), [Next]_vars
  PROVE  Packed(Capacity, segFiles')
<1>0. config' = config
  BY ConfigKept
<1>1. CASE segFiles' = segFiles
  BY <1>1
<1>2. CASE Flush
  <2>1. Writable /\ (Committed(FlushPlan) \/ Abandoned(FlushPlan))
    BY <1>2 DEF Flush
  <2> DEFINE plan == FlushPlan
  <2>2. Packed(Capacity, plan.segs)
    BY <2>1, PackedFlush
  <2> HIDE DEF plan
  <2> QED BY <1>0, <2>1, <2>2, PackedPlan DEF plan
<1>3. CASE RewriteDocuments
  <2> DEFINE schema == current.schema + 1
             plan == RewritePlan(schema)
  <2>1. current.schema < MaxSchema /\ (Committed(plan) \/ Abandoned(plan))
    BY <1>3 DEF RewriteDocuments
  <2>2. schema \in 1..config.maxSchema
    <3>1. current.schema \in Nat /\ config.maxSchema \in Nat /\ MaxSchema = config.maxSchema
      BY ConfigIs DEF TypeInv, DiskOK, ManifestOK, Manifests
    <3> QED BY <2>1, <3>1
  <2> HIDE DEF schema
  <2>3. Packed(Capacity, plan.segs)
    BY <2>2, PackedRewrite
  <2> HIDE DEF plan
  <2> QED BY <1>0, <2>1, <2>3, PackedPlan
<1>4. CASE PublishMetadata
  <2> DEFINE plan == [manifest |-> current, segs |-> EmptyMap, idmaps |-> EmptyMap,
                      deletes |-> EmptyMap, wals |-> EmptyMap, syncs |-> FALSE]
  <2>1. Committed(plan) \/ Abandoned(plan)
    BY <1>4 DEF PublishMetadata
  <2>2. Packed(Capacity, plan.segs)
    BY PackedEmpty
  <2> HIDE DEF plan
  <2> QED BY <1>0, <2>1, <2>2, PackedPlan
<1>5. CASE PrepareOutput
  BY <1>5, PackedOutput
<1>6. CASE Commit
  <2>1. PICK plan : (Committed(plan) \/ Abandoned(plan)) /\ plan.segs = EmptyMap
    <3>1. CASE Committed(CommitPlan)
      BY <3>1 DEF CommitPlan
    <3>2. CASE \E synced \in BOOLEAN : Abandoned([CommitPlan EXCEPT !.syncs = synced])
      <4>1. PICK synced \in BOOLEAN : Abandoned([CommitPlan EXCEPT !.syncs = synced])
        BY <3>2
      <4>2. [CommitPlan EXCEPT !.syncs = synced].segs = EmptyMap
        BY DEF CommitPlan
      <4> QED BY <4>1, <4>2
    <3> QED BY <1>6, <3>1, <3>2 DEF Commit
  <2> QED BY <1>0, <2>1, PackedPlan, PackedEmpty
<1>7. CASE CompactionClose
  <2>1. segFiles' = segFiles \/ segFiles' = Restrict(segFiles, DOMAIN segFiles \ comp.outputs)
    BY <1>7 DEF CompactionClose, Without
  <2> QED BY <2>1, PackedRestrict
<1>8. CASE PruneObsoleteArtifacts
  <2>1. segFiles' = Restrict(segFiles, DOMAIN segFiles \cap current.segs)
    BY <1>8 DEF PruneObsoleteArtifacts, Kept, Keep
  <2> QED BY <2>1, PackedRestrict
<1>9. CASE \/ UNCHANGED vars
           \/ \E k \in config.keys : Insert(k) \/ Upsert(k) \/ Update(k) \/ Delete(k)
           \/ WalFails \/ BeginCompaction \/ PrepareReserve \/ CreateIterator \/ CloseIterator
           \/ Close \/ Kill \/ PowerLoss \/ OpenCollection
  <2>1. segFiles' = segFiles
    BY <1>9 DEF vars, diskVars, Insert, Upsert, Update, Delete, LogAndApply, WalFails, BeginCompaction, PrepareReserve,
                CreateIterator, CloseIterator, Close, Kill, PowerLoss, OpenCollection
  <2> QED BY <1>1, <2>1
<1> QED BY <1>2, <1>3, <1>4, <1>5, <1>6, <1>7, <1>8, <1>9 DEF Next

LEMMA StepLayout ==
  ASSUME TypeInv, DataInv, LayoutInv, [Next]_vars
  PROVE  LayoutInv'
<1>0. config' = config /\ Capacity' = Capacity
  BY ConfigKept DEF Capacity
<1>1. Packed(Capacity, segFiles')
  BY StepPacked DEF LayoutInv
<1>2. comp \in Compactions
  BY DEF TypeInv, CompOK
<1>3. ASSUME comp'.phase = "begun" PROVE TidyInputs(Capacity, comp'.inputs, comp'.captured)
  <2>1. comp' = comp \/ BeginCompaction
    <3>1. CASE PrepareReserve
      <4>1. comp'.phase # "begun"
        BY <1>2, <3>1 DEF PrepareReserve, Compactions
      <4> QED BY <1>3, <4>1
    <3>2. CASE PrepareOutput
      <4>1. comp.phase = "writing" /\ \E x : comp' = [comp EXCEPT !.outputs = x]
        BY <3>2 DEF PrepareOutput
      <4>2. comp'.phase = "writing"
        BY <1>2, <4>1 DEF Compactions
      <4> QED BY <1>3, <4>2
    <3>3. CASE Commit
      <4>1. comp' = comp \/ comp' = [comp EXCEPT !.phase = "committed"]
        BY <3>3 DEF Commit
      <4>2. comp' = [comp EXCEPT !.phase = "committed"] => comp'.phase = "committed"
        BY <1>2 DEF Compactions
      <4> QED BY <1>3, <4>1, <4>2
    <3>4. CASE CompactionClose \/ Close \/ Kill \/ PowerLoss
      <4>1. comp' = NoComp
        BY <3>4 DEF CompactionClose, Close, Kill, PowerLoss, HandleGone
      <4> QED BY <1>3, <4>1, NoCompIs
    <3>5. CASE \/ UNCHANGED vars
               \/ \E k \in config.keys : Insert(k) \/ Upsert(k) \/ Update(k) \/ Delete(k)
               \/ WalFails \/ Flush \/ RewriteDocuments \/ PublishMetadata \/ PruneObsoleteArtifacts
               \/ CreateIterator \/ CloseIterator \/ OpenCollection
      BY <3>5 DEF vars, Insert, Upsert, Update, Delete, LogAndApply, WalFails, Flush, RewriteDocuments,
                  PublishMetadata, PruneObsoleteArtifacts, CreateIterator, CloseIterator, OpenCollection
    <3> QED BY <3>1, <3>2, <3>3, <3>4, <3>5 DEF Next
  <2>2. CASE comp' = comp
    BY <1>3, <2>2 DEF LayoutInv
  <2>3. CASE BeginCompaction
    <3>1. comp'.inputs = mem.segs /\ comp'.captured = mem.deletes
      BY <2>3 DEF BeginCompaction, NoComp
    <3> QED BY <2>3, <3>1, BeginTidy
  <2> QED BY <2>1, <2>2, <2>3
<1> QED BY <1>0, <1>1, <1>3 DEF LayoutInv

LEMMA LayoutInvariant == Spec => [](~DirSyncMayFail => LayoutInv)
<1>1. Init => (~DirSyncMayFail => LayoutInv)
  BY NoCompIs, PackedEmpty DEF Init, LayoutInv
<1>2. TypeInv /\ (~DirSyncMayFail => DataInv) /\ (~DirSyncMayFail => LayoutInv) /\ [Next]_vars
        => (~DirSyncMayFail => LayoutInv)'
  <2> SUFFICES ASSUME TypeInv, ~DirSyncMayFail => DataInv, ~DirSyncMayFail => LayoutInv, [Next]_vars,
                      ~DirSyncMayFail'
               PROVE  LayoutInv'
    OBVIOUS
  <2>1. ~DirSyncMayFail
    BY ConfigKept DEF DirSyncMayFail
  <2> QED BY <2>1, StepLayout
<1> QED BY <1>1, <1>2, StoreInvariant, DataInvariant, PTL DEF Spec

LEMMA LayoutConverges ==
  ASSUME TypeInv, LayoutInv
  PROVE  OptimizeConverges
<1> DEFINE ins == comp.inputs
           del == comp.captured
           U   == DOMAIN InputDocuments
           P   == {DOMAIN ins[i] : i \in DOMAIN ins}
<1> SUFFICES ASSUME comp.phase = "begun", mem.segs = ins, mem.deletes = del, mem.writing.docs = EmptyMap
             PROVE  OptimizationNeeded <=> LayoutChanges
  BY DEF OptimizeConverges
<1>1. /\ ImmutablesAcceptable(ins) /\ \A i \in DOMAIN ins : PieceOf(Capacity, DOMAIN ins[i])
      /\ del \subseteq DOMAIN Merged(Range(ins))
  BY DEF LayoutInv, TidyInputs
<1>2. ins \in SegmentMaps /\ Capacity \in Nat \ {0} /\ U \in SUBSET Nat
  BY ConfigIs, InputsAre DEF TypeInv, DiskOK, CompOK, Compactions
<1>3. U = DOMAIN Merged(Range(ins))
  BY DEF InputDocuments
<1>4. \A x : x \in U <=> \E i \in DOMAIN ins : x \in DOMAIN ins[i]
  <2> DEFINE fs == Range(ins)
  <2>1. /\ \A f \in fs : \E i \in DOMAIN ins : f = ins[i]
        /\ \A i \in DOMAIN ins : ins[i] \in fs
    BY <1>2, SegmentMembers
  <2>2. DOMAIN Merged(fs) = UNION {DOMAIN f : f \in fs}
    BY MergedIs
  <2> HIDE DEF fs, U, ins
  <2> QED BY <1>3, <2>1, <2>2 DEF fs
<1>5. OptimizationNeeded <=>
        \/ del # {}
        \/ \E i, j \in DOMAIN ins : /\ Cardinality(DOMAIN ins[i]) < Capacity
                                    /\ Max(DOMAIN ins[i]) + 1 = Min(DOMAIN ins[j])
  BY DEF OptimizationNeeded
<1>6. LayoutChanges <=> (U \cap del # {} \/ DocumentRuns(U \ del) # P)
  BY DEF LayoutChanges, Purged, OutputRuns
<1> HIDE DEF ins, del, U, P
<1>7. CASE del # {}
  <2>1. U \cap del # {}
    BY <1>1, <1>3, <1>7
  <2> QED BY <1>5, <1>6, <1>7, <2>1
<1>8. CASE del = {}
  <2>1. U \cap del = {} /\ U \ del = U
    BY <1>8
  <2>2. \A S : S \in P <=> \E i \in DOMAIN ins : S = DOMAIN ins[i]
    BY DEF P
  <2>3. \A S \in P : Piece(S)
    BY <1>1, <2>2 DEF Piece
  <2>4. ASSUME NEW S \in P, NEW T \in P, NEW x, x \in S, x \in T PROVE S = T
    <3>1. PICK i \in DOMAIN ins : S = DOMAIN ins[i]
      BY <2>2
    <3>2. PICK j \in DOMAIN ins : T = DOMAIN ins[j]
      BY <2>2
    <3>3. /\ Min(S) \in S /\ Max(S) \in S /\ Min(S) <= x /\ x <= Max(S) /\ S \in SUBSET Nat
      BY <2>3, <2>4, PieceIs
    <3>4. /\ Min(T) \in T /\ Max(T) \in T /\ Min(T) <= x /\ x <= Max(T) /\ T \in SUBSET Nat
      BY <2>3, <2>4, PieceIs
    <3>5. RangesOverlap(Min(S), Max(S), Min(T), Max(T))
      <4>1. Min(S) \in Nat /\ Max(S) \in Nat /\ Min(T) \in Nat /\ Max(T) \in Nat /\ x \in Nat
        BY <2>4, <3>3, <3>4
      <4> QED BY <3>3, <3>4, <4>1 DEF RangesOverlap
    <3>6. i = j
      BY <1>1, <3>1, <3>2, <3>5 DEF ImmutablesAcceptable
    <3> QED BY <3>1, <3>2, <3>6
  <2>5. \A x : x \in U <=> \E S \in P : x \in S
    BY <1>4, <2>2
  <2>6. Pieces(P, U)
    BY <2>3, <2>4, <2>5 DEF Pieces
  <2>7. DocumentRuns(U) = P <=> NoRoom(P)
    BY <1>2, <2>6, RunsOfPieces
  <2>8. NoRoom(P) <=> \A i, j \in DOMAIN ins : Max(DOMAIN ins[i]) + 1 = Min(DOMAIN ins[j])
                                                  => Cardinality(DOMAIN ins[i]) >= Capacity
    BY <2>2 DEF NoRoom
  <2>9. \A i \in DOMAIN ins : Cardinality(DOMAIN ins[i]) \in Nat
    BY <1>1, FS_CardinalityType DEF PieceOf
  <2>10. NoRoom(P) <=> ~\E i, j \in DOMAIN ins : /\ Cardinality(DOMAIN ins[i]) < Capacity
                                                 /\ Max(DOMAIN ins[i]) + 1 = Min(DOMAIN ins[j])
    BY <1>2, <2>8, <2>9
  <2> QED BY <1>5, <1>6, <1>8, <2>1, <2>7, <2>10
<1> QED BY <1>7, <1>8

\* What asks for an optimization and what a compaction then finds to do are
\* the same (OptimizationNeeded, Prepare): right after BeginCompaction there is
\* a deleted document to purge or two segments to join exactly if documents are
\* deleted or a segment with room has a neighbour, so that calling Optimize
\* again and again comes to rest and never rests too early.
THEOREM OptimizeAgrees == Spec => [](~DirSyncMayFail => OptimizeConverges)
<1>1. TypeInv /\ LayoutInv => OptimizeConverges
  BY LayoutConverges
<1> QED BY <1>1, StoreInvariant, LayoutInvariant, PTL
=============================================================================
