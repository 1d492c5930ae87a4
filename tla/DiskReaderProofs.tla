-------------------------- MODULE DiskReaderProofs --------------------------
(***************************************************************************)
(* Memory safety of the io_uring reader and exactness of its pool, for     *)
(* every set of readers and rings, every number of requests, retries and   *)
(* faults.                                                                 *)
(*                                                                         *)
(* The invariant has two halves.  IoInv accounts for every request of a    *)
(* batch: it is prepared, with the kernel, in the completion queue, or     *)
(* done; a ring that no batch uses rests, with nothing at the kernel       *)
(* unless it was abandoned.  PoolInv says who owns each ring.  They meet in *)
(* Linked: a batch works on the ring that its reader holds, and so on a    *)
(* ring that nobody else can start a batch on, close or put back.          *)
(***************************************************************************)
EXTENDS DiskReader, FiniteSetTheorems, TLAPS

Operation == [index : Requests, fresh : BOOLEAN]
Completion == [index : Requests \cup {Unknown}, res : Results]

RingRecord ==
  [state : {"none", "open", "closed"}, poisoned : BOOLEAN,
   staging : {"none", "mapped", "retained", "unmapped"}, sq : Seq(Requests),
   kernel : SUBSET Operation,
   cq : Seq(Completion), damaged : BOOLEAN,
   slot : [Requests -> {"empty", "data", "wrong"}]]

ReadRecord ==
  [pc : {"none", "submit", "drain", "wait", "consume", "copied", "returned"},
   ring : Rings \cup {None}, n : 0..MaxRequests, inFlight : SUBSET Requests,
   err : {"none", "canceled", "failed"}, uncertain : BOOLEAN, tries : 0..MaxTries,
   want : 0..MaxRequests, back : {"drain", "consume"}, seen : Nat,
   retries : [Requests -> 0..MaxTries]]

IoTypes ==
  /\ ring \in [Rings -> RingRecord] /\ read \in [Readers -> ReadRecord]
  /\ canceled \in [Readers -> BOOLEAN] /\ faults \in 0..MaxFaults

InBatch(L) == L.pc \in {"submit", "drain", "wait", "consume"}

\* What is prepared is not in flight, and nothing is prepared twice.
QueueExact(L, R) ==
  /\ Len(R.sq) = L.want /\ (L.pc # "submit" => L.want = 0)
  /\ \A i, j \in 1..Len(R.sq) : i # j => R.sq[i] # R.sq[j]
  /\ \A i \in 1..Len(R.sq) : R.sq[i] \notin L.inFlight

\* What is in flight is with the kernel or completed, but not both, and only
\* once; nothing is missing unless the ring says so.
FlightExact(L, R) ==
  /\ \A op \in R.kernel : op.fresh /\ op.index \in L.inFlight
  /\ \A i \in 1..Len(R.cq) : R.cq[i].index # Unknown =>
       /\ R.cq[i].index \in L.inFlight
       /\ \A op \in R.kernel : op.index # R.cq[i].index
       /\ \A j \in 1..Len(R.cq) : j # i => R.cq[j].index # R.cq[i].index
  /\ ~R.damaged => \A i \in L.inFlight :
       (\E op \in R.kernel : op.index = i) \/ (\E j \in 1..Len(R.cq) : R.cq[j].index = i)

\* The slots of completed requests hold their bytes.
SlotsExact(L, R) ==
  /\ \A i \in 1..Len(R.cq) :
       R.cq[i].index # Unknown /\ R.cq[i].res = "ok" => R.slot[R.cq[i].index] = "data"
  /\ L.err = "none" => \A i \in 1..L.n :
       i \in L.inFlight \/ (\E j \in 1..Len(R.sq) : R.sq[j] = i) \/ R.slot[i] = "data"

\* A batch L on the ring R.
Accounted(L, R) ==
  /\ R.state = "open" /\ R.staging = "mapped" /\ L.seen <= Len(R.cq)
  /\ QueueExact(L, R) /\ FlightExact(L, R) /\ SlotsExact(L, R)

\* A ring that no batch uses.
Resting(R) ==
  /\ R.sq = <<>>
  /\ R.state # "closed" =>
       R.kernel = {} /\ \A i \in 1..Len(R.cq) : R.cq[i].index = Unknown
  /\ R.state = "closed" => \A op \in R.kernel : op.fresh /\ R.staging = "retained"

Copied(L, R) == R.state = "open" /\ \A i \in 1..L.n : R.slot[i] = "data"

IoInv ==
  /\ IoTypes
  /\ \A p \in Readers : InBatch(read[p]) => Accounted(read[p], ring[read[p].ring])
  /\ \A p \in Readers : read[p].pc = "copied" => Copied(read[p], ring[read[p].ring])
  /\ \A r \in Rings :
       (\A p \in Readers : InBatch(read[p]) => read[p].ring # r) => Resting(ring[r])

-----------------------------------------------------------------------------

Places == {"off", "acquire", "create", "select", "taken", "got", "read",
           "release", "giveUp", "disable", "count", "receive", "pread"}

\* Where a call has a ring, and where it may have one.
Has == {"taken", "got", "read", "release", "giveUp"}
MayHave == Has \cup {"disable", "count", "receive"}

PoolTypes ==
  /\ pc \in [Readers -> Places] /\ held \in [Readers -> Rings \cup {None}]
  /\ calls \in {0} \cup Readers /\ config \in Configs /\ created \in Int
  /\ idle \subseteq Rings /\ draining \subseteq Rings /\ notified \subseteq Readers
  /\ fallback \in BOOLEAN /\ closed \in BOOLEAN /\ poolMu \in Readers \cup {None}

Exists == {r \in Rings : ring[r].state # "none"}
Creating == {p \in Readers : At(p, "create")}
Holding == {p \in Readers : held[p] # None /\ held[p] \notin draining}

\* Every ring has at most one owner.
OwnersExact ==
  /\ \A p \in Readers : held[p] # None =>
       /\ pc[p] \in MayHave /\ held[p] \notin idle /\ held[p] \in Exists
       /\ held[p] \in draining <=> poolMu = p
       /\ \A q \in Readers : held[q] = held[p] => q = p
  /\ \A p \in Readers : pc[p] \in Has => held[p] # None
  /\ idle \subseteq Exists /\ draining \subseteq Exists /\ idle \cap draining = {}
  /\ \A r \in Rings : ring[r].state = "open" =>
       r \in idle \cup draining \/ \E p \in Readers : held[p] = r

\* disableRings is the only one inside poolMu, and collects rings only there.
DrainExact ==
  /\ \A p \in Readers : pc[p] \in {"count", "receive"} <=> poolMu = p
  /\ poolMu = None => draining = {}
  /\ poolMu # None => fallback
  /\ closed => \A p \in Readers : pc[p] = "off"

\* The places of the pool are counted, and rings are created within them.
CountExact ==
  /\ created = Cardinality(idle) + Cardinality(Holding) + Cardinality(Creating)
  /\ created <= capacity
  /\ Cardinality(Exists) + Cardinality(Creating) <= capacity
  /\ ~fallback /\ ~closed => created = Cardinality(Exists) + Cardinality(Creating)

PoolInv == PoolTypes /\ OwnersExact /\ DrainExact /\ CountExact

\* A batch works on the ring its reader holds.
Linked ==
  \A p \in Readers :
    read[p].pc # "none" => pc[p] = "read" /\ held[p] \in Rings /\ read[p].ring = held[p]

\* The inductive invariant.
ReaderInv == IoInv /\ PoolInv /\ Linked

-----------------------------------------------------------------------------
(* Steps of the kernel, on one ring.                                       *)

\* What KernelCompletes makes of a ring.
CompletedRing(R, op, res) ==
  [R EXCEPT !.kernel = @ \ {op}, !.slot = Write(R, op, res),
            !.cq = IF R.state = "closed" THEN @ ELSE Append(@, [index |-> op.index, res |-> res])]

\* An element of a sequence is an element of the set it is over.
LEMMA ElementOf == ASSUME NEW S, NEW s \in Seq(S), NEW i \in 1..Len(s) PROVE s[i] \in S
  OBVIOUS

\* What is left of a queue whose first c entries are taken.
LEMMA SuffixElements ==
  ASSUME NEW S, NEW s \in Seq(S), NEW c \in 0..Len(s)
  PROVE  /\ Len(SubSeq(s, c + 1, Len(s))) = Len(s) - c
         /\ \A i \in 1..(Len(s) - c) : i + c \in 1..Len(s) /\ SubSeq(s, c + 1, Len(s))[i] = s[i + c]
  OBVIOUS

\* A request in the kernel is the only one with its index.
LEMMA KernelIndexes ==
  ASSUME NEW R \in RingRecord, NEW op \in R.kernel, NEW op2 \in R.kernel,
         op.fresh, op2.fresh, op.index = op2.index
  PROVE  op = op2
<1>1. op \in Operation /\ op2 \in Operation
  BY DEF RingRecord
<1> QED BY <1>1 DEF Operation

\* A write of the kernel changes the slot of its own request only.
LEMMA WriteType ==
  ASSUME NEW R \in RingRecord, NEW op \in R.kernel, NEW res \in Results
  PROVE  /\ Write(R, op, res) \in [Requests -> {"empty", "data", "wrong"}]
         /\ \A i \in Requests : i # op.index => Write(R, op, res)[i] = R.slot[i]
         /\ op.fresh /\ res = "ok" => Write(R, op, res)[op.index] = "data"
         /\ op.index \in Requests
<1>1. op \in Operation /\ R.slot \in [Requests -> {"empty", "data", "wrong"}]
  BY DEF RingRecord
<1> QED BY <1>1 DEF Write, Operation

\* A completion keeps the account of the batch on its ring.
LEMMA CompletionAccounted ==
  ASSUME NEW L \in ReadRecord, NEW R \in RingRecord, Accounted(L, R),
         NEW op \in R.kernel, NEW res \in Results
  PROVE  Accounted(L, CompletedRing(R, op, res))
<1> DEFINE R1 == CompletedRing(R, op, res)
           c == [index |-> op.index, res |-> res]
<1>1. /\ R1.state = R.state /\ R1.staging = R.staging /\ R1.sq = R.sq /\ R1.damaged = R.damaged
      /\ R1.kernel = R.kernel \ {op} /\ R1.cq = Append(R.cq, c) /\ R1.slot = Write(R, op, res)
  BY DEF CompletedRing, RingRecord, Accounted
<1>2. /\ Write(R, op, res) \in [Requests -> {"empty", "data", "wrong"}]
      /\ \A i \in Requests : i # op.index => Write(R, op, res)[i] = R.slot[i]
      /\ op.fresh /\ res = "ok" => Write(R, op, res)[op.index] = "data"
      /\ op.index \in Requests
  BY WriteType
<1>3. /\ R.cq \in Seq(Completion)
      /\ c \in Completion
  BY <1>2 DEF RingRecord, Completion
<1>4. /\ Len(R1.cq) = Len(R.cq) + 1 /\ Len(R.cq) \in Nat
      /\ \A i \in 1..Len(R.cq) : R1.cq[i] = R.cq[i]
      /\ R1.cq[Len(R.cq) + 1] = c
  BY <1>1, <1>3
<1>5. op.fresh /\ op.index \in L.inFlight /\ op.index # Unknown
  BY <1>2 DEF Accounted, FlightExact, Requests, Unknown
<1>6. \A op2 \in R1.kernel : op2.index # op.index
  BY <1>1, <1>5, KernelIndexes DEF Accounted, FlightExact
<1>7. QueueExact(L, R1)
  BY <1>1 DEF Accounted, QueueExact
<1>8. FlightExact(L, R1)
  <2>1. \A op2 \in R1.kernel : op2.fresh /\ op2.index \in L.inFlight
    BY <1>1 DEF Accounted, FlightExact
  <2>2. ASSUME NEW i \in 1..Len(R1.cq), R1.cq[i].index # Unknown
        PROVE  /\ R1.cq[i].index \in L.inFlight
               /\ \A op2 \in R1.kernel : op2.index # R1.cq[i].index
               /\ \A j \in 1..Len(R1.cq) : j # i => R1.cq[j].index # R1.cq[i].index
    <3>1. CASE i = Len(R.cq) + 1
      BY <1>1, <1>4, <1>5, <1>6, <3>1 DEF Accounted, FlightExact
    <3>2. CASE i \in 1..Len(R.cq)
      BY <1>1, <1>4, <1>5, <2>2, <3>2 DEF Accounted, FlightExact
    <3> QED BY <1>4, <3>1, <3>2
  <2>3. ASSUME ~R1.damaged, NEW i \in L.inFlight
        PROVE  (\E op2 \in R1.kernel : op2.index = i) \/ (\E j \in 1..Len(R1.cq) : R1.cq[j].index = i)
    <3>1. CASE i = op.index
      BY <1>4, <3>1
    <3>2. CASE i # op.index
      BY <1>1, <1>4, <2>3, <3>2 DEF Accounted, FlightExact
    <3> QED BY <3>1, <3>2
  <2> QED BY <2>1, <2>2, <2>3 DEF FlightExact
<1>9. SlotsExact(L, R1)
  <2>0. L.n \in 0..MaxRequests /\ \A i \in 1..L.n : i \in Requests
    BY IoUringConstants DEF ReadRecord, Requests
  <2>1. ASSUME NEW i \in 1..Len(R1.cq), R1.cq[i].index # Unknown, R1.cq[i].res = "ok"
        PROVE  R1.slot[R1.cq[i].index] = "data"
    <3>1. CASE i = Len(R.cq) + 1
      BY <1>1, <1>2, <1>4, <1>5, <2>1, <3>1
    <3>2. CASE i \in 1..Len(R.cq)
      <4>0. R.cq[i] \in Completion
        BY <1>3, <3>2, ElementOf
      <4>1. R.cq[i].index \in Requests /\ R.cq[i].index # op.index
        BY <1>4, <2>1, <3>2, <4>0 DEF Completion, Accounted, FlightExact
      <4> QED BY <1>1, <1>2, <1>4, <2>1, <3>2, <4>1 DEF Accounted, SlotsExact
    <3> QED BY <1>4, <3>1, <3>2
  <2>2. ASSUME L.err = "none", NEW i \in 1..L.n
        PROVE  i \in L.inFlight \/ (\E j \in 1..Len(R1.sq) : R1.sq[j] = i) \/ R1.slot[i] = "data"
    BY <1>1, <1>2, <1>5, <2>0, <2>2 DEF Accounted, SlotsExact
  <2> QED BY <2>1, <2>2 DEF SlotsExact
<1>10. R1.state = "open" /\ R1.staging = "mapped" /\ L.seen <= Len(R1.cq)
  BY <1>1, <1>4 DEF Accounted, ReadRecord
<1> QED BY <1>7, <1>8, <1>9, <1>10 DEF Accounted

\* A lost completion keeps it, because it leaves the ring damaged.
LEMMA OverflowAccounted ==
  ASSUME NEW L \in ReadRecord, NEW R \in RingRecord, Accounted(L, R), NEW op \in R.kernel
  PROVE  Accounted(L, [R EXCEPT !.kernel = @ \ {op}, !.damaged = TRUE, !.slot = Write(R, op, "ok")])
<1> DEFINE R1 == [R EXCEPT !.kernel = @ \ {op}, !.damaged = TRUE, !.slot = Write(R, op, "ok")]
<1>1. /\ R1.state = R.state /\ R1.staging = R.staging /\ R1.sq = R.sq /\ R1.cq = R.cq
      /\ R1.damaged /\ R1.kernel = R.kernel \ {op} /\ R1.slot = Write(R, op, "ok")
  BY DEF RingRecord
<1>2. /\ \A i \in Requests : i # op.index => R1.slot[i] = R.slot[i]
      /\ op.fresh => R1.slot[op.index] = "data"
  BY <1>1, WriteType DEF Results
<1>3. QueueExact(L, R1) /\ FlightExact(L, R1)
  BY <1>1 DEF Accounted, QueueExact, FlightExact
<1>4. SlotsExact(L, R1)
  <2>1. ASSUME NEW i \in 1..Len(R.cq), R.cq[i].index # Unknown, R.cq[i].res = "ok"
        PROVE  R1.slot[R.cq[i].index] = "data"
    <3>1. R.cq[i] \in Completion
      BY ElementOf DEF RingRecord
    <3>2. R.cq[i].index \in Requests /\ R.cq[i].index # op.index /\ R.slot[R.cq[i].index] = "data"
      BY <2>1, <3>1 DEF Completion, Accounted, FlightExact, SlotsExact
    <3> QED BY <1>2, <3>2
  <2>2. ASSUME L.err = "none", NEW i \in 1..L.n
        PROVE  i \in L.inFlight \/ (\E j \in 1..Len(R1.sq) : R1.sq[j] = i) \/ R1.slot[i] = "data"
    <3>1. i \in Requests /\ op.index \in L.inFlight
      BY IoUringConstants DEF ReadRecord, Requests, Accounted, FlightExact
    <3> QED BY <1>1, <1>2, <2>2, <3>1 DEF Accounted, SlotsExact
  <2> QED BY <1>1, <2>1, <2>2 DEF SlotsExact
<1> QED BY <1>1, <1>3, <1>4 DEF Accounted

\* So does a completion that belongs to no request.
LEMMA MalformedAccounted ==
  ASSUME NEW L \in ReadRecord, NEW R \in RingRecord, Accounted(L, R)
  PROVE  Accounted(L, [R EXCEPT !.cq = Append(@, [index |-> Unknown, res |-> "ok"])])
<1> DEFINE c == [index |-> Unknown, res |-> "ok"]
           R1 == [R EXCEPT !.cq = Append(@, c)]
<1>1. /\ R1.state = R.state /\ R1.staging = R.staging /\ R1.sq = R.sq /\ R1.cq = Append(R.cq, c)
      /\ R1.damaged = R.damaged /\ R1.kernel = R.kernel /\ R1.slot = R.slot
  BY DEF RingRecord
<1>2. /\ R.cq \in Seq(Completion)
      /\ c \in Completion
  BY DEF RingRecord, Completion, Results
<1>3. /\ Len(R1.cq) = Len(R.cq) + 1 /\ Len(R.cq) \in Nat
      /\ \A i \in 1..Len(R.cq) : R1.cq[i] = R.cq[i]
      /\ R1.cq[Len(R.cq) + 1] = c
  BY <1>1, <1>2
<1>4. /\ \A i \in 1..Len(R1.cq) : R1.cq[i].index # Unknown => i \in 1..Len(R.cq) /\ R1.cq[i] = R.cq[i]
      /\ \A j \in 1..Len(R1.cq) : R1.cq[j].index = Unknown \/ (j \in 1..Len(R.cq) /\ R1.cq[j] = R.cq[j])
      /\ 1..Len(R.cq) \subseteq 1..Len(R1.cq)
  BY <1>3
<1>5. QueueExact(L, R1)
  BY <1>1 DEF Accounted, QueueExact
<1>6. FlightExact(L, R1)
  BY <1>1, <1>3, <1>4 DEF Accounted, FlightExact
<1>7. SlotsExact(L, R1)
  BY <1>1, <1>4 DEF Accounted, SlotsExact
<1>8. R1.state = "open" /\ R1.staging = "mapped" /\ L.seen <= Len(R1.cq)
  BY <1>1, <1>3 DEF Accounted, ReadRecord
<1> QED BY <1>5, <1>6, <1>7, <1>8 DEF Accounted

-----------------------------------------------------------------------------
(* Steps of a batch, on its local variables L and its ring R.              *)

\* The fields of a ring that the account is about.
SameQueues(R, R1) ==
  /\ R1.state = R.state /\ R1.staging = R.staging /\ R1.sq = R.sq /\ R1.cq = R.cq
  /\ R1.kernel = R.kernel /\ R1.damaged = R.damaged /\ R1.slot = R.slot

\* Bookkeeping of the loops: retries, poisoning, errors.
LEMMA BookkeepingAccounted ==
  ASSUME NEW L, NEW L1, NEW R, NEW R1, Accounted(L, R), SameQueues(R, R1),
         L1.inFlight = L.inFlight, L1.n = L.n, L1.want = L.want,
         L1.pc # "submit" => L1.want = 0, L1.seen <= Len(R.cq),
         L1.err = "none" => L.err = "none"
  PROVE  Accounted(L1, R1)
<1>1. QueueExact(L1, R1)
  BY DEF Accounted, SameQueues, QueueExact
<1>2. FlightExact(L1, R1)
  BY DEF Accounted, SameQueues, FlightExact
<1>3. SlotsExact(L1, R1)
  BY DEF Accounted, SameQueues, SlotsExact
<1> QED BY <1>1, <1>2, <1>3 DEF Accounted, SameQueues

\* abandonStagingLocked: what is left with the kernel keeps its memory.
LEMMA AbandonedRests ==
  ASSUME NEW R \in RingRecord, R.state = "open", R.staging = "mapped",
         \A op \in R.kernel : op.fresh
  PROVE  /\ Abandoned(R) \in RingRecord /\ Abandoned(R).state = "closed"
         /\ Resting(Abandoned(R))
<1> DEFINE R1 == [R EXCEPT !.poisoned = TRUE, !.staging = IF @ = "none" THEN @ ELSE "retained"]
<1>1. R1 \in RingRecord /\ R1.state = "open" /\ R1.staging = "retained" /\ R1.kernel = R.kernel
  BY DEF RingRecord
<1>2. Abandoned(R) = Closed(R1)
  BY DEF Abandoned
<1> HIDE DEF R1
<1>3. Closed(R1) = [R1 EXCEPT !.state = "closed", !.cq = <<>>, !.sq = <<>>, !.staging = "retained"]
  BY <1>1 DEF Closed
<1>4. <<>> \in Seq(Requests) /\ <<>> \in Seq(Completion)
  OBVIOUS
<1>5. /\ Closed(R1) \in RingRecord /\ Closed(R1).state = "closed" /\ Closed(R1).sq = <<>>
      /\ Closed(R1).staging = "retained" /\ Closed(R1).kernel = R.kernel
  BY <1>1, <1>3, <1>4 DEF RingRecord
<1> QED BY <1>2, <1>5 DEF Resting

\* What was prepared and not accepted is withdrawn, with an error.
LEMMA WithdrawnAccounted ==
  ASSUME NEW L \in ReadRecord, NEW R \in RingRecord, Accounted(L, R),
         NEW err \in {"canceled", "failed"}, NEW poisoned \in BOOLEAN
  PROVE  Accounted([L EXCEPT !.pc = L.back, !.err = err, !.want = 0, !.tries = 0],
                   [R EXCEPT !.sq = <<>>, !.poisoned = poisoned])
<1> DEFINE L1 == [L EXCEPT !.pc = L.back, !.err = err, !.want = 0, !.tries = 0]
           R1 == [R EXCEPT !.sq = <<>>, !.poisoned = poisoned]
<1>1. /\ L1.inFlight = L.inFlight /\ L1.want = 0 /\ L1.seen = L.seen /\ L1.err # "none"
      /\ R1.state = R.state /\ R1.staging = R.staging /\ R1.sq = <<>> /\ R1.cq = R.cq
      /\ R1.kernel = R.kernel /\ R1.damaged = R.damaged /\ R1.slot = R.slot
  BY DEF ReadRecord, RingRecord
<1> HIDE DEF L1, R1
<1>2. QueueExact(L1, R1)
  BY <1>1 DEF QueueExact
<1>3. FlightExact(L1, R1)
  BY <1>1 DEF Accounted, FlightExact
<1>4. SlotsExact(L1, R1)
  BY <1>1 DEF Accounted, SlotsExact
<1>5. Accounted(L1, R1)
  BY <1>1, <1>2, <1>3, <1>4 DEF Accounted
<1> QED BY <1>5 DEF L1, R1

\* The first c prepared requests, and requests as the kernel holds them.
Firsts(R, c) == {R.sq[i] : i \in 1..c}
Operations(S) == {[index |-> i, fresh |-> TRUE] : i \in S}

\* A batch and its ring after the kernel accepted c requests, and lost some.
AcceptedFrom(L, R, c, lost, L1, R1) ==
  /\ lost \subseteq Firsts(R, c)
  /\ L1.inFlight = L.inFlight \cup Firsts(R, c) /\ L1.want = L.want - c /\ L1.n = L.n
  /\ L1.seen = L.seen /\ L1.err = L.err /\ (L1.pc # "submit" => L.want = c)
  /\ R1.state = R.state /\ R1.staging = R.staging /\ R1.cq = R.cq /\ R1.slot = R.slot
  /\ R1.sq = SubSeq(R.sq, c + 1, Len(R.sq))
  /\ R1.kernel = R.kernel \cup Operations(Firsts(R, c) \ lost)
  /\ R1.damaged <=> R.damaged \/ lost # {}

\* SubmitAccepted keeps the account.
LEMMA AcceptedAccounted ==
  ASSUME NEW L \in ReadRecord, NEW R \in RingRecord, Accounted(L, R), NEW c \in 1..L.want,
         NEW lost, NEW L1, NEW R1, AcceptedFrom(L, R, c, lost, L1, R1)
  PROVE  Accounted(L1, R1)
<1> DEFINE accepted == Firsts(R, c)
<1>0. /\ lost \subseteq accepted
      /\ L1.inFlight = L.inFlight \cup accepted /\ L1.want = L.want - c /\ L1.n = L.n
      /\ L1.seen = L.seen /\ L1.err = L.err /\ (L1.pc # "submit" => L.want = c)
      /\ R1.state = R.state /\ R1.staging = R.staging /\ R1.cq = R.cq /\ R1.slot = R.slot
      /\ R1.sq = SubSeq(R.sq, c + 1, Len(R.sq))
      /\ R1.kernel = R.kernel \cup Operations(accepted \ lost)
      /\ R1.damaged <=> R.damaged \/ lost # {}
  BY DEF AcceptedFrom
<1> HIDE DEF accepted
<1>1. /\ R.sq \in Seq(Requests) /\ L.want \in Nat /\ Len(R.sq) = L.want /\ c \in Nat /\ c <= L.want
  BY DEF RingRecord, ReadRecord, Accounted, QueueExact
<1>2. /\ Len(R1.sq) = L.want - c
      /\ \A i \in 1..Len(R1.sq) : i + c \in 1..Len(R.sq) /\ R1.sq[i] = R.sq[i + c]
  <2>1. c \in 0..Len(R.sq)
    BY <1>1
  <2>2. R1.sq = SubSeq(R.sq, c + 1, Len(R.sq)) /\ R.sq \in Seq(Requests) /\ Len(R.sq) = L.want
    BY <1>0, <1>1
  <2>3. /\ Len(R1.sq) = Len(R.sq) - c
        /\ \A i \in 1..(Len(R.sq) - c) : i + c \in 1..Len(R.sq) /\ R1.sq[i] = R.sq[i + c]
    BY <2>1, <2>2, SuffixElements, Zenon
  <2> QED BY <2>2, <2>3, Zenon
<1>3. \A i \in 1..Len(R1.sq) : R1.sq[i] \notin accepted
  <2> SUFFICES ASSUME NEW i \in 1..Len(R1.sq), NEW j \in 1..c PROVE R.sq[i + c] # R.sq[j]
    BY <1>2 DEF Firsts, accepted
  <2>1. i + c # j /\ i + c \in 1..Len(R.sq) /\ j \in 1..Len(R.sq)
    BY <1>1, <1>2
  <2> QED BY <2>1 DEF Accounted, QueueExact
<1>4. QueueExact(L1, R1)
  <2>1. Len(R1.sq) = L1.want /\ (L1.pc # "submit" => L1.want = 0)
    BY <1>0, <1>1, <1>2
  <2>2. ASSUME NEW i \in 1..Len(R1.sq), NEW j \in 1..Len(R1.sq), i # j
        PROVE  R1.sq[i] # R1.sq[j]
    <3>1. i + c # j + c /\ i + c \in 1..Len(R.sq) /\ j + c \in 1..Len(R.sq)
      BY <1>1, <1>2, <2>2
    <3> QED BY <1>2, <3>1 DEF Accounted, QueueExact
  <2>3. \A i \in 1..Len(R1.sq) : R1.sq[i] \notin L1.inFlight
    BY <1>0, <1>2, <1>3 DEF Accounted, QueueExact
  <2> QED BY <2>1, <2>2, <2>3 DEF QueueExact
<1>5. \A i \in accepted : i \notin L.inFlight
  <2> SUFFICES ASSUME NEW j \in 1..c PROVE R.sq[j] \notin L.inFlight
    BY DEF Firsts, accepted
  <2>1. j \in 1..Len(R.sq)
    BY <1>1
  <2> QED BY <2>1 DEF Accounted, QueueExact
<1>6. FlightExact(L1, R1)
  <2>1. \A op \in R1.kernel : op.fresh /\ op.index \in L1.inFlight
    BY <1>0 DEF Accounted, FlightExact, Operations
  <2>2. ASSUME NEW i \in 1..Len(R.cq), R.cq[i].index # Unknown
        PROVE  /\ R.cq[i].index \in L1.inFlight
               /\ \A op \in R1.kernel : op.index # R.cq[i].index
               /\ \A j \in 1..Len(R.cq) : j # i => R.cq[j].index # R.cq[i].index
    BY <1>0, <1>5, <2>2 DEF Accounted, FlightExact, Operations
  <2>3. ASSUME ~R1.damaged, NEW i \in L1.inFlight
        PROVE  (\E op \in R1.kernel : op.index = i) \/ (\E j \in 1..Len(R.cq) : R.cq[j].index = i)
    <3>1. CASE i \in L.inFlight
      BY <1>0, <2>3, <3>1 DEF Accounted, FlightExact
    <3>2. CASE i \in accepted
      <4>1. [index |-> i, fresh |-> TRUE] \in R1.kernel
        BY <1>0, <2>3, <3>2 DEF Operations
      <4> QED BY <4>1
    <3> QED BY <1>0, <2>3, <3>1, <3>2
  <2>4. R1.cq = R.cq
    BY <1>0
  <2> QED BY <2>1, <2>2, <2>3, <2>4 DEF FlightExact
<1>7. SlotsExact(L1, R1)
  <2>1. ASSUME L1.err = "none", NEW i \in 1..L1.n
        PROVE  i \in L1.inFlight \/ (\E j \in 1..Len(R1.sq) : R1.sq[j] = i) \/ R1.slot[i] = "data"
    <3>1. CASE \E j \in 1..Len(R.sq) : R.sq[j] = i
      <4>1. PICK j \in 1..Len(R.sq) : R.sq[j] = i
        BY <3>1
      <4>2. CASE j \in 1..c
        BY <1>0, <4>1, <4>2 DEF Firsts, accepted
      <4>3. CASE j \notin 1..c
        <5>1. j - c \in 1..Len(R1.sq) /\ (j - c) + c = j
          BY <1>1, <1>2, <4>3
        <5> QED BY <1>2, <4>1, <5>1
      <4> QED BY <4>2, <4>3
    <3>2. CASE i \in L.inFlight \/ R.slot[i] = "data"
      BY <1>0, <3>2
    <3> QED BY <1>0, <2>1, <3>1, <3>2 DEF Accounted, SlotsExact
  <2> QED BY <1>0, <2>1 DEF Accounted, SlotsExact
<1> QED BY <1>0, <1>4, <1>6, <1>7 DEF Accounted

\* One completion c of the snapshot is consumed: its request is done, or with
\* an error, or prepared once more.
ConsumedFrom(L, R, c, L1, R1) ==
  /\ L1.inFlight = L.inFlight \ {c.index} /\ L1.n = L.n /\ L1.seen = L.seen - 1
  /\ R1.state = R.state /\ R1.staging = R.staging /\ R1.slot = R.slot
  /\ R1.kernel = R.kernel /\ R1.damaged = R.damaged /\ R1.cq = Tail(R.cq)
  /\ \/ /\ R1.sq = R.sq /\ L1.want = 0
        /\ L1.err = "none" => L.err = "none" /\ c.index \in L.inFlight /\ c.res = "ok"
     \/ /\ R1.sq = R.sq \o <<c.index>> /\ L1.want = 1 /\ L1.pc = "submit"
        /\ L1.err = L.err /\ c.index \in L.inFlight

\* Consume keeps the account.
LEMMA ConsumedAccounted ==
  ASSUME NEW L \in ReadRecord, NEW R \in RingRecord, Accounted(L, R), L.want = 0, L.seen > 0,
         NEW L1, NEW R1, ConsumedFrom(L, R, Head(R.cq), L1, R1)
  PROVE  Accounted(L1, R1)
<1> DEFINE c == Head(R.cq)
<1>0. /\ L1.inFlight = L.inFlight \ {c.index} /\ L1.n = L.n /\ L1.seen = L.seen - 1
      /\ R1.state = R.state /\ R1.staging = R.staging /\ R1.slot = R.slot
      /\ R1.kernel = R.kernel /\ R1.damaged = R.damaged /\ R1.cq = Tail(R.cq)
      /\ \/ /\ R1.sq = R.sq /\ L1.want = 0
            /\ L1.err = "none" => L.err = "none" /\ c.index \in L.inFlight /\ c.res = "ok"
         \/ /\ R1.sq = R.sq \o <<c.index>> /\ L1.want = 1 /\ L1.pc = "submit"
            /\ L1.err = L.err /\ c.index \in L.inFlight
  BY DEF ConsumedFrom
<1>1. /\ R.cq \in Seq(Completion) /\ R.sq \in Seq(Requests) /\ Len(R.sq) = 0
      /\ Len(R.cq) \in Nat /\ L.seen \in Nat /\ L.seen <= Len(R.cq) /\ L.inFlight \subseteq Requests
  BY DEF RingRecord, ReadRecord, Accounted, QueueExact
<1>2. /\ c = R.cq[1] /\ Len(R1.cq) = Len(R.cq) - 1
      /\ \A i \in 1..Len(R1.cq) : i + 1 \in 1..Len(R.cq) /\ R1.cq[i] = R.cq[i + 1]
      /\ 1 \in 1..Len(R.cq)
  BY <1>0, <1>1
<1> HIDE DEF c
<1>3. R.sq = <<>>
  BY <1>1
<1>4. \/ R1.sq = <<>> /\ L1.want = 0
      \/ R1.sq = <<c.index>> /\ L1.want = 1 /\ L1.pc = "submit"
  BY <1>0, <1>3
<1>5. QueueExact(L1, R1)
  <2>1. CASE R1.sq = <<>> /\ L1.want = 0
    BY <2>1 DEF QueueExact
  <2>2. CASE R1.sq = <<c.index>> /\ L1.want = 1 /\ L1.pc = "submit"
    <3>1. Len(R1.sq) = 1 /\ \A i \in 1..Len(R1.sq) : i = 1 /\ R1.sq[i] = c.index
      BY <2>2
    <3> QED BY <1>0, <2>2, <3>1 DEF QueueExact
  <2> QED BY <1>4, <2>1, <2>2
<1>6. FlightExact(L1, R1)
  <2>1. ASSUME NEW op \in R1.kernel
        PROVE  op.fresh /\ op.index \in L1.inFlight
    <3>1. op.fresh /\ op.index \in L.inFlight /\ op.index # Unknown
      BY <1>0, <1>1 DEF Accounted, FlightExact, Requests, Unknown
    <3> QED BY <1>0, <1>2, <3>1 DEF Accounted, FlightExact
  <2>2. ASSUME NEW i \in 1..Len(R1.cq), R1.cq[i].index # Unknown
        PROVE  /\ R1.cq[i].index \in L1.inFlight
               /\ \A op \in R1.kernel : op.index # R1.cq[i].index
               /\ \A j \in 1..Len(R1.cq) : j # i => R1.cq[j].index # R1.cq[i].index
    <3>1. /\ i + 1 \in 1..Len(R.cq) /\ R1.cq[i] = R.cq[i + 1] /\ 1 # i + 1
          /\ \A j \in 1..Len(R1.cq) : j # i => j + 1 # i + 1
      BY <1>1, <1>2
    <3>2. /\ R1.cq[i].index \in L.inFlight
          /\ \A op \in R.kernel : op.index # R1.cq[i].index
          /\ \A j \in 1..Len(R.cq) : j # i + 1 => R.cq[j].index # R1.cq[i].index
      BY <2>2, <3>1 DEF Accounted, FlightExact
    <3>3. L1.inFlight = L.inFlight \ {c.index} /\ R1.kernel = R.kernel
      BY <1>0
    <3>4. R1.cq[i].index \in L1.inFlight
      BY <1>2, <3>1, <3>2, <3>3
    <3>5. \A j \in 1..Len(R1.cq) : j # i => R1.cq[j].index # R1.cq[i].index
      BY <1>2, <3>1, <3>2
    <3> QED BY <3>2, <3>3, <3>4, <3>5
  <2>3. ASSUME ~R1.damaged, NEW i \in L1.inFlight
        PROVE  (\E op \in R1.kernel : op.index = i) \/ (\E j \in 1..Len(R1.cq) : R1.cq[j].index = i)
    <3>1. (\E op \in R.kernel : op.index = i) \/ (\E j \in 1..Len(R.cq) : R.cq[j].index = i)
      BY <1>0, <2>3 DEF Accounted, FlightExact
    <3>2. ASSUME NEW j \in 1..Len(R.cq), R.cq[j].index = i
          PROVE  \E k \in 1..Len(R1.cq) : R1.cq[k].index = i
      <4>1. j # 1 /\ j - 1 \in 1..Len(R1.cq) /\ (j - 1) + 1 = j
        BY <1>0, <1>1, <1>2, <3>2
      <4> QED BY <1>2, <3>2, <4>1
    <3> QED BY <1>0, <3>1, <3>2
  <2> QED BY <2>1, <2>2, <2>3 DEF FlightExact
<1>7. SlotsExact(L1, R1)
  <2>1. ASSUME NEW i \in 1..Len(R1.cq), R1.cq[i].index # Unknown, R1.cq[i].res = "ok"
        PROVE  R1.slot[R1.cq[i].index] = "data"
    BY <1>0, <1>2, <2>1 DEF Accounted, SlotsExact
  <2>2. ASSUME L1.err = "none", NEW i \in 1..L1.n
        PROVE  i \in L1.inFlight \/ (\E j \in 1..Len(R1.sq) : R1.sq[j] = i) \/ R1.slot[i] = "data"
    <3>1. i \in L.inFlight \/ R.slot[i] = "data"
      BY <1>0, <1>1, <2>2 DEF Accounted, SlotsExact
    <3>2. CASE i = c.index /\ i \in L.inFlight /\ R1.sq = R.sq
      <4>1. c.index # Unknown
        BY <1>1, <3>2 DEF Requests, Unknown
      <4>2. c.res = "ok" \/ R1.sq = R.sq \o <<c.index>>
        BY <1>0, <2>2, <3>2
      <4>3. R1.sq # R.sq \o <<c.index>>
        BY <1>3, <3>2
      <4> QED BY <1>0, <1>2, <3>2, <4>1, <4>2, <4>3 DEF Accounted, SlotsExact
    <3>3. CASE i = c.index /\ i \in L.inFlight /\ R1.sq = R.sq \o <<c.index>>
      <4>1. Len(R1.sq) = 1 /\ R1.sq[1] = c.index
        BY <1>3, <3>3
      <4> QED BY <3>3, <4>1
    <3> QED BY <1>0, <3>1, <3>2, <3>3
  <2> QED BY <2>1, <2>2 DEF SlotsExact
<1> QED BY <1>0, <1>1, <1>2, <1>5, <1>6, <1>7 DEF Accounted

\* A batch with nothing in flight leaves a ring at rest, and without an error
\* the bytes of every request.
LEMMA FinishedRests ==
  ASSUME NEW L \in ReadRecord, NEW R \in RingRecord, Accounted(L, R), L.pc = "drain",
         L.inFlight = {}, ~R.damaged
  PROVE  Resting(R) /\ (L.err = "none" => Copied(L, R))
<1>1. R.sq \in Seq(Requests) /\ Len(R.sq) = 0
  BY DEF RingRecord, ReadRecord, Accounted, QueueExact
<1>2. R.sq = <<>>
  BY <1>1
<1>3. Resting(R)
  BY <1>2 DEF Accounted, FlightExact, Resting
<1>4. L.err = "none" => Copied(L, R)
  BY <1>1 DEF Accounted, SlotsExact, Copied
<1> QED BY <1>3, <1>4

\* What ReadStart makes of a ring at rest and of the local variables.
StartedRing(R, n) ==
  Prepared([R EXCEPT !.staging = "mapped", !.damaged = FALSE,
                     !.kernel = {[op EXCEPT !.fresh = FALSE] : op \in @},
                     !.slot = [i \in Requests |-> "empty"]],
           [i \in 1..n |-> i])
StartedRead(r, n) == [NoRead EXCEPT !.pc = "submit", !.ring = r, !.n = n, !.want = n]

\* A batch begins on a ring at rest: every request is prepared.
LEMMA StartAccounted ==
  ASSUME NEW R \in RingRecord, Resting(R), R.state = "open", NEW n \in Requests, NEW r \in Rings
  PROVE  /\ StartedRead(r, n) \in ReadRecord /\ StartedRing(R, n) \in RingRecord
         /\ StartedRead(r, n).pc = "submit" /\ StartedRead(r, n).ring = r
         /\ Accounted(StartedRead(r, n), StartedRing(R, n))
<1> DEFINE L1 == StartedRead(r, n)
           R1 == StartedRing(R, n)
<1>1. n \in Nat /\ n \in 0..MaxRequests /\ 1..n \subseteq Requests /\ 0 \in 0..MaxTries
  BY IoUringConstants DEF Requests
<1>2. L1 \in ReadRecord
  BY <1>1 DEF NoRead, StartedRead, ReadRecord
<1>3. /\ L1.pc = "submit" /\ L1.ring = r /\ L1.n = n /\ L1.want = n /\ L1.inFlight = {} /\ L1.seen = 0
  BY DEF NoRead, StartedRead
<1> HIDE DEF L1, R1
<1>4. [i \in 1..n |-> i] \in Seq(Requests) /\ Len([i \in 1..n |-> i]) = n
  BY <1>1
<1>5. <<>> \o [i \in 1..n |-> i] = [i \in 1..n |-> i]
  BY <1>4
<1>6. R.sq = <<>> /\ R.kernel = {} /\ R.cq \in Seq(Completion)
  BY DEF Resting, RingRecord
<1>7. {[op EXCEPT !.fresh = FALSE] : op \in R.kernel} = {}
  BY <1>6
<1>8. R1 = [R EXCEPT !.staging = "mapped", !.damaged = FALSE, !.kernel = {},
                     !.slot = [i \in Requests |-> "empty"], !.sq = [i \in 1..n |-> i]]
  BY <1>5, <1>6, <1>7 DEF R1, StartedRing, Prepared, RingRecord
<1>9. R1 \in RingRecord
  BY <1>4, <1>8 DEF RingRecord
<1>10. /\ R1.state = "open" /\ R1.staging = "mapped" /\ R1.kernel = {} /\ R1.cq = R.cq
       /\ R1.sq = [i \in 1..n |-> i]
  BY <1>8 DEF RingRecord
<1>11. Len(R1.sq) = n /\ \A i \in 1..n : R1.sq[i] = i
  BY <1>4, <1>10
<1>12. QueueExact(L1, R1)
  BY <1>3, <1>11 DEF QueueExact
<1>13. FlightExact(L1, R1)
  BY <1>3, <1>6, <1>10 DEF FlightExact, Resting
<1>14. SlotsExact(L1, R1)
  <2>1. \A i \in 1..L1.n : \E j \in 1..Len(R1.sq) : R1.sq[j] = i
    BY <1>3, <1>11
  <2>2. \A i \in 1..Len(R1.cq) : R1.cq[i].index = Unknown
    BY <1>10 DEF Resting
  <2> QED BY <2>1, <2>2 DEF SlotsExact
<1> QED BY <1>2, <1>3, <1>6, <1>9, <1>10, <1>12, <1>13, <1>14 DEF Accounted, L1, R1

-----------------------------------------------------------------------------
(* Steps of one batch or of the kernel, in the whole state.                *)

\* What the invariant says of a reader that is inside Read.
LEMMA ReadFacts ==
  ASSUME ReaderInv, NEW p \in Readers, read[p].pc # "none"
  PROVE  /\ read[p] \in ReadRecord /\ read[p].ring \in Rings /\ ring[read[p].ring] \in RingRecord
         /\ read[p].ring = held[p] /\ ring[read[p].ring].state # "none" /\ pc[p] = "read"
         /\ \A q \in Readers \ {p} : read[q].pc # "none" => read[q].ring # read[p].ring
         /\ InBatch(read[p]) => Accounted(read[p], ring[read[p].ring])
         /\ ~InBatch(read[p]) => Resting(ring[read[p].ring])
         /\ canceled[p] \in BOOLEAN
<1>1. /\ read[p] \in ReadRecord /\ read[p].ring \in Rings /\ ring[read[p].ring] \in RingRecord
      /\ read[p].ring = held[p] /\ pc[p] = "read" /\ canceled[p] \in BOOLEAN
  BY DEF ReaderInv, IoInv, IoTypes, Linked
<1>2. held[p] # None /\ ring[held[p]].state # "none"
  BY <1>1, IoUringConstants DEF ReaderInv, PoolInv, OwnersExact, Exists
<1>3. \A q \in Readers \ {p} : read[q].pc # "none" => read[q].ring # read[p].ring
  BY <1>1, <1>2 DEF ReaderInv, PoolInv, OwnersExact, Linked
<1>4. InBatch(read[p]) => Accounted(read[p], ring[read[p].ring])
  BY DEF ReaderInv, IoInv
<1>5. ~InBatch(read[p]) => Resting(ring[read[p].ring])
  <2>1. \A q \in Readers : InBatch(read[q]) => read[q].pc # "none"
    BY DEF InBatch
  <2> QED BY <1>1, <1>3, <2>1 DEF ReaderInv, IoInv
<1> QED BY <1>1, <1>2, <1>3, <1>4, <1>5

\* The pool does not notice what happens on a ring that is held.
LEMMA PoolFrame ==
  ASSUME PoolInv, UNCHANGED poolVars,
         \A r \in Rings : /\ ring'[r].state = "none" <=> ring[r].state = "none"
                          /\ ring'[r].state = "open" =>
                               ring[r].state = "open" \/ \E p \in Readers : held[p] = r
  PROVE  PoolInv'
<1>1. Exists' = Exists
  BY DEF Exists
<1>2. Holding' = Holding /\ Creating' = Creating
  BY DEF Holding, Creating, At, poolVars
<1>3. PoolTypes' /\ DrainExact'
  BY DEF PoolInv, PoolTypes, DrainExact, poolVars
<1>4. OwnersExact'
  BY <1>1 DEF PoolInv, OwnersExact, poolVars
<1>5. CountExact'
  BY <1>1, <1>2 DEF PoolInv, CountExact, capacity, poolVars
<1> QED BY <1>3, <1>4, <1>5 DEF PoolInv

\* The reader p enters, continues or leaves a batch on the ring r.
LEMMA BatchChange ==
  ASSUME ReaderInv, NEW p \in Readers, NEW r \in Rings, NEW L1 \in ReadRecord, NEW R1 \in RingRecord,
         ring' = [ring EXCEPT ![r] = R1], read' = [read EXCEPT ![p] = L1],
         canceled' \in [Readers -> BOOLEAN], faults' \in 0..MaxFaults,
         read[p].pc # "none" => read[p].ring = r,
         \A q \in Readers \ {p} : read[q].pc # "none" => read[q].ring # r,
         InBatch(L1) \/ L1.pc = "copied" => L1.ring = r,
         InBatch(L1) => Accounted(L1, R1), ~InBatch(L1) => Resting(R1),
         L1.pc = "copied" => Copied(L1, R1)
  PROVE  /\ IoInv'
         /\ ring'[r] = R1 /\ \A s \in Rings \ {r} : ring'[s] = ring[s]
         /\ read'[p] = L1 /\ \A q \in Readers \ {p} : read'[q] = read[q]
<1>1. ring \in [Rings -> RingRecord] /\ read \in [Readers -> ReadRecord]
  BY DEF ReaderInv, IoInv, IoTypes
<1>2. /\ ring'[r] = R1 /\ \A s \in Rings \ {r} : ring'[s] = ring[s]
      /\ read'[p] = L1 /\ \A q \in Readers \ {p} : read'[q] = read[q]
  BY <1>1
<1>3. IoTypes'
  BY <1>1 DEF IoTypes
<1>4. \A q \in Readers \ {p} : (InBatch(read[q]) \/ read[q].pc = "copied") =>
          read[q].ring \in Rings \ {r}
  BY DEF InBatch, ReaderInv, Linked
<1>5. ASSUME NEW q \in Readers, InBatch(read'[q])
      PROVE  Accounted(read'[q], ring'[read'[q].ring])
  <2>1. CASE q = p
    BY <1>2, <1>5, <2>1
  <2>2. CASE q # p
    BY <1>2, <1>4, <1>5, <2>2 DEF ReaderInv, IoInv
  <2> QED BY <2>1, <2>2
<1>6. ASSUME NEW q \in Readers, read'[q].pc = "copied"
      PROVE  Copied(read'[q], ring'[read'[q].ring])
  <2>1. CASE q = p
    BY <1>2, <1>6, <2>1
  <2>2. CASE q # p
    BY <1>2, <1>4, <1>6, <2>2 DEF ReaderInv, IoInv
  <2> QED BY <2>1, <2>2
<1>7. ASSUME NEW s \in Rings, \A q \in Readers : InBatch(read'[q]) => read'[q].ring # s
      PROVE  Resting(ring'[s])
  <2>1. CASE s = r
    BY <1>2, <1>7, <2>1
  <2>2. CASE s # r
    <3>1. \A q \in Readers : InBatch(read[q]) => read[q].ring # s
      BY <1>2, <1>7, <2>2 DEF InBatch
    <3> QED BY <1>2, <2>2, <3>1 DEF ReaderInv, IoInv
  <2> QED BY <2>1, <2>2
<1> QED BY <1>2, <1>3, <1>5, <1>6, <1>7 DEF IoInv

\* A step of the reader p on its ring.
LEMMA BatchStep ==
  ASSUME ReaderInv, NEW p \in Readers, NEW L1 \in ReadRecord, NEW R1 \in RingRecord,
         read[p].pc # "none", UNCHANGED poolVars,
         canceled' = canceled, faults' \in 0..MaxFaults,
         ring' = [ring EXCEPT ![read[p].ring] = R1], read' = [read EXCEPT ![p] = L1],
         L1.pc # "none", L1.ring = read[p].ring, R1.state # "none",
         InBatch(L1) => Accounted(L1, R1), ~InBatch(L1) => Resting(R1),
         L1.pc = "copied" => Copied(L1, R1)
  PROVE  ReaderInv'
<1> DEFINE r == read[p].ring
<1>1. /\ r \in Rings /\ r = held[p] /\ ring[r].state # "none" /\ pc[p] = "read"
      /\ \A q \in Readers \ {p} : read[q].pc # "none" => read[q].ring # r
  BY ReadFacts
<1>2. canceled' \in [Readers -> BOOLEAN]
  BY DEF ReaderInv, IoInv, IoTypes
<1>3. /\ IoInv'
      /\ ring'[r] = R1 /\ \A s \in Rings \ {r} : ring'[s] = ring[s]
      /\ read'[p] = L1 /\ \A q \in Readers \ {p} : read'[q] = read[q]
  BY <1>1, <1>2, BatchChange
<1>4. PoolInv'
  BY <1>1, <1>3, PoolFrame DEF ReaderInv
<1>5. Linked'
  BY <1>1, <1>3 DEF ReaderInv, Linked, poolVars
<1> QED BY <1>3, <1>4, <1>5 DEF ReaderInv

\* A step of the kernel on the ring r.
LEMMA KernelFrame ==
  ASSUME ReaderInv, NEW r \in Rings, NEW R1 \in RingRecord, UNCHANGED poolVars,
         ring' = [ring EXCEPT ![r] = R1], read' = read, canceled' = canceled,
         faults' \in 0..MaxFaults, ring[r].kernel # {}, R1.state = ring[r].state,
         \A L \in ReadRecord : Accounted(L, ring[r]) => Accounted(L, R1),
         Resting(ring[r]) => Resting(R1)
  PROVE  ReaderInv'
<1>1. /\ ring \in [Rings -> RingRecord] /\ read \in [Readers -> ReadRecord]
      /\ canceled \in [Readers -> BOOLEAN]
  BY DEF ReaderInv, IoInv, IoTypes
<1>2. ring'[r] = R1 /\ \A s \in Rings \ {r} : ring'[s] = ring[s]
  BY <1>1
<1>3. IoTypes'
  BY <1>1 DEF IoTypes
<1>4. ASSUME NEW q \in Readers, InBatch(read[q])
      PROVE  Accounted(read[q], ring'[read[q].ring])
  <2>1. read[q] \in ReadRecord /\ read[q].ring \in Rings /\ Accounted(read[q], ring[read[q].ring])
    BY <1>1, <1>4 DEF ReaderInv, IoInv, Linked, InBatch
  <2> QED BY <1>2, <2>1
<1>5. ASSUME NEW q \in Readers, read[q].pc = "copied"
      PROVE  Copied(read[q], ring'[read[q].ring])
  <2>1. /\ read[q].ring \in Rings /\ Copied(read[q], ring[read[q].ring])
        /\ Resting(ring[read[q].ring])
    BY <1>5, ReadFacts DEF ReaderInv, IoInv, InBatch
  <2>2. read[q].ring # r
    BY <2>1 DEF Copied, Resting
  <2> QED BY <1>2, <2>1, <2>2
<1>6. ASSUME NEW s \in Rings, \A q \in Readers : InBatch(read[q]) => read[q].ring # s
      PROVE  Resting(ring'[s])
  BY <1>2, <1>6 DEF ReaderInv, IoInv
<1>7. IoInv'
  BY <1>3, <1>4, <1>5, <1>6 DEF IoInv
<1>8. PoolInv'
  BY <1>2, PoolFrame DEF ReaderInv
<1>9. Linked'
  BY DEF ReaderInv, Linked, poolVars
<1> QED BY <1>7, <1>8, <1>9 DEF ReaderInv

\* The counters of a new batch are within their bounds.
LEMMA ZeroInBounds == 0 \in 0..MaxTries /\ 0 \in 0..MaxRequests /\ 0 \in Nat
  BY IoUringConstants

\* The local variables of a Read that returns err.
Returned(r, err) == [NoRead EXCEPT !.pc = "returned", !.ring = r, !.err = err]

\* They are the local variables of no batch.
LEMMA ReturnedRead ==
  ASSUME NEW r \in Rings, NEW err \in {"none", "canceled", "failed"}
  PROVE  /\ Returned(r, err) \in ReadRecord /\ Returned(r, err).pc = "returned"
         /\ Returned(r, err).ring = r
  BY ZeroInBounds DEF Returned, NoRead, ReadRecord

\* A fault is counted within its bound.
LEMMA FaultCounted ==
  ASSUME ReaderInv, Fault \/ UNCHANGED faults
  PROVE  faults' \in 0..MaxFaults
  BY IoUringConstants DEF ReaderInv, IoInv, IoTypes, Fault, MayFault

\* The three steps of the kernel: a completion ...
LEMMA KernelCompletesStep ==
  ASSUME ReaderInv, NEW r \in Rings, KernelCompletes(r), UNCHANGED poolVars
  PROVE  ReaderInv'
<1> DEFINE R == ring[r]
<1>1. R \in RingRecord /\ ring \in [Rings -> RingRecord]
  BY DEF ReaderInv, IoInv, IoTypes
<1>2. PICK op \in R.kernel, res \in Results :
        /\ IF res = "short" THEN Fault ELSE UNCHANGED faults
        /\ ring' = [ring EXCEPT ![r].kernel = @ \ {op}, ![r].slot = Write(ring[r], op, res),
                      ![r].cq = IF ring[r].state = "closed" THEN @
                                ELSE Append(@, [index |-> op.index, res |-> res])]
        /\ UNCHANGED <<read, canceled>>
  BY DEF KernelCompletes
<1> DEFINE R1 == CompletedRing(R, op, res)
<1>3. ring' = [ring EXCEPT ![r] = R1]
  BY <1>1, <1>2 DEF CompletedRing, RingRecord
<1>4. /\ Write(R, op, res) \in [Requests -> {"empty", "data", "wrong"}] /\ op.index \in Requests
      /\ R.kernel \ {op} \in SUBSET Operation /\ R.cq \in Seq(Completion)
  BY <1>1, WriteType DEF RingRecord
<1>5. [index |-> op.index, res |-> res] \in Completion
  BY <1>4 DEF Completion
<1>6. Append(R.cq, [index |-> op.index, res |-> res]) \in Seq(Completion)
  BY <1>4, <1>5
<1>7. R1 \in RingRecord
  BY <1>1, <1>4, <1>6 DEF CompletedRing, RingRecord
<1>8. \A L \in ReadRecord : Accounted(L, R) => Accounted(L, R1)
  BY <1>1, <1>2, CompletionAccounted
<1>9. R1.state = R.state
  BY <1>1 DEF CompletedRing, RingRecord
<1>10. Resting(R) => Resting(R1)
  BY <1>1, <1>2 DEF CompletedRing, RingRecord, Resting
<1>11. faults' \in 0..MaxFaults
  BY <1>2, FaultCounted
<1> HIDE DEF R1
<1> QED BY <1>1, <1>2, <1>3, <1>7, <1>8, <1>9, <1>10, <1>11, KernelFrame

\* ... a completion lost to an overflow ...
LEMMA KernelOverflowsStep ==
  ASSUME ReaderInv, NEW r \in Rings, KernelOverflows(r), UNCHANGED poolVars
  PROVE  ReaderInv'
<1> DEFINE R == ring[r]
<1>1. R \in RingRecord /\ ring \in [Rings -> RingRecord]
  BY DEF ReaderInv, IoInv, IoTypes
<1>2. PICK op \in R.kernel :
        ring' = [ring EXCEPT ![r].kernel = @ \ {op}, ![r].damaged = TRUE,
                             ![r].slot = Write(ring[r], op, "ok")]
  BY DEF KernelOverflows
<1> DEFINE R1 == [R EXCEPT !.kernel = @ \ {op}, !.damaged = TRUE, !.slot = Write(R, op, "ok")]
<1>3. ring' = [ring EXCEPT ![r] = R1]
  BY <1>1, <1>2 DEF RingRecord
<1>4. /\ Write(R, op, "ok") \in [Requests -> {"empty", "data", "wrong"}]
      /\ R.kernel \ {op} \in SUBSET Operation
  BY <1>1, WriteType DEF RingRecord, Results
<1>5. R1 \in RingRecord
  BY <1>1, <1>4 DEF RingRecord
<1>6. \A L \in ReadRecord : Accounted(L, R) => Accounted(L, R1)
  BY <1>1, <1>2, OverflowAccounted
<1>7. R1.state = R.state /\ (Resting(R) => Resting(R1))
  BY <1>1, <1>2 DEF RingRecord, Resting
<1>8. faults' \in 0..MaxFaults /\ UNCHANGED <<read, canceled>>
  BY FaultCounted DEF KernelOverflows
<1> HIDE DEF R1
<1> QED BY <1>1, <1>2, <1>3, <1>5, <1>6, <1>7, <1>8, KernelFrame

\* ... and a completion that belongs to no request.
LEMMA KernelMalformedStep ==
  ASSUME ReaderInv, NEW r \in Rings, KernelMalformed(r), UNCHANGED poolVars
  PROVE  ReaderInv'
<1> DEFINE R == ring[r]
           c == [index |-> Unknown, res |-> "ok"]
           R1 == [R EXCEPT !.cq = Append(@, c)]
<1>1. R \in RingRecord /\ ring \in [Rings -> RingRecord]
  BY DEF ReaderInv, IoInv, IoTypes
<1>2. ring' = [ring EXCEPT ![r] = R1] /\ R.kernel # {} /\ R.state = "open"
  BY <1>1 DEF KernelMalformed, RingRecord
<1>3. c \in Completion /\ R.cq \in Seq(Completion)
  BY <1>1 DEF Completion, Results, RingRecord
<1>4. Append(R.cq, c) \in Seq(Completion)
  BY <1>3
<1>5. R1 \in RingRecord /\ R1.state = R.state
  BY <1>1, <1>4 DEF RingRecord
<1>6. \A L \in ReadRecord : Accounted(L, R) => Accounted(L, R1)
  BY <1>1, MalformedAccounted
<1>7. ~Resting(R)
  BY <1>2 DEF Resting
<1>8. faults' \in 0..MaxFaults /\ UNCHANGED <<read, canceled>>
  BY FaultCounted DEF KernelMalformed
<1> HIDE DEF R1
<1> QED BY <1>1, <1>2, <1>5, <1>6, <1>7, <1>8, KernelFrame

-----------------------------------------------------------------------------
(* Steps of a batch.                                                       *)

\* A batch withdraws what it prepared, with an error.
LEMMA WithdrawStep ==
  ASSUME ReaderInv, NEW p \in Readers, Submitting(p), UNCHANGED poolVars,
         NEW err \in {"canceled", "failed"}, NEW poisoned \in BOOLEAN,
         Withdraw(p, err, poisoned), canceled' = canceled, faults' \in 0..MaxFaults
  PROVE  ReaderInv'
<1> DEFINE L == read[p]
           R == ring[read[p].ring]
           L1 == [L EXCEPT !.pc = L.back, !.err = err, !.want = 0, !.tries = 0]
           R1 == [R EXCEPT !.sq = <<>>, !.poisoned = R.poisoned \/ poisoned]
<1>1. L.pc # "none" /\ InBatch(L)
  BY DEF Submitting, InBatch
<1>2. /\ L \in ReadRecord /\ L.ring \in Rings /\ R \in RingRecord /\ Accounted(L, R)
      /\ R.state # "none"
  BY <1>1, ReadFacts
<1>3. ring' = [ring EXCEPT ![read[p].ring] = R1] /\ read' = [read EXCEPT ![p] = L1]
  <2>1. ring \in [Rings -> RingRecord] /\ read \in [Readers -> ReadRecord]
    BY DEF ReaderInv, IoInv, IoTypes
  <2> QED BY <1>2, <2>1 DEF Withdraw, RingRecord, ReadRecord
<1>4. <<>> \in Seq(Requests) /\ (R.poisoned \/ poisoned) \in BOOLEAN
  OBVIOUS
<1>5. /\ L1 \in ReadRecord /\ L1.pc = L.back /\ L1.ring = L.ring /\ InBatch(L1)
      /\ L1.pc # "none" /\ L1.pc # "copied"
  BY <1>2, ZeroInBounds DEF ReadRecord, InBatch
<1>6. R1 \in RingRecord /\ R1.state = R.state
  BY <1>2, <1>4 DEF RingRecord
<1>7. Accounted(L1, R1)
  BY <1>2, <1>4, WithdrawnAccounted
<1> HIDE DEF L1, R1
<1> QED BY <1>1, <1>2, <1>3, <1>5, <1>6, <1>7, BatchStep

\* A Read that returns leaves its ring at rest.
LEMMA ReturnStep ==
  ASSUME ReaderInv, NEW p \in Readers, InBatch(read[p]), UNCHANGED poolVars,
         NEW err \in {"none", "canceled", "failed"}, NEW R1 \in RingRecord,
         Resting(R1), R1.state # "none",
         Return(p, err, R1), canceled' = canceled, faults' \in 0..MaxFaults
  PROVE  ReaderInv'
<1> DEFINE L1 == Returned(read[p].ring, err)
<1>1. read[p].pc # "none"
  BY DEF InBatch
<1>2. read[p].ring \in Rings
  BY <1>1, ReadFacts
<1>3. L1 \in ReadRecord /\ L1.pc = "returned" /\ L1.ring = read[p].ring
  BY <1>2, ReturnedRead
<1>4. ring' = [ring EXCEPT ![read[p].ring] = R1] /\ read' = [read EXCEPT ![p] = L1]
  BY DEF Return, Returned
<1>5. ~InBatch(L1)
  BY <1>3 DEF InBatch
<1> HIDE DEF L1
<1> QED BY <1>1, <1>3, <1>4, <1>5, BatchStep

\* The error that is kept is an error.
LEMMA FirstType ==
  ASSUME NEW err \in {"none", "canceled", "failed"}, NEW new \in {"canceled", "failed"}
  PROVE  /\ First(err, new) \in {"canceled", "failed"}
         /\ First(err, new) \in {"none", "canceled", "failed"}
         /\ First(err, new) # "none"
  BY DEF First

\* Loop bookkeeping, and nothing else, on a batch and its ring.
LEMMA BookkeepingStep ==
  ASSUME ReaderInv, NEW p \in Readers, InBatch(read[p]), UNCHANGED poolVars,
         NEW L1 \in ReadRecord, NEW poisoned \in BOOLEAN,
         ring' = [ring EXCEPT ![read[p].ring].poisoned = poisoned],
         read' = [read EXCEPT ![p] = L1], canceled' = canceled, faults' \in 0..MaxFaults,
         InBatch(L1), L1.ring = read[p].ring, L1.inFlight = read[p].inFlight, L1.n = read[p].n,
         L1.want = read[p].want, L1.pc # "submit" => L1.want = 0,
         L1.seen <= Len(ring[read[p].ring].cq), L1.err = "none" => read[p].err = "none"
  PROVE  ReaderInv'
<1> DEFINE R == ring[read[p].ring]
           R1 == [R EXCEPT !.poisoned = poisoned]
<1>1. read[p].pc # "none" /\ L1.pc # "none" /\ L1.pc # "copied"
  BY DEF InBatch
<1>2. /\ read[p].ring \in Rings /\ R \in RingRecord /\ R.state # "none" /\ Accounted(read[p], R)
  BY <1>1, ReadFacts
<1>3. R1 \in RingRecord /\ SameQueues(R, R1)
  BY <1>2 DEF RingRecord, SameQueues
<1>4. ring' = [ring EXCEPT ![read[p].ring] = R1]
  <2>1. ring \in [Rings -> RingRecord]
    BY DEF ReaderInv, IoInv, IoTypes
  <2> QED BY <1>2, <2>1 DEF RingRecord
<1> HIDE DEF R1
<1>5. Accounted(L1, R1)
  BY <1>2, <1>3, BookkeepingAccounted
<1>6. R1.state # "none"
  BY <1>2, <1>3 DEF SameQueues
<1> QED BY <1>1, <1>3, <1>4, <1>5, <1>6, BatchStep

\* The same when the ring is left alone.
LEMMA LocalStep ==
  ASSUME ReaderInv, NEW p \in Readers, InBatch(read[p]), UNCHANGED poolVars,
         NEW L1 \in ReadRecord,
         ring' = ring,
         read' = [read EXCEPT ![p] = L1], canceled' = canceled, faults' \in 0..MaxFaults,
         InBatch(L1), L1.ring = read[p].ring, L1.inFlight = read[p].inFlight, L1.n = read[p].n,
         L1.want = read[p].want, L1.pc # "submit" => L1.want = 0,
         L1.seen <= Len(ring[read[p].ring].cq), L1.err = "none" => read[p].err = "none"
  PROVE  ReaderInv'
<1>1. read[p].pc # "none" /\ L1.pc # "none" /\ L1.pc # "copied"
  BY DEF InBatch
<1> DEFINE R == ring[read[p].ring]
<1>2. /\ read[p].ring \in Rings /\ R \in RingRecord /\ R.state # "none" /\ Accounted(read[p], R)
  BY <1>1, ReadFacts
<1>3. SameQueues(R, R)
  BY DEF SameQueues
<1>4. Accounted(L1, R)
  BY <1>2, <1>3, BookkeepingAccounted
<1>5. ring' = [ring EXCEPT ![read[p].ring] = R]
  BY <1>2 DEF ReaderInv, IoInv, IoTypes
<1> QED BY <1>1, <1>2, <1>4, <1>5, BatchStep

\* A Read that gives up: staging is abandoned with what the kernel still has.
LEMMA AbandonStep ==
  ASSUME ReaderInv, NEW p \in Readers, InBatch(read[p]), UNCHANGED poolVars,
         NEW err \in {"none", "canceled", "failed"},
         Return(p, err, Abandoned(ring[read[p].ring])),
         canceled' = canceled, faults' \in 0..MaxFaults
  PROVE  ReaderInv'
<1> DEFINE R == ring[read[p].ring]
<1>1. R \in RingRecord /\ Accounted(read[p], R)
  BY ReadFacts DEF InBatch
<1>2. R.state = "open" /\ R.staging = "mapped" /\ \A op \in R.kernel : op.fresh
  BY <1>1 DEF Accounted, FlightExact
<1>3. Abandoned(R) \in RingRecord /\ Resting(Abandoned(R)) /\ Abandoned(R).state # "none"
  BY <1>1, <1>2, AbandonedRests
<1> QED BY <1>3, ReturnStep

\* The submit loop: canceled ...
LEMMA SubmitCanceledStep ==
  ASSUME ReaderInv, NEW p \in Readers, SubmitCanceled(p), UNCHANGED poolVars
  PROVE  ReaderInv'
<1>1. read[p].err \in {"none", "canceled", "failed"}
  BY DEF ReaderInv, IoInv, IoTypes, ReadRecord
<1>2. First(read[p].err, "canceled") \in {"canceled", "failed"} /\ FALSE \in BOOLEAN
  BY <1>1, FirstType
<1>3. faults' \in 0..MaxFaults /\ canceled' = canceled /\ Submitting(p)
      /\ Withdraw(p, First(read[p].err, "canceled"), FALSE)
  BY FaultCounted DEF SubmitCanceled
<1> QED BY <1>2, <1>3, WithdrawStep

\* ... a fatal error ...
LEMMA SubmitFailsStep ==
  ASSUME ReaderInv, NEW p \in Readers, SubmitFails(p), UNCHANGED poolVars
  PROVE  ReaderInv'
<1>1. read[p].err \in {"none", "canceled", "failed"}
  BY DEF ReaderInv, IoInv, IoTypes, ReadRecord
<1>2. First(read[p].err, "failed") \in {"canceled", "failed"} /\ TRUE \in BOOLEAN
  BY <1>1, FirstType
<1>3. faults' \in 0..MaxFaults /\ canceled' = canceled /\ Submitting(p)
      /\ Withdraw(p, First(read[p].err, "failed"), TRUE)
  BY FaultCounted DEF SubmitFails
<1> QED BY <1>2, <1>3, WithdrawStep

\* ... nothing accepted, again or for the last time ...
LEMMA SubmitNoProgressStep ==
  ASSUME ReaderInv, NEW p \in Readers, SubmitNoProgress(p), UNCHANGED poolVars
  PROVE  ReaderInv'
<1>1. faults' \in 0..MaxFaults /\ canceled' = canceled /\ Submitting(p)
  BY FaultCounted DEF SubmitNoProgress
<1>2. CASE Withdraw(p, "failed", FALSE)
  BY <1>1, <1>2, WithdrawStep
<1>3. CASE /\ read[p].tries + 1 < MaxTries
           /\ read' = [read EXCEPT ![p].tries = @ + 1]
           /\ UNCHANGED ring
  <2> DEFINE L1 == [read[p] EXCEPT !.tries = @ + 1]
  <2>1. InBatch(read[p]) /\ read[p].pc = "submit" /\ read[p].pc # "none"
    BY <1>1 DEF InBatch, Submitting
  <2>2. read[p] \in ReadRecord /\ Accounted(read[p], ring[read[p].ring])
    BY <2>1, ReadFacts
  <2>3. read[p].tries + 1 \in 0..MaxTries
    BY <1>3, <2>2, IoUringConstants DEF ReadRecord
  <2>4. /\ L1 \in ReadRecord /\ L1.pc = "submit" /\ L1.ring = read[p].ring
        /\ L1.inFlight = read[p].inFlight /\ L1.n = read[p].n /\ L1.want = read[p].want
        /\ L1.seen = read[p].seen /\ L1.err = read[p].err
    BY <2>1, <2>2, <2>3 DEF ReadRecord
  <2>5. read' = [read EXCEPT ![p] = L1]
    BY <1>3 DEF ReaderInv, IoInv, IoTypes, ReadRecord
  <2>6. L1.seen <= Len(ring[read[p].ring].cq) /\ InBatch(L1)
    BY <2>2, <2>4 DEF Accounted, InBatch
  <2> HIDE DEF L1
  <2> QED BY <1>1, <1>3, <2>1, <2>4, <2>5, <2>6, LocalStep
<1> QED BY <1>2, <1>3 DEF SubmitNoProgress

\* ... an impossible count: the kernel may have everything ...
LEMMA SubmitMisreportedStep ==
  ASSUME ReaderInv, NEW p \in Readers, SubmitMisreported(p), UNCHANGED poolVars
  PROVE  ReaderInv'
<1> DEFINE R == ring[read[p].ring]
           new == {[index |-> R.sq[i], fresh |-> TRUE] : i \in DOMAIN R.sq}
           R1 == [R EXCEPT !.sq = <<>>, !.kernel = @ \cup new]
<1>1. InBatch(read[p]) /\ read[p].pc # "none"
  BY DEF SubmitMisreported, Submitting, InBatch
<1>2. /\ R \in RingRecord /\ Accounted(read[p], R)
  BY <1>1, ReadFacts
<1>3. new \subseteq Operation /\ \A op \in new : op.fresh
  <2>1. R.sq \in Seq(Requests)
    BY <1>2 DEF RingRecord
  <2> SUFFICES ASSUME NEW i \in DOMAIN R.sq
               PROVE  /\ [index |-> R.sq[i], fresh |-> TRUE] \in Operation
                      /\ [index |-> R.sq[i], fresh |-> TRUE].fresh
    OBVIOUS
  <2>2. R.sq[i] \in Requests
    BY <2>1
  <2> QED BY <2>2 DEF Operation
<1>4. <<>> \in Seq(Requests)
  OBVIOUS
<1> HIDE DEF new
<1>5. R1 \in RingRecord /\ R1.state = R.state /\ R1.staging = R.staging /\ R1.kernel = R.kernel \cup new
  BY <1>2, <1>3, <1>4 DEF RingRecord
<1>6. Return(p, "failed", Abandoned(R1)) /\ canceled' = canceled /\ faults' \in 0..MaxFaults
  BY FaultCounted DEF SubmitMisreported, new
<1> HIDE DEF R1
<1>7. R1.state = "open" /\ R1.staging = "mapped" /\ \A op \in R1.kernel : op.fresh
  BY <1>2, <1>3, <1>5 DEF Accounted, FlightExact
<1>8. Abandoned(R1) \in RingRecord /\ Resting(Abandoned(R1)) /\ Abandoned(R1).state # "none"
  BY <1>5, <1>7, AbandonedRests
<1> QED BY <1>1, <1>6, <1>8, ReturnStep

\* ... and the usual case, a prefix accepted.
LEMMA SubmitAcceptedStep ==
  ASSUME ReaderInv, NEW p \in Readers, NEW c \in Requests, SubmitAccepted(p, c), UNCHANGED poolVars
  PROVE  ReaderInv'
<1> DEFINE L == read[p]
           R == ring[read[p].ring]
           accepted == Firsts(R, c)
<1>1. InBatch(L) /\ L.pc # "none" /\ c \in 1..L.want
  BY DEF SubmitAccepted, Submitting, InBatch
<1>2. /\ L \in ReadRecord /\ L.ring \in Rings /\ R \in RingRecord /\ Accounted(L, R)
      /\ R.state # "none"
  BY <1>1, ReadFacts
<1>3. PICK lost \in SUBSET accepted :
        /\ Fault \/ UNCHANGED faults
        /\ ring' = [ring EXCEPT
             ![L.ring].sq = SubSeq(R.sq, c + 1, Len(R.sq)),
             ![L.ring].kernel = @ \cup Operations(accepted \ lost),
             ![L.ring].damaged = @ \/ lost # {}]
        /\ read' = [read EXCEPT
             ![p].inFlight = @ \cup accepted, ![p].want = @ - c, ![p].tries = 0,
             ![p].pc = IF read[p].want = c THEN read[p].back ELSE "submit"]
        /\ UNCHANGED canceled
  BY DEF SubmitAccepted, Firsts, Operations
<1> DEFINE new == Operations(accepted \ lost)
           L1 == [L EXCEPT !.inFlight = @ \cup accepted, !.want = @ - c, !.tries = 0,
                           !.pc = IF L.want = c THEN L.back ELSE "submit"]
           R1 == [R EXCEPT !.sq = SubSeq(R.sq, c + 1, Len(R.sq)), !.kernel = @ \cup new,
                           !.damaged = @ \/ lost # {}]
<1>4. ring' = [ring EXCEPT ![read[p].ring] = R1] /\ read' = [read EXCEPT ![p] = L1]
  <2>1. ring \in [Rings -> RingRecord] /\ read \in [Readers -> ReadRecord]
    BY DEF ReaderInv, IoInv, IoTypes
  <2> HIDE DEF accepted
  <2> QED BY <1>2, <1>3, <2>1 DEF RingRecord, ReadRecord
<1>5. /\ R.sq \in Seq(Requests) /\ L.want \in 0..MaxRequests /\ Len(R.sq) = L.want /\ c \in Nat
      /\ c <= L.want
  BY <1>1, <1>2 DEF RingRecord, ReadRecord, Accounted, QueueExact
<1>6. \A i \in 1..c : R.sq[i] \in Requests
  BY <1>5
<1>7. accepted \subseteq Requests /\ lost \subseteq accepted
  BY <1>3, <1>6 DEF Firsts
<1>8. new \subseteq Operation
  <2> SUFFICES ASSUME NEW i \in accepted PROVE [index |-> i, fresh |-> TRUE] \in Operation
    BY DEF Operations
  <2> QED BY <1>7 DEF Operation
<1>9. SubSeq(R.sq, c + 1, Len(R.sq)) \in Seq(Requests) /\ L.want - c \in 0..MaxRequests
  BY <1>5, IoUringConstants
<1> HIDE DEF accepted, new
<1>10. /\ L1 \in ReadRecord /\ L1.ring = L.ring /\ L1.inFlight = L.inFlight \cup accepted
       /\ L1.want = L.want - c /\ L1.n = L.n /\ L1.seen = L.seen /\ L1.err = L.err
       /\ L1.pc \in {"submit", "drain", "consume"} /\ (L1.pc # "submit" => L.want = c)
  BY <1>2, <1>7, <1>9, ZeroInBounds DEF ReadRecord
<1>11. /\ R1 \in RingRecord /\ R1.state = R.state /\ R1.staging = R.staging /\ R1.cq = R.cq
       /\ R1.slot = R.slot /\ R1.sq = SubSeq(R.sq, c + 1, Len(R.sq))
       /\ R1.kernel = R.kernel \cup new /\ R1.damaged = (R.damaged \/ lost # {})
  BY <1>2, <1>8, <1>9 DEF RingRecord
<1> HIDE DEF L1, R1
<1>12. Accounted(L1, R1)
  <2>1. AcceptedFrom(L, R, c, lost, L1, R1)
    BY <1>7, <1>10, <1>11 DEF AcceptedFrom, accepted, new
  <2> QED BY <1>1, <1>2, <2>1, AcceptedAccounted
<1>13. InBatch(L1) /\ L1.pc # "none" /\ L1.pc # "copied" /\ R1.state # "none"
  BY <1>2, <1>10, <1>11 DEF InBatch
<1>14. canceled' = canceled /\ faults' \in 0..MaxFaults
  BY <1>3, FaultCounted
<1> QED BY <1>1, <1>4, <1>10, <1>11, <1>12, <1>13, <1>14, BatchStep

\* The drain loop: its top ...
LEMMA DrainTopStep ==
  ASSUME ReaderInv, NEW p \in Readers, DrainTop(p), UNCHANGED poolVars
  PROVE  ReaderInv'
<1> DEFINE L == read[p]
           R == ring[read[p].ring]
           err == IF canceled[p] THEN First(read[p].err, "canceled") ELSE read[p].err
           uncertain == read[p].uncertain \/ Damaged(p)
           err2 == IF Damaged(p) THEN First(err, "failed") ELSE err
           tries == IF R.cq = <<>> THEN L.tries ELSE 0
           at == IF R.cq = <<>> THEN "wait" ELSE "consume"
<1>1. L.pc = "drain" /\ InBatch(L) /\ canceled' = canceled /\ faults' \in 0..MaxFaults
  BY FaultCounted DEF DrainTop, InBatch
<1>2. /\ L \in ReadRecord /\ L.ring \in Rings /\ R \in RingRecord /\ Accounted(L, R)
  BY <1>1, ReadFacts
<1>3. /\ L.err \in {"none", "canceled", "failed"} /\ L.uncertain \in BOOLEAN
      /\ R.damaged \in BOOLEAN /\ R.poisoned \in BOOLEAN
      /\ Len(R.cq) \in Nat /\ tries \in 0..MaxTries /\ L.want = 0
  <2>1. L.err \in {"none", "canceled", "failed"} /\ L.uncertain \in BOOLEAN /\ L.tries \in 0..MaxTries
    BY <1>2 DEF ReadRecord
  <2>2. R.damaged \in BOOLEAN /\ R.poisoned \in BOOLEAN /\ R.cq \in Seq(Completion)
    BY <1>2 DEF RingRecord
  <2>3. L.want = 0
    BY <1>1, <1>2 DEF Accounted, QueueExact
  <2>4. tries \in 0..MaxTries
    BY <2>1, ZeroInBounds
  <2> QED BY <2>1, <2>2, <2>3, <2>4
<1>4. /\ err \in {"none", "canceled", "failed"} /\ (err = "none" => L.err = "none")
  BY <1>3, FirstType
<1>5. /\ err2 \in {"none", "canceled", "failed"} /\ (err2 = "none" => L.err = "none")
  BY <1>3, <1>4, FirstType
<1>6. uncertain \in BOOLEAN /\ (R.poisoned \/ Damaged(p)) \in BOOLEAN
  BY <1>3
<1>7. CASE Return(p, err2, Abandoned(R))
  BY <1>1, <1>5, <1>7, AbandonStep
<1>8. CASE /\ ring' = [ring EXCEPT ![read[p].ring].poisoned = @ \/ Damaged(p)]
           /\ read' = [read EXCEPT
                 ![p].err = err2, ![p].uncertain = uncertain, ![p].seen = Len(R.cq),
                 ![p].pc = at, ![p].tries = IF R.cq = <<>> THEN @ ELSE 0]
  <2> HIDE DEF err2, uncertain, at
  <2> DEFINE L1 == [L EXCEPT !.err = err2, !.uncertain = uncertain, !.seen = Len(R.cq),
                             !.pc = at, !.tries = tries]
  <2>1. read' = [read EXCEPT ![p] = L1]
    BY <1>8 DEF ReaderInv, IoInv, IoTypes, ReadRecord
  <2>2. ring' = [ring EXCEPT ![read[p].ring].poisoned = R.poisoned \/ Damaged(p)]
    BY <1>8
  <2>3. at \in {"wait", "drain", "consume"} /\ at \in {"wait", "consume"}
    BY DEF at
  <2> HIDE DEF tries
  <2>4. /\ L1 \in ReadRecord /\ L1.ring = L.ring /\ L1.inFlight = L.inFlight /\ L1.want = L.want
        /\ L1.n = L.n /\ L1.seen = Len(R.cq) /\ L1.err = err2 /\ L1.pc = at
    <3>1. L \in ReadRecord /\ Len(R.cq) \in Nat /\ tries \in 0..MaxTries
      BY <1>2, <1>3
    <3>2. err2 \in {"none", "canceled", "failed"} /\ at \in {"wait", "drain", "consume"}
      BY <1>5, <2>3
    <3>3. uncertain \in BOOLEAN
      BY <1>6
    <3>4. L1 \in ReadRecord
      BY <3>1, <3>2, <3>3 DEF ReadRecord
    <3>5. /\ L1.ring = L.ring /\ L1.inFlight = L.inFlight /\ L1.want = L.want
          /\ L1.n = L.n /\ L1.seen = Len(R.cq) /\ L1.err = err2 /\ L1.pc = at
      BY <3>1 DEF ReadRecord
    <3> QED BY <3>4, <3>5
  <2> HIDE DEF L1
  <2>5. InBatch(L1) /\ L1.pc # "submit" /\ L1.seen <= Len(R.cq) /\ L1.want = 0
    BY <1>3, <2>3, <2>4 DEF InBatch
  <2> QED BY <1>1, <1>3, <1>5, <1>6, <2>1, <2>2, <2>4, <2>5, BookkeepingStep
<1> QED BY <1>7, <1>8 DEF DrainTop

\* ... the wait for a completion ...
LEMMA WaitStep ==
  ASSUME ReaderInv, NEW p \in Readers, Wait(p), UNCHANGED poolVars
  PROVE  ReaderInv'
<1> DEFINE L == read[p]
           R == ring[read[p].ring]
<1>1. L.pc = "wait" /\ InBatch(L) /\ canceled' = canceled
  BY DEF Wait, InBatch
<1>2. /\ L \in ReadRecord /\ L.ring \in Rings /\ R \in RingRecord /\ Accounted(L, R)
  BY <1>1, ReadFacts
<1>3. /\ L.err \in {"none", "canceled", "failed"} /\ L.uncertain \in BOOLEAN
      /\ R.damaged \in BOOLEAN /\ R.poisoned \in BOOLEAN
      /\ R.cq \in Seq(Completion) /\ Len(R.cq) \in Nat /\ L.tries \in 0..MaxTries /\ L.want = 0
  BY <1>1, <1>2 DEF ReadRecord, RingRecord, Accounted, QueueExact
<1> DEFINE err1(fatal) == IF fatal THEN First(read[p].err, "failed") ELSE read[p].err
           err2(fatal) == IF canceled[p] THEN First(err1(fatal), "canceled") ELSE err1(fatal)
           err3(fatal) == IF Damaged(p) THEN First(err2(fatal), "failed") ELSE err2(fatal)
           poison(fatal) == R.poisoned \/ Damaged(p) \/ (fatal /\ read[p].err = "none")
           uncertain == read[p].uncertain \/ Damaged(p)
           stuck == R.cq = <<>> /\ read[p].tries + 1 >= MaxTries
           at == IF R.cq = <<>> THEN "drain" ELSE "consume"
           tries == IF R.cq = <<>> THEN L.tries + 1 ELSE 0
<1>4. PICK fatal \in BOOLEAN :
        /\ IF fatal THEN Fault ELSE UNCHANGED faults
        /\ \/ Return(p, First(err3(fatal), "failed"), Abandoned(R))
           \/ /\ R.cq = <<>> => ~uncertain /\ ~stuck
              /\ ring' = [ring EXCEPT ![read[p].ring].poisoned = poison(fatal)]
              /\ read' = [read EXCEPT
                   ![p].err = err3(fatal), ![p].uncertain = uncertain, ![p].seen = Len(R.cq),
                   ![p].pc = at, ![p].tries = IF R.cq = <<>> THEN @ + 1 ELSE 0]
  BY DEF Wait
<1>5. /\ err1(fatal) \in {"none", "canceled", "failed"} /\ (err1(fatal) = "none" => L.err = "none")
  BY <1>3, FirstType
<1>6. /\ err2(fatal) \in {"none", "canceled", "failed"} /\ (err2(fatal) = "none" => L.err = "none")
  <2> HIDE DEF err1
  <2> QED BY <1>5, FirstType
<1>7. /\ err3(fatal) \in {"none", "canceled", "failed"} /\ (err3(fatal) = "none" => L.err = "none")
  <2> HIDE DEF err2
  <2> QED BY <1>6, FirstType
<1>8. faults' \in 0..MaxFaults
  BY <1>4, FaultCounted
<1> HIDE DEF err1, err2, err3
<1>9. CASE Return(p, First(err3(fatal), "failed"), Abandoned(R))
  <2>1. First(err3(fatal), "failed") \in {"none", "canceled", "failed"}
    BY <1>7, FirstType
  <2> QED BY <1>1, <1>8, <1>9, <2>1, AbandonStep
<1>10. CASE /\ R.cq = <<>> => ~uncertain /\ ~stuck
            /\ ring' = [ring EXCEPT ![read[p].ring].poisoned = poison(fatal)]
            /\ read' = [read EXCEPT
                 ![p].err = err3(fatal), ![p].uncertain = uncertain, ![p].seen = Len(R.cq),
                 ![p].pc = at, ![p].tries = IF R.cq = <<>> THEN @ + 1 ELSE 0]
  <2>1. tries \in 0..MaxTries /\ at \in {"wait", "drain", "consume"} /\ at \in {"drain", "consume"}
    BY <1>3, <1>10, IoUringConstants
  <2>2. uncertain \in BOOLEAN /\ poison(fatal) \in BOOLEAN
    BY <1>3
  <2> DEFINE L1 == [L EXCEPT !.err = err3(fatal), !.uncertain = uncertain, !.seen = Len(R.cq),
                             !.pc = at, !.tries = tries]
  <2> HIDE DEF uncertain, at, poison
  <2>3. read' = [read EXCEPT ![p] = L1]
    BY <1>10 DEF ReaderInv, IoInv, IoTypes, ReadRecord
  <2> HIDE DEF tries
  <2>4. /\ L1 \in ReadRecord /\ L1.ring = L.ring /\ L1.inFlight = L.inFlight /\ L1.want = L.want
        /\ L1.n = L.n /\ L1.seen = Len(R.cq) /\ L1.err = err3(fatal) /\ L1.pc = at
    <3>1. L \in ReadRecord /\ Len(R.cq) \in Nat /\ tries \in 0..MaxTries
      BY <1>2, <1>3, <2>1
    <3>2. err3(fatal) \in {"none", "canceled", "failed"} /\ at \in {"wait", "drain", "consume"}
      BY <1>7, <2>1
    <3>3. uncertain \in BOOLEAN
      BY <2>2
    <3>4. L1 \in ReadRecord
      BY <3>1, <3>2, <3>3 DEF ReadRecord
    <3>5. /\ L1.ring = L.ring /\ L1.inFlight = L.inFlight /\ L1.want = L.want
          /\ L1.n = L.n /\ L1.seen = Len(R.cq) /\ L1.err = err3(fatal) /\ L1.pc = at
      BY <3>1 DEF ReadRecord
    <3> QED BY <3>4, <3>5
  <2> HIDE DEF L1
  <2>5. InBatch(L1) /\ L1.pc # "submit" /\ L1.seen <= Len(R.cq) /\ L1.want = 0
    BY <1>3, <2>1, <2>4 DEF InBatch
  <2> QED BY <1>1, <1>3, <1>7, <1>8, <1>10, <2>2, <2>3, <2>4, <2>5, BookkeepingStep
<1> QED BY <1>4, <1>9, <1>10

\* ... the end of a snapshot ...
LEMMA ConsumeEndStep ==
  ASSUME ReaderInv, NEW p \in Readers, ConsumeEnd(p), UNCHANGED poolVars
  PROVE  ReaderInv'
<1> DEFINE L == read[p]
           R == ring[read[p].ring]
           err == IF Damaged(p) THEN First(read[p].err, "failed") ELSE read[p].err
<1>1. L.pc = "consume" /\ InBatch(L) /\ canceled' = canceled /\ faults' \in 0..MaxFaults
  BY FaultCounted DEF ConsumeEnd, InBatch
<1>2. /\ L \in ReadRecord /\ L.ring \in Rings /\ R \in RingRecord /\ Accounted(L, R)
  BY <1>1, ReadFacts
<1>3. L.err \in {"none", "canceled", "failed"} /\ L.want = 0
  BY <1>1, <1>2 DEF ReadRecord, Accounted, QueueExact
<1>4. err \in {"none", "canceled", "failed"}
  BY <1>3, FirstType
<1>5. CASE Return(p, err, Abandoned(R))
  BY <1>1, <1>4, <1>5, AbandonStep
<1>6. CASE read' = [read EXCEPT ![p].pc = "drain"] /\ UNCHANGED ring
  <2> DEFINE L1 == [L EXCEPT !.pc = "drain"]
  <2>1. read' = [read EXCEPT ![p] = L1]
    BY <1>6 DEF ReaderInv, IoInv, IoTypes, ReadRecord
  <2>2. /\ L1 \in ReadRecord /\ L1.ring = L.ring /\ L1.inFlight = L.inFlight /\ L1.want = L.want
        /\ L1.n = L.n /\ L1.seen = L.seen /\ L1.err = L.err /\ L1.pc = "drain"
    BY <1>2 DEF ReadRecord
  <2> HIDE DEF L1
  <2>3. InBatch(L1) /\ L1.seen <= Len(R.cq) /\ L1.want = 0
    BY <1>2, <1>3, <2>2 DEF InBatch, Accounted
  <2> QED BY <1>1, <1>6, <2>1, <2>2, <2>3, LocalStep
<1> QED BY <1>5, <1>6 DEF ConsumeEnd

\* ... the end of the batch ...
LEMMA FinishStep ==
  ASSUME ReaderInv, NEW p \in Readers, Finish(p), UNCHANGED poolVars
  PROVE  ReaderInv'
<1> DEFINE L == read[p]
           R == ring[read[p].ring]
           err == IF Damaged(p) THEN First(read[p].err, "failed") ELSE read[p].err
<1>1. /\ L.pc = "drain" /\ L.inFlight = {} /\ InBatch(L) /\ L.pc # "none"
      /\ canceled' = canceled /\ faults' \in 0..MaxFaults
  BY FaultCounted DEF Finish, InBatch
<1>2. /\ L \in ReadRecord /\ L.ring \in Rings /\ R \in RingRecord /\ Accounted(L, R)
      /\ R.state # "none"
  BY <1>1, ReadFacts
<1>3. L.err \in {"none", "canceled", "failed"}
  BY <1>2 DEF ReadRecord
<1>4. err \in {"none", "canceled", "failed"}
  BY <1>3, FirstType
<1>5. CASE Damaged(p)
  BY <1>1, <1>4, <1>5, AbandonStep DEF Finish
<1>6. CASE ~Damaged(p)
  <2>1. Resting(R) /\ (L.err = "none" => Copied(L, R))
    BY <1>1, <1>2, <1>6, FinishedRests DEF Damaged
  <2>2. CASE Return(p, err, R)
    BY <1>1, <1>2, <1>4, <2>1, <2>2, ReturnStep
  <2>3. CASE err = "none" /\ read' = [read EXCEPT ![p].pc = "copied"] /\ UNCHANGED ring
    <3> DEFINE L1 == [L EXCEPT !.pc = "copied"]
    <3>1. read' = [read EXCEPT ![p] = L1] /\ ring' = [ring EXCEPT ![read[p].ring] = R]
      BY <1>2, <2>3 DEF ReaderInv, IoInv, IoTypes, ReadRecord
    <3>2. L1 \in ReadRecord /\ L1.ring = L.ring /\ L1.n = L.n /\ L1.pc = "copied"
      BY <1>2 DEF ReadRecord
    <3> HIDE DEF L1
    <3>3. ~InBatch(L1) /\ Copied(L1, R)
      BY <1>6, <2>1, <2>3, <3>2 DEF InBatch, Copied
    <3> QED BY <1>1, <1>2, <2>1, <3>1, <3>2, <3>3, BatchStep
  <2> QED BY <1>6, <2>2, <2>3 DEF Finish
<1> QED BY <1>5, <1>6

\* ... and one completion.
LEMMA ConsumeStep ==
  ASSUME ReaderInv, NEW p \in Readers, Consume(p), UNCHANGED poolVars
  PROVE  ReaderInv'
<1> DEFINE L == read[p]
           R == ring[read[p].ring]
           c == Head(R.cq)
           known == c.index \in L.inFlight
           retry == /\ known /\ c.res = "again" /\ L.err = "none" /\ ~canceled[p]
                    /\ L.retries[c.index] < MaxTries
           bad == known /\ ~Complete(c) /\ ~retry
           err == IF bad \/ ~known THEN First(L.err, "failed") ELSE L.err
           poisoned == R.poisoned \/ bad \/ ~known
           R0 == [R EXCEPT !.cq = Tail(@), !.poisoned = poisoned]
           L0 == [L EXCEPT !.seen = @ - 1, !.inFlight = @ \ {c.index},
                           !.uncertain = @ \/ ~known, !.err = err]
<1>1. /\ L.pc = "consume" /\ L.seen > 0 /\ InBatch(L) /\ L.pc # "none"
      /\ canceled' = canceled /\ faults' \in 0..MaxFaults
  BY FaultCounted DEF Consume, InBatch
<1>2. /\ L \in ReadRecord /\ L.ring \in Rings /\ R \in RingRecord /\ Accounted(L, R)
      /\ R.state # "none"
  BY <1>1, ReadFacts
<1>3. /\ ring' = [ring EXCEPT ![L.ring] = IF retry THEN Prepared(R0, <<c.index>>) ELSE R0]
      /\ read' = [read EXCEPT ![p] =
           IF retry THEN [L0 EXCEPT !.retries[c.index] = @ + 1, !.pc = "submit", !.want = 1,
                                    !.back = "consume", !.tries = 0]
                    ELSE L0]
  BY DEF Consume
<1>4. /\ L.err \in {"none", "canceled", "failed"} /\ L.uncertain \in BOOLEAN
      /\ R.poisoned \in BOOLEAN /\ L.seen \in Nat /\ L.inFlight \subseteq Requests
      /\ R.cq \in Seq(Completion) /\ L.want = 0 /\ L.seen <= Len(R.cq)
      /\ L.retries \in [Requests -> 0..MaxTries] /\ R.sq \in Seq(Requests)
  BY <1>1, <1>2 DEF ReadRecord, RingRecord, Accounted, QueueExact
<1>5. Tail(R.cq) \in Seq(Completion) /\ L.seen - 1 \in Nat
  BY <1>1, <1>4
<1>6. /\ err \in {"none", "canceled", "failed"}
      /\ err = "none" => L.err = "none" /\ known /\ ~bad
  BY <1>4, FirstType
<1>7. poisoned \in BOOLEAN /\ known \in BOOLEAN /\ retry \in BOOLEAN
  BY <1>4
<1> HIDE DEF c, known, bad, err, poisoned
<1>8. /\ R0 \in RingRecord /\ R0.state = R.state /\ R0.staging = R.staging /\ R0.slot = R.slot
      /\ R0.kernel = R.kernel /\ R0.damaged = R.damaged /\ R0.cq = Tail(R.cq) /\ R0.sq = R.sq
  BY <1>2, <1>5, <1>7 DEF RingRecord
<1>9. /\ L0 \in ReadRecord /\ L0.pc = "consume" /\ L0.ring = L.ring /\ L0.n = L.n
      /\ L0.inFlight = L.inFlight \ {c.index} /\ L0.want = 0 /\ L0.seen = L.seen - 1
      /\ L0.err = err /\ L0.retries = L.retries
  BY <1>1, <1>2, <1>4, <1>5, <1>6, <1>7 DEF ReadRecord
<1> HIDE DEF R0, L0
<1>10. CASE ~retry
  <2>1. err = "none" => L.err = "none" /\ c.index \in L.inFlight /\ c.res = "ok"
    BY <1>6, <1>10 DEF bad, known, Complete
  <2>2. Accounted(L0, R0)
    <3>1. ConsumedFrom(L, R, c, L0, R0)
      BY <1>8, <1>9, <2>1 DEF ConsumedFrom
    <3> QED BY <1>1, <1>2, <1>4, <3>1, ConsumedAccounted DEF c
  <2>3. InBatch(L0) /\ L0.pc # "none" /\ L0.pc # "copied" /\ R0.state # "none"
    BY <1>2, <1>8, <1>9 DEF InBatch
  <2>4. ring' = [ring EXCEPT ![L.ring] = R0] /\ read' = [read EXCEPT ![p] = L0]
    BY <1>3, <1>10
  <2> QED BY <1>1, <1>8, <1>9, <2>2, <2>3, <2>4, BatchStep
<1>11. CASE retry
  <2> DEFINE R1 == Prepared(R0, <<c.index>>)
             L1 == [L0 EXCEPT !.retries[c.index] = @ + 1, !.pc = "submit", !.want = 1,
                              !.back = "consume", !.tries = 0]
  <2>1. c.index \in L.inFlight /\ c.index \in Requests /\ L.retries[c.index] < MaxTries
    BY <1>4, <1>11 DEF known
  <2>2. R.sq \o <<c.index>> \in Seq(Requests)
    BY <1>4, <2>1
  <2>3. /\ R1 \in RingRecord /\ R1.state = R.state /\ R1.staging = R.staging /\ R1.slot = R.slot
        /\ R1.kernel = R.kernel /\ R1.damaged = R.damaged /\ R1.cq = Tail(R.cq)
        /\ R1.sq = R.sq \o <<c.index>>
    BY <1>8, <2>2 DEF Prepared, RingRecord
  <2>4. [L.retries EXCEPT ![c.index] = @ + 1] \in [Requests -> 0..MaxTries]
    BY <1>4, <2>1, IoUringConstants
  <2>5. 1 \in 0..MaxRequests
    BY IoUringConstants
  <2>6. /\ L1 \in ReadRecord /\ L1.pc = "submit" /\ L1.ring = L.ring /\ L1.n = L.n
        /\ L1.inFlight = L.inFlight \ {c.index} /\ L1.want = 1 /\ L1.seen = L.seen - 1
        /\ L1.err = err
    <3>1. L1 = [L0 EXCEPT !.retries = [L.retries EXCEPT ![c.index] = @ + 1], !.pc = "submit",
                          !.want = 1, !.back = "consume", !.tries = 0]
      BY <1>9
    <3> HIDE DEF L1
    <3> QED BY <1>9, <2>4, <2>5, <3>1, ZeroInBounds DEF ReadRecord
  <2>7. err = L.err
    BY <1>11 DEF err, bad, known
  <2>8. ring' = [ring EXCEPT ![L.ring] = R1] /\ read' = [read EXCEPT ![p] = L1]
    BY <1>3, <1>11
  <2> HIDE DEF R1, L1
  <2>9. Accounted(L1, R1)
    <3>1. ConsumedFrom(L, R, c, L1, R1)
      BY <2>1, <2>3, <2>6, <2>7 DEF ConsumedFrom
    <3> QED BY <1>1, <1>2, <1>4, <3>1, ConsumedAccounted DEF c
  <2>10. InBatch(L1) /\ L1.pc # "none" /\ L1.pc # "copied" /\ R1.state # "none"
    BY <1>2, <2>3, <2>6 DEF InBatch
  <2> QED BY <1>1, <2>3, <2>6, <2>8, <2>9, <2>10, BatchStep
<1> QED BY <1>10, <1>11

\* Every step of a Read keeps the invariant.
LEMMA ReadStepSafe ==
  ASSUME ReaderInv, NEW p \in Readers, ReadStep(p), UNCHANGED poolVars
  PROVE  ReaderInv'
BY SubmitCanceledStep, SubmitAcceptedStep, SubmitNoProgressStep, SubmitFailsStep,
   SubmitMisreportedStep, DrainTopStep, WaitStep, ConsumeStep, ConsumeEndStep, FinishStep
   DEF ReadStep

\* So does every step of the kernel.
LEMMA KernelSafe ==
  ASSUME ReaderInv, NEW r \in Rings, Kernel(r)
  PROVE  ReaderInv'
BY KernelCompletesStep, KernelOverflowsStep, KernelMalformedStep DEF Kernel, KernelStep

-----------------------------------------------------------------------------
(* The pool.                                                               *)

\* The sets that are counted are finite.
LEMMA Counted ==
  ASSUME PoolInv
  PROVE  /\ IsFiniteSet(idle) /\ Cardinality(idle) \in Nat
         /\ IsFiniteSet(Holding) /\ Cardinality(Holding) \in Nat
         /\ IsFiniteSet(Creating) /\ Cardinality(Creating) \in Nat
         /\ IsFiniteSet(Exists) /\ Cardinality(Exists) \in Nat
         /\ created \in Nat /\ capacity \in Nat /\ capacity <= Cardinality(Rings)
         /\ Cardinality(Rings) \in Nat
<1>1. IsFiniteSet(Rings) /\ IsFiniteSet(Readers)
  BY ReaderConfigs
<1>2. idle \subseteq Rings /\ Holding \subseteq Readers /\ Creating \subseteq Readers
      /\ Exists \subseteq Rings
  BY DEF PoolInv, PoolTypes, Holding, Creating, Exists
<1>3. IsFiniteSet(idle) /\ IsFiniteSet(Holding) /\ IsFiniteSet(Creating) /\ IsFiniteSet(Exists)
  BY <1>1, <1>2, FS_Subset
<1>4. /\ Cardinality(idle) \in Nat /\ Cardinality(Holding) \in Nat /\ Cardinality(Creating) \in Nat
      /\ Cardinality(Exists) \in Nat /\ Cardinality(Rings) \in Nat
  BY <1>1, <1>3, FS_CardinalityType
<1>5. created = Cardinality(idle) + Cardinality(Holding) + Cardinality(Creating)
  BY DEF PoolInv, CountExact
<1>6. capacity \in 1..Cardinality(Rings)
  BY ReaderConfigs DEF PoolInv, PoolTypes, capacity
<1> QED BY <1>3, <1>4, <1>5, <1>6

\* A set with one element more, and with one less.
LEMMA OneMore ==
  ASSUME NEW S, NEW x, IsFiniteSet(S), x \notin S
  PROVE  Cardinality(S \cup {x}) = Cardinality(S) + 1 /\ Cardinality(S) \in Nat
  BY FS_AddElement, FS_CardinalityType

\* Taking an element out of a finite set.
LEMMA OneLess ==
  ASSUME NEW S, NEW x, IsFiniteSet(S), x \in S
  PROVE  Cardinality(S \ {x}) = Cardinality(S) - 1 /\ Cardinality(S) \in Nat \ {0}
<1>1. Cardinality(S \ {x}) = Cardinality(S) - 1 /\ IsFiniteSet(S \ {x})
  BY FS_RemoveElement
<1>2. Cardinality(S) \in Nat /\ Cardinality(S \ {x}) \in Nat
  BY <1>1, FS_CardinalityType
<1> QED BY <1>1, <1>2

\* A reader that holds a ring is counted, outside of disableRings.
LEMMA HolderFacts ==
  ASSUME PoolInv, NEW p \in Readers
  PROVE  /\ poolMu # p => (p \in Holding <=> held[p] # None)
         /\ pc[p] \notin MayHave => held[p] = None /\ p \notin Holding
         /\ pc[p] \in Has => held[p] \in Rings /\ held[p] # None /\ poolMu # p /\ p \in Holding
         /\ pc[p] # "off" => ~closed
         /\ pc[p] \notin {"count", "receive"} => poolMu # p
  BY IoUringConstants DEF PoolInv, PoolTypes, OwnersExact, DrainExact, Holding, MayHave, Has

\* A call goes on, without touching the pool.
PcMove(p, w) ==
  /\ pc' = [pc EXCEPT ![p] = w] /\ w \in Places \ {"create"} /\ pc[p] # "create"
  /\ w \in Has => pc[p] \in Has
  /\ held[p] # None => w \in MayHave
  /\ pc[p] \in {"count", "receive"} <=> w \in {"count", "receive"}
  /\ closed => w = "off"
  /\ UNCHANGED <<held, config, created, idle, fallback, poolMu, draining, closed>>
  /\ notified' \subseteq Readers /\ calls' \in {0} \cup Readers
  /\ \A r \in Rings : ring'[r].state = ring[r].state

\* Such a step keeps the pool exact.
LEMMA PcMoves ==
  ASSUME PoolInv, NEW p \in Readers, NEW w, PcMove(p, w)
  PROVE  PoolInv'
<1>1. /\ pc \in [Readers -> Places] /\ pc'[p] = w /\ \A q \in Readers \ {p} : pc'[q] = pc[q]
      /\ pc' \in [Readers -> Places]
  BY DEF PoolInv, PoolTypes, PcMove
<1>2. Exists' = Exists /\ Holding' = Holding /\ Creating' = Creating
  <2>1. Exists' = Exists
    BY DEF PcMove, Exists
  <2>2. Holding' = Holding
    BY DEF PcMove, Holding
  <2>3. Creating' = Creating
    BY <1>1 DEF PcMove, Creating, At
  <2> QED BY <2>1, <2>2, <2>3
<1>3. PoolTypes'
  BY <1>1 DEF PoolInv, PoolTypes, PcMove
<1>4. OwnersExact'
  BY <1>1, <1>2 DEF PoolInv, OwnersExact, PcMove
<1>5. DrainExact'
  BY <1>1 DEF PoolInv, DrainExact, PcMove
<1>6. CountExact'
  BY <1>2 DEF PoolInv, CountExact, PcMove, capacity
<1> QED BY <1>3, <1>4, <1>5, <1>6 DEF PoolInv

\* A call takes a ring out of the channel.
TakeIdle(p, r, w) ==
  /\ r \in idle /\ held' = [held EXCEPT ![p] = r] /\ idle' = idle \ {r}
  /\ pc[p] \in {"acquire", "select"} /\ w \in Has /\ pc' = [pc EXCEPT ![p] = w]
  /\ UNCHANGED <<ring, config, created, fallback, poolMu, draining, closed, calls>>
  /\ notified' \subseteq Readers

\* The ring changes its owner, and the count stays.
LEMMA TakeIdles ==
  ASSUME PoolInv, NEW p \in Readers, NEW r, NEW w, TakeIdle(p, r, w)
  PROVE  PoolInv'
<1>1. /\ pc \in [Readers -> Places] /\ held \in [Readers -> Rings \cup {None}]
      /\ r \in Rings /\ r # None /\ w \in Places \ {"create", "count", "receive"} /\ w \in MayHave
  BY IoUringConstants DEF PoolInv, PoolTypes, TakeIdle, Has, MayHave, Places
<1>2. /\ pc'[p] = w /\ \A q \in Readers \ {p} : pc'[q] = pc[q]
      /\ held'[p] = r /\ \A q \in Readers \ {p} : held'[q] = held[q]
      /\ pc' \in [Readers -> Places] /\ held' \in [Readers -> Rings \cup {None}]
  BY <1>1 DEF TakeIdle
<1>3. held[p] = None /\ p \notin Holding /\ ~closed /\ poolMu # p /\ p \notin Creating
  BY HolderFacts DEF TakeIdle, MayHave, Has, Creating, At
<1>4. r \notin draining /\ r \in Exists /\ \A q \in Readers : held[q] # r
  BY <1>1 DEF PoolInv, OwnersExact, TakeIdle
<1>5. Exists' = Exists /\ Creating' = Creating /\ Holding' = Holding \cup {p}
  <2>1. Exists' = Exists
    BY DEF TakeIdle, Exists
  <2>2. Creating' = Creating
    BY <1>1, <1>2, <1>3 DEF Creating, At
  <2>3. Holding' = Holding \cup {p}
    BY <1>1, <1>2, <1>4 DEF Holding, TakeIdle
  <2> QED BY <2>1, <2>2, <2>3
<1>6. PoolTypes'
  BY <1>2 DEF PoolInv, PoolTypes, TakeIdle
<1>7. OwnersExact'
  <2>1. ASSUME NEW q \in Readers, held'[q] # None
        PROVE  /\ pc'[q] \in MayHave /\ held'[q] \notin idle' /\ held'[q] \in Exists'
               /\ held'[q] \in draining' <=> poolMu' = q
               /\ \A s \in Readers : held'[s] = held'[q] => s = q
    <3>1. CASE q = p
      BY <1>1, <1>2, <1>3, <1>4, <1>5, <3>1 DEF TakeIdle
    <3>2. CASE q # p
      BY <1>1, <1>2, <1>4, <1>5, <2>1, <3>2 DEF PoolInv, OwnersExact, TakeIdle
    <3> QED BY <3>1, <3>2
  <2>2. \A q \in Readers : pc'[q] \in Has => held'[q] # None
    BY <1>1, <1>2 DEF PoolInv, OwnersExact
  <2>3. idle' \subseteq Exists' /\ draining' \subseteq Exists' /\ idle' \cap draining' = {}
    BY <1>5 DEF PoolInv, OwnersExact, TakeIdle
  <2>4. ASSUME NEW s \in Rings, ring'[s].state = "open"
        PROVE  s \in idle' \cup draining' \/ \E q \in Readers : held'[q] = s
    BY <1>2, <1>3, <2>4, IoUringConstants DEF PoolInv, OwnersExact, TakeIdle
  <2> QED BY <2>1, <2>2, <2>3, <2>4 DEF OwnersExact
<1>8. DrainExact'
  BY <1>1, <1>2, <1>3 DEF PoolInv, DrainExact, TakeIdle
<1>9. CountExact'
  <2>1. /\ Cardinality(Holding') = Cardinality(Holding) + 1
        /\ Cardinality(idle') = Cardinality(idle) - 1
    BY <1>3, <1>5, Counted, OneMore, OneLess DEF TakeIdle
  <2> QED BY <1>5, <2>1, Counted DEF PoolInv, CountExact, TakeIdle, capacity
<1> QED BY <1>6, <1>7, <1>8, <1>9 DEF PoolInv

\* A call reserves a place in the pool for a ring it will create.
ReservePlace(p) ==
  /\ pc[p] = "acquire" /\ ~fallback /\ created < capacity
  /\ created' = created + 1 /\ pc' = [pc EXCEPT ![p] = "create"]
  /\ UNCHANGED <<ring, held, config, idle, fallback, poolMu, draining, closed, calls>>
  /\ notified' \subseteq Readers

\* The place is counted before the ring exists.
LEMMA ReservesPlace ==
  ASSUME PoolInv, NEW p \in Readers, ReservePlace(p)
  PROVE  PoolInv'
<1>1. /\ pc \in [Readers -> Places] /\ pc'[p] = "create"
      /\ \A q \in Readers \ {p} : pc'[q] = pc[q]
      /\ pc' \in [Readers -> Places]
  BY DEF PoolInv, PoolTypes, ReservePlace, Places
<1>2. held[p] = None /\ ~closed /\ poolMu # p /\ p \notin Creating
  BY HolderFacts DEF ReservePlace, MayHave, Has, Creating, At
<1>3. Exists' = Exists /\ Holding' = Holding /\ Creating' = Creating \cup {p}
  <2>1. Exists' = Exists /\ Holding' = Holding
    BY DEF ReservePlace, Exists, Holding
  <2>2. Creating' = Creating \cup {p}
    BY <1>1 DEF Creating, At
  <2> QED BY <2>1, <2>2
<1>4. PoolTypes'
  BY <1>1 DEF PoolInv, PoolTypes, ReservePlace
<1>5. OwnersExact'
  BY <1>1, <1>2, <1>3 DEF PoolInv, OwnersExact, ReservePlace, Has
<1>6. DrainExact'
  BY <1>1, <1>2 DEF PoolInv, DrainExact, ReservePlace
<1>7. CountExact'
  <2>1. Cardinality(Creating') = Cardinality(Creating) + 1
    BY <1>2, <1>3, Counted, OneMore
  <2>2. created = Cardinality(Exists) + Cardinality(Creating)
    BY <1>2 DEF PoolInv, CountExact, ReservePlace
  <2> QED BY <1>3, <2>1, <2>2, Counted DEF PoolInv, CountExact, ReservePlace, capacity
<1> QED BY <1>4, <1>5, <1>6, <1>7 DEF PoolInv

\* A place that was reserved leaves room for another ring.
LEMMA RoomForRing ==
  ASSUME PoolInv, NEW p \in Readers, pc[p] = "create"
  PROVE  \E r \in Rings : ring[r].state = "none"
<1>1. p \in Creating
  BY DEF Creating, At
<1>2. Cardinality(Creating) \in Nat \ {0}
  BY <1>1, Counted, OneLess
<1>3. Cardinality(Exists) < Cardinality(Rings)
  BY <1>2, Counted DEF PoolInv, CountExact
<1>4. Exists # Rings
  BY <1>3, Counted
<1> QED BY <1>4 DEF Exists

\* The new ring takes the place that was reserved for it.
LEMMA CreateRingPool ==
  ASSUME PoolInv, IoTypes, NEW p \in Readers, CreateRing(p)
  PROVE  PoolInv'
<1> DEFINE r == CHOOSE r \in Rings : ring[r].state = "none"
<1>1. pc[p] = "create"
  BY DEF CreateRing, At
<1>2. r \in Rings /\ ring[r].state = "none"
  BY <1>1, RoomForRing
<1>3. /\ ring' = [ring EXCEPT ![r].state = "open"] /\ held' = [held EXCEPT ![p] = r]
      /\ pc' = [pc EXCEPT ![p] = "got"]
      /\ UNCHANGED <<calls, config, created, idle, fallback, poolMu, notified, draining, closed>>
  BY DEF CreateRing, Goto
<1> HIDE DEF r
<1>4. /\ pc'[p] = "got" /\ \A q \in Readers \ {p} : pc'[q] = pc[q]
      /\ held'[p] = r /\ \A q \in Readers \ {p} : held'[q] = held[q]
      /\ pc' \in [Readers -> Places] /\ held' \in [Readers -> Rings \cup {None}]
  BY <1>2, <1>3 DEF PoolInv, PoolTypes, Places
<1>5. /\ ring'[r].state = "open" /\ \A s \in Rings \ {r} : ring'[s].state = ring[s].state
  BY <1>2, <1>3 DEF IoTypes, RingRecord
<1>6. held[p] = None /\ p \notin Holding /\ ~closed /\ poolMu # p /\ p \in Creating
  BY <1>1, HolderFacts DEF MayHave, Has, Creating, At
<1>7. /\ r \notin Exists /\ r \notin idle /\ r \notin draining /\ r # None
      /\ \A q \in Readers : held[q] # r
  BY <1>2, IoUringConstants DEF PoolInv, OwnersExact, Exists
<1>8. Exists' = Exists \cup {r} /\ Creating' = Creating \ {p} /\ Holding' = Holding \cup {p}
  <2>1. Exists' = Exists \cup {r}
    BY <1>2, <1>5 DEF Exists
  <2>2. Creating' = Creating \ {p}
    BY <1>4 DEF Creating, At
  <2>3. Holding' = Holding \cup {p}
    BY <1>3, <1>4, <1>7 DEF Holding
  <2> QED BY <2>1, <2>2, <2>3
<1>9. PoolTypes'
  BY <1>3, <1>4 DEF PoolInv, PoolTypes
<1>10. OwnersExact'
  <2>1. ASSUME NEW q \in Readers, held'[q] # None
        PROVE  /\ pc'[q] \in MayHave /\ held'[q] \notin idle' /\ held'[q] \in Exists'
               /\ held'[q] \in draining' <=> poolMu' = q
               /\ \A s \in Readers : held'[s] = held'[q] => s = q
    <3>1. CASE q = p
      BY <1>3, <1>4, <1>6, <1>7, <1>8, <3>1 DEF MayHave, Has
    <3>2. CASE q # p
      BY <1>3, <1>4, <1>7, <1>8, <2>1, <3>2 DEF PoolInv, OwnersExact
    <3> QED BY <3>1, <3>2
  <2>2. \A q \in Readers : pc'[q] \in Has => held'[q] # None
    BY <1>4, <1>7 DEF PoolInv, OwnersExact
  <2>3. idle' \subseteq Exists' /\ draining' \subseteq Exists' /\ idle' \cap draining' = {}
    BY <1>3, <1>8 DEF PoolInv, OwnersExact
  <2>4. ASSUME NEW s \in Rings, ring'[s].state = "open"
        PROVE  s \in idle' \cup draining' \/ \E q \in Readers : held'[q] = s
    <3>1. CASE s = r
      BY <1>4, <3>1
    <3>2. CASE s # r
      BY <1>3, <1>4, <1>5, <1>6, <2>4, <3>2, IoUringConstants DEF PoolInv, OwnersExact
    <3> QED BY <3>1, <3>2
  <2> QED BY <2>1, <2>2, <2>3, <2>4 DEF OwnersExact
<1>11. DrainExact'
  BY <1>3, <1>4, <1>6 DEF PoolInv, DrainExact
<1>12. CountExact'
  <2>1. /\ Cardinality(Holding') = Cardinality(Holding) + 1
        /\ Cardinality(Exists') = Cardinality(Exists) + 1
        /\ Cardinality(Creating') = Cardinality(Creating) - 1
    BY <1>6, <1>7, <1>8, Counted, OneMore, OneLess
  <2> QED BY <1>3, <2>1, Counted DEF PoolInv, CountExact, capacity
<1> QED BY <1>9, <1>10, <1>11, <1>12 DEF PoolInv

\* The place is given back when the ring cannot be created.
LEMMA CreateFailsPool ==
  ASSUME PoolInv, NEW p \in Readers, CreateFails(p)
  PROVE  PoolInv'
<1>1. PICK w \in {"disable", "off"} : pc' = [pc EXCEPT ![p] = w]
  BY DEF CreateFails, Goto, End
<1>2. /\ pc[p] = "create" /\ created' = created - 1 /\ notified' \subseteq Readers
      /\ UNCHANGED <<ring, held, calls, config, idle, fallback, poolMu, draining, closed>>
  BY DEF CreateFails, At, PoolInv, PoolTypes
<1>3. /\ pc'[p] = w /\ \A q \in Readers \ {p} : pc'[q] = pc[q]
      /\ pc' \in [Readers -> Places]
  BY <1>1 DEF PoolInv, PoolTypes, Places
<1>4. held[p] = None /\ ~closed /\ poolMu # p /\ p \in Creating
  BY <1>2, HolderFacts DEF MayHave, Has, Creating, At
<1>5. Exists' = Exists /\ Holding' = Holding /\ Creating' = Creating \ {p}
  <2>1. Exists' = Exists /\ Holding' = Holding
    BY <1>2 DEF Exists, Holding
  <2>2. Creating' = Creating \ {p}
    BY <1>1, <1>3 DEF Creating, At
  <2> QED BY <2>1, <2>2
<1>6. PoolTypes'
  BY <1>2, <1>3 DEF PoolInv, PoolTypes
<1>7. OwnersExact'
  BY <1>1, <1>2, <1>3, <1>4, <1>5 DEF PoolInv, OwnersExact, Has
<1>8. DrainExact'
  BY <1>1, <1>2, <1>3, <1>4 DEF PoolInv, DrainExact
<1>9. CountExact'
  <2>1. Cardinality(Creating') = Cardinality(Creating) - 1
    BY <1>4, <1>5, Counted, OneLess
  <2> QED BY <1>2, <1>5, <2>1, Counted DEF PoolInv, CountExact, capacity
<1> QED BY <1>6, <1>7, <1>8, <1>9 DEF PoolInv

\* A call gives up the ring it holds: the ring is closed, or goes back into the
\* channel.
GiveUp(p, w, idle1) ==
  /\ pc[p] \in Has /\ poolMu = None /\ pc' = [pc EXCEPT ![p] = w] /\ w \in {"pread", "off"}
  /\ held' = [held EXCEPT ![p] = None] /\ idle' = idle1
  /\ UNCHANGED <<calls, config, fallback, poolMu, notified, draining, closed>>
  /\ \A r \in Rings \ {held[p]} : ring'[r].state = ring[r].state
  /\ \/ idle1 = idle /\ fallback /\ ring'[held[p]].state = "closed" /\ created' = created - 1
     \/ idle1 = idle \cup {held[p]} /\ ring' = ring /\ created' = created

\* Either way the ring is counted once, or no more.
LEMMA GivesUp ==
  ASSUME PoolInv, NEW p \in Readers, NEW w, NEW idle1, GiveUp(p, w, idle1)
  PROVE  PoolInv'
<1> DEFINE h == held[p]
<1>1. /\ h \in Rings /\ h # None /\ p \in Holding /\ ~closed /\ draining = {}
      /\ h \notin idle /\ h \in Exists /\ \A q \in Readers \ {p} : held[q] # h
  <2>1. h \in Rings /\ h # None /\ p \in Holding
    BY HolderFacts DEF GiveUp
  <2>2. ~closed /\ draining = {}
    BY HolderFacts DEF GiveUp, Has, PoolInv, DrainExact
  <2> QED BY <2>1, <2>2 DEF PoolInv, OwnersExact
<1>2. /\ pc'[p] = w /\ \A q \in Readers \ {p} : pc'[q] = pc[q]
      /\ held'[p] = None /\ \A q \in Readers \ {p} : held'[q] = held[q]
      /\ pc' \in [Readers -> Places] /\ held' \in [Readers -> Rings \cup {None}]
      /\ w \in {"pread", "off"} /\ pc[p] \in Has
  BY DEF GiveUp, PoolInv, PoolTypes, Places
<1>3. Exists' = Exists /\ Creating' = Creating /\ Holding' = Holding \ {p}
  <2>1. Exists' = Exists
    BY <1>1 DEF GiveUp, Exists
  <2>2. Creating' = Creating
    BY <1>2 DEF Creating, At, Has
  <2>3. Holding' = Holding \ {p}
    BY <1>2 DEF Holding, GiveUp
  <2> QED BY <2>1, <2>2, <2>3
<1>4. idle' \subseteq idle \cup {h} /\ created' \in Int
  BY Counted DEF GiveUp
<1>5. PoolTypes'
  BY <1>1, <1>2, <1>4 DEF PoolInv, PoolTypes, GiveUp
<1>6. OwnersExact'
  <2>1. ASSUME NEW q \in Readers, held'[q] # None
        PROVE  /\ pc'[q] \in MayHave /\ held'[q] \notin idle' /\ held'[q] \in Exists'
               /\ held'[q] \in draining' <=> poolMu' = q
               /\ \A s \in Readers : held'[s] = held'[q] => s = q
    <3>1. q # p
      BY <1>2, <2>1
    <3> QED BY <1>1, <1>2, <1>3, <1>4, <2>1, <3>1 DEF PoolInv, OwnersExact, GiveUp
  <2>2. \A q \in Readers : pc'[q] \in Has => held'[q] # None
    BY <1>2 DEF PoolInv, OwnersExact, Has
  <2>3. idle' \subseteq Exists' /\ draining' \subseteq Exists' /\ idle' \cap draining' = {}
    BY <1>1, <1>3, <1>4 DEF PoolInv, OwnersExact, GiveUp
  <2>4. ASSUME NEW s \in Rings, ring'[s].state = "open"
        PROVE  s \in idle' \cup draining' \/ \E q \in Readers : held'[q] = s
    <3>1. CASE s = h
      BY <1>1, <2>4, <3>1 DEF GiveUp
    <3>2. CASE s # h
      <4>1. s \in idle \cup draining \/ \E q \in Readers : held[q] = s
        BY <2>4, <3>2 DEF GiveUp, PoolInv, OwnersExact
      <4>2. idle \subseteq idle' /\ draining' = draining
        BY DEF GiveUp
      <4> QED BY <1>2, <3>2, <4>1, <4>2
    <3> QED BY <3>1, <3>2
  <2> QED BY <2>1, <2>2, <2>3, <2>4 DEF OwnersExact
<1>7. DrainExact'
  <2>1. UNCHANGED <<poolMu, draining, fallback, closed>> /\ poolMu = None
    BY DEF GiveUp
  <2> QED BY <1>1, <1>2, <2>1 DEF PoolInv, DrainExact, Has
<1>8. CountExact'
  <2>1. Cardinality(Holding') = Cardinality(Holding) - 1
    BY <1>1, <1>3, Counted, OneLess
  <2>2. CASE idle' = idle /\ fallback' /\ created' = created - 1
    BY <1>3, <2>1, <2>2, Counted DEF PoolInv, CountExact, GiveUp, capacity
  <2>3. CASE idle' = idle \cup {h} /\ created' = created
    <3>1. Cardinality(idle') = Cardinality(idle) + 1
      BY <1>1, <2>3, Counted, OneMore
    <3> QED BY <1>3, <2>1, <2>3, <3>1, Counted DEF PoolInv, CountExact, GiveUp, capacity
  <2> QED BY <2>2, <2>3 DEF GiveUp
<1> QED BY <1>5, <1>6, <1>7, <1>8 DEF PoolInv

\* disableRings counts the ring of its caller off ...
LEMMA DisablePool ==
  ASSUME PoolInv, NEW p \in Readers, Disable(p)
  PROVE  PoolInv'
<1>1. /\ pc[p] = "disable" /\ poolMu = None /\ poolMu' = p /\ fallback' = TRUE
      /\ draining' = (IF held[p] = None THEN {} ELSE {held[p]})
      /\ created' = created - Cardinality(draining')
      /\ UNCHANGED <<ring, held, calls, config, idle, notified, closed>>
      /\ pc' = [pc EXCEPT ![p] = "count"]
  BY DEF Disable, At, PoolFree, Goto, ioVars
<1>2. /\ pc'[p] = "count" /\ \A q \in Readers \ {p} : pc'[q] = pc[q]
      /\ pc' \in [Readers -> Places] /\ held[p] \in Rings \cup {None}
  BY <1>1 DEF PoolInv, PoolTypes, Places
<1>3. draining = {} /\ ~closed /\ p # None /\ (p \in Holding <=> held[p] # None)
  BY <1>1, HolderFacts, ReaderConfigs DEF PoolInv, DrainExact
<1>4. Exists' = Exists /\ Creating' = Creating /\ Holding' = Holding \ {p}
  <2>1. Exists' = Exists
    BY <1>1 DEF Exists
  <2>2. Creating' = Creating
    BY <1>1, <1>2 DEF Creating, At
  <2>3. Holding' = Holding \ {p}
    BY <1>1, <1>3 DEF Holding, PoolInv, OwnersExact
  <2> QED BY <2>1, <2>2, <2>3
<1>5. Cardinality(Holding') = Cardinality(Holding) - Cardinality(draining')
      /\ Cardinality(draining') \in 0..1
  <2>1. CASE held[p] = None
    <3>1. Holding' = Holding /\ Cardinality(draining') = 0
      BY <1>1, <1>3, <1>4, <2>1, FS_EmptySet
    <3> QED BY <3>1, Counted
  <2>2. CASE held[p] # None
    <3>1. Cardinality(draining') = 1
      BY <1>1, <2>2, FS_Singleton
    <3> QED BY <1>3, <1>4, <2>2, <3>1, Counted, OneLess
  <2> QED BY <2>1, <2>2
<1>6. PoolTypes'
  BY <1>1, <1>2, <1>5, Counted DEF PoolInv, PoolTypes
<1>7. OwnersExact'
  <2>1. ASSUME NEW q \in Readers, held[q] # None
        PROVE  /\ pc'[q] \in MayHave /\ held[q] \notin idle /\ held[q] \in Exists'
               /\ held[q] \in draining' <=> poolMu' = q
               /\ \A s \in Readers : held[s] = held[q] => s = q
    BY <1>1, <1>2, <1>4, <2>1 DEF PoolInv, OwnersExact, MayHave
  <2>2. \A q \in Readers : pc'[q] \in Has => held[q] # None
    BY <1>2 DEF PoolInv, OwnersExact, Has
  <2>3. idle \subseteq Exists' /\ draining' \subseteq Exists' /\ idle \cap draining' = {}
    BY <1>1, <1>4 DEF PoolInv, OwnersExact
  <2>4. \A s \in Rings : ring'[s].state = "open" =>
          s \in idle \cup draining' \/ \E q \in Readers : held[q] = s
    BY <1>1, <1>3 DEF PoolInv, OwnersExact
  <2> QED BY <1>1, <2>1, <2>2, <2>3, <2>4 DEF OwnersExact
<1>8. DrainExact'
  BY <1>1, <1>2, <1>3, ReaderConfigs DEF PoolInv, DrainExact
<1>9. CountExact'
  BY <1>1, <1>4, <1>5, Counted DEF PoolInv, CountExact, capacity
<1> QED BY <1>6, <1>7, <1>8, <1>9 DEF PoolInv

\* ... and each ring it receives from the channel ...
LEMMA DisableReceivePool ==
  ASSUME PoolInv, NEW p \in Readers, DisableReceive(p)
  PROVE  PoolInv'
<1>1. PICK r \in idle : idle' = idle \ {r} /\ draining' = draining \cup {r}
  BY DEF DisableReceive
<1>2. /\ pc[p] = "receive" /\ created' = created - 1 /\ pc' = [pc EXCEPT ![p] = "count"]
      /\ UNCHANGED <<ring, held, calls, config, fallback, poolMu, notified, closed>>
  BY DEF DisableReceive, At, Goto, ioVars
<1>3. /\ pc'[p] = "count" /\ \A q \in Readers \ {p} : pc'[q] = pc[q]
      /\ pc' \in [Readers -> Places] /\ r \in Rings
  BY <1>1, <1>2 DEF PoolInv, PoolTypes, Places
<1>4. poolMu = p /\ ~closed /\ fallback /\ p # None /\ r \in Exists /\ \A q \in Readers : held[q] # r
  BY <1>1, <1>2, <1>3, IoUringConstants, ReaderConfigs DEF PoolInv, DrainExact, OwnersExact
<1>5. Exists' = Exists /\ Creating' = Creating /\ Holding' = Holding
  <2>1. Exists' = Exists
    BY <1>2 DEF Exists
  <2>2. Creating' = Creating
    BY <1>2, <1>3 DEF Creating, At
  <2>3. Holding' = Holding
    BY <1>1, <1>2, <1>4 DEF Holding
  <2> QED BY <2>1, <2>2, <2>3
<1>6. PoolTypes'
  BY <1>1, <1>2, <1>3, Counted DEF PoolInv, PoolTypes
<1>7. OwnersExact'
  <2>1. ASSUME NEW q \in Readers, held[q] # None
        PROVE  /\ pc'[q] \in MayHave /\ held[q] \notin idle' /\ held[q] \in Exists'
               /\ held[q] \in draining' <=> poolMu = q
               /\ \A s \in Readers : held[s] = held[q] => s = q
    BY <1>1, <1>3, <1>4, <1>5, <2>1 DEF PoolInv, OwnersExact, MayHave
  <2>2. \A q \in Readers : pc'[q] \in Has => held[q] # None
    BY <1>3 DEF PoolInv, OwnersExact, Has
  <2>3. idle' \subseteq Exists' /\ draining' \subseteq Exists' /\ idle' \cap draining' = {}
    BY <1>1, <1>4, <1>5 DEF PoolInv, OwnersExact
  <2>4. \A s \in Rings : ring[s].state = "open" =>
          s \in idle' \cup draining' \/ \E q \in Readers : held[q] = s
    BY <1>1 DEF PoolInv, OwnersExact
  <2> QED BY <1>2, <2>1, <2>2, <2>3, <2>4 DEF OwnersExact
<1>8. DrainExact'
  BY <1>2, <1>3, <1>4 DEF PoolInv, DrainExact
<1>9. CountExact'
  <2>1. Cardinality(idle') = Cardinality(idle) - 1
    BY <1>1, Counted, OneLess
  <2> QED BY <1>2, <1>4, <1>5, <2>1, Counted DEF PoolInv, CountExact, capacity
<1> QED BY <1>6, <1>7, <1>8, <1>9 DEF PoolInv

\* closeLocked on a ring at rest.
LEMMA ClosedRests ==
  ASSUME NEW R \in RingRecord, Resting(R)
  PROVE  Closed(R) \in RingRecord /\ Closed(R).state = "closed" /\ Resting(Closed(R))
<1>1. CASE R.state = "closed"
  BY <1>1 DEF Closed
<1>2. CASE R.state # "closed"
  <2> DEFINE staging == CASE R.staging = "mapped" -> "unmapped" [] OTHER -> R.staging
  <2>1. staging \in {"none", "mapped", "retained", "unmapped"}
    BY DEF RingRecord
  <2>2. Closed(R) = [R EXCEPT !.state = "closed", !.cq = <<>>, !.sq = <<>>, !.staging = staging]
    BY <1>2 DEF Closed
  <2>3. <<>> \in Seq(Requests) /\ <<>> \in Seq(Completion)
    OBVIOUS
  <2> HIDE DEF staging
  <2>4. /\ Closed(R) \in RingRecord /\ Closed(R).state = "closed" /\ Closed(R).sq = <<>>
        /\ Closed(R).kernel = R.kernel
    BY <2>1, <2>2, <2>3 DEF RingRecord
  <2> QED BY <1>2, <2>4 DEF Resting
<1> QED BY <1>1, <1>2

\* ... and closes those and no others.
LEMMA DisableEndPool ==
  ASSUME PoolInv, NEW p \in Readers, DisableEnd(p),
         \A r \in draining : Closed(ring[r]).state = "closed"
  PROVE  PoolInv'
<1>1. PICK w \in {"pread", "off"} : pc' = [pc EXCEPT ![p] = w]
  BY DEF DisableEnd, Goto, End
<1>2. /\ pc[p] = "count" /\ idle = {} /\ poolMu' = None /\ draining' = {}
      /\ ring' = [r \in Rings |-> IF r \in draining THEN Closed(ring[r]) ELSE ring[r]]
      /\ held' = [held EXCEPT ![p] = None]
      /\ UNCHANGED <<calls, config, created, idle, fallback, notified, closed>>
  BY DEF DisableEnd, At
<1>3. /\ pc'[p] = w /\ \A q \in Readers \ {p} : pc'[q] = pc[q]
      /\ held'[p] = None /\ \A q \in Readers \ {p} : held'[q] = held[q]
      /\ pc' \in [Readers -> Places] /\ held' \in [Readers -> Rings \cup {None}]
  BY <1>1, <1>2 DEF PoolInv, PoolTypes, Places
<1>4. /\ poolMu = p /\ p # None /\ ~closed /\ fallback
      /\ \A q \in Readers \ {p} : held[q] # None => held[q] \notin draining
      /\ held[p] # None => held[p] \in draining
      /\ \A q \in Readers \ {p} : pc[q] \notin {"count", "receive"}
  BY <1>2, ReaderConfigs DEF PoolInv, DrainExact, OwnersExact
<1>5. /\ \A r \in Rings \cap draining : ring'[r].state = "closed"
      /\ \A r \in Rings \ draining : ring'[r] = ring[r]
  BY <1>2
<1>6. Exists' = Exists /\ Creating' = Creating /\ Holding' = Holding
  <2>1. Exists' = Exists
    BY <1>5 DEF Exists, PoolInv, OwnersExact
  <2>2. Creating' = Creating
    BY <1>1, <1>2, <1>3 DEF Creating, At
  <2>3. Holding' = Holding
    BY <1>2, <1>3, <1>4 DEF Holding
  <2> QED BY <2>1, <2>2, <2>3
<1>7. PoolTypes'
  BY <1>2, <1>3 DEF PoolInv, PoolTypes
<1>8. OwnersExact'
  <2>1. ASSUME NEW q \in Readers, held'[q] # None
        PROVE  /\ pc'[q] \in MayHave /\ held'[q] \notin idle' /\ held'[q] \in Exists'
               /\ held'[q] \in draining' <=> poolMu' = q
               /\ \A s \in Readers : held'[s] = held'[q] => s = q
    <3>1. q # p
      BY <1>3, <2>1
    <3>2. q # None
      BY ReaderConfigs
    <3> QED BY <1>2, <1>3, <1>6, <2>1, <3>1, <3>2 DEF PoolInv, OwnersExact
  <2>2. \A q \in Readers : pc'[q] \in Has => held'[q] # None
    BY <1>1, <1>3 DEF PoolInv, OwnersExact, Has
  <2>3. idle' \subseteq Exists' /\ draining' \subseteq Exists' /\ idle' \cap draining' = {}
    BY <1>2
  <2>4. ASSUME NEW s \in Rings, ring'[s].state = "open"
        PROVE  s \in idle' \cup draining' \/ \E q \in Readers : held'[q] = s
    <3>1. s \notin draining /\ ring[s].state = "open"
      BY <1>5, <2>4
    <3> QED BY <1>2, <1>3, <1>4, <3>1, IoUringConstants DEF PoolInv, OwnersExact
  <2> QED BY <2>1, <2>2, <2>3, <2>4 DEF OwnersExact
<1>9. DrainExact'
  BY <1>1, <1>2, <1>3, <1>4, ReaderConfigs DEF PoolInv, DrainExact
<1>10. CountExact'
  BY <1>2, <1>6 DEF PoolInv, CountExact, capacity
<1> QED BY <1>7, <1>8, <1>9, <1>10 DEF PoolInv

\* Close finds every ring that is open in the channel.
LEMMA ClosePool ==
  ASSUME PoolInv, Close, \A r \in idle : Closed(ring[r]).state = "closed"
  PROVE  PoolInv'
<1>1. /\ \A p \in Readers : pc[p] = "off"
      /\ closed' = TRUE /\ created' = 0 /\ idle' = {}
      /\ ring' = [r \in Rings |-> IF r \in idle THEN Closed(ring[r]) ELSE ring[r]]
      /\ UNCHANGED <<pc, held, calls, config, fallback, poolMu, notified, draining>>
  BY DEF Close, At
<1>2. /\ \A p \in Readers : held[p] = None
      /\ poolMu = None /\ draining = {}
  <2>1. \A p \in Readers : held[p] = None
    BY <1>1 DEF PoolInv, OwnersExact, MayHave, Has
  <2>2. poolMu = None
    BY <1>1 DEF PoolInv, PoolTypes, DrainExact
  <2> QED BY <2>1, <2>2 DEF PoolInv, DrainExact
<1>3. /\ \A r \in Rings \cap idle : ring'[r].state = "closed"
      /\ \A r \in Rings \ idle : ring'[r] = ring[r]
  BY <1>1
<1>4. Exists' = Exists /\ Creating' = {} /\ Holding' = {} /\ Creating = {}
  <2>1. Exists' = Exists
    BY <1>3 DEF Exists, PoolInv, OwnersExact
  <2>2. Creating' = {} /\ Creating = {}
    BY <1>1 DEF Creating, At
  <2>3. Holding' = {}
    BY <1>1, <1>2 DEF Holding
  <2> QED BY <2>1, <2>2, <2>3
<1>5. PoolTypes'
  BY <1>1 DEF PoolInv, PoolTypes
<1>6. OwnersExact'
  BY <1>1, <1>2, <1>3 DEF PoolInv, OwnersExact, Has
<1>7. DrainExact'
  BY <1>1 DEF PoolInv, DrainExact
<1>8. CountExact'
  <2>1. Cardinality({}) = 0
    BY FS_EmptySet
  <2> QED BY <1>1, <1>4, <2>1, Counted DEF PoolInv, CountExact, capacity
<1> QED BY <1>5, <1>6, <1>7, <1>8 DEF PoolInv

-----------------------------------------------------------------------------
(* What the steps of the pool leave of the batches.                        *)

\* Rings that no Read uses may change, as long as they rest.
LEMMA IoRest ==
  ASSUME ReaderInv, NEW C, read' = read,
         canceled' \in [Readers -> BOOLEAN], faults' \in 0..MaxFaults,
         ring' \in [Rings -> RingRecord], \A r \in Rings \ C : ring'[r] = ring[r],
         \A r \in Rings \cap C : Resting(ring'[r]),
         \A p \in Readers : read[p].pc # "none" => read[p].ring \notin C
  PROVE  IoInv'
<1>1. IoTypes'
  BY DEF ReaderInv, IoInv, IoTypes
<1>2. \A p \in Readers : InBatch(read[p]) \/ read[p].pc = "copied" =>
        read[p].ring \in Rings \ C
  BY DEF InBatch, ReaderInv, Linked
<1>3. \A p \in Readers : InBatch(read'[p]) => Accounted(read'[p], ring'[read'[p].ring])
  BY <1>2 DEF ReaderInv, IoInv
<1>4. \A p \in Readers : read'[p].pc = "copied" => Copied(read'[p], ring'[read'[p].ring])
  BY <1>2 DEF ReaderInv, IoInv
<1>5. \A r \in Rings :
        (\A p \in Readers : InBatch(read'[p]) => read'[p].ring # r) => Resting(ring'[r])
  BY DEF ReaderInv, IoInv
<1> QED BY <1>1, <1>3, <1>4, <1>5 DEF IoInv

\* The reader p, which is not inside Read, goes on.
LEMMA LinkedFrame ==
  ASSUME ReaderInv, NEW p \in Readers, pc[p] # "read", read' = read,
         \A q \in Readers \ {p} : pc'[q] = pc[q] /\ held'[q] = held[q]
  PROVE  Linked'
  BY DEF ReaderInv, Linked

\* A ring that is not held by a call inside Read rests.
LEMMA UnreadRests ==
  ASSUME ReaderInv, NEW r \in Rings, \A q \in Readers : pc[q] = "read" => held[q] # r
  PROVE  /\ ring[r] \in RingRecord /\ Resting(ring[r])
         /\ \A q \in Readers : read[q].pc # "none" => read[q].ring # r
  BY DEF ReaderInv, IoInv, IoTypes, Linked, InBatch

\* A pool step of p that leaves rings and batches alone.
LEMMA QuietStep ==
  ASSUME ReaderInv, NEW p \in Readers, pc[p] # "read", PoolInv', UNCHANGED <<ring, read>>,
         canceled' = canceled \/ canceled' = [canceled EXCEPT ![p] = FALSE],
         Fault \/ UNCHANGED faults,
         \A q \in Readers \ {p} : pc'[q] = pc[q] /\ held'[q] = held[q]
  PROVE  ReaderInv'
<1>1. canceled' \in [Readers -> BOOLEAN] /\ ring' \in [Rings -> RingRecord]
  BY DEF ReaderInv, IoInv, IoTypes
<1>2. faults' \in 0..MaxFaults
  BY FaultCounted
<1>3. IoInv'
  <2> DEFINE C == {}
  <2>1. /\ \A r \in Rings \ C : ring'[r] = ring[r]
        /\ \A r \in Rings \cap C : Resting(ring'[r])
        /\ \A q \in Readers : read[q].pc # "none" => read[q].ring \notin C
    OBVIOUS
  <2> HIDE DEF C
  <2> QED BY <1>1, <1>2, <2>1, IoRest
<1>4. Linked'
  BY LinkedFrame
<1> QED BY <1>3, <1>4 DEF ReaderInv

\* What Goto leaves of the other calls.
LEMMA OthersStay ==
  ASSUME PoolInv, NEW p \in Readers, NEW w, pc' = [pc EXCEPT ![p] = w]
  PROVE  pc'[p] = w /\ \A q \in Readers \ {p} : pc'[q] = pc[q]
  BY DEF PoolInv, PoolTypes

\* Steps that only move the call.
LEMMA BeginStep ==
  ASSUME ReaderInv, NEW p \in Readers, Begin(p)
  PROVE  ReaderInv'
<1>1. PICK w \in {"pread", "acquire"} : pc' = [pc EXCEPT ![p] = w]
  BY DEF Begin, Goto
<1>2. PoolInv
  BY DEF ReaderInv
<1>3. held[p] = None
  BY <1>2, HolderFacts DEF Begin, At, MayHave, Has
<1>4. /\ pc[p] = "off" /\ ~closed /\ calls' = p
      /\ UNCHANGED <<ring, read, canceled, faults, held, config, created, idle, fallback, poolMu,
                     notified, draining, closed>>
  BY DEF Begin, At, ioVars
<1>5. PcMove(p, w)
  BY <1>1, <1>2, <1>3, <1>4 DEF PcMove, PoolInv, PoolTypes, Places, Has
<1>6. PoolInv'
  BY <1>2, <1>5, PcMoves
<1> QED BY <1>1, <1>2, <1>4, <1>6, OthersStay, QuietStep

\* A cancellation is seen later.
LEMMA CancelStep ==
  ASSUME ReaderInv, NEW p \in Readers, Cancel(p)
  PROVE  ReaderInv'
<1>1. /\ canceled' = [canceled EXCEPT ![p] = TRUE] /\ UNCHANGED <<ring, read, faults>>
      /\ UNCHANGED poolVars
  BY DEF Cancel
<1>2. PoolInv'
  BY <1>1, PoolFrame DEF ReaderInv
<1>3. IoInv'
  BY <1>1 DEF ReaderInv, IoInv, IoTypes
<1>4. Linked'
  BY <1>1 DEF ReaderInv, Linked, poolVars
<1> QED BY <1>2, <1>3, <1>4 DEF ReaderInv

\* acquireRing: pread, a ring of the channel, a place, or the select.
LEMMA AcquireStep ==
  ASSUME ReaderInv, NEW p \in Readers, Acquire(p)
  PROVE  ReaderInv'
<1>1. /\ pc[p] = "acquire" /\ notified' = notified \ {p}
      /\ UNCHANGED <<ring, read, canceled, faults, calls, config, fallback, poolMu, draining, closed>>
  BY DEF Acquire, At, ioVars
<1>2. PoolInv /\ notified' \subseteq Readers /\ calls \in {0} \cup Readers
  BY <1>1 DEF ReaderInv, PoolInv, PoolTypes
<1>3. held[p] = None /\ ~closed
  BY <1>1, <1>2, HolderFacts DEF MayHave, Has
<1>4. ASSUME NEW w \in {"pread", "select"}, Goto(p, w), UNCHANGED <<held, created, idle>>
      PROVE  ReaderInv'
  <2>1. PcMove(p, w)
    BY <1>1, <1>2, <1>3, <1>4 DEF PcMove, Goto, Places, Has
  <2>2. PoolInv'
    BY <1>2, <2>1, PcMoves
  <2> QED BY <1>1, <1>2, <1>4, <2>2, OthersStay, QuietStep DEF Goto
<1>5. ASSUME NEW r \in idle, held' = [held EXCEPT ![p] = r], idle' = idle \ {r},
             Goto(p, "got"), UNCHANGED created
      PROVE  ReaderInv'
  <2>1. TakeIdle(p, r, "got")
    BY <1>1, <1>2, <1>5 DEF TakeIdle, Goto, Has
  <2>2. PoolInv'
    BY <1>2, <2>1, TakeIdles
  <2>3. \A q \in Readers \ {p} : held'[q] = held[q]
    BY <1>2, <1>5 DEF PoolInv, PoolTypes
  <2> QED BY <1>1, <1>2, <1>5, <2>2, <2>3, OthersStay, QuietStep DEF Goto
<1>6. ASSUME ~fallback, created < capacity, created' = created + 1, Goto(p, "create"),
             UNCHANGED <<held, idle>>
      PROVE  ReaderInv'
  <2>1. ReservePlace(p)
    BY <1>1, <1>2, <1>6 DEF ReservePlace, Goto
  <2>2. PoolInv'
    BY <1>2, <2>1, ReservesPlace
  <2> QED BY <1>1, <1>2, <1>6, <2>2, OthersStay, QuietStep DEF Goto
<1> QED BY <1>4, <1>5, <1>6 DEF Acquire

\* newRing fails.
LEMMA CreateFailsStep ==
  ASSUME ReaderInv, NEW p \in Readers, CreateFails(p)
  PROVE  ReaderInv'
<1>1. PICK w : pc' = [pc EXCEPT ![p] = w]
  BY DEF CreateFails, Goto, End
<1>2. /\ pc[p] = "create" /\ Fault /\ UNCHANGED <<ring, read, held>>
      /\ canceled' = canceled \/ canceled' = [canceled EXCEPT ![p] = FALSE]
  BY DEF CreateFails, At, End
<1>3. PoolInv /\ PoolInv'
  BY CreateFailsPool DEF ReaderInv
<1> QED BY <1>1, <1>2, <1>3, OthersStay, QuietStep

\* The select receives a ring.
LEMMA SelectRingStep ==
  ASSUME ReaderInv, NEW p \in Readers, SelectRing(p)
  PROVE  ReaderInv'
<1>1. PICK r \in idle : held' = [held EXCEPT ![p] = r] /\ idle' = idle \ {r}
  BY DEF SelectRing
<1>2. /\ pc[p] = "select" /\ pc' = [pc EXCEPT ![p] = "taken"]
      /\ UNCHANGED <<ring, read, canceled, faults, calls, config, created, fallback, poolMu,
                     notified, draining, closed>>
  BY DEF SelectRing, At, Goto, ioVars
<1>3. PoolInv
  BY DEF ReaderInv
<1>4. TakeIdle(p, r, "taken")
  BY <1>1, <1>2, <1>3 DEF TakeIdle, Has, PoolInv, PoolTypes
<1>5. PoolInv'
  BY <1>3, <1>4, TakeIdles
<1>6. \A q \in Readers \ {p} : held'[q] = held[q]
  BY <1>1, <1>3 DEF PoolInv, PoolTypes
<1> QED BY <1>2, <1>3, <1>5, <1>6, OthersStay, QuietStep

\* The select ends otherwise.
LEMMA SelectOtherStep ==
  ASSUME ReaderInv, NEW p \in Readers, SelectOther(p)
  PROVE  ReaderInv'
<1>1. PICK w \in {"off", "pread", "acquire"} : pc' = [pc EXCEPT ![p] = w]
  BY DEF SelectOther, Goto, End
<1>2. /\ pc[p] = "select"
      /\ canceled' = canceled \/ canceled' = [canceled EXCEPT ![p] = FALSE]
      /\ UNCHANGED <<ring, read, faults, held, calls, config, created, idle, fallback, poolMu,
                     draining, closed>>
      /\ notified' \subseteq notified
  BY DEF SelectOther, At, End
<1>3. PoolInv
  BY DEF ReaderInv
<1>4. held[p] = None /\ ~closed
  BY <1>2, <1>3, HolderFacts DEF MayHave, Has
<1>5. PcMove(p, w)
  BY <1>1, <1>2, <1>3, <1>4 DEF PcMove, PoolInv, PoolTypes, Places, Has
<1>6. PoolInv'
  BY <1>3, <1>5, PcMoves
<1> QED BY <1>1, <1>2, <1>3, <1>6, OthersStay, QuietStep

\* disableRings, its four steps.
LEMMA DisableStep ==
  ASSUME ReaderInv, NEW p \in Readers, Disable(p)
  PROVE  ReaderInv'
<1>1. /\ pc[p] = "disable" /\ pc' = [pc EXCEPT ![p] = "count"]
      /\ UNCHANGED <<ring, read, canceled, faults, held>>
  BY DEF Disable, At, Goto, ioVars
<1>2. PoolInv /\ PoolInv'
  BY DisablePool DEF ReaderInv
<1> QED BY <1>1, <1>2, OthersStay, QuietStep

\* The receive, with poolMu held.
LEMMA DisableReceiveStep ==
  ASSUME ReaderInv, NEW p \in Readers, DisableReceive(p)
  PROVE  ReaderInv'
<1>1. /\ pc[p] = "receive" /\ pc' = [pc EXCEPT ![p] = "count"]
      /\ UNCHANGED <<ring, read, canceled, faults, held>>
  BY DEF DisableReceive, At, Goto, ioVars
<1>2. PoolInv /\ PoolInv'
  BY DisableReceivePool DEF ReaderInv
<1> QED BY <1>1, <1>2, OthersStay, QuietStep

\* The look at the length of the channel.
LEMMA DisableCountStep ==
  ASSUME ReaderInv, NEW p \in Readers, DisableCount(p)
  PROVE  ReaderInv'
<1>1. /\ pc[p] = "count" /\ pc' = [pc EXCEPT ![p] = "receive"]
      /\ UNCHANGED <<ring, read, canceled, faults, held, calls, config, created, idle, fallback,
                     poolMu, notified, draining, closed>>
  BY DEF DisableCount, At, Goto, ioVars
<1>2. PoolInv
  BY DEF ReaderInv
<1>3. ~closed
  BY <1>1, <1>2, HolderFacts
<1>4. PcMove(p, "receive")
  BY <1>1, <1>2, <1>3 DEF PcMove, PoolInv, PoolTypes, Places, Has, MayHave
<1>5. PoolInv'
  BY <1>2, <1>4, PcMoves
<1> QED BY <1>1, <1>2, <1>5, OthersStay, QuietStep

\* The call ends with pread.
LEMMA PreadStep ==
  ASSUME ReaderInv, NEW p \in Readers, Pread(p)
  PROVE  ReaderInv'
<1>1. /\ pc[p] = "pread" /\ pc' = [pc EXCEPT ![p] = "off"]
      /\ canceled' = [canceled EXCEPT ![p] = FALSE]
      /\ UNCHANGED <<ring, read, faults, held, calls, config, created, idle, fallback,
                     poolMu, notified, draining, closed>>
  BY DEF Pread, At, Goto, End
<1>2. PoolInv
  BY DEF ReaderInv
<1>3. ~closed /\ held[p] = None
  BY <1>1, <1>2, HolderFacts DEF MayHave, Has
<1>4. PcMove(p, "off")
  BY <1>1, <1>2, <1>3 DEF PcMove, PoolInv, PoolTypes, Places, Has, MayHave
<1>5. PoolInv'
  BY <1>2, <1>4, PcMoves
<1> QED BY <1>1, <1>2, <1>5, OthersStay, QuietStep

\* Steps that close a ring, or use one.
LEMMA CreateRingStep ==
  ASSUME ReaderInv, NEW p \in Readers, CreateRing(p)
  PROVE  ReaderInv'
<1> DEFINE r == CHOOSE r \in Rings : ring[r].state = "none"
           R1 == [ring[r] EXCEPT !.state = "open"]
<1>1. PoolInv /\ IoTypes /\ pc[p] = "create"
  BY DEF ReaderInv, IoInv, CreateRing, At
<1>2. PoolInv'
  BY <1>1, CreateRingPool
<1>3. r \in Rings /\ ring[r].state = "none"
  BY <1>1, RoomForRing
<1>4. /\ ring' = [ring EXCEPT ![r].state = "open"] /\ held' = [held EXCEPT ![p] = r]
      /\ pc' = [pc EXCEPT ![p] = "got"] /\ UNCHANGED <<read, canceled, faults>>
  BY DEF CreateRing, Goto
<1> HIDE DEF r
<1>5. \A q \in Readers : held[q] # r
  BY <1>1, <1>3, IoUringConstants DEF PoolInv, OwnersExact, Exists
<1>6. /\ ring[r] \in RingRecord /\ Resting(ring[r])
      /\ \A q \in Readers : read[q].pc # "none" => read[q].ring # r
  BY <1>3, <1>5, UnreadRests
<1>7. ring' = [ring EXCEPT ![r] = R1]
  BY <1>1, <1>3, <1>4 DEF IoTypes, RingRecord
<1>8. R1 \in RingRecord /\ Resting(R1)
  BY <1>3, <1>6 DEF RingRecord, Resting
<1> HIDE DEF R1
<1>9. /\ ring' \in [Rings -> RingRecord] /\ \A s \in Rings \ {r} : ring'[s] = ring[s]
      /\ \A s \in Rings \cap {r} : Resting(ring'[s])
  BY <1>1, <1>3, <1>7, <1>8 DEF IoTypes
<1>10. canceled' \in [Readers -> BOOLEAN] /\ faults' \in 0..MaxFaults /\ read' = read
  BY <1>1, <1>4 DEF IoTypes
<1>11. IoInv'
  <2> DEFINE C == {r}
  <2>1. \A q \in Readers : read[q].pc # "none" => read[q].ring \notin C
    BY <1>6
  <2> QED BY <1>9, <1>10, <2>1, IoRest
<1>12. \A q \in Readers \ {p} : pc'[q] = pc[q] /\ held'[q] = held[q]
  BY <1>1, <1>4 DEF PoolInv, PoolTypes
<1>13. Linked'
  BY <1>1, <1>4, <1>12, LinkedFrame
<1> QED BY <1>2, <1>11, <1>13 DEF ReaderInv

\* The call gives its ring up, and the ring is closed or goes back.
LEMMA GiveUpStep ==
  ASSUME ReaderInv, NEW p \in Readers, pc[p] \in Has \ {"read"}, poolMu = None,
         NEW w \in {"pread", "off"}, pc' = [pc EXCEPT ![p] = w],
         held' = [held EXCEPT ![p] = None],
         \/ /\ ring' = [ring EXCEPT ![held[p]] = Closed(@)] /\ created' = created - 1
            /\ fallback /\ idle' = idle
         \/ ring' = ring /\ created' = created /\ idle' = idle \cup {held[p]},
         canceled' = canceled \/ canceled' = [canceled EXCEPT ![p] = FALSE],
         UNCHANGED <<read, faults, calls, config, fallback, poolMu, notified, draining, closed>>
  PROVE  ReaderInv'
<1> DEFINE h == held[p]
<1>1. PoolInv /\ IoTypes
  BY DEF ReaderInv, IoInv
<1>2. h \in Rings /\ \A q \in Readers : pc[q] = "read" => held[q] # h
  <2>1. h \in Rings /\ h # None
    BY <1>1, HolderFacts
  <2>2. \A q \in Readers : held[q] = h => q = p
    BY <1>1, <2>1 DEF PoolInv, OwnersExact
  <2> QED BY <2>1, <2>2
<1>3. /\ ring[h] \in RingRecord /\ Resting(ring[h])
      /\ \A q \in Readers : read[q].pc # "none" => read[q].ring # h
  BY <1>2, UnreadRests
<1>4. Closed(ring[h]) \in RingRecord /\ Closed(ring[h]).state = "closed" /\ Resting(Closed(ring[h]))
  BY <1>3, ClosedRests
<1>5. /\ ring' \in [Rings -> RingRecord] /\ \A s \in Rings \ {h} : ring'[s] = ring[s]
      /\ ring'[h] = Closed(ring[h]) \/ ring'[h] = ring[h]
  BY <1>1, <1>2, <1>4 DEF IoTypes
<1>6. canceled' \in [Readers -> BOOLEAN] /\ faults' \in 0..MaxFaults
  BY <1>1 DEF IoTypes
<1>7. IoInv'
  <2> DEFINE C == {h}
  <2>1. /\ \A q \in Readers : read[q].pc # "none" => read[q].ring \notin C
        /\ \A s \in Rings \cap C : Resting(ring'[s])
        /\ \A s \in Rings \ C : ring'[s] = ring[s]
    BY <1>3, <1>4, <1>5
  <2> HIDE DEF C
  <2> QED BY <1>5, <1>6, <2>1, IoRest
<1>8. GiveUp(p, w, idle')
  <2>1. \/ /\ fallback /\ idle' = idle /\ created' = created - 1 /\ ring'[h].state = "closed"
        \/ ring' = ring /\ created' = created /\ idle' = idle \cup {held[p]}
    BY <1>1, <1>2, <1>4 DEF IoTypes
  <2> QED BY <1>5, <2>1 DEF GiveUp
<1>9. PoolInv'
  BY <1>1, <1>8, GivesUp
<1>10. \A q \in Readers \ {p} : pc'[q] = pc[q] /\ held'[q] = held[q]
  BY <1>1 DEF PoolInv, PoolTypes
<1>11. Linked'
  BY <1>10, LinkedFrame
<1> QED BY <1>7, <1>9, <1>11 DEF ReaderInv

\* The second look at fallback, after the select.
LEMMA TakenStep ==
  ASSUME ReaderInv, NEW p \in Readers, Taken(p)
  PROVE  ReaderInv'
<1>1. /\ pc[p] = "taken" /\ poolMu = None
      /\ UNCHANGED <<read, canceled, faults, calls, config, idle, fallback, poolMu, notified,
                     draining, closed>>
  BY DEF Taken, At, PoolFree
<1>2. PoolInv
  BY DEF ReaderInv
<1>3. CASE /\ fallback /\ DropRing(p) /\ held' = [held EXCEPT ![p] = None] /\ Goto(p, "pread")
  BY <1>1, <1>3, GiveUpStep DEF DropRing, Goto, Has
<1>4. CASE Goto(p, "got") /\ UNCHANGED <<ring, created, held>>
  <2>1. PcMove(p, "got")
    BY <1>1, <1>2, <1>4, HolderFacts DEF PcMove, Goto, PoolInv, PoolTypes, Places, Has, MayHave
  <2>2. PoolInv'
    BY <1>2, <2>1, PcMoves
  <2> QED BY <1>1, <1>2, <1>4, <2>2, OthersStay, QuietStep DEF Goto
<1> QED BY <1>3, <1>4 DEF Taken

\* releaseRing.
LEMMA ReleaseStep ==
  ASSUME ReaderInv, NEW p \in Readers, Release(p)
  PROVE  ReaderInv'
<1>1. /\ pc[p] \in Has \ {"read"} /\ poolMu = None /\ held' = [held EXCEPT ![p] = None]
      /\ UNCHANGED <<read, faults, calls, config, fallback, poolMu, notified, draining, closed>>
  BY DEF Release, PoolFree, Has
<1>2. PICK w \in {"pread", "off"} :
        /\ pc' = [pc EXCEPT ![p] = w]
        /\ canceled' = canceled \/ canceled' = [canceled EXCEPT ![p] = FALSE]
  BY DEF Release, Goto, End
<1>3. \/ /\ ring' = [ring EXCEPT ![held[p]] = Closed(@)] /\ created' = created - 1
         /\ fallback /\ idle' = idle
      \/ ring' = ring /\ created' = created /\ idle' = idle \cup {held[p]}
  BY DEF Release, DropRing
<1> QED BY <1>1, <1>2, <1>3, GiveUpStep

\* The end of disableRings: no batch uses a ring it closes.
LEMMA DisableEndStep ==
  ASSUME ReaderInv, NEW p \in Readers, DisableEnd(p)
  PROVE  ReaderInv'
<1>1. /\ pc[p] = "count" /\ held' = [held EXCEPT ![p] = None]
      /\ ring' = [r \in Rings |-> IF r \in draining THEN Closed(ring[r]) ELSE ring[r]]
      /\ UNCHANGED <<read, faults>>
      /\ canceled' = canceled \/ canceled' = [canceled EXCEPT ![p] = FALSE]
  BY DEF DisableEnd, At, End
<1>2. PICK w : pc' = [pc EXCEPT ![p] = w]
  BY DEF DisableEnd, Goto, End
<1>3. PoolInv /\ IoTypes /\ draining \subseteq Rings
  BY DEF ReaderInv, IoInv, PoolInv, PoolTypes
<1>4. \A r \in draining : \A q \in Readers : pc[q] = "read" => held[q] # r
  BY <1>3, IoUringConstants DEF PoolInv, OwnersExact, DrainExact
<1>5. \A r \in draining :
        /\ ring[r] \in RingRecord /\ Resting(ring[r])
        /\ \A q \in Readers : read[q].pc # "none" => read[q].ring # r
  BY <1>3, <1>4, UnreadRests
<1>6. \A r \in draining : /\ Closed(ring[r]) \in RingRecord /\ Closed(ring[r]).state = "closed"
                          /\ Resting(Closed(ring[r]))
  BY <1>5, ClosedRests
<1>7. PoolInv'
  BY <1>3, <1>6, DisableEndPool
<1>8. /\ ring' \in [Rings -> RingRecord] /\ \A s \in Rings \ draining : ring'[s] = ring[s]
      /\ \A s \in Rings \cap draining : Resting(ring'[s])
  BY <1>1, <1>3, <1>6 DEF IoTypes
<1>9. canceled' \in [Readers -> BOOLEAN] /\ faults' \in 0..MaxFaults
  BY <1>1, <1>3 DEF IoTypes
<1>10. IoInv'
  BY <1>1, <1>5, <1>8, <1>9, IoRest
<1>11. \A q \in Readers \ {p} : pc'[q] = pc[q] /\ held'[q] = held[q]
  BY <1>1, <1>2, <1>3 DEF PoolInv, PoolTypes
<1>12. Linked'
  BY <1>1, <1>11, LinkedFrame
<1> QED BY <1>7, <1>10, <1>12 DEF ReaderInv

\* Close, when no call is left.
LEMMA CloseStep ==
  ASSUME ReaderInv, Close
  PROVE  ReaderInv'
<1>1. /\ \A p \in Readers : pc[p] = "off"
      /\ ring' = [r \in Rings |-> IF r \in idle THEN Closed(ring[r]) ELSE ring[r]]
      /\ UNCHANGED <<read, canceled, faults, pc, held>>
  BY DEF Close, At
<1>2. PoolInv /\ IoTypes /\ idle \subseteq Rings
  BY DEF ReaderInv, IoInv, PoolInv, PoolTypes
<1>3. \A r \in idle :
        /\ ring[r] \in RingRecord /\ Resting(ring[r])
        /\ \A q \in Readers : read[q].pc # "none" => read[q].ring # r
  BY <1>1, <1>2, UnreadRests
<1>4. \A r \in idle : /\ Closed(ring[r]) \in RingRecord /\ Closed(ring[r]).state = "closed"
                      /\ Resting(Closed(ring[r]))
  BY <1>3, ClosedRests
<1>5. PoolInv'
  BY <1>2, <1>4, ClosePool
<1>6. /\ ring' \in [Rings -> RingRecord] /\ \A s \in Rings \ idle : ring'[s] = ring[s]
      /\ \A s \in Rings \cap idle : Resting(ring'[s])
  BY <1>1, <1>2, <1>4 DEF IoTypes
<1>7. canceled' \in [Readers -> BOOLEAN] /\ faults' \in 0..MaxFaults
  BY <1>1, <1>2 DEF IoTypes
<1>8. IoInv'
  BY <1>1, <1>3, <1>6, <1>7, IoRest
<1>9. Linked'
  BY <1>1 DEF ReaderInv, Linked
<1> QED BY <1>5, <1>8, <1>9 DEF ReaderInv

\* A call begins to read with its ring: it is refused, or prepares a batch.
LEMMA EnterRead ==
  ASSUME ReaderInv, NEW p \in Readers, pc[p] = "got", pc' = [pc EXCEPT ![p] = "read"],
         UNCHANGED <<held, calls, config, created, idle, fallback, poolMu, notified, draining,
                     closed>>,
         NEW L1 \in ReadRecord, NEW R1 \in RingRecord,
         ring' = [ring EXCEPT ![held[p]] = R1], read' = [read EXCEPT ![p] = L1],
         canceled' = canceled, faults' \in 0..MaxFaults,
         L1.pc \in {"submit", "returned"}, L1.ring = held[p], R1.state = ring[held[p]].state,
         InBatch(L1) => Accounted(L1, R1), ~InBatch(L1) => Resting(R1)
  PROVE  ReaderInv'
<1> DEFINE h == held[p]
<1>1. PoolInv
  BY DEF ReaderInv
<1>2. h \in Rings /\ h # None /\ ~closed
  BY <1>1, HolderFacts DEF Has
<1>3. \A q \in Readers \ {p} : read[q].pc # "none" => read[q].ring # h
  BY <1>1, <1>2 DEF PoolInv, OwnersExact, ReaderInv, Linked
<1>4. read[p].pc = "none" /\ canceled' \in [Readers -> BOOLEAN]
  BY DEF ReaderInv, Linked, IoInv, IoTypes
<1>5. /\ IoInv'
      /\ ring'[h] = R1 /\ \A s \in Rings \ {h} : ring'[s] = ring[s]
      /\ read'[p] = L1 /\ \A q \in Readers \ {p} : read'[q] = read[q]
  BY <1>2, <1>3, <1>4, BatchChange
<1>6. PcMove(p, "read")
  BY <1>1, <1>2, <1>5 DEF PcMove, PoolInv, PoolTypes, Places, Has, MayHave
<1>7. PoolInv'
  BY <1>1, <1>6, PcMoves
<1>8. pc'[p] = "read" /\ \A q \in Readers \ {p} : pc'[q] = pc[q]
  BY <1>1, OthersStay
<1>9. Linked'
  BY <1>2, <1>5, <1>8 DEF ReaderInv, Linked
<1> QED BY <1>5, <1>7, <1>9 DEF ReaderInv

\* The call begins its batch, or is refused.
LEMMA StartReadStep ==
  ASSUME ReaderInv, NEW p \in Readers, StartRead(p)
  PROVE  ReaderInv'
<1> DEFINE h == held[p]
<1>1. /\ pc[p] = "got"
      /\ UNCHANGED <<held, calls, config, created, idle, fallback, poolMu, notified, draining,
                     closed>>
  BY DEF StartRead, At
<1>2. PoolInv /\ IoTypes
  BY DEF ReaderInv, IoInv
<1>3. h \in Rings /\ h # None /\ ~closed
  BY <1>1, <1>2, HolderFacts DEF Has
<1>4. ring[h] \in RingRecord /\ Resting(ring[h])
  <2>1. \A q \in Readers : pc[q] = "read" => held[q] # h
    BY <1>1, <1>2, <1>3 DEF PoolInv, OwnersExact
  <2> QED BY <1>3, <2>1, UnreadRests
<1>5. CASE Goto(p, "giveUp") /\ UNCHANGED ioVars
  <2>1. PcMove(p, "giveUp")
    BY <1>1, <1>2, <1>3, <1>5 DEF PcMove, Goto, PoolInv, PoolTypes, Places, Has, MayHave, ioVars
  <2>2. PoolInv'
    BY <1>2, <2>1, PcMoves
  <2> QED BY <1>1, <1>2, <1>5, <2>2, OthersStay, QuietStep DEF Goto, ioVars
<1>6. ASSUME Goto(p, "read"), NEW err \in {"canceled", "failed"},
             read' = [read EXCEPT ![p] = Returned(h, err)], UNCHANGED <<ring, canceled>>,
             Fault \/ UNCHANGED faults
      PROVE  ReaderInv'
  <2>1. /\ Returned(h, err) \in ReadRecord /\ Returned(h, err).pc = "returned"
        /\ Returned(h, err).ring = h
    BY <1>3, ReturnedRead
  <2>2. ring' = [ring EXCEPT ![h] = ring[h]] /\ faults' \in 0..MaxFaults
    BY <1>2, <1>3, <1>6, FaultCounted DEF IoTypes
  <2>3. ~InBatch(Returned(h, err))
    BY <2>1 DEF InBatch
  <2> QED BY <1>1, <1>4, <1>6, <2>1, <2>2, <2>3, EnterRead DEF Goto
<1>7. ASSUME Goto(p, "read"), ReadStart(p, h, config.requests)
      PROVE  ReaderInv'
  <2> DEFINE n == config.requests
  <2>1. CASE \E err \in {"canceled", "failed"} :
               read' = [read EXCEPT ![p] = Returned(h, err)] /\ UNCHANGED ring
    BY <1>6, <1>7, <2>1 DEF ReadStart
  <2>2. CASE /\ ring[h].state = "open"
             /\ ring' = [ring EXCEPT ![h] = StartedRing(ring[h], n)]
             /\ read' = [read EXCEPT ![p] = StartedRead(h, n)]
    <3>1. n \in Requests
      BY <1>2, ReaderConfigs DEF PoolInv, PoolTypes
    <3>2. /\ StartedRead(h, n) \in ReadRecord /\ StartedRing(ring[h], n) \in RingRecord
          /\ StartedRead(h, n).pc = "submit" /\ StartedRead(h, n).ring = h
          /\ Accounted(StartedRead(h, n), StartedRing(ring[h], n))
      BY <1>3, <1>4, <2>2, <3>1, StartAccounted
    <3>3. StartedRing(ring[h], n).state = "open" /\ InBatch(StartedRead(h, n))
      BY <3>2 DEF Accounted, InBatch
    <3>4. canceled' = canceled /\ faults' \in 0..MaxFaults
      BY <1>7, FaultCounted DEF ReadStart
    <3> QED BY <1>1, <1>7, <2>2, <3>2, <3>3, <3>4, EnterRead DEF Goto
  <2> QED BY <1>7, <2>1, <2>2 DEF ReadStart, Returned, StartedRing, StartedRead
<1>8. ASSUME Goto(p, "read"), ReadStagingFails(p, h)
      PROVE  ReaderInv'
  BY <1>6, <1>8 DEF ReadStagingFails, Returned
<1> QED BY <1>5, <1>7, <1>8 DEF StartRead

\* The batch is over, and its ring rests.
LEMMA EndReadStep ==
  ASSUME ReaderInv, NEW p \in Readers, EndRead(p)
  PROVE  ReaderInv'
<1> DEFINE h == held[p]
           R1 == [ring[h] EXCEPT !.slot = NoRing.slot, !.damaged = FALSE]
<1>1. PICK w \in {"disable", "release"} : pc' = [pc EXCEPT ![p] = w]
  BY DEF EndRead, Goto
<1>2. /\ pc[p] = "read" /\ read[p].pc \in {"copied", "returned"}
      /\ read' = [read EXCEPT ![p] = NoRead]
      /\ ring' = [ring EXCEPT ![h].slot = NoRing.slot, ![h].damaged = FALSE]
      /\ canceled' = [canceled EXCEPT ![p] = FALSE]
      /\ UNCHANGED <<faults, held, calls, config, created, idle, fallback, poolMu, notified,
                     draining, closed>>
  BY DEF EndRead, At
<1>3. PoolInv /\ IoTypes
  BY DEF ReaderInv, IoInv
<1>4. /\ h \in Rings /\ ring[h] \in RingRecord /\ read[p].ring = h /\ Resting(ring[h])
      /\ \A q \in Readers \ {p} : read[q].pc # "none" => read[q].ring # h
  BY <1>2, ReadFacts DEF InBatch
<1>5. NoRead \in ReadRecord /\ NoRead.pc = "none"
  BY ZeroInBounds DEF NoRead, ReadRecord
<1>6. NoRing.slot \in [Requests -> {"empty", "data", "wrong"}]
  BY DEF NoRing
<1>7. R1 \in RingRecord /\ Resting(R1) /\ R1.state = ring[h].state
  BY <1>4, <1>6 DEF RingRecord, Resting
<1>8. ring' = [ring EXCEPT ![h] = R1]
  BY <1>2, <1>3, <1>4 DEF IoTypes, RingRecord
<1>9. canceled' \in [Readers -> BOOLEAN] /\ faults' \in 0..MaxFaults
  BY <1>2, <1>3 DEF IoTypes
<1> HIDE DEF R1
<1>10. ~InBatch(NoRead) /\ NoRead.pc # "copied"
  BY <1>5 DEF InBatch
<1>11. /\ IoInv'
       /\ ring'[h] = R1 /\ \A s \in Rings \ {h} : ring'[s] = ring[s]
       /\ read'[p] = NoRead /\ \A q \in Readers \ {p} : read'[q] = read[q]
  BY <1>2, <1>4, <1>5, <1>7, <1>8, <1>9, <1>10, BatchChange
<1>12. PcMove(p, w)
  BY <1>1, <1>2, <1>3, <1>7, <1>11, HolderFacts DEF PcMove, PoolInv, PoolTypes, Places, Has, MayHave
<1>13. PoolInv'
  BY <1>3, <1>12, PcMoves
<1>14. \A q \in Readers \ {p} : pc'[q] = pc[q]
  BY <1>1, <1>3, OthersStay
<1>15. Linked'
  BY <1>2, <1>5, <1>11, <1>14 DEF ReaderInv, Linked
<1> QED BY <1>11, <1>13, <1>15 DEF ReaderInv

-----------------------------------------------------------------------------
(* The theorems.                                                           *)

\* No ring exists and no call has begun.
LEMMA InitSafe == Init => ReaderInv
<1> SUFFICES ASSUME Init PROVE ReaderInv
  OBVIOUS
<1>1. /\ ring = [r \in Rings |-> NoRing] /\ read = [p \in Readers |-> NoRead]
      /\ canceled = [p \in Readers |-> FALSE] /\ faults = 0
      /\ calls = 0 /\ pc = [p \in Readers |-> "off"] /\ held = [p \in Readers |-> None]
      /\ config \in Configs /\ created = 0 /\ idle = {} /\ fallback = FALSE /\ closed = FALSE
      /\ poolMu = None /\ notified = {} /\ draining = {}
  BY DEF Init, IoInit
<1>2. NoRead \in ReadRecord /\ NoRead.pc = "none"
  BY ZeroInBounds DEF NoRead, ReadRecord
<1>3. <<>> \in Seq(Requests) /\ <<>> \in Seq(Completion)
  OBVIOUS
<1>4. /\ NoRing \in RingRecord /\ NoRing.state = "none" /\ NoRing.sq = <<>> /\ NoRing.cq = <<>>
      /\ NoRing.kernel = {}
  BY <1>3 DEF NoRing, RingRecord
<1>5. Resting(NoRing)
  BY <1>4 DEF Resting
<1>6. IoInv
  BY <1>1, <1>2, <1>4, <1>5, IoUringConstants DEF IoInv, IoTypes, InBatch
<1>7. Linked
  BY <1>1, <1>2 DEF Linked
<1>8. PoolTypes
  <2>1. pc \in [Readers -> Places] /\ held \in [Readers -> Rings \cup {None}]
    BY <1>1 DEF Places
  <2>2. fallback \in BOOLEAN /\ closed \in BOOLEAN
    BY <1>1, Zenon
  <2>3. /\ calls \in {0} \cup Readers /\ config \in Configs /\ created \in Int
        /\ idle \subseteq Rings /\ draining \subseteq Rings /\ notified \subseteq Readers
        /\ poolMu \in Readers \cup {None}
    BY <1>1, SMT
  <2> QED BY <2>1, <2>2, <2>3 DEF PoolTypes
<1>9. OwnersExact
  BY <1>1, <1>4 DEF OwnersExact, Has
<1>10. DrainExact
  BY <1>1, ReaderConfigs DEF DrainExact
<1>11. CountExact
  <2>1. Exists = {} /\ Creating = {} /\ Holding = {}
    BY <1>1, <1>4 DEF Exists, Creating, Holding, At
  <2>2. Cardinality({}) = 0
    BY FS_EmptySet
  <2>3. capacity \in Nat
    BY <1>1, ReaderConfigs DEF capacity
  <2> QED BY <1>1, <2>1, <2>2, <2>3 DEF CountExact
<1> QED BY <1>6, <1>7, <1>8, <1>9, <1>10, <1>11 DEF ReaderInv, PoolInv

\* A stuttering step changes nothing.
LEMMA StutterSafe == ReaderInv /\ UNCHANGED vars => ReaderInv'
<1> SUFFICES ASSUME ReaderInv, UNCHANGED vars PROVE ReaderInv'
  OBVIOUS
<1>1. UNCHANGED <<ring, read, canceled, faults>> /\ UNCHANGED poolVars
  BY DEF vars, ioVars
<1>2. PoolInv'
  BY <1>1, PoolFrame DEF ReaderInv
<1>3. IoInv' /\ Linked'
  BY <1>1 DEF ReaderInv, IoInv, IoTypes, Linked, poolVars
<1> QED BY <1>2, <1>3 DEF ReaderInv

\* The account of requests and the ownership of rings hold in every state, for
\* any number of concurrent ReadBatchAt calls, of rings and of kernel faults.
THEOREM ReaderSafety == Spec => []ReaderInv
<1>1. Init => ReaderInv
  BY InitSafe
<1>2. ReaderInv /\ [Next]_vars => ReaderInv'
  <2> SUFFICES ASSUME ReaderInv, [Next]_vars PROVE ReaderInv'
    OBVIOUS
  <2>1. ASSUME NEW p \in Readers, Proceed(p) PROVE ReaderInv'
    BY <2>1, AcquireStep, CreateRingStep, CreateFailsStep, SelectRingStep, SelectOtherStep,
       TakenStep, StartReadStep, EndReadStep, ReleaseStep, DisableStep, DisableCountStep,
       DisableReceiveStep, DisableEndStep, PreadStep, ReadStepSafe DEF Proceed
  <2>2. ASSUME NEW p \in Readers, Begin(p) \/ Cancel(p) PROVE ReaderInv'
    BY <2>2, BeginStep, CancelStep
  <2>3. ASSUME NEW r \in Rings, Kernel(r) PROVE ReaderInv'
    BY <2>3, KernelSafe
  <2>4. CASE Close
    BY <2>4, CloseStep
  <2>5. CASE UNCHANGED vars
    BY <2>5, StutterSafe
  <2> QED BY <2>1, <2>2, <2>3, <2>4, <2>5 DEF Next
<1> QED BY <1>1, <1>2, PTL DEF Spec

\* What a ring is doing: a batch of its one reader, or nothing.
LEMMA RingUse ==
  ASSUME ReaderInv, NEW r \in Rings
  PROVE  /\ ring[r] \in RingRecord
         /\ \/ \E p \in Readers : read[p] \in ReadRecord /\ Accounted(read[p], ring[r])
            \/ Resting(ring[r])
  BY DEF ReaderInv, IoInv, IoTypes

\* diskANNIOUring.Read: the kernel never writes staging memory that is unmapped
\* or belongs to another batch.
THEOREM StagingSafe == Spec => []KernelOwnsStaging
<1>1. ReaderInv => KernelOwnsStaging
  <2> SUFFICES ASSUME ReaderInv, NEW r \in Rings, NEW op \in ring[r].kernel
               PROVE  op.fresh /\ ring[r].staging \in {"mapped", "retained"}
    BY DEF KernelOwnsStaging
  <2> QED BY RingUse DEF Accounted, FlightExact, Resting
<1> QED BY <1>1, ReaderSafety, PTL

\* diskANNIOUring.Read: a batch that succeeds delivers the bytes of each of its
\* own requests, whatever was retried, completed out of order or lost.
THEOREM ReadsOwnData == Spec => []ReadReturnsOwnData
<1>1. ReaderInv => ReadReturnsOwnData
  BY DEF ReaderInv, IoInv, Copied, ReadReturnsOwnData
<1> QED BY <1>1, ReaderSafety, PTL

\* linuxDiskANNReader: created counts exactly the rings in the pool, taken and
\* being created; no ring has two owners, and an open ring has one.
THEOREM PoolAccounts == Spec => []PoolExact
<1>1. ReaderInv => PoolExact
  <2> SUFFICES ASSUME ReaderInv PROVE PoolExact
    OBVIOUS
  <2>1. created = Cardinality(idle) + Cardinality(Holding) + Cardinality(Creating)
    BY DEF ReaderInv, PoolInv, CountExact
  <2>2. \A p \in Readers : held[p] # None =>
          held[p] \notin idle /\ \A q \in Readers \ {p} : held[q] # held[p]
    BY DEF ReaderInv, PoolInv, OwnersExact
  <2>3. \A r \in Rings : ring[r].state = "open" =>
          r \in idle \cup draining \/ \E p \in Readers : held[p] = r
    BY DEF ReaderInv, PoolInv, OwnersExact
  <2> QED BY <2>1, <2>2, <2>3 DEF PoolExact, Holding, Creating
<1> QED BY <1>1, ReaderSafety, PTL

\* The type invariant; among the rest, created stays within the capacity and the
\* submission queue within its length.
THEOREM ReaderTypeCorrect == Spec => []TypeOK
<1>1. ReaderInv => TypeOK
  <2> SUFFICES ASSUME ReaderInv PROVE TypeOK
    OBVIOUS
  <2>1. IoTypes /\ PoolTypes /\ PoolInv /\ CountExact
    BY DEF ReaderInv, IoInv, PoolInv
  <2>2. created \in 0..capacity
    BY <2>1, Counted DEF CountExact
  <2>3. ASSUME NEW r \in Rings
        PROVE  /\ ring[r].state \in {"none", "open", "closed"}
               /\ ring[r].poisoned \in BOOLEAN /\ ring[r].damaged \in BOOLEAN
               /\ ring[r].staging \in {"none", "mapped", "retained", "unmapped"}
               /\ ring[r].sq \in Seq(Requests) /\ Len(ring[r].sq) <= MaxRequests
               /\ ring[r].kernel \subseteq [index : Requests, fresh : BOOLEAN]
               /\ ring[r].cq \in Seq([index : Requests \cup {Unknown}, res : Results])
               /\ ring[r].slot \in [Requests -> {"empty", "data", "wrong"}]
    <3>1. /\ ring[r].state \in {"none", "open", "closed"}
          /\ ring[r].poisoned \in BOOLEAN /\ ring[r].damaged \in BOOLEAN
          /\ ring[r].staging \in {"none", "mapped", "retained", "unmapped"}
          /\ ring[r].sq \in Seq(Requests) /\ ring[r].kernel \subseteq Operation
          /\ ring[r].cq \in Seq(Completion)
          /\ ring[r].slot \in [Requests -> {"empty", "data", "wrong"}]
      BY RingUse DEF RingRecord
    <3>2. Len(ring[r].sq) <= MaxRequests
      <4>1. CASE Resting(ring[r])
        BY <4>1, IoUringConstants DEF Resting
      <4>2. ASSUME NEW p \in Readers, read[p] \in ReadRecord, Accounted(read[p], ring[r])
            PROVE  Len(ring[r].sq) <= MaxRequests
        BY <4>2, IoUringConstants DEF Accounted, QueueExact, ReadRecord
      <4> QED BY <4>1, <4>2, RingUse
    <3> QED BY <3>1, <3>2 DEF Operation, Completion
  <2>4. ASSUME NEW p \in Readers
        PROVE  /\ read[p].pc \in {"none", "submit", "drain", "wait", "consume", "copied", "returned"}
               /\ read[p].ring \in Rings \cup {None} /\ read[p].n \in 0..MaxRequests
               /\ read[p].inFlight \subseteq Requests /\ read[p].want \in 0..MaxRequests
               /\ read[p].err \in {"none", "canceled", "failed"} /\ read[p].uncertain \in BOOLEAN
               /\ read[p].back \in {"drain", "consume"} /\ read[p].seen \in Nat
               /\ read[p].tries \in 0..MaxTries /\ read[p].retries \in [Requests -> 0..MaxTries]
    <3>1. read[p] \in ReadRecord
      BY <2>1 DEF IoTypes
    <3> QED BY <3>1 DEF ReadRecord
  <2>5. IoTypeOK
    BY <2>1, <2>3, <2>4 DEF IoTypeOK, IoTypes
  <2> QED BY <2>1, <2>2, <2>5 DEF TypeOK, PoolTypes, Places
<1> QED BY <1>1, ReaderSafety, PTL
=============================================================================
