----------------------------- MODULE DiskReader -----------------------------
(***************************************************************************)
(* diskann_file_io_linux.go: linuxDiskANNReader hands io_uring rings to    *)
(* concurrent ReadBatchAt calls.  Rings are created on demand up to the    *)
(* capacity and wait in the channel idle; after an error that is not a     *)
(* cancellation all rings are closed and reads fall back to pread.         *)
(*                                                                         *)
(* poolMu is explicit because disableRings receives from idle while it     *)
(* holds it; other critical sections are one step.  lifeMu is held shared  *)
(* from Begin to the end of a call, so Close waits until every pc is off.  *)
(* A reader is one call of ReadBatchAt, and they begin in turn.             *)
(***************************************************************************)
EXTENDS IoUring

CONSTANT Configs   \* the instances to consider

\* The capacity is workers or GOMAXPROCS; the rest are bounds: how many calls
\* there are, how many requests each has, and whether callers cancel.
ASSUME ReaderConfigs ==
  /\ Configs \subseteq [capacity : 1..Cardinality(Rings), calls : Readers,
                       requests : Requests, cancel : BOOLEAN]
  /\ IsFiniteSet(Rings) /\ IsFiniteSet(Readers) /\ None \notin Readers

VARIABLES
  calls,     \* the readers 1..calls have begun
  pc,        \* per reader: where its ReadBatchAt is
  held,      \* per reader: the ring it took, or None
  config,    \* the instance; it does not change
  created,   \* rings counted against the capacity
  idle,      \* the rings in the channel idle
  fallback,  \* fallback is set and fallbackCh closed
  poolMu,    \* the reader inside disableRings, or None
  notified,  \* waiters whose poolChange channel was closed
  draining,  \* rings disableRings has collected
  closed     \* the file is closed

poolVars == <<calls, pc, held, config, created, idle, fallback, poolMu, notified, draining, closed>>
vars == <<ioVars, poolVars>>

Init ==
  /\ IoInit
  /\ calls = 0
  /\ pc = [p \in Readers |-> "off"]
  /\ held = [p \in Readers |-> None]
  /\ config \in Configs
  /\ created = 0 /\ idle = {} /\ fallback = FALSE /\ closed = FALSE
  /\ poolMu = None /\ notified = {} /\ draining = {}

capacity == config.capacity

At(p, where) == pc[p] = where
Goto(p, where) == pc' = [pc EXCEPT ![p] = where]
PoolFree == poolMu = None

\* A call returns and gives up lifeMu; its context is of no more interest.
End(p) ==
  /\ Goto(p, "off")
  /\ canceled' = [canceled EXCEPT ![p] = FALSE]

-----------------------------------------------------------------------------

\* ReadBatchAt up to the first look at fallback.
Begin(p) ==
  /\ At(p, "off") /\ ~closed
  /\ p = calls + 1 /\ p <= config.calls /\ calls' = p
  /\ Goto(p, IF fallback THEN "pread" ELSE "acquire")
  /\ UNCHANGED <<ioVars, held, config, created, idle, fallback, poolMu, notified, draining,
                 closed>>

\* The caller cancels its context, at a place where the call next looks at it.
Cancel(p) ==
  /\ config.cancel /\ pc[p] \in {"select", "got", "read"}
  /\ ~canceled[p] /\ read[p].pc \notin {"copied", "returned"}
  /\ canceled' = [canceled EXCEPT ![p] = TRUE]
  /\ UNCHANGED <<ring, read, faults, poolVars>>

\* acquireRing, first critical section.
Acquire(p) ==
  /\ At(p, "acquire") /\ PoolFree
  /\ notified' = notified \ {p}
  /\ \/ fallback /\ Goto(p, "pread") /\ UNCHANGED <<held, created, idle>>
     \/ /\ ~fallback
        /\ \E r \in idle : held' = [held EXCEPT ![p] = r] /\ idle' = idle \ {r}
        /\ Goto(p, "got") /\ UNCHANGED created
     \/ /\ ~fallback /\ idle = {} /\ created < capacity
        /\ created' = created + 1
        /\ Goto(p, "create") /\ UNCHANGED <<held, idle>>
     \/ /\ ~fallback /\ idle = {} /\ created >= capacity
        /\ Goto(p, "select") /\ UNCHANGED <<held, created, idle>>
  /\ UNCHANGED <<ioVars, calls, config, fallback, poolMu, draining, closed>>

\* newRing succeeds; a ring that comes too late is released again.
CreateRing(p) ==
  /\ At(p, "create")
  /\ LET r == CHOOSE r \in Rings : ring[r].state = "none"
     IN  ring' = [ring EXCEPT ![r].state = "open"] /\ held' = [held EXCEPT ![p] = r]
  /\ Goto(p, "got")
  /\ UNCHANGED <<read, canceled, faults, calls, config, created, idle, fallback, poolMu, notified,
                 draining, closed>>

\* Mutant: the place in the pool is not given back, and nobody told.
CreateFailsSilently(p) ==
  /\ At(p, "create") /\ PoolFree /\ Fault
  /\ \/ Goto(p, "disable") /\ UNCHANGED canceled
     \/ End(p)
  /\ UNCHANGED <<ring, read, held, calls, config, created, idle, fallback, poolMu, notified,
                 draining, closed>>

\* newRing fails: for ever (rings are not available), or for this call.
CreateFails(p) ==
  /\ At(p, "create") /\ PoolFree /\ Fault
  /\ created' = created - 1
  /\ notified' = notified \cup {q \in Readers : At(q, "select")}
  /\ \/ Goto(p, "disable") /\ UNCHANGED canceled
     \/ End(p)
  /\ UNCHANGED <<ring, read, held, calls, config, idle, fallback, poolMu, draining, closed>>

\* The select of acquireRing: it takes a ring from idle without poolMu.
SelectRing(p) ==
  /\ At(p, "select")
  /\ \E r \in idle : held' = [held EXCEPT ![p] = r] /\ idle' = idle \ {r}
  /\ Goto(p, "taken")
  /\ UNCHANGED <<ioVars, calls, config, created, fallback, poolMu, notified, draining, closed>>

SelectOther(p) ==
  /\ At(p, "select")
  /\ \/ canceled[p] /\ End(p) /\ notified' = notified \ {p}
     \/ fallback /\ Goto(p, "pread") /\ notified' = notified \ {p} /\ UNCHANGED canceled
     \/ p \in notified /\ Goto(p, "acquire") /\ UNCHANGED <<notified, canceled>>
  /\ UNCHANGED <<ring, read, faults, held, calls, config, created, idle, fallback, poolMu, draining,
                 closed>>

\* A ring given back when rings are disabled is closed.
DropRing(p) ==
  /\ ring' = [ring EXCEPT ![held[p]] = Closed(@)]
  /\ created' = created - 1

\* Mutant: a ring that comes when rings are disabled is counted off and kept open.
TakenUnclosed(p) ==
  /\ At(p, "taken") /\ PoolFree
  /\ \/ /\ fallback /\ created' = created - 1
        /\ held' = [held EXCEPT ![p] = None] /\ Goto(p, "pread")
     \/ ~fallback /\ Goto(p, "got") /\ UNCHANGED <<created, held>>
  /\ UNCHANGED <<ioVars, calls, config, idle, fallback, poolMu, notified, draining, closed>>

\* After the select poolMu is taken and fallback looked at again.
Taken(p) ==
  /\ At(p, "taken") /\ PoolFree
  /\ \/ fallback /\ DropRing(p) /\ held' = [held EXCEPT ![p] = None] /\ Goto(p, "pread")
     \/ ~fallback /\ Goto(p, "got") /\ UNCHANGED <<ring, created, held>>
  /\ UNCHANGED <<read, canceled, faults, calls, config, idle, fallback, poolMu, notified, draining,
                 closed>>

\* With a ring in hand: read with it unless the fallback was set meanwhile.
StartRead(p) ==
  /\ At(p, "got")
  /\ \/ fallback /\ Goto(p, "giveUp") /\ UNCHANGED ioVars
     \/ /\ ~fallback /\ Goto(p, "read")
        /\ ReadStart(p, held[p], config.requests) \/ ReadStagingFails(p, held[p])
  /\ UNCHANGED <<held, calls, config, created, idle, fallback, poolMu, notified, draining, closed>>

\* ring.Read returned: an error that is no cancellation disables the rings.  The
\* slots and the counters compared with the next batch's own start are forgotten.
EndRead(p) ==
  /\ At(p, "read") /\ read[p].pc \in {"copied", "returned"}
  /\ read' = [read EXCEPT ![p] = NoRead]
  /\ Goto(p, IF read[p].err = "failed" THEN "disable" ELSE "release")
  /\ ring' = [ring EXCEPT ![held[p]].slot = NoRing.slot, ![held[p]].damaged = FALSE]
  /\ canceled' = [canceled EXCEPT ![p] = FALSE]
  /\ UNCHANGED <<faults, held, calls, config, created, idle, fallback, poolMu, notified, draining,
                 closed>>

\* releaseRing; after a late fallback the call continues with pread.
Release(p) ==
  /\ pc[p] \in {"release", "giveUp"} /\ PoolFree
  /\ held' = [held EXCEPT ![p] = None]
  /\ \/ fallback /\ DropRing(p) /\ UNCHANGED idle
     \/ /\ ~fallback /\ Cardinality(idle) < capacity
        /\ idle' = idle \cup {held[p]} /\ UNCHANGED <<ring, created>>
  /\ IF At(p, "giveUp") THEN Goto(p, "pread") /\ UNCHANGED canceled ELSE End(p)
  /\ UNCHANGED <<read, faults, calls, config, fallback, poolMu, notified, draining, closed>>

\* Mutant: a ring is counted off although the caller has none.
DisableCountsAlways(p) ==
  /\ At(p, "disable") /\ PoolFree
  /\ poolMu' = p /\ fallback' = TRUE
  /\ draining' = IF held[p] = None THEN {} ELSE {held[p]}
  /\ created' = created - 1
  /\ Goto(p, "count")
  /\ UNCHANGED <<ioVars, held, calls, config, idle, notified, closed>>

\* disableRings takes poolMu, sets the fallback and collects the current ring.
Disable(p) ==
  /\ At(p, "disable") /\ PoolFree
  /\ poolMu' = p /\ fallback' = TRUE
  /\ draining' = IF held[p] = None THEN {} ELSE {held[p]}
  /\ created' = created - Cardinality(draining')
  /\ Goto(p, "count")
  /\ UNCHANGED <<ioVars, held, calls, config, idle, notified, closed>>

\* It looks at len(idle) ...
DisableCount(p) ==
  /\ At(p, "count") /\ idle # {}
  /\ Goto(p, "receive")
  /\ UNCHANGED <<ioVars, held, calls, config, created, idle, fallback, poolMu, notified, draining,
                 closed>>

\* ... and receives, which blocks when a waiter was faster.
DisableReceive(p) ==
  /\ At(p, "receive")
  /\ \E r \in idle : idle' = idle \ {r} /\ draining' = draining \cup {r}
  /\ created' = created - 1
  /\ Goto(p, "count")
  /\ UNCHANGED <<ioVars, held, calls, config, fallback, poolMu, notified, closed>>

\* Nothing is left: poolMu is released and the collected rings are closed.  A
\* call that had a ring returns its error, one without a ring reads with pread.
DisableEnd(p) ==
  /\ At(p, "count") /\ idle = {}
  /\ poolMu' = None /\ draining' = {}
  /\ ring' = [r \in Rings |-> IF r \in draining THEN Closed(ring[r]) ELSE ring[r]]
  /\ held' = [held EXCEPT ![p] = None]
  /\ IF held[p] = None THEN Goto(p, "pread") /\ UNCHANGED canceled ELSE End(p)
  /\ UNCHANGED <<read, faults, calls, config, created, idle, fallback, notified, closed>>

\* preadBatch: every request is read from the stable descriptor.
Pread(p) ==
  /\ At(p, "pread") /\ End(p)
  /\ UNCHANGED <<ring, read, faults, held, calls, config, created, idle, fallback, poolMu, notified,
                 draining, closed>>

\* Close, with lifeMu exclusive.
Close ==
  /\ ~closed /\ \A p \in Readers : At(p, "off")
  /\ closed' = TRUE /\ created' = 0 /\ idle' = {}
  /\ ring' = [r \in Rings |-> IF r \in idle THEN Closed(ring[r]) ELSE ring[r]]
  /\ UNCHANGED <<read, canceled, faults, pc, held, calls, config, fallback, poolMu, notified,
                 draining>>

\* What a goroutine does by itself once its call has begun.
Proceed(p) ==
  \/ Acquire(p) \/ CreateRing(p) \/ CreateFails(p)
  \/ SelectRing(p) \/ SelectOther(p) \/ Taken(p) \/ StartRead(p) \/ EndRead(p) \/ Release(p)
  \/ Disable(p) \/ DisableCount(p) \/ DisableReceive(p) \/ DisableEnd(p) \/ Pread(p)
  \/ ReadStep(p) /\ UNCHANGED poolVars

Kernel(r) == KernelStep(r) /\ UNCHANGED poolVars

Next ==
  \/ \E p \in Readers : Begin(p) \/ Cancel(p) \/ Proceed(p)
  \/ \E r \in Rings : Kernel(r)
  \/ Close

Spec == Init /\ [][Next]_vars

\* Goroutines run and the kernel ends the reads it accepted.
FairSpec ==
  /\ Spec
  /\ \A p \in Readers : WF_vars(Proceed(p))
  /\ \A r \in Rings : WF_vars(KernelCompletes(r) /\ UNCHANGED poolVars)

-----------------------------------------------------------------------------

TypeOK ==
  /\ IoTypeOK
  /\ pc \in [Readers -> {"off", "acquire", "create", "select", "taken", "got", "read",
                         "release", "giveUp", "disable", "count", "receive", "pread"}]
  /\ calls \in {0} \cup Readers
  /\ held \in [Readers -> Rings \cup {None}]
  /\ config \in Configs /\ created \in 0..capacity
  /\ idle \subseteq Rings /\ draining \subseteq Rings
  /\ fallback \in BOOLEAN /\ closed \in BOOLEAN
  /\ poolMu \in Readers \cup {None} /\ notified \subseteq Readers

\* The count of rings is exact: those in the pool, those taken, and those being
\* created.  No ring has two owners, and one that has none is closed.
PoolExact ==
  /\ created = Cardinality(idle)
             + Cardinality({p \in Readers : held[p] # None /\ held[p] \notin draining})
             + Cardinality({p \in Readers : At(p, "create")})
  /\ \A p \in Readers : held[p] # None =>
       held[p] \notin idle /\ \A q \in Readers \ {p} : held[q] # held[p]
  /\ \A r \in Rings : ring[r].state = "open" =>
       r \in idle \cup draining \/ \E p \in Readers : held[p] = r

\* disableRings waits for a ring that a waiter took, and holds poolMu for ever.
DisableStuck == poolMu # None /\ At(poolMu, "receive") /\ idle = {}

\* Every ReadBatchAt ends, unless disableRings got stuck: no lost wake-up, no
\* wait for a ring that nobody returns, no endless drain.  There are finitely
\* many calls, so that the end of all is the end of each.
ReadsEnd == calls > 0 ~> (\A p \in Readers : pc[p] = "off") \/ DisableStuck

\* A runtime error closes every ring, and none is created any more: what
\* TestLinuxDiskANNReaderRuntimeErrorClosesEveryRingAndCreatesNoMore expects.
RuntimeErrorClosesEveryRing ==
  fallback ~> \A r \in Rings : ring[r].state # "open"
=============================================================================
