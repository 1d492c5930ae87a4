------------------------------- MODULE IoUring -------------------------------
(***************************************************************************)
(* diskann_io_uring_linux.go: one batch of reads on an io_uring, against a *)
(* kernel that accepts and completes requests as it likes.  A ring is used *)
(* by one reader at a time; DiskReader hands the rings out.                *)
(*                                                                         *)
(* A request is its index in the batch.  The submission queue holds what   *)
(* was prepared and not accepted, which is also the code's list queued.    *)
(* A request the kernel works on may write its staging slot at any time    *)
(* until it completes; fresh says that the batch it belongs to still owns  *)
(* the slot.                                                               *)
(***************************************************************************)
EXTENDS Naturals, Sequences, FiniteSets, SequencesExt

CONSTANTS
  Readers,      \* goroutines that call ReadBatchAt
  Rings,        \* rings that can be created
  MaxRequests,  \* bound: requests in flight
  MaxTries,     \* diskANNIOUringRetries: 64 in the code
  MaxFaults,    \* bound: faults of the kernel
  None

ASSUME IoUringConstants ==
  /\ MaxRequests \in Nat \ {0} /\ MaxTries \in Nat \ {0} /\ MaxFaults \in Nat
  /\ None \notin Rings

VARIABLES
  ring,      \* per ring: the diskANNIOUring and the kernel's side of it
  read,      \* per reader: the local variables of diskANNIOUring.Read
  canceled,  \* per reader: its context is done
  faults     \* number of kernel faults so far

ioVars == <<ring, read, canceled, faults>>

Requests == 1..MaxRequests
Unknown == 0   \* UserData that belongs to no request
Results == {"ok", "again", "short"}

NoRing == [state |-> "none", poisoned |-> FALSE, staging |-> "none", sq |-> <<>>,
           kernel |-> {}, cq |-> <<>>, damaged |-> FALSE,
           slot |-> [i \in Requests |-> "empty"]]

NoRead == [pc |-> "none", ring |-> None, n |-> 0, inFlight |-> {}, err |-> "none",
           uncertain |-> FALSE, tries |-> 0, want |-> 0, back |-> "drain", seen |-> 0,
           retries |-> [i \in Requests |-> 0]]

IoInit ==
  /\ ring = [r \in Rings |-> NoRing]
  /\ read = [p \in Readers |-> NoRead]
  /\ canceled = [p \in Readers |-> FALSE]
  /\ faults = 0

MayFault == faults < MaxFaults
Fault == MayFault /\ faults' = faults + 1

\* The error that is kept: the first one.
First(err, new) == IF err = "none" THEN new ELSE err

-----------------------------------------------------------------------------
(* Closing a ring.                                                         *)

\* closeLocked: the queues are unmapped, and staging unless it was retained.
Closed(R) ==
  IF R.state = "closed" THEN R
  ELSE [R EXCEPT !.state = "closed", !.cq = <<>>, !.sq = <<>>,
                 !.staging = CASE @ = "mapped" -> "unmapped" [] OTHER -> @]

\* abandonStagingLocked: the kernel may still write, so staging stays mapped.
Abandoned(R) ==
  Closed([R EXCEPT !.poisoned = TRUE, !.staging = IF @ = "none" THEN @ ELSE "retained"])

\* Read returns err; with an abandoned ring in the uncertain cases.
Return(p, err, R) ==
  /\ ring' = [ring EXCEPT ![read[p].ring] = R]
  /\ read' = [read EXCEPT ![p] = [NoRead EXCEPT !.pc = "returned", !.ring = read[p].ring,
                                                !.err = err]]

-----------------------------------------------------------------------------
(* Read.                                                                   *)

Prepared(R, indexes) == [R EXCEPT !.sq = @ \o indexes]

\* The beginning of Read: refusals, then every request is prepared.  Staging is
\* kept, grown or mapped for the first time; what the kernel still writes is
\* from now on in the way.
ReadStart(p, r, n) ==
  LET R == ring[r]
      refused(err) ==
        /\ read' = [read EXCEPT ![p] = [NoRead EXCEPT !.pc = "returned", !.ring = r, !.err = err]]
        /\ UNCHANGED ring
  IN  /\ UNCHANGED <<canceled, faults>>
      /\ \/ canceled[p] /\ refused("canceled")
         \/ ~canceled[p] /\ (R.state = "closed" \/ R.poisoned) /\ refused("failed")
         \/ /\ ~canceled[p] /\ R.state = "open" /\ ~R.poisoned
            /\ ring' = [ring EXCEPT ![r] =
                 Prepared([R EXCEPT !.staging = "mapped", !.damaged = FALSE,
                                    !.kernel = {[op EXCEPT !.fresh = FALSE] : op \in @},
                                    !.slot = [i \in Requests |-> "empty"]],
                          [i \in 1..n |-> i])]
            /\ read' = [read EXCEPT ![p] = [NoRead EXCEPT !.pc = "submit", !.ring = r, !.n = n,
                                                          !.want = n]]

\* ensureStaging cannot map memory.
ReadStagingFails(p, r) ==
  /\ ~canceled[p] /\ ring[r].state = "open" /\ ~ring[r].poisoned
  /\ ring[r].staging = "none"
  /\ Fault
  /\ read' = [read EXCEPT ![p] = [NoRead EXCEPT !.pc = "returned", !.ring = r, !.err = "failed"]]
  /\ UNCHANGED <<ring, canceled>>

Submitting(p) == read[p].pc = "submit"

\* What is prepared and not accepted is withdrawn: the tail is set to the head.
Withdraw(p, err, poisoned) ==
  /\ ring' = [ring EXCEPT ![read[p].ring].sq = <<>>,
                          ![read[p].ring].poisoned = @ \/ poisoned]
  /\ read' = [read EXCEPT ![p].pc = read[p].back, ![p].err = err, ![p].want = 0,
                          ![p].tries = 0]

SubmitCanceled(p) ==
  /\ Submitting(p) /\ canceled[p]
  /\ Withdraw(p, First(read[p].err, "canceled"), FALSE)
  /\ UNCHANGED <<canceled, faults>>

\* The kernel accepts the first c entries, or drops one of them.
SubmitAccepted(p, c) ==
  LET r == read[p].ring
      sq == ring[r].sq
      accepted == {sq[i] : i \in 1..c}
  IN  /\ Submitting(p) /\ ~canceled[p] /\ c \in 1..read[p].want
      /\ \E lost \in SUBSET accepted :
           /\ Cardinality(lost) <= 1
           /\ IF lost = {} THEN UNCHANGED faults ELSE Fault
           /\ ring' = [ring EXCEPT
                ![r].sq = SubSeq(sq, c + 1, Len(sq)),
                ![r].kernel = @ \cup {[index |-> i, fresh |-> TRUE] : i \in accepted \ lost},
                ![r].damaged = @ \/ lost # {}]
      /\ read' = [read EXCEPT
           ![p].inFlight = @ \cup accepted, ![p].want = @ - c, ![p].tries = 0,
           ![p].pc = IF read[p].want = c THEN read[p].back ELSE "submit"]
      /\ UNCHANGED canceled

\* Nothing accepted, without an error or with a transient one.
SubmitNoProgress(p) ==
  /\ Submitting(p) /\ ~canceled[p]
  /\ UNCHANGED <<canceled, faults>>
  /\ \/ /\ read[p].tries + 1 >= MaxTries
        /\ Withdraw(p, "failed", FALSE)
     \/ /\ read[p].tries + 1 < MaxTries
        /\ read' = [read EXCEPT ![p].tries = @ + 1]
        /\ UNCHANGED ring

SubmitFails(p) ==
  /\ Submitting(p) /\ ~canceled[p] /\ Fault
  /\ Withdraw(p, First(read[p].err, "failed"), TRUE)
  /\ UNCHANGED canceled

\* The kernel took the entries and returns an impossible count.
SubmitMisreported(p) ==
  LET R == ring[read[p].ring]
  IN  /\ Submitting(p) /\ ~canceled[p] /\ Fault
      /\ Return(p, "failed",
                Abandoned([R EXCEPT !.sq = <<>>,
                             !.kernel = @ \cup {[index |-> R.sq[i], fresh |-> TRUE] :
                                                  i \in DOMAIN R.sq}]))
      /\ UNCHANGED canceled

\* checkQueueDamage: a counter of dropped entries moved since the start.
Damaged(p) == ring[read[p].ring].damaged

\* Mutant: a cancellation returns without waiting for requests in flight.
DrainTopHasty(p) ==
  LET R == ring[read[p].ring]
      err == IF canceled[p] THEN First(read[p].err, "canceled") ELSE read[p].err
  IN  /\ read[p].pc = "drain" /\ read[p].inFlight # {}
      /\ UNCHANGED <<canceled, faults>>
      /\ \/ err # "none" /\ Return(p, err, R)
         \/ /\ err = "none"
            /\ read' = [read EXCEPT ![p].pc = IF R.cq = <<>> THEN "wait" ELSE "consume",
                                    ![p].seen = Len(R.cq)]
            /\ UNCHANGED ring

\* The top of the loop while requests are outstanding.
DrainTop(p) ==
  LET R == ring[read[p].ring]
      err == IF canceled[p] THEN First(read[p].err, "canceled") ELSE read[p].err
      uncertain == read[p].uncertain \/ Damaged(p)
      err2 == IF Damaged(p) THEN First(err, "failed") ELSE err
  IN  /\ read[p].pc = "drain" /\ read[p].inFlight # {}
      /\ UNCHANGED <<canceled, faults>>
      /\ \/ R.cq = <<>> /\ uncertain /\ Return(p, err2, Abandoned(R))
         \/ /\ R.cq = <<>> => ~uncertain
            /\ ring' = [ring EXCEPT ![read[p].ring].poisoned = @ \/ Damaged(p)]
            /\ read' = [read EXCEPT
                 ![p].err = err2, ![p].uncertain = uncertain, ![p].seen = Len(R.cq),
                 ![p].pc = IF R.cq = <<>> THEN "wait" ELSE "consume",
                 ![p].tries = IF R.cq = <<>> THEN @ ELSE 0]

\* The wait for one completion returns: with one, or early, because a signal
\* arrived (any number of times up to MaxTries) or with another error.
Wait(p) ==
  LET R == ring[read[p].ring]
  IN  /\ read[p].pc = "wait"
      /\ \E fatal \in BOOLEAN :
           /\ IF fatal THEN Fault ELSE UNCHANGED faults
           /\ LET err1 == IF fatal THEN First(read[p].err, "failed") ELSE read[p].err
                  err2 == IF canceled[p] THEN First(err1, "canceled") ELSE err1
                  err3 == IF Damaged(p) THEN First(err2, "failed") ELSE err2
                  poisoned == R.poisoned \/ Damaged(p) \/ (fatal /\ read[p].err = "none")
                  uncertain == read[p].uncertain \/ Damaged(p)
                  stuck == R.cq = <<>> /\ read[p].tries + 1 >= MaxTries
              IN  \/ /\ R.cq = <<>> /\ (uncertain \/ stuck)
                     /\ Return(p, First(err3, "failed"), Abandoned(R))
                  \/ /\ R.cq = <<>> => ~uncertain /\ ~stuck
                     /\ ring' = [ring EXCEPT ![read[p].ring].poisoned = poisoned]
                     /\ read' = [read EXCEPT
                          ![p].err = err3, ![p].uncertain = uncertain, ![p].seen = Len(R.cq),
                          ![p].pc = IF R.cq = <<>> THEN "drain" ELSE "consume",
                          ![p].tries = IF R.cq = <<>> THEN @ + 1 ELSE 0]
      /\ UNCHANGED canceled

\* Mutant: only a negative result is an error.
CompleteOrShort(c) == c.res \in {"ok", "short"}

\* completion.Res is the length of the request.
Complete(c) == c.res = "ok"

\* One completion of the snapshot: unknown, to be retried, bad, or good.
Consume(p) ==
  LET r == read[p].ring
      c == Head(ring[r].cq)
      i == c.index
      known == i \in read[p].inFlight
      retry == /\ known /\ c.res = "again" /\ read[p].err = "none" /\ ~canceled[p]
               /\ read[p].retries[i] < MaxTries
      bad == known /\ ~Complete(c) /\ ~retry
      R == [ring[r] EXCEPT !.cq = Tail(@), !.poisoned = @ \/ bad \/ ~known]
      L == [read[p] EXCEPT !.seen = @ - 1,
                           !.inFlight = @ \ {i},
                           !.uncertain = @ \/ ~known,
                           !.err = IF bad \/ ~known THEN First(@, "failed") ELSE @]
  IN  /\ read[p].pc = "consume" /\ read[p].seen > 0
      /\ ring' = [ring EXCEPT ![r] = IF retry THEN Prepared(R, <<i>>) ELSE R]
      /\ read' = [read EXCEPT ![p] =
           IF retry THEN [L EXCEPT !.retries[i] = @ + 1, !.pc = "submit", !.want = 1,
                                   !.back = "consume", !.tries = 0]
                    ELSE L]
      /\ UNCHANGED <<canceled, faults>>

\* The snapshot is consumed: give up if something is unaccounted for.
ConsumeEnd(p) ==
  LET R == ring[read[p].ring]
      uncertain == read[p].uncertain \/ Damaged(p)
      err == IF Damaged(p) THEN First(read[p].err, "failed") ELSE read[p].err
  IN  /\ read[p].pc = "consume" /\ read[p].seen = 0
      /\ UNCHANGED <<canceled, faults>>
      /\ \/ uncertain /\ Return(p, err, Abandoned(R))
         \/ ~uncertain /\ read' = [read EXCEPT ![p].pc = "drain"] /\ UNCHANGED ring

\* Nothing is outstanding: an error, or the slots are copied to the buffers.
Finish(p) ==
  LET R == ring[read[p].ring]
      err == IF Damaged(p) THEN First(read[p].err, "failed") ELSE read[p].err
  IN  /\ read[p].pc = "drain" /\ read[p].inFlight = {}
      /\ UNCHANGED <<canceled, faults>>
      /\ \/ Damaged(p) /\ Return(p, err, Abandoned(R))
         \/ ~Damaged(p) /\ err # "none" /\ Return(p, err, R)
         \/ /\ ~Damaged(p) /\ err = "none"
            /\ read' = [read EXCEPT ![p].pc = "copied"]
            /\ UNCHANGED ring

ReadStep(p) ==
  \/ SubmitCanceled(p)
  \/ \E c \in Requests : SubmitAccepted(p, c)
  \/ SubmitNoProgress(p)
  \/ SubmitFails(p)
  \/ SubmitMisreported(p)
  \/ DrainTop(p)
  \/ Wait(p)
  \/ Consume(p)
  \/ ConsumeEnd(p)
  \/ Finish(p)

-----------------------------------------------------------------------------
(* The kernel.                                                             *)

Write(R, op, res) ==
  [i \in Requests |-> IF i # op.index THEN R.slot[i]
                      ELSE IF ~op.fresh \/ res = "short" THEN "wrong"
                      ELSE IF res = "ok" THEN "data" ELSE R.slot[i]]

\* A request completes: with all bytes, to be tried again, or short or failed.
KernelCompletes(r) ==
  /\ \E op \in ring[r].kernel, res \in Results :
       /\ IF res = "short" THEN Fault ELSE UNCHANGED faults
       /\ ring' = [ring EXCEPT
            ![r].kernel = @ \ {op}, ![r].slot = Write(ring[r], op, res),
            ![r].cq = IF ring[r].state = "closed" THEN @
                      ELSE Append(@, [index |-> op.index, res |-> res])]
  /\ UNCHANGED <<read, canceled>>

\* A completion is lost because the queue overflows.
KernelOverflows(r) ==
  /\ Fault
  /\ \E op \in ring[r].kernel :
       ring' = [ring EXCEPT ![r].kernel = @ \ {op}, ![r].damaged = TRUE,
                            ![r].slot = Write(ring[r], op, "ok")]
  /\ UNCHANGED <<read, canceled>>

\* A completion that belongs to no request.
KernelMalformed(r) ==
  /\ Fault /\ ring[r].state = "open" /\ ring[r].kernel # {}
  /\ ring' = [ring EXCEPT ![r].cq = Append(@, [index |-> Unknown, res |-> "ok"])]
  /\ UNCHANGED <<read, canceled>>

KernelStep(r) == KernelCompletes(r) \/ KernelOverflows(r) \/ KernelMalformed(r)

-----------------------------------------------------------------------------

\* Memory the kernel can still write is mapped, and belongs to no other batch.
KernelOwnsStaging ==
  \A r \in Rings : \A op \in ring[r].kernel :
    op.fresh /\ ring[r].staging \in {"mapped", "retained"}

\* A batch that succeeds delivers the bytes of its own requests.
ReadReturnsOwnData ==
  \A p \in Readers :
    read[p].pc = "copied" => \A i \in 1..read[p].n : ring[read[p].ring].slot[i] = "data"

IoTypeOK ==
  /\ faults \in 0..MaxFaults
  /\ canceled \in [Readers -> BOOLEAN]
  /\ \A r \in Rings :
       /\ ring[r].state \in {"none", "open", "closed"}
       /\ ring[r].poisoned \in BOOLEAN /\ ring[r].damaged \in BOOLEAN
       /\ ring[r].staging \in {"none", "mapped", "retained", "unmapped"}
       /\ ring[r].sq \in Seq(Requests) /\ Len(ring[r].sq) <= MaxRequests
       /\ ring[r].kernel \subseteq [index : Requests, fresh : BOOLEAN]
       /\ ring[r].cq \in Seq([index : Requests \cup {Unknown}, res : Results])
       /\ ring[r].slot \in [Requests -> {"empty", "data", "wrong"}]
  /\ \A p \in Readers :
       /\ read[p].pc \in {"none", "submit", "drain", "wait", "consume", "copied", "returned"}
       /\ read[p].ring \in Rings \cup {None} /\ read[p].n \in 0..MaxRequests
       /\ read[p].inFlight \subseteq Requests /\ read[p].want \in 0..MaxRequests
       /\ read[p].err \in {"none", "canceled", "failed"} /\ read[p].uncertain \in BOOLEAN
       /\ read[p].back \in {"drain", "consume"} /\ read[p].seen \in Nat
       /\ read[p].tries \in 0..MaxTries /\ read[p].retries \in [Requests -> 0..MaxTries]
=============================================================================
