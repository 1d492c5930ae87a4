-------------------------- MODULE RuntimeAdmission --------------------------
(***************************************************************************)
(* Process-wide admission of queries and optimizations (runtimeResources   *)
(* of collection.go).  A task takes a token of its limiter, a buffered     *)
(* channel whose blocked senders are served in order, then scratch memory  *)
(* from one budget that both kinds share, runs, and gives both back.  A    *)
(* task that finds too little memory waits, holding its token, for the     *)
(* channel that the next release closes; its context may be cancelled at   *)
(* both waits.                                                             *)
(*                                                                         *)
(* epoch numbers the channels memoryBudget.changed: a waiter remembers the *)
(* one it saw, and it is closed once epoch has moved on.                   *)
(***************************************************************************)
EXTENDS Integers, Sequences, FiniteSets, FiniteSetsExt

CONSTANTS
  Tasks,       \* concurrent callers of begin
  Limits,      \* RuntimeConfig.MemoryLimitBytes to consider, 0 for none
  Amounts,     \* memory estimates of a task
  Slots,       \* tokens of each limiter: a function from kinds
  MaxMemory,   \* math.MaxUint64 in the code
  MaxCalls     \* bound: calls of begin

Kinds == {"query", "optimize"}

ASSUME AdmissionConstants ==
  /\ Slots \in [Kinds -> Nat \ {0}]
  /\ MaxMemory \in Nat /\ MaxCalls \in Nat
  /\ Limits \subseteq 0..MaxMemory /\ Amounts \subseteq 0..MaxMemory
  /\ IsFiniteSet(Tasks)

VARIABLES
  limit,   \* memoryBudget.limit
  used,    \* memoryBudget.used
  waiters, \* memoryBudget.waiters
  epoch,   \* number of times memoryBudget.changed was closed
  active,  \* taskLimiter.active
  queue,   \* senders blocked on taskLimiter.tokens
  task,    \* where each caller is, its kind, its amount, the epoch it saw
  calls    \* calls of begin so far

budgetVars == <<limit, used, waiters, epoch>>
vars == <<budgetVars, active, queue, task, calls>>

Idle == [at |-> "idle", kind |-> "query", amount |-> 0, seen |-> 0]

\* Tasks whose value is in the channel: all but the idle and the queued ones.
Holders(k) == {t \in Tasks : task[t].kind = k /\ task[t].at \notin {"idle", "queued"}}

Init ==
  /\ limit \in Limits
  /\ used = 0 /\ waiters = 0 /\ epoch = 0
  /\ active = [k \in Kinds |-> 0]
  /\ queue = [k \in Kinds |-> <<>>]
  /\ task = [t \in Tasks |-> Idle]
  /\ calls = 0

\* The limiter has a free token, or the task blocks behind the others.
Begin(t, k, amount) ==
  /\ task[t].at = "idle" /\ calls < MaxCalls
  /\ calls' = calls + 1
  /\ LET free == Cardinality(Holders(k)) < Slots[k]
     IN  /\ task' = [task EXCEPT ![t] = [at |-> IF free THEN "token" ELSE "queued",
                                         kind |-> k, amount |-> amount, seen |-> 0]]
         /\ queue' = IF free THEN queue ELSE [queue EXCEPT ![k] = Append(@, t)]
  /\ UNCHANGED <<budgetVars, active>>

\* A blocked sender gives up its place in the queue.
Withdraw(t) ==
  LET k == task[t].kind
  IN  \E i \in 1..Len(queue[k]) :
        /\ queue[k][i] = t
        /\ queue' = [queue EXCEPT ![k] = SubSeq(@, 1, i - 1) \o SubSeq(@, i + 1, Len(@))]

\* Mutant: a task that never held a token is counted out.
CancelQueuedCounted(t) ==
  /\ task[t].at = "queued"
  /\ Withdraw(t)
  /\ active' = [active EXCEPT ![task[t].kind] = @ - 1]
  /\ task' = [task EXCEPT ![t] = Idle]
  /\ UNCHANGED <<budgetVars, calls>>

\* The context of a task that still waits for a token is done.
CancelQueued(t) ==
  /\ task[t].at = "queued"
  /\ Withdraw(t)
  /\ task' = [task EXCEPT ![t] = Idle]
  /\ UNCHANGED <<budgetVars, active, calls>>

Activate(t) ==
  /\ task[t].at = "token"
  /\ active' = [active EXCEPT ![task[t].kind] = @ + 1]
  /\ task' = [task EXCEPT ![t].at = "active"]
  /\ UNCHANGED <<budgetVars, queue, calls>>

Fits(amount) == limit = 0 \/ amount <= limit - used

\* One critical section of memoryBudget.acquire, on entry or after a wake-up:
\* refuse, wait for the current channel, or take the memory.
TryMemory(t) ==
  LET amount == task[t].amount
      woken  == IF task[t].at = "waiting" THEN 1 ELSE 0
  IN  \/ /\ \/ woken = 0 /\ limit # 0 /\ amount > limit
            \/ Fits(amount) /\ amount > MaxMemory - used
         /\ task' = [task EXCEPT ![t].at = "leaving"]
         /\ waiters' = waiters - woken
         /\ UNCHANGED used
      \/ /\ woken = 1 \/ limit = 0 \/ amount <= limit
         /\ ~Fits(amount)
         /\ task' = [task EXCEPT ![t].at = "waiting", ![t].seen = epoch]
         /\ waiters' = waiters - woken + 1
         /\ UNCHANGED used
      \/ /\ Fits(amount) /\ amount <= MaxMemory - used
         /\ task' = [task EXCEPT ![t].at = "running"]
         /\ used' = used + amount
         /\ waiters' = waiters - woken

AcquireMemory(t) ==
  /\ task[t].at = "active"
  /\ TryMemory(t)
  /\ UNCHANGED <<limit, epoch, active, queue, calls>>

\* Mutant: the waiter looks at the channel that replaced the closed one.
WakeUpLate(t) ==
  /\ task[t].at = "waiting" /\ task[t].seen + 1 < epoch
  /\ TryMemory(t)
  /\ UNCHANGED <<limit, epoch, active, queue, calls>>

\* The channel the waiter saw is closed.
WakeUp(t) ==
  /\ task[t].at = "waiting" /\ task[t].seen < epoch
  /\ TryMemory(t)
  /\ UNCHANGED <<limit, epoch, active, queue, calls>>

\* The context is done when memoryBudget.acquire starts.
CancelActive(t) ==
  /\ task[t].at = "active"
  /\ task' = [task EXCEPT ![t].at = "leaving"]
  /\ UNCHANGED <<budgetVars, active, queue, calls>>

\* Mutant: a cancelled waiter stays counted.
CancelWaitingCounted(t) ==
  /\ task[t].at = "waiting"
  /\ task' = [task EXCEPT ![t].at = "leaving"]
  /\ UNCHANGED <<budgetVars, active, queue, calls>>

\* The context of a waiter is done, whether or not its channel is closed.
CancelWaiting(t) ==
  /\ task[t].at = "waiting"
  /\ task' = [task EXCEPT ![t].at = "leaving"]
  /\ waiters' = waiters - 1
  /\ UNCHANGED <<limit, used, epoch, active, queue, calls>>

\* Mutant: the memory goes back without waking anyone.
ReleaseMemorySilently(t) ==
  /\ task[t].at = "running"
  /\ used' = used - task[t].amount
  /\ task' = [task EXCEPT ![t].at = "leaving"]
  /\ UNCHANGED <<limit, waiters, epoch, active, queue, calls>>

\* The operation ended: its memory goes back and every waiter is woken.
ReleaseMemory(t) ==
  /\ task[t].at = "running"
  /\ used' = used - task[t].amount
  /\ epoch' = epoch + 1
  /\ task' = [task EXCEPT ![t].at = "leaving"]
  /\ UNCHANGED <<limit, waiters, active, queue, calls>>

\* releaseTask counts the task out before it takes its value off the channel.
Deactivate(t) ==
  /\ task[t].at = "leaving"
  /\ active' = [active EXCEPT ![task[t].kind] = @ - 1]
  /\ task' = [task EXCEPT ![t].at = "left"]
  /\ UNCHANGED <<budgetVars, queue, calls>>

\* A receive lets the first blocked sender in.
ReleaseToken(t) ==
  /\ task[t].at = "left"
  /\ LET k == task[t].kind IN
     IF queue[k] = <<>>
     THEN /\ task' = [task EXCEPT ![t] = Idle]
          /\ UNCHANGED queue
     ELSE /\ task' = [task EXCEPT ![t] = Idle, ![Head(queue[k])].at = "token"]
          /\ queue' = [queue EXCEPT ![k] = Tail(@)]
  /\ UNCHANGED <<budgetVars, active, calls>>

\* Everything a task does once begin was called, except being cancelled.
Proceed(t) ==
  \/ Activate(t) \/ AcquireMemory(t) \/ WakeUp(t)
  \/ ReleaseMemory(t) \/ Deactivate(t) \/ ReleaseToken(t)

Next ==
  \E t \in Tasks :
    \/ \E k \in Kinds, amount \in Amounts : Begin(t, k, amount)
    \/ CancelQueued(t) \/ CancelActive(t) \/ CancelWaiting(t)
    \/ Proceed(t)

\* The scheduler runs every goroutine that can run, and every query and
\* optimization ends.
Spec == Init /\ [][Next]_vars /\ \A t \in Tasks : WF_vars(Proceed(t))

-----------------------------------------------------------------------------
(* Properties.                                                             *)

Running == {t \in Tasks : task[t].at = "running"}
Waiting == {t \in Tasks : task[t].at = "waiting"}

\* Every variable keeps its type.
TypeOK ==
  /\ limit \in Limits /\ used \in 0..MaxMemory
  /\ waiters \in 0..Cardinality(Tasks) /\ epoch \in Nat
  /\ active \in [Kinds -> 0..Cardinality(Tasks)]
  /\ queue \in [Kinds -> Seq(Tasks)]
  /\ task \in [Tasks -> [at : {"idle", "queued", "token", "active", "waiting",
                               "running", "leaving", "left"},
                         kind : Kinds, amount : Amounts \cup {0}, seen : Nat]]
  /\ calls \in 0..MaxCalls

\* The budget is exactly what running tasks hold and stays within its limit,
\* through cancellations, refusals and wake-ups of several waiters at once.
BudgetExact ==
  /\ used = MapThenSumSet(LAMBDA t : task[t].amount, Running)
  /\ limit # 0 => used <= limit
  /\ waiters = Cardinality(Waiting)

\* No wake-up is lost: whoever waits for a channel that is still open could
\* not be served with the memory that is free now.
NoLostWakeUp ==
  \A t \in Waiting : task[t].seen = epoch => ~Fits(task[t].amount)

\* The statistics never show more active tasks than the limiter has tokens,
\* and nobody is queued while a token is free.
LimiterExact ==
  \A k \in Kinds :
    /\ active[k] <= Cardinality(Holders(k)) /\ Cardinality(Holders(k)) <= Slots[k]
    /\ queue[k] # <<>> => Cardinality(Holders(k)) = Slots[k]

\* Through every cancellation and release, no memory, waiter count or token
\* of begin leaks or is given twice.
AccountsExact == BudgetExact /\ LimiterExact

\* A call of begin always comes to an end: waiting for memory while holding a
\* token, with two limiters over one budget, is neither a deadlock nor a
\* forgotten waiter.
CallsEnd == \A t \in Tasks : (task[t].at # "idle") ~> (task[t].at = "idle")

=============================================================================
