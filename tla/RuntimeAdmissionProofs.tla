----------------------- MODULE RuntimeAdmissionProofs -----------------------
(***************************************************************************)
(* Admission for every set of tasks, every limit and every estimate: no    *)
(* wake-up of the memory budget is lost, the budget is never overcommitted *)
(* and the accounts of memory, waiters and tokens are exact.               *)
(*                                                                         *)
(* That no wake-up is lost is local to a waiter: memory only becomes free  *)
(* in ReleaseMemory, which also replaces the channel, so the free memory   *)
(* cannot grow under a channel that is still open.  The accounts compare   *)
(* counters with sets of tasks; the memory in use is a sum over a set,     *)
(* which is shown to change by one summand when the set does.              *)
(***************************************************************************)
EXTENDS RuntimeAdmission, FiniteLemmas, SequenceTheorems

Places == {"idle", "queued", "token", "active", "waiting", "running", "leaving", "left"}

TaskRecord == [at : Places, kind : Kinds, amount : Nat, seen : Nat]

\* used stays below the limit, if there is one, and below math.MaxUint64.
NoOvercommit == used <= MaxMemory /\ (limit # 0 => used <= limit)

\* The budget is numbers, and a waiter saw a channel of the past or the
\* present one.
BudgetTypes ==
  /\ limit \in Nat /\ used \in Int /\ epoch \in Nat
  /\ task \in [Tasks -> TaskRecord]
  /\ \A t \in Tasks : task[t].seen <= epoch

\* The inductive invariant.
WakeUpInv == BudgetTypes /\ NoOvercommit /\ NoLostWakeUp

\* newMemoryBudget starts with nothing used and nobody waiting.
LEMMA InitWakeUp == Init => WakeUpInv
<1> SUFFICES ASSUME Init PROVE WakeUpInv
  OBVIOUS
<1>1. BudgetTypes
  BY AdmissionConstants DEF Init, Idle, Kinds, BudgetTypes, TaskRecord, Places
<1>2. NoOvercommit
  BY AdmissionConstants DEF Init, NoOvercommit
<1>3. NoLostWakeUp
  BY DEF Init, Idle, NoLostWakeUp, Waiting
<1> QED BY <1>1, <1>2, <1>3 DEF WakeUpInv

\* A step that leaves the budget alone and lets no task start to wait, such as
\* those of taskLimiter.acquire and releaseTask, keeps the invariant.
LEMMA BudgetUntouched ==
  ASSUME WakeUpInv, UNCHANGED <<limit, used, epoch>>,
         task' \in [Tasks -> TaskRecord],
         \A t \in Tasks : task'[t].seen <= epoch,
         \A t \in Tasks : task'[t].at = "waiting" => task'[t] = task[t]
  PROVE  WakeUpInv'
<1>1. BudgetTypes'
  BY DEF WakeUpInv, BudgetTypes
<1>2. NoOvercommit'
  BY DEF WakeUpInv, NoOvercommit
<1>3. NoLostWakeUp'
  BY DEF WakeUpInv, NoLostWakeUp, Waiting, Fits
<1> QED BY <1>1, <1>2, <1>3 DEF WakeUpInv

\* The critical section of memoryBudget.acquire keeps the invariant: the one
\* who starts to wait did not fit, and for the others memory can only shrink.
LEMMA TryMemoryStep ==
  ASSUME WakeUpInv, NEW t \in Tasks, TryMemory(t), UNCHANGED <<limit, epoch>>
  PROVE  WakeUpInv'
<1> DEFINE amount == task[t].amount
<1> USE DEF WakeUpInv, BudgetTypes, NoOvercommit
<1>0. /\ amount \in Nat /\ MaxMemory \in Nat
      /\ task[t] \in TaskRecord
  BY AdmissionConstants DEF TaskRecord
<1>1. CASE task' = [task EXCEPT ![t].at = "leaving"] /\ UNCHANGED used
  <2>1. task' \in [Tasks -> TaskRecord]
    BY <1>1 DEF TaskRecord, Places
  <2>2. \A u \in Tasks : task'[u].seen <= epoch
    BY <1>1 DEF TaskRecord, Places
  <2>3. \A u \in Tasks : task'[u].at = "waiting" => task'[u] = task[u]
    BY <1>1 DEF TaskRecord, Places
  <2> QED BY <1>1, <2>1, <2>2, <2>3, BudgetUntouched
<1>2. CASE /\ ~Fits(amount) /\ UNCHANGED used
           /\ task' = [task EXCEPT ![t].at = "waiting", ![t].seen = epoch]
  <2>0. [task[t] EXCEPT !.at = "waiting", !.seen = epoch] \in TaskRecord
    BY <1>0 DEF TaskRecord, Places
  <2>1. BudgetTypes'
    BY <1>2, <2>0 DEF TaskRecord
  <2>2. NoOvercommit'
    BY <1>2
  <2>3. ASSUME NEW u \in Waiting', task'[u].seen = epoch'
        PROVE  ~Fits(task[u].amount)'
    <3>1. CASE u = t
      BY <1>2, <3>1 DEF TaskRecord, Places, Fits, Waiting
    <3>2. CASE u # t
      BY <1>2, <2>3, <3>2 DEF NoLostWakeUp, Waiting, Fits
    <3> QED BY <3>1, <3>2
  <2> QED BY <2>1, <2>2, <2>3 DEF NoLostWakeUp
<1>3. CASE /\ Fits(amount) /\ amount <= MaxMemory - used
           /\ task' = [task EXCEPT ![t].at = "running"]
           /\ used' = used + amount
  <2>1. BudgetTypes'
    BY <1>0, <1>3 DEF TaskRecord, Places
  <2>2. NoOvercommit'
    BY <1>0, <1>3 DEF Fits
  <2>3. ASSUME NEW u \in Waiting', task'[u].seen = epoch'
        PROVE  ~Fits(task[u].amount)'
    <3>1. u \in Tasks /\ u # t /\ task'[u] = task[u]
      BY <1>3 DEF Waiting, TaskRecord, Places
    <3>2. ~Fits(task[u].amount)
      BY <2>3, <3>1 DEF NoLostWakeUp, Waiting
    <3>3. task[u].amount \in Nat
      BY <3>1 DEF TaskRecord, Places
    <3> QED BY <1>0, <1>3, <3>1, <3>2, <3>3 DEF Fits
  <2> QED BY <2>1, <2>2, <2>3 DEF NoLostWakeUp
<1> QED BY <1>1, <1>2, <1>3 DEF TryMemory

\* Every step of Next keeps the invariant.
LEMMA NextWakeUp == WakeUpInv /\ [Next]_vars => WakeUpInv'
<1> SUFFICES ASSUME WakeUpInv, [Next]_vars PROVE WakeUpInv'
  OBVIOUS
<1>0. /\ task \in [Tasks -> TaskRecord]
      /\ \A t \in Tasks : task[t].seen <= epoch /\ epoch \in Nat
      /\ Idle \in TaskRecord /\ Idle.at = "idle" /\ Idle.seen = 0
  BY DEF WakeUpInv, BudgetTypes, Idle, TaskRecord, Places, Kinds
<1>1. ASSUME NEW t \in Tasks, NEW k \in Kinds, NEW amount \in Amounts, Begin(t, k, amount)
      PROVE  WakeUpInv'
  <2> DEFINE place == IF Cardinality(Holders(k)) < Slots[k] THEN "token" ELSE "queued"
             r == [at |-> place, kind |-> k, amount |-> amount, seen |-> 0]
  <2>1. task' = [task EXCEPT ![t] = r] /\ UNCHANGED <<limit, used, epoch>>
    BY <1>1 DEF Begin, budgetVars
  <2>2. place \in Places /\ place # "waiting"
    BY DEF Places
  <2>3. r \in TaskRecord /\ r.seen = 0 /\ r.at # "waiting"
    <3> HIDE DEF place
    <3> QED BY <2>2, AdmissionConstants DEF TaskRecord
  <2> HIDE DEF r
  <2> QED BY <1>0, <2>1, <2>3, BudgetUntouched
<1>2. ASSUME NEW t \in Tasks, CancelQueued(t) PROVE WakeUpInv'
  BY <1>0, <1>2, BudgetUntouched DEF CancelQueued, budgetVars
<1>3. ASSUME NEW t \in Tasks, CancelActive(t) PROVE WakeUpInv'
  BY <1>0, <1>3, BudgetUntouched DEF CancelActive, budgetVars, TaskRecord, Places
<1>4. ASSUME NEW t \in Tasks, CancelWaiting(t) PROVE WakeUpInv'
  BY <1>0, <1>4, BudgetUntouched DEF CancelWaiting, TaskRecord, Places
<1>5. ASSUME NEW t \in Tasks, Activate(t) PROVE WakeUpInv'
  BY <1>0, <1>5, BudgetUntouched DEF Activate, budgetVars, TaskRecord, Places
<1>6. ASSUME NEW t \in Tasks, AcquireMemory(t) PROVE WakeUpInv'
  BY <1>6, TryMemoryStep DEF AcquireMemory
<1>7. ASSUME NEW t \in Tasks, WakeUp(t) PROVE WakeUpInv'
  BY <1>7, TryMemoryStep DEF WakeUp
<1>8. ASSUME NEW t \in Tasks, ReleaseMemory(t) PROVE WakeUpInv'
  <2> USE DEF WakeUpInv
  <2>1. /\ task' = [task EXCEPT ![t].at = "leaving"]
        /\ used' = used - task[t].amount /\ epoch' = epoch + 1 /\ limit' = limit
        /\ task[t].amount \in Nat
    BY <1>0, <1>8 DEF ReleaseMemory, TaskRecord, Places
  <2>2. BudgetTypes'
    BY <1>0, <2>1 DEF BudgetTypes, TaskRecord, Places
  <2>3. NoOvercommit'
    BY <2>1, AdmissionConstants DEF BudgetTypes, NoOvercommit
  <2>4. \A u \in Tasks : task'[u].seen # epoch'
    BY <1>0, <2>1 DEF BudgetTypes, TaskRecord, Places
  <2> QED BY <2>2, <2>3, <2>4 DEF NoLostWakeUp, Waiting
<1>9. ASSUME NEW t \in Tasks, Deactivate(t) PROVE WakeUpInv'
  BY <1>0, <1>9, BudgetUntouched DEF Deactivate, budgetVars, TaskRecord, Places
<1>10. ASSUME NEW t \in Tasks, ReleaseToken(t) PROVE WakeUpInv'
  <2>1. UNCHANGED <<limit, used, epoch>>
    BY <1>10 DEF ReleaseToken, budgetVars
  <2>2. PICK h : \/ task' = [task EXCEPT ![t] = Idle]
                 \/ task' = [task EXCEPT ![t] = Idle, ![h].at = "token"]
    BY <1>10 DEF ReleaseToken
  <2>3. task' \in [Tasks -> TaskRecord]
    BY <1>0, <2>2 DEF TaskRecord, Places
  <2>4. \A u \in Tasks : /\ task'[u].seen <= epoch
                         /\ task'[u].at = "waiting" => task'[u] = task[u]
    BY <1>0, <2>2 DEF TaskRecord, Places
  <2> QED BY <2>1, <2>3, <2>4, BudgetUntouched
<1>11. ASSUME UNCHANGED vars PROVE WakeUpInv'
  BY <1>0, <1>11, BudgetUntouched DEF vars, budgetVars
<1> QED
  BY <1>1, <1>2, <1>3, <1>4, <1>5, <1>6, <1>7, <1>8, <1>9, <1>10, <1>11 DEF Next, Proceed

\* memoryBudget loses no wake-up and never gives out more than its limit,
\* whatever the tasks, their estimates and their cancellations.
THEOREM AdmissionSafety == Spec => [](NoLostWakeUp /\ NoOvercommit)
<1>1. WakeUpInv => NoLostWakeUp /\ NoOvercommit
  BY DEF WakeUpInv
<1> QED BY InitWakeUp, NextWakeUp, <1>1, PTL DEF Spec

-----------------------------------------------------------------------------
(* Sums.                                                                   *)

\* What the tasks of S hold together, when tk are the records of the tasks.
Held(tk, S) == MapThenSumSet(LAMBDA t : tk[t].amount, S)

\* g sums up f over each subset of S, in whatever order.
IsSum(g, f, S) ==
  /\ g \in [SUBSET S -> Nat] /\ g[{}] = 0
  /\ \A T \in SUBSET S : \A x \in T : g[T] = f[x] + g[T \ {x}]

\* Every finite sum exists: a smallest set without a sum could drop an element.
LEMMA SumExists ==
  ASSUME NEW S, IsFiniteSet(S), NEW f \in [S -> Nat]
  PROVE  \E g : IsSum(g, f, S)
<1> DEFINE B == {T \in SUBSET S : ~\E g : IsSum(g, f, T)}
<1>0. S \in SUBSET S
  OBVIOUS
<1>1. SUFFICES ASSUME B # {} PROVE FALSE
  BY <1>0, Zenon
<1>2. PICK T \in B : \A U \in SUBSET T : U # T => U \notin B
  <2>1. B \in SUBSET (SUBSET S)
    OBVIOUS
  <2> HIDE DEF B
  <2> QED BY <1>1, <2>1, SmallestSubset
<1>3. CASE T = {}
  <2>1. IsSum([U \in {{}} |-> 0], f, {})
    BY DEF IsSum
  <2> QED BY <1>3, <2>1
<1>4. CASE T # {}
  <2>1. PICK a \in T : TRUE
    BY <1>4
  <2> DEFINE R == T \ {a}
  <2>2. PICK g : IsSum(g, f, R)
    BY <1>2, <2>1
  <2> DEFINE h == [U \in SUBSET T |-> IF a \in U THEN f[a] + g[U \ {a}] ELSE g[U]]
  <2>3. f[a] \in Nat /\ \A U \in SUBSET R : g[U] \in Nat
    BY <2>1, <2>2 DEF IsSum
  <2>4. \A U \in SUBSET T : U \ {a} \in SUBSET R /\ (a \notin U => U \in SUBSET R /\ U \ {a} = U)
    OBVIOUS
  <2>5. h \in [SUBSET T -> Nat]
    BY <2>3, <2>4
  <2>6. h[{}] = 0
    BY <2>2 DEF IsSum
  <2>7. ASSUME NEW U \in SUBSET T, NEW x \in U PROVE h[U] = f[x] + h[U \ {x}]
    <3>0. U \ {x} \in SUBSET T /\ x \in S
      BY <1>2
    <3>1. CASE x = a
      <4>1. a \notin U \ {x} /\ h[U \ {x}] = g[U \ {a}]
        BY <3>0, <3>1
      <4> QED BY <3>1, <4>1
    <3>2. CASE x # a /\ a \in U
      <4>1. h[U] = f[a] + g[U \ {a}] /\ h[U \ {x}] = f[a] + g[(U \ {x}) \ {a}]
        BY <3>0, <3>2
      <4>2. (U \ {x}) \ {a} = (U \ {a}) \ {x} /\ x \in U \ {a}
        BY <3>2
      <4>3. g[U \ {a}] = f[x] + g[(U \ {a}) \ {x}] /\ (U \ {a}) \ {x} \in SUBSET R
        BY <2>2, <2>4, <4>2 DEF IsSum
      <4>4. f[x] \in Nat
        BY <3>0
      <4> DEFINE p == g[(U \ {a}) \ {x}]
      <4>5. p \in Nat /\ h[U] = f[a] + (f[x] + p) /\ h[U \ {x}] = f[a] + p
        BY <2>3, <4>1, <4>2, <4>3, Zenon
      <4> HIDE DEF h, p
      <4> QED BY <2>3, <4>4, <4>5
    <3>3. CASE a \notin U
      <4>1. h[U] = g[U] /\ h[U \ {x}] = g[U \ {x}]
        BY <3>0, <3>3
      <4> QED BY <2>2, <2>4, <3>3, <4>1 DEF IsSum
    <3> QED BY <3>1, <3>2, <3>3
  <2> HIDE DEF h
  <2>8. IsSum(h, f, T)
    BY <2>5, <2>6, <2>7 DEF IsSum
  <2> QED BY <2>8
<1> QED BY <1>3, <1>4

\* The fold of the library, which picks the elements in some order, is the sum.
LEMMA HeldIsSum ==
  ASSUME NEW S, IsFiniteSet(S), NEW tk, NEW g, IsSum(g, [t \in S |-> tk[t].amount], S)
  PROVE  Held(tk, S) = g[S]
<1> DEFINE Step(it) == [s \in SUBSET S |-> IF s = {} THEN 0
                          ELSE tk[CHOOSE x \in s : TRUE].amount + it[s \ {CHOOSE x \in s : TRUE}]]
           it == CHOOSE i : i = Step(i)
<1>1. Held(tk, S) = it[S]
  BY DEF Held, MapThenSumSet, MapThenFoldSet
<1>2. g = Step(g)
  <2>1. g = [s \in SUBSET S |-> g[s]]
    BY DEF IsSum
  <2>2. ASSUME NEW s \in SUBSET S, s # {}
        PROVE  g[s] = tk[CHOOSE x \in s : TRUE].amount + g[s \ {CHOOSE x \in s : TRUE}]
    <3>1. (CHOOSE x \in s : TRUE) \in s
      BY <2>2
    <3> QED BY <3>1 DEF IsSum
  <2>3. g[{}] = 0
    BY DEF IsSum
  <2> QED BY <2>1, <2>2, <2>3
<1>3. it = Step(it)
  BY <1>2
<1> HIDE DEF it
<1> DEFINE B == {s \in SUBSET S : it[s] # g[s]}
<1>4. B = {}
  <2>1. SUFFICES ASSUME B # {} PROVE FALSE
    OBVIOUS
  <2>2. PICK s \in B : \A U \in SUBSET s : U # s => U \notin B
    <3>1. B \in SUBSET (SUBSET S)
      OBVIOUS
    <3> HIDE DEF B
    <3> QED BY <2>1, <3>1, SmallestSubset
  <2>3. CASE s = {}
    BY <1>3, <2>2, <2>3 DEF IsSum
  <2>4. CASE s # {}
    <3> DEFINE x == CHOOSE x \in s : TRUE
    <3>1. x \in s
      BY <2>4
    <3>2. it[s] = tk[x].amount + it[s \ {x}] /\ g[s] = tk[x].amount + g[s \ {x}]
      BY <1>2, <1>3, <2>2, <2>4
    <3>3. it[s \ {x}] = g[s \ {x}]
      BY <2>2, <3>1
    <3> QED BY <2>2, <3>2, <3>3
  <2> QED BY <2>3, <2>4
<1> QED BY <1>1, <1>4

\* A part of a sum is the sum of the part.
LEMMA SumRestricts ==
  ASSUME NEW S, NEW f, NEW g, IsSum(g, f, S), NEW T \in SUBSET S, NEW e,
         \A x \in T : e[x] = f[x]
  PROVE  \E h : IsSum(h, e, T) /\ h[T] = g[T] /\ g[T] \in Nat
<1> DEFINE h == [U \in SUBSET T |-> g[U]]
<1>1. h \in [SUBSET T -> Nat] /\ h[{}] = 0
  BY DEF IsSum
<1>2. ASSUME NEW U \in SUBSET T, NEW x \in U PROVE h[U] = e[x] + h[U \ {x}]
  <2>1. U \in SUBSET S /\ U \ {x} \in SUBSET T /\ e[x] = f[x]
    OBVIOUS
  <2>2. g[U] = f[x] + g[U \ {x}]
    BY <2>1 DEF IsSum
  <2> QED BY <2>1, <2>2
<1>3. h[T] = g[T] /\ g[T] \in Nat
  BY DEF IsSum
<1> HIDE DEF h
<1>4. IsSum(h, e, T)
  BY <1>1, <1>2 DEF IsSum
<1> QED BY <1>3, <1>4

\* Memory is counted once per task: one more task adds its estimate.
LEMMA HeldMore ==
  ASSUME NEW tk, NEW S \in SUBSET Tasks, NEW t \in Tasks \ S,
         \A u \in S \cup {t} : tk[u].amount \in Nat
  PROVE  Held(tk, S) \in Nat /\ Held(tk, S \cup {t}) = tk[t].amount + Held(tk, S)
<1> DEFINE T == S \cup {t}
           f == [u \in T |-> tk[u].amount]
           e == [u \in S |-> tk[u].amount]
<1>1. IsFiniteSet(T) /\ IsFiniteSet(S)
  BY AdmissionConstants, FS_Subset
<1>2. f \in [T -> Nat] /\ S \in SUBSET T /\ \A u \in S : e[u] = f[u]
  OBVIOUS
<1> HIDE DEF T
<1>3. PICK g : IsSum(g, f, T)
  BY <1>1, <1>2, SumExists
<1>4. Held(tk, T) = g[T]
  BY <1>1, <1>3, HeldIsSum
<1>5. PICK h : IsSum(h, e, S) /\ h[S] = g[S] /\ g[S] \in Nat
  <2> HIDE DEF f, e
  <2> QED BY <1>2, <1>3, SumRestricts
<1>6. Held(tk, S) = h[S]
  BY <1>1, <1>5, HeldIsSum
<1>7. g[T] = f[t] + g[T \ {t}]
  BY <1>3 DEF IsSum, T
<1>8. T \ {t} = S /\ f[t] = tk[t].amount
  BY DEF T
<1> HIDE DEF f
<1> QED BY <1>4, <1>5, <1>6, <1>7, <1>8 DEF T

\* The sum depends on the estimates of its own tasks only.
LEMMA HeldSame ==
  ASSUME NEW tk, NEW tl, NEW S \in SUBSET Tasks,
         \A u \in S : tk[u].amount \in Nat /\ tl[u].amount = tk[u].amount
  PROVE  Held(tl, S) = Held(tk, S)
<1> DEFINE f == [u \in S |-> tk[u].amount]
           e == [u \in S |-> tl[u].amount]
<1>1. IsFiniteSet(S)
  BY AdmissionConstants, FS_Subset
<1>2. f \in [S -> Nat] /\ e = f
  OBVIOUS
<1>3. PICK g : IsSum(g, f, S)
  BY <1>1, <1>2, SumExists
<1>4. Held(tk, S) = g[S]
  BY <1>1, <1>3, HeldIsSum
<1>5. IsSum(g, e, S)
  BY <1>2, <1>3
<1>6. Held(tl, S) = g[S]
  BY <1>1, <1>5, HeldIsSum
<1> QED BY <1>4, <1>6

\* Nobody holds nothing.
LEMMA HeldNone == ASSUME NEW tk PROVE Held(tk, {}) = 0
<1> DEFINE f == [u \in {} |-> tk[u].amount]
<1>1. IsFiniteSet({}) /\ f \in [{} -> Nat]
  BY FS_EmptySet
<1>2. PICK g : IsSum(g, f, {})
  BY <1>1, SumExists
<1>3. Held(tk, {}) = g[{}]
  BY <1>1, <1>2, HeldIsSum
<1> QED BY <1>2, <1>3 DEF IsSum

-----------------------------------------------------------------------------
(* Exact accounts.                                                         *)

TaskType == [at : Places, kind : Kinds, amount : Amounts \cup {0}, seen : Nat]

\* The tasks that taskLimiter.active counts.
Counted(k) ==
  {t \in Tasks : task[t].kind = k /\ task[t].at \in {"active", "waiting", "running", "leaving"}}

Types ==
  /\ limit \in Limits /\ used \in Nat /\ epoch \in Nat /\ calls \in 0..MaxCalls
  /\ task \in [Tasks -> TaskType] /\ queue \in [Kinds -> Seq(Tasks)]

Counts ==
  /\ used = Held(task, Running) /\ waiters = Cardinality(Waiting)
  /\ active = [k \in Kinds |-> Cardinality(Counted(k))]

\* The queue of a limiter holds tasks that wait for it, each once.
QueueExact ==
  \A k \in Kinds : \A i \in 1..Len(queue[k]) :
    /\ task[queue[k][i]].at = "queued" /\ task[queue[k][i]].kind = k
    /\ \A j \in 1..Len(queue[k]) : queue[k][j] = queue[k][i] => j = i

\* Tokens are given out as long as there are any, and no more.
TokensExact ==
  \A k \in Kinds :
    /\ Cardinality(Holders(k)) <= Slots[k]
    /\ queue[k] # <<>> => Cardinality(Holders(k)) = Slots[k]

AccountInv == Types /\ Counts /\ QueueExact /\ TokensExact

\* Adding a task to a set of tasks, or taking it away, counts.
LEMMA TaskSets ==
  ASSUME NEW S \in SUBSET Tasks, NEW t \in Tasks
  PROVE  /\ Cardinality(S) \in Nat /\ Cardinality(S) <= Cardinality(Tasks)
         /\ t \notin S => Cardinality(S \cup {t}) = Cardinality(S) + 1
         /\ t \in S => Cardinality(S \ {t}) = Cardinality(S) - 1
<1>1. IsFiniteSet(S) /\ Cardinality(S) <= Cardinality(Tasks)
  BY AdmissionConstants, FS_Subset
<1>2. Cardinality(S) \in Nat
  BY <1>1, FS_CardinalityType
<1>3. t \notin S => Cardinality(S \cup {t}) = Cardinality(S) + 1
  BY <1>1, FS_AddElement
<1>4. t \in S => Cardinality(S \ {t}) = Cardinality(S) - 1
  BY <1>1, FS_RemoveElement
<1> QED BY <1>1, <1>2, <1>3, <1>4

\* A record of a task has numbers in it.
LEMMA TaskFacts ==
  ASSUME NEW r \in TaskType
  PROVE  /\ r.at \in Places /\ r.kind \in Kinds /\ r.amount \in Nat /\ r.seen \in Nat
         /\ r.amount \in Amounts \cup {0}
<1>1. /\ r.at \in Places /\ r.kind \in Kinds /\ r.seen \in Nat
      /\ r.amount \in Amounts \cup {0}
  BY DEF TaskType
<1>2. \A a \in Amounts \cup {0} : a \in Nat
  BY AdmissionConstants
<1> QED BY <1>1, <1>2

\* Whoever is in a queue waits there.
LEMMA ElementsQueued ==
  ASSUME AccountInv, NEW k \in Kinds, NEW i \in 1..Len(queue[k])
  PROVE  /\ queue[k][i] \in Tasks /\ task[queue[k][i]].at = "queued"
         /\ task[queue[k][i]].kind = k
<1>1. queue[k] \in Seq(Tasks)
  BY DEF AccountInv, Types
<1> QED BY <1>1 DEF AccountInv, QueueExact

\* A step of a task that has a token and keeps it leaves queues and tokens alone.
LEMMA TokensKept ==
  ASSUME AccountInv, NEW t \in Tasks, task' \in [Tasks -> TaskType], queue' = queue,
         task[t].at \notin {"idle", "queued"}, task'[t].at \notin {"idle", "queued"},
         task'[t].kind = task[t].kind,
         \A u \in Tasks \ {t} : task'[u] = task[u]
  PROVE  QueueExact' /\ TokensExact'
<1>1. \A k \in Kinds : Holders(k)' = Holders(k)
  BY DEF Holders
<1>2. TokensExact'
  BY <1>1 DEF AccountInv, TokensExact
<1>3. \A k \in Kinds : \A i \in 1..Len(queue[k]) :
        queue[k][i] \in Tasks /\ queue[k][i] # t
  BY ElementsQueued
<1>4. QueueExact'
  BY <1>3 DEF AccountInv, QueueExact
<1> QED BY <1>2, <1>4

\* A step that lets nobody start or end to run, to wait or to be counted.
LEMMA CountsKept ==
  ASSUME AccountInv, UNCHANGED <<used, waiters, active>>, task' \in [Tasks -> TaskType],
         \A u \in Tasks :
           \/ task'[u] = task[u]
           \/ /\ task[u].at \notin {"active", "waiting", "running", "leaving"}
              /\ task'[u].at \notin {"active", "waiting", "running", "leaving"}
           \/ /\ task[u].kind = task'[u].kind
              /\ task[u].at \in {"active", "leaving"} /\ task'[u].at \in {"active", "leaving"}
  PROVE  Counts'
<1>1. Running' = Running /\ Waiting' = Waiting /\ \A k \in Kinds : Counted(k)' = Counted(k)
  BY DEF Running, Waiting, Counted
<1>2. Held(task', Running) = Held(task, Running)
  <2>1. \A u \in Running : task[u].amount \in Nat /\ task'[u].amount = task[u].amount
    BY TaskFacts DEF Running, AccountInv, Types
  <2> QED BY <2>1, HeldSame DEF Running
<1> QED BY <1>1, <1>2 DEF AccountInv, Counts

\* newRuntimeResources starts with empty accounts.
LEMMA InitAccounts == Init => AccountInv
<1> SUFFICES ASSUME Init PROVE AccountInv
  OBVIOUS
<1>1. Types
  BY AdmissionConstants DEF Init, Types, Idle, TaskType, Places, Kinds
<1>2. Running = {} /\ Waiting = {} /\ \A k \in Kinds : Counted(k) = {} /\ Holders(k) = {}
  BY DEF Init, Idle, Running, Waiting, Counted, Holders
<1>3. Cardinality({}) = 0
  BY FS_EmptySet
<1>4. Counts
  BY <1>2, <1>3, HeldNone DEF Init, Counts
<1>5. QueueExact
  BY DEF Init, QueueExact
<1>6. TokensExact
  <2>1. \A k \in Kinds : Slots[k] \in Nat /\ queue[k] = <<>>
    BY AdmissionConstants DEF Init
  <2>2. \A k \in Kinds : Cardinality(Holders(k)) = 0
    BY <1>2, <1>3
  <2> QED BY <2>1, <2>2 DEF TokensExact
<1> QED BY <1>1, <1>4, <1>5, <1>6 DEF AccountInv

\* A task that moves on keeps its record in shape.
LEMMA Moved ==
  ASSUME AccountInv, NEW t \in Tasks, NEW place \in Places, NEW e \in Nat
  PROVE  /\ [task EXCEPT ![t].at = place] \in [Tasks -> TaskType]
         /\ [task EXCEPT ![t].at = place, ![t].seen = e] \in [Tasks -> TaskType]
         /\ task[t] \in TaskType /\ Idle \in TaskType
         /\ [task EXCEPT ![t] = Idle] \in [Tasks -> TaskType]
<1>1. task \in [Tasks -> TaskType]
  BY DEF AccountInv, Types
<1>2. Idle \in TaskType
  BY DEF Idle, TaskType, Places, Kinds
<1> QED BY <1>1, <1>2 DEF TaskType

\* taskLimiter.acquire with a free token.
LEMMA BeginFreeStep ==
  ASSUME AccountInv, NEW t \in Tasks, NEW k \in Kinds, NEW amount \in Amounts,
         Begin(t, k, amount), Cardinality(Holders(k)) < Slots[k]
  PROVE  AccountInv'
<1> DEFINE r == [at |-> "token", kind |-> k, amount |-> amount, seen |-> 0]
<1>1. /\ task' = [task EXCEPT ![t] = r] /\ queue' = queue /\ calls' = calls + 1
      /\ calls < MaxCalls /\ task[t].at = "idle"
      /\ UNCHANGED <<limit, used, waiters, epoch, active>>
  BY DEF Begin, budgetVars
<1>2. task \in [Tasks -> TaskType] /\ r \in TaskType
  BY DEF AccountInv, Types, TaskType, Places
<1>3. r.at = "token" /\ r.kind = k
  OBVIOUS
<1> HIDE DEF r
<1>4. task' \in [Tasks -> TaskType]
  BY <1>1, <1>2
<1>5. Types'
  BY <1>1, <1>4, AdmissionConstants DEF AccountInv, Types
<1>6. Counts'
  BY <1>1, <1>2, <1>3, <1>4, CountsKept
<1>7. QueueExact'
  <2>1. \A j \in Kinds : \A i \in 1..Len(queue[j]) : queue[j][i] \in Tasks /\ queue[j][i] # t
    BY <1>1, ElementsQueued
  <2> QED BY <1>1, <1>2, <2>1 DEF AccountInv, QueueExact
<1>8. TokensExact'
  <2>1. Holders(k)' = Holders(k) \cup {t} /\ t \notin Holders(k)
    BY <1>1, <1>2, <1>3 DEF Holders
  <2>2. Cardinality(Holders(k)') = Cardinality(Holders(k)) + 1 /\ Cardinality(Holders(k)) \in Nat
    BY <2>1, TaskSets DEF Holders
  <2>3. \A j \in Kinds \ {k} : Holders(j)' = Holders(j)
    BY <1>1, <1>2, <1>3 DEF Holders
  <2>4. queue[k] = <<>> /\ Slots[k] \in Nat
    BY AdmissionConstants, <2>2 DEF AccountInv, TokensExact
  <2> QED BY <1>1, <2>2, <2>3, <2>4 DEF AccountInv, TokensExact
<1> QED BY <1>5, <1>6, <1>7, <1>8 DEF AccountInv

\* taskLimiter.acquire behind others.
LEMMA BeginQueuedStep ==
  ASSUME AccountInv, NEW t \in Tasks, NEW k \in Kinds, NEW amount \in Amounts,
         Begin(t, k, amount), ~(Cardinality(Holders(k)) < Slots[k])
  PROVE  AccountInv'
<1> DEFINE r == [at |-> "queued", kind |-> k, amount |-> amount, seen |-> 0]
<1>1. /\ task' = [task EXCEPT ![t] = r] /\ queue' = [queue EXCEPT ![k] = Append(@, t)]
      /\ calls' = calls + 1 /\ calls < MaxCalls /\ task[t].at = "idle"
      /\ UNCHANGED <<limit, used, waiters, epoch, active>>
  BY DEF Begin, budgetVars
<1>2. task \in [Tasks -> TaskType] /\ r \in TaskType /\ queue \in [Kinds -> Seq(Tasks)]
  BY DEF AccountInv, Types, TaskType, Places
<1>3. r.at = "queued" /\ r.kind = k
  OBVIOUS
<1> HIDE DEF r
<1>4. task' \in [Tasks -> TaskType] /\ queue' \in [Kinds -> Seq(Tasks)]
  BY <1>1, <1>2
<1>5. Types'
  BY <1>1, <1>4, AdmissionConstants DEF AccountInv, Types
<1>6. Counts'
  BY <1>1, <1>2, <1>3, <1>4, CountsKept
<1>7. \A j \in Kinds : \A i \in 1..Len(queue[j]) : queue[j][i] \in Tasks /\ queue[j][i] # t
  BY <1>1, ElementsQueued
<1>8. QueueExact'
  <2>1. SUFFICES ASSUME NEW j \in Kinds
                 PROVE  \A i \in 1..Len(queue'[j]) :
                          /\ task'[queue'[j][i]].at = "queued" /\ task'[queue'[j][i]].kind = j
                          /\ \A m \in 1..Len(queue'[j]) : queue'[j][m] = queue'[j][i] => m = i
    BY DEF QueueExact
  <2>2. CASE j # k
    <3>1. queue'[j] = queue[j] /\ \A u \in Tasks \ {t} : task'[u] = task[u]
      BY <1>1, <1>2, <2>2
    <3> QED BY <1>7, <3>1 DEF AccountInv, QueueExact
  <2>3. CASE j = k
    <3>1. queue'[k] = Append(queue[k], t) /\ queue[k] \in Seq(Tasks)
      BY <1>1, <1>2
    <3>2. Len(queue'[k]) = Len(queue[k]) + 1 /\ Len(queue[k]) \in Nat
      BY <3>1
    <3>3. \A i \in 1..Len(queue[k]) : queue'[k][i] = queue[k][i]
      BY <3>1
    <3>4. queue'[k][Len(queue[k]) + 1] = t
      BY <3>1
    <3>5. \A i \in 1..Len(queue[k]) :
            /\ task'[queue[k][i]].at = "queued" /\ task'[queue[k][i]].kind = k
            /\ \A m \in 1..Len(queue[k]) : queue[k][m] = queue[k][i] => m = i
      BY <1>1, <1>2, <1>7 DEF AccountInv, QueueExact
    <3>6. task'[t].at = "queued" /\ task'[t].kind = k
      BY <1>1, <1>2, <1>3
    <3>7. \A i \in 1..Len(queue'[k]) : i \in 1..Len(queue[k]) \/ i = Len(queue[k]) + 1
      BY <3>2
    <3>8. ASSUME NEW i \in 1..Len(queue'[k]), NEW m \in 1..Len(queue'[k]),
                 queue'[k][m] = queue'[k][i]
          PROVE  m = i
      <4>1. CASE i = Len(queue[k]) + 1
        BY <1>7, <3>3, <3>4, <3>7, <3>8, <4>1
      <4>2. CASE i \in 1..Len(queue[k])
        BY <1>7, <3>3, <3>4, <3>5, <3>7, <3>8, <4>2
      <4> QED BY <3>7, <4>1, <4>2
    <3>9. ASSUME NEW i \in 1..Len(queue'[k])
          PROVE  task'[queue'[k][i]].at = "queued" /\ task'[queue'[k][i]].kind = k
      BY <3>3, <3>4, <3>5, <3>6, <3>7
    <3> QED BY <2>3, <3>8, <3>9
  <2> QED BY <2>2, <2>3
<1>9. TokensExact'
  <2>1. \A j \in Kinds : Holders(j)' = Holders(j)
    BY <1>1, <1>2, <1>3 DEF Holders
  <2>2. Cardinality(Holders(k)) \in Nat /\ Slots[k] \in Nat
    BY TaskSets, AdmissionConstants DEF Holders
  <2>3. \A j \in Kinds \ {k} : queue'[j] = queue[j]
    BY <1>1, <1>2
  <2>4. Cardinality(Holders(k)) = Slots[k]
    BY <2>2 DEF AccountInv, TokensExact
  <2> QED BY <2>1, <2>2, <2>3, <2>4 DEF AccountInv, TokensExact
<1> QED BY <1>5, <1>6, <1>8, <1>9 DEF AccountInv

\* The context of a blocked sender is done.
LEMMA CancelQueuedStep ==
  ASSUME AccountInv, NEW t \in Tasks, CancelQueued(t)
  PROVE  AccountInv'
<1>0. PICK k \in Kinds : k = task[t].kind
  BY Moved, TaskFacts DEF AccountInv, Types
<1>1. task[t] \in TaskType /\ Idle \in TaskType /\ task' \in [Tasks -> TaskType]
  BY Moved DEF CancelQueued, Places
<1>2. /\ task' = [task EXCEPT ![t] = Idle] /\ task[t].at = "queued" /\ Idle.at = "idle"
      /\ UNCHANGED <<limit, used, waiters, epoch, active, calls>>
      /\ task \in [Tasks -> TaskType] /\ queue \in [Kinds -> Seq(Tasks)]
  BY <1>1 DEF CancelQueued, budgetVars, Idle, AccountInv, Types
<1>3. PICK n \in 1..Len(queue[k]) :
        /\ queue[k][n] = t
        /\ queue' = [queue EXCEPT ![k] = SubSeq(queue[k], 1, n - 1)
                                           \o SubSeq(queue[k], n + 1, Len(queue[k]))]
  BY <1>0 DEF CancelQueued, Withdraw
<1> DEFINE s == queue[k]
           w == SubSeq(s, 1, n - 1) \o SubSeq(s, n + 1, Len(s))
<1>4. s \in Seq(Tasks) /\ Len(s) \in Nat /\ n \in 1..Len(s)
  BY <1>2, <1>3
<1>5. queue'[k] = w /\ \A j \in Kinds \ {k} : queue'[j] = queue[j]
  BY <1>2, <1>3
<1>6. /\ w \in Seq(Tasks) /\ Len(w) = Len(s) - 1
      /\ \A i \in 1..Len(w) : w[i] = IF i < n THEN s[i] ELSE s[i + 1]
  <2> DEFINE a == SubSeq(s, 1, n - 1)
             b == SubSeq(s, n + 1, Len(s))
  <2> HIDE DEF s
  <2>1. a \in Seq(Tasks) /\ Len(a) = n - 1 /\ \A i \in 1..(n - 1) : a[i] = s[i]
    BY <1>4
  <2>2. /\ b \in Seq(Tasks) /\ Len(b) = Len(s) - n
        /\ \A i \in 1..(Len(s) - n) : b[i] = s[n + i]
    BY <1>4
  <2> HIDE DEF a, b
  <2>3. a \o b \in Seq(Tasks) /\ Len(a \o b) = Len(s) - 1
    <3>1. a \o b \in Seq(Tasks) /\ Len(a \o b) = Len(a) + Len(b)
      BY <2>1, <2>2, ConcatProperties
    <3>2. Len(a) + Len(b) = Len(s) - 1
      BY <1>4, <2>1, <2>2
    <3> QED BY <3>1, <3>2
  <2>4. ASSUME NEW i \in 1..(Len(s) - 1)
        PROVE  (a \o b)[i] = IF i < n THEN s[i] ELSE s[i + 1]
    <3>1. (a \o b)[i] = IF i <= Len(a) THEN a[i] ELSE b[i - Len(a)]
      BY <1>4, <2>1, <2>2
    <3>2. CASE i < n
      BY <1>4, <2>1, <3>1, <3>2
    <3>3. CASE ~(i < n)
      <4>1. i - Len(a) \in 1..(Len(s) - n) /\ n + (i - Len(a)) = i + 1 /\ ~(i <= Len(a))
        BY <1>4, <2>1, <3>3
      <4> QED BY <2>2, <3>1, <3>3, <4>1
    <3> QED BY <3>2, <3>3
  <2> QED BY <2>3, <2>4 DEF a, b
<1> HIDE DEF w
<1>7. queue' \in [Kinds -> Seq(Tasks)]
  BY <1>2, <1>3, <1>6 DEF w
<1>8. Types'
  BY <1>1, <1>2, <1>7 DEF AccountInv, Types
<1>9. Counts'
  BY <1>1, <1>2, CountsKept
<1>10. ASSUME NEW j \in Kinds, NEW i \in 1..Len(queue[j]), j # k \/ i # n
       PROVE  queue[j][i] \in Tasks /\ queue[j][i] # t
  <2>1. /\ queue[j][i] \in Tasks /\ task[queue[j][i]].kind = j
        /\ \A m \in 1..Len(queue[j]) : queue[j][m] = queue[j][i] => m = i
    BY ElementsQueued DEF AccountInv, QueueExact
  <2> QED BY <1>0, <1>3, <1>10, <2>1
<1>11. QueueExact'
  <2>1. SUFFICES ASSUME NEW j \in Kinds
                 PROVE  \A i \in 1..Len(queue'[j]) :
                          /\ task'[queue'[j][i]].at = "queued" /\ task'[queue'[j][i]].kind = j
                          /\ \A m \in 1..Len(queue'[j]) : queue'[j][m] = queue'[j][i] => m = i
    BY DEF QueueExact
  <2>2. \A u \in Tasks \ {t} : task'[u] = task[u]
    BY <1>2
  <2>3. CASE j # k
    BY <1>5, <1>10, <2>2, <2>3 DEF AccountInv, QueueExact
  <2>4. CASE j = k
    <3> DEFINE at(i) == IF i < n THEN i ELSE i + 1
    <3>1. \A i \in 1..Len(w) : at(i) \in 1..Len(s) /\ at(i) # n /\ w[i] = s[at(i)]
      BY <1>4, <1>6
    <3>2. \A i, m \in 1..Len(w) : at(i) = at(m) => m = i
      BY <1>4, <1>6
    <3>3. \A i \in 1..Len(s) : i # n =>
            /\ task'[s[i]].at = "queued" /\ task'[s[i]].kind = k
            /\ \A m \in 1..Len(s) : s[m] = s[i] => m = i
      BY <1>2, <1>10, <2>2 DEF AccountInv, QueueExact
    <3> HIDE DEF at, s
    <3>4. ASSUME NEW i \in 1..Len(w)
          PROVE  /\ task'[w[i]].at = "queued" /\ task'[w[i]].kind = k
                 /\ \A m \in 1..Len(w) : w[m] = w[i] => m = i
      <4>1. /\ task'[s[at(i)]].at = "queued" /\ task'[s[at(i)]].kind = k
            /\ \A m \in 1..Len(s) : s[m] = s[at(i)] => m = at(i)
        BY <3>1, <3>3
      <4>2. ASSUME NEW m \in 1..Len(w), w[m] = w[i] PROVE m = i
        <5>1. at(m) = at(i)
          BY <3>1, <4>1, <4>2
        <5> QED BY <3>2, <5>1
      <4> QED BY <3>1, <4>1, <4>2
    <3> QED BY <1>5, <2>4, <3>4
  <2> QED BY <2>3, <2>4
<1>12. TokensExact'
  <2>1. \A j \in Kinds : Holders(j)' = Holders(j)
    BY <1>1, <1>2 DEF Holders
  <2>2. queue[k] # <<>>
    BY <1>4
  <2> QED BY <1>2, <1>5, <2>1, <2>2 DEF AccountInv, TokensExact
<1> QED BY <1>8, <1>9, <1>11, <1>12 DEF AccountInv

\* releaseTask: the token goes to the first blocked sender, or back.
LEMMA ReleaseTokenStep ==
  ASSUME AccountInv, NEW t \in Tasks, ReleaseToken(t)
  PROVE  AccountInv'
<1>0. PICK k \in Kinds : k = task[t].kind
  BY Moved, TaskFacts DEF AccountInv, Types
<1>1. /\ task[t] \in TaskType /\ Idle \in TaskType /\ Idle.at = "idle"
      /\ task[t].at = "left" /\ UNCHANGED <<limit, used, waiters, epoch, active, calls>>
      /\ task \in [Tasks -> TaskType] /\ queue \in [Kinds -> Seq(Tasks)]
  <2>1. task[t] \in TaskType /\ Idle \in TaskType
    BY Moved DEF Places
  <2> QED BY <2>1 DEF ReleaseToken, budgetVars, AccountInv, Types, Idle
<1>2. Slots[k] \in Nat /\ t \in Holders(k) /\ Cardinality(Holders(k)) \in Nat
  BY <1>0, <1>1, TaskSets, AdmissionConstants DEF Holders
<1>3. CASE queue[k] = <<>>
  <2>1. task' = [task EXCEPT ![t] = Idle] /\ queue' = queue
    BY <1>0, <1>3 DEF ReleaseToken
  <2>2. Types' /\ task' \in [Tasks -> TaskType]
    BY <1>1, <2>1 DEF AccountInv, Types
  <2>3. Counts'
    BY <1>1, <2>1, <2>2, CountsKept
  <2>4. \A j \in Kinds : \A i \in 1..Len(queue[j]) : queue[j][i] \in Tasks /\ queue[j][i] # t
    BY <1>1, ElementsQueued
  <2>5. QueueExact'
    BY <1>1, <2>1, <2>4 DEF AccountInv, QueueExact
  <2>6. Holders(k)' = Holders(k) \ {t} /\ \A j \in Kinds \ {k} : Holders(j)' = Holders(j)
    BY <1>0, <1>1, <2>1 DEF Holders
  <2>7. Cardinality(Holders(k)') = Cardinality(Holders(k)) - 1
    BY <1>2, <2>6, TaskSets DEF Holders
  <2>8. TokensExact'
    <3>1. ASSUME NEW j \in Kinds
          PROVE  /\ Cardinality(Holders(j)') <= Slots[j]
                 /\ queue[j] # <<>> => Cardinality(Holders(j)') = Slots[j]
      <4>1. /\ Cardinality(Holders(j)) <= Slots[j]
            /\ queue[j] # <<>> => Cardinality(Holders(j)) = Slots[j]
        BY DEF AccountInv, TokensExact
      <4>2. CASE j = k
        BY <1>2, <1>3, <2>7, <4>1, <4>2
      <4>3. CASE j # k
        BY <2>6, <4>1, <4>3
      <4> QED BY <4>2, <4>3
    <3> QED BY <2>1, <3>1 DEF TokensExact
  <2> QED BY <2>2, <2>3, <2>5, <2>8 DEF AccountInv
<1>4. CASE queue[k] # <<>>
  <2>0. PICK s, h : s = queue[k] /\ h = s[1]
    OBVIOUS
  <2>1. s \in Seq(Tasks) /\ Len(s) \in Nat \ {0} /\ Head(s) = h /\ 1 \in 1..Len(s)
    BY <1>1, <1>4, <2>0
  <2>2. h \in Tasks /\ h # t /\ task[h].at = "queued" /\ task[h].kind = k
    BY <1>1, <2>0, <2>1, ElementsQueued
  <2>3. /\ task' = [task EXCEPT ![t] = Idle, ![h].at = "token"]
        /\ queue' = [queue EXCEPT ![k] = Tail(@)]
    BY <1>0, <1>4, <2>0, <2>1 DEF ReleaseToken
  <2>4. /\ task'[t] = Idle /\ task'[h] = [task[h] EXCEPT !.at = "token"]
        /\ \A u \in Tasks \ {t, h} : task'[u] = task[u]
        /\ task' = [u \in Tasks |-> task'[u]]
    BY <1>1, <2>2, <2>3
  <2>5. task'[h] \in TaskType /\ task'[h].at = "token" /\ task'[h].kind = k
    BY <1>1, <2>2, <2>4 DEF TaskType, Places
  <2>6. task' \in [Tasks -> TaskType]
    <3>1. \A u \in Tasks : task'[u] \in TaskType
      BY <1>1, <2>4, <2>5
    <3> QED BY <2>4, <3>1
  <2>7. /\ queue'[k] = Tail(s) /\ \A j \in Kinds \ {k} : queue'[j] = queue[j]
        /\ Len(Tail(s)) = Len(s) - 1 /\ \A i \in 1..Len(Tail(s)) : Tail(s)[i] = s[i + 1]
        /\ queue' \in [Kinds -> Seq(Tasks)]
    BY <1>1, <2>0, <2>1, <2>3
  <2>8. Types'
    BY <1>1, <2>6, <2>7 DEF AccountInv, Types
  <2>9. Counts'
    BY <1>1, <2>2, <2>4, <2>5, <2>6, CountsKept
  <2>10. ASSUME NEW j \in Kinds, NEW i \in 1..Len(queue[j]), j # k \/ i # 1
         PROVE  queue[j][i] \in Tasks \ {t, h}
    <3>1. /\ queue[j][i] \in Tasks /\ task[queue[j][i]].at = "queued"
          /\ task[queue[j][i]].kind = j
          /\ \A m \in 1..Len(queue[j]) : queue[j][m] = queue[j][i] => m = i
      BY ElementsQueued DEF AccountInv, QueueExact
    <3> QED BY <1>1, <2>0, <2>1, <2>2, <2>10, <3>1
  <2>11. QueueExact'
    <3>1. SUFFICES ASSUME NEW j \in Kinds
                   PROVE  \A i \in 1..Len(queue'[j]) :
                            /\ task'[queue'[j][i]].at = "queued" /\ task'[queue'[j][i]].kind = j
                            /\ \A m \in 1..Len(queue'[j]) : queue'[j][m] = queue'[j][i] => m = i
      BY DEF QueueExact
    <3>2. CASE j # k
      BY <2>4, <2>7, <2>10, <3>2 DEF AccountInv, QueueExact
    <3>3. CASE j = k
      <4>1. \A i \in 1..Len(s) : i # 1 =>
              /\ task'[s[i]].at = "queued" /\ task'[s[i]].kind = k
              /\ \A m \in 1..Len(s) : s[m] = s[i] => m = i
        BY <1>1, <2>0, <2>4, <2>10 DEF AccountInv, QueueExact
      <4>2. \A i \in 1..Len(Tail(s)) : i + 1 \in 1..Len(s) /\ i + 1 # 1
        BY <2>1, <2>7
      <4>3. ASSUME NEW i \in 1..Len(Tail(s)), NEW m \in 1..Len(Tail(s)), Tail(s)[m] = Tail(s)[i]
            PROVE  m = i
        <5>1. s[m + 1] = s[i + 1] /\ m + 1 \in 1..Len(s) /\ i + 1 \in 1..Len(s) /\ i + 1 # 1
          BY <2>7, <4>2, <4>3
        <5>2. m + 1 = i + 1
          BY <4>1, <5>1
        <5> QED BY <5>2
      <4>4. ASSUME NEW i \in 1..Len(Tail(s))
            PROVE  task'[Tail(s)[i]].at = "queued" /\ task'[Tail(s)[i]].kind = k
        BY <2>7, <4>1, <4>2
      <4>5. queue'[j] = Tail(s)
        BY <2>7, <3>3
      <4>6. ASSUME NEW i \in 1..Len(queue'[j])
            PROVE  /\ task'[queue'[j][i]].at = "queued" /\ task'[queue'[j][i]].kind = j
                   /\ \A m \in 1..Len(queue'[j]) : queue'[j][m] = queue'[j][i] => m = i
        <5>1. i \in 1..Len(Tail(s)) /\ queue'[j][i] = Tail(s)[i]
          BY <4>5
        <5>2. \A m \in 1..Len(Tail(s)) : Tail(s)[m] = Tail(s)[i] => m = i
          BY <4>3, <5>1
        <5> QED BY <3>3, <4>4, <4>5, <5>1, <5>2
      <4> QED BY <4>6
    <3> QED BY <3>2, <3>3
  <2>12. TokensExact'
    <3>1. Holders(k)' = (Holders(k) \ {t}) \cup {h} /\ h \notin Holders(k) \ {t}
      BY <1>0, <1>1, <2>2, <2>4, <2>5 DEF Holders
    <3>2. \A j \in Kinds \ {k} : Holders(j)' = Holders(j)
      BY <1>0, <1>1, <2>2, <2>4, <2>5 DEF Holders
    <3> DEFINE H == Holders(k) \ {t}
    <3>3. Cardinality(H) = Cardinality(Holders(k)) - 1
      BY <1>2, TaskSets DEF Holders
    <3>4. Cardinality(H \cup {h}) = Cardinality(H) + 1
      BY <2>2, <3>1, TaskSets DEF Holders
    <3>5. Cardinality(Holders(k)') = Cardinality(Holders(k))
      BY <1>2, <3>1, <3>3, <3>4
    <3> QED BY <1>4, <2>7, <3>2, <3>5 DEF AccountInv, TokensExact
  <2> QED BY <2>8, <2>9, <2>11, <2>12 DEF AccountInv
<1> QED BY <1>3, <1>4

\* A task with a token moves from one place to another and keeps its record.
LEMMA MoveStep ==
  ASSUME AccountInv, NEW t \in Tasks, NEW place \in Places \ {"idle", "queued"},
         task[t].at \notin {"idle", "queued"}, queue' = queue,
         \/ task' = [task EXCEPT ![t].at = place]
         \/ task' = [task EXCEPT ![t].at = place, ![t].seen = epoch]
  PROVE  /\ task' \in [Tasks -> TaskType] /\ QueueExact' /\ TokensExact'
         /\ task \in [Tasks -> TaskType]
         /\ task'[t].at = place /\ task'[t].kind = task[t].kind /\ task[t].kind \in Kinds
         /\ task'[t].amount = task[t].amount /\ task[t].amount \in Nat
         /\ \A u \in Tasks \ {t} : task'[u] = task[u]
         /\ \A u \in Tasks : task'[u].amount = task[u].amount /\ task[u].amount \in Nat
<1>1. task' \in [Tasks -> TaskType] /\ task[t] \in TaskType
  <2>1. epoch \in Nat /\ place \in Places
    BY DEF AccountInv, Types
  <2>2. /\ [task EXCEPT ![t].at = place] \in [Tasks -> TaskType]
        /\ [task EXCEPT ![t].at = place, ![t].seen = epoch] \in [Tasks -> TaskType]
        /\ task[t] \in TaskType
    BY <2>1, Moved
  <2> QED BY <2>2, Zenon
<1>2. task \in [Tasks -> TaskType]
  BY DEF AccountInv, Types
<1>3. /\ task'[t].at = place /\ task'[t].kind = task[t].kind
      /\ task'[t].amount = task[t].amount
      /\ \A u \in Tasks \ {t} : task'[u] = task[u]
  BY <1>1, <1>2 DEF TaskType
<1>4. \A u \in Tasks : task[u].kind \in Kinds /\ task[u].amount \in Nat
  BY <1>2, TaskFacts
<1>5. QueueExact' /\ TokensExact'
  BY <1>1, <1>3, TokensKept
<1> QED BY <1>1, <1>2, <1>3, <1>4, <1>5

\* taskLimiter.acquire counts the task in.
LEMMA ActivateStep ==
  ASSUME AccountInv, NEW t \in Tasks, Activate(t)
  PROVE  AccountInv'
<1>0. PICK k \in Kinds : k = task[t].kind
  BY Moved, TaskFacts DEF AccountInv, Types
<1>1. /\ task' = [task EXCEPT ![t].at = "active"] /\ task[t].at = "token"
      /\ UNCHANGED <<limit, used, waiters, epoch, queue, calls>>
      /\ active' = [active EXCEPT ![k] = @ + 1]
  BY <1>0 DEF Activate, budgetVars
<1>2. /\ task' \in [Tasks -> TaskType] /\ QueueExact' /\ TokensExact'
      /\ task'[t].at = "active" /\ task'[t].kind = k
      /\ \A u \in Tasks \ {t} : task'[u] = task[u]
      /\ \A u \in Tasks : task'[u].amount = task[u].amount /\ task[u].amount \in Nat
  <2>1. "active" \in Places \ {"idle", "queued"} /\ task[t].at \notin {"idle", "queued"}
    BY <1>1 DEF Places
  <2> QED BY <1>0, <1>1, <2>1, MoveStep
<1>3. Types'
  BY <1>1, <1>2 DEF AccountInv, Types
<1>4. /\ Running' = Running /\ Waiting' = Waiting
      /\ Counted(k)' = Counted(k) \cup {t} /\ t \notin Counted(k)
      /\ \A j \in Kinds \ {k} : Counted(j)' = Counted(j)
  BY <1>0, <1>1, <1>2 DEF Running, Waiting, Counted
<1>5. Held(task', Running) = Held(task, Running)
  BY <1>2, HeldSame DEF Running
<1>6. Cardinality(Counted(k)') = Cardinality(Counted(k)) + 1
  BY <1>4, TaskSets DEF Counted
<1>7. active' = [j \in Kinds |-> Cardinality(Counted(j)')]
  BY <1>1, <1>4, <1>6 DEF AccountInv, Counts
<1>8. Counts'
  BY <1>1, <1>4, <1>5, <1>7 DEF AccountInv, Counts
<1> QED BY <1>2, <1>3, <1>8 DEF AccountInv

\* releaseTask counts it out.
LEMMA DeactivateStep ==
  ASSUME AccountInv, NEW t \in Tasks, Deactivate(t)
  PROVE  AccountInv'
<1>0. PICK k \in Kinds : k = task[t].kind
  BY Moved, TaskFacts DEF AccountInv, Types
<1>1. /\ task' = [task EXCEPT ![t].at = "left"] /\ task[t].at = "leaving"
      /\ UNCHANGED <<limit, used, waiters, epoch, queue, calls>>
      /\ active' = [active EXCEPT ![k] = @ - 1]
  BY <1>0 DEF Deactivate, budgetVars
<1>2. /\ task' \in [Tasks -> TaskType] /\ QueueExact' /\ TokensExact'
      /\ task'[t].at = "left" /\ task'[t].kind = k
      /\ \A u \in Tasks \ {t} : task'[u] = task[u]
      /\ \A u \in Tasks : task'[u].amount = task[u].amount /\ task[u].amount \in Nat
  <2>1. "left" \in Places \ {"idle", "queued"} /\ task[t].at \notin {"idle", "queued"}
    BY <1>1 DEF Places
  <2> QED BY <1>0, <1>1, <2>1, MoveStep
<1>3. Types'
  BY <1>1, <1>2 DEF AccountInv, Types
<1>4. /\ Running' = Running /\ Waiting' = Waiting
      /\ Counted(k)' = Counted(k) \ {t} /\ t \in Counted(k)
      /\ \A j \in Kinds \ {k} : Counted(j)' = Counted(j)
  BY <1>0, <1>1, <1>2 DEF Running, Waiting, Counted
<1>5. Held(task', Running) = Held(task, Running)
  BY <1>2, HeldSame DEF Running
<1>6. Cardinality(Counted(k)') = Cardinality(Counted(k)) - 1
  BY <1>4, TaskSets DEF Counted
<1>7. active' = [j \in Kinds |-> Cardinality(Counted(j)')]
  BY <1>1, <1>4, <1>6 DEF AccountInv, Counts
<1>8. Counts'
  BY <1>1, <1>4, <1>5, <1>7 DEF AccountInv, Counts
<1> QED BY <1>2, <1>3, <1>8 DEF AccountInv

\* The accounts of the budget after a step of a task t that stays counted:
\* who waits and who runs is counted in or out with it.
LEMMA BudgetStep ==
  ASSUME AccountInv, NEW t \in Tasks,
         NEW place \in {"waiting", "running", "leaving"},
         task[t].at \in {"active", "waiting", "running"},
         \/ task' = [task EXCEPT ![t].at = place]
         \/ task' = [task EXCEPT ![t].at = place, ![t].seen = epoch],
         UNCHANGED <<limit, active, queue, calls>>, epoch' \in Nat,
         waiters' = waiters - (IF task[t].at = "waiting" THEN 1 ELSE 0)
                            + (IF place = "waiting" THEN 1 ELSE 0),
         used' = used - (IF task[t].at = "running" THEN task[t].amount ELSE 0)
                      + (IF place = "running" THEN task[t].amount ELSE 0)
  PROVE  AccountInv'
<1> DEFINE m == task[t].amount
<1>1. /\ task' \in [Tasks -> TaskType] /\ QueueExact' /\ TokensExact'
      /\ task'[t].at = place /\ task'[t].kind = task[t].kind
      /\ m \in Nat /\ \A u \in Tasks \ {t} : task'[u] = task[u]
      /\ \A u \in Tasks : task'[u].amount = task[u].amount /\ task[u].amount \in Nat
  BY MoveStep DEF Places
<1>2. \A k \in Kinds : Counted(k)' = Counted(k)
  BY <1>1 DEF Counted
<1> DEFINE R == Running \ {t}
           W == Waiting \ {t}
<1>3. /\ Running = IF task[t].at = "running" THEN R \cup {t} ELSE R
      /\ Running' = IF place = "running" THEN R \cup {t} ELSE R
      /\ Waiting = IF task[t].at = "waiting" THEN W \cup {t} ELSE W
      /\ Waiting' = IF place = "waiting" THEN W \cup {t} ELSE W
      /\ R \in SUBSET Tasks /\ W \in SUBSET Tasks /\ t \notin R /\ t \notin W
  BY <1>1 DEF Running, Waiting
<1>4. PICK w : w = Cardinality(W) /\ w \in Nat /\ Cardinality(W \cup {t}) = w + 1
  BY <1>3, TaskSets
<1>5. waiters = (IF task[t].at = "waiting" THEN w + 1 ELSE w)
  BY <1>3, <1>4 DEF AccountInv, Counts
<1>6. waiters' = (IF place = "waiting" THEN w + 1 ELSE w)
  BY <1>4, <1>5
<1>7. waiters' = Cardinality(Waiting')
  BY <1>3, <1>4, <1>6
<1>8. PICK h : h = Held(task, R) /\ h \in Nat /\ Held(task, R \cup {t}) = m + h
  <2> HIDE DEF R
  <2>1. t \in Tasks \ R /\ \A u \in R \cup {t} : task[u].amount \in Nat
    BY <1>1, <1>3
  <2> QED BY <1>3, <2>1, HeldMore
<1>9. Held(task', R) = h /\ Held(task', R \cup {t}) = m + h
  BY <1>1, <1>3, <1>8, HeldSame
<1>10. used = (IF task[t].at = "running" THEN m + h ELSE h)
  BY <1>3, <1>8 DEF AccountInv, Counts
<1>11. used' = (IF place = "running" THEN m + h ELSE h)
  BY <1>1, <1>8, <1>10
<1>12. used' = Held(task', Running') /\ used' \in Nat
  BY <1>1, <1>3, <1>8, <1>9, <1>11
<1>13. Types'
  BY <1>1, <1>12 DEF AccountInv, Types
<1>14. Counts'
  BY <1>2, <1>7, <1>12 DEF AccountInv, Counts
<1> QED BY <1>1, <1>13, <1>14 DEF AccountInv

\* memoryBudget.acquire refuses, waits or takes, on entry and after a wake-up.
LEMMA TryMemoryAccounts ==
  ASSUME AccountInv, NEW t \in Tasks, task[t].at \in {"active", "waiting"}, TryMemory(t),
         UNCHANGED <<limit, epoch, active, queue, calls>>
  PROVE  AccountInv'
<1> DEFINE woken == IF task[t].at = "waiting" THEN 1 ELSE 0
<1>0. /\ used \in Nat /\ epoch' \in Nat /\ task[t].amount \in Nat /\ waiters \in Nat
      /\ task[t].at # "running"
  <2>1. task[t] \in TaskType
    BY DEF AccountInv, Types
  <2>2. waiters \in Nat
    BY TaskSets DEF AccountInv, Counts, Waiting
  <2> QED BY <2>1, <2>2, TaskFacts DEF AccountInv, Types
<1>1. CASE /\ task' = [task EXCEPT ![t].at = "leaving"]
           /\ waiters' = waiters - woken /\ used' = used
  <2>1. waiters' = waiters - woken + 0 /\ used' = used - 0 + 0
    BY <1>0, <1>1
  <2> QED BY <1>0, <1>1, <2>1, BudgetStep
<1>2. CASE /\ task' = [task EXCEPT ![t].at = "waiting", ![t].seen = epoch]
           /\ waiters' = waiters - woken + 1 /\ used' = used
  <2>1. used' = used - 0 + 0
    BY <1>0, <1>2
  <2> QED BY <1>0, <1>2, <2>1, BudgetStep
<1>3. CASE /\ task' = [task EXCEPT ![t].at = "running"]
           /\ waiters' = waiters - woken /\ used' = used + task[t].amount
  <2>1. waiters' = waiters - woken + 0 /\ used' = used - 0 + task[t].amount
    BY <1>0, <1>3
  <2> QED BY <1>0, <1>3, <2>1, BudgetStep
<1> QED BY <1>1, <1>2, <1>3 DEF TryMemory

\* memoryBudget.acquire gives up while it waits.
LEMMA CancelWaitingStep ==
  ASSUME AccountInv, NEW t \in Tasks, CancelWaiting(t)
  PROVE  AccountInv'
<1>1. /\ task' = [task EXCEPT ![t].at = "leaving"] /\ task[t].at = "waiting"
      /\ waiters' = waiters - 1 /\ UNCHANGED <<limit, used, epoch, active, queue, calls>>
  BY DEF CancelWaiting
<1>2. waiters' = waiters - 1 + 0 /\ used' = used - 0 + 0 /\ epoch' \in Nat
  <2>1. waiters \in Nat /\ used \in Nat /\ epoch \in Nat
    BY TaskSets DEF AccountInv, Types, Counts, Waiting
  <2> QED BY <1>1, <2>1
<1> QED BY <1>1, <1>2, BudgetStep

\* memoryBudget.release.
LEMMA ReleaseMemoryStep ==
  ASSUME AccountInv, NEW t \in Tasks, ReleaseMemory(t)
  PROVE  AccountInv'
<1>1. /\ task' = [task EXCEPT ![t].at = "leaving"] /\ task[t].at = "running"
      /\ used' = used - task[t].amount /\ epoch' = epoch + 1
      /\ UNCHANGED <<limit, waiters, active, queue, calls>>
  BY DEF ReleaseMemory
<1>2. waiters' = waiters - 0 + 0 /\ used' = used - task[t].amount + 0 /\ epoch' \in Nat
  <2>1. waiters \in Nat /\ used \in Nat /\ epoch \in Nat /\ task[t] \in TaskType
    BY TaskSets DEF AccountInv, Types, Counts, Waiting
  <2>2. task[t].amount \in Nat
    BY <2>1, TaskFacts
  <2> QED BY <1>1, <2>1, <2>2
<1> QED BY <1>1, <1>2, BudgetStep

\* memoryBudget.acquire finds the context done.
LEMMA CancelActiveStep ==
  ASSUME AccountInv, NEW t \in Tasks, CancelActive(t)
  PROVE  AccountInv'
<1>1. /\ task' = [task EXCEPT ![t].at = "leaving"] /\ task[t].at = "active"
      /\ UNCHANGED <<limit, used, waiters, epoch, active, queue, calls>>
  BY DEF CancelActive, budgetVars
<1>2. waiters' = waiters - 0 + 0 /\ used' = used - 0 + 0 /\ epoch' \in Nat
  <2>1. waiters \in Nat /\ used \in Nat /\ epoch \in Nat
    BY TaskSets DEF AccountInv, Types, Counts, Waiting
  <2> QED BY <1>1, <2>1
<1> QED BY <1>1, <1>2, BudgetStep

\* Every step keeps the accounts.
LEMMA NextAccounts == AccountInv /\ [Next]_vars => AccountInv'
<1> SUFFICES ASSUME AccountInv, [Next]_vars PROVE AccountInv'
  OBVIOUS
<1>1. ASSUME NEW t \in Tasks, NEW k \in Kinds, NEW amount \in Amounts, Begin(t, k, amount)
      PROVE  AccountInv'
  BY <1>1, BeginFreeStep, BeginQueuedStep
<1>2. ASSUME NEW t \in Tasks, CancelQueued(t) PROVE AccountInv'
  BY <1>2, CancelQueuedStep
<1>3. ASSUME NEW t \in Tasks, CancelActive(t) PROVE AccountInv'
  BY <1>3, CancelActiveStep
<1>4. ASSUME NEW t \in Tasks, CancelWaiting(t) PROVE AccountInv'
  BY <1>4, CancelWaitingStep
<1>5. ASSUME NEW t \in Tasks, Activate(t) PROVE AccountInv'
  BY <1>5, ActivateStep
<1>6. ASSUME NEW t \in Tasks, AcquireMemory(t) PROVE AccountInv'
  BY <1>6, TryMemoryAccounts DEF AcquireMemory
<1>7. ASSUME NEW t \in Tasks, WakeUp(t) PROVE AccountInv'
  BY <1>7, TryMemoryAccounts DEF WakeUp
<1>8. ASSUME NEW t \in Tasks, ReleaseMemory(t) PROVE AccountInv'
  BY <1>8, ReleaseMemoryStep
<1>9. ASSUME NEW t \in Tasks, Deactivate(t) PROVE AccountInv'
  BY <1>9, DeactivateStep
<1>10. ASSUME NEW t \in Tasks, ReleaseToken(t) PROVE AccountInv'
  BY <1>10, ReleaseTokenStep
<1>11. ASSUME UNCHANGED vars PROVE AccountInv'
  <2>1. UNCHANGED <<limit, used, waiters, epoch, active, queue, task, calls>>
    BY <1>11 DEF vars, budgetVars
  <2>2. Types' /\ QueueExact'
    BY <2>1 DEF AccountInv, Types, QueueExact
  <2>3. Counts'
    BY <2>1, CountsKept DEF AccountInv, Types
  <2>4. TokensExact'
    BY <2>1 DEF AccountInv, TokensExact, Holders
  <2> QED BY <2>2, <2>3, <2>4 DEF AccountInv
<1> QED
  BY <1>1, <1>2, <1>3, <1>4, <1>5, <1>6, <1>7, <1>8, <1>9, <1>10, <1>11 DEF Next, Proceed

\* A task that is counted has a token.
LEMMA CountedHold ==
  ASSUME AccountInv, NEW k \in Kinds
  PROVE  active[k] \in 0..Cardinality(Tasks) /\ active[k] <= Cardinality(Holders(k))
<1>1. Counted(k) \in SUBSET Holders(k) /\ Holders(k) \in SUBSET Tasks
  BY DEF Counted, Holders
<1>2. IsFiniteSet(Holders(k)) /\ Counted(k) \in SUBSET Tasks
  BY <1>1, AdmissionConstants, FS_Subset
<1>3. Cardinality(Counted(k)) <= Cardinality(Holders(k))
  BY <1>1, <1>2, FS_Subset
<1>4. Cardinality(Counted(k)) \in Nat /\ Cardinality(Counted(k)) <= Cardinality(Tasks)
  <2>1. IsFiniteSet(Counted(k)) /\ Cardinality(Counted(k)) <= Cardinality(Tasks)
    BY <1>2, AdmissionConstants, FS_Subset
  <2> QED BY <2>1, FS_CardinalityType
<1>5. Cardinality(Tasks) \in Nat
  BY AdmissionConstants, FS_CardinalityType
<1> QED BY <1>3, <1>4, <1>5 DEF AccountInv, Counts

\* Through every cancellation, refusal and release the memory in use is the sum
\* of the estimates of the running tasks, waiters are counted once, no limiter
\* gives out more tokens than it has, and nobody is queued while one is free.
THEOREM AccountsHold == Spec => []AccountsExact
<1>1. WakeUpInv /\ AccountInv => AccountsExact
  <2> SUFFICES ASSUME WakeUpInv, AccountInv PROVE AccountsExact
    OBVIOUS
  <2>1. used = MapThenSumSet(LAMBDA t : task[t].amount, Running)
    BY DEF AccountInv, Counts, Held
  <2>2. BudgetExact
    BY <2>1 DEF AccountInv, Counts, WakeUpInv, NoOvercommit, BudgetExact
  <2>3. LimiterExact
    BY CountedHold DEF AccountInv, TokensExact, LimiterExact
  <2> QED BY <2>2, <2>3 DEF AccountsExact
<1> QED BY InitWakeUp, NextWakeUp, InitAccounts, NextAccounts, <1>1, PTL DEF Spec

\* Type correctness; the budget, the waiters and the active tasks stay in range.
THEOREM AdmissionTypeCorrect == Spec => []TypeOK
<1>1. WakeUpInv /\ AccountInv => TypeOK
  <2> SUFFICES ASSUME WakeUpInv, AccountInv PROVE TypeOK
    OBVIOUS
  <2>1. used \in 0..MaxMemory
    BY AdmissionConstants DEF AccountInv, Types, WakeUpInv, NoOvercommit
  <2>2. waiters \in 0..Cardinality(Tasks)
    <3>1. IsFiniteSet(Waiting) /\ Cardinality(Waiting) <= Cardinality(Tasks)
      BY AdmissionConstants, FS_Subset DEF Waiting
    <3>2. Cardinality(Waiting) \in Nat /\ Cardinality(Tasks) \in Nat
      BY <3>1, AdmissionConstants, FS_CardinalityType
    <3> QED BY <3>1, <3>2 DEF AccountInv, Counts
  <2>3. active \in [Kinds -> 0..Cardinality(Tasks)]
    BY CountedHold DEF AccountInv, Counts
  <2>4. task \in [Tasks -> [at : {"idle", "queued", "token", "active", "waiting",
                                  "running", "leaving", "left"},
                            kind : Kinds, amount : Amounts \cup {0}, seen : Nat]]
    BY DEF AccountInv, Types, TaskType, Places
  <2> QED BY <2>1, <2>2, <2>3, <2>4 DEF TypeOK, AccountInv, Types
<1> QED BY InitWakeUp, NextWakeUp, InitAccounts, NextAccounts, <1>1, PTL DEF Spec

=============================================================================
