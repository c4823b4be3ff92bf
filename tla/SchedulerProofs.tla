-------------------------- MODULE SchedulerProofs ---------------------------
(***************************************************************************)
(* The quota scheduler for any accounts, tasks and instances: what it      *)
(* selects has recovered, an automatic switch has a reason, the sidecar    *)
(* catches up with the process, and a reservation is exclusive.            *)
(***************************************************************************)
EXTENDS Scheduler, WellFoundedInduction, TLAPS

\* The selection of r is not in exhaustion.
Recovered(r) == \A a \in Account : r.selected = a => r.exhausted[a] = "no"

\* What a restart may load has recovered too: the file, and what will be written.
RecoveredInv ==
    /\ Recovered(runtime) /\ Recovered(file.state)
    /\ \A w \in writes : Recovered(w.state)

\* The selection and the holds of r are those of the process.
Current(r) == r.selected = runtime.selected /\ r.exhausted = runtime.exhausted

\* The newest generation is on its way, in the file, or its write failed; where it
\* is, it agrees with the process.
NewestInv ==
    /\ \A w \in writes : w.gen = gen => Current(w.state)
    /\ (published = gen /\ (gen > 0 \/ file.parses)) => Current(file.state)
    /\ published < gen => (lost = gen \/ \E w \in writes : w.gen = gen)

\* Reservations are of active accounts, and the active accounts lag behind the pool
\* only while a rescan is under way.
ReservedInv ==
    /\ \A i \in Instance : reservations[i] # NoAccount =>
          /\ reservations[i] \in active
          /\ \A j \in Instance \ {i} : reservations[j] # reservations[i]
    /\ \A t \in Task : task[t].kind = "rescan" =>
          task[t].at \in {"reconcile", "locking", "retain"}
    /\ (\A t \in Task : task[t].kind # "rescan") => active = pool

IInv == TypeOK /\ RecoveredInv /\ NewestInv /\ ReservedInv

\* Within one process no account has more failures counted than it had in a row.
ParkedInv == TypeOK /\ \A a \in Account : runtime.failures[a] <= streak[a]

-----------------------------------------------------------------------------
\* What the selection picks

\* A set of numbers that is not empty has a least one.
LEMMA LeastNatural ==
    ASSUME NEW T, T \subseteq Nat, T # {}
    PROVE  \E x \in T : \A y \in T : x <= y
<1>1. PICK x \in T : \A y \in T : ~ (<<y, x>> \in OpToRel(<, Nat))
  BY WFMin, NatLessThanWellFounded, Zenon
<1>2. \A y \in T : ~(y < x)
  BY <1>1, Zenon DEF OpToRel
<1> QED
  BY <1>2

\* Both orders of select_candidate, by a number and then by the key, have a first
\* account in every set that is not empty.
LEMMA FirstRanked ==
    ASSUME NEW T, T \subseteq Nat, T # {}, NEW f, \A a \in T : f[a] \in Nat
    PROVE  \E a \in T : \A b \in T : f[a] < f[b] \/ (f[a] = f[b] /\ a <= b)
<1> DEFINE V == {f[a] : a \in T}
<1>1. PICK m \in V : \A y \in V : m <= y
  <2>1. V \subseteq Nat /\ V # {}
    BY Zenon
  <2> QED
    BY <2>1, LeastNatural, Zenon
<1> DEFINE U == {a \in T : f[a] = m}
<1>2. PICK n \in U : \A y \in U : n <= y
  <2>1. U \subseteq Nat /\ U # {}
    BY <1>1, Zenon
  <2> QED
    BY <2>1, LeastNatural, Zenon
<1>3. ASSUME NEW b \in T
      PROVE  f[n] < f[b] \/ (f[n] = f[b] /\ n <= b)
  <2>1. f[b] \in V /\ m <= f[b] /\ m \in Nat /\ f[b] \in Nat /\ f[n] = m
    BY <1>1, Zenon
  <2>2. f[b] = m => n <= b
    BY <1>2, Zenon
  <2> QED
    BY <2>1, <2>2
<1> QED
  BY <1>3, Zenon

\* select_candidate returns one of the accounts it is offered, or none.
LEMMA SelectsEligible ==
    ASSUME TypeOK, NEW E, E \subseteq Account, NEW p, \A a \in Account : p[a] \in Nat
    PROVE  SelectCandidate(E, p) \in E \union {NoAccount}
<1> DEFINE manual == {a \in E : p[a] # Never}
           ranked == IF manual = {} THEN E ELSE manual
           first(a) == \A b \in ranked : RanksFirst(a, b)
           least(a) == \A b \in ranked : p[a] < p[b] \/ (p[a] = p[b] /\ a <= b)
<1>1. ranked \subseteq E /\ ranked \subseteq Nat
  BY AccountAssumption, Zenon
<1>2. CASE ranked = {}
  BY <1>2, Zenon DEF SelectCandidate
<1>3. CASE ranked # {}
  <2>1. \E a \in ranked : first(a)
    <3> DEFINE due == [x \in Account |->
                         IF quota[x].reset > 0 THEN quota[x].reset ELSE Never]
    <3>1. \A a \in ranked : due[a] \in Nat
      BY <1>1, QuotaAssumption, Zenon DEF TypeOK
    <3>2. \E a \in ranked : \A b \in ranked : due[a] < due[b] \/ (due[a] = due[b] /\ a <= b)
      <4> HIDE DEF due, ranked
      <4> QED
        BY <1>1, <1>3, <3>1, FirstRanked, Zenon
    <3> QED
      BY <1>1, <3>2, Zenon DEF RanksFirst
  <2>2. \E a \in ranked : least(a)
    <3>1. \A a \in ranked : p[a] \in Nat
      BY <1>1, Zenon
    <3> HIDE DEF ranked
    <3> QED
      BY <1>1, <1>3, <3>1, FirstRanked, Zenon
  <2>3. (CHOOSE a \in ranked : first(a)) \in ranked
    <3> HIDE DEF ranked, first
    <3> QED
      BY <2>1, Zenon
  <2>4. (CHOOSE a \in ranked : least(a)) \in ranked
    <3> HIDE DEF ranked, least
    <3> QED
      BY <2>2, Zenon
  <2> QED
    BY <1>1, <1>3, <2>3, <2>4, Zenon DEF SelectCandidate
<1> QED
  BY <1>2, <1>3, Zenon

\* The priorities reconcile ranks by are numbers.
LEMMA PrioritiesAreNumbers ==
    ASSUME NEW s \in Settings, NEW x
    PROVE  \A a \in Account : Priority(s, x)[a] \in Nat
<1>1. s.priorities \in Orders \union {NoOrder}
  BY Zenon DEF Settings
<1>2. s.priorities \in [Account -> Nat] /\ NoOrder \in [Account -> Nat]
  BY <1>1, OrderAssumption, QuotaAssumption DEF NoOrder
<1> QED
  BY <1>2, Zenon DEF Priority

\* reconcile makes a state of a state, and what it selects is not exhausted: an
\* account over its hold with enough quota left has just been freed.
LEMMA ReconciledIsSound ==
    ASSUME TypeOK, NEW r \in States, NEW s \in Settings, NEW list \in SUBSET Account
    PROVE  Reconciled(r, s, list) \in States /\ Recovered(Reconciled(r, s, list))
<1> DEFINE kept(f, none) == [a \in Account |-> IF a \in list THEN f[a] ELSE none]
           exhausted == kept([a \in Account |-> Exhaustion(a, r.exhausted[a])], "no")
           failures == kept(r.failures, 0)
           incumbent == IF r.selected \in list THEN r.selected ELSE NoAccount
           eligible == {a \in list \intersect healthy : /\ failures[a] < 3
                                                        /\ exhausted[a] # "held"
                                                        /\ Usable(a, exhausted[a])}
           selected == SelectCandidate(eligible, Priority(s, incumbent))
<1>0. /\ r.exhausted \in [Account -> {"no", "held", "over"}]
      /\ r.failures \in [Account -> 0 .. 3]
  BY Zenon DEF States
<1>1. exhausted \in [Account -> {"no", "held", "over"}]
  BY <1>0, Zenon DEF Exhaustion
<1>2. failures \in [Account -> 0 .. 3]
  BY <1>0
<1>3. \A a \in eligible : exhausted[a] = "no"
  BY <1>0, Zenon DEF Exhaustion, Usable
<1>4. selected \in eligible \union {NoAccount}
  <2>1. eligible \subseteq Account
    BY Zenon
  <2>2. \A a \in Account : Priority(s, incumbent)[a] \in Nat
    BY PrioritiesAreNumbers, Zenon
  <2> HIDE DEF eligible, incumbent
  <2> QED
    BY <2>1, <2>2, SelectsEligible, Zenon
<1>5. Reconciled(r, s, list)
        = [selected |-> selected, exhausted |-> exhausted, failures |-> failures]
  BY Zenon DEF Reconciled
<1>6. eligible \subseteq Account
  OBVIOUS
<1> HIDE DEF selected, exhausted, failures, eligible
<1> QED
  BY <1>1, <1>2, <1>3, <1>4, <1>5, <1>6, AccountAssumption DEF States, Recovered

\* A step under the runtime lock, or the one of a restart, leaves a sound state.
LEMMA ReconcileKeeps ==
    ASSUME TypeOK, NEW r \in States, NEW s \in Settings, NEW list \in SUBSET Account,
           NEW g \in 0 .. MaxGen, NEW queue \in SUBSET [gen : 1 .. g, state : States],
           Reconcile(r, s, list, queue, g)
    PROVE  /\ runtime' \in States /\ allowed' \in Account \union {NoAccount}
           /\ gen' \in g .. MaxGen
           /\ writes' \subseteq [gen : 1 .. gen', state : States]
           /\ runtime' = r \/ Recovered(runtime')
           /\ \/ runtime' = r /\ gen' = g /\ writes' = queue
              \/ /\ gen' = g + 1
                 /\ writes' = queue \union {[gen |-> g + 1, state |-> runtime']}
<1>1. Reconciled(r, s, list) \in States /\ Recovered(Reconciled(r, s, list))
  BY ReconciledIsSound, Zenon
<1>2. CASE ~s.enabled
  BY <1>2, BoundAssumption DEF Reconcile
<1>3. CASE s.enabled
  <2>1. runtime' = Reconciled(r, s, list) /\ allowed' = runtime'.selected
    BY <1>3, Zenon DEF Reconcile
  <2>2. runtime' \in States /\ Recovered(runtime') /\ allowed' \in Account \union {NoAccount}
    BY <1>1, <2>1, Zenon DEF States
  <2>3. CASE runtime' = r
    BY <1>3, <2>2, <2>3, BoundAssumption DEF Reconcile
  <2>4. CASE runtime' # r
    <3>1. /\ g < MaxGen /\ gen' = g + 1
          /\ writes' = queue \union {[gen |-> g + 1, state |-> runtime']}
      BY <1>3, <2>4, Zenon DEF Reconcile
    <3>2. [gen |-> g + 1, state |-> runtime'] \in [gen : 1 .. gen', state : States]
      BY <2>2, <3>1, BoundAssumption
    <3>3. \A w \in queue : w \in [gen : 1 .. gen', state : States]
      BY <3>1, BoundAssumption
    <3> QED
      BY <2>2, <3>1, <3>2, <3>3, BoundAssumption
  <2> QED
    BY <2>3, <2>4, Zenon
<1> QED
  BY <1>2, <1>3, Zenon

-----------------------------------------------------------------------------
\* Types

\* The counts of failures saturate.
LEMMA CountsSaturate ==
    ASSUME NEW n \in 0 .. 3
    PROVE  Min({n + 1, 3}) \in 0 .. 3 /\ (Min({n + 1, 3}) = IF n = 3 THEN 3 ELSE n + 1)
<1> DEFINE S == {n + 1, 3}
           m == IF n = 3 THEN 3 ELSE n + 1
<1>1. m \in S /\ \A y \in S : m <= y
  OBVIOUS
<1>2. \A x \in S : (\A y \in S : x <= y) => x = m
  BY <1>1
<1>3. Min(S) = m
  BY <1>1, <1>2, Zenon DEF Min
<1> QED
  BY <1>3

\* The latest of two generations.
LEMMA LatestOfTwo ==
    ASSUME NEW m \in Nat, NEW n \in Nat
    PROVE  Max({m, n}) = IF m >= n THEN m ELSE n
<1> DEFINE S == {m, n}
           k == IF m >= n THEN m ELSE n
<1>1. k \in S /\ \A y \in S : k >= y
  OBVIOUS
<1>2. \A x \in S : (\A y \in S : x >= y) => x = k
  BY <1>1
<1> QED
  BY <1>1, <1>2, Zenon DEF Max

\* What the type of a task says of its list and of the settings it has read.
LEMMA Tasks ==
    ASSUME TypeOK, NEW t \in Task
    PROVE  /\ Idle \in TaskStates /\ task[t] \in TaskStates
           /\ pool \subseteq Account /\ task[t].list \subseteq Account
           /\ task[t].seen \in Settings
<1>1. Off \in Settings
  BY Zenon DEF Off, Settings
<1>2. Idle \in TaskStates
  BY <1>1, Zenon DEF Idle, TaskStates
<1>3. task[t] \in TaskStates
  BY Zenon DEF TypeOK
<1> QED
  BY <1>2, <1>3, PoolAssumption, Zenon DEF TypeOK, TaskStates

\* A task that moves on, with a list, a kind or an account it may have, stays one.
LEMMA TaskMoves ==
    ASSUME TypeOK, NEW t \in Task, NEW o \in TaskStates, task' = [task EXCEPT ![t] = o]
    PROVE  task' \in [Task -> TaskStates]
BY Zenon DEF TypeOK

\* A scheduler with no sidecar and no settings is well formed.
LEMMA InitTypes == Init => TypeOK
<1> SUFFICES ASSUME Init PROVE TypeOK
  BY Zenon
<1>1. Off \in Settings
  BY Zenon DEF Off, Settings
<1>2. Idle \in TaskStates
  BY <1>1, Zenon DEF Idle, TaskStates
<1>3. Fresh \in States
  BY DEF Fresh, States
<1>4. file \in [gen : {published}, state : States, parses : BOOLEAN]
  BY <1>3, Zenon DEF Init
<1>5. gen \in 0 .. MaxGen /\ published \in 0 .. gen /\ lost \in 0 .. gen /\ runs \in 0 .. MaxRuns
  BY BoundAssumption DEF Init
<1>6. task \in [Task -> TaskStates] /\ reservations \in [Instance -> Account \union {NoAccount}]
  BY <1>2, Zenon DEF Init
<1>7. writes = {} /\ streak \in [Account -> 0 .. 3]
  BY DEF Init
<1>8. /\ settings \in Settings /\ parse_failed \in BOOLEAN
      /\ pool \in Pools /\ active \in Pools /\ healthy \subseteq Account
      /\ quota \in [Account -> Quota]
      /\ runtime \in States /\ allowed \in Account \union {NoAccount}
  BY <1>1, <1>3, Zenon DEF Init
<1> QED
  BY <1>4, <1>5, <1>6, <1>7, <1>8, Zenon DEF TypeOK

\* Every task, write, restart and change of the world keeps the types.
LEMMA StepTypes == TypeOK /\ [Next]_vars => TypeOK'
<1> SUFFICES ASSUME TypeOK, [Next]_vars PROVE TypeOK'
  BY Zenon
<1> USE DEF Config, Facts, State, Disk, Table
<1>1. ASSUME NEW t \in Task, ReadSettings(t) PROVE TypeOK'
  <2>1. [settings EXCEPT !.enabled = @ /\ ~parse_failed] \in Settings
    BY Zenon DEF TypeOK, Settings
  <2>2. task[t] \in TaskStates
    BY Tasks, Zenon
  <2>3. [task[t] EXCEPT !.at = "locking",
                        !.seen = [settings EXCEPT !.enabled = @ /\ ~parse_failed]] \in TaskStates
    BY <2>1, <2>2, Zenon DEF TaskStates
  <2>4. task' \in [Task -> TaskStates]
    BY <1>1, <2>3, TaskMoves, Zenon DEF ReadSettings
  <2> QED
    BY <1>1, <2>4, Zenon DEF ReadSettings, TypeOK
<1>2. ASSUME NEW t \in Task, Locked(t) PROVE TypeOK'
  <2>1. /\ Idle \in TaskStates /\ task[t].list \in SUBSET Account /\ task[t].seen \in Settings
    BY Tasks, Zenon
  <2>2. [Idle EXCEPT !.at = "retain", !.kind = "rescan"] \in TaskStates
    BY <2>1, Zenon DEF TaskStates
  <2>3. task' \in [Task -> TaskStates]
    BY <1>2, <2>1, <2>2, Zenon DEF Locked, TypeOK
  <2>4. /\ runtime' \in States /\ allowed' \in Account \union {NoAccount}
        /\ gen' \in gen .. MaxGen /\ writes' \subseteq [gen : 1 .. gen', state : States]
    <3>1. /\ runtime \in States /\ gen \in 0 .. MaxGen
          /\ writes \in SUBSET [gen : 1 .. gen, state : States]
      BY Zenon DEF TypeOK
    <3> QED
      BY <1>2, <2>1, <3>1, ReconcileKeeps, Zenon DEF Locked
  <2> QED
    BY <1>2, <2>3, <2>4, BoundAssumption DEF Locked, TypeOK
<1>3. ASSUME NEW t \in Task, RetainAccounts(t) PROVE TypeOK'
  <2>1. Idle \in TaskStates /\ pool \subseteq Account
    BY Tasks, Zenon
  <2>2. task' \in [Task -> TaskStates]
    BY <1>3, <2>1, TaskMoves, Zenon DEF RetainAccounts
  <2> QED
    BY <1>3, <2>1, <2>2, Zenon DEF RetainAccounts, TypeOK
<1>4. ASSUME NEW t \in Task, RecordNonAuthFailure(t) PROVE TypeOK'
  <2>1. task[t] \in TaskStates /\ [task[t] EXCEPT !.at = "reconcile"] \in TaskStates
    BY Tasks, Zenon DEF TaskStates
  <2>2. task' \in [Task -> TaskStates]
    BY <1>4, <2>1, TaskMoves, Zenon DEF RecordNonAuthFailure
  <2>3. runtime' \in States /\ streak' \in [Account -> 0 .. 3]
    <3>1. runtime.failures \in [Account -> 0 .. 3] /\ streak \in [Account -> 0 .. 3]
      BY Zenon DEF TypeOK, States
    <3>2. [runtime.failures EXCEPT ![task[t].account] = Min({@ + 1, 3})] \in [Account -> 0 .. 3]
      BY <3>1, CountsSaturate, Zenon
    <3>3. [streak EXCEPT ![task[t].account] = Min({@ + 1, 3})] \in [Account -> 0 .. 3]
      BY <3>1, CountsSaturate, Zenon
    <3> QED
      BY <1>4, <3>2, <3>3, Zenon DEF RecordNonAuthFailure, TypeOK, States
  <2> QED
    BY <1>4, <2>2, <2>3, Zenon DEF RecordNonAuthFailure, TypeOK
<1>5. ASSUME NEW t \in Task, RecordSuccess(t) PROVE TypeOK'
  <2>1. /\ task[t] \in TaskStates /\ [task[t] EXCEPT !.at = "reconcile"] \in TaskStates
        /\ Idle \in TaskStates
    BY Tasks, Zenon DEF TaskStates
  <2>2. task' \in [Task -> TaskStates]
    BY <1>5, <2>1, Zenon DEF RecordSuccess, TypeOK
  <2>3. runtime' \in States /\ streak' \in [Account -> 0 .. 3]
    <3>1. runtime.failures \in [Account -> 0 .. 3] /\ streak \in [Account -> 0 .. 3]
      BY DEF TypeOK, States
    <3>2. ASSUME NEW f \in [Account -> 0 .. 3], NEW a
          PROVE  [f EXCEPT ![a] = 0] \in [Account -> 0 .. 3]
      <4>1. 0 \in 0 .. 3
        OBVIOUS
      <4> QED
        BY <4>1, Zenon
    <3> QED
      BY <1>5, <3>1, <3>2, Zenon DEF RecordSuccess, TypeOK, States
  <2> QED
    BY <1>5, <2>2, <2>3, Zenon DEF RecordSuccess, TypeOK
<1>6. ASSUME NEW t \in Task, Reply(t) PROVE TypeOK'
  <2>1. CASE Benched(t)
    <3>1. Idle \in TaskStates
      BY Tasks, Zenon
    <3>2. task' \in [Task -> TaskStates]
      BY <2>1, <3>1, TaskMoves, Zenon DEF Benched
    <3> QED
      BY <2>1, <3>2, Zenon DEF Benched, TypeOK
  <2>2. ASSUME NEW kind \in Outcomes \ {"benched"}, Ends(t, kind) PROVE TypeOK'
    <3>1. /\ task[t] \in TaskStates /\ pool \in SUBSET Account
          /\ kind \in {"success", "failure"}
      BY Tasks, OutcomeAssumption, Zenon
    <3>2. [task[t] EXCEPT !.at = "record", !.kind = kind, !.list = pool] \in TaskStates
      BY <3>1, Zenon DEF TaskStates
    <3>3. task' \in [Task -> TaskStates]
      BY <2>2, <3>2, TaskMoves, Zenon DEF Ends
    <3> QED
      BY <2>2, <3>3, Zenon DEF Ends, TypeOK
  <2> QED
    BY <1>6, <2>1, <2>2, Zenon DEF Reply
<1>7. ASSUME NEW t \in Task, GetStatus(t) PROVE TypeOK'
  <2>1. task[t] \in TaskStates /\ pool \in SUBSET Account
    BY Tasks, Zenon
  <2>2. [task[t] EXCEPT !.at = "reconcile", !.list = pool] \in TaskStates
    BY <2>1, Zenon DEF TaskStates
  <2>3. task' \in [Task -> TaskStates]
    BY <1>7, <2>2, TaskMoves, Zenon DEF GetStatus
  <2> QED
    BY <1>7, <2>3, Zenon DEF GetStatus, TypeOK
<1>8. ASSUME NEW t \in Task, NEW a \in Account, Request(t, a) PROVE TypeOK'
  <2>1. task[t] \in TaskStates
    BY Tasks, Zenon
  <2>2. [task[t] EXCEPT !.at = "serving", !.account = a] \in TaskStates
    BY <2>1, Zenon DEF TaskStates
  <2>3. task' \in [Task -> TaskStates]
    BY <1>8, <2>2, TaskMoves, Zenon DEF Request
  <2> QED
    BY <1>8, <2>3, Zenon DEF Request, TypeOK
<1>9. ASSUME NEW t \in Task, NEW on \in BOOLEAN, NEW p \in Orders,
             UpdateSettings(t, [enabled |-> on, priorities |-> p])
      PROVE  TypeOK'
  <2>1. task[t] \in TaskStates /\ pool \in SUBSET Account
    BY Tasks, Zenon
  <2>2. [task[t] EXCEPT !.at = "reconcile", !.list = pool] \in TaskStates
    BY <2>1, Zenon DEF TaskStates
  <2>3. task' \in [Task -> TaskStates]
    BY <1>9, <2>2, TaskMoves, Zenon DEF UpdateSettings
  <2>4. settings' \in Settings
    BY <1>9, Zenon DEF UpdateSettings, Settings
  <2> QED
    BY <1>9, <2>3, <2>4, Zenon DEF UpdateSettings, TypeOK
<1>10. ASSUME NEW t \in Task, NEW live \in Pools, RescanPool(t, live) PROVE TypeOK'
  <2>1. task[t] \in TaskStates /\ live \in SUBSET Account
    BY Tasks, PoolAssumption, Zenon
  <2>2. [task[t] EXCEPT !.at = "reconcile", !.list = live, !.kind = "rescan"] \in TaskStates
    BY <2>1, Zenon DEF TaskStates
  <2>3. task' \in [Task -> TaskStates]
    BY <1>10, <2>2, TaskMoves, Zenon DEF RescanPool
  <2> QED
    BY <1>10, <2>3, Zenon DEF RescanPool, TypeOK
<1>11. ASSUME NEW i \in Instance, Release(i) PROVE TypeOK'
  BY <1>11, Zenon DEF Release, TypeOK
<1>12. ASSUME NEW i \in Instance, NEW a \in Account, Reserve(i, a) PROVE TypeOK'
  BY <1>12, Zenon DEF Reserve, TypeOK
<1>13. ASSUME NEW w \in writes, PersistGeneration(w) PROVE TypeOK'
  <2>1. w.gen \in 1 .. gen /\ w.state \in States
    BY Zenon DEF TypeOK
  <2>2. CASE w.gen <= published
    BY <1>13, <2>2, Zenon DEF PersistGeneration, TypeOK
  <2>3. CASE ~(w.gen <= published)
    <3>1. /\ file' = [gen |-> w.gen, state |-> w.state, parses |-> TRUE]
          /\ published' = w.gen
      BY <1>13, <2>3, Zenon DEF PersistGeneration
    <3>2. file' \in [gen : {published'}, state : States, parses : BOOLEAN]
      BY <2>1, <3>1, Zenon
    <3> QED
      BY <1>13, <2>1, <2>3, <3>1, <3>2 DEF PersistGeneration, TypeOK
  <2> QED
    BY <2>2, <2>3, Zenon
<1>14. ASSUME NEW w \in writes, PersistFails(w) PROVE TypeOK'
  <2>1. w.gen \in 1 .. gen /\ lost \in 0 .. gen /\ gen \in Nat
    BY BoundAssumption DEF TypeOK
  <2>2. lost' \in 0 .. gen
    BY <1>14, <2>1, LatestOfTwo DEF PersistFails
  <2> QED
    BY <1>14, <2>2, Zenon DEF PersistFails, TypeOK
<1>15. ASSUME NEW a \in Account, NEW q \in Quota, Observe(a, q) PROVE TypeOK'
  BY <1>15, Zenon DEF Observe, TypeOK
<1>16. ASSUME NEW a \in Account, Recover(a) PROVE TypeOK'
  BY <1>16, Zenon DEF Recover, TypeOK
<1>17. ASSUME NEW a \in Account, HoldElapses(a) PROVE TypeOK'
  <2> DEFINE aged(r) == IF r.exhausted[a] = "held" THEN [r EXCEPT !.exhausted[a] = "over"] ELSE r
  <2>1. ASSUME NEW r \in States PROVE aged(r) \in States
    BY Zenon DEF States
  <2>2. runtime' \in States
    BY <1>17, <2>1, Zenon DEF HoldElapses, TypeOK
  <2>3. file' \in [gen : {published}, state : States, parses : BOOLEAN]
    <3>1. file.state \in States /\ aged(file.state) \in States
      BY <2>1, Zenon DEF TypeOK
    <3>2. file' = [file EXCEPT !.state = aged(@)]
      BY <1>17, Zenon DEF HoldElapses
    <3> HIDE DEF aged
    <3> QED
      BY <3>1, <3>2, Zenon DEF TypeOK
  <2>4. writes' \subseteq [gen : 1 .. gen, state : States]
    <3>1. ASSUME NEW w \in writes
          PROVE  [w EXCEPT !.state = aged(@)] \in [gen : 1 .. gen, state : States]
      <4>1. w \in [gen : 1 .. gen, state : States] /\ aged(w.state) \in States
        BY <2>1, Zenon DEF TypeOK
      <4> HIDE DEF aged
      <4> QED
        BY <4>1, Zenon
    <3>2. writes' = {[w EXCEPT !.state = aged(@)] : w \in writes}
      BY <1>17, Zenon DEF HoldElapses
    <3> HIDE DEF aged
    <3> QED
      BY <3>1, <3>2, Zenon
  <2> QED
    BY <1>17, <2>2, <2>3, <2>4, Zenon DEF HoldElapses, TypeOK
<1>18. CASE Damage
  BY <1>18, Zenon DEF Damage, TypeOK
<1>19. CASE Restart
  <2>1. Idle \in TaskStates
    BY Zenon DEF Idle, TaskStates, Off, Settings
  <2>2. /\ runtime' \in States /\ allowed' \in Account \union {NoAccount}
        /\ gen' \in 0 .. MaxGen /\ writes' \subseteq [gen : 1 .. gen', state : States]
    <3>1. (IF file.parses THEN file.state ELSE Fresh) \in States
      BY DEF TypeOK, Fresh, States
    <3>2. [settings EXCEPT !.enabled = @ /\ file.parses] \in Settings
      BY Zenon DEF TypeOK, Settings
    <3>3. pool \in SUBSET Account
      BY PoolAssumption, Zenon DEF TypeOK
    <3>4. 0 \in 0 .. MaxGen /\ {} \in SUBSET [gen : 1 .. 0, state : States]
      BY BoundAssumption
    <3>5. Reconcile(IF file.parses THEN file.state ELSE Fresh,
                    [settings EXCEPT !.enabled = @ /\ file.parses], pool, {}, 0)
      BY <1>19, Zenon DEF Restart
    <3> QED
      BY <3>1, <3>2, <3>3, <3>4, <3>5, ReconcileKeeps, Zenon
  <2>3. file' \in [gen : {published'}, state : States, parses : BOOLEAN]
    BY <1>19, Zenon DEF Restart, TypeOK
  <2> QED
    BY <1>19, <2>1, <2>2, <2>3, BoundAssumption DEF Restart, TypeOK
<1>20. CASE UNCHANGED vars
  BY <1>20, Zenon DEF vars, TypeOK
<1> QED
  BY <1>1, <1>2, <1>3, <1>4, <1>5, <1>6, <1>7, <1>8, <1>9, <1>10, <1>11, <1>12, <1>13,
     <1>14, <1>15, <1>16, <1>17, <1>18, <1>19, <1>20, Zenon DEF Next, Step

-----------------------------------------------------------------------------
\* The selection and the sidecar

\* The steps that touch the state, its writes or the file.
LEMMA StateSteps ==
    ASSUME [Next]_vars
    PROVE  \/ UNCHANGED <<runtime, writes, gen, Disk>>
           \/ \E t \in Task : Locked(t) \/ RecordNonAuthFailure(t) \/ RecordSuccess(t)
           \/ \E w \in writes : PersistGeneration(w) \/ PersistFails(w)
           \/ \E a \in Account : HoldElapses(a)
           \/ Damage \/ Restart
<1> DEFINE Same == UNCHANGED <<runtime, writes, gen, Disk>>
<1> USE DEF Config, Facts, State, Disk, Table
<1>1. ASSUME NEW t \in Task, ReadSettings(t) \/ RetainAccounts(t) \/ GetStatus(t) PROVE Same
  BY <1>1, Zenon DEF ReadSettings, RetainAccounts, GetStatus
<1>2. ASSUME NEW t \in Task, Reply(t) PROVE Same
  BY <1>2, Zenon DEF Reply, Benched, Ends
<1>3. ASSUME NEW t \in Task, NEW a \in Account, Request(t, a) PROVE Same
  BY <1>3, Zenon DEF Request
<1>4. ASSUME NEW t \in Task, NEW s, UpdateSettings(t, s) PROVE Same
  BY <1>4, Zenon DEF UpdateSettings
<1>5. ASSUME NEW t \in Task, NEW live \in Pools, RescanPool(t, live) PROVE Same
  BY <1>5, Zenon DEF RescanPool
<1>6. ASSUME NEW i \in Instance, Release(i) \/ \E a \in Account : Reserve(i, a) PROVE Same
  BY <1>6, Zenon DEF Release, Reserve
<1>7. ASSUME NEW a \in Account, Recover(a) \/ \E q \in Quota : Observe(a, q) PROVE Same
  BY <1>7, Zenon DEF Recover, Observe
<1>8. CASE UNCHANGED vars
  BY <1>8, Zenon DEF vars
<1> HIDE DEF Same
<1>9. Next => Same \/ (\E t \in Task : Locked(t) \/ RecordNonAuthFailure(t) \/ RecordSuccess(t))
              \/ (\E w \in writes : PersistGeneration(w) \/ PersistFails(w))
              \/ (\E a \in Account : HoldElapses(a)) \/ Damage \/ Restart
  BY <1>1, <1>2, <1>3, <1>4, <1>5, <1>6, <1>7, Zenon DEF Next, Step
<1> QED
  BY <1>8, <1>9, Zenon DEF Same

\* A hold that has elapsed ends in every copy of the state alike.
LEMMA HoldsEndAlike ==
    ASSUME TypeOK, NEW a \in Account, HoldElapses(a), NEW r \in States,
           NEW aged, aged = IF r.exhausted[a] = "held" THEN [r EXCEPT !.exhausted[a] = "over"] ELSE r
    PROVE  /\ Recovered(r) => Recovered(aged)
           /\ Current(r) => (Current(aged))'
<1>1. /\ runtime' = [runtime EXCEPT !.exhausted[a] = "over"]
      /\ runtime \in States /\ runtime.exhausted[a] = "held"
  BY Zenon DEF HoldElapses, TypeOK
<1>2. aged.selected = r.selected
  BY Zenon DEF States
<1>3. aged.exhausted = IF r.exhausted[a] = "held" THEN [r.exhausted EXCEPT ![a] = "over"]
                       ELSE r.exhausted
  BY Zenon DEF States
<1>4. runtime'.selected = runtime.selected
      /\ runtime'.exhausted = [runtime.exhausted EXCEPT ![a] = "over"]
  BY <1>1, Zenon DEF States
<1>5. r.exhausted \in [Account -> {"no", "held", "over"}]
  BY Zenon DEF States
<1>6. Recovered(r) => Recovered(aged)
  BY <1>2, <1>3, <1>5 DEF Recovered
<1>7. Current(r) => (Current(aged))'
  BY <1>1, <1>2, <1>3, <1>4, Zenon DEF Current
<1> QED
  BY <1>6, <1>7, Zenon

\* The selection stays recovered, and the newest generation where it must be.
LEMMA StepState ==
    TypeOK /\ RecoveredInv /\ NewestInv /\ [Next]_vars => RecoveredInv' /\ NewestInv'
<1> SUFFICES ASSUME TypeOK, RecoveredInv, NewestInv, [Next]_vars
             PROVE  RecoveredInv' /\ NewestInv'
  BY Zenon
<1>0. /\ TypeOK'
      /\ gen \in Nat /\ published \in 0 .. gen /\ lost \in 0 .. gen
      /\ \A w \in writes : w.gen \in 1 .. gen /\ w.state \in States
      /\ runtime \in States /\ file.state \in States
  BY StepTypes, BoundAssumption, SMTT(30) DEF TypeOK
<1>1. CASE UNCHANGED <<runtime, writes, gen, Disk>>
  BY <1>1, Zenon DEF Disk, RecoveredInv, NewestInv, Recovered, Current
<1>2. ASSUME NEW t \in Task, Locked(t) PROVE RecoveredInv' /\ NewestInv'
  <2>1. /\ runtime' = runtime \/ Recovered(runtime')
        /\ \/ runtime' = runtime /\ gen' = gen /\ writes' = writes
           \/ /\ gen' = gen + 1
              /\ writes' = writes \union {[gen |-> gen + 1, state |-> runtime']}
    <3>1. /\ runtime \in States /\ gen \in 0 .. MaxGen
          /\ writes \in SUBSET [gen : 1 .. gen, state : States]
          /\ task[t].list \in SUBSET Account /\ task[t].seen \in Settings
      BY Tasks, Zenon DEF TypeOK
    <3> QED
      BY <1>2, <3>1, ReconcileKeeps, Zenon DEF Locked
  <2>2. UNCHANGED <<file, published, lost>>
    BY <1>2, Zenon DEF Locked, Disk
  <2>3. CASE runtime' = runtime /\ gen' = gen /\ writes' = writes
    BY <2>2, <2>3, Zenon DEF RecoveredInv, NewestInv, Recovered, Current
  <2>4. CASE /\ gen' = gen + 1
             /\ writes' = writes \union {[gen |-> gen + 1, state |-> runtime']}
    <3>1. Recovered(runtime')
      BY <2>1, Zenon DEF RecoveredInv, Recovered
    <3>2. RecoveredInv'
      BY <2>2, <2>4, <3>1 DEF RecoveredInv, Recovered
    <3>3. \A w \in writes' : w.gen = gen' => w = [gen |-> gen + 1, state |-> runtime']
      BY <1>0, <2>4
    <3>4. \A w \in writes' : w.gen = gen' => (Current(w.state))'
      BY <3>3 DEF Current
    <3>5. \E w \in writes' : w.gen = gen'
      <4>1. /\ [gen |-> gen + 1, state |-> runtime'] \in writes'
            /\ [gen |-> gen + 1, state |-> runtime'].gen = gen'
        BY <2>4, Zenon
      <4> QED
        BY <4>1, Zenon
    <3>6. published' < gen'
      BY <1>0, <2>2, <2>4
    <3>7. NewestInv'
      BY <1>0, <2>2, <2>4, <3>4, <3>5, <3>6, SMTT(30) DEF NewestInv
    <3> QED
      BY <3>2, <3>7, SMTT(30)
  <2> QED
    BY <2>1, <2>3, <2>4, Zenon
<1>3. ASSUME NEW t \in Task, RecordNonAuthFailure(t) \/ RecordSuccess(t)
      PROVE  RecoveredInv' /\ NewestInv'
  <2>1. /\ runtime'.selected = runtime.selected /\ runtime'.exhausted = runtime.exhausted
        /\ UNCHANGED <<writes, gen, file, published, lost>>
    BY <1>0, <1>3, Zenon DEF RecordNonAuthFailure, RecordSuccess, Disk, States
  <2> QED
    BY <2>1, Zenon DEF RecoveredInv, NewestInv, Recovered, Current
<1>4. ASSUME NEW w \in writes, PersistGeneration(w) PROVE RecoveredInv' /\ NewestInv'
  <2>1. UNCHANGED <<runtime, gen, lost>> /\ writes' = writes \ {w}
    BY <1>4, Zenon DEF PersistGeneration
  <2>2. CASE w.gen <= published
    <3>1. UNCHANGED <<file, published>>
      BY <1>4, <2>2, Zenon DEF PersistGeneration
    <3>2. RecoveredInv'
      BY <2>1, <3>1, Zenon DEF RecoveredInv, Recovered
    <3>3. published < gen => w.gen # gen
      BY <1>0, <2>2
    <3>4. NewestInv'
      BY <2>1, <3>1, <3>3, Zenon DEF NewestInv, Current
    <3> QED
      BY <3>2, <3>4, Zenon
  <2>3. CASE ~(w.gen <= published)
    <3>1. file' = [gen |-> w.gen, state |-> w.state, parses |-> TRUE] /\ published' = w.gen
      BY <1>4, <2>3, Zenon DEF PersistGeneration
    <3>2. RecoveredInv'
      BY <2>1, <3>1, Zenon DEF RecoveredInv, Recovered
    <3>3. published < gen
      BY <1>0, <2>3
    <3>4. NewestInv'
      BY <1>0, <2>1, <3>1, <3>3 DEF NewestInv, Current
    <3> QED
      BY <3>2, <3>4
  <2> QED
    BY <2>2, <2>3, Zenon
<1>5. ASSUME NEW w \in writes, PersistFails(w) PROVE RecoveredInv' /\ NewestInv'
  <2>1. UNCHANGED <<runtime, gen, file, published>> /\ writes' = writes \ {w}
    BY <1>5, Zenon DEF PersistFails
  <2>2. lost' = IF lost >= w.gen THEN lost ELSE w.gen
    BY <1>0, <1>5, LatestOfTwo DEF PersistFails
  <2>3. RecoveredInv'
    BY <2>1, Zenon DEF RecoveredInv, Recovered
  <2>4. w.gen = gen \/ lost = gen => lost' = gen
    BY <1>0, <2>2
  <2>5. NewestInv'
    BY <2>1, <2>4, Zenon DEF NewestInv, Current
  <2> QED
    BY <2>3, <2>5
<1>6. ASSUME NEW a \in Account, HoldElapses(a) PROVE RecoveredInv' /\ NewestInv'
  <2> DEFINE aged(r) == IF r.exhausted[a] = "held" THEN [r EXCEPT !.exhausted[a] = "over"] ELSE r
  <2>1. ASSUME NEW r \in States
        PROVE  /\ Recovered(r) => Recovered(aged(r))
               /\ Current(r) => (aged(r).selected = runtime'.selected
                                   /\ aged(r).exhausted = runtime'.exhausted)
    BY <1>6, HoldsEndAlike, ZenonT(60) DEF Current
  <2>2. /\ runtime' = aged(runtime) /\ file' = [file EXCEPT !.state = aged(@)]
        /\ writes' = {[w EXCEPT !.state = aged(@)] : w \in writes}
        /\ UNCHANGED <<gen, published, lost>>
    BY <1>6, Zenon DEF HoldElapses
  <2> HIDE DEF aged
  <2>3. file'.state = aged(file.state) /\ file'.parses = file.parses
    BY <2>2, Zenon DEF TypeOK
  <2>4. ASSUME NEW w \in writes
        PROVE  /\ [w EXCEPT !.state = aged(@)].gen = w.gen
               /\ [w EXCEPT !.state = aged(@)].state = aged(w.state)
    <3>1. w \in [gen : 1 .. gen, state : States]
      BY Zenon DEF TypeOK
    <3> QED
      BY <3>1, Zenon
  <2>5. ASSUME NEW v \in writes'
        PROVE  Recovered(v.state) /\ (v.gen = gen => (Current(v.state))')
    <3>1. PICK w \in writes : v = [w EXCEPT !.state = aged(@)]
      BY <2>2, Zenon
    <3>2. v.gen = w.gen /\ v.state = aged(w.state) /\ w.state \in States /\ Recovered(w.state)
      BY <1>0, <2>4, <3>1, Zenon DEF RecoveredInv
    <3>3. Recovered(v.state)
      BY <2>1, <3>2, Zenon
    <3>4. v.gen = gen => Current(w.state)
      BY <3>2, Zenon DEF NewestInv
    <3> QED
      BY <2>1, <3>2, <3>3, <3>4, Zenon DEF Current
  <2>6. RecoveredInv'
    <3>1. Recovered(aged(runtime)) /\ Recovered(aged(file.state))
      BY <1>0, <2>1, SMTT(30) DEF RecoveredInv
    <3> QED
      BY <2>2, <2>3, <2>5, <3>1 DEF RecoveredInv, Recovered
  <2>7. (published = gen /\ (gen > 0 \/ file.parses)) => (Current(file.state))'
    BY <1>0, <2>1, <2>3, Zenon DEF NewestInv, Current
  <2>8. published < gen => (lost = gen \/ \E w \in writes' : w.gen = gen)
    BY <2>2, <2>4, Zenon DEF NewestInv
  <2>9. NewestInv'
    BY <2>2, <2>3, <2>5, <2>7, <2>8, SMTT(30) DEF NewestInv
  <2> QED
    BY <2>6, <2>9, Zenon
<1>7. CASE Damage
  <2>1. /\ UNCHANGED <<runtime, writes, gen, published, lost>>
        /\ file.parses /\ file'.state = file.state
    BY <1>7, Zenon DEF Damage, State, TypeOK
  <2> QED
    BY <2>1 DEF RecoveredInv, NewestInv, Recovered, Current
<1>8. CASE Restart
  <2> DEFINE r == IF file.parses THEN file.state ELSE Fresh
  <2>1. /\ runtime' = r \/ Recovered(runtime')
        /\ \/ runtime' = r /\ gen' = 0 /\ writes' = {}
           \/ /\ gen' = 0 + 1
              /\ writes' = {} \union {[gen |-> 0 + 1, state |-> runtime']}
    <3>1. r \in States
      BY DEF TypeOK, Fresh, States
    <3>2. [settings EXCEPT !.enabled = @ /\ file.parses] \in Settings
      BY Zenon DEF TypeOK, Settings
    <3>3. pool \in SUBSET Account
      BY PoolAssumption, Zenon DEF TypeOK
    <3>4. 0 \in 0 .. MaxGen /\ {} \in SUBSET [gen : 1 .. 0, state : States]
      BY BoundAssumption
    <3>5. Reconcile(r, [settings EXCEPT !.enabled = @ /\ file.parses], pool, {}, 0)
      BY <1>8, Zenon DEF Restart
    <3> HIDE DEF r
    <3> QED
      BY <3>1, <3>2, <3>3, <3>4, <3>5, ReconcileKeeps, Zenon
  <2>2. Recovered(r)
    BY AccountAssumption, Zenon DEF RecoveredInv, Recovered, Fresh
  <2>3. /\ file'.state = file.state /\ file'.parses = file.parses
        /\ published' = 0 /\ lost' = 0
    BY <1>8, Zenon DEF Restart, TypeOK
  <2>4. Recovered(runtime')
    BY <2>1, <2>2, Zenon
  <2>5. RecoveredInv'
    BY <2>1, <2>3, <2>4, SMTT(30) DEF RecoveredInv, Recovered
  <2>6. CASE runtime' = r /\ gen' = 0 /\ writes' = {}
    BY <2>3, <2>5, <2>6, SMTT(30) DEF NewestInv, Current
  <2>7. CASE gen' = 1 /\ writes' = {[gen |-> 1, state |-> runtime']}
    BY <2>3, <2>5, <2>7 DEF NewestInv, Current
  <2> QED
    BY <2>1, <2>6, <2>7
<1> QED
  BY <1>1, <1>2, <1>3, <1>4, <1>5, <1>6, <1>7, <1>8, StateSteps, Zenon

-----------------------------------------------------------------------------
\* Reservations

\* No step breaks the hold of an instance on its account, or ends a rescan before
\* the table is pruned.
LEMMA StepReserved == TypeOK /\ ReservedInv /\ [Next]_vars => ReservedInv'
<1> SUFFICES ASSUME TypeOK, ReservedInv, [Next]_vars PROVE ReservedInv'
  BY Zenon
<1> USE DEF Config, Facts, State, Disk, Table
<1>0. ASSUME NEW t \in Task, NEW o, task' = [task EXCEPT ![t] = o],
             o.kind = "rescan" => o.at \in {"reconcile", "locking", "retain"},
             task[t].kind = "rescan" => o.kind = "rescan",
             UNCHANGED <<reservations, active, pool>>
      PROVE  ReservedInv'
  BY <1>0, Zenon DEF TypeOK, ReservedInv
<1>1. ASSUME NEW t \in Task, ReadSettings(t) PROVE ReservedInv'
  <2>1. PICK o : task' = [task EXCEPT ![t] = o] /\ o.kind = task[t].kind /\ o.at = "locking"
    <3>1. task[t] \in TaskStates
      BY Tasks, Zenon
    <3> DEFINE o == [task[t] EXCEPT !.at = "locking",
                       !.seen = [settings EXCEPT !.enabled = @ /\ ~parse_failed]]
    <3>2. task' = [task EXCEPT ![t] = o]
      BY <1>1, Zenon DEF ReadSettings
    <3>3. o.kind = task[t].kind /\ o.at = "locking"
      BY <3>1, Zenon DEF TaskStates
    <3> HIDE DEF o
    <3> QED
      BY <3>2, <3>3, Zenon
  <2> QED
    BY <1>0, <1>1, <2>1, ZenonT(60) DEF ReadSettings
<1>2. ASSUME NEW t \in Task, Locked(t) PROVE ReservedInv'
  <2> DEFINE o == [Idle EXCEPT !.at = "retain", !.kind = "rescan"]
  <2>1. o.kind = "rescan" /\ o.at = "retain" /\ Idle.kind = "none"
    BY Zenon DEF Idle
  <2>2. \/ task' = [task EXCEPT ![t] = o]
        \/ task[t].kind # "rescan" /\ task' = [task EXCEPT ![t] = Idle]
    BY <1>2, Zenon DEF Locked, TypeOK
  <2> HIDE DEF o
  <2> QED
    BY <1>0, <1>2, <2>1, <2>2, Zenon DEF Locked
<1>3. ASSUME NEW t \in Task, RetainAccounts(t) PROVE ReservedInv'
  <2>1. Idle.kind = "none"
    BY Zenon DEF Idle
  <2> QED
    BY <1>3, <2>1, Zenon DEF RetainAccounts, ReservedInv, TypeOK
<1>4. ASSUME NEW t \in Task, RecordNonAuthFailure(t) PROVE ReservedInv'
  <2>1. task[t] \in TaskStates
    BY Tasks
  <2>2. [task[t] EXCEPT !.at = "reconcile"].kind # "rescan" /\ task[t].kind # "rescan"
    BY <1>4, <2>1, Zenon DEF TaskStates, RecordNonAuthFailure
  <2> QED
    BY <1>0, <1>4, <2>2, Zenon DEF RecordNonAuthFailure
<1>5. ASSUME NEW t \in Task, RecordSuccess(t) PROVE ReservedInv'
  <2>1. task[t] \in TaskStates
    BY Tasks
  <2>2. /\ [task[t] EXCEPT !.at = "reconcile"].kind # "rescan" /\ task[t].kind # "rescan"
        /\ Idle.kind # "rescan"
    BY <1>5, <2>1, Zenon DEF TaskStates, RecordSuccess, Idle
  <2>3. \/ task' = [task EXCEPT ![t] = Idle]
        \/ task' = [task EXCEPT ![t] = [task[t] EXCEPT !.at = "reconcile"]]
    BY <1>5, Zenon DEF RecordSuccess, TypeOK
  <2> QED
    BY <1>0, <1>5, <2>2, <2>3, Zenon DEF RecordSuccess
<1>6. ASSUME NEW t \in Task, Reply(t) PROVE ReservedInv'
  <2>1. task[t] \in TaskStates /\ task[t].kind # "rescan"
    BY <1>6, Tasks, Zenon DEF Reply, Benched, Ends, ReservedInv
  <2>2. CASE Benched(t)
    <3>1. Idle.kind # "rescan"
      BY Zenon DEF Idle
    <3> QED
      BY <1>0, <2>1, <2>2, <3>1, Zenon DEF Benched
  <2>3. ASSUME NEW kind \in Outcomes \ {"benched"}, Ends(t, kind) PROVE ReservedInv'
    <3> DEFINE o == [task[t] EXCEPT !.at = "record", !.kind = kind, !.list = pool]
    <3>1. o.kind # "rescan"
      BY <2>1, OutcomeAssumption, Zenon DEF TaskStates
    <3>2. task' = [task EXCEPT ![t] = o]
      BY <2>3, Zenon DEF Ends
    <3> HIDE DEF o
    <3> QED
      BY <1>0, <2>1, <2>3, <3>1, <3>2, Zenon DEF Ends
  <2> QED
    BY <1>6, <2>2, <2>3, Zenon DEF Reply
<1>7. ASSUME NEW t \in Task, task[t].at = "idle",
             task' = [task EXCEPT ![t] = [@ EXCEPT !.at = "reconcile", !.list = pool]],
             UNCHANGED <<reservations, active, pool>>
      PROVE  ReservedInv'
  <2>1. task[t] \in TaskStates /\ task[t].kind # "rescan"
    BY <1>7, Tasks, Zenon DEF ReservedInv
  <2> DEFINE o == [task[t] EXCEPT !.at = "reconcile", !.list = pool]
  <2>2. o.kind # "rescan" /\ task' = [task EXCEPT ![t] = o]
    BY <1>7, <2>1, Zenon DEF TaskStates
  <2> HIDE DEF o
  <2> QED
    BY <1>0, <1>7, <2>1, <2>2, Zenon
<1>8. ASSUME NEW t \in Task, GetStatus(t) PROVE ReservedInv'
  BY <1>7, <1>8, Zenon DEF GetStatus
<1>9. ASSUME NEW t \in Task, NEW s, UpdateSettings(t, s) PROVE ReservedInv'
  BY <1>7, <1>9, Zenon DEF UpdateSettings
<1>10. ASSUME NEW t \in Task, NEW a \in Account, Request(t, a) PROVE ReservedInv'
  <2>1. task[t] \in TaskStates /\ task[t].kind # "rescan"
    BY <1>10, Tasks, Zenon DEF ReservedInv, Request
  <2> DEFINE o == [task[t] EXCEPT !.at = "serving", !.account = a]
  <2>2. o.kind # "rescan" /\ task' = [task EXCEPT ![t] = o]
    BY <1>10, <2>1, Zenon DEF TaskStates, Request
  <2> HIDE DEF o
  <2> QED
    BY <1>0, <1>10, <2>1, <2>2, Zenon DEF Request
<1>11. ASSUME NEW t \in Task, NEW live \in Pools, RescanPool(t, live) PROVE ReservedInv'
  <2>1. task[t] \in TaskStates
    BY Tasks, Zenon
  <2> DEFINE o == [task[t] EXCEPT !.at = "reconcile", !.list = live, !.kind = "rescan"]
  <2>2. o.kind = "rescan" /\ o.at = "reconcile" /\ task' = [task EXCEPT ![t] = o]
    BY <1>11, <2>1, Zenon DEF TaskStates, RescanPool
  <2> HIDE DEF o
  <2>3. task'[t].kind = "rescan" /\ task'[t].at = "reconcile"
        /\ \A u \in Task \ {t} : task'[u] = task[u]
    BY <2>2, Zenon DEF TypeOK
  <2>4. UNCHANGED <<reservations, active>>
    BY <1>11, SMTT(30) DEF RescanPool
  <2> QED
    BY <2>3, <2>4, Zenon DEF ReservedInv
<1>12. ASSUME NEW i \in Instance, Release(i) PROVE ReservedInv'
  BY <1>12, SMTT(30) DEF Release, ReservedInv, TypeOK
<1>13. ASSUME NEW i \in Instance, NEW a \in Account, Reserve(i, a) PROVE ReservedInv'
  BY <1>13, Zenon DEF Reserve, ReservedInv, TypeOK
<1>14. CASE UNCHANGED <<reservations, active, pool, task>>
  BY <1>14, Zenon DEF ReservedInv
<1>15. ASSUME NEW w \in writes, PersistGeneration(w) \/ PersistFails(w) PROVE ReservedInv'
  BY <1>14, <1>15, Zenon DEF PersistGeneration, PersistFails
<1>16. ASSUME NEW a \in Account, Recover(a) \/ HoldElapses(a) \/ \E q \in Quota : Observe(a, q)
       PROVE  ReservedInv'
  BY <1>14, <1>16, Zenon DEF Recover, HoldElapses, Observe
<1>17. CASE Damage
  BY <1>14, <1>17, Zenon DEF Damage
<1>18. CASE Restart
  <2>1. Idle.kind # "rescan"
    BY Zenon DEF Idle
  <2>2. \A t \in Task : task'[t] = Idle
    BY <1>18, Zenon DEF Restart
  <2>3. \A i \in Instance : reservations'[i] = NoAccount
    BY <1>18, Zenon DEF Restart
  <2> QED
    BY <1>18, <2>1, <2>2, <2>3, Zenon DEF Restart, ReservedInv
<1>19. CASE UNCHANGED vars
  BY <1>14, <1>19, Zenon DEF vars
<1> QED
  BY <1>1, <1>2, <1>3, <1>4, <1>5, <1>6, <1>8, <1>9, <1>10, <1>11, <1>12, <1>13, <1>15,
     <1>16, <1>17, <1>18, <1>19, Zenon DEF Next, Step

-----------------------------------------------------------------------------
\* The inductive invariant holds of a scheduler that has just been loaded.
LEMMA InitIInv == Init => IInv
<1> SUFFICES ASSUME Init PROVE IInv
  OBVIOUS
<1>1. TypeOK
  BY InitTypes, Zenon
<1>2. Recovered(Fresh)
  BY Zenon DEF Recovered, Fresh
<1>3. RecoveredInv
  BY <1>2, SMTT(30) DEF Init, RecoveredInv
<1>4. NewestInv
  BY SMTT(30) DEF Init, NewestInv, Current
<1>5. ReservedInv
  BY Zenon DEF Init, ReservedInv, Idle
<1> QED
  BY <1>1, <1>3, <1>4, <1>5, Zenon DEF IInv

\* ... and always after that.
LEMMA AlwaysIInv == Spec => []IInv
<1>1. IInv /\ [Next]_vars => IInv'
  BY StepTypes, StepState, StepReserved, Zenon DEF IInv
<1> QED
  BY <1>1, InitIInv, PTL DEF Spec

\* The scheduler's state keeps its types whatever tasks, writes and restarts do.
THEOREM SchedulerTypes == Spec => []TypeOK
<1>1. IInv => TypeOK
  BY SMTT(30) DEF IInv
<1> QED
  BY <1>1, AlwaysIInv, PTL

\* reconcile never selects, and a restart never loads, an account whose exhaustion
\* has not ended.
THEOREM SelectionHasRecovered == Spec => []SelectedIsRecovered
<1>1. IInv => SelectedIsRecovered
  BY SMTT(30) DEF IInv, RecoveredInv, Recovered, SelectedIsRecovered
<1> QED
  BY <1>1, AlwaysIInv, PTL

\* persist_generation, in whatever order its tasks run, leaves the newest selection
\* and holds in scheduler-state.json.
THEOREM FileCatchesUp == Spec => []FileIsLatest
<1>1. IInv => FileIsLatest
  <2> SUFFICES ASSUME IInv, writes = {}, file.parses, gen = 0 \/ lost < gen
               PROVE  Current(file.state)
    BY Zenon DEF FileIsLatest, Current
  <2>1. gen \in Nat /\ published \in 0 .. gen /\ lost \in 0 .. gen
    BY BoundAssumption DEF IInv, TypeOK
  <2>2. published = gen
    BY <2>1, SMTT(30) DEF IInv, NewestInv
  <2> QED
    BY <2>2, SMTT(30) DEF IInv, NewestInv
<1> QED
  BY <1>1, AlwaysIInv, PTL

\* reserve and retain_accounts: no two instances have one account, and outside a
\* rescan a reserved account is a member.
THEOREM ReservationsHold == Spec => []ReservationsAreExclusive
<1>1. IInv => ReservationsAreExclusive
  BY SMTT(30) DEF IInv, ReservedInv, ReservationsAreExclusive
<1> QED
  BY <1>1, AlwaysIInv, PTL

\* With no priorities configured, select_candidate keeps a usable incumbent against
\* every account that does not reset more than the margin before it.
LEMMA IncumbentIsKept ==
    ASSUME TypeOK, Recovered(runtime), NEW t \in Task, NEW a \in Account, NEW b \in Account,
           a # b, Locked(t), runtime.selected = a, runtime'.selected = b,
           task[t].seen.priorities = NoOrder, a \in task[t].list \intersect healthy,
           runtime.failures[a] < 3, quota[a].remaining \in {"mid", "high"}
    PROVE  quota[b].reset + Margin < quota[a].reset
<1> DEFINE list == task[t].list
           kept(f, none) == [x \in Account |-> IF x \in list THEN f[x] ELSE none]
           exhausted == kept([x \in Account |-> Exhaustion(x, runtime.exhausted[x])], "no")
           failures == kept(runtime.failures, 0)
           eligible == {x \in list \intersect healthy : /\ failures[x] < 3
                                                        /\ exhausted[x] # "held"
                                                        /\ Usable(x, exhausted[x])}
           p == [x \in Account |-> IF x = a THEN 0 ELSE 1]
<1>1. runtime' = Reconciled(runtime, task[t].seen, list)
  BY Zenon DEF Locked, Reconcile
<1>2. Priority(task[t].seen, a) = p
  BY AccountAssumption, Zenon DEF Priority
<1>3. runtime'.selected = SelectCandidate(eligible, p)
  BY <1>1, <1>2, Zenon DEF Reconciled
<1>4. a \in eligible
  BY SMTT(30) DEF Recovered, Exhaustion, Usable
<1>5. eligible \subseteq Account
  BY Tasks, SMTT(30)
<1> HIDE DEF eligible
<1> DEFINE manual == {x \in eligible : p[x] # Never}
           ranked == IF manual = {} THEN eligible ELSE manual
           least(x) == \A y \in ranked : p[x] < p[y] \/ (p[x] = p[y] /\ x <= y)
           incumbent == CHOOSE x \in ranked : least(x)
           best == CHOOSE x \in ranked : \A y \in ranked : RanksFirst(x, y)
<1>6. a \in ranked /\ ranked \subseteq Account
  <2>1. p[a] = 0 /\ 0 # Never
    BY QuotaAssumption, SMTT(30)
  <2>2. a \in manual
    BY <1>4, <2>1, Zenon
  <2>3. manual \subseteq eligible
    BY Zenon
  <2>4. ranked = manual
    BY <2>2, Zenon
  <2> QED
    BY <1>5, <2>2, <2>3, <2>4, Zenon
<1>7. SelectCandidate(eligible, p)
        = IF ranked = {} THEN NoAccount
          ELSE IF p[incumbent] < p[best] /\ Keeps(incumbent, best) THEN incumbent ELSE best
  BY Zenon DEF SelectCandidate
<1> HIDE DEF ranked
<1>8. incumbent = a
  <2>1. least(a)
    BY <1>6, AccountAssumption
  <2>2. ASSUME NEW x \in ranked, least(x), x # a PROVE FALSE
    <3>1. p[x] < p[a] \/ p[x] = p[a]
      BY <1>6, <2>2, SMTT(30)
    <3>2. p[x] = 1 /\ p[a] = 0
      BY <1>6, <2>2, SMTT(30)
    <3> QED
      BY <3>1, <3>2, SMTT(30)
  <2> HIDE DEF least
  <2> QED
    BY <1>6, <2>1, <2>2, Zenon
<1>9. best = b /\ p[a] < p[b] /\ ~(p[a] < p[b] /\ Keeps(a, b))
  <2> HIDE DEF best, incumbent
  <2> QED
    BY <1>3, <1>6, <1>7, <1>8
<1>10. ~Keeps(a, b)
  BY <1>9, Zenon
<1>11. quota[a].reset \in Nat /\ quota[b].reset \in Nat /\ Margin \in Nat
  BY QuotaAssumption, Zenon DEF TypeOK
<1> QED
  BY <1>10, <1>11 DEF Keeps

\* An automatic switch away from a usable account has a reason.
THEOREM SwitchHasReason == Spec => SwitchesForAReason
<1> DEFINE Reasoned ==
        \A t \in Task, a \in Account, b \in Account :
          (/\ a # b /\ Locked(t) /\ runtime.selected = a /\ runtime'.selected = b
           /\ task[t].seen.priorities = NoOrder
           /\ a \in task[t].list \intersect healthy
           /\ runtime.failures[a] < 3 /\ quota[a].remaining \in {"mid", "high"})
          => quota[b].reset + Margin < quota[a].reset
<1>1. IInv /\ [Next]_vars => [Reasoned]_vars
  BY IncumbentIsKept, Zenon DEF IInv, RecoveredInv
<1> HIDE DEF Reasoned
<1>2. Spec => [][Reasoned]_vars
  BY <1>1, AlwaysIInv, PTL DEF Spec
<1> QED
  BY <1>2, SMTT(30) DEF SwitchesForAReason, Reasoned

\* The steps that touch the counts of failures.
LEMMA FailureSteps ==
    ASSUME Next
    PROVE  \/ UNCHANGED <<runtime.failures, streak>>
           \/ \E t \in Task : Locked(t) \/ RecordNonAuthFailure(t) \/ RecordSuccess(t)
           \/ \E a \in Account : HoldElapses(a)
           \/ Restart
<1> USE DEF Config, Facts, State, Disk, Table
<1> DEFINE Same == UNCHANGED <<runtime.failures, streak>>
<1>1. ASSUME NEW t \in Task, ReadSettings(t) \/ RetainAccounts(t) \/ GetStatus(t) PROVE Same
  BY <1>1, Zenon DEF ReadSettings, RetainAccounts, GetStatus
<1>2. ASSUME NEW t \in Task, Reply(t) PROVE Same
  BY <1>2, Zenon DEF Reply, Benched, Ends
<1>3. ASSUME NEW t \in Task, NEW a \in Account, Request(t, a) PROVE Same
  BY <1>3, Zenon DEF Request
<1>4. ASSUME NEW t \in Task, NEW s, UpdateSettings(t, s) PROVE Same
  BY <1>4, Zenon DEF UpdateSettings
<1>5. ASSUME NEW t \in Task, NEW live \in Pools, RescanPool(t, live) PROVE Same
  BY <1>5, Zenon DEF RescanPool
<1>6. ASSUME NEW i \in Instance, Release(i) \/ \E a \in Account : Reserve(i, a) PROVE Same
  BY <1>6, Zenon DEF Release, Reserve
<1>7. ASSUME NEW a \in Account, Recover(a) \/ \E q \in Quota : Observe(a, q) PROVE Same
  BY <1>7, Zenon DEF Recover, Observe
<1>8. ASSUME NEW w \in writes, PersistGeneration(w) \/ PersistFails(w) PROVE Same
  BY <1>8, Zenon DEF PersistGeneration, PersistFails
<1>9. Damage => Same
  BY Zenon DEF Damage
<1> HIDE DEF Same
<1>10. Same \/ (\E t \in Task : Locked(t) \/ RecordNonAuthFailure(t) \/ RecordSuccess(t))
            \/ (\E a \in Account : HoldElapses(a)) \/ Restart
  BY <1>1, <1>2, <1>3, <1>4, <1>5, <1>6, <1>7, <1>8, <1>9, Zenon DEF Next, Step
<1> QED
  BY <1>10, Zenon DEF Same

\* record_non_auth_failure and record_success: until the process is restarted, the
\* scheduler sets no account aside that did not fail three times in a row.
THEOREM ParkedHasFailed == MaxRuns = 0 /\ Spec => []ParkedAfterThree
<1> SUFFICES ASSUME MaxRuns = 0 PROVE Spec => []ParkedAfterThree
  BY Zenon
<1>1. Init => ParkedInv
  BY InitTypes DEF Init, Fresh, ParkedInv
<1>2. ParkedInv /\ [Next]_vars => ParkedInv'
  <2> SUFFICES ASSUME ParkedInv, [Next]_vars PROVE ParkedInv'
    BY Zenon
  <2>0. TypeOK /\ TypeOK' /\ runtime \in States /\ runtime' \in States
        /\ runtime.failures \in [Account -> 0 .. 3] /\ streak \in [Account -> 0 .. 3]
    BY StepTypes, Zenon DEF ParkedInv, TypeOK, States
  <2>1. CASE UNCHANGED <<runtime.failures, streak>>
    BY <2>0, <2>1, Zenon DEF ParkedInv
  <2>2. ASSUME NEW t \in Task, Locked(t) PROVE ParkedInv'
    <3>1. streak' = streak
      BY <2>2, Zenon DEF Locked
    <3>2. \A a \in Account : runtime'.failures[a] \in {runtime.failures[a], 0}
      BY <2>2 DEF Locked, Reconcile, Reconciled
    <3> QED
      BY <2>0, <3>1, <3>2 DEF ParkedInv
  <2>3. ASSUME NEW t \in Task, RecordNonAuthFailure(t) PROVE ParkedInv'
    <3> DEFINE x == task[t].account
               up(n) == Min({n + 1, 3})
    <3>1. ASSUME NEW m \in 0 .. 3, NEW n \in 0 .. 3, m <= n PROVE up(m) <= up(n)
      BY <3>1, CountsSaturate
    <3>2. /\ runtime'.failures = [runtime.failures EXCEPT ![x] = up(@)]
          /\ streak' = [streak EXCEPT ![x] = up(@)]
      BY <2>0, <2>3, Zenon DEF RecordNonAuthFailure, States
    <3> HIDE DEF up, x
    <3> QED
      BY <2>0, <3>1, <3>2 DEF ParkedInv
  <2>4. ASSUME NEW t \in Task, RecordSuccess(t) PROVE ParkedInv'
    <3>1. /\ runtime'.failures = [runtime.failures EXCEPT ![task[t].account] = 0]
          /\ streak' = [streak EXCEPT ![task[t].account] = 0]
      BY <2>0, <2>4, Zenon DEF RecordSuccess, States
    <3> QED
      BY <2>0, <3>1 DEF ParkedInv
  <2>5. ASSUME NEW a \in Account, HoldElapses(a) PROVE ParkedInv'
    <3>1. runtime'.failures = runtime.failures /\ streak' = streak
      BY <2>0, <2>5, Zenon DEF HoldElapses, States
    <3> QED
      BY <2>1, <3>1, Zenon
  <2>6. ~Restart
    BY <2>0 DEF Restart, TypeOK
  <2>7. CASE Next
    BY <2>1, <2>2, <2>3, <2>4, <2>5, <2>6, <2>7, FailureSteps, Zenon
  <2>8. CASE UNCHANGED vars
    BY <2>1, <2>8, SMTT(30) DEF vars
  <2> QED
    BY <2>7, <2>8, Zenon
<1>3. ParkedInv => ParkedAfterThree
  BY DEF ParkedInv, ParkedAfterThree, TypeOK
<1> QED
  BY <1>1, <1>2, <1>3, PTL DEF Spec

\* Both promises to an account together, as long as the process runs: it is
\* parked for three failures in a row only, and reserved once and in the pool.
\* A restart reads counts that may be old, hence MaxRuns = 0.
THEOREM AccountsAreKept == MaxRuns = 0 /\ Spec => []SetAsideAndReserved
<1>1. ParkedAfterThree /\ ReservationsAreExclusive => SetAsideAndReserved
  BY Zenon DEF SetAsideAndReserved
<1> QED
  BY <1>1, ParkedHasFailed, ReservationsHold, PTL
=============================================================================
