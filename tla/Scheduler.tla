----------------------------- MODULE Scheduler ------------------------------
(***************************************************************************)
(* The quota scheduler, crates/gateway/src/scheduler: the account it       *)
(* selects, its sidecar file, and the accounts reserved for instances.     *)
(* Reconciliation runs in the task of whoever asks for it, over a list of  *)
(* members that task loaded before, with settings it read before it took   *)
(* the runtime lock.                                                       *)
(***************************************************************************)
EXTENDS Integers, FiniteSets, FiniteSetsExt

CONSTANTS
    Account,    \* account ids, numbered in their string order
    Task,       \* request and console tasks
    Instance,   \* instances that reserve accounts
    Quota,      \* observable quotas: [remaining, reset]
    Margin,     \* SWITCH_MARGIN_SECS, in the unit of the resets
    Never,      \* i64::MAX, also an unknown reset; 0 is a reset in the past
    Orders,     \* priority maps the console may set; Never where it sets none
    Pools,      \* memberships a rescan may find
    Outcomes,   \* how requests end: "success", "failure", "benched"
    Faults,     \* whether writes of the sidecar may fail and others damage it
    MaxGen,     \* bound: state generations of one process
    MaxRuns,    \* bound: restarts
    NoAccount

ASSUME AccountAssumption == Account \subseteq Nat /\ NoAccount \notin Account
ASSUME QuotaAssumption ==
    /\ Margin \in Nat /\ Never \in Nat /\ Never > 1
    /\ \A q \in Quota : /\ q.remaining \in {"unknown", "low", "mid", "high"}
                        /\ q.reset \in Nat
                        /\ q.reset = Never \/ q.reset + Margin < Never
ASSUME OrderAssumption == Orders \subseteq [Account -> 0 .. Never]
ASSUME PoolAssumption == Pools \subseteq SUBSET Account
ASSUME OutcomeAssumption == Outcomes \subseteq {"success", "failure", "benched"}
ASSUME BoundAssumption == MaxGen \in Nat /\ MaxRuns \in Nat /\ Faults \in BOOLEAN

VARIABLES
    settings,     \* [enabled, priorities]
    parse_failed, \* state_parse_failed
    pool,         \* the published members
    quota,        \* per account, its most consumed window
    healthy,      \* accounts whose health is available
    runtime,      \* [selected, exhausted, failures]
    allowed,      \* the snapshot's allowed account; NoAccount when it fails open
    task,         \* per task, where it is and what it has read
    writes,       \* persist_json_background tasks that have not run
    file,         \* scheduler-state.json
    gen,          \* state_generation
    published,    \* persisted_generation
    reservations, \* per instance, its account
    active,       \* ReservationState.active
    runs,         \* restarts so far
    lost,         \* history: the latest generation whose write failed
    streak        \* history: failures since the account's latest success

vars == <<settings, parse_failed, pool, quota, healthy, runtime, allowed, task, writes,
          file, gen, published, reservations, active, runs, lost, streak>>

Config == <<settings, parse_failed>>
Facts == <<pool, quota, healthy>>
State == <<runtime, allowed, writes, gen>>
Disk == <<file, published, lost>>
Table == <<reservations, active>>

NoOrder == [a \in Account |-> Never]

Fresh == [selected |-> NoAccount,
          exhausted |-> [a \in Account |-> "no"],
          failures |-> [a \in Account |-> 0]]

Off == [enabled |-> FALSE, priorities |-> NoOrder]

\* at: where the task stands; kind: what ended or began; seen: the settings it read.
Idle == [at |-> "idle", account |-> NoAccount, kind |-> "none", list |-> {}, seen |-> Off]

Init ==
    /\ settings = Off
    /\ parse_failed = FALSE
    /\ pool \in Pools
    /\ quota \in [Account -> Quota]
    /\ healthy = Account
    /\ runtime = Fresh
    /\ allowed = NoAccount
    /\ task = [t \in Task |-> Idle]
    /\ writes = {}
    /\ file = [gen |-> 0, state |-> Fresh, parses |-> TRUE]
    /\ gen = 0
    /\ published = 0
    /\ reservations = [i \in Instance |-> NoAccount]
    /\ active = pool
    /\ runs = 0
    /\ lost = 0
    /\ streak = [a \in Account |-> 0]

-----------------------------------------------------------------------------
\* algorithm.rs

\* Mutant: recovery needs no more than leaving the exhaustion threshold.
MutUsable(a, exhausted) == quota[a].remaining \notin {"unknown", "low"}

\* Above 3 percent, and above 5 for an account that was exhausted.
Usable(a, exhausted) ==
    /\ quota[a].remaining \notin {"unknown", "low"}
    /\ exhausted # "no" => quota[a].remaining = "high"

\* The sort key (window_tier, reset, key): open windows by reset, then idle ones.
RanksFirst(a, b) ==
    LET due(x) == IF quota[x].reset > 0 THEN quota[x].reset ELSE Never
    IN  \/ due(a) < due(b)
        \/ due(a) = due(b) /\ a <= b

\* Mutant: an earlier reset, however little earlier, takes over.
MutKeeps(incumbent, best) == quota[best].reset >= quota[incumbent].reset

\* best_reset.saturating_add(SWITCH_MARGIN_SECS) >= incumbent_reset
Keeps(incumbent, best) ==
    \/ quota[best].reset = Never
    \/ quota[best].reset + Margin >= quota[incumbent].reset

\* The best ranked of the accounts with a priority, if any has one, unless the
\* one with the least priority may keep its place.
SelectCandidate(eligible, priority) ==
    LET manual == {a \in eligible : priority[a] # Never}
        ranked == IF manual = {} THEN eligible ELSE manual
        best == CHOOSE a \in ranked : \A b \in ranked : RanksFirst(a, b)
        incumbent == CHOOSE a \in ranked :
                       \A b \in ranked : \/ priority[a] < priority[b]
                                         \/ priority[a] = priority[b] /\ a <= b
    IN  IF ranked = {} THEN NoAccount
        ELSE IF priority[incumbent] < priority[best] /\ Keeps(incumbent, best)
             THEN incumbent
             ELSE best

-----------------------------------------------------------------------------
\* reconcile

\* At 3 percent the hold starts; above 5, with the hold over, exhaustion ends.
Exhaustion(a, old) ==
    CASE quota[a].remaining = "low" /\ old = "no" -> "held"
      [] quota[a].remaining = "high" /\ old = "over" -> "no"
      [] OTHER -> old

\* The configured priorities, or 0 for the selected account and 1 for the others.
Priority(s, selected) ==
    CASE s.priorities # NoOrder -> s.priorities
      [] selected = NoAccount -> NoOrder
      [] OTHER -> [a \in Account |-> IF a = selected THEN 0 ELSE 1]

\* What reconcile makes of the state r for the members of list.
Reconciled(r, s, list) ==
    LET kept(f, none) == [a \in Account |-> IF a \in list THEN f[a] ELSE none]
        exhausted == kept([a \in Account |-> Exhaustion(a, r.exhausted[a])], "no")
        failures == kept(r.failures, 0)
        incumbent == IF r.selected \in list THEN r.selected ELSE NoAccount
        eligible == {a \in list \intersect healthy : /\ failures[a] < 3
                                                     /\ exhausted[a] # "held"
                                                     /\ Usable(a, exhausted[a])}
    IN  [selected |-> SelectCandidate(eligible, Priority(s, incumbent)),
         exhausted |-> exhausted, failures |-> failures]

\* Mutant: a generation is read, not taken.
MutReconcile(r, s, list, queue, g) ==
    IF ~s.enabled
    THEN runtime' = r /\ allowed' = NoAccount /\ writes' = queue /\ gen' = g
    ELSE /\ runtime' = Reconciled(r, s, list)
         /\ allowed' = runtime'.selected
         /\ gen' = g
         /\ writes' = IF runtime' = r THEN queue
                      ELSE queue \union {[gen |-> g + 1, state |-> runtime']}

\* A scheduler that is disabled, or whose sidecar did not parse, fails open.  A
\* state that reconcile changed itself is written in the background.
Reconcile(r, s, list, queue, g) ==
    IF ~s.enabled
    THEN runtime' = r /\ allowed' = NoAccount /\ writes' = queue /\ gen' = g
    ELSE /\ runtime' = Reconciled(r, s, list)
         /\ allowed' = runtime'.selected
         /\ IF runtime' = r
            THEN writes' = queue /\ gen' = g
            ELSE /\ g < MaxGen
                 /\ gen' = g + 1
                 /\ writes' = queue \union {[gen |-> g + 1, state |-> runtime']}

\* reconcile looks at the settings before it takes the runtime lock ...
ReadSettings(t) ==
    /\ task[t].at = "reconcile"
    /\ task' = [task EXCEPT ![t] =
                  [@ EXCEPT !.at = "locking",
                            !.seen = [settings EXCEPT !.enabled = @ /\ ~parse_failed]]]
    /\ UNCHANGED <<Config, Facts, State, Disk, Table, runs, streak>>

\* ... and does the rest under it.
Locked(t) ==
    /\ task[t].at = "locking"
    /\ Reconcile(runtime, task[t].seen, task[t].list, writes, gen)
    /\ task' = [task EXCEPT ![t] = IF @.kind = "rescan"
                                   THEN [Idle EXCEPT !.at = "retain", !.kind = "rescan"]
                                   ELSE Idle]
    /\ UNCHANGED <<Config, Facts, Disk, Table, runs, streak>>

-----------------------------------------------------------------------------
\* Requests

\* permits
Permits(a) ==
    /\ \A i \in Instance : reservations[i] # a
    /\ allowed \in {NoAccount, a}

Request(t, a) ==
    /\ task[t].at = "idle"
    /\ a \in pool \intersect healthy
    /\ Permits(a)
    /\ task' = [task EXCEPT ![t] = [@ EXCEPT !.at = "serving", !.account = a]]
    /\ UNCHANGED <<Config, Facts, State, Disk, Table, runs, streak>>

\* A rate limit or an authorization failure benches the account and tells the
\* scheduler nothing.
Benched(t) ==
    /\ task[t].at = "serving"
    /\ "benched" \in Outcomes
    /\ healthy' = healthy \ {task[t].account}
    /\ task' = [task EXCEPT ![t] = Idle]
    /\ UNCHANGED <<Config, pool, quota, State, Disk, Table, runs, streak>>

\* Success, or another failure, is recorded with the members of the moment.
Ends(t, kind) ==
    /\ task[t].at = "serving"
    /\ task' = [task EXCEPT ![t] = [@ EXCEPT !.at = "record", !.kind = kind, !.list = pool]]
    /\ UNCHANGED <<Config, Facts, State, Disk, Table, runs, streak>>

\* Counts over 3 are alike.
RecordNonAuthFailure(t) ==
    /\ task[t].at = "record" /\ task[t].kind = "failure"
    /\ runtime' = [runtime EXCEPT !.failures[task[t].account] = Min({@ + 1, 3})]
    /\ streak' = [streak EXCEPT ![task[t].account] = Min({@ + 1, 3})]
    /\ task' = [task EXCEPT ![t].at = "reconcile"]
    /\ UNCHANGED <<Config, Facts, allowed, writes, gen, Disk, Table, runs>>

\* Mutant: a success leaves the count as it is.
MutRecordSuccess(t) ==
    /\ task[t].at = "record" /\ task[t].kind = "success"
    /\ streak' = [streak EXCEPT ![task[t].account] = 0]
    /\ task' = [task EXCEPT ![t] = Idle]
    /\ UNCHANGED <<Config, Facts, State, Disk, Table, runs>>

RecordSuccess(t) ==
    LET a == task[t].account
    IN  /\ task[t].at = "record" /\ task[t].kind = "success"
        /\ runtime' = [runtime EXCEPT !.failures[a] = 0]
        /\ streak' = [streak EXCEPT ![a] = 0]
        /\ task' = [task EXCEPT ![t] = IF runtime.failures[a] = 0 THEN Idle
                                       ELSE [@ EXCEPT !.at = "reconcile"]]
        /\ UNCHANGED <<Config, Facts, allowed, writes, gen, Disk, Table, runs>>

-----------------------------------------------------------------------------
\* The console and the pool

\* get_status and get_order reconcile with the members of the moment.
GetStatus(t) ==
    /\ task[t].at = "idle"
    /\ task' = [task EXCEPT ![t] = [@ EXCEPT !.at = "reconcile", !.list = pool]]
    /\ UNCHANGED <<Config, Facts, State, Disk, Table, runs, streak>>

\* put_settings and put_order: saved, stored, a parse failure forgiven.
UpdateSettings(t, s) ==
    /\ task[t].at = "idle"
    /\ s # settings \/ parse_failed
    /\ settings' = s
    /\ parse_failed' = FALSE
    /\ task' = [task EXCEPT ![t] = [@ EXCEPT !.at = "reconcile", !.list = pool]]
    /\ UNCHANGED <<Facts, State, Disk, Table, runs, streak>>

\* rescan_pool, one at a time: publish the members, reconcile with them ...
RescanPool(t, live) ==
    /\ task[t].at = "idle"
    /\ \A u \in Task : task[u].kind # "rescan"
    /\ live # pool
    /\ pool' = live
    /\ task' = [task EXCEPT ![t] = [@ EXCEPT !.at = "reconcile", !.list = live, !.kind = "rescan"]]
    /\ UNCHANGED <<Config, quota, healthy, State, Disk, Table, runs, streak>>

\* Mutant: the allowlist is published, the table not pruned.
MutRetainAccounts(t) ==
    /\ task[t].at = "retain"
    /\ active' = pool
    /\ task' = [task EXCEPT ![t] = Idle]
    /\ UNCHANGED <<Config, Facts, State, Disk, reservations, runs, streak>>

\* ... and then release the reservations of the accounts that left.
RetainAccounts(t) ==
    /\ task[t].at = "retain"
    /\ active' = pool
    /\ reservations' = [i \in Instance |->
                          IF reservations[i] \in pool THEN reservations[i] ELSE NoAccount]
    /\ task' = [task EXCEPT ![t] = Idle]
    /\ UNCHANGED <<Config, Facts, State, Disk, runs, streak>>

\* reserve, whose check and insertion share a lock.
Reserve(i, a) ==
    /\ a \in active
    /\ \A j \in Instance \ {i} : reservations[j] # a
    /\ reservations' = [reservations EXCEPT ![i] = a]
    /\ UNCHANGED <<Config, Facts, State, task, Disk, active, runs, streak>>

Release(i) ==
    /\ reservations[i] # NoAccount
    /\ reservations' = [reservations EXCEPT ![i] = NoAccount]
    /\ UNCHANGED <<Config, Facts, State, task, Disk, active, runs, streak>>
-----------------------------------------------------------------------------
\* The sidecar file, and the world

\* Mutant: whichever write runs last wins.
MutPersistGeneration(w) ==
    /\ w \in writes
    /\ writes' = writes \ {w}
    /\ file' = [gen |-> w.gen, state |-> w.state, parses |-> TRUE]
    /\ published' = w.gen
    /\ UNCHANGED <<Config, Facts, runtime, allowed, task, gen, Table, runs, lost, streak>>

\* persist_generation: blocking tasks in any order, the publication lock held
\* from the check through the rename.
PersistGeneration(w) ==
    /\ w \in writes
    /\ writes' = writes \ {w}
    /\ IF w.gen <= published
       THEN UNCHANGED <<file, published>>
       ELSE /\ file' = [gen |-> w.gen, state |-> w.state, parses |-> TRUE]
            /\ published' = w.gen
    /\ UNCHANGED <<Config, Facts, runtime, allowed, task, gen, Table, runs, lost, streak>>

\* A failed write is logged.
PersistFails(w) ==
    /\ Faults
    /\ w \in writes
    /\ w.gen > published
    /\ writes' = writes \ {w}
    /\ lost' = Max({lost, w.gen})
    /\ UNCHANGED <<Config, Facts, runtime, allowed, task, gen, file, published, Table, runs,
                   streak>>

Observe(a, q) ==
    /\ quota[a] # q
    /\ quota' = [quota EXCEPT ![a] = q]
    /\ UNCHANGED <<Config, pool, healthy, State, task, Disk, Table, runs, streak>>

Recover(a) ==
    /\ a \notin healthy
    /\ healthy' = healthy \union {a}
    /\ UNCHANGED <<Config, pool, quota, State, task, Disk, Table, runs, streak>>

\* MINIMUM_HOLD_SECS pass for the timestamp of a, in memory and on disk.
HoldElapses(a) ==
    LET aged(r) == IF r.exhausted[a] = "held" THEN [r EXCEPT !.exhausted[a] = "over"] ELSE r
    IN  /\ runtime.exhausted[a] = "held"
        /\ runtime' = aged(runtime)
        /\ file' = [file EXCEPT !.state = aged(@)]
        /\ writes' = {[w EXCEPT !.state = aged(@)] : w \in writes}
        /\ UNCHANGED <<Config, Facts, allowed, gen, task, published, lost, Table, runs, streak>>

\* The file is damaged from outside.
Damage ==
    /\ Faults
    /\ file.parses
    /\ file' = [file EXCEPT !.parses = FALSE]
    /\ UNCHANGED <<Config, Facts, State, task, published, lost, Table, runs, streak>>

\* SchedulerRegistry::load in a new process; AppState::new then sets the allowlist.
\* Writes that had not run, and reservations, are gone.
Restart ==
    /\ runs < MaxRuns
    /\ runs' = runs + 1
    /\ parse_failed' = ~file.parses
    /\ Reconcile(IF file.parses THEN file.state ELSE Fresh,
                 [settings EXCEPT !.enabled = @ /\ file.parses], pool, {}, 0)
    /\ task' = [t \in Task |-> Idle]
    /\ file' = [file EXCEPT !.gen = 0]
    /\ published' = 0
    /\ lost' = 0
    /\ reservations' = [i \in Instance |-> NoAccount]
    /\ active' = pool
    /\ UNCHANGED <<settings, Facts, streak>>

Step(t) ==
    \/ ReadSettings(t) \/ Locked(t) \/ RetainAccounts(t)
    \/ RecordNonAuthFailure(t) \/ RecordSuccess(t)

Reply(t) == Benched(t) \/ \E kind \in Outcomes \ {"benched"} : Ends(t, kind)

Next ==
    \/ \E t \in Task :
         \/ Step(t) \/ Reply(t) \/ GetStatus(t)
         \/ \E a \in Account : Request(t, a)
         \/ \E on \in BOOLEAN, p \in Orders : UpdateSettings(t, [enabled |-> on, priorities |-> p])
         \/ \E live \in Pools : RescanPool(t, live)
    \/ \E i \in Instance : Release(i) \/ \E a \in Account : Reserve(i, a)
    \/ \E w \in writes : PersistGeneration(w) \/ PersistFails(w)
    \/ \E a \in Account : Recover(a) \/ HoldElapses(a) \/ \E q \in Quota : Observe(a, q)
    \/ Damage \/ Restart

Spec == Init /\ [][Next]_vars
-----------------------------------------------------------------------------
States == [selected : Account \union {NoAccount},
           exhausted : [Account -> {"no", "held", "over"}],
           failures : [Account -> 0 .. 3]]

Settings == [enabled : BOOLEAN, priorities : Orders \union {NoOrder}]
TaskStates == [at : {"idle", "serving", "record", "reconcile", "locking", "retain"},
               account : Account \union {NoAccount},
               kind : {"none", "success", "failure", "rescan"},
               list : SUBSET Account, seen : Settings]

\* The state in memory and on disk is well formed, and the writes under way are no
\* newer than the generation counter.
TypeOK ==
    /\ settings \in Settings
    /\ parse_failed \in BOOLEAN
    /\ pool \in Pools /\ active \in Pools /\ healthy \subseteq Account
    /\ quota \in [Account -> Quota]
    /\ runtime \in States /\ allowed \in Account \union {NoAccount}
    /\ task \in [Task -> TaskStates]
    /\ writes \subseteq [gen : 1 .. gen, state : States]
    /\ file \in [gen : {published}, state : States, parses : BOOLEAN]
    /\ gen \in 0 .. MaxGen /\ published \in 0 .. gen /\ lost \in 0 .. gen
    /\ reservations \in [Instance -> Account \union {NoAccount}]
    /\ runs \in 0 .. MaxRuns /\ streak \in [Account -> 0 .. 3]

\* The selected account is never one whose exhaustion has not ended: what the
\* selection of algorithm.rs admits and what the hold of reconcile ends agree,
\* whatever the quotas do.
SelectedIsRecovered ==
    \A a \in Account : runtime.selected = a => runtime.exhausted[a] = "no"

\* Once the background writes have run, and the newest did not fail, the file has
\* the selection and the holds of the running process, in whatever order they ran.
FileIsLatest ==
    (writes = {} /\ file.parses /\ (gen = 0 \/ lost < gen) /\ ~parse_failed)
        => /\ file.state.selected = runtime.selected
           /\ file.state.exhausted = runtime.exhausted

\* No two instances have the same account, and with no rescan under way every
\* reserved account is in the pool.
ReservationsAreExclusive ==
    \A i \in Instance :
        reservations[i] # NoAccount =>
            /\ \A j \in Instance \ {i} : reservations[j] # reservations[i]
            /\ (\A t \in Task : task[t].kind # "rescan") => reservations[i] \in pool

\* Automatic selection leaves an account that is still usable only for one whose
\* window resets more than the margin earlier.
SwitchesForAReason ==
    [][\A t \in Task, a \in Account, b \in Account :
          (/\ a # b /\ Locked(t) /\ runtime.selected = a /\ runtime'.selected = b
           /\ task[t].seen.priorities = NoOrder
           /\ a \in task[t].list \intersect healthy
           /\ runtime.failures[a] < 3 /\ quota[a].remaining \in {"mid", "high"})
          => quota[b].reset + Margin < quota[a].reset]_vars

\* CONTRACTS.md: an account is set aside after three consecutive failures.
ParkedAfterThree ==
    \A a \in Account : runtime.failures[a] = 3 => streak[a] = 3

\* Within a process an account is set aside after three failures in a row only
\* (record_failure, record_success), and it is reserved once and only while it
\* is in the pool (reserve, retain_accounts).
SetAsideAndReserved == ParkedAfterThree /\ ReservationsAreExclusive
=============================================================================
