---------------------------- MODULE MCScheduler -----------------------------
(***************************************************************************)
(* Scheduler for TLC.  Tasks reconcile, the console changes the settings   *)
(* and holds elapse in every behaviour; what else happens is of one kind:  *)
(* quotas move and the sidecar fails, requests succeed and fail, or the    *)
(* pool changes.                                                           *)
(***************************************************************************)
EXTENDS Scheduler

CONSTANT t1

VARIABLE trouble

Window(remaining, reset) == [remaining |-> remaining, reset |-> reset]

\* Quotas for the selection: exhausted, between the thresholds, and well off with
\* resets on both sides of the margin.
Varied == {Window("low", 1), Window("mid", 1), Window("high", 2), Window("high", 4)}

\* The second account before the first.
Manual == {NoOrder, [a \in Account |-> Cardinality(Account) - a]}

\* The second account resets so much earlier that it is preferred.
Rivals == [a \in Account |-> IF a = 1 THEN Window("high", 4) ELSE Window("mid", 1)]

\* All the accounts, or the first alone.
Smaller == {Account, {1}}

MCInit ==
    /\ Init /\ pool = Account
    /\ trouble \in {"quota", "requests", "pool"}
    /\ trouble = "requests" => quota = Rivals

Always ==
    /\ \/ \E t \in Task : ReadSettings(t) \/ Locked(t) \/ GetStatus(t)
       \/ \E t \in Task, on \in BOOLEAN, p \in Orders :
            /\ trouble = "quota" \/ p = NoOrder
            /\ UpdateSettings(t, [enabled |-> on, priorities |-> p])
       \/ \E a \in Account : HoldElapses(a)
    /\ UNCHANGED trouble

QuotaMoves ==
    /\ trouble = "quota"
    /\ \E a \in Account, q \in Quota : Observe(a, q)
    /\ UNCHANGED trouble

SidecarIsWritten ==
    /\ trouble = "quota"
    /\ (\E w \in writes : PersistGeneration(w) \/ PersistFails(w)) \/ Damage \/ Restart
    /\ UNCHANGED trouble

RequestIsServed ==
    /\ trouble = "requests"
    /\ \/ \E t \in Task : Reply(t) \/ RecordNonAuthFailure(t) \/ RecordSuccess(t)
       \/ \E t \in Task, a \in Account : Request(t, a)
       \/ \E a \in Account : Recover(a)
    /\ UNCHANGED trouble

PoolChanges ==
    /\ trouble = "pool"
    /\ \E t \in Task : RetainAccounts(t) \/ \E live \in Pools : RescanPool(t, live)
    /\ UNCHANGED trouble

MCNext == Always \/ QuotaMoves \/ SidecarIsWritten \/ RequestIsServed \/ PoolChanges

MCSpec == MCInit /\ [][MCNext]_<<vars, trouble>>
=============================================================================
