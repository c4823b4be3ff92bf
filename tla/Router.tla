------------------------------- MODULE Router -------------------------------
(***************************************************************************)
(* Account selection, crates/router/src/lib.rs.  Every method runs under   *)
(* one mutex, so one call is one atomic step.  The caller's arguments (the *)
(* candidate list, which of its members are healthy now, the opaque        *)
(* affinity key) come from the relay and are chosen freely: a request may  *)
(* hold an old pool snapshot, so a list may name members that a            *)
(* retain_members call has already dropped.                                *)
(***************************************************************************)
EXTENDS Integers, Sequences, FiniteSets

CONSTANTS
    Member,      \* account ids
    Key,         \* scoped affinity keys, opaque to the router
    Pools,       \* the candidate lists a caller may pass
    MaxEntries,  \* AFFINITY_MAX_ENTRIES
    MaxIdle,     \* AFFINITY_MAX_IDLE
    MaxSeq,      \* bound on the service counter (u64 in the code)
    NoMember, NoKey

ASSUME PoolsAssumption == Pools \subseteq Seq(Member)
ASSUME BoundsAssumption == MaxEntries \in Nat /\ MaxIdle \in Nat /\ MaxSeq \in Nat
ASSUME NoneAssumption == NoMember \notin Member /\ NoKey \notin Key

VARIABLES
    strategy,    \* Router.strategy
    active,      \* RouterState.active; `None` admits everybody, as Member does
    last_served, \* RouterState.last_served; 0 where the map has no entry
    seq,         \* RouterState.seq
    affinity,    \* RouterState.affinity; Unbound where the map has no entry
    picked       \* what the latest select returned

vars == <<strategy, active, last_served, seq, affinity, picked>>

Strategies == {"StrictRoundRobin", "FillFirst"}

Unbound == [id |-> NoMember, seq |-> 0]

Bindings == [id : Member, seq : Nat \ {0}] \union {Unbound}

BoundKeys(a) == {k \in Key : a[k] # Unbound}

Tracked == {m \in Member : last_served[m] # 0}

Init ==
    /\ strategy \in Strategies
    /\ active = Member
    /\ last_served = [m \in Member |-> 0]
    /\ seq = 0
    /\ affinity = [k \in Key |-> Unbound]
    /\ picked = NoMember

-----------------------------------------------------------------------------

\* Mutant: the allowlist is not consulted.
MutAdmitsEverybody(id) == id \in Member

Admits(id) == id \in active

\* seq.saturating_sub(AFFINITY_MAX_IDLE)
Cutoff(n) == IF n > MaxIdle THEN n - MaxIdle ELSE 0

\* Mutant: keeps only the binding just made.
MutEvictAllOthers(a, n) == [k \in Key |-> IF a[k].seq >= n THEN a[k] ELSE Unbound]

\* affinity.retain(|_, (_, s)| *s >= cutoff)
Evict(a, n) == [k \in Key |-> IF a[k].seq >= Cutoff(n) THEN a[k] ELSE Unbound]

\* Mutant: the binding takes the counter's value from before the increment.
MutBindOldCounter(a, key, m, n) ==
    IF key = NoKey THEN a ELSE [a EXCEPT ![key] = [id |-> m, seq |-> n - 1]]

Bind(a, key, m, n) ==
    IF key = NoKey THEN a ELSE [a EXCEPT ![key] = [id |-> m, seq |-> n]]

\* Insert a binding and drop the idle ones once the map is over its size.
BindAndTrim(a, key, m, n) ==
    LET b == Bind(a, key, m, n)
    IN  IF key # NoKey /\ Cardinality(BoundKeys(b)) > MaxEntries THEN Evict(b, n) ELSE b

-----------------------------------------------------------------------------

SetStrategy(s) ==
    /\ strategy' = s
    /\ UNCHANGED <<active, last_served, seq, affinity, picked>>

\* Mutant: the forced selection does not advance the counter.
MutForcedKeepsCounter(m, key) ==
    /\ Admits(m)
    /\ seq < MaxSeq
    /\ last_served' = [last_served EXCEPT ![m] = seq + 1]
    /\ affinity' = Bind(affinity, key, m, seq + 1)
    /\ UNCHANGED <<strategy, active, picked, seq>>

SelectForced(m, key) ==
    /\ Admits(m)
    /\ seq < MaxSeq
    /\ seq' = seq + 1
    /\ last_served' = [last_served EXCEPT ![m] = seq + 1]
    /\ affinity' = Bind(affinity, key, m, seq + 1)
    /\ UNCHANGED <<strategy, active, picked>>

\* The member the key is bound to, when select may stick to it.
Sticks(members, avail, key) ==
    /\ key # NoKey
    /\ affinity[key] # Unbound
    /\ Admits(affinity[key].id)
    /\ \E i \in DOMAIN members : members[i] = affinity[key].id /\ members[i] \in avail

SelectBound(members, avail, key) ==
    /\ Sticks(members, avail, key)
    /\ seq < MaxSeq
    /\ picked' = affinity[key].id
    /\ seq' = seq + 1
    /\ last_served' = [last_served EXCEPT ![affinity[key].id] = seq + 1]
    /\ affinity' = Bind(affinity, key, affinity[key].id, seq + 1)
    /\ UNCHANGED <<strategy, active>>

\* What both strategies do with the member they choose.
Serve(m, key) ==
    /\ seq < MaxSeq
    /\ picked' = m
    /\ seq' = seq + 1
    /\ IF Admits(m)
       THEN /\ last_served' = [last_served EXCEPT ![m] = seq + 1]
            /\ affinity' = BindAndTrim(affinity, key, m, seq + 1)
       ELSE UNCHANGED <<last_served, affinity>>
    /\ UNCHANGED <<strategy, active>>

Available(members, avail) == {i \in DOMAIN members : members[i] \in avail}

SelectFillFirst(members, avail, key) ==
    /\ ~Sticks(members, avail, key)
    /\ strategy = "FillFirst"
    /\ \E i \in Available(members, avail) :
          /\ \A j \in Available(members, avail) : i <= j
          /\ Serve(members[i], key)

\* Mutant: the scan keeps the member with the largest stamp.
MutLeastRecentlyServed(members, avail, i) ==
    \A j \in Available(members, avail) : last_served[members[i]] >= last_served[members[j]]

\* The scan keeps the first member with the smallest stamp.
LeastRecentlyServed(members, avail, i) ==
    \A j \in Available(members, avail) :
        \/ last_served[members[i]] < last_served[members[j]]
        \/ last_served[members[i]] = last_served[members[j]] /\ i <= j

SelectStrictRoundRobin(members, avail, key) ==
    /\ ~Sticks(members, avail, key)
    /\ strategy = "StrictRoundRobin"
    /\ \E i \in Available(members, avail) :
          /\ LeastRecentlyServed(members, avail, i)
          /\ Serve(members[i], key)

SelectNone(members, avail) ==
    /\ Available(members, avail) = {}
    /\ picked' = NoMember
    /\ UNCHANGED <<strategy, active, last_served, seq, affinity>>

\* Mutant: prunes the rotation but not the bindings.
MutRetainKeepsBindings(live) ==
    /\ active' = live
    /\ last_served' = [m \in Member |-> IF m \in live THEN last_served[m] ELSE 0]
    /\ UNCHANGED <<strategy, seq, affinity, picked>>

RetainMembers(live) ==
    /\ active' = live
    /\ last_served' = [m \in Member |-> IF m \in live THEN last_served[m] ELSE 0]
    /\ affinity' = [k \in Key |-> IF affinity[k].id \in live THEN affinity[k] ELSE Unbound]
    /\ UNCHANGED <<strategy, seq, picked>>

Next ==
    \/ \E s \in Strategies : SetStrategy(s)
    \/ \E m \in Member, key \in Key \union {NoKey} : SelectForced(m, key)
    \/ \E members \in Pools, avail \in SUBSET Member, key \in Key \union {NoKey} :
          \/ SelectBound(members, avail, key)
          \/ SelectFillFirst(members, avail, key)
          \/ SelectStrictRoundRobin(members, avail, key)
          \/ SelectNone(members, avail)
    \/ \E live \in SUBSET Member : RetainMembers(live)

Spec == Init /\ [][Next]_vars

-----------------------------------------------------------------------------

\* The rotation holds a stamp per member, the affinity map a binding per key.
TypeOK ==
    /\ strategy \in Strategies
    /\ active \subseteq Member
    /\ last_served \in [Member -> Nat]
    /\ seq \in Nat
    /\ affinity \in [Key -> Bindings]
    /\ picked \in Member \union {NoMember}

\* No rotation stamp and no binding names a member outside the allowlist that
\* the latest retain_members activated, whatever stale list a select was given.
BookkeepingIsLive ==
    /\ Tracked \subseteq active
    /\ \A k \in BoundKeys(affinity) : affinity[k].id \in active

\* Two members never share a stamp and two keys never share one, so the
\* rotation order and the eviction order are both total.
StampsAreDistinct ==
    /\ \A m, n \in Tracked : last_served[m] = last_served[n] => m = n
    /\ \A j, k \in BoundKeys(affinity) : affinity[j].seq = affinity[k].seq => j = k

\* A binding is never newer than the latest service of its member, which is
\* itself never ahead of the counter: whoever holds a binding is in the rotation.
BindingIsBackedByService ==
    /\ \A m \in Member : last_served[m] <= seq
    /\ \A k \in BoundKeys(affinity) : affinity[k].seq <= last_served[affinity[k].id]

\* The bookkeeping of select, select_forced and retain_members is consistent.
\* It is inductive as a whole: the bookkeeping is live only because stamps never
\* run ahead of the counter and bindings never run ahead of their member.
Consistent ==
    /\ TypeOK
    /\ BookkeepingIsLive
    /\ StampsAreDistinct
    /\ BindingIsBackedByService

\* A step writes at most one binding, so pinning one scope never overwrites
\* another one; and it takes a binding away only by retain_members dropping its
\* member, or because the binding was idle for more than MaxIdle selections.
ScopesAreIndependent ==
    [][ /\ \A j, k \in Key :
              (/\ affinity'[j] \notin {affinity[j], Unbound}
               /\ affinity'[k] \notin {affinity[k], Unbound}) => j = k
        /\ \A k \in BoundKeys(affinity) :
              affinity'[k] = Unbound =>
                 \/ affinity[k].id \notin active'
                 \/ affinity[k].seq + MaxIdle < seq' ]_vars
=============================================================================
