--------------------------- MODULE RoutingProofs ---------------------------
(***************************************************************************)
(* Proofs about the router and about the session pinning around it. The    *)
(* router's bookkeeping is consistent, its scopes are independent, and     *)
(* with the requests it answers it implements Selection. Sessions are      *)
(* pinned to subscriptions only, a pin moves only when it was lost, and a  *)
(* conversation stays with the account that served it.                     *)
(***************************************************************************)
EXTENDS RouterRequests, ClaudePinning, TLAPS

\* The router

\* Every call leaves the router's fields in their types, whatever lists, keys
\* and allowlists it is called with.
LEMMA TypeStep == TypeOK /\ [Next]_vars => TypeOK'
<1> SUFFICES ASSUME TypeOK, [Next]_vars PROVE TypeOK'
  BY Zenon
<1> USE BoundsAssumption, PoolsAssumption, NoneAssumption
<1>1. ASSUME NEW s \in Strategies, SetStrategy(s) PROVE TypeOK'
  BY <1>1, Zenon DEF TypeOK, SetStrategy
<1>2. ASSUME NEW m \in Member, NEW key \in Key \union {NoKey}, SelectForced(m, key)
      PROVE TypeOK'
  BY <1>2 DEF TypeOK, SelectForced, Bind, Bindings
<1>3. ASSUME NEW m \in Member, NEW key \in Key \union {NoKey}, Serve(m, key)
      PROVE TypeOK'
  BY <1>3 DEF TypeOK, Serve, BindAndTrim, Bind, Evict, Bindings, Unbound
<1>4. ASSUME NEW members \in Pools, NEW avail \in SUBSET Member,
             NEW key \in Key \union {NoKey},
             SelectBound(members, avail, key)
      PROVE TypeOK'
  BY <1>4 DEF TypeOK, SelectBound, Sticks, Bind, Bindings, Unbound
<1>5. ASSUME NEW members \in Pools, NEW avail \in SUBSET Member,
             NEW key \in Key \union {NoKey},
             \/ SelectFillFirst(members, avail, key)
             \/ SelectStrictRoundRobin(members, avail, key)
      PROVE TypeOK'
  <2>1. PICK i \in DOMAIN members : Serve(members[i], key)
    BY <1>5, Zenon DEF SelectFillFirst, SelectStrictRoundRobin, Available
  <2>2. members[i] \in Member
    BY <2>1
  <2> QED BY <2>1, <2>2, <1>3, Zenon
<1>6. ASSUME NEW members \in Pools, NEW avail \in SUBSET Member,
             SelectNone(members, avail)
      PROVE TypeOK'
  BY <1>6, Zenon DEF TypeOK, SelectNone
<1>7. ASSUME NEW live \in SUBSET Member, RetainMembers(live) PROVE TypeOK'
  BY <1>7, Zenon DEF TypeOK, RetainMembers, Bindings, Unbound
<1>8. CASE UNCHANGED vars
  BY <1>8, Zenon DEF TypeOK, vars
<1> QED BY <1>1, <1>2, <1>4, <1>5, <1>6, <1>7, <1>8, Zenon DEF Next

\* TypeOK holds in every state the router reaches.
THEOREM TypeCorrect == Spec => []TypeOK
<1>1. Init => TypeOK
  BY NoneAssumption DEF Init, TypeOK, Bindings, Unbound
<1> QED BY <1>1, TypeStep, PTL DEF Spec

-----------------------------------------------------------------------------

\* What every recording call has in common: it serves the admitted member m under
\* the next stamp, gives key (if any) a binding to m, and leaves the other
\* bindings as they are, or evicts them.
Records(m, key) ==
    /\ m \in active
    /\ active' = active
    /\ seq' = seq + 1
    /\ last_served' = [last_served EXCEPT ![m] = seq + 1]
    /\ \A k \in Key :
          \/ affinity'[k] = affinity[k]
          \/ affinity'[k] = Unbound
          \/ k = key /\ affinity'[k] = [id |-> m, seq |-> seq + 1]

\* A recording call keeps the three safety invariants of the bookkeeping.
LEMMA RecordsKeepsConsistent ==
    ASSUME Consistent, TypeOK', NEW m \in Member, NEW key, Records(m, key)
    PROVE  Consistent'
<1> USE DEF Consistent, TypeOK, Records, Tracked, BoundKeys
<1>1. BookkeepingIsLive'
  BY DEF BookkeepingIsLive
<1>2. BindingIsBackedByService'
  <2>1. \A n \in Member : last_served'[n] <= seq'
    BY DEF BindingIsBackedByService
  <2>2. ASSUME NEW k \in Key, affinity'[k] # Unbound
        PROVE  affinity'[k].seq <= last_served'[affinity'[k].id]
    <3>1. CASE affinity'[k] = affinity[k]
      <4>1. affinity[k].id \in Member /\ affinity[k].seq \in Nat
        BY <3>1, <2>2, Zenon DEF Bindings
      <4>2. affinity[k].seq <= last_served[affinity[k].id]
        BY <3>1, <2>2, Zenon DEF BindingIsBackedByService
      <4>3. last_served[affinity[k].id] <= seq
        BY <4>1, Zenon DEF BindingIsBackedByService
      <4> QED BY <3>1, <4>1, <4>2, <4>3
    <3>2. CASE affinity'[k] = [id |-> m, seq |-> seq + 1]
      BY <3>2
    <3> QED BY <2>2, <3>1, <3>2, Zenon
  <2> QED BY <2>1, <2>2, Zenon DEF BindingIsBackedByService
<1>3. StampsAreDistinct'
  <2>1. \A n \in Member : last_served[n] < seq + 1
    BY DEF BindingIsBackedByService
  <2>2. \A k \in Key : affinity[k] # Unbound => affinity[k].seq < seq + 1
    <3> SUFFICES ASSUME NEW k \in Key, affinity[k] # Unbound
                 PROVE  affinity[k].seq < seq + 1
      BY Zenon
    <3>1. affinity[k].id \in Member /\ affinity[k].seq \in Nat
      BY Zenon DEF Bindings
    <3>2. affinity[k].seq <= last_served[affinity[k].id]
      BY Zenon DEF BindingIsBackedByService
    <3> QED BY <3>1, <3>2, <2>1
  <2>3. \A a, b \in Member :
           (/\ last_served'[a] # 0
            /\ last_served'[b] # 0
            /\ last_served'[a] = last_served'[b]) => a = b
    BY <2>1 DEF StampsAreDistinct
  <2>4. ASSUME NEW j \in Key, NEW k \in Key,
               affinity'[j] # Unbound, affinity'[k] # Unbound,
               affinity'[j].seq = affinity'[k].seq
        PROVE  j = k
    <3>1. CASE affinity'[j] = affinity[j] /\ affinity'[k] = affinity[k]
      BY <2>4, <3>1, Zenon DEF StampsAreDistinct
    <3>2. CASE j = key /\ affinity'[j] = [id |-> m, seq |-> seq + 1]
      BY <2>2, <2>4, <3>2
    <3>3. CASE k = key /\ affinity'[k] = [id |-> m, seq |-> seq + 1]
      BY <2>2, <2>4, <3>3
    <3> QED BY <2>4, <3>1, <3>2, <3>3, Zenon
  <2> QED BY <2>3, <2>4, Zenon DEF StampsAreDistinct
<1> QED BY <1>1, <1>2, <1>3, Zenon

\* A step that drops stamps and bindings, and creates none, keeps them too.
LEMMA ForgettingKeepsConsistent ==
    ASSUME Consistent, TypeOK', seq' >= seq,
           \A m \in Member : last_served'[m] \in {last_served[m], 0},
           \A m \in Member : last_served'[m] # 0 => m \in active',
           \A k \in Key : \/ affinity'[k] = Unbound
                           \/ /\ affinity'[k] = affinity[k]
                              /\ affinity[k].id \in active'
                              /\ last_served'[affinity[k].id] = last_served[affinity[k].id]
    PROVE  Consistent'
<1> USE DEF Consistent, TypeOK, Tracked, BoundKeys
<1>1. BookkeepingIsLive'
  BY Zenon DEF BookkeepingIsLive
<1>2. BindingIsBackedByService'
  <2>1. \A m \in Member : last_served'[m] <= seq'
    BY DEF BindingIsBackedByService
  <2>2. \A k \in Key : affinity'[k] # Unbound =>
                          affinity'[k].seq <= last_served'[affinity'[k].id]
    BY Zenon DEF BindingIsBackedByService
  <2> QED BY <2>1, <2>2, Zenon DEF BindingIsBackedByService
<1>3. StampsAreDistinct'
  BY DEF StampsAreDistinct
<1> QED BY <1>1, <1>2, <1>3, Zenon

\* Every call of the router preserves the inductive invariant.
LEMMA ConsistentStep == Consistent /\ [Next]_vars => Consistent'
<1> SUFFICES ASSUME Consistent, [Next]_vars PROVE Consistent'
  OBVIOUS
<1>0. TypeOK'
  BY TypeStep, Zenon DEF Consistent
<1> USE BoundsAssumption, PoolsAssumption, NoneAssumption
<1>1. ASSUME NEW s \in Strategies, SetStrategy(s) PROVE Consistent'
  BY <1>0, <1>1, Zenon DEF SetStrategy, Consistent, BookkeepingIsLive, StampsAreDistinct,
                    BindingIsBackedByService, Tracked, BoundKeys
<1>2. ASSUME NEW m \in Member, NEW key \in Key \union {NoKey}, SelectForced(m, key)
      PROVE Consistent'
  <2>1. Records(m, key)
    BY <1>2, Zenon DEF SelectForced, Records, Admits, Bind, Consistent, TypeOK
  <2> QED BY <1>0, <2>1, RecordsKeepsConsistent, Zenon
<1>3. ASSUME NEW m \in Member, NEW key \in Key \union {NoKey}, Serve(m, key)
      PROVE Consistent'
  <2>1. CASE Admits(m)
    <3>1. Records(m, key)
      BY <1>3, <2>1, Zenon DEF Serve, Records, Admits, BindAndTrim, Bind, Evict, Consistent, TypeOK
    <3> QED BY <1>0, <3>1, RecordsKeepsConsistent
  <2>2. CASE ~Admits(m)
    <3>1. /\ seq' = seq + 1
          /\ UNCHANGED <<last_served, affinity, active>>
      BY <1>3, <2>2, Zenon DEF Serve
    <3>2. \A k \in Key : affinity[k] # Unbound => affinity[k].id \in active
      BY Zenon DEF Consistent, BookkeepingIsLive, BoundKeys
    <3>3. \A n \in Member : last_served[n] # 0 => n \in active
      BY Zenon DEF Consistent, BookkeepingIsLive, Tracked
    <3>4. seq' >= seq
      BY <3>1 DEF Consistent, TypeOK
    <3> QED BY <1>0, <3>1, <3>2, <3>3, <3>4, ForgettingKeepsConsistent, Zenon
  <2> QED BY <2>1, <2>2, Zenon
<1>4. ASSUME NEW members \in Pools, NEW avail \in SUBSET Member,
             NEW key \in Key \union {NoKey},
             SelectBound(members, avail, key)
      PROVE Consistent'
  <2>1. key \in Key /\ affinity[key] # Unbound /\ Admits(affinity[key].id)
    BY <1>4, Zenon DEF SelectBound, Sticks
  <2>2. affinity[key].id \in Member
    BY <2>1, Zenon DEF Consistent, TypeOK, Bindings
  <2>3. Records(affinity[key].id, key)
    BY <1>4, <2>1, Zenon DEF SelectBound, Records, Admits, Bind, Consistent, TypeOK
  <2> QED BY <1>0, <2>2, <2>3, RecordsKeepsConsistent, Zenon
<1>5. ASSUME NEW members \in Pools, NEW avail \in SUBSET Member,
             NEW key \in Key \union {NoKey},
             \/ SelectFillFirst(members, avail, key)
             \/ SelectStrictRoundRobin(members, avail, key)
      PROVE Consistent'
  <2>1. PICK i \in DOMAIN members : Serve(members[i], key)
    BY <1>5 DEF SelectFillFirst, SelectStrictRoundRobin, Available
  <2>2. members[i] \in Member
    BY <2>1
  <2> QED BY <2>1, <2>2, <1>3
<1>6. ASSUME NEW members \in Pools, NEW avail \in SUBSET Member,
             SelectNone(members, avail)
      PROVE Consistent'
  BY <1>0, <1>6, Zenon DEF SelectNone, Consistent, BookkeepingIsLive, StampsAreDistinct,
                    BindingIsBackedByService, Tracked, BoundKeys
<1>7. ASSUME NEW live \in SUBSET Member, RetainMembers(live) PROVE Consistent'
  <2>1. seq' >= seq
    BY <1>7 DEF RetainMembers, Consistent, TypeOK
  <2>2. \A m \in Member : last_served'[m] \in {last_served[m], 0}
    BY <1>7, Zenon DEF RetainMembers
  <2>4. \A m \in Member : last_served'[m] # 0 => m \in active'
    BY <1>7, Zenon DEF RetainMembers
  <2>3. \A k \in Key : \/ affinity'[k] = Unbound
                        \/ /\ affinity'[k] = affinity[k]
                           /\ affinity[k].id \in active'
                           /\ last_served'[affinity[k].id] = last_served[affinity[k].id]
    BY <1>7, Zenon DEF RetainMembers
  <2> QED BY <1>0, <2>1, <2>2, <2>3, <2>4, ForgettingKeepsConsistent, Zenon
<1>8. CASE UNCHANGED vars
  BY <1>0, <1>8, Zenon DEF vars, Consistent, BookkeepingIsLive, StampsAreDistinct,
                    BindingIsBackedByService, Tracked, BoundKeys
<1> QED BY <1>1, <1>2, <1>4, <1>5, <1>6, <1>7, <1>8 DEF Next

\* The router is consistent in every state it reaches.
THEOREM AlwaysConsistent == Spec => []Consistent
<1>1. Init => Consistent
  BY NoneAssumption DEF Init, Consistent, TypeOK, Bindings, Unbound, BookkeepingIsLive,
     StampsAreDistinct, BindingIsBackedByService, Tracked, BoundKeys
<1> QED BY <1>1, ConsistentStep, PTL DEF Spec

\* select and select_forced never record a member outside the allowlist, however
\* old the caller's candidate list is.
THEOREM LiveBookkeeping == Spec => []BookkeepingIsLive
BY AlwaysConsistent, PTL DEF Consistent

\* The rotation order and the eviction order are total.
THEOREM DistinctStamps == Spec => []StampsAreDistinct
BY AlwaysConsistent, PTL DEF Consistent

\* A bound member is in the rotation, at least as recently as its binding.
THEOREM BackedBindings == Spec => []BindingIsBackedByService
BY AlwaysConsistent, PTL DEF Consistent

-----------------------------------------------------------------------------

\* What ScopesAreIndependent says of one step.
IndependentStep ==
    /\ \A j, k \in Key :
          (/\ affinity'[j] \notin {affinity[j], Unbound}
           /\ affinity'[k] \notin {affinity[k], Unbound}) => j = k
    /\ \A k \in BoundKeys(affinity) :
          affinity'[k] = Unbound =>
             \/ affinity[k].id \notin active'
             \/ affinity[k].seq + MaxIdle < seq'

\* Serving a request evicts only bindings that were idle too long.
LEMMA ServeIsIndependent ==
    ASSUME TypeOK, NEW m \in Member, NEW key \in Key \union {NoKey}, Serve(m, key)
    PROVE  IndependentStep
<1> USE NoneAssumption, BoundsAssumption
<1>1. CASE ~Admits(m)
  BY <1>1, Zenon DEF Serve, IndependentStep, BoundKeys
<1>2. CASE Admits(m)
  <2> DEFINE b == Bind(affinity, key, m, seq + 1)
  <2>1. affinity' \in {b, Evict(b, seq + 1)} /\ seq' = seq + 1
    BY <1>2, Zenon DEF Serve, BindAndTrim
  <2>2. b \in [Key -> Bindings]
    BY DEF Bind, TypeOK, Bindings
  <2>3. \A k \in Key : k # key => b[k] = affinity[k]
    BY Zenon DEF Bind, TypeOK
  <2>4. \A k \in Key : k = key => b[k] = [id |-> m, seq |-> seq + 1]
    BY Zenon DEF Bind, TypeOK
  <2>5. \A k \in Key : affinity'[k] \in {b[k], Unbound}
    BY <2>1, Zenon DEF Evict
  <2>6. \A k \in Key : affinity'[k] # b[k] => b[k].seq < Cutoff(seq + 1)
    BY <2>1, <2>2 DEF Evict, Cutoff, Bindings, Unbound, TypeOK
  <2> HIDE DEF b
  <2>7. ASSUME NEW k \in Key, affinity[k] # Unbound, affinity'[k] = Unbound
        PROVE  affinity[k].seq + MaxIdle < seq'
    <3>1. b[k] # Unbound
      BY <2>3, <2>4, <2>7 DEF Unbound
    <3>2. b[k].seq < Cutoff(seq + 1)
      BY <2>6, <2>7, <3>1, Zenon
    <3>3. k # key
      BY <2>4, <3>2 DEF Cutoff, TypeOK
    <3> QED BY <2>1, <2>2, <2>3, <3>2, <3>3 DEF Cutoff, TypeOK, Bindings, Unbound
  <2>8. \A j, k \in Key :
          (/\ affinity'[j] \notin {affinity[j], Unbound}
           /\ affinity'[k] \notin {affinity[k], Unbound}) => j = k
    BY <2>3, <2>5, Zenon
  <2> QED BY <2>7, <2>8, Zenon DEF IndependentStep, BoundKeys
<1> QED BY <1>1, <1>2, Zenon

\* A call writes at most one scope's binding, and removes one only for a dropped
\* member or for idleness: the promise "pinning one scope cannot overwrite
\* another", for any keys, lists and limits.
THEOREM IndependentScopes == Spec => ScopesAreIndependent
<1>1. TypeOK /\ [Next]_vars => [IndependentStep]_vars
  <2> SUFFICES ASSUME TypeOK, Next PROVE IndependentStep
    BY Zenon
  <2> USE NoneAssumption, PoolsAssumption, BoundsAssumption
  <2>1. ASSUME UNCHANGED affinity PROVE IndependentStep
    BY <2>1, Zenon DEF IndependentStep, BoundKeys
  <2>2. ASSUME NEW s \in Strategies, SetStrategy(s) PROVE IndependentStep
    BY <2>1, <2>2, Zenon DEF SetStrategy
  <2>3. ASSUME NEW m \in Member, NEW key \in Key \union {NoKey}, SelectForced(m, key)
        PROVE IndependentStep
    BY <2>3, Zenon DEF SelectForced, Bind, IndependentStep, BoundKeys, TypeOK, Unbound
  <2>4. ASSUME NEW members \in Pools, NEW avail \in SUBSET Member,
               NEW key \in Key \union {NoKey},
               SelectBound(members, avail, key)
        PROVE IndependentStep
    BY <2>4, Zenon DEF SelectBound, Sticks, Bind, IndependentStep, BoundKeys, TypeOK, Unbound, Bindings
  <2>5. ASSUME NEW members \in Pools, NEW avail \in SUBSET Member,
               NEW key \in Key \union {NoKey},
               \/ SelectFillFirst(members, avail, key)
               \/ SelectStrictRoundRobin(members, avail, key)
        PROVE IndependentStep
    <3>1. PICK i \in DOMAIN members : Serve(members[i], key)
      BY <2>5, Zenon DEF SelectFillFirst, SelectStrictRoundRobin, Available
    <3>2. members[i] \in Member
      BY <3>1
    <3> QED BY <3>1, <3>2, ServeIsIndependent, Zenon
  <2>6. ASSUME NEW members \in Pools, NEW avail \in SUBSET Member,
               SelectNone(members, avail)
        PROVE IndependentStep
    BY <2>1, <2>6, Zenon DEF SelectNone
  <2>7. ASSUME NEW live \in SUBSET Member, RetainMembers(live) PROVE IndependentStep
    BY <2>7, Zenon DEF RetainMembers, IndependentStep, BoundKeys
  <2> QED BY <2>2, <2>3, <2>4, <2>5, <2>6, <2>7, Zenon DEF Next
<1> QED BY <1>1, TypeCorrect, PTL DEF Spec, ScopesAreIndependent, IndependentStep

-----------------------------------------------------------------------------
(***************************************************************************)
(* The router, with the requests it answers, implements Selection, for any *)
(* members, keys, candidate lists and limits.                              *)
(***************************************************************************)

\* A recording call is, abstractly, a placement of the member at the end of the
\* rotation.
LEMMA RecordsPlaces ==
    ASSUME Consistent, NEW m \in Member, seq' = seq + 1,
           last_served' = [last_served EXCEPT ![m] = seq + 1]
    PROVE  Sel!Place(m)
<1> USE DEF Consistent, TypeOK
<1>1. \A n \in Member : last_served[n] < seq + 1 /\ last_served[n] \in Nat
  BY DEF BindingIsBackedByService
<1>2. Tracked' = Tracked \union {m}
  BY <1>1 DEF Tracked
<1>3. Older' = {p \in Older : p[1] # m} \union {<<a, m>> : a \in Member \ {m}}
  <2>1. \A a, b \in Member :
           last_served'[a] < last_served'[b]
             <=> \/ a # m /\ b # m /\ last_served[a] < last_served[b]
                 \/ a # m /\ b = m
    BY <1>1
  <2>2. \A a, b \in Member :
           (a # m /\ last_served[a] < last_served[b]) \/ (a # m /\ b = m)
             <=> \/ a # m /\ b # m /\ last_served[a] < last_served[b]
                 \/ a # m /\ b = m
    BY Zenon
  <2> QED BY <2>1, <2>2 DEF Older
<1> QED BY <1>2, <1>3, Zenon DEF Sel!Place

\* The binding of a scope, abstractly.
LEMMA BindPins ==
    ASSUME TypeOK, NEW m \in Member, NEW key \in Key \union {NoKey},
           affinity' = Bind(affinity, key, m, seq + 1)
    PROVE  Sel!Pin(key, m)
BY NoneAssumption, Zenon DEF Bind, Sel!Pin, Bound, TypeOK

\* Binding with eviction is pinning with forgetting.
LEMMA BindAndTrimForgets ==
    ASSUME TypeOK, NEW m \in Member, NEW key \in Key \union {NoKey},
           affinity' = BindAndTrim(affinity, key, m, seq + 1)
    PROVE  Sel!PinForgetting(key, m)
<1> USE NoneAssumption, BoundsAssumption
<1>1. CASE key = NoKey
  BY <1>1, Zenon DEF BindAndTrim, Bind, Sel!PinForgetting, Bound, TypeOK
<1>2. CASE key \in Key
  <2> DEFINE b == Bind(affinity, key, m, seq + 1)
  <2>1. b \in [Key -> Bindings] /\ b[key] = [id |-> m, seq |-> seq + 1]
    BY <1>2 DEF Bind, TypeOK, Bindings
  <2>2. \A k \in Key \ {key} : b[k] = affinity[k]
    BY <1>2, Zenon DEF Bind, TypeOK
  <2>3. affinity' \in {b, Evict(b, seq + 1)}
    BY Zenon DEF BindAndTrim
  <2>4. Evict(b, seq + 1)[key] = b[key]
    BY <1>2, <2>1 DEF Evict, Cutoff, TypeOK
  <2>5. \A k \in Key : Evict(b, seq + 1)[k] \in {b[k], Unbound}
    BY Zenon DEF Evict
  <2>6. \A k \in Key : affinity'[k] \in {b[k], Unbound}
    BY <2>3, <2>5, Zenon
  <2>7. affinity'[key] = b[key]
    BY <2>3, <2>4, Zenon
  <2> HIDE DEF b
  <2>8. \A k \in Key : Bound'[k] \in Member \union {NoMember}
    BY <2>1, <2>6 DEF Bound, Bindings, Unbound
  <2>9. Bound'[key] = m
    BY <1>2, <2>1, <2>7 DEF Bound
  <2>10. \A k \in Key \ {key} : Bound'[k] \in {Bound[k], NoMember}
    BY <2>2, <2>6 DEF Bound, Unbound
  <2>11. Bound' \in [Key -> Member \union {NoMember}]
    BY <2>8, Zenon DEF Bound
  <2> QED BY <1>2, <2>9, <2>10, <2>11, Zenon DEF Sel!PinForgetting
<1> QED BY <1>1, <1>2, Zenon

\* The code's scan of the list finds the bound member exactly when the scope is
\* sticky for the offered set.
LEMMA SticksIsSticky ==
    ASSUME TypeOK, NEW members \in Pools, NEW avail \in SUBSET Member,
           NEW key \in Key \union {NoKey}
    PROVE  /\ Offered(members, avail) \in SUBSET Member
           /\ Sticks(members, avail, key) <=> Sel!Sticky(Offered(members, avail), key)
<1> USE NoneAssumption, PoolsAssumption
<1>1. Offered(members, avail) \in SUBSET Member
  BY Zenon DEF Offered, Available
<1>2. Sticks(members, avail, key) => Sel!Sticky(Offered(members, avail), key)
  BY Zenon DEF Sticks, Admits, Sel!Sticky, Bound, Offered, Available
<1>3. Sel!Sticky(Offered(members, avail), key) => Sticks(members, avail, key)
  <2> SUFFICES ASSUME Sel!Sticky(Offered(members, avail), key)
               PROVE  Sticks(members, avail, key)
    BY Zenon
  <2>1. /\ key \in Key
        /\ affinity[key].id \in Offered(members, avail)
        /\ affinity[key].id \in active
    BY Zenon DEF Sel!Sticky, Bound
  <2>2. affinity[key].id # NoMember
    BY <1>1, <2>1, Zenon
  <2>3. affinity[key] # Unbound
    BY <2>2 DEF Unbound
  <2> QED BY <2>1, <2>3, Zenon DEF Sticks, Admits, Offered, Available
<1> QED BY <1>1, <1>2, <1>3, Zenon

\* Either strategy's choice is one the abstract selection allows.
LEMMA ServeRefines ==
    ASSUME Consistent, NEW S \in SUBSET Member, NEW m \in Member,
           NEW key \in Key \union {NoKey},
           ~ Sel!Sticky(S, key), Sel!MayServe(S, key, m), Serve(m, key),
           asked' = [offered |-> S, scope |-> key]
    PROVE  Sel!Serve(S, key, m)
<1>1. CASE Admits(m)
  <2>1. /\ seq' = seq + 1
        /\ last_served' = [last_served EXCEPT ![m] = seq + 1]
        /\ affinity' = BindAndTrim(affinity, key, m, seq + 1)
        /\ picked' = m /\ UNCHANGED <<strategy, active>>
    BY <1>1, Zenon DEF Serve
  <2>2. Sel!Place(m)
    BY <2>1, RecordsPlaces, Zenon
  <2>3. Sel!PinForgetting(key, m)
    BY <2>1, BindAndTrimForgets, Zenon DEF Consistent
  <2> QED BY <1>1, <2>1, <2>2, <2>3, Zenon DEF Sel!Serve, Admits
<1>2. CASE ~ Admits(m)
  BY <1>2, Zenon DEF Serve, Admits, Sel!Serve, Tracked, Older, Bound
<1> QED BY <1>1, <1>2, Zenon

\* Every call of the router is a step of Selection, or invisible to it.
LEMMA StepRefines == Consistent /\ [RequestNext]_requestVars => [Sel!Next]_(Sel!vars)
<1> SUFFICES ASSUME Consistent, [RequestNext]_requestVars PROVE Sel!Next \/ UNCHANGED Sel!vars
  BY Zenon
<1>0. TypeOK
  BY Zenon DEF Consistent
<1> USE NoneAssumption, PoolsAssumption
<1>1. ASSUME NEW s \in Strategies, SetStrategy(s), UNCHANGED asked PROVE Sel!Next
  <2>1. Sel!SetStrategy(s)
    BY <1>1, Zenon DEF SetStrategy, Sel!SetStrategy, Tracked, Older, Bound
  <2> QED BY <2>1, Zenon DEF Sel!Next, Strategies
<1>2. ASSUME NEW m \in Member, NEW key \in Key \union {NoKey}, SelectForced(m, key),
             UNCHANGED asked
      PROVE Sel!Next
  <2>1. Sel!Place(m)
    BY <1>2, RecordsPlaces, Zenon DEF SelectForced
  <2>2. Sel!Pin(key, m)
    BY <1>0, <1>2, BindPins, Zenon DEF SelectForced
  <2>3. Sel!Force(m, key)
    BY <1>2, <2>1, <2>2, Zenon DEF SelectForced, Admits, Sel!Force
  <2> QED BY <2>3, Zenon DEF Sel!Next
<1>3. ASSUME NEW members \in Pools, NEW avail \in SUBSET Member,
             NEW key \in Key \union {NoKey},
             SelectBound(members, avail, key),
             asked' = [offered |-> Offered(members, avail), scope |-> key]
      PROVE Sel!Next
  <2> DEFINE S == Offered(members, avail)
             m == affinity[key].id
  <2>1. S \in SUBSET Member /\ Sel!Sticky(S, key)
    BY <1>0, <1>3, SticksIsSticky, Zenon DEF SelectBound
  <2>2. key \in Key /\ m = Bound[key] /\ m \in S /\ m \in active /\ m \in Member
    BY <2>1, Zenon DEF Sel!Sticky, Bound
  <2>3. /\ seq' = seq + 1
        /\ last_served' = [last_served EXCEPT ![m] = seq + 1]
        /\ affinity' = Bind(affinity, key, m, seq + 1)
        /\ asked' = [offered |-> S, scope |-> key]
        /\ picked' = m /\ UNCHANGED <<strategy, active>>
    BY <1>3, Zenon DEF SelectBound
  <2> HIDE DEF S, m
  <2>4. Sel!Place(m)
    BY <2>2, <2>3, RecordsPlaces, Zenon
  <2>5. Sel!Pin(key, m)
    BY <1>0, <2>2, <2>3, BindPins, Zenon
  <2>6. Sel!Serve(S, key, m)
    BY <2>1, <2>2, <2>3, <2>4, <2>5, Zenon DEF Sel!Serve, Sel!MayServe
  <2> QED BY <2>1, <2>2, <2>6, Zenon DEF Sel!Next
<1>4. ASSUME NEW members \in Pools, NEW avail \in SUBSET Member,
             NEW key \in Key \union {NoKey},
             SelectFillFirst(members, avail, key) \/ SelectStrictRoundRobin(members, avail, key),
             asked' = [offered |-> Offered(members, avail), scope |-> key]
      PROVE Sel!Next
  <2> DEFINE S == Offered(members, avail)
  <2>1. S \in SUBSET Member /\ ~ Sel!Sticky(S, key)
    BY <1>0, <1>4, SticksIsSticky, Zenon DEF SelectFillFirst, SelectStrictRoundRobin
  <2>2. PICK i \in Available(members, avail) :
           /\ Serve(members[i], key)
           /\ strategy = "StrictRoundRobin" => LeastRecentlyServed(members, avail, i)
    BY <1>4, Zenon DEF SelectFillFirst, SelectStrictRoundRobin
  <2>3. members[i] \in S /\ members[i] \in Member
    BY <2>1, <2>2, Zenon DEF Offered
  <2>4. strategy = "StrictRoundRobin" => ~ \E n \in S : <<n, members[i]>> \in Older
    <3> SUFFICES ASSUME strategy = "StrictRoundRobin",
                        NEW j \in Available(members, avail),
                        <<members[j], members[i]>> \in Older
                 PROVE  FALSE
      BY Zenon DEF Offered
    <3>1. members[j] \in Member
      BY Zenon DEF Available
    <3>2. last_served[members[j]] < last_served[members[i]]
      BY Zenon DEF Older
    <3>3. /\ last_served[members[j]] \in Nat
          /\ last_served[members[i]] \in Nat
      BY <1>0, <2>3, <3>1, Zenon DEF TypeOK
    <3> QED BY <2>2, <3>2, <3>3 DEF LeastRecentlyServed
  <2>7. asked' = [offered |-> S, scope |-> key]
    BY <1>4, Zenon
  <2> HIDE DEF S
  <2>5. Sel!MayServe(S, key, members[i])
    BY <2>1, <2>3, <2>4, Zenon DEF Sel!MayServe
  <2>6. Sel!Serve(S, key, members[i])
    BY <2>1, <2>2, <2>3, <2>5, <2>7, ServeRefines, Zenon
  <2> QED BY <2>1, <2>3, <2>6, Zenon DEF Sel!Next
<1>5. ASSUME NEW members \in Pools, NEW avail \in SUBSET Member,
             NEW key \in Key \union {NoKey},
             SelectNone(members, avail),
             asked' = [offered |-> Offered(members, avail), scope |-> key]
      PROVE Sel!Next
  <2>1. Offered(members, avail) = {}
    BY <1>5, Zenon DEF SelectNone, Offered
  <2>2. Sel!Refuse(key)
    BY <1>5, <2>1, Zenon DEF SelectNone, Sel!Refuse, Tracked, Older, Bound
  <2> QED BY <2>2, Zenon DEF Sel!Next
<1>6. ASSUME NEW live \in SUBSET Member, RetainMembers(live), UNCHANGED asked
      PROVE Sel!Next
  <2>1. Tracked' = Tracked \intersect live
    BY <1>6, Zenon DEF RetainMembers, Tracked
  <2>2. Older' = {p \in Member \X Member :
                    /\ p[2] \in Tracked \intersect live
                    /\ p[1] \notin live \/ p \in Older}
    <3>1. \A a, b \in Member :
             last_served'[a] < last_served'[b]
               <=> /\ b \in live /\ last_served[b] # 0
                   /\ a \notin live \/ last_served[a] < last_served[b]
      BY <1>0, <1>6 DEF RetainMembers, TypeOK
    <3> QED BY <3>1, Zenon DEF Older, Tracked
  <2>3. Bound' = [k \in Key |-> IF Bound[k] \in live THEN Bound[k] ELSE NoMember]
    BY <1>6, Zenon DEF RetainMembers, Bound, Unbound
  <2>4. Sel!Retain(live)
    BY <1>6, <2>1, <2>2, <2>3, Zenon DEF RetainMembers, Sel!Retain
  <2> QED BY <2>4, Zenon DEF Sel!Next
<1>7. CASE UNCHANGED requestVars
  BY <1>7, Zenon DEF requestVars, vars, Sel!vars, Tracked, Older, Bound
<1> QED BY <1>1, <1>2, <1>3, <1>4, <1>5, <1>6, <1>7, Zenon DEF RequestNext, Select

\* Remembering the request changes nothing the router does.
LEMMA RequestsAreCalls == RequestSpec => Spec
<1>1. RequestInit => Init
  BY Zenon DEF RequestInit
<1>2. [RequestNext]_requestVars => [Next]_vars
  BY Zenon DEF RequestNext, Select, Next, requestVars, vars
<1> QED BY <1>1, <1>2, PTL DEF RequestSpec, Spec

\* Stamps from one growing counter, compared with a list scan, answer every
\* select as the abstract selection promises.
THEOREM RouterImplementsSelection == RequestSpec => ImplementsSelection
<1>1. RequestInit => Sel!Init
  BY DEF RequestInit, Init, Sel!Init, Strategies, Tracked, Older, Bound, Unbound
<1> QED BY <1>1, StepRefines, RequestsAreCalls, AlwaysConsistent, PTL
        DEF RequestSpec, ImplementsSelection, Sel!Spec

-----------------------------------------------------------------------------
\* Session pinning, for any sessions, accounts and turns

\* The binding of an explicit session is whoever served it last, and a turn took
\* both when it began.
FollowInv ==
    /\ \A s \in Explicit : sticky[s] = latest[s]
    /\ \A t \in Turn : turn[t].session \in Explicit => turn[t].preferred = turn[t].after

PinningInv == PinningTypeOK /\ FollowInv

-----------------------------------------------------------------------------
\* The router's share of a turn

\* A binding that a selection records is one of the map's.
LEMMA BindTypes ==
    ASSUME NEW a \in [Key -> Bindings], NEW key, NEW m \in Member, NEW n \in Nat, n > 0
    PROVE  Bind(a, key, m, n) \in [Key -> Bindings]
<1> DEFINE v == [id |-> m, seq |-> n]
<1>1. v \in Bindings
  BY DEF Bindings
<1> HIDE DEF v
<1>2. [a EXCEPT ![key] = v] \in [Key -> Bindings]
  BY <1>1, Zenon
<1> QED
  BY <1>2, Zenon DEF Bind, v

\* A forced selection leaves the router's fields in their types.
LEMMA ForceTypes ==
    ASSUME TypeOK, NEW m \in Member, NEW key, ForceSelect(m, key)
    PROVE  TypeOK'
<1>1. CASE Admits(m)
  <2>1. affinity' \in [Key -> Bindings]
    <3>1. affinity' = Bind(affinity, key, m, seq + 1) /\ seq + 1 \in Nat /\ seq + 1 > 0
      BY <1>1 DEF ForceSelect, SelectForced, TypeOK
    <3> QED
      BY <3>1, BindTypes, Zenon DEF TypeOK
  <2> QED
    BY <1>1, <2>1 DEF ForceSelect, SelectForced, TypeOK
<1>2. CASE ~Admits(m)
  BY <1>2, Zenon DEF ForceSelect, routerVars, TypeOK
<1> QED
  BY <1>1, <1>2, Zenon

\* Serving a member does, too.
LEMMA ServeTypes ==
    ASSUME TypeOK, NEW m \in Member, NEW key, Serve(m, key)
    PROVE  TypeOK' /\ picked' = m
<1> USE BoundsAssumption
<1>1. CASE Admits(m)
  <2> DEFINE b == Bind(affinity, key, m, seq + 1)
  <2>1. b \in [Key -> Bindings] /\ Unbound \in Bindings
    BY BindTypes DEF Bindings, TypeOK
  <2>2. Evict(b, seq + 1) \in [Key -> Bindings]
    <3> HIDE DEF b
    <3> QED
      BY <2>1, Zenon DEF Evict
  <2>3. affinity' \in [Key -> Bindings]
    BY <1>1, <2>1, <2>2, Zenon DEF Serve, BindAndTrim
  <2> QED
    BY <1>1, <2>3 DEF Serve, TypeOK
<1>2. CASE ~Admits(m)
  BY <1>2 DEF Serve, TypeOK
<1> QED
  BY <1>1, <1>2, Zenon

\* Whatever list and key it is given, the router picks one of the healthy members.
LEMMA RouterPicks ==
    ASSUME TypeOK, NEW members, NEW key,
           \/ SelectBound(members, Healthy, key)
           \/ SelectFillFirst(members, Healthy, key)
           \/ SelectStrictRoundRobin(members, Healthy, key)
    PROVE  TypeOK' /\ picked' \in Member
<1>1. CASE SelectBound(members, Healthy, key)
  <2>1. affinity[key].id \in Member
    BY <1>1, Zenon DEF SelectBound, Sticks, Healthy
  <2>2. affinity' \in [Key -> Bindings]
    BY <1>1, <2>1, BindTypes DEF SelectBound, TypeOK
  <2> QED
    BY <1>1, <2>1, <2>2 DEF SelectBound, TypeOK
<1>2. CASE SelectFillFirst(members, Healthy, key) \/ SelectStrictRoundRobin(members, Healthy, key)
  <2>1. PICK i \in Available(members, Healthy) : Serve(members[i], key)
    BY <1>2, Zenon DEF SelectFillFirst, SelectStrictRoundRobin
  <2>2. members[i] \in Member
    BY <2>1, Zenon DEF Available, Healthy
  <2> QED
    BY <2>1, <2>2, ServeTypes, Zenon
<1> QED
  BY <1>1, <1>2, Zenon

-----------------------------------------------------------------------------
\* The inductive invariant

\* The start of a process that has no pins.
LEMMA InitPinning == PinningInit => PinningInv
<1> SUFFICES ASSUME PinningInit PROVE PinningInv
  BY Zenon
<1>1. TypeOK
  BY NoneAssumption, Zenon DEF PinningInit, Init, TypeOK, Bindings, Unbound
<1>2. Idle \in Locals /\ Idle.session = NoSession /\ Idle.at = "idle"
  BY Zenon DEF Idle, Locals
<1>3. PinningTypeOK
  BY <1>1, <1>2, Zenon DEF PinningInit, PinningTypeOK
<1>4. FollowInv
  BY <1>2, SessionAssumption, Zenon DEF PinningInit, FollowInv
<1> QED
  BY <1>3, <1>4, Zenon DEF PinningInv

\* Turns that interleave, benched accounts, expiry and a restart keep it.
LEMMA StepPinning == PinningInv /\ [PinningNext]_allVars => PinningInv'
<1> SUFFICES ASSUME PinningInv, [PinningNext]_allVars PROVE PinningInv'
  OBVIOUS
<1>0. /\ TypeOK /\ turn \in [Turn -> Locals]
      /\ Idle \in Locals /\ Idle.session = NoSession /\ Idle.at = "idle"
      /\ NoSession \notin Explicit
  BY SessionAssumption, Zenon DEF PinningInv, PinningTypeOK, Idle, Locals
<1>1. ASSUME NEW t \in Turn, NEW o \in Locals, turn' = [turn EXCEPT ![t] = o],
             o.at # "idle" => o.session \in Session,
             o.session \in Explicit => o.preferred = o.after,
             TypeOK', UNCHANGED <<pin, sticky, latest>>,
             health' \in [Member -> {"ok", "short", "out"}]
      PROVE  PinningInv'
  <2>1. turn' \in [Turn -> Locals]
    BY <1>0, <1>1, Zenon
  <2>2. PinningTypeOK'
    BY <1>0, <1>1, <2>1, Zenon DEF PinningInv, PinningTypeOK
  <2>3. FollowInv'
    BY <1>0, <1>1, Zenon DEF PinningInv, FollowInv
  <2> QED
    BY <2>2, <2>3, Zenon DEF PinningInv
<1>2. ASSUME NEW t \in Turn, NEW s \in Session, Begin(t, s) PROVE PinningInv'
  <2> DEFINE bound == IF BoundState(pin[s]) = "eligible" THEN pin[s] ELSE NoMember
             preferred == IF s \in Explicit THEN sticky[s] ELSE NoMember
             after == latest[s]
             place == "walk"
             o == [Idle EXCEPT !.at = place, !.session = s, !.bound = bound, !.after = after,
                               !.preferred = preferred, !.initial = Healthy]
  <2>1. /\ bound \in OAuth \union {NoMember} /\ preferred \in Member \union {NoMember}
        /\ after \in Member \union {NoMember} /\ Healthy \in SUBSET Member
        /\ place \in {"idle", "walk", "upstream"}
    BY Zenon DEF PinningInv, PinningTypeOK, Healthy
  <2>2. s \in Explicit => preferred = after
    BY Zenon DEF PinningInv, FollowInv
  <2>3. turn' = [turn EXCEPT ![t] = o] /\ UNCHANGED <<health, pin, sticky, latest>>
    BY <1>2, Zenon DEF Begin
  <2>4. TypeOK'
    <3>1. CASE bound = NoMember
      BY <1>0, <1>2, <3>1, Zenon DEF Begin, routerVars, TypeOK
    <3>2. CASE bound # NoMember
      <4>1. bound \in Member /\ ForceSelect(bound, RawKey(s))
        BY <1>2, <2>1, <3>2, SubscriptionAssumption, Zenon DEF Begin
      <4> HIDE DEF bound
      <4> QED
        BY <1>0, <4>1, ForceTypes, Zenon
    <3> QED
      BY <3>1, <3>2, Zenon
  <2> HIDE DEF bound, preferred, after, place
  <2>5. o \in Locals
    BY <2>1, <1>0, ZenonT(60) DEF Locals
  <2>6. o.session = s /\ o.preferred = preferred /\ o.after = after
    BY <1>0, Zenon DEF Locals
  <2> HIDE DEF o
  <2>7. health' \in [Member -> {"ok", "short", "out"}]
    BY <2>3, Zenon DEF PinningInv, PinningTypeOK
  <2> QED
    BY <1>1, <2>2, <2>3, <2>4, <2>5, <2>6, <2>7, Zenon
<1>3. ASSUME NEW t \in Turn, NEW m \in Member, Attempt(t, m), turn[t].at = "walk",
             TypeOK', UNCHANGED <<health, pin, sticky, latest>>
      PROVE  PinningInv'
  <2> DEFINE q == turn[t]
             tried == q.attempted \union {m}
             place == "upstream"
             o == [q EXCEPT !.at = place, !.member = m, !.attempted = tried]
  <2>1. /\ q \in Locals /\ tried \in SUBSET Member
        /\ place \in {"idle", "walk", "upstream"} /\ m \in Member \union {NoMember}
    BY <1>0, Zenon DEF Locals
  <2>2. turn' = [turn EXCEPT ![t] = o]
    BY <1>3, Zenon DEF Attempt
  <2>3. q.session \in Session /\ (q.session \in Explicit => q.preferred = q.after)
    BY <1>3, Zenon DEF PinningInv, PinningTypeOK, FollowInv
  <2> HIDE DEF q, tried, place
  <2>4. o \in Locals
    BY <2>1, Zenon DEF Locals
  <2>5. o.session = q.session /\ o.preferred = q.preferred /\ o.after = q.after
    BY <2>1, Zenon DEF Locals
  <2> HIDE DEF o
  <2>6. health' \in [Member -> {"ok", "short", "out"}]
    BY <1>3, Zenon DEF PinningInv, PinningTypeOK
  <2> QED
    BY <1>1, <1>3, <2>2, <2>3, <2>4, <2>5, <2>6, Zenon
<1>4. ASSUME NEW t \in Turn, ChoosePreferred(t) PROVE PinningInv'
  <2>1. turn[t].preferred \in Member
    BY <1>4, Zenon DEF ChoosePreferred, Candidates, Healthy
  <2>2. TypeOK'
    BY <1>0, <1>4, Zenon DEF ChoosePreferred, routerVars, TypeOK
  <2> QED
    BY <1>3, <1>4, <2>1, <2>2, Zenon DEF ChoosePreferred
<1>5. ASSUME NEW t \in Turn, ChooseByRouter(t) PROVE PinningInv'
  <2>1. TypeOK' /\ picked' \in Member
    BY <1>0, <1>5, RouterPicks, Zenon DEF ChooseByRouter
  <2> QED
    BY <1>3, <1>5, <2>1, Zenon DEF ChooseByRouter
<1>6. ASSUME NEW t \in Turn, GiveUp(t) \/ ReturnError(t) PROVE PinningInv'
  <2>1. TypeOK'
    BY <1>0, <1>6, Zenon DEF GiveUp, ReturnError, routerVars, TypeOK
  <2>2. health' \in [Member -> {"ok", "short", "out"}]
    BY <1>6, Zenon DEF GiveUp, ReturnError, PinningInv, PinningTypeOK
  <2> QED
    BY <1>0, <1>1, <1>6, <2>1, <2>2, Zenon DEF GiveUp, ReturnError
<1>7. ASSUME NEW t \in Turn, Succeed(t) PROVE PinningInv'
  <2> DEFINE s == turn[t].session
             m == turn[t].member
  <2>1. /\ turn' = [turn EXCEPT ![t] = Idle] /\ latest' = [latest EXCEPT ![s] = m]
        /\ Rebind(s, m) /\ UNCHANGED health
    BY <1>7, Zenon DEF Succeed
  <2>2. /\ turn[t] \in Locals /\ s \in Session
        /\ m \in Member \union {NoMember} /\ turn[t].bound \in OAuth \union {NoMember}
    BY <1>0, <1>7, Zenon DEF PinningInv, PinningTypeOK, Locals, Succeed
  <2>3. TypeOK' /\ pin' \in [Session -> OAuth \union {NoMember}]
    <3>1. CASE m \notin OAuth
      BY <1>0, <1>7, <3>1, Zenon DEF Succeed, routerVars, TypeOK, PinningInv, PinningTypeOK
    <3>2. CASE m \in OAuth /\ turn[t].bound \notin {NoMember, m}
      <4>1. /\ ForceSelect(turn[t].bound, RawKey(s)) /\ UNCHANGED pin
            /\ turn[t].bound \in Member
        BY <1>7, <2>2, <3>2, SubscriptionAssumption, Zenon DEF Succeed, Repin
      <4> QED
        BY <1>0, <4>1, ForceTypes, Zenon DEF PinningInv, PinningTypeOK
    <3>3. CASE m \in OAuth /\ turn[t].bound \in {NoMember, m}
      <4>1. ForceSelect(m, RawKey(s)) /\ pin' = [pin EXCEPT ![s] = m] /\ m \in Member
        BY <1>7, <3>3, SubscriptionAssumption, Zenon DEF Succeed, Repin
      <4> HIDE DEF s, m
      <4>2. TypeOK'
        BY <1>0, <4>1, ForceTypes, Zenon
      <4> QED
        BY <3>3, <4>1, <4>2, Zenon DEF PinningInv, PinningTypeOK
    <3> QED
      BY <3>1, <3>2, <3>3, Zenon
  <2>4. /\ sticky' \in [Session -> Member \union {NoMember}]
        /\ latest' \in [Session -> Member \union {NoMember}]
    BY <2>1, <2>2, Zenon DEF Rebind, PinningInv, PinningTypeOK
  <2>5. turn' \in [Turn -> Locals]
    BY <1>0, <2>1, Zenon
  <2>6. PinningTypeOK'
    BY <1>0, <2>1, <2>3, <2>4, <2>5, Zenon DEF PinningInv, PinningTypeOK
  <2>7. \A x \in Explicit : sticky'[x] = latest'[x]
    BY <2>1, <2>2, SessionAssumption, Zenon DEF Rebind, PinningInv, PinningTypeOK, FollowInv
  <2>8. FollowInv'
    BY <1>0, <2>1, <2>7, Zenon DEF PinningInv, FollowInv
  <2> QED
    BY <2>6, <2>8, Zenon DEF PinningInv
<1>8. ASSUME NEW t \in Turn, NEW h \in {"ok", "short", "out"}, FailOver(t, h) PROVE PinningInv'
  <2> DEFINE q == turn[t]
             place == "walk"
             o == [q EXCEPT !.at = place]
  <2>1. q \in Locals /\ place \in {"idle", "walk", "upstream"}
    BY <1>0, Zenon
  <2>2. turn' = [turn EXCEPT ![t] = o] /\ UNCHANGED <<pin, sticky, latest>>
    BY <1>8, Zenon DEF FailOver
  <2>3. q.session \in Session /\ (q.session \in Explicit => q.preferred = q.after)
    BY <1>8, Zenon DEF PinningInv, PinningTypeOK, FollowInv, FailOver
  <2>4. TypeOK'
    BY <1>0, <1>8, Zenon DEF FailOver, routerVars, TypeOK
  <2>5. health' \in [Member -> {"ok", "short", "out"}]
    BY <1>8, Zenon DEF FailOver, PinningInv, PinningTypeOK
  <2> HIDE DEF q, place
  <2>6. o \in Locals /\ o.session = q.session /\ o.preferred = q.preferred /\ o.after = q.after
    BY <2>1, Zenon DEF Locals
  <2> HIDE DEF o
  <2> QED
    BY <1>1, <2>2, <2>3, <2>4, <2>5, <2>6, Zenon
<1>9. ASSUME NEW t \in Turn, NEW s \in Session, Refused(t, s) PROVE PinningInv'
  BY <1>9, Zenon DEF Refused, routerVars, PinningInv, PinningTypeOK, FollowInv, TypeOK
<1>10. ASSUME NEW m \in Member, Recover(m) PROVE PinningInv'
  <2>1. health' \in [Member -> {"ok", "short", "out"}]
    BY <1>10, Zenon DEF Recover, PinningInv, PinningTypeOK
  <2> QED
    BY <1>10, <2>1, Zenon DEF Recover, routerVars, PinningInv, PinningTypeOK, FollowInv, TypeOK
<1>11. ASSUME NEW s \in Session, Expire(s) PROVE PinningInv'
  <2>1. /\ pin' \in [Session -> OAuth \union {NoMember}]
        /\ sticky' \in [Session -> Member \union {NoMember}]
        /\ latest' \in [Session -> Member \union {NoMember}]
    BY <1>11, Zenon DEF Expire, PinningInv, PinningTypeOK
  <2>2. \A x \in Explicit : sticky'[x] = latest'[x]
    BY <1>11, SessionAssumption, Zenon DEF Expire, PinningInv, PinningTypeOK, FollowInv
  <2>3. TypeOK'
    BY <1>0, <1>11, Zenon DEF Expire, routerVars, TypeOK
  <2> QED
    BY <1>11, <2>1, <2>2, <2>3, Zenon DEF Expire, PinningInv, PinningTypeOK, FollowInv
<1>12. CASE Restart
  <2>1. TypeOK'
    BY <1>0, <1>12, Zenon DEF Restart, TypeOK, Bindings
  <2> QED
    BY <1>12, <2>1, SessionAssumption, Zenon DEF Restart, PinningInv, PinningTypeOK, FollowInv
<1>13. CASE UNCHANGED allVars
  BY <1>13, Zenon DEF allVars, PinningInv, PinningTypeOK, FollowInv, TypeOK
<1> QED
  BY <1>2, <1>4, <1>5, <1>6, <1>7, <1>8, <1>9, <1>10, <1>11, <1>12, <1>13, Zenon
  DEF PinningNext, Step

\* The invariant of all turns and sessions.
LEMMA AlwaysPinning == PinningSpec => []PinningInv
BY InitPinning, StepPinning, PTL DEF PinningSpec

-----------------------------------------------------------------------------
\* Theorems

\* Sessions are pinned to subscriptions only (the condition before the store of
\* a pin in handle_relay), and every turn's locals and maps are well formed.
THEOREM PinningTypes == PinningSpec => []PinningTypeOK
BY AlwaysPinning, PTL DEF PinningInv

\* Only a success stores a pin and only expiry removes one.
LEMMA PinSteps ==
    ASSUME PinningNext
    PROVE  \/ UNCHANGED pin
           \/ \E s \in Session : Expire(s)
           \/ \E t \in Turn : Succeed(t)
<1>1. ASSUME NEW t \in Turn, NEW s \in Session, Begin(t, s) \/ Refused(t, s) PROVE UNCHANGED pin
  BY <1>1, Zenon DEF Begin, Refused
<1>2. ASSUME NEW t \in Turn, Step(t) PROVE UNCHANGED pin \/ Succeed(t)
  BY <1>2, Zenon DEF Step, ChoosePreferred, ChooseByRouter, GiveUp, ReturnError, FailOver
<1>3. ASSUME NEW m \in Member, Recover(m) PROVE UNCHANGED pin
  BY <1>3, Zenon DEF Recover
<1>4. CASE Restart
  BY <1>4, Zenon DEF Restart
<1> QED
  BY <1>1, <1>2, <1>3, <1>4, Zenon DEF PinningNext

\* A failover serves one turn elsewhere without moving the pin: the pin of a
\* session is replaced only by a turn of that session that did not find the
\* pinned account eligible when it began, whatever turns run beside it.
THEOREM PinMoves == PinningSpec => PinMovesOnlyWhenLost
<1>1. PinningInv /\ [PinningNext]_allVars => [PinMovesOnlyWhenLostStep]_allVars
  <2> SUFFICES ASSUME PinningInv, PinningNext, NEW s \in Session,
                      pin[s] # NoMember, pin'[s] \notin {pin[s], NoMember}
               PROVE  \E t \in Turn : /\ turn[t].session = s /\ turn[t].at = "upstream"
                                      /\ turn[t].bound \notin Member \ {pin'[s]}
                                      /\ turn'[t] = Idle
    BY Zenon DEF PinMovesOnlyWhenLostStep
  <2>1. pin \in [Session -> OAuth \union {NoMember}] /\ turn \in [Turn -> Locals]
    BY Zenon DEF PinningInv, PinningTypeOK
  <2>2. ~UNCHANGED pin
    BY Zenon
  <2>3. ASSUME NEW x \in Session, Expire(x) PROVE FALSE
    BY <2>1, <2>3, Zenon DEF Expire
  <2>4. PICK t \in Turn : Succeed(t)
    BY <2>2, <2>3, PinSteps, Zenon
  <2>5. turn[t].at = "upstream" /\ turn'[t] = Idle
    BY <2>1, <2>4, Zenon DEF Succeed
  <2>6. /\ turn[t].bound \in {NoMember, turn[t].member}
        /\ pin' = [pin EXCEPT ![turn[t].session] = turn[t].member]
    BY <2>2, <2>4, Zenon DEF Succeed, Repin
  <2>7. turn[t].session = s /\ pin'[s] = turn[t].member
    BY <2>1, <2>6, Zenon
  <2> QED
    BY <2>5, <2>6, <2>7, NoneAssumption, Zenon
<1>2. PinningSpec => [][PinMovesOnlyWhenLostStep]_allVars
  BY <1>1, AlwaysPinning, PTL DEF PinningSpec
<1> QED
  BY <1>2, Zenon DEF PinMovesOnlyWhenLost

\* preferred_index comes before the router: a turn of a session with a header
\* starts on the account that served the latest turn answered before it began,
\* as long as that account is healthy.
THEOREM SessionStays == PinningSpec => SessionFollowsItsAccount
<1>1. PinningInv /\ [PinningNext]_allVars => [SessionFollowsItsAccountStep]_allVars
  <2> SUFFICES ASSUME PinningInv, PinningNext, NEW t \in Turn, CallsFirst(t),
                      turn[t].session \in Explicit,
                      turn[t].after \in Healthy \intersect turn[t].initial
               PROVE  turn'[t].member = turn[t].after
    BY Zenon DEF SessionFollowsItsAccountStep
  <2>1. turn \in [Turn -> Locals] /\ turn[t].preferred = turn[t].after
    BY Zenon DEF PinningInv, PinningTypeOK, FollowInv
  <2>2. turn[t].preferred \in Candidates(t)
    BY <2>1, Zenon DEF Candidates, CallsFirst
  <2>3. turn[t].at = "walk" /\ turn'[t].at = "upstream"
    BY Zenon DEF CallsFirst, Calls
  <2>4. ASSUME NEW u \in Turn, NEW v, turn' = [turn EXCEPT ![u] = v], v.at # "upstream"
        PROVE  FALSE
    BY <2>1, <2>3, <2>4, Zenon
  <2>5. Idle.at # "upstream"
    BY Zenon DEF Idle
  <2>6. ~UNCHANGED turn
    BY <2>3, Zenon
  <2>7. ASSUME NEW u \in Turn, NEW s \in Session, Begin(u, s) \/ Refused(u, s) PROVE FALSE
    <3>1. turn[u].at = "idle"
      BY <2>7, Zenon DEF Begin, Refused, Arrives
    <3> QED
      BY <2>1, <2>3, <2>6, <2>7, <3>1, Zenon DEF Begin, Refused
  <2>8. ASSUME NEW u \in Turn, Step(u) PROVE ChoosePreferred(u) \/ ChooseByRouter(u)
    <3>1. ~GiveUp(u) /\ ~ReturnError(u) /\ ~Succeed(u)
      BY <2>4, <2>5, Zenon DEF GiveUp, ReturnError, Succeed
    <3>2. ASSUME NEW h, FailOver(u, h) PROVE FALSE
      <4>1. turn[u].at = "upstream" /\ turn' = [turn EXCEPT ![u].at = "walk"]
        BY <3>2, SMTT(30) DEF FailOver
      <4> QED
        BY <2>1, <2>3, <4>1, Zenon
    <3> QED
      BY <2>8, <3>1, <3>2, Zenon DEF Step
  <2>9. PICK u \in Turn : ChoosePreferred(u) \/ ChooseByRouter(u)
    BY <2>6, <2>7, <2>8, Zenon DEF PinningNext, Recover, Expire, Restart
  <2>10. u = t
    BY <2>1, <2>3, <2>9, Zenon DEF ChoosePreferred, ChooseByRouter, Attempt
  <2>11. ChoosePreferred(t)
    BY <2>2, <2>9, <2>10, Zenon DEF ChooseByRouter
  <2>12. Attempt(t, turn[t].preferred)
    BY <2>11, Zenon DEF ChoosePreferred
  <2> QED
    BY <2>1, <2>12, Zenon DEF Attempt, Locals
<1>2. PinningSpec => [][SessionFollowsItsAccountStep]_allVars
  BY <1>1, AlwaysPinning, PTL DEF PinningSpec
<1> QED
  BY <1>2 DEF SessionFollowsItsAccount
=============================================================================
