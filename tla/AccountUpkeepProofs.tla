------------------------ MODULE AccountUpkeepProofs -------------------------
(***************************************************************************)
(* Proofs about AccountUpkeep, for any number of requests, polls, member   *)
(* objects, flights and stays: benches hold and the operator's switch is   *)
(* the file's; a failed poll keeps the last report, and one reset call     *)
(* takes one credit; one probe at a time per stay, and none that is no     *)
(* longer due.                                                             *)
(***************************************************************************)
EXTENDS AccountUpkeep, TLAPS

-----------------------------------------------------------------------------
(***************************************************************************)
(* Health and benches.                                                     *)
(***************************************************************************)
HealthSpec == HealthInit /\ [][HealthNext]_healthVars

\* There is an object to start with, and no bench is negative.
HealthSizes == MaxRebuilt \in Nat \ {0} /\ MaxClock \in Nat /\ MAX_COOLDOWN \in Nat

Healths == {Available, AuthFailed, Disabled} \cup {Cooldown(t) : t \in Nat}
Deadlines == [Objects -> [Models -> Nat]]
Credential == [disabled : BOOLEAN, token : Nat]

HealthTypes ==
    /\ when \in Nat \ {0} /\ provider \in {"codex", "claude", "metered"}
    /\ health \in [Objects -> Healths]
    /\ group \in Deadlines /\ modelled \in Deadlines
    /\ inPool \in Objects /\ account \in Credential /\ built \in [Objects -> Credential]
    /\ rescan \in [step : {"none", "loaded", "adopted"}, object : Objects]
    /\ request \in [Request -> [step : {"none", "sent", "rejected"}, object : Objects, model : Models, until : Nat]]
    /\ poll \in [step : {"none", "sent"}, object : Objects, free : BOOLEAN]

\* Requests and polls hold objects that are or were in the pool; the one a
\* rescan prepares is the next, and until it adopts the old one's deadlines
\* it has none.
HeldAreOld ==
    /\ \A r \in Request : request[r].object <= inPool
    /\ poll.object <= inPool
    /\ rescan.step # "none" => rescan.object = inPool + 1
    /\ \A o \in Objects : o > inPool => group[o] = Never \/ (rescan.step = "adopted" /\ o = rescan.object)

\* Whoever was sent on an object found it switched on, and nothing switches
\* an object off once it is in the pool.
SwitchInv ==
    /\ \A o \in Objects : health[o] = Disabled <=> built[o].disabled
    /\ \A r \in Request : request[r].step = "sent" => ~built[request[r].object].disabled

\* The bench a rejected request asked for is still on its object, of the
\* model alone or of its group.
BenchInv ==
    \A r \in Request :
        request[r].step = "rejected" /\ request[r].until > when =>
            \/ modelled[request[r].object][request[r].model] >= request[r].until
            \/ HasGroups /\ group[request[r].object][request[r].model] >= request[r].until

\* What AdoptRuntimeState hands over, and what it overwrites, need all four.
HealthInv == HealthTypes /\ HeldAreOld /\ SwitchInv /\ BenchInv

\* The states of health differ.
LEMMA HealthsDiffer ==
    /\ Available # Disabled /\ AuthFailed # Disabled /\ Available # AuthFailed
    /\ \A t \in Nat : Cooldown(t) # Disabled /\ Cooldown(t) # AuthFailed /\ Cooldown(t) \in Healths
    /\ \A h \in Healths : h.state = "cooldown" => h # Disabled
    /\ Disabled.state = "disabled"
<1>1. /\ Available.state = "available" /\ AuthFailed.state = "auth_failed" /\ Disabled.state = "disabled"
      /\ \A t \in Nat : Cooldown(t).state = "cooldown"
  BY Zenon DEF Available, Disabled, AuthFailed, Cooldown
<1>2. \A t \in Nat : Cooldown(t) \in Healths
  BY Zenon DEF Healths
<1> QED
  BY <1>1, <1>2, Zenon

\* cooldown_deadline_ms gives a time from now on.
LEMMA DeadlineIsNat ==
    ASSUME HealthSizes, when \in Nat, NEW seconds \in Int
    PROVE  Deadline(seconds) \in Nat /\ Deadline(seconds) >= when
  BY DEF HealthSizes, Deadline

\* The later of two deadlines is one, and is no earlier than either that is
\* still ahead.
LEMMA LaterIsLater ==
    ASSUME when \in Nat, NEW s \in Nat, NEW t \in Nat
    PROVE  Later(s, t) \in Nat /\ Later(s, t) >= s /\ (t > when => Later(s, t) >= t)
  BY DEF Later

\* set_group_cooldown keeps the deadlines of other objects and of other
\* models, and moves none of them back.
LEMMA GroupCooldowns ==
    ASSUME HealthTypes, NEW o \in Objects, NEW ms \in SUBSET Models, NEW until \in Nat
    PROVE  LET g == SetGroupCooldown(o, ms, until) IN
           /\ g \in Deadlines
           /\ \A p \in Objects \ {o} : g[p] = group[p]
           /\ \A p \in Objects, m \in Models : g[p][m] >= group[p][m]
           /\ until > when => \A m \in ms : g[o][m] >= until
<1> DEFINE g == SetGroupCooldown(o, ms, until)
           row == [m \in Models |-> IF m \in ms THEN Later(group[o][m], until) ELSE group[o][m]]
<1>1. group \in Deadlines /\ when \in Nat /\ group[o] \in [Models -> Nat]
  BY Zenon DEF HealthTypes, Deadlines
<1>2. g = [group EXCEPT ![o] = row]
  BY Zenon DEF SetGroupCooldown
<1>3. \A m \in Models : row[m] \in Nat /\ row[m] >= group[o][m] /\ (until > when /\ m \in ms => row[m] >= until)
  <2> TAKE m \in Models
  <2>1. group[o][m] \in Nat
    BY <1>1, Zenon
  <2>2. Later(group[o][m], until) \in Nat /\ Later(group[o][m], until) >= group[o][m]
        /\ (until > when => Later(group[o][m], until) >= until)
    BY <1>1, <2>1, LaterIsLater, Zenon
  <2> QED
    BY <2>1, <2>2
<1>4. row \in [Models -> Nat]
  BY <1>3, Zenon
<1> HIDE DEF row
<1>5. g \in Deadlines /\ g[o] = row /\ \A p \in Objects \ {o} : g[p] = group[p]
  BY <1>1, <1>2, <1>4, Zenon DEF Deadlines
<1>6. \A p \in Objects, m \in Models : group[p][m] \in Nat
  BY <1>1, Zenon DEF Deadlines
<1>7. \A p \in Objects, m \in Models : g[p][m] >= group[p][m]
  BY <1>3, <1>5, <1>6
<1>8. until > when => \A m \in ms : g[o][m] >= until
  BY <1>3, <1>5, Zenon
<1> QED
  BY <1>5, <1>7, <1>8, Zenon

\* What bench_exhausted_quota does to an object that a request holds.
LEMMA Exhausted ==
    ASSUME HealthTypes, NEW o \in Objects, NEW ms \in SUBSET Models, NEW until \in Nat,
           BenchExhaustedQuota(o, ms, until)
    PROVE  /\ health' \in [Objects -> Healths] /\ group' \in Deadlines
           /\ \A p \in Objects \ {o} : health'[p] = health[p] /\ group'[p] = group[p]
           /\ health'[o] = health[o] \/ health'[o] = Cooldown(until)
           /\ \A p \in Objects, m \in Models : group'[p][m] >= group[p][m]
           /\ HasGroups /\ until > when => \A m \in ms : group'[o][m] >= until
<1>1. CASE HasGroups
  <2>1. group' = SetGroupCooldown(o, ms, until) /\ health' = health
    BY <1>1, Zenon DEF BenchExhaustedQuota
  <2>2. /\ group' \in Deadlines
        /\ \A p \in Objects \ {o} : group'[p] = group[p]
        /\ \A p \in Objects, m \in Models : group'[p][m] >= group[p][m]
        /\ until > when => \A m \in ms : group'[o][m] >= until
    BY <2>1, GroupCooldowns, Zenon
  <2> QED
    BY <2>1, <2>2, Zenon DEF HealthTypes
<1>2. CASE ~HasGroups
  <2>1. health' = [health EXCEPT ![o] = Cooldown(until)] /\ group' = group
    BY <1>2, Zenon DEF BenchExhaustedQuota
  <2>2. \A p \in Objects, m \in Models : group[p][m] \in Nat
    BY DEF HealthTypes, Deadlines
  <2> QED
    BY <1>2, <2>1, <2>2, HealthsDiffer DEF HealthTypes
<1> QED
  BY <1>1, <1>2, Zenon

\* What a limit answered to a request changes: health or one set of
\* deadlines of the object it holds, and its own state.
Limits(r) ==
    LET o == request[r].object
        m == request[r].model
    IN
    /\ health' \in [Objects -> Healths] /\ group' \in Deadlines /\ modelled' \in Deadlines
    /\ \A p \in Objects \ {o} : health'[p] = health[p] /\ group'[p] = group[p]
    /\ health'[o] = health[o] \/ health'[o] \in {Cooldown(t) : t \in Nat}
    /\ \A p \in Objects, n \in Models : group'[p][n] >= group[p][n] /\ modelled'[p][n] >= modelled[p][n]
    /\ \E until \in Nat :
           /\ request' = [request EXCEPT ![r].step = "rejected", ![r].until = until]
           /\ until > when => modelled'[o][m] >= until \/ (HasGroups /\ group'[o][m] >= until)
    /\ UNCHANGED <<when, provider, inPool, account, built, rescan, poll>>

\* A 429 (record_cooldown) or a 402 benches what the request asked for, on the
\* object that the request holds.
LEMMA LimitsAnswered ==
    ASSUME HealthSizes, HealthTypes, NEW r \in Request, RecordCooldown(r) \/ InsufficientCredits(r)
    PROVE  request[r].step = "sent" /\ Limits(r)
<1> DEFINE o == request[r].object
           m == request[r].model
<1>0. /\ o \in Objects /\ m \in Models /\ when \in Nat \ {0}
      /\ modelled \in Deadlines /\ group \in Deadlines /\ health \in [Objects -> Healths]
      /\ \A p \in Objects, n \in Models : modelled[p][n] \in Nat /\ group[p][n] \in Nat
  BY DEF HealthTypes, Deadlines
<1>1. ASSUME RecordCooldown(r) PROVE request[r].step = "sent" /\ Limits(r)
  <2>1. PICK seconds \in -1 .. MAX_COOLDOWN + 1 :
           \/ /\ provider = "claude"
              /\ modelled' = [modelled EXCEPT ![o][m] = Later(@, Deadline(seconds))]
              /\ request' = [request EXCEPT ![r].step = "rejected", ![r].until = Deadline(seconds)]
              /\ UNCHANGED <<health, group>>
           \/ /\ \E billed \in Models : BenchExhaustedQuota(o, BenchedNames(m, billed), Deadline(seconds))
              /\ request' = [request EXCEPT ![r].step = "rejected", ![r].until = IF HasGroups THEN Deadline(seconds) ELSE 0]
              /\ UNCHANGED modelled
    BY <1>1, Zenon DEF RecordCooldown
  <2>2. Deadline(seconds) \in Nat
    BY <1>0, <2>1, DeadlineIsNat, SMTT(30) DEF HealthSizes
  <2>3. request[r].step = "sent" /\ UNCHANGED <<when, provider, inPool, account, built, rescan, poll>>
    BY <1>1, Zenon DEF RecordCooldown
  <2>4. CASE /\ modelled' = [modelled EXCEPT ![o][m] = Later(@, Deadline(seconds))]
             /\ request' = [request EXCEPT ![r].step = "rejected", ![r].until = Deadline(seconds)]
             /\ UNCHANGED <<health, group>>
    <3>1. LET l == Later(modelled[o][m], Deadline(seconds)) IN
          l \in Nat /\ l >= modelled[o][m] /\ (Deadline(seconds) > when => l >= Deadline(seconds))
      BY <1>0, <2>2, LaterIsLater, Zenon
    <3>2. modelled' \in Deadlines /\ modelled'[o][m] = Later(modelled[o][m], Deadline(seconds))
          /\ \A p \in Objects, n \in Models : p # o \/ n # m => modelled'[p][n] = modelled[p][n]
      BY <1>0, <2>4, <3>1, Zenon DEF Deadlines
    <3>3. \A p \in Objects, n \in Models : modelled'[p][n] >= modelled[p][n] /\ group'[p][n] >= group[p][n]
      <4> TAKE p \in Objects, n \in Models
      <4>1. group'[p][n] = group[p][n] /\ group[p][n] \in Nat /\ modelled[p][n] \in Nat
        BY <1>0, <2>4, Zenon
      <4>2. modelled'[p][n] >= modelled[p][n]
        BY <3>1, <3>2, <4>1, SMTT(30)
      <4> QED
        BY <4>1, <4>2
    <3> QED
      BY <1>0, <2>2, <2>3, <2>4, <3>1, <3>2, <3>3, ZenonT(60) DEF Limits
  <2>5. CASE /\ \E billed \in Models : BenchExhaustedQuota(o, BenchedNames(m, billed), Deadline(seconds))
             /\ request' = [request EXCEPT ![r].step = "rejected", ![r].until = IF HasGroups THEN Deadline(seconds) ELSE 0]
             /\ UNCHANGED modelled
    <3>1. PICK billed \in Models : BenchExhaustedQuota(o, BenchedNames(m, billed), Deadline(seconds))
      BY <2>5, Zenon
    <3>2. BenchedNames(m, billed) \in SUBSET Models /\ m \in BenchedNames(m, billed)
      BY <1>0, Zenon DEF BenchedNames
    <3>3. /\ health' \in [Objects -> Healths] /\ group' \in Deadlines
          /\ \A p \in Objects \ {o} : health'[p] = health[p] /\ group'[p] = group[p]
          /\ health'[o] = health[o] \/ health'[o] = Cooldown(Deadline(seconds))
          /\ \A p \in Objects, n \in Models : group'[p][n] >= group[p][n]
          /\ HasGroups /\ Deadline(seconds) > when => group'[o][m] >= Deadline(seconds)
      BY <1>0, <2>2, <3>1, <3>2, Exhausted, Zenon
    <3>4. \A p \in Objects, n \in Models : modelled'[p][n] >= modelled[p][n]
      BY <1>0, <2>5
    <3>5. \E until \in Nat :
             /\ request' = [request EXCEPT ![r].step = "rejected", ![r].until = until]
             /\ until > when => modelled'[o][m] >= until \/ (HasGroups /\ group'[o][m] >= until)
      <4>1. CASE HasGroups
        BY <2>2, <2>5, <3>3, <4>1, Zenon
      <4>2. CASE ~HasGroups
        <5>1. request' = [request EXCEPT ![r].step = "rejected", ![r].until = 0]
          BY <2>5, <4>2, Zenon
        <5>2. ~(0 > when)
          BY <1>0
        <5> QED
          BY <5>1, <5>2, Zenon
      <4> QED
        BY <4>1, <4>2, Zenon
    <3> QED
      BY <1>0, <2>2, <2>3, <2>5, <3>3, <3>4, <3>5, ZenonT(60) DEF Limits
  <2> QED
    BY <2>1, <2>4, <2>5, Zenon
<1>2. ASSUME InsufficientCredits(r) PROVE request[r].step = "sent" /\ Limits(r)
  <2>1. PICK billed \in Models, seconds \in 1 .. MAX_COOLDOWN :
           /\ BenchExhaustedQuota(o, BenchedNames(m, billed), Deadline(seconds))
           /\ request' = [request EXCEPT ![r].step = "rejected", ![r].until = Deadline(seconds)]
    BY <1>2, Zenon DEF InsufficientCredits
  <2>2. Deadline(seconds) \in Nat
    BY <1>0, <2>1, DeadlineIsNat DEF HealthSizes
  <2>3. /\ request[r].step = "sent" /\ provider = "metered"
        /\ UNCHANGED <<when, provider, modelled, inPool, account, built, rescan, poll>>
    BY <1>2, Zenon DEF InsufficientCredits
  <2>4. BenchedNames(m, billed) \in SUBSET Models /\ m \in BenchedNames(m, billed)
    BY <1>0, <2>1, Zenon DEF BenchedNames
  <2>5. /\ health' \in [Objects -> Healths] /\ group' \in Deadlines
        /\ \A p \in Objects \ {o} : health'[p] = health[p] /\ group'[p] = group[p]
        /\ health'[o] = health[o] \/ health'[o] = Cooldown(Deadline(seconds))
        /\ \A p \in Objects, n \in Models : group'[p][n] >= group[p][n]
        /\ HasGroups /\ Deadline(seconds) > when => group'[o][m] >= Deadline(seconds)
    BY <1>0, <2>1, <2>2, <2>4, Exhausted, Zenon
  <2>6. HasGroups
    BY <2>3, Zenon DEF HasGroups
  <2>7. \A p \in Objects, n \in Models : modelled'[p][n] >= modelled[p][n]
    BY <1>0, <2>3
  <2> QED
    BY <1>0, <2>1, <2>2, <2>3, <2>5, <2>6, <2>7, Zenon DEF Limits
<1> QED
  BY <1>1, <1>2, Zenon

\* A fresh account satisfies the invariant.
LEMMA HealthInitInv == HealthSizes /\ HealthInit => HealthInv
<1> SUFFICES ASSUME HealthSizes, HealthInit PROVE HealthInv
  BY Zenon
<1>1. 1 \in Objects /\ "asked" \in Models
  BY DEF HealthSizes, Objects, Models
<1>2. Never \in [Models -> Nat] /\ Available \in Healths
  BY Zenon DEF Never, Healths
<1>3. HealthTypes
  BY <1>1, <1>2 DEF HealthInit, HealthTypes, Deadlines, Credential, NoRequest, NoQuery
<1>4. HeldAreOld /\ BenchInv
  BY <1>1 DEF HealthInit, HeldAreOld, BenchInv, NoRequest, NoQuery, Objects
<1>5. SwitchInv
  BY HealthsDiffer, Zenon DEF HealthInit, SwitchInv, NoRequest
<1> QED
  BY <1>3, <1>4, <1>5, Zenon DEF HealthInv

\* A request held by a state with its own fields only changed stays typed.
RequestType == [step : {"none", "sent", "rejected"}, object : Objects, model : Models, until : Nat]

\* The answer of a limit keeps the invariant: the request it rejects has its
\* bench, and the benches of the others only grow.
LEMMA LimitsKeep ==
    ASSUME HealthInv, NEW r \in Request, request[r].step = "sent", Limits(r)
    PROVE  HealthInv'
<1> DEFINE o == request[r].object
           m == request[r].model
<1>0. o \in Objects /\ m \in Models /\ o <= inPool /\ inPool \in Int
  BY DEF HealthInv, HealthTypes, HeldAreOld, Objects
<1>1. PICK until \in Nat :
           /\ request' = [request EXCEPT ![r].step = "rejected", ![r].until = until]
           /\ until > when => modelled'[o][m] >= until \/ (HasGroups /\ group'[o][m] >= until)
  BY Zenon DEF Limits
<1>2. /\ request'[r] = [step |-> "rejected", object |-> o, model |-> m, until |-> until]
      /\ \A q \in Request \ {r} : request'[q] = request[q]
      /\ request' \in [Request -> RequestType]
  <2>1. request \in [Request -> RequestType]
    BY Zenon DEF HealthInv, HealthTypes, RequestType
  <2> DEFINE v == [request[r] EXCEPT !.step = "rejected", !.until = until]
  <2>2. v = [step |-> "rejected", object |-> o, model |-> m, until |-> until] /\ v \in RequestType
    <3>1. until \in Nat /\ request[r] \in RequestType
      BY <1>1, <2>1, Zenon
    <3>2. v \in RequestType
      BY <3>1, Zenon DEF RequestType
    <3>3. v.step = "rejected" /\ v.object = o /\ v.model = m /\ v.until = until
      BY <3>1, Zenon DEF RequestType
    <3> HIDE DEF v, o, m
    <3> QED
      BY <3>2, <3>3, Zenon DEF RequestType
  <2>3. request'[r] = v /\ \A q \in Request \ {r} : request'[q] = request[q]
    BY <1>1, <2>1, SMTT(30) DEF RequestType
  <2>4. DOMAIN request' = Request /\ request' = [q \in Request |-> request'[q]]
    BY <1>1, <2>1, Zenon
  <2>5. \A q \in Request : request'[q] \in RequestType
    BY <2>1, <2>2, <2>3
  <2> QED
    BY <2>2, <2>3, <2>4, <2>5, Zenon
<1>3. HealthTypes'
  BY <1>2, Zenon DEF HealthInv, HealthTypes, Limits, RequestType
<1>4. HeldAreOld'
  <2>1. \A q \in Request : request'[q].object = request[q].object
    BY <1>2
  <2>2. \A p \in Objects : p > inPool => group'[p] = group[p]
    BY <1>0 DEF Limits, Objects
  <2> QED
    BY <2>1, <2>2, Zenon DEF HealthInv, HeldAreOld, Limits
<1>5. SwitchInv'
  <2>1. ~built[o].disabled /\ health[o] # Disabled
    BY <1>0, Zenon DEF HealthInv, SwitchInv
  <2>2. health'[o] # Disabled
    BY <2>1, HealthsDiffer DEF Limits
  <2>3. \A p \in Objects : health'[p] = Disabled <=> health[p] = Disabled
    BY <2>1, <2>2, Zenon DEF Limits
  <2>4. \A q \in Request : request'[q].object = request[q].object /\ (request'[q].step = "sent" => request[q].step = "sent")
    BY <1>2
  <2> QED
    BY <2>3, <2>4, Zenon DEF HealthInv, SwitchInv, Limits
<1>6. BenchInv'
  <2> SUFFICES ASSUME NEW q \in Request, request'[q].step = "rejected", request'[q].until > when
               PROVE  \/ modelled'[request'[q].object][request'[q].model] >= request'[q].until
                      \/ HasGroups /\ group'[request'[q].object][request'[q].model] >= request'[q].until
    BY Zenon DEF BenchInv, Limits, HasGroups
  <2>1. CASE q = r
    BY <1>1, <1>2, <2>1, SMTT(30)
  <2>2. CASE q # r
    <3>1. request'[q] = request[q] /\ request[q].object \in Objects /\ request[q].model \in Models /\ request[q].until \in Nat
      BY <1>2, <2>2, SMTT(30) DEF HealthInv, HealthTypes
    <3>2. \/ modelled[request[q].object][request[q].model] >= request[q].until
          \/ HasGroups /\ group[request[q].object][request[q].model] >= request[q].until
      BY <3>1, Zenon DEF HealthInv, BenchInv
    <3>3. /\ modelled[request[q].object][request[q].model] \in Nat
          /\ modelled'[request[q].object][request[q].model] \in Nat
          /\ group[request[q].object][request[q].model] \in Nat
          /\ group'[request[q].object][request[q].model] \in Nat
      BY <3>1, <1>3 DEF HealthInv, HealthTypes, Deadlines
    <3>4. /\ group'[request[q].object][request[q].model] >= group[request[q].object][request[q].model]
          /\ modelled'[request[q].object][request[q].model] >= modelled[request[q].object][request[q].model]
      BY <3>1, Zenon DEF Limits
    <3> QED
      BY <3>1, <3>2, <3>3, <3>4
  <2> QED
    BY <2>1, <2>2, Zenon
<1> QED
  BY <1>3, <1>4, <1>5, <1>6, Zenon DEF HealthInv

\* A step that touches no deadline, no object of a request that waits and no
\* operator's switch leaves the benches where they were.
LEMMA BenchesStay ==
    ASSUME HealthInv, UNCHANGED <<when, provider, group, modelled>>,
           \A q \in Request : request'[q] = request[q] \/ request'[q].step # "rejected"
    PROVE  BenchInv'
  BY Zenon DEF HealthInv, BenchInv, HasGroups

\* So does every other step of a request: none of them moves a deadline or the
\* operator's switch.
LEMMA RequestStep ==
    ASSUME HealthSizes, HealthInv, NEW r \in Request, NEW m \in Models,
           Send(r, m) \/ Succeed(r) \/ RejectCredential(r) \/ WalkOn(r)
    PROVE  HealthInv'
<1> DEFINE o == request[r].object
<1>0. /\ o \in Objects /\ o <= inPool /\ inPool \in Objects /\ 1 \in Objects /\ "asked" \in Models
      /\ request \in [Request -> RequestType] /\ Available \in Healths /\ AuthFailed \in Healths
      /\ 1 <= inPool
  BY DEF HealthInv, HealthTypes, HeldAreOld, RequestType, HealthSizes, Objects, Models, Healths
<1>1. /\ UNCHANGED <<when, provider, group, modelled, inPool, account, built, rescan, poll>>
      /\ \A q \in Request \ {r} : request'[q] = request[q]
      /\ request' \in [Request -> RequestType]
      /\ request'[r].object <= inPool /\ request'[r].step # "rejected"
  <2>1. CASE Send(r, m)
    <3> DEFINE q == [NoRequest EXCEPT !.step = "sent", !.object = inPool, !.model = m]
    <3>1. NoRequest \in RequestType
      BY <1>0, Zenon DEF NoRequest, RequestType
    <3>2. q \in RequestType /\ q.object <= inPool /\ q.step # "rejected"
      <4>1. q \in RequestType /\ q.object = inPool /\ q.step = "sent"
        BY <1>0, <3>1, Zenon DEF RequestType
      <4>2. inPool <= inPool
        BY <1>0 DEF Objects
      <4> QED
        BY <4>1, <4>2, Zenon
    <3>3. request' = [request EXCEPT ![r] = q]
      BY <2>1, SMTT(30) DEF Send
    <3> HIDE DEF q
    <3> QED
      BY <1>0, <2>1, <3>2, <3>3, Zenon DEF Send
  <2>2. CASE Succeed(r) \/ RejectCredential(r) \/ WalkOn(r)
    <3>1. NoRequest \in RequestType /\ NoRequest.object <= inPool /\ NoRequest.step # "rejected"
      BY <1>0, SMTT(30) DEF NoRequest, RequestType
    <3>2. request' = [request EXCEPT ![r] = NoRequest]
      BY <2>2, Zenon DEF Succeed, RejectCredential, WalkOn
    <3> QED
      BY <1>0, <2>2, <3>1, <3>2, Zenon DEF Succeed, RejectCredential, WalkOn
  <2> QED
    BY <2>1, <2>2, Zenon
<1>2. /\ health' \in [Objects -> Healths]
      /\ \A p \in Objects : health'[p] = Disabled <=> health[p] = Disabled
  <2>1. CASE Send(r, m) \/ WalkOn(r)
    BY <2>1, Zenon DEF Send, WalkOn, HealthInv, HealthTypes
  <2>2. CASE Succeed(r)
    BY <1>0, <2>2, HealthsDiffer, Zenon DEF Succeed, HealthInv, HealthTypes
  <2>3. CASE RejectCredential(r)
    <3>1. health[o] # Disabled
      BY <1>0, <2>3, Zenon DEF RejectCredential, HealthInv, SwitchInv
    <3> QED
      BY <1>0, <2>3, <3>1, HealthsDiffer, Zenon DEF RejectCredential, HealthInv, HealthTypes
  <2> QED
    BY <2>1, <2>2, <2>3, Zenon
<1>3. request'[r].step = "sent" => ~built[request'[r].object].disabled
  <2>1. CASE Send(r, m)
    <3>1. health[inPool] # Disabled
      BY <2>1, HealthsDiffer, SMTT(30) DEF Send, Routable, IsAvailable
    <3> QED
      BY <1>0, <2>1, <3>1, Zenon DEF Send, HealthInv, SwitchInv, NoRequest
  <2>2. CASE ~Send(r, m)
    BY <1>0, <2>2 DEF Succeed, RejectCredential, WalkOn, NoRequest
  <2> QED
    BY <2>1, <2>2, Zenon
<1>4. HealthTypes'
  BY <1>1, <1>2, SMTT(30) DEF HealthInv, HealthTypes, RequestType
<1>5. HeldAreOld'
  BY <1>1, Zenon DEF HealthInv, HeldAreOld
<1>6. SwitchInv'
  BY <1>1, <1>2, <1>3, Zenon DEF HealthInv, SwitchInv
<1>7. BenchInv'
  BY <1>1, BenchesStay, Zenon
<1> QED
  BY <1>4, <1>5, <1>6, <1>7, Zenon DEF HealthInv

\* A refresh (clear_auth_failure), a poll's release and an edit of the file touch
\* neither deadlines nor the switch of an object.
LEMMA CureStep ==
    ASSUME HealthSizes, HealthInv, ClearAuthFailure \/ StartPoll \/ FinishPoll \/ EditAccount
    PROVE  HealthInv'
<1>0. inPool \in Objects /\ poll.object \in Objects /\ Available \in Healths /\ 1 \in Objects /\ 1 <= inPool /\ inPool <= inPool
  BY DEF HealthInv, HealthTypes, HealthSizes, Objects, Healths
<1>1. /\ UNCHANGED <<when, provider, group, modelled, inPool, built, rescan, request>>
      /\ poll' \in [step : {"none", "sent"}, object : Objects, free : BOOLEAN] /\ poll'.object <= inPool
      /\ account' \in Credential
  <2>1. CASE ClearAuthFailure
    BY <2>1, Zenon DEF ClearAuthFailure, HealthInv, HealthTypes, HeldAreOld
  <2>2. CASE StartPoll
    BY <1>0, <2>2 DEF StartPoll, HealthInv, HealthTypes
  <2>3. CASE FinishPoll
    BY <1>0, <2>3, Zenon DEF FinishPoll, NoQuery, HealthInv, HealthTypes
  <2>4. CASE EditAccount
    BY <2>4 DEF EditAccount, HealthInv, HealthTypes, HeldAreOld, Credential
  <2> QED
    BY <2>1, <2>2, <2>3, <2>4, Zenon
<1>2. /\ health' \in [Objects -> Healths]
      /\ \A p \in Objects : health'[p] = Disabled <=> health[p] = Disabled
  <2>1. CASE ClearAuthFailure
    BY <1>0, <2>1, HealthsDiffer, Zenon DEF ClearAuthFailure, HealthInv, HealthTypes
  <2>2. CASE FinishPoll
    BY <1>0, <2>2, HealthsDiffer, Zenon DEF FinishPoll, Releases, HealthInv, HealthTypes
  <2>3. CASE StartPoll \/ EditAccount
    BY <2>3, Zenon DEF StartPoll, EditAccount, HealthInv, HealthTypes
  <2> QED
    BY <2>1, <2>2, <2>3, Zenon
<1>3. HealthTypes' /\ HeldAreOld' /\ SwitchInv'
  BY <1>1, <1>2, SMTT(30) DEF HealthInv, HealthTypes, HeldAreOld, SwitchInv
<1>4. BenchInv'
  BY <1>1, BenchesStay, Zenon
<1> QED
  BY <1>3, <1>4, Zenon DEF HealthInv

\* A rescan writes only to an object nobody holds yet.
LEMMA RescanStep ==
    ASSUME HealthSizes, HealthInv, RescanLoads \/ AdoptRuntimeState \/ PublishRescan
    PROVE  HealthInv'
<1>0. /\ inPool \in Objects /\ inPool \in Int /\ MaxRebuilt \in Nat
      /\ \A r \in Request : request[r].object \in Objects /\ request[r].object <= inPool
      /\ group \in Deadlines /\ modelled \in Deadlines /\ health \in [Objects -> Healths]
      /\ Available \in Healths /\ Disabled \in Healths
  BY DEF HealthInv, HealthTypes, HeldAreOld, HealthSizes, Objects, Healths
<1>1. CASE RescanLoads
  <2> DEFINE n == inPool + 1
  <2>0. n \in Objects /\ \A r \in Request : request[r].object # n
    BY <1>0, <1>1 DEF RescanLoads, Objects
  <2>1. /\ UNCHANGED <<when, provider, group, modelled, inPool, account, request, poll>>
        /\ rescan.step = "none" /\ rescan' = [step |-> "loaded", object |-> n]
        /\ built' = [built EXCEPT ![n] = account]
        /\ health' = [health EXCEPT ![n] = IF account.disabled THEN Disabled ELSE Available]
    BY <1>1, Zenon DEF RescanLoads
  <2>2. HealthTypes'
    BY <1>0, <2>0, <2>1, Zenon DEF HealthInv, HealthTypes
  <2>3. HeldAreOld'
    BY <2>0, <2>1, Zenon DEF HealthInv, HeldAreOld
  <2>4. SwitchInv'
    <3>1. \A p \in Objects \ {n} : health'[p] = health[p] /\ built'[p] = built[p]
      BY <1>0, <2>1, Zenon DEF HealthInv, HealthTypes
    <3>2. health'[n] = Disabled <=> built'[n].disabled
      BY <1>0, <2>0, <2>1, HealthsDiffer, Zenon DEF HealthInv, HealthTypes, Credential
    <3> QED
      BY <1>0, <2>0, <2>1, <3>1, <3>2, Zenon DEF HealthInv, SwitchInv
  <2>5. BenchInv'
    BY <2>1, BenchesStay, Zenon
  <2> QED
    BY <2>2, <2>3, <2>4, <2>5, Zenon DEF HealthInv
<1>2. CASE AdoptRuntimeState
  <2> DEFINE n == rescan.object
  <2>0. /\ n \in Objects /\ n = inPool + 1 /\ rescan.step = "loaded"
        /\ \A r \in Request : request[r].object # n
    BY <1>0, <1>2 DEF AdoptRuntimeState, HealthInv, HealthTypes, HeldAreOld
  <2>1. /\ UNCHANGED <<when, provider, inPool, account, built, request, poll>>
        /\ rescan' = [rescan EXCEPT !.step = "adopted"]
    BY <1>2, Zenon DEF AdoptRuntimeState
  <2>2. /\ health' \in [Objects -> Healths] /\ group' \in Deadlines /\ modelled' \in Deadlines
        /\ \A p \in Objects \ {n} : health'[p] = health[p] /\ group'[p] = group[p] /\ modelled'[p] = modelled[p]
        /\ health'[n] \in {health[n], AdoptedHealth(n, inPool)}
    <3>1. CASE SameCredentialIdentity(n, inPool)
      <4>1. /\ health' = [health EXCEPT ![n] = AdoptedHealth(n, inPool)]
            /\ group' = [group EXCEPT ![n] = group[inPool]]
            /\ modelled' = [modelled EXCEPT ![n] = modelled[inPool]]
        BY <1>2, <3>1, Zenon DEF AdoptRuntimeState
      <4>2. AdoptedHealth(n, inPool) \in Healths
        BY <1>0, <2>0, Zenon DEF AdoptedHealth
      <4> QED
        BY <1>0, <2>0, <4>1, <4>2, Zenon DEF Deadlines
    <3>2. CASE ~SameCredentialIdentity(n, inPool)
      BY <1>0, <1>2, <3>2, Zenon DEF AdoptRuntimeState
    <3> QED
      BY <3>1, <3>2, SMTT(30)
  <2>3. HealthTypes'
    BY <2>1, <2>2, Zenon DEF HealthInv, HealthTypes
  <2>4. HeldAreOld'
    <3>1. rescan'.step = "adopted" /\ rescan'.object = n
      BY <2>1, Zenon DEF HealthInv, HealthTypes
    <3>2. \A p \in Objects \ {n} : p > inPool => group[p] = Never
      BY <2>0, Zenon DEF HealthInv, HeldAreOld
    <3> QED
      BY <2>0, <2>1, <2>2, <3>1, <3>2, Zenon DEF HealthInv, HeldAreOld
  <2>5. SwitchInv'
    <3>1. AdoptedHealth(n, inPool) = Disabled <=> health[n] = Disabled
      BY Zenon DEF AdoptedHealth
    <3> QED
      BY <2>0, <2>1, <2>2, <3>1 DEF HealthInv, SwitchInv
  <2>6. BenchInv'
    <3>1. \A q \in Request : /\ group'[request[q].object] = group[request[q].object]
                             /\ modelled'[request[q].object] = modelled[request[q].object]
      BY <1>0, <2>0, <2>2, Zenon
    <3> QED
      BY <2>1, <3>1, Zenon DEF HealthInv, BenchInv, HasGroups
  <2> QED
    BY <2>3, <2>4, <2>5, <2>6 DEF HealthInv
<1>3. CASE PublishRescan
  <2>1. /\ inPool' = rescan.object /\ rescan' = [rescan EXCEPT !.step = "none"] /\ rescan.step = "adopted"
        /\ UNCHANGED <<when, provider, health, group, modelled, account, built, request, poll>>
    BY <1>3, Zenon DEF PublishRescan
  <2>2. rescan.object \in Objects /\ rescan.object = inPool + 1 /\ poll.object \in Objects /\ poll.object <= inPool
    BY <2>1, Zenon DEF HealthInv, HealthTypes, HeldAreOld
  <2>3. HealthTypes'
    BY <2>1, <2>2, Zenon DEF HealthInv, HealthTypes
  <2>4. HeldAreOld'
    <3>1. \A r \in Request : request[r].object <= inPool + 1
      BY <1>0 DEF Objects
    <3>2. \A p \in Objects : p > inPool + 1 => p > inPool /\ p # rescan.object
      BY <1>0, <2>2 DEF Objects
    <3>3. poll.object <= inPool + 1
      BY <1>0, <2>2 DEF Objects
    <3>4. rescan'.step = "none"
      BY <2>1, Zenon DEF HealthInv, HealthTypes
    <3> QED
      BY <2>1, <2>2, <3>1, <3>2, <3>3, <3>4, Zenon DEF HealthInv, HeldAreOld
  <2>5. SwitchInv'
    BY <2>1, Zenon DEF HealthInv, SwitchInv
  <2>6. BenchInv'
    BY <2>1, BenchesStay, Zenon
  <2> QED
    BY <2>3, <2>4, <2>5, <2>6 DEF HealthInv
<1> QED
  BY <1>1, <1>2, <1>3, Zenon

\* Time forgets only deadlines that have run out.
LEMMA Ticks ==
    ASSUME HealthInv, ClockTicks
    PROVE  /\ group' \in Deadlines /\ modelled' \in Deadlines /\ when' = when + 1 /\ when \in Nat
           /\ \A o \in Objects, m \in Models :
                 /\ group[o][m] > when' => group'[o][m] = group[o][m]
                 /\ modelled[o][m] > when' => modelled'[o][m] = modelled[o][m]
           /\ \A o \in Objects : group[o] = Never => group'[o] = Never
<1>1. group \in Deadlines /\ modelled \in Deadlines /\ when \in Nat
  BY SMTT(30) DEF HealthInv, HealthTypes
<1>2. /\ when' = when + 1
      /\ group' = [o \in Objects |-> Serving(group[o])] /\ modelled' = [o \in Objects |-> Serving(modelled[o])]
  BY Zenon DEF ClockTicks
<1>3. \A f \in [Models -> Nat] : /\ Serving(f) \in [Models -> Nat]
                                 /\ \A m \in Models : f[m] > when' => Serving(f)[m] = f[m]
                                 /\ f = Never => Serving(f) = Never
  BY Zenon DEF Serving, Never
<1> HIDE DEF Serving
<1> QED
  BY <1>1, <1>2, <1>3, Zenon DEF Deadlines

\* The passing of time keeps the benches that are still ahead.
LEMMA ClockStep == ASSUME HealthInv, ClockTicks PROVE HealthInv'
<1>1. UNCHANGED <<provider, health, inPool, account, built, rescan, request, poll>>
  BY Zenon DEF ClockTicks
<1>2. HealthTypes' /\ HeldAreOld' /\ SwitchInv'
  <2>1. when' \in Nat \ {0}
    BY Ticks, SMTT(30)
  <2>2. HealthTypes'
    BY <1>1, <2>1, Ticks, Zenon DEF HealthInv, HealthTypes
  <2>3. HeldAreOld'
    BY <1>1, Ticks, Zenon DEF HealthInv, HeldAreOld
  <2>4. SwitchInv'
    BY <1>1, Zenon DEF HealthInv, SwitchInv
  <2> QED
    BY <2>2, <2>3, <2>4, Zenon
<1>3. BenchInv'
  <2> SUFFICES ASSUME NEW q \in Request, request[q].step = "rejected", request[q].until > when'
               PROVE  \/ modelled'[request[q].object][request[q].model] >= request[q].until
                      \/ HasGroups /\ group'[request[q].object][request[q].model] >= request[q].until
    BY <1>1, Zenon DEF BenchInv, HasGroups
  <2> DEFINE o == request[q].object
             m == request[q].model
  <2>1. o \in Objects /\ m \in Models /\ request[q].until \in Nat
    BY Zenon DEF HealthInv, HealthTypes
  <2>2. request[q].until > when /\ when' \in Nat
    BY <2>1, Ticks, SMTT(30)
  <2>3. modelled[o][m] >= request[q].until \/ (HasGroups /\ group[o][m] >= request[q].until)
    BY <2>2, Zenon DEF HealthInv, BenchInv
  <2>4. modelled[o][m] \in Nat /\ group[o][m] \in Nat
    BY <2>1, SMTT(30) DEF HealthInv, HealthTypes, Deadlines
  <2>5. /\ modelled[o][m] >= request[q].until => modelled'[o][m] = modelled[o][m]
        /\ group[o][m] >= request[q].until => group'[o][m] = group[o][m]
    BY <2>1, <2>2, <2>4, Ticks
  <2> QED
    BY <2>3, <2>5, Zenon
<1> QED
  BY <1>2, <1>3, Zenon DEF HealthInv

\* Every step of requests, polls, rescans and the clock keeps the invariant.
LEMMA HealthNextInv == HealthSizes /\ HealthInv /\ [HealthNext]_healthVars => HealthInv'
<1> SUFFICES ASSUME HealthSizes, HealthInv, [HealthNext]_healthVars PROVE HealthInv'
  BY Zenon
<1>0. "asked" \in Models
  BY Zenon DEF Models
<1>1. ASSUME NEW r \in Request, NEW m \in Models, Send(r, m) PROVE HealthInv'
  BY <1>1, RequestStep, Zenon
<1>2. ASSUME NEW r \in Request, Succeed(r) \/ RejectCredential(r) \/ WalkOn(r) PROVE HealthInv'
  BY <1>0, <1>2, RequestStep, Zenon
<1>3. ASSUME NEW r \in Request, RecordCooldown(r) \/ InsufficientCredits(r) PROVE HealthInv'
  <2>1. HealthTypes
    BY Zenon DEF HealthInv
  <2> QED
    BY <1>3, <2>1, LimitsAnswered, LimitsKeep, Zenon
<1>4. CASE ClearAuthFailure \/ StartPoll \/ FinishPoll \/ EditAccount
  BY <1>4, CureStep, Zenon
<1>5. CASE RescanLoads \/ AdoptRuntimeState \/ PublishRescan
  BY <1>5, RescanStep, Zenon
<1>6. CASE ClockTicks
  BY <1>6, ClockStep, Zenon
<1>7. CASE UNCHANGED healthVars
  BY <1>7, Zenon DEF healthVars, HealthInv, HealthTypes, HeldAreOld, SwitchInv, BenchInv, HasGroups
<1> QED
  BY <1>1, <1>2, <1>3, <1>4, <1>5, <1>6, <1>7, Zenon DEF HealthNext

\* The invariant of benches and switches always holds.
LEMMA AlwaysHealth == HealthSizes /\ HealthSpec => []HealthInv
<1> SUFFICES ASSUME HealthSizes PROVE HealthSpec => []HealthInv
  BY Zenon
<1>1. HealthInit => HealthInv
  BY HealthInitInv, Zenon
<1>2. HealthInv /\ [HealthNext]_healthVars => HealthInv'
  BY HealthNextInv, Zenon
<1> QED
  BY <1>1, <1>2, PTL DEF HealthSpec

\* An account an answer benched does not come back to the walk before the
\* bench is over: no other answer, poll, refresh or rescan makes it routable
\* for the model that was rejected (record_cooldown, set_group_cooldown).
THEOREM RejectedAreBenched == HealthSizes /\ HealthSpec => []RejectedStaysBenched
<1> SUFFICES ASSUME HealthSizes PROVE HealthSpec => []RejectedStaysBenched
  BY Zenon
<1>1. ASSUME HealthInv PROVE RejectedStaysBenched
  <2> SUFFICES ASSUME NEW r \in Request, request[r].step = "rejected", request[r].until > when
               PROVE  ~Routable(request[r].object, request[r].model)
    BY Zenon DEF RejectedStaysBenched
  <2> DEFINE o == request[r].object
             m == request[r].model
  <2>1. /\ o \in Objects /\ m \in Models /\ request[r].until \in Nat /\ when \in Nat
        /\ modelled[o][m] \in Nat /\ group[o][m] \in Nat
    BY <1>1, SMTT(30) DEF HealthInv, HealthTypes, Deadlines
  <2>2. modelled[o][m] >= request[r].until \/ (HasGroups /\ group[o][m] >= request[r].until)
    BY <1>1, SMTT(30) DEF HealthInv, BenchInv
  <2>3. modelled[o][m] > when \/ (HasGroups /\ group[o][m] > when)
    BY <2>1, <2>2, SMTT(30)
  <2>4. ~(modelled[o][m] <= when) \/ (HasGroups /\ ~(group[o][m] <= when))
    BY <2>1, <2>3, SMTT(30)
  <2> QED
    BY <2>4, Zenon DEF Routable, GroupAvailable
<1> QED
  BY <1>1, AlwaysHealth, PTL

\* The operator's switch is the file's on every object that is or was in the
\* pool, whatever answers, polls and rescans do (adopt_runtime_state).
THEOREM SwitchIsKept == HealthSizes /\ HealthSpec => []SwitchIsTheOperators
<1> SUFFICES ASSUME HealthSizes PROVE HealthSpec => []SwitchIsTheOperators
  OBVIOUS
<1>1. HealthInv => SwitchIsTheOperators
  BY DEF HealthInv, HealthTypes, SwitchInv, SwitchIsTheOperators, Objects, HealthSizes
<1> QED
  BY <1>1, AlwaysHealth, PTL

\* A bench of a quota group ends no earlier than any answer asked for, and a
\* rescan of the same login hands it on (set_group_cooldown,
\* adopt_runtime_state).
THEOREM GroupsStayBenched == HealthSizes /\ HealthSpec => GroupBenchesHold
<1> SUFFICES ASSUME HealthSizes PROVE HealthSpec => GroupBenchesHold
  BY Zenon
<1>1. ASSUME HealthInv, [HealthNext]_healthVars PROVE [GroupBenchesHoldStep]_healthVars
  <2> SUFFICES ASSUME HealthNext PROVE GroupBenchesHoldStep
    BY <1>1, Zenon
  <2> USE <1>1
  <2>0. /\ when \in Nat /\ group \in Deadlines /\ inPool \in Objects /\ rescan.object \in Objects
        /\ \A o \in Objects, m \in Models : group[o][m] \in Nat
    BY DEF HealthInv, HealthTypes, Deadlines
  <2>1. CASE AdoptRuntimeState
    <3>1. rescan.step = "loaded" /\ rescan.object = inPool + 1 /\ when' = when
      BY <2>1, Zenon DEF AdoptRuntimeState, HealthInv, HeldAreOld
    <3>2. group[rescan.object] = Never
      BY <2>0, <3>1 DEF HealthInv, HeldAreOld, Objects
    <3>3. \A m \in Models : ~(group[rescan.object][m] > when)
      BY <2>0, <3>2, SMTT(30) DEF Never
    <3>4. CASE SameCredentialIdentity(rescan.object, inPool)
      <4>1. group' = [group EXCEPT ![rescan.object] = group[inPool]]
        BY <2>1, <3>4, Zenon DEF AdoptRuntimeState
      <4>2. group'[rescan.object] = group[inPool] /\ \A o \in Objects \ {rescan.object} : group'[o] = group[o]
        BY <2>0, <4>1, Zenon DEF Deadlines
      <4> QED
        BY <2>0, <3>1, <3>3, <4>2 DEF GroupBenchesHoldStep
    <3>5. CASE ~SameCredentialIdentity(rescan.object, inPool)
      <4>1. group' = group
        BY <2>1, <3>5, Zenon DEF AdoptRuntimeState
      <4> QED
        BY <2>0, <3>5, <4>1 DEF GroupBenchesHoldStep
    <3> QED
      BY <3>4, <3>5, Zenon
  <2>2. ASSUME NEW r \in Request, RecordCooldown(r) \/ InsufficientCredits(r) PROVE GroupBenchesHoldStep
    <3>1. Limits(r)
      BY <2>2, LimitsAnswered, SMTT(30) DEF HealthInv
    <3> QED
      BY <3>1, Zenon DEF Limits, GroupBenchesHoldStep
  <2>3. CASE ClockTicks
    <3>1. rescan' = rescan
      BY <2>3, Zenon DEF ClockTicks
    <3> QED
      BY <2>0, <2>3, <3>1, Ticks, SMTT(30) DEF GroupBenchesHoldStep
  <2>4. ASSUME group' = group, ~(rescan.step = "loaded" /\ rescan'.step = "adopted") PROVE GroupBenchesHoldStep
    BY <2>0, <2>4 DEF GroupBenchesHoldStep
  <2>5. ASSUME NEW r \in Request, NEW m \in Models,
               Send(r, m) \/ Succeed(r) \/ RejectCredential(r) \/ WalkOn(r)
        PROVE  group' = group /\ rescan' = rescan
    BY <2>5, Zenon DEF Send, Succeed, RejectCredential, WalkOn
  <2>6. ASSUME ClearAuthFailure \/ StartPoll \/ FinishPoll \/ EditAccount
        PROVE  group' = group /\ rescan' = rescan
    BY <2>6, Zenon DEF ClearAuthFailure, StartPoll, FinishPoll, EditAccount
  <2>7. ASSUME RescanLoads \/ PublishRescan
        PROVE  group' = group /\ ~(rescan.step = "loaded" /\ rescan'.step = "adopted")
    BY <2>7, Zenon DEF RescanLoads, PublishRescan
  <2>8. "asked" \in Models
    BY Zenon DEF Models
  <2> QED
    BY <2>1, <2>2, <2>3, <2>4, <2>5, <2>6, <2>7, <2>8, Zenon DEF HealthNext
<1> QED
  BY <1>1, AlwaysHealth, PTL DEF HealthSpec, GroupBenchesHold

\* A quota poll lifts cooldowns and nothing else, whatever happened to the
\* object while its answer was under way
\* (release_codex_cooldown_if_quota_free).
THEOREM PollsLiftCooldowns == HealthSizes /\ HealthSpec => PollLiftsCooldownsOnly
<1> SUFFICES ASSUME HealthSizes PROVE HealthSpec => PollLiftsCooldownsOnly
  OBVIOUS
<1>1. ASSUME HealthInv, [HealthNext]_healthVars PROVE [PollLiftsCooldownsOnlyStep]_healthVars
  <2> SUFFICES ASSUME HealthNext, poll.step = "sent", poll'.step = "none"
               PROVE  \A o \in Objects : health'[o] # health[o] => health[o].state = "cooldown"
    BY <1>1, Zenon DEF PollLiftsCooldownsOnlyStep
  <2>1. CASE FinishPoll
    BY <1>1, <2>1, Zenon DEF FinishPoll, Releases, HealthInv, HealthTypes
  <2>2. CASE ~FinishPoll
    <3>1. poll' = poll \/ poll'.step = "sent"
      BY <2>2, Zenon DEF HealthNext, Send, Succeed, RecordCooldown, InsufficientCredits, RejectCredential, WalkOn,
                  ClearAuthFailure, StartPoll, EditAccount, RescanLoads, AdoptRuntimeState, PublishRescan, ClockTicks
    <3> QED
      BY <3>1, Zenon
  <2> QED
    BY <2>1, <2>2, Zenon
<1> QED
  BY <1>1, AlwaysHealth, PTL DEF HealthSpec, PollLiftsCooldownsOnly

-----------------------------------------------------------------------------
(***************************************************************************)
(* Usage polls and reset credits.                                          *)
(***************************************************************************)
PollingSpec == PollingInit /\ [][PollingNext]_pollingVars

Snapshots == [report : Nat, models : Nat, status : {"unknown", "ok", "failed", "rate_limited"}]
PollType == [step : {"idle", "sent", "details"}, report : Nat, models : Nat, refreshed : BOOLEAN]

\* The account of a reset call: what it took so far is under its id.
PollingInv ==
    /\ backoff \in Nat /\ moment \in Nat /\ listed \in BOOLEAN
    /\ usage \in Snapshots /\ news \in Nat /\ polls \in [Poll -> PollType]
    /\ backoff > 0 => listed
    /\ charged \in {0, 1}
    /\ charged = 1 /\ resetting.step # "idle" => resetting.id \in redeemed

\* Before any poll there is no backoff, and no credit was taken.
LEMMA PollingInitInv == PollingInit => PollingInv
  BY SMTT(30) DEF PollingInit, PollingInv, NoPoll, NoReset, PollType, Snapshots

\* A poll's steps: its answers, and what they do to the snapshot.
LEMMA PollSteps ==
    ASSUME PollingInv, NEW p \in Poll,
           Start(p) \/ Reported(p) \/ Detailed(p) \/ Unauthorized(p) \/ RateLimited(p) \/ Breaks(p)
    PROVE  PollingInv' /\ FailureKeepsTheReportStep
<1> USE DEF PollingInv, FailureKeepsTheReportStep, resetVars
<1>0. NoPoll \in PollType /\ polls[p].models \in Nat /\ polls[p].report \in Nat /\ usage.models \in Nat
  BY Zenon DEF NoPoll, PollType, Snapshots
<1>1. CASE Start(p)
  <2>1. [NoPoll EXCEPT !.step = "sent", !.models = usage.models] \in PollType
    BY <1>0, Zenon DEF PollType
  <2> QED
    BY <1>1, <2>1, Zenon DEF Start
<1>2. ASSUME NEW report \in Nat, NEW models \in Nat, SetUsage(p, report, models),
             UNCHANGED <<listed, moment, news, resetVars>>
      PROVE  PollingInv' /\ FailureKeepsTheReportStep
  <2>1. usage' \in Snapshots /\ usage'.status = "ok"
    BY <1>2, SMTT(30) DEF SetUsage, Snapshots
  <2> QED
    BY <1>0, <1>2, <2>1, SMTT(30) DEF SetUsage
<1>3. CASE Reported(p)
  <2>1. CASE pkind \in {"codex", "antigravity"}
    <3>1. polls' = [polls EXCEPT ![p].step = "details", ![p].report = news] /\ UNCHANGED <<usage, backoff>>
      BY <1>3, <2>1, Zenon DEF Reported
    <3>2. polls' \in [Poll -> PollType]
      BY <3>1, ZenonT(60) DEF PollType
    <3> QED
      BY <1>3, <3>1, <3>2, Zenon DEF Reported
  <2>2. CASE pkind \notin {"codex", "antigravity"}
    BY <1>0, <1>2, <1>3, <2>2, Zenon DEF Reported
  <2> QED
    BY <2>1, <2>2, Zenon
<1>4. CASE Detailed(p)
  <2>1. PICK models \in {polls[p].models} \cup (IF pkind = "antigravity" THEN {news} ELSE {}) :
            SetUsage(p, polls[p].report, models)
    BY <1>4, SMTT(30) DEF Detailed
  <2>2. models \in Nat /\ UNCHANGED <<listed, moment, news, resetVars>>
    BY <1>0, <1>4, <2>1, Zenon DEF Detailed
  <2> QED
    BY <1>0, <1>2, <2>1, <2>2, SMTT(30)
<1>5. ASSUME NEW status \in {"failed", "rate_limited"}, Failed(p, status)
      PROVE  /\ polls' \in [Poll -> PollType] /\ usage' \in Snapshots
             /\ usage'.report = usage.report /\ usage'.models = usage.models
  BY <1>0, <1>5, SMTT(30) DEF Failed, Snapshots
<1>6. CASE Unauthorized(p)
  <2>1. CASE Failed(p, "failed")
    BY <1>5, <1>6, <2>1, Zenon DEF Unauthorized
  <2>2. CASE ~Failed(p, "failed")
    <3>1. polls' = [polls EXCEPT ![p].refreshed = TRUE, ![p].models = usage.models] /\ usage' = usage
      BY <1>6, <2>2, Zenon DEF Unauthorized
    <3>2. polls' \in [Poll -> PollType]
      BY <1>0, <3>1, Zenon DEF PollType
    <3> QED
      BY <1>6, <3>1, <3>2, Zenon DEF Unauthorized
  <2> QED
    BY <2>1, <2>2, Zenon
<1>7. CASE RateLimited(p)
  <2>1. PICK status \in {"failed", "rate_limited"} : Failed(p, status)
    BY <1>7, SMTT(30) DEF RateLimited
  <2> QED
    BY <1>5, <1>7, <2>1, SMTT(30) DEF RateLimited
<1>8. CASE Breaks(p)
  BY <1>5, <1>8, SMTT(30) DEF Breaks
<1> QED
  BY <1>1, <1>3, <1>4, <1>6, <1>7, <1>8, SMTT(30)

\* The reset call's steps: a credit is taken under an id that has none yet.
LEMMA ResetSteps ==
    ASSUME PollingInv, ConsumeResetCredit \/ RetryReset \/ EndReset
    PROVE  PollingInv' /\ FailureKeepsTheReportStep
<1> USE DEF PollingInv, FailureKeepsTheReportStep, pollVars
<1>1. CASE ConsumeResetCredit
  BY <1>1 DEF ConsumeResetCredit
<1>2. CASE RetryReset
  <2>1. resetting'.step # "idle" => resetting'.id = resetting.id
    BY <1>2, SMTT(30) DEF RetryReset
  <2> QED
    BY <1>2, <2>1 DEF RetryReset, TakesReport
<1>3. CASE EndReset
  BY <1>3 DEF EndReset, TakesReport, NoReset
<1> QED
  BY <1>1, <1>2, <1>3, SMTT(30)

\* Every step of the polls and of the reset call keeps the invariant, and none
\* that leaves an error in the snapshot changes its numbers.
LEMMA PollingStep == PollingInv /\ [PollingNext]_pollingVars => PollingInv' /\ FailureKeepsTheReportStep
<1> SUFFICES ASSUME PollingInv, [PollingNext]_pollingVars PROVE PollingInv' /\ FailureKeepsTheReportStep
  BY SMTT(30)
<1>1. ASSUME RetainBackoffs \/ Moment \/ News \/ UNCHANGED pollingVars
      PROVE  PollingInv' /\ FailureKeepsTheReportStep
  <2> USE DEF PollingInv, FailureKeepsTheReportStep, resetVars
  <2>1. CASE RetainBackoffs
    BY <2>1 DEF RetainBackoffs
  <2>2. CASE Moment
    BY <2>2 DEF Moment
  <2>3. CASE News
    BY <2>3 DEF News
  <2>4. CASE UNCHANGED pollingVars
    BY <2>4, Zenon DEF pollingVars
  <2> QED
    BY <1>1, <2>1, <2>2, <2>3, <2>4, Zenon
<1> QED
  BY <1>1, PollSteps, ResetSteps, Zenon DEF PollingNext

\* The invariant of polls and reset calls always holds.
LEMMA AlwaysPolling == PollingSpec => []PollingInv
<1>1. PollingInv /\ [PollingNext]_pollingVars => PollingInv'
  BY PollingStep, Zenon
<1> QED
  BY <1>1, PollingInitInv, PTL DEF PollingSpec

\* No backoff outlives its account, also when a poll under way while the
\* account was dropped meets its 429 later (PollBackoffStore).
THEOREM BackoffsAreLive == PollingSpec => []BackoffOfLiveOnly
<1>1. PollingInv => BackoffOfLiveOnly
  BY Zenon DEF PollingInv, BackoffOfLiveOnly
<1> QED
  BY <1>1, AlwaysPolling, PTL

\* One reset call takes one credit at most, retried or not, whichever answer
\* was lost (retain_redeem_request_id).
THEOREM OneCreditPerReset == PollingSpec => []ResetSpendsOnce
<1>1. PollingInv => ResetSpendsOnce
  BY SMTT(30) DEF PollingInv, ResetSpendsOnce
<1> QED
  BY <1>1, AlwaysPolling, PTL

\* A poll that fails leaves the last report in place
\* (record_quota_refresh_failure).
THEOREM FailuresKeepReports == PollingSpec => FailureKeepsTheReport
<1>1. PollingInv /\ [PollingNext]_pollingVars => [FailureKeepsTheReportStep]_pollingVars
  BY PollingStep, SMTT(30)
<1> QED
  BY <1>1, AlwaysPolling, PTL DEF PollingSpec, FailureKeepsTheReport

-----------------------------------------------------------------------------
(***************************************************************************)
(* Warmup probes.                                                          *)
(***************************************************************************)
WarmupSpec == WarmupInit /\ [][WarmupNext]_warmupVars

WarmupSizes == MaxFlight \in Nat /\ Window \in Nat /\ Jitter \in Nat

Flights == 1..MaxFlight
WorkerType == [step : {"none", "queued", "sent"}, automatic : BOOLEAN, stay : Nat, at : Nat]
ProbeType == [at : Nat, result : {"none", "ok", "failed"}]

WarmupTypes ==
    /\ hour \in Nat \ {0} /\ admitted \in BOOLEAN /\ member \in BOOLEAN /\ stay \in Nat /\ reset \in Nat /\ window \in Nat
    /\ generation \in 0..MaxFlight /\ flights \in 0..generation
    /\ worker \in [Flights -> WorkerType] /\ probes \in ProbeType /\ settled \in ProbeType

\* A task belongs to a flight that was made and to a stay that began; one of
\* the present stay is the one in the map.
TasksInv ==
    /\ \A g \in Flights : Active(g) => g <= generation /\ worker[g].stay <= stay /\ worker[g].at <= hour
    /\ admitted => \A g \in Flights : Active(g) /\ worker[g].stay = stay => flights = g

\* While the account is there, its record is at least as recent as the probe
\* that its task sent and as the success that settled last.
RecordInv ==
    /\ probes.at <= hour
    /\ admitted => \A g \in Flights : worker[g].step = "sent" /\ worker[g].stay = stay
                                        => 1 <= worker[g].at /\ worker[g].at <= probes.at
    /\ admitted /\ settled.result = "ok" => probes.result = "ok" /\ settled.at <= probes.at

WarmupInv == WarmupTypes /\ TasksInv /\ RecordInv /\ FlightsHaveWorkers /\ OneProbePerStay

\* A runner without flights satisfies the invariant.
LEMMA WarmupInitInv == WarmupSizes /\ WarmupInit => WarmupInv
  BY DEF WarmupSizes, WarmupInit, WarmupInv, WarmupTypes, TasksInv, RecordInv, FlightsHaveWorkers, OneProbePerStay,
         Active, NoWorker, NoProbe, Flights, WorkerType, ProbeType

\* run: a new flight is the only one of its stay.
LEMMA RunStep ==
    ASSUME WarmupSizes, WarmupInv, NEW automatic \in BOOLEAN, RunProbe(automatic)
    PROVE  WarmupInv'
<1>1. UNCHANGED <<hour, member, admitted, stay, reset, window, probes, settled>>
  BY Zenon DEF RunProbe
<1>2. CASE admitted /\ flights = 0
  <2> DEFINE n == generation + 1
             w == [step |-> "queued", automatic |-> automatic, stay |-> stay, at |-> 0]
  <2>1. n \in Flights /\ generation' = n /\ flights' = n /\ worker' = [worker EXCEPT ![n] = w]
    BY <1>2 DEF RunProbe, WarmupInv, WarmupTypes, Flights, WarmupSizes
  <2>2. worker \in [Flights -> WorkerType] /\ w \in WorkerType /\ generation \in Nat /\ n > 0
    BY DEF WarmupInv, WarmupTypes, WorkerType
  <2>3. worker'[n] = w /\ worker' \in [Flights -> WorkerType] /\ \A g \in Flights \ {n} : worker'[g] = worker[g]
    BY <2>1, <2>2, SMTT(30)
  <2>4. WarmupTypes'
    BY <1>1, <2>1, <2>2, <2>3, SMTT(30) DEF WarmupInv, WarmupTypes, Flights, WarmupSizes
  <2>5. \A g \in Flights : Active(g) => worker[g].stay # stay
    BY <1>2, SMTT(30) DEF WarmupInv, TasksInv, Flights
  <2>6. TasksInv'
    <3>1. \A g \in Flights : Active(g) => g <= generation /\ worker[g].stay <= stay /\ worker[g].at <= hour
      BY Zenon DEF WarmupInv, TasksInv
    <3>2. hour \in Nat /\ stay \in Nat
      BY Zenon DEF WarmupInv, WarmupTypes
    <3>3. \A g \in Flights : g # n => (Active(g)' <=> Active(g)) /\ worker'[g] = worker[g]
      BY <2>3, SMTT(30) DEF Active
    <3>4. /\ worker'[n] = w /\ generation' = n /\ flights' = n /\ n = generation + 1 /\ generation \in Nat
          /\ UNCHANGED <<hour, stay, admitted>>
      BY <1>1, <2>1, <2>2, <2>3, Zenon
    <3> HIDE DEF n
    <3>5. (\A g \in Flights : Active(g) => g <= generation /\ worker[g].stay <= stay /\ worker[g].at <= hour)'
      <4> SUFFICES ASSUME NEW g \in Flights, Active(g)'
                   PROVE  g <= generation' /\ worker'[g].stay <= stay' /\ worker'[g].at <= hour'
        BY Zenon
      <4>1. g \in Nat
        BY SMTT(30) DEF Flights
      <4>2. CASE g = n
        <5>1. worker'[g].stay = stay /\ worker'[g].at = 0
          BY <3>4, <4>2, SMTT(30)
        <5> QED
          BY <3>2, <3>4, <4>1, <4>2, <5>1, SMTT(30)
      <4>3. CASE g # n
        <5>1. g <= generation /\ worker'[g].stay <= stay /\ worker'[g].at <= hour
          BY <3>1, <3>3, <4>3, Zenon
        <5> QED
          BY <3>4, <4>1, <5>1, SMTT(30)
      <4> QED
        BY <4>2, <4>3, Zenon
    <3>6. (\A g \in Flights : Active(g) /\ worker[g].stay = stay => flights = g)'
      BY <2>5, <3>3, <3>4, SMTT(30) DEF Flights
    <3> QED
      BY <3>5, <3>6, Zenon DEF TasksInv
  <2>7. RecordInv'
    BY <1>1, <2>1, <2>3, SMTT(30) DEF WarmupInv, RecordInv
  <2>8. FlightsHaveWorkers'
    BY <1>1, <1>2, <2>1, <2>3, SMTT(30) DEF WarmupInv, FlightsHaveWorkers, Active
  <2>9. OneProbePerStay'
    BY <1>1, <2>1, <2>3, <2>5, SMTT(30) DEF WarmupInv, OneProbePerStay, Active, Flights
  <2> QED
    BY <2>4, <2>6, <2>7, <2>8, <2>9, Zenon DEF WarmupInv
<1>3. CASE ~(admitted /\ flights = 0)
  <2>1. UNCHANGED <<generation, flights, worker>>
    BY <1>3, SMTT(30) DEF RunProbe
  <2> QED
    BY <1>1, <2>1, Zenon DEF WarmupInv, WarmupTypes, TasksInv, RecordInv, FlightsHaveWorkers, OneProbePerStay, Active
<1> QED
  BY <1>2, <1>3, Zenon

\* A task that ends takes its own flight from the map and no other.
LEMMA FinishStep ==
    ASSUME WarmupSizes, WarmupInv, NEW g \in Flights, FinishFlight(g), Active(g),
           UNCHANGED <<hour, member, admitted, stay, generation>>
    PROVE  /\ flights' \in 0..generation' /\ worker' \in [Flights -> WorkerType]
           /\ TasksInv' /\ OneProbePerStay'
           /\ flights' # 0 => Active(flights)' /\ worker'[flights'].stay = stay'
           /\ flights' \in {0, flights}
           /\ \A h \in Flights : worker'[h].step # "none" => worker'[h] = worker[h]
<1>1. /\ worker' = [worker EXCEPT ![g] = NoWorker] /\ flights' = IF flights = g THEN 0 ELSE flights
      /\ worker \in [Flights -> WorkerType] /\ NoWorker \in WorkerType /\ flights \in 0..generation
      /\ generation \in 0..MaxFlight
  BY SMTT(30) DEF FinishFlight, WarmupInv, WarmupTypes, NoWorker, WorkerType
<1>2. /\ worker'[g] = NoWorker /\ NoWorker.step = "none" /\ \A h \in Flights \ {g} : worker'[h] = worker[h]
      /\ worker' \in [Flights -> WorkerType]
  BY <1>1, Zenon DEF NoWorker
<1>3. flights' \in 0..generation' /\ flights' \in {0, flights}
  BY <1>1, SMTT(30)
<1>4. \A h \in Flights : worker'[h].step # "none" => h # g /\ worker'[h] = worker[h]
  BY <1>2, SMTT(30)
<1>5. TasksInv'
  BY <1>1, <1>4, Zenon DEF WarmupInv, TasksInv, Active
<1>6. OneProbePerStay'
  BY <1>4, Zenon DEF WarmupInv, OneProbePerStay, Active, Flights
<1>7. flights' # 0 => Active(flights)' /\ worker'[flights'].stay = stay'
  <2> SUFFICES ASSUME flights' # 0 PROVE worker'[flights'].step # "none" /\ worker'[flights'].stay = stay
    BY Zenon DEF Active
  <2>1. flights' = flights /\ flights # g
    BY <1>1, Zenon
  <2>2. flights \in Flights
    BY <1>1, <2>1, SMTT(30) DEF Flights, WarmupSizes
  <2> QED
    BY <1>2, <2>1, <2>2, Zenon DEF WarmupInv, FlightsHaveWorkers, Active
<1> QED
  BY <1>2, <1>3, <1>4, <1>5, <1>6, <1>7, Zenon

\* execute: a probe that is sent is recorded, for as long as the account is
\* there.
LEMMA ExecuteStep ==
    ASSUME WarmupSizes, WarmupInv, NEW g \in Flights, Execute(g)
    PROVE  WarmupInv'
<1>0. /\ UNCHANGED <<hour, member, admitted, stay, reset, window, generation, settled>>
      /\ worker[g].step = "queued" /\ Active(g)
      /\ worker \in [Flights -> WorkerType] /\ probes \in ProbeType /\ hour \in Nat \ {0}
  BY Zenon DEF Execute, Active, WarmupInv, WarmupTypes
<1>1. CASE member /\ Eligible /\ (worker[g].automatic => DueAt)
  <2>1. /\ worker' = [worker EXCEPT ![g].step = "sent", ![g].at = hour] /\ flights' = flights
        /\ probes' = IF admitted THEN [probes EXCEPT !.at = hour] ELSE probes
    BY <1>1, Zenon DEF Execute
  <2>2. /\ worker' \in [Flights -> WorkerType] /\ \A h \in Flights \ {g} : worker'[h] = worker[h]
        /\ worker'[g].step = "sent" /\ worker'[g].at = hour /\ worker'[g].stay = worker[g].stay
    BY <1>0, <2>1, Zenon DEF WorkerType
  <2>3. /\ probes' \in ProbeType /\ probes'.result = probes.result /\ probes'.at <= hour
        /\ admitted => probes'.at = hour
        /\ ~admitted => probes' = probes
    BY <1>0, <2>1 DEF ProbeType, WarmupInv, RecordInv
  <2>4. WarmupTypes'
    BY <1>0, <2>1, <2>2, <2>3, Zenon DEF WarmupInv, WarmupTypes
  <2>5. \A h \in Flights : (worker'[h].step # "none" <=> worker[h].step # "none") /\ worker'[h].stay = worker[h].stay
    BY <1>0, <2>2, Zenon
  <2>6. TasksInv'
    BY <1>0, <2>1, <2>2, <2>5 DEF WarmupInv, TasksInv, Active
  <2>7. RecordInv'
    <3>1. \A h \in Flights : worker'[h].step = "sent" /\ worker'[h].stay = stay
                               => worker'[h].at <= hour /\ (admitted => 1 <= worker'[h].at)
      BY <1>0, <2>2, SMTT(30) DEF WarmupInv, TasksInv, RecordInv, Active
    <3>2. admitted /\ settled.result = "ok" => probes'.result = "ok" /\ settled.at <= hour
      BY <1>0, <2>3 DEF WarmupInv, WarmupTypes, RecordInv, ProbeType
    <3> QED
      BY <1>0, <2>3, <3>1, <3>2, Zenon DEF RecordInv
  <2>8. FlightsHaveWorkers'
    <3>1. flights # 0 => flights \in Flights
      BY DEF WarmupInv, WarmupTypes, Flights, WarmupSizes
    <3>2. ~admitted => flights' = 0 /\ probes' = NoProbe
      BY <2>1, <2>3, Zenon DEF WarmupInv, FlightsHaveWorkers
    <3>3. flights' # 0 => worker'[flights'].step # "none" /\ worker'[flights'].stay = stay
      BY <2>1, <2>5, <3>1, Zenon DEF WarmupInv, FlightsHaveWorkers, Active
    <3> QED
      BY <1>0, <3>2, <3>3, Zenon DEF FlightsHaveWorkers, Active
  <2>9. OneProbePerStay'
    BY <2>5, SMTT(30) DEF WarmupInv, OneProbePerStay, Active, Flights
  <2> QED
    BY <2>4, <2>6, <2>7, <2>8, <2>9, Zenon DEF WarmupInv
<1>2. CASE ~(member /\ Eligible /\ (worker[g].automatic => DueAt))
  <2>1. FinishFlight(g) /\ probes' = probes
    BY <1>2, SMTT(30) DEF Execute
  <2>2. /\ flights' \in 0..generation' /\ worker' \in [Flights -> WorkerType]
        /\ TasksInv' /\ OneProbePerStay'
        /\ flights' # 0 => Active(flights)' /\ worker'[flights'].stay = stay'
        /\ flights' \in {0, flights}
        /\ \A h \in Flights : worker'[h].step # "none" => worker'[h] = worker[h]
    BY <1>0, <2>1, FinishStep, SMTT(30)
  <2>3. WarmupTypes' /\ RecordInv' /\ FlightsHaveWorkers'
    BY <1>0, <2>1, <2>2, Zenon DEF WarmupInv, WarmupTypes, RecordInv, FlightsHaveWorkers, Active
  <2> QED
    BY <2>2, <2>3, Zenon DEF WarmupInv
<1> QED
  BY <1>1, <1>2, Zenon

\* A task's end settles the probe of its own stay.
LEMMA SettleStep ==
    ASSUME WarmupSizes, WarmupInv, NEW g \in Flights, Settle(g)
    PROVE  WarmupInv'
<1>0. /\ UNCHANGED <<hour, member, admitted, stay, reset, generation>>
      /\ worker[g].step = "sent" /\ Active(g) /\ FinishFlight(g)
      /\ worker \in [Flights -> WorkerType] /\ probes \in ProbeType /\ hour \in Nat \ {0} /\ Window \in Nat
  BY SMTT(30) DEF Settle, Active, WarmupInv, WarmupTypes, WarmupSizes
<1>1. /\ flights' \in 0..generation' /\ worker' \in [Flights -> WorkerType]
      /\ TasksInv' /\ OneProbePerStay'
      /\ flights' # 0 => Active(flights)' /\ worker'[flights'].stay = stay'
      /\ flights' \in {0, flights}
      /\ \A h \in Flights : worker'[h].step # "none" => worker'[h] = worker[h]
  BY <1>0, FinishStep, Zenon
<1>2. PICK ok \in BOOLEAN, result \in {"ok", "failed"} :
          /\ ok <=> result = "ok"
          /\ probes' = IF probes = NoProbe THEN probes ELSE [probes EXCEPT !.result = result]
          /\ window' = IF ok /\ window <= hour THEN hour + Window ELSE window
          /\ settled' = IF worker[g].stay = stay THEN [at |-> worker[g].at, result |-> result] ELSE NoProbe
  <2>1. PICK status \in {200, 429, 500}, frames \in {{"content", "terminal"}, {"content"}} :
          LET ok == status = 200 /\ Validate(frames)
              result == IF ok THEN "ok" ELSE "failed" IN
          /\ probes' = IF probes = NoProbe THEN probes ELSE [probes EXCEPT !.result = result]
          /\ window' = IF ok /\ window <= hour THEN hour + Window ELSE window
          /\ blocked' = (blocked \/ status = 429)
          /\ settled' = IF worker[g].stay = stay THEN [at |-> worker[g].at, result |-> result] ELSE NoProbe
    BY Zenon DEF Settle
  <2> DEFINE ok == status = 200 /\ Validate(frames)
             result == IF ok THEN "ok" ELSE "failed"
  <2>2. ok \in BOOLEAN
    BY Zenon DEF Validate
  <2>3. result \in {"ok", "failed"} /\ (ok <=> result = "ok")
    OBVIOUS
  <2>4. /\ probes' = IF probes = NoProbe THEN probes ELSE [probes EXCEPT !.result = result]
        /\ window' = IF ok /\ window <= hour THEN hour + Window ELSE window
        /\ settled' = IF worker[g].stay = stay THEN [at |-> worker[g].at, result |-> result] ELSE NoProbe
    BY <2>1, Zenon
  <2> HIDE DEF ok, result
  <2> QED
    BY <2>2, <2>3, <2>4, Zenon
<1>3. /\ probes' \in ProbeType /\ probes'.at = probes.at
      /\ probes # NoProbe => probes'.result = result
      /\ probes = NoProbe => probes' = NoProbe
  BY <1>0, <1>2, Zenon DEF ProbeType, NoProbe
<1>4. settled' \in ProbeType
  BY <1>0, <1>2, Zenon DEF ProbeType, NoProbe, WorkerType
<1>5. WarmupTypes'
  BY <1>0, <1>1, <1>2, <1>3, <1>4 DEF WarmupInv, WarmupTypes
<1>6. RecordInv'
  <2>1. admitted /\ worker[g].stay = stay => 1 <= worker[g].at /\ worker[g].at <= probes.at /\ probes # NoProbe
    BY <1>0 DEF WarmupInv, RecordInv, NoProbe, WorkerType, ProbeType
  <2>2. admitted /\ settled'.result = "ok" => probes'.result = "ok" /\ settled'.at <= probes'.at
    BY <1>2, <1>3, <2>1, SMTT(30) DEF NoProbe
  <2>3. \A h \in Flights : worker'[h].step = "sent" => worker'[h] = worker[h]
    BY <1>1, SMTT(30)
  <2> QED
    BY <1>0, <1>3, <2>2, <2>3, Zenon DEF WarmupInv, RecordInv
<1>7. FlightsHaveWorkers'
  BY <1>0, <1>1, <1>3, Zenon DEF WarmupInv, FlightsHaveWorkers, Active
<1> QED
  BY <1>1, <1>5, <1>6, <1>7, Zenon DEF WarmupInv

\* Leaving forgets the record and the flight; coming back begins a stay that
\* no task belongs to.
LEMMA RetainStep ==
    ASSUME WarmupInv, RetainAccounts
    PROVE  WarmupInv'
<1>0. /\ admitted # member /\ admitted' = member /\ stay' = (IF member THEN stay + 1 ELSE stay)
      /\ IF member THEN UNCHANGED <<probes, flights>> ELSE probes' = NoProbe /\ flights' = 0
      /\ settled' = NoProbe /\ UNCHANGED <<hour, member, reset, window, generation, worker>>
  BY Zenon DEF RetainAccounts
<1>1. NoProbe \in ProbeType /\ NoProbe.at = 0 /\ NoProbe.result = "none"
  BY Zenon DEF NoProbe, ProbeType
<1>2. CASE member
  <2>1. admitted = FALSE /\ flights = 0 /\ probes = NoProbe /\ stay' = stay + 1 /\ stay \in Nat
    BY <1>0, <1>2, Zenon DEF WarmupInv, WarmupTypes, FlightsHaveWorkers
  <2>2. \A g \in Flights : Active(g) => worker[g].stay <= stay /\ worker[g].stay \in Nat
    BY SMTT(30) DEF WarmupInv, WarmupTypes, TasksInv, WorkerType
  <2>3. \A g \in Flights : worker[g].step # "none" => worker[g].stay # stay + 1 /\ worker[g].stay <= stay + 1
    BY <2>1, <2>2, SMTT(30) DEF Active
  <2>4. WarmupTypes'
    BY <1>0, <1>1, <1>2, <2>1, SMTT(30) DEF WarmupInv, WarmupTypes
  <2>5. TasksInv'
    BY <1>0, <2>1, <2>3, SMTT(30) DEF WarmupInv, TasksInv, Active
  <2>6. RecordInv'
    <3>1. probes' = probes /\ probes.at <= hour'
      BY <1>0, <1>2, SMTT(30) DEF WarmupInv, RecordInv
    <3>2. \A g \in Flights : worker'[g].step = "sent" => worker'[g].stay # stay'
      BY <1>0, <2>1, <2>3, SMTT(30)
    <3> QED
      BY <1>0, <1>1, <3>1, <3>2, SMTT(30) DEF RecordInv
  <2>7. FlightsHaveWorkers' /\ OneProbePerStay'
    BY <1>0, <1>2, <2>1, Zenon DEF WarmupInv, FlightsHaveWorkers, OneProbePerStay, Active
  <2> QED
    BY <2>4, <2>5, <2>6, <2>7, Zenon DEF WarmupInv
<1>3. CASE ~member
  <2>1. admitted' = FALSE /\ stay' = stay /\ probes' = NoProbe /\ flights' = 0
    BY <1>0, <1>3, Zenon DEF WarmupInv, WarmupTypes
  <2>2. WarmupTypes'
    BY <1>0, <1>1, <2>1, SMTT(30) DEF WarmupInv, WarmupTypes
  <2>3. TasksInv' /\ OneProbePerStay'
    BY <1>0, <2>1, SMTT(30) DEF WarmupInv, TasksInv, OneProbePerStay, Active
  <2>4. RecordInv' /\ FlightsHaveWorkers'
    BY <1>0, <1>1, <2>1 DEF WarmupInv, WarmupTypes, RecordInv, FlightsHaveWorkers
  <2> QED
    BY <2>2, <2>3, <2>4, Zenon DEF WarmupInv
<1> QED
  BY <1>2, <1>3, Zenon

\* Every step of the loop, the operator, the tasks and the rescans keeps it.
LEMMA WarmupNextInv == WarmupSizes /\ WarmupInv /\ [WarmupNext]_warmupVars => WarmupInv'
<1> SUFFICES ASSUME WarmupSizes, WarmupInv, [WarmupNext]_warmupVars PROVE WarmupInv'
  OBVIOUS
<1>1. ASSUME SpawnWarmupLoop \/ Publishes \/ Polls \/ Unblocks \/ UNCHANGED warmupVars PROVE WarmupInv'
  <2>1. /\ UNCHANGED <<hour, admitted, stay, window, probes, flights, generation, worker, settled>>
        /\ member' \in BOOLEAN /\ reset' \in Nat
    BY <1>1, Zenon DEF SpawnWarmupLoop, Publishes, Polls, Unblocks, warmupVars, WarmupInv, WarmupTypes
  <2>2. WarmupTypes'
    BY <2>1, Zenon DEF WarmupInv, WarmupTypes
  <2> QED
    BY <2>1, <2>2, Zenon DEF WarmupInv, TasksInv, RecordInv, FlightsHaveWorkers, OneProbePerStay, Active
<1>2. ASSUME Hour PROVE WarmupInv'
  <2>1. /\ hour' = hour + 1 /\ hour \in Nat \ {0}
        /\ UNCHANGED <<member, admitted, stay, reset, window, probes, flights, generation, worker, settled>>
    BY <1>2, Zenon DEF Hour, WarmupInv, WarmupTypes
  <2>2. probes.at \in Nat /\ \A g \in Flights : worker[g].at \in Nat
    BY Zenon DEF WarmupInv, WarmupTypes, ProbeType, WorkerType
  <2>3. WarmupTypes'
    BY <2>1, SMTT(30) DEF WarmupInv, WarmupTypes
  <2>4. probes.at <= hour' /\ \A g \in Flights : Active(g) => worker[g].at <= hour'
    BY <2>1, <2>2 DEF WarmupInv, TasksInv, RecordInv
  <2>5. TasksInv' /\ RecordInv'
    BY <2>1, <2>4, Zenon DEF WarmupInv, TasksInv, RecordInv, Active
  <2>6. FlightsHaveWorkers' /\ OneProbePerStay'
    BY <2>1, Zenon DEF WarmupInv, FlightsHaveWorkers, OneProbePerStay, Active
  <2> QED
    BY <2>3, <2>5, <2>6, SMTT(30) DEF WarmupInv
<1> QED
  BY <1>1, <1>2, RunStep, ExecuteStep, SettleStep, RetainStep, Zenon DEF WarmupNext, Flights

\* The invariant of flights and records always holds.
LEMMA AlwaysWarmup == WarmupSizes /\ WarmupSpec => []WarmupInv
<1> SUFFICES ASSUME WarmupSizes PROVE WarmupSpec => []WarmupInv
  OBVIOUS
<1>1. WarmupInit => WarmupInv
  BY WarmupInitInv
<1>2. WarmupInv /\ [WarmupNext]_warmupVars => WarmupInv'
  BY WarmupNextInv
<1> QED
  BY <1>1, <1>2, PTL DEF WarmupSpec

\* No account stays "in flight" for good: a flight in the map has a task of
\* this stay that will remove it (retain_accounts, finish_flight).
THEOREM FlightsAreServed == WarmupSizes /\ WarmupSpec => []FlightsHaveWorkers
<1> SUFFICES ASSUME WarmupSizes PROVE WarmupSpec => []FlightsHaveWorkers
  OBVIOUS
<1>1. WarmupInv => FlightsHaveWorkers
  BY Zenon DEF WarmupInv
<1> QED
  BY <1>1, AlwaysWarmup, PTL

\* One probe at a time per stay, also when a task of an earlier stay ends
\* late (finish_flight).
THEOREM ProbedOneAtATime == WarmupSizes /\ WarmupSpec => []OneProbePerStay
<1> SUFFICES ASSUME WarmupSizes PROVE WarmupSpec => []OneProbePerStay
  OBVIOUS
<1>1. WarmupInv => OneProbePerStay
  BY SMTT(30) DEF WarmupInv
<1> QED
  BY <1>1, AlwaysWarmup, PTL

\* The loop sends no probe whose success this stay has seen already, unless
\* its window is over by the clock and by the poller's report (execute).
THEOREM ProbesAreNeeded == WarmupSizes /\ WarmupSpec => NoNeedlessProbe
<1> SUFFICES ASSUME WarmupSizes PROVE WarmupSpec => NoNeedlessProbe
  OBVIOUS
<1>1. ASSUME WarmupInv, [WarmupNext]_warmupVars PROVE [NoNeedlessProbeStep]_warmupVars
  <2> SUFFICES ASSUME WarmupNext, NEW g \in Flights, worker[g].step = "queued", worker[g].automatic,
                      worker'[g].step = "sent", settled.result = "ok", admitted
               PROVE  /\ settled.at + Window <= hour
                      /\ kind = "claude" => settled.at < reset /\ reset <= hour
    BY <1>1, Zenon DEF NoNeedlessProbeStep, Flights
  <2>0. /\ worker \in [Flights -> WorkerType] /\ probes.at \in Nat /\ settled.at \in Nat /\ hour \in Nat
        /\ reset \in Nat /\ Window \in Nat /\ Jitter \in Nat
        /\ probes.result = "ok" /\ settled.at <= probes.at
    BY <1>1, Zenon DEF WarmupInv, WarmupTypes, RecordInv, ProbeType, WarmupSizes
  <2>1. Execute(g)
    <3>1. worker' # worker
      BY Zenon
    <3>2. ASSUME NEW h \in Flights, h # g, Execute(h) \/ Settle(h) PROVE FALSE
      <4>1. worker'[g] = worker[g]
        <5>1. CASE worker' = [worker EXCEPT ![h] = NoWorker]
          BY <2>0, <3>2, <5>1, Zenon
        <5>2. CASE worker' = [worker EXCEPT ![h].step = "sent", ![h].at = hour]
          BY <2>0, <3>2, <5>2, Zenon
        <5> QED
          BY <3>2, <5>1, <5>2, Zenon DEF Execute, Settle, FinishFlight
      <4> QED
        BY <4>1, Zenon
    <3>3. ASSUME Settle(g) PROVE FALSE
      BY <3>3, SMTT(30) DEF Settle
    <3>4. ASSUME NEW automatic \in BOOLEAN, RunProbe(automatic) PROVE FALSE
      BY <2>0, <3>1, <3>4 DEF RunProbe
    <3>5. ASSUME SpawnWarmupLoop \/ Publishes \/ RetainAccounts \/ Polls \/ Unblocks \/ Hour PROVE FALSE
      BY <3>1, <3>5, Zenon DEF SpawnWarmupLoop, Publishes, RetainAccounts, Polls, Unblocks, Hour
    <3> QED
      BY <3>2, <3>3, <3>4, <3>5, Zenon DEF WarmupNext, Flights
  <2>2. DueAt
    <3>1. NoWorker.step = "none"
      BY Zenon DEF NoWorker
    <3> QED
      BY <2>0, <2>1, <3>1, Zenon DEF Execute, FinishFlight
  <2> QED
    BY <2>0, <2>2, SMTT(30) DEF DueAt, ResolveWindowState, ClaudeProbeDue
<1> QED
  BY <1>1, AlwaysWarmup, PTL DEF WarmupSpec, NoNeedlessProbe

-----------------------------------------------------------------------------
\* An account is kept from requests for as long as an answer asked, and by the
\* operator's switch exactly.
THEOREM BenchedAndOff == HealthSizes /\ HealthSpec => []BenchedAndSwitched
<1>1. RejectedStaysBenched /\ SwitchIsTheOperators => BenchedAndSwitched
  BY Zenon DEF BenchedAndSwitched
<1> QED
  BY <1>1, RejectedAreBenched, SwitchIsKept, PTL

\* No step shortens a bench, loses it to a rescan of the same login, or lets a
\* poll lift more than a cooldown.
THEOREM BenchesLast == HealthSizes /\ HealthSpec => BenchesHold
<1> SUFFICES ASSUME HealthSizes PROVE HealthSpec => BenchesHold
  OBVIOUS
<1>1. HealthSpec => [][GroupBenchesHoldStep]_healthVars /\ [][PollLiftsCooldownsOnlyStep]_healthVars
  BY GroupsStayBenched, PollsLiftCooldowns, Zenon DEF GroupBenchesHold, PollLiftsCooldownsOnly
<1>2. [GroupBenchesHoldStep]_healthVars /\ [PollLiftsCooldownsOnlyStep]_healthVars => [BenchesHoldStep]_healthVars
  BY Zenon DEF BenchesHoldStep
<1> QED
  BY <1>1, <1>2, PTL DEF BenchesHold

\* The loop of probes and the polls, side by side on one account: one probe at
\* a time and each with a task, backoffs of live accounts, one credit a reset.
THEOREM UpkeepOnce == WarmupSizes /\ WarmupSpec /\ PollingSpec => []ProbedAndPolledOnce
<1>1. OneProbePerStay /\ FlightsHaveWorkers /\ BackoffOfLiveOnly /\ ResetSpendsOnce => ProbedAndPolledOnce
  BY Zenon DEF ProbedAndPolledOnce
<1> QED
  BY <1>1, ProbedOneAtATime, FlightsAreServed, BackoffsAreLive, OneCreditPerReset, PTL

\* Side by side, no step of theirs sends a probe that is not due or puts
\* anything in the place of the last report but a newer one.
THEOREM UpkeepWhenDue == WarmupSizes /\ WarmupSpec /\ PollingSpec => ProbedWhenDue
<1> SUFFICES ASSUME WarmupSizes
             PROVE  WarmupSpec /\ PollingSpec => ProbedWhenDue
  BY Zenon
<1> DEFINE both == <<warmupVars, pollingVars>>
<1>1. WarmupSpec /\ PollingSpec => [][NoNeedlessProbeStep]_warmupVars /\ [][FailureKeepsTheReportStep]_pollingVars
  BY ProbesAreNeeded, FailuresKeepReports, Zenon DEF NoNeedlessProbe, FailureKeepsTheReport
<1>2. UNCHANGED warmupVars => NoNeedlessProbeStep
  BY Zenon DEF warmupVars, NoNeedlessProbeStep
<1>3. UNCHANGED pollingVars => FailureKeepsTheReportStep
  BY Zenon DEF pollingVars, FailureKeepsTheReportStep
<1>4. [NoNeedlessProbeStep]_warmupVars /\ [FailureKeepsTheReportStep]_pollingVars
        => [NoNeedlessProbeStep /\ FailureKeepsTheReportStep]_both
  BY <1>2, <1>3, Zenon
<1> QED
  BY <1>1, <1>4, PTL DEF ProbedWhenDue
=============================================================================
