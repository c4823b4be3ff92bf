---------------------------- MODULE ClaudePinning ----------------------------
(***************************************************************************)
(* Session pinning of Claude turns: how handle_relay of                    *)
(* crates/gateway/src/relay.rs combines the durable pin (affinity_store),  *)
(* the session binding of HierarchyContext and the router's own affinity.  *)
(* A turn walks the eligible accounts until one answers.  Every account is *)
(* a Claude account; turns run concurrently and interleave at the upstream *)
(* call, where the code awaits.                                            *)
(***************************************************************************)
EXTENDS Router

CONSTANTS
    Session,     \* conversations, each with one durable digest
    Explicit,    \* those that send a session header; the others are known by their body
    OAuth,       \* members with a subscription; the others hold an API key
    Order,       \* the members in the order of eligible_indices
    Turn,        \* request slots
    MaxFailover, \* AppState.max_failover
    MaxTurns,    \* bound on the turns that begin
    Overlap,     \* whether a client sends a turn before the one before is answered
    NoSession

ASSUME SubscriptionAssumption == OAuth \subseteq Member
ASSUME SessionAssumption == Explicit \subseteq Session /\ NoSession \notin Session

RawKey(s) == <<"raw", s>>

ScopedKey(s) == <<"scoped", s>>

VARIABLES
    health,  \* per member: "ok", in a "short" cooldown, or "out" for longer
    pin,     \* AppState.claude_affinity, within its TTL
    sticky,  \* AppState.session_bindings, within their TTL
    latest,  \* history: who served the latest turn of a session this process knows
    turn,    \* the locals of each handle_relay call, and (history) `after`: who had
             \* served the session's latest turn when this one began
    turns    \* turns begun

routerVars == <<strategy, active, last_served, seq, affinity, picked>>

pinningVars == <<health, pin, sticky, latest, turn, turns>>

allVars == <<strategy, active, last_served, seq, affinity, picked, health, pin, sticky, latest, turn, turns>>

Idle == [at |-> "idle", session |-> NoSession, bound |-> NoMember, after |-> NoMember,
         preferred |-> NoMember, initial |-> {}, attempted |-> {}, member |-> NoMember]

PinningInit ==
    /\ Init
    /\ health = [m \in Member |-> "ok"]
    /\ pin = [s \in Session |-> NoMember]
    /\ sticky = [s \in Session |-> NoMember]
    /\ latest = [s \in Session |-> NoMember]
    /\ turn = [t \in Turn |-> Idle]
    /\ turns = 0

Healthy == {m \in Member : health[m] = "ok"}

-----------------------------------------------------------------------------

\* bound_member_state
BoundState(m) ==
    CASE m = NoMember -> "none"
      [] m \in OAuth /\ health[m] = "ok" -> "eligible"
      [] m \in OAuth /\ health[m] = "short" -> "short_cooldown"
      [] OTHER -> "unusable"

\* select_forced records the member only if the router admits it.
ForceSelect(m, key) ==
    IF Admits(m) THEN SelectForced(m, key) ELSE UNCHANGED routerVars

Arrives(t, s) ==
    /\ turn[t].at = "idle"
    /\ turns < MaxTurns
    /\ Overlap \/ \A u \in Turn : turn[u].session # s

\* The pool snapshot is taken, the pin is looked up, the session binding is
\* read, and an eligible pin is announced to the router under the raw key.
Begin(t, s) ==
    /\ Arrives(t, s)
    /\ BoundState(pin[s]) # "short_cooldown"
    /\ Healthy # {}
    /\ LET bound == IF BoundState(pin[s]) = "eligible" THEN pin[s] ELSE NoMember
       IN  /\ turn' = [turn EXCEPT ![t] =
                         [Idle EXCEPT !.at = "walk", !.session = s, !.bound = bound,
                             !.after = latest[s],
                             !.preferred = IF s \in Explicit THEN sticky[s] ELSE NoMember,
                             !.initial = Healthy]]
           /\ IF bound = NoMember THEN UNCHANGED routerVars ELSE ForceSelect(bound, RawKey(s))
    /\ turns' = turns + 1
    /\ UNCHANGED <<health, pin, sticky, latest>>

\* A pin in a short cooldown answers 429, an empty pool 503: nothing is called.
Refused(t, s) ==
    /\ Arrives(t, s)
    /\ BoundState(pin[s]) = "short_cooldown" \/ Healthy = {}
    /\ turns' = turns + 1
    /\ UNCHANGED <<routerVars, health, pin, sticky, latest, turn>>

Candidates(t) == (turn[t].initial \intersect Healthy) \ turn[t].attempted

MaxAttempts(t) ==
    IF Cardinality(turn[t].initial) < MaxFailover THEN Cardinality(turn[t].initial) ELSE MaxFailover

MayAttempt(t) == /\ Candidates(t) # {}
                 /\ Cardinality(turn[t].attempted) < MaxAttempts(t)

\* SessionHint.affinity_key: an explicit session passes its scope on only once it
\* is bound.
HintKey(t) ==
    LET s == turn[t].session
    IN  IF s \in Explicit /\ turn[t].preferred = NoMember THEN NoKey ELSE ScopedKey(s)

Attempt(t, m) ==
    LET q == turn[t]
    IN  turn' = [turn EXCEPT ![t] = [q EXCEPT !.at = "upstream", !.member = m,
                                              !.attempted = q.attempted \union {m}]]

\* preferred_index: the session's own binding comes before the router.
ChoosePreferred(t) ==
    /\ turn[t].at = "walk"
    /\ MayAttempt(t)
    /\ turn[t].preferred \in Candidates(t)
    /\ Attempt(t, turn[t].preferred)
    /\ UNCHANGED <<routerVars, health, pin, sticky, latest, turns>>

\* select_index: the router chooses among the remaining candidates.
ChooseByRouter(t) ==
    LET InPlay(m) == m \in Candidates(t)
        members == SelectSeq(Order, InPlay)
    IN  /\ turn[t].at = "walk"
        /\ MayAttempt(t)
        /\ turn[t].preferred \notin Candidates(t)
        /\ \/ SelectBound(members, Healthy, HintKey(t))
           \/ SelectFillFirst(members, Healthy, HintKey(t))
           \/ SelectStrictRoundRobin(members, Healthy, HintKey(t))
        /\ Attempt(t, picked')
        /\ UNCHANGED <<health, pin, sticky, latest, turns>>

\* Nobody is left to try: the latest failure is returned.
GiveUp(t) ==
    /\ turn[t].at = "walk"
    /\ ~MayAttempt(t)
    /\ turn' = [turn EXCEPT ![t] = Idle]
    /\ UNCHANGED <<routerVars, health, pin, sticky, latest, turns>>

\* Mutant: the pin follows every success, a one-off failover included.
MutRepin(t) ==
    LET s == turn[t].session
    IN  /\ pin' = [pin EXCEPT ![s] = turn[t].member]
        /\ ForceSelect(turn[t].member, RawKey(s))

\* After a success by a subscription: a turn that began with an eligible pin
\* keeps it, any other turn pins the session to the account that served it.
Repin(t) ==
    LET s == turn[t].session
        b == turn[t].bound
        m == turn[t].member
    IN  IF b \notin {NoMember, m}
        THEN ForceSelect(b, RawKey(s)) /\ UNCHANGED pin
        ELSE ForceSelect(m, RawKey(s)) /\ pin' = [pin EXCEPT ![s] = m]

\* Mutant: only a session that is not bound yet is bound.
MutRebind(s, m) ==
    sticky' = IF s \in Explicit /\ sticky[s] = NoMember THEN [sticky EXCEPT ![s] = m] ELSE sticky

\* HierarchyContext::bind
Rebind(s, m) ==
    sticky' = IF s \in Explicit THEN [sticky EXCEPT ![s] = m] ELSE sticky

\* Mutant: a turn served by an API key pins the session too.
MutSucceedPinsAnyone(t) ==
    LET s == turn[t].session
        m == turn[t].member
    IN  /\ turn[t].at = "upstream"
        /\ Repin(t)
        /\ Rebind(s, m)
        /\ latest' = [latest EXCEPT ![s] = m]
        /\ turn' = [turn EXCEPT ![t] = Idle]
        /\ UNCHANGED <<health, turns>>

Succeed(t) ==
    LET s == turn[t].session
        m == turn[t].member
    IN  /\ turn[t].at = "upstream"
        /\ IF m \in OAuth THEN Repin(t) ELSE UNCHANGED <<routerVars, pin>>
        /\ Rebind(s, m)
        /\ latest' = [latest EXCEPT ![s] = m]
        /\ turn' = [turn EXCEPT ![t] = Idle]
        /\ UNCHANGED <<health, turns>>

\* A transport error, 5xx or 529 leaves the account's health alone; a 429 benches
\* it for a short or a long time, a 401 takes it out.
FailOver(t, h) ==
    /\ turn[t].at = "upstream"
    /\ health' = [health EXCEPT ![turn[t].member] = IF h = "ok" THEN @ ELSE h]
    /\ turn' = [turn EXCEPT ![t].at = "walk"]
    /\ UNCHANGED <<routerVars, pin, sticky, latest, turns>>

\* An answer that is the client's own error is returned as it is.
ReturnError(t) ==
    /\ turn[t].at = "upstream"
    /\ turn' = [turn EXCEPT ![t] = Idle]
    /\ UNCHANGED <<routerVars, health, pin, sticky, latest, turns>>

\* A cooldown ends, a credential is renewed.
Recover(m) ==
    /\ health[m] # "ok"
    /\ health' = [health EXCEPT ![m] = "ok"]
    /\ UNCHANGED <<routerVars, pin, sticky, latest, turn, turns>>

\* The session was idle longer than session-affinity-ttl, then than the pin's.
Expire(s) ==
    /\ sticky[s] # NoMember \/ pin[s] # NoMember
    /\ sticky' = [sticky EXCEPT ![s] = NoMember]
    /\ latest' = [latest EXCEPT ![s] = NoMember]
    /\ pin' \in {pin, [pin EXCEPT ![s] = NoMember]}
    /\ UNCHANGED <<routerVars, health, turn, turns>>

\* An orderly restart keeps the pins and nothing else.
Restart ==
    /\ \A t \in Turn : turn[t] = Idle
    /\ seq > 0
    /\ active' = Member
    /\ last_served' = [m \in Member |-> 0]
    /\ seq' = 0
    /\ affinity' = [k \in Key |-> Unbound]
    /\ picked' = NoMember
    /\ sticky' = [s \in Session |-> NoMember]
    /\ latest' = [s \in Session |-> NoMember]
    /\ UNCHANGED <<strategy, health, pin, turn, turns>>

Step(t) ==
    \/ ChoosePreferred(t) \/ ChooseByRouter(t) \/ GiveUp(t)
    \/ Succeed(t) \/ ReturnError(t)
    \/ \E h \in {"ok", "short", "out"} : FailOver(t, h)

PinningNext ==
    \/ \E t \in Turn, s \in Session : Begin(t, s) \/ Refused(t, s)
    \/ \E t \in Turn : Step(t)
    \/ \E m \in Member : Recover(m)
    \/ \E s \in Session : Expire(s)
    \/ Restart

PinningSpec == PinningInit /\ [][PinningNext]_allVars

-----------------------------------------------------------------------------

Locals == [at : {"idle", "walk", "upstream"}, session : Session \union {NoSession},
           bound : OAuth \union {NoMember}, after : Member \union {NoMember},
           preferred : Member \union {NoMember},
           initial : SUBSET Member, attempted : SUBSET Member,
           member : Member \union {NoMember}]

\* Sessions are pinned to subscriptions only, whoever serves their turns.
PinningTypeOK ==
    /\ TypeOK
    /\ health \in [Member -> {"ok", "short", "out"}]
    /\ pin \in [Session -> OAuth \union {NoMember}]
    /\ {sticky, latest} \subseteq [Session -> Member \union {NoMember}]
    /\ turn \in [Turn -> Locals]
    /\ \A t \in Turn : turn[t].at # "idle" => turn[t].session \in Session

\* The account that turn t calls in this step, and the first it calls.
Calls(t) == turn[t].at = "walk" /\ turn'[t].at = "upstream"

CallsFirst(t) == Calls(t) /\ turn[t].attempted = {}

PinMovesOnlyWhenLostStep ==
    \A s \in Session :
        pin[s] # NoMember /\ pin'[s] \notin {pin[s], NoMember} =>
            \E t \in Turn : /\ turn[t].session = s /\ turn[t].at = "upstream"
                            /\ turn[t].bound \notin Member \ {pin'[s]}
                            /\ turn'[t] = Idle

\* "Transient 5xx/529 failover serves one turn elsewhere without moving the pin":
\* a pin is replaced only by a turn that did not find its account eligible when
\* it began.
PinMovesOnlyWhenLost == [][PinMovesOnlyWhenLostStep]_allVars

SessionFollowsItsAccountStep ==
    \A t \in Turn :
        LET q == turn[t]
        IN  CallsFirst(t) /\ q.session \in Explicit /\ q.after \in Healthy \intersect q.initial =>
               turn'[t].member = q.after

\* A conversation with a session header is not moved by whatever the others do,
\* nor by its own failed turns: a turn starts on the account that served the
\* latest turn answered before it began, as long as that account is healthy.
SessionFollowsItsAccount == [][SessionFollowsItsAccountStep]_allVars

\* "The durable binding wins over any in-memory rebind left by an earlier one-off
\* failover": a turn that finds its pin eligible calls the pinned account first.
PinnedAccountIsCalledFirst ==
    [][\A t \in Turn :
          CallsFirst(t) /\ turn[t].bound \in Healthy => turn'[t].member = turn[t].bound]_allVars
=============================================================================
