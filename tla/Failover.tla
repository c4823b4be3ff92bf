------------------------------ MODULE Failover ------------------------------
(***************************************************************************)
(* The failover walk of handle_relay, crates/gateway/src/relay.rs: which   *)
(* accounts one request tries, how every upstream answer is charged to its *)
(* budget, when it starts another round and when it gives up.  Which       *)
(* candidate comes next is the router's choice (module Router); here it is *)
(* any of them.  Requests share the accounts' health and interleave at     *)
(* every await: a token refresh, an upstream call, a wait between rounds.  *)
(***************************************************************************)
EXTENDS Integers, FiniteSets, FiniteSetsExt

CONSTANTS
    Member,         \* account ids
    Claude,         \* the Claude subscriptions and API keys among them
    Request,        \* request slots
    RetryLimit,     \* account_retry_limit per member
    MaxFailover,    \* AppState.max_failover
    MaxCredentials, \* settings.max_retry_credentials; 0 is no limit
    RefreshEnabled, \* AppState.auth_refresh_enabled
    Home,           \* Home owns credential selection
    MaxTries,       \* bound on the attempts of one request
    NoMember

ASSUME MemberAssumption ==
    IsFiniteSet(Member) /\ Claude \subseteq Member /\ NoMember \notin Member
ASSUME FailoverBounds == /\ RetryLimit \in [Member -> Nat]
                         /\ {MaxFailover, MaxCredentials, MaxTries} \subseteq Nat
ASSUME ModeAssumption == {RefreshEnabled, Home} \subseteq BOOLEAN

VARIABLES
    health,    \* per member: "ok", in a "cooldown" or "auth_failed"
    suspected, \* settings.claude_suspected_accounts
    denials,   \* DeniedTracker: accounts denied once within the window
    req        \* the locals of each handle_relay call

vars == <<health, suspected, denials, req>>

Idle == [at |-> "idle", initial |-> {}, attempted |-> {}, excluded |-> {},
         round |-> 0, round_attempts |-> 0, retryable |-> FALSE, budget |-> 0,
         member |-> NoMember, refreshed |-> FALSE, replay |-> FALSE,
         tries |-> 0, denier |-> NoMember]

Init ==
    /\ health = [m \in Member |-> "ok"]
    /\ suspected = {}
    /\ denials = {}
    /\ req = [r \in Request |-> Idle]

-----------------------------------------------------------------------------

Routable == {m \in Member : health[m] = "ok"} \ suspected

\* min(eligible.len(), max_failover), but one dispatch when Home selects.
MaxAttempts(r) ==
    LET n == Min({Cardinality(req[r].initial), MaxFailover})
    IN  IF n = 0 /\ Home THEN 1 ELSE n

\* round_credential_cap
RoundCap(r) ==
    LET n == Cardinality(req[r].initial)
    IN  CASE Home -> 1
          [] ~Home /\ MaxCredentials = 0 -> n
          [] OTHER -> Min({MaxCredentials, n})

Rounds(r) == Max({RetryLimit[m] : m \in req[r].initial} \union {0})

RoundAllows(m, round) == round = 0 \/ RetryLimit[m] >= round

\* Mutant: the accounts this round already tried stay in play.
MutCandidates(r) ==
    {m \in req[r].initial \ req[r].excluded :
        health[m] = "ok" /\ RoundAllows(m, req[r].round)}

\* `eligible`, rebuilt on every pass from the initial list, less `attempted`.
Candidates(r) ==
    {m \in (req[r].initial \ req[r].excluded) \ req[r].attempted :
        health[m] = "ok" /\ RoundAllows(m, req[r].round)}

\* Mutant: the budget counts one failure too many.
MutBudgetSpent(r) ==
    \/ Rounds(r) = 0 /\ req[r].budget + 1 >= MaxAttempts(r)
    \/ Cardinality(req[r].excluded) >= MaxAttempts(r)

\* The loop's own exit: a budget of failures, unless rounds are configured.
BudgetSpent(r) ==
    \/ Rounds(r) = 0 /\ req[r].budget >= MaxAttempts(r)
    \/ Cardinality(req[r].excluded) >= MaxAttempts(r)

CanSelect(r) == /\ req[r].round_attempts < RoundCap(r)
                /\ Home \/ Candidates(r) # {}

Set(r, q) == req' = [req EXCEPT ![r] = q]

Begin(r) ==
    /\ req[r].at = "idle"
    /\ Routable # {} \/ Home
    /\ Set(r, [Idle EXCEPT !.at = "walk", !.initial = Routable])
    /\ UNCHANGED <<health, suspected, denials>>

Choose(r, m) ==
    /\ req[r].at = "walk"
    /\ ~BudgetSpent(r)
    /\ CanSelect(r)
    /\ Home \/ m \in Candidates(r)
    /\ req[r].tries < MaxTries
    /\ Set(r, [req[r] EXCEPT !.at = "chosen", !.member = m, !.retryable = FALSE,
                  !.attempted = IF Home THEN @ ELSE @ \union {m},
                  !.round_attempts = @ + 1, !.tries = @ + 1,
                  !.refreshed = FALSE, !.replay = FALSE])
    /\ UNCHANGED <<health, suspected, denials>>

\* The accounts the next round could wait for; a dead credential is none.
Awaited(r) ==
    {m \in req[r].initial \ req[r].excluded :
        RoundAllows(m, req[r].round + 1) /\ health[m] # "auth_failed"}

MayRetry(r) == /\ req[r].at = "walk" /\ ~BudgetSpent(r) /\ ~CanSelect(r)
               /\ req[r].retryable
               /\ req[r].round < Rounds(r)

\* The earliest deadline is within max_retry_interval: sleep, then a new round.
NextRound(r) ==
    /\ MayRetry(r)
    /\ Awaited(r) # {}
    /\ Set(r, [req[r] EXCEPT !.round = @ + 1, !.round_attempts = 0, !.retryable = FALSE,
                  !.budget = 0, !.attempted = {}])
    /\ UNCHANGED <<health, suspected, denials>>

\* Mutant: a failure that may be retried waits, even when nobody can be awaited.
MutGiveUp(r) ==
    /\ req[r].at = "walk"
    /\ BudgetSpent(r) \/ ~CanSelect(r)
    /\ ~MayRetry(r)
    /\ Set(r, Idle)
    /\ UNCHANGED <<health, suspected, denials>>

\* The loop breaks: the latest failure is returned.  A deadline that is too far
\* away ends the request only if no awaited account is healthy already.
GiveUp(r) ==
    /\ req[r].at = "walk"
    /\ BudgetSpent(r) \/ ~CanSelect(r)
    /\ MayRetry(r) => \A m \in Awaited(r) : health[m] # "ok"
    /\ Set(r, Idle)
    /\ UNCHANGED <<health, suspected, denials>>

-----------------------------------------------------------------------------

\* How a failed attempt is charged: what it does to the account's health, whether
\* it is free (a limit exhaustion benches the account, so it neither spends the
\* budget nor counts against the round), and whether another round may retry it.
Charges ==
    {c \in [health : {"ok", "cooldown", "auth_failed"}, free : BOOLEAN, retryable : BOOLEAN] :
        /\ c.free => c.health = "cooldown"
        /\ c.health = "cooldown" => c.free \/ c.retryable}

\* Home hands out a fresh member for every dispatch: what happens to it benches
\* nobody here.
Bench(m, h) == health' = IF Home \/ h = "ok" THEN health ELSE [health EXCEPT ![m] = h]

\* The locals after a failed attempt.
Charged(q, c) ==
    [q EXCEPT !.at = "walk",
              !.budget = IF c.free THEN @ ELSE @ + 1,
              !.round_attempts = IF c.free THEN @ - 1 ELSE @,
              !.retryable = c.retryable]

Fail(r, c) ==
    /\ Bench(req[r].member, c.health)
    /\ Set(r, Charged(req[r], c))
    /\ UNCHANGED <<suspected, denials>>

AuthRejected == [health |-> "auth_failed", free |-> FALSE, retryable |-> FALSE]

Transport == [health |-> "ok", free |-> FALSE, retryable |-> FALSE]

\* The access token is fresh, or it is renewed before the call.
Dial(r, refreshed) ==
    /\ req[r].at = "chosen"
    /\ refreshed => RefreshEnabled
    /\ Set(r, [req[r] EXCEPT !.at = "upstream", !.refreshed = refreshed])
    /\ UNCHANGED <<health, suspected, denials>>

\* Renewing an expired token fails, terminally or not.
DialFails(r) ==
    /\ req[r].at = "chosen"
    /\ RefreshEnabled
    /\ Fail(r, AuthRejected) \/ Fail(r, Transport)

Succeed(r) ==
    /\ req[r].at = "upstream"
    /\ Set(r, Idle)
    /\ UNCHANGED <<health, suspected, denials>>

\* A transport error, a 402, 408, 429 or 5xx, an early error event in a stream, a
\* model or entitlement rejection.  A Claude 403 is not among them.
Reject(r, c) ==
    /\ req[r].at = "upstream"
    /\ Fail(r, c)

\* A 401 is refreshed and replayed once; with a token that was just renewed, or
\* when the refresh is refused, the credential is dead.
Unauthorized(r) ==
    /\ req[r].at = "upstream"
    /\ IF RefreshEnabled /\ ~req[r].refreshed /\ ~req[r].replay
       THEN \/ /\ Set(r, [req[r] EXCEPT !.replay = TRUE])
               /\ UNCHANGED <<health, suspected, denials>>
            \/ Fail(r, AuthRejected)
            \/ Fail(r, Transport)
       ELSE Fail(r, AuthRejected)

\* handle_claude_denial: enforcement, or a second plain denial within the window,
\* benches the account until an operator clears it.
RecordDenial(m, enforcement) ==
    IF enforcement \/ m \in denials
    THEN /\ suspected' = suspected \union {m}
         /\ denials' = IF enforcement THEN denials ELSE denials \ {m}
    ELSE /\ denials' = denials \union {m}
         /\ UNCHANGED suspected

\* Mutant: every account's denial is handled as a Claude denial.
MutDenied(r, enforcement) ==
    /\ req[r].at = "upstream"
    /\ RecordDenial(req[r].member, enforcement)
    /\ Set(r, Idle)
    /\ UNCHANGED health

\* A Claude denial, by status or by an early error event of a stream, is
\* classified before anything else and returned.
Denied(r, enforcement) ==
    /\ req[r].at = "upstream"
    /\ req[r].member \in Claude
    /\ RecordDenial(req[r].member, enforcement)
    /\ Set(r, Idle)
    /\ UNCHANGED health

\* The status of a replay is not classified: a Claude 403 excludes the account
\* from this request only, and the walk goes on.
DeniedOnReplay(r) ==
    /\ req[r].at = "upstream"
    /\ req[r].member \in Claude
    /\ req[r].replay
    /\ Set(r, IF Home THEN Idle
              ELSE [Charged(req[r], Transport) EXCEPT
                       !.excluded = @ \union {req[r].member}, !.denier = req[r].member])
    /\ UNCHANGED <<health, suspected, denials>>

\* Any other client error is returned as it is.
ReturnError(r) ==
    /\ req[r].at = "upstream"
    /\ Set(r, Idle)
    /\ UNCHANGED <<health, suspected, denials>>

\* A cooldown runs out or a credential is renewed; or a request that is walking
\* now, a quota poll or a warmup benches the account.
HealthChanges(m, h) ==
    /\ health[m] # h
    /\ health' = [health EXCEPT ![m] = h]
    /\ UNCHANGED <<suspected, denials, req>>

\* An operator clears a suspicion, the denial window passes; or another request
\* is denied by the account.
Forgive(m) ==
    /\ m \in suspected \union denials
    /\ suspected' = suspected \ {m}
    /\ denials' = denials \ {m}
    /\ UNCHANGED <<health, req>>

DeniedElsewhere(m, enforcement) ==
    /\ m \in Claude
    /\ RecordDenial(m, enforcement)
    /\ UNCHANGED <<health, req>>

Step(r) ==
    \/ \E m \in Member : Choose(r, m)
    \/ NextRound(r)
    \/ GiveUp(r)
    \/ \E b \in BOOLEAN : Dial(r, b)
    \/ DialFails(r)
    \/ Succeed(r)
    \/ \E c \in Charges : Reject(r, c)
    \/ Unauthorized(r)
    \/ \E b \in BOOLEAN : Denied(r, b)
    \/ DeniedOnReplay(r)
    \/ ReturnError(r)

Next ==
    \/ \E r \in Request : Begin(r) \/ Step(r)
    \/ \E m \in Member, h \in {"ok", "cooldown", "auth_failed"} : HealthChanges(m, h)
    \/ \E m \in Member : Forgive(m)
    \/ \E m \in Member, b \in BOOLEAN : DeniedElsewhere(m, b)

\* The runtime polls a woken task, and an upstream answers or its connection breaks: the
\* client probes idle connections and sets no time limit on a request.
Spec == Init /\ [][Next]_vars /\ \A r \in Request : WF_vars(Step(r))

-----------------------------------------------------------------------------

Locals == [at : {"idle", "walk", "chosen", "upstream"},
           initial : SUBSET Member, attempted : SUBSET Member, excluded : SUBSET Member,
           round : Nat, round_attempts : Nat, budget : Nat, tries : Nat,
           retryable : BOOLEAN, refreshed : BOOLEAN, replay : BOOLEAN,
           member : Member \union {NoMember}, denier : Member \union {NoMember}]

\* Only Claude accounts are ever suspected, counted as denied or excluded from a
\* request for it, and a request tries only accounts it began with.
TypeOK ==
    /\ health \in [Member -> {"ok", "cooldown", "auth_failed"}]
    /\ suspected \subseteq Claude
    /\ denials \subseteq Claude
    /\ req \in [Request -> Locals]
    /\ \A r \in Request : /\ req[r].attempted \subseteq req[r].initial
                          /\ req[r].excluded \subseteq req[r].initial \intersect Claude

\* "Each round excludes attempted accounts and the round ceiling bounds
\* repetition": within a round no account is tried twice, however its failures
\* are charged, and nobody starts more rounds than configured.
RepetitionIsBounded ==
    \A r \in Request :
        /\ req[r].round <= Rounds(r)
        /\ req[r].tries <= (req[r].round + 1) * Max({Cardinality(req[r].initial), 1})

\* A request fails only once its budget is spent, its round is full, or no
\* untried account it may use is healthy: a free failure never hides one.
NoEarlyGiveUp ==
    [][\A r \in Request :
          req[r].at = "walk" /\ req'[r] = Idle =>
             \/ req[r].budget >= MaxAttempts(r)
             \/ Cardinality(req[r].excluded) >= MaxAttempts(r)
             \/ Cardinality(req[r].attempted) >= RoundCap(r)
             \/ \A m \in req[r].initial \ req[r].excluded :
                   \/ m \in req[r].attempted
                   \/ health[m] # "ok"
                   \/ ~RoundAllows(m, req[r].round)]_vars

\* Every request is answered, whatever the accounts and the other requests do.
EveryRequestIsAnswered == \A r \in Request : req[r].at # "idle" ~> req[r].at = "idle"

\* "A Claude denial ends the request on this account: ... no other account sees
\* the request".
DenialEndsTheRequest ==
    \A r \in Request :
        req[r].denier # NoMember /\ req[r].at \in {"chosen", "upstream"} =>
            req[r].member = req[r].denier
=============================================================================
