--------------------------- MODULE AccountUpkeep ----------------------------
(***************************************************************************)
(* An account beside its requests: the cooldowns its answers set and lift, *)
(* usage polls with their backoff, and warmup probes. The parts share no   *)
(* state.                                                                  *)
(***************************************************************************)
EXTENDS Integers, FiniteSets

-----------------------------------------------------------------------------
(***************************************************************************)
(* What the gateway remembers of one account's limits (account.rs, and the *)
(* benches of relay.rs): its health, the deadlines of the quota groups and *)
(* of single models.  The reason stored beside a deadline only chooses the *)
(* wording of an answer and is left out.  Requests hold the member         *)
(* object they selected while a rescan builds another from the file,       *)
(* copies the old one's state into it and publishes it.                    *)
(***************************************************************************)

CONSTANTS
    Request,     \* requests in flight
    MaxRebuilt,   \* bound: member objects
    MaxClock,    \* bound: how far the clock runs
    MAX_COOLDOWN \* MAX_COOLDOWN_SECS, the longest bench an answer can ask for

VARIABLES
    when,     \* unix time
    provider,  \* what the account is: it decides the scope of a bench
    health,    \* object -> Health
    group,     \* object -> quota group -> end of its bench
    modelled,  \* object -> model -> end of the bench of that model alone
    inPool,    \* the object in the published pool
    account,   \* the credential file: [disabled, token]
    built,     \* object -> what the file said when it was built
    rescan,    \* [step, object] of the rescan under way
    request,   \* Request -> [step, object, model, until]: until is how long it benched its own model or group
    poll       \* a Codex quota poll: [step, object, free]

healthVars == <<when, provider, health, group, modelled, inPool, account, built, rescan, request, poll>>

Models == {"asked", "billed"}
Objects == 1 .. MaxRebuilt
Available == [state |-> "available", until |-> 0]
Cooldown(t) == [state |-> "cooldown", until |-> t]
AuthFailed == [state |-> "auth_failed", until |-> 0]
Disabled == [state |-> "disabled", until |-> 0]
Never == [m \in Models |-> 0]
NoRequest == [step |-> "none", object |-> 1, model |-> "asked", until |-> 0]
NoQuery == [step |-> "none", object |-> 1, free |-> FALSE]

HealthInit ==
    /\ when = 1 /\ provider \in {"codex", "claude", "metered"}
    /\ health = [o \in Objects |-> Available]
    /\ group = [o \in Objects |-> Never] /\ modelled = [o \in Objects |-> Never]
    /\ inPool = 1 /\ account = [disabled |-> FALSE, token |-> 1]
    /\ built = [o \in Objects |-> account]
    /\ rescan = [step |-> "none", object |-> 1]
    /\ request = [r \in Request |-> NoRequest] /\ poll = NoQuery

---------------------------------------------------------------------------
(* The later of two deadlines; one that is not ahead reads like none.      *)
Later(s, t) == IF t > s /\ t > when THEN t ELSE s

(* The quota group a model bills against, where the provider meters        *)
(* families separately; a group is named by its model here.                *)
HasGroups == provider = "metered"

IsAvailable(o) == health[o].state = "available" \/ (health[o].state = "cooldown" /\ health[o].until <= when)
GroupAvailable(o, m) == modelled[o][m] <= when /\ (HasGroups => group[o][m] <= when)
Routable(o, m) == IsAvailable(o) /\ GroupAvailable(o, m)

MutDeadline(seconds) == when + (IF seconds < 0 THEN 0 ELSE seconds)

(* cooldown_deadline_ms: what the answer asks for, clamped on both sides.  *)
Deadline(seconds) == when + (IF seconds < 0 THEN 0 ELSE IF seconds > MAX_COOLDOWN THEN MAX_COOLDOWN ELSE seconds)

MutSetGroupCooldown(o, ms, until) == [group EXCEPT ![o] = [m \in Models |-> IF m \in ms THEN Later(0, until) ELSE @[m]]]

(* set_group_cooldown: the later deadline wins.                            *)
SetGroupCooldown(o, ms, until) == [group EXCEPT ![o] = [m \in Models |-> IF m \in ms THEN Later(@[m], until) ELSE @[m]]]

MutBenchedNames(asked, billed) == {billed}

(* bench_cline_cap: the model asked for and the model the answer names.    *)
BenchedNames(asked, billed) == {asked, billed}

(* bench_exhausted_quota: the groups, or the whole account.                *)
BenchExhaustedQuota(o, ms, until) ==
    IF HasGroups
    THEN /\ group' = SetGroupCooldown(o, ms, until)
         /\ UNCHANGED health
    ELSE /\ health' = [health EXCEPT ![o] = Cooldown(until)]
         /\ UNCHANGED group

---------------------------------------------------------------------------
Send(r, m) ==
    /\ request[r].step = "none" /\ Routable(inPool, m)
    /\ request' = [request EXCEPT ![r] = [NoRequest EXCEPT !.step = "sent", !.object = inPool, !.model = m]]
    /\ UNCHANGED <<when, provider, health, group, modelled, inPool, account, built, rescan, poll>>

(* record_ok: a cooldown that has run out is taken back.                   *)
Succeed(r) ==
    LET o == request[r].object IN
    /\ request[r].step = "sent"
    /\ health' = [health EXCEPT ![o] = IF @.state = "cooldown" /\ @.until <= when THEN Available ELSE @]
    /\ request' = [request EXCEPT ![r] = NoRequest]
    /\ UNCHANGED <<when, provider, group, modelled, inPool, account, built, rescan, poll>>

(* record_cooldown: a 429, of a rate limit or a spent quota.  Claude may   *)
(* reject one model only; Cline names the model it billed; everything else *)
(* benches what was asked for.                                             *)
RecordCooldown(r) ==
    LET o == request[r].object
        m == request[r].model
    IN
    /\ request[r].step = "sent"
    /\ \E seconds \in -1 .. MAX_COOLDOWN + 1 :
           \/ /\ provider = "claude"
              /\ modelled' = [modelled EXCEPT ![o][m] = Later(@, Deadline(seconds))]
              /\ request' = [request EXCEPT ![r].step = "rejected", ![r].until = Deadline(seconds)]
              /\ UNCHANGED <<health, group>>
           \/ /\ \E billed \in Models : BenchExhaustedQuota(o, BenchedNames(m, billed), Deadline(seconds))
              /\ request' = [request EXCEPT ![r].step = "rejected", ![r].until = IF HasGroups THEN Deadline(seconds) ELSE 0]
              /\ UNCHANGED modelled
    /\ UNCHANGED <<when, provider, inPool, account, built, rescan, poll>>

(* A 402: benched until the credit is expected back.                       *)
InsufficientCredits(r) ==
    LET o == request[r].object
        m == request[r].model
    IN
    /\ request[r].step = "sent" /\ provider = "metered"
    /\ \E billed \in Models, seconds \in 1 .. MAX_COOLDOWN :
           /\ BenchExhaustedQuota(o, BenchedNames(m, billed), Deadline(seconds))
           /\ request' = [request EXCEPT ![r].step = "rejected", ![r].until = Deadline(seconds)]
    /\ UNCHANGED <<when, provider, modelled, inPool, account, built, rescan, poll>>

(* The credential was rejected and could not be refreshed.                 *)
RejectCredential(r) ==
    /\ request[r].step = "sent"
    /\ health' = [health EXCEPT ![request[r].object] = AuthFailed]
    /\ request' = [request EXCEPT ![r] = NoRequest]
    /\ UNCHANGED <<when, provider, group, modelled, inPool, account, built, rescan, poll>>

(* The walk goes on to another account.                                    *)
WalkOn(r) ==
    /\ request[r].step = "rejected"
    /\ request' = [request EXCEPT ![r] = NoRequest]
    /\ UNCHANGED <<when, provider, health, group, modelled, inPool, account, built, rescan, poll>>

(* clear_auth_failure, after a refresh of the object in the pool.          *)
ClearAuthFailure ==
    /\ health[inPool] = AuthFailed
    /\ health' = [health EXCEPT ![inPool] = Available]
    /\ UNCHANGED <<when, provider, group, modelled, inPool, account, built, rescan, request, poll>>

(* The quota is read upstream, and its answer is applied later.            *)
StartPoll ==
    /\ provider = "codex" /\ poll.step = "none"
    /\ \E free \in BOOLEAN : poll' = [step |-> "sent", object |-> inPool, free |-> free]
    /\ UNCHANGED <<when, provider, health, group, modelled, inPool, account, built, rescan, request>>

MutReleases(h) == h # Available

(* release_codex_cooldown_if_quota_free lifts a cooldown and nothing else. *)
Releases(h) == h.state = "cooldown"

FinishPoll ==
    /\ poll.step = "sent"
    /\ health' = [health EXCEPT ![poll.object] = IF poll.free /\ Releases(@) THEN Available ELSE @]
    /\ poll' = NoQuery
    /\ UNCHANGED <<when, provider, group, modelled, inPool, account, built, rescan, request>>

---------------------------------------------------------------------------
(* The operator switches the account off or on, or logs in again.          *)
EditAccount ==
    /\ inPool < MaxRebuilt
    /\ \E file \in [disabled : BOOLEAN, token : {account.token, account.token + 1}] :
           /\ file # account /\ file.token <= MaxRebuilt
           /\ account' = file
    /\ UNCHANGED <<when, provider, health, group, modelled, inPool, built, rescan, request, poll>>

RescanLoads ==
    /\ rescan.step = "none" /\ inPool < MaxRebuilt
    /\ rescan' = [step |-> "loaded", object |-> inPool + 1]
    /\ built' = [built EXCEPT ![inPool + 1] = account]
    /\ health' = [health EXCEPT ![inPool + 1] = IF account.disabled THEN Disabled ELSE Available]
    /\ UNCHANGED <<when, provider, group, modelled, inPool, account, request, poll>>

SameCredentialIdentity(o, p) == built[o].token = built[p].token

MutAdoptedHealth(target, previous) == IF health[previous] = Disabled THEN health[target] ELSE health[previous]

(* The operator's switch is taken from the file, all else from the object  *)
(* that is replaced.                                                       *)
AdoptedHealth(target, previous) ==
    IF health[target] = Disabled \/ health[previous] = Disabled THEN health[target] ELSE health[previous]

MutAdoptRuntimeState ==
    LET target == rescan.object IN
    /\ rescan.step = "loaded"
    /\ SameCredentialIdentity(target, inPool)
           => /\ health' = [health EXCEPT ![target] = AdoptedHealth(target, inPool)]
              /\ modelled' = [modelled EXCEPT ![target] = modelled[inPool]]
    /\ ~SameCredentialIdentity(target, inPool) => UNCHANGED <<health, modelled>>
    /\ rescan' = [rescan EXCEPT !.step = "adopted"]
    /\ UNCHANGED <<when, provider, group, inPool, account, built, request, poll>>

(* adopt_runtime_state: health and deadlines, if the login is the same.    *)
AdoptRuntimeState ==
    LET target == rescan.object IN
    /\ rescan.step = "loaded"
    /\ SameCredentialIdentity(target, inPool)
           => /\ health' = [health EXCEPT ![target] = AdoptedHealth(target, inPool)]
              /\ group' = [group EXCEPT ![target] = group[inPool]]
              /\ modelled' = [modelled EXCEPT ![target] = modelled[inPool]]
    /\ ~SameCredentialIdentity(target, inPool) => UNCHANGED <<health, group, modelled>>
    /\ rescan' = [rescan EXCEPT !.step = "adopted"]
    /\ UNCHANGED <<when, provider, inPool, account, built, request, poll>>

PublishRescan ==
    /\ rescan.step = "adopted"
    /\ inPool' = rescan.object
    /\ rescan' = [rescan EXCEPT !.step = "none"]
    /\ UNCHANGED <<when, provider, health, group, modelled, account, built, request, poll>>

(* Time passes.  A deadline that has run out reads like none, and is       *)
(* forgotten here to keep the state small.                                 *)
Serving(f) == [m \in Models |-> IF f[m] > when' THEN f[m] ELSE 0]

ClockTicks ==
    /\ when < MaxClock
    /\ when' = when + 1
    /\ group' = [o \in Objects |-> Serving(group[o])]
    /\ modelled' = [o \in Objects |-> Serving(modelled[o])]
    /\ UNCHANGED <<provider, health, inPool, account, built, rescan, request, poll>>

HealthNext ==
    \/ \E r \in Request :
        \/ \E m \in Models : Send(r, m)
        \/ Succeed(r) \/ RecordCooldown(r) \/ InsufficientCredits(r) \/ RejectCredential(r) \/ WalkOn(r)
    \/ ClearAuthFailure \/ StartPoll \/ FinishPoll
    \/ EditAccount \/ RescanLoads \/ AdoptRuntimeState \/ PublishRescan \/ ClockTicks

---------------------------------------------------------------------------
(* Deadlines lie within the longest bench of now.                          *)
HealthTypeOK ==
    /\ \A o \in Objects : health[o].until <= when + MAX_COOLDOWN
    /\ \A o \in Objects, m \in Models : group[o][m] <= when + MAX_COOLDOWN /\ modelled[o][m] <= when + MAX_COOLDOWN
    /\ inPool \in Objects

(* The operator's switch is the file's, whatever requests, polls and       *)
(* rescans do: an account that was off when its object was built is off,   *)
(* and one that was on is not.                                             *)
SwitchIsTheOperators == \A o \in 1 .. inPool : health[o] = Disabled <=> built[o].disabled

GroupBenchesHoldStep ==
    /\ \A o \in Objects, m \in Models : group[o][m] > when' => group'[o][m] >= group[o][m]
    /\ (rescan.step = "loaded" /\ rescan'.step = "adopted" /\ SameCredentialIdentity(rescan.object, inPool))
           => \A m \in Models : group'[rescan.object][m] >= group[inPool][m]

(* Once a group is benched on an object it stays benched at least that     *)
(* long, whatever answers of concurrent requests arrive in which order, and *)
(* a rescan of the same login hands the benches on.                        *)
GroupBenchesHold == [][GroupBenchesHoldStep]_healthVars

(* The walk leaves an exhausted account without spending its budget,       *)
(* because the bench keeps it from coming back: for as long as the answer  *)
(* asked, the object is not routable for the model that was rejected,      *)
(* whatever other answers say meanwhile.                                   *)
RejectedStaysBenched ==
    \A r \in Request :
        (request[r].step = "rejected" /\ request[r].until > when) => ~Routable(request[r].object, request[r].model)

PollLiftsCooldownsOnlyStep ==
    (poll.step = "sent" /\ poll'.step = "none") => \A o \in Objects : health'[o] # health[o] => health[o].state = "cooldown"

(* A poll never brings back an account whose credential was rejected, or   *)
(* one that is switched off: those are for a refresh and for the operator. *)
PollLiftsCooldownsOnly == [][PollLiftsCooldownsOnlyStep]_healthVars

(* An account is kept from requests for as long as an answer asked, and by *)
(* the operator's switch exactly (record_cooldown, adopt_runtime_state).   *)
BenchedAndSwitched == RejectedStaysBenched /\ SwitchIsTheOperators

BenchesHoldStep == GroupBenchesHoldStep /\ PollLiftsCooldownsOnlyStep

(* A bench is neither shortened by a later answer nor lost to a rescan,    *)
(* and a poll lifts cooldowns only.                                        *)
BenchesHold == [][BenchesHoldStep]_healthVars

-----------------------------------------------------------------------------

(***************************************************************************)
(* Usage polls of one account and its reset credits (quota.rs), with the   *)
(* backoff store (state.rs) and the snapshot in the member (account.rs).   *)
(* Polls come from the poller, the console and the end of other calls, and *)
(* hold the member they loaded however long the upstream takes.            *)
(***************************************************************************)

CONSTANTS
    Polled,     \* provider kinds, of the kinds named below
    Poll,       \* polls
    MaxNews,    \* bound: what the upstream may come to report
    MaxRedeem,  \* bound: redeem ids
    MaxNow      \* bound: the clock

VARIABLES
    pkind,     \* the account's provider kind
    listed,    \* the backoff store's allowlist has the account
    backoff,   \* its entry there: no poll before then; 0 without
    moment,    \* the clock
    news,      \* what the upstream would report now
    usage,     \* the member's snapshot: the report, the models, the status
    polls,     \* poll -> where it is, and what it holds
    credits,   \* the upstream's reset credits
    redeemed,  \* ids it has accepted
    nextId,    \* uuid_v4
    resetting, \* the reset call in progress
    charged    \* history: credits it took for that call

pollingVars == <<pkind, listed, backoff, moment, news, usage, polls, credits, redeemed, nextId, resetting, charged>>

NoPoll == [step |-> "idle", report |-> 0, models |-> 0, refreshed |-> FALSE]
NoReset == [step |-> "idle", id |-> 0]

PollingInit ==
    /\ pkind \in Polled
    /\ listed = TRUE /\ backoff = 0 /\ moment = 1 /\ news = 1
    /\ usage = [report |-> 0, models |-> 0, status |-> "unknown"]
    /\ polls = [p \in Poll |-> NoPoll]
    /\ credits = 2 /\ redeemed = {} /\ nextId = 1
    /\ resetting = NoReset /\ charged = 0

resetVars == <<credits, redeemed, nextId, resetting, charged>>

-----------------------------------------------------------------------------
(* Which upstreams' refusals mean what.  Where no refresh is tried, a 401  *)
(* is reported; only these kinds recognise a 429.                          *)
Retries == pkind \in {"claude", "antigravity", "xai"}
BacksOff == pkind \in {"codex", "claude", "zcode"}

(* refresh_account_usage, up to the first request.  The models known so    *)
(* far are read before it.                                                 *)
Start(p) ==
    /\ polls[p].step = "idle" /\ moment >= backoff
    /\ polls' = [polls EXCEPT ![p] = [NoPoll EXCEPT !.step = "sent", !.models = usage.models]]
    /\ UNCHANGED <<pkind, listed, backoff, moment, news, usage, resetVars>>

(* set_usage with a report of the upstream replaces the whole snapshot,    *)
(* and the success clears the backoff.                                     *)
SetUsage(p, report, models) ==
    /\ usage' = [report |-> report, models |-> models, status |-> "ok"]
    /\ backoff' = 0
    /\ polls' = [polls EXCEPT ![p] = NoPoll]

(* The report.  Codex asks for the details of reset credits next, and      *)
(* Antigravity for the models.                                             *)
Reported(p) ==
    /\ polls[p].step = "sent"
    /\ IF pkind \in {"codex", "antigravity"}
       THEN /\ polls' = [polls EXCEPT ![p].step = "details", ![p].report = news]
            /\ UNCHANGED <<usage, backoff>>
       ELSE SetUsage(p, news, polls[p].models)
    /\ UNCHANGED <<pkind, listed, moment, news, resetVars>>

(* The second answer; without it the models stay as they were read.        *)
Detailed(p) ==
    /\ polls[p].step = "details"
    /\ \E models \in {polls[p].models} \cup (IF pkind = "antigravity" THEN {news} ELSE {}) :
        SetUsage(p, polls[p].report, models)
    /\ UNCHANGED <<pkind, listed, moment, news, resetVars>>

(* record_quota_refresh_failure: the numbers stay.                         *)
MutFailed(p, status) ==
    /\ usage' = [report |-> 0, models |-> 0, status |-> status]
    /\ polls' = [polls EXCEPT ![p] = NoPoll]

Failed(p, status) ==
    /\ usage' = [usage EXCEPT !.status = status]
    /\ polls' = [polls EXCEPT ![p] = NoPoll]

(* A 401: one refresh and one more attempt where the provider has that.    *)
Unauthorized(p) ==
    /\ polls[p].step = "sent"
    /\ \/ /\ Retries /\ ~polls[p].refreshed
          /\ polls' = [polls EXCEPT ![p].refreshed = TRUE, ![p].models = usage.models]
          /\ UNCHANGED usage
       \/ Failed(p, "failed")
    /\ UNCHANGED <<pkind, listed, backoff, moment, news, resetVars>>

MutRateLimited(p) ==
    /\ polls[p].step = "sent"
    /\ backoff' = IF BacksOff THEN moment + 1 ELSE backoff
    /\ Failed(p, IF BacksOff THEN "rate_limited" ELSE "failed")
    /\ UNCHANGED <<pkind, listed, moment, news, resetVars>>

(* A 429: the store takes the deadline of a live account only.             *)
RateLimited(p) ==
    /\ polls[p].step = "sent"
    /\ backoff' = IF BacksOff /\ listed THEN moment + 1 ELSE backoff
    /\ Failed(p, IF BacksOff THEN "rate_limited" ELSE "failed")
    /\ UNCHANGED <<pkind, listed, moment, news, resetVars>>

Breaks(p) ==
    /\ polls[p].step = "sent" /\ Failed(p, "failed")
    /\ UNCHANGED <<pkind, listed, backoff, moment, news, resetVars>>

(* retain_accounts of the backoff store, when a rescan drops the account   *)
(* or takes it in again.                                                   *)
RetainBackoffs ==
    /\ listed' = ~listed
    /\ backoff' = IF listed' THEN backoff ELSE 0
    /\ UNCHANGED <<pkind, moment, news, usage, polls, resetVars>>

Moment ==
    /\ moment < MaxNow /\ moment' = moment + 1
    /\ UNCHANGED <<pkind, listed, backoff, news, usage, polls, resetVars>>

News ==
    /\ news < MaxNews /\ news' = news + 1
    /\ UNCHANGED <<pkind, listed, backoff, moment, usage, polls, resetVars>>

-----------------------------------------------------------------------------
pollVars == <<pkind, listed, backoff, moment, news, usage, polls>>

(* consume_reset_credit, up to the request, with a fresh redeem id.        *)
ConsumeResetCredit ==
    /\ pkind = "codex" /\ resetting.step = "idle" /\ nextId <= MaxRedeem
    /\ resetting' = [step |-> "sent", id |-> nextId] /\ nextId' = nextId + 1
    /\ charged' = 0
    /\ UNCHANGED <<pollVars, credits, redeemed>>

(* The upstream takes a credit once per id, whatever becomes of its answer.*)
TakesReport(id) ==
    \/ UNCHANGED <<credits, redeemed, charged>>
    \/ /\ id \notin redeemed /\ credits > 0
       /\ credits' = credits - 1 /\ redeemed' = redeemed \cup {id} /\ charged' = charged + 1

MutRetryReset ==
    /\ resetting.step = "sent"
    /\ TakesReport(resetting.id)
    /\ nextId' = nextId + 1
    /\ resetting' = [step |-> "retried", id |-> nextId]
    /\ UNCHANGED pollVars

(* reset_attempt_policy after a 401: refresh, and the same id again.       *)
RetryReset ==
    /\ resetting.step = "sent"
    /\ TakesReport(resetting.id)
    /\ resetting' = [resetting EXCEPT !.step = "retried"]
    /\ UNCHANGED <<nextId, pollVars>>

(* Any other answer, or none, ends the call.                               *)
EndReset ==
    /\ resetting.step # "idle"
    /\ TakesReport(resetting.id)
    /\ resetting' = NoReset
    /\ UNCHANGED <<nextId, pollVars>>

PollingNext ==
    \/ \E p \in Poll : Start(p) \/ Reported(p) \/ Detailed(p) \/ Unauthorized(p) \/ RateLimited(p) \/ Breaks(p)
    \/ RetainBackoffs \/ Moment \/ News
    \/ ConsumeResetCredit \/ RetryReset \/ EndReset

-----------------------------------------------------------------------------
(* A backoff is kept for a live account only, also when a poll that was    *)
(* under way when the account was dropped meets its 429 later              *)
(* (PollBackoffStore, insert and retain_accounts).                         *)
BackoffOfLiveOnly == backoff > 0 => listed

FailureKeepsTheReportStep ==
    usage'.status # "ok" => usage'.report = usage.report /\ usage'.models = usage.models

(* A poll that fails tells so and leaves the last report in place, however *)
(* many polls overlap (record_quota_refresh_failure).                      *)
FailureKeepsTheReport == [][FailureKeepsTheReportStep]_pollingVars

(* One reset call takes one credit at most, also when the answer that      *)
(* asked for a retry came after the credit was taken                       *)
(* (retain_redeem_request_id).                                             *)
ResetSpendsOnce == charged <= 1

-----------------------------------------------------------------------------
(***************************************************************************)
(* Warmup probes of one account, crates/gateway/src/warmup.rs: the loop    *)
(* that picks accounts that are due, the operator's probes, the map of     *)
(* flights that keeps them apart, and rescans that drop the account and    *)
(* bring it back.  A stay is the time between two of those.                *)
(***************************************************************************)

CONSTANTS
    WarmProvider,  \* of "codex", "cline", "antigravity", "claude"
    Quiet,         \* the ticks in CLAUDE_QUIET_HOURS
    Window,        \* how long a probed window lasts, and a success is believed
    Jitter,        \* claude_probe_jitter_secs
    MaxFlight,     \* bound: flights
    MaxStay,       \* bound: stays
    MaxHour        \* bound: the clock

VARIABLES
    hour,       \* the clock
    kind,       \* the account's provider
    member,     \* the account is in the pool
    admitted,   \* it is in the runner's allowlist
    stay,       \* history: how often the allowlist took the account in
    reset,      \* usage.primary.reset_at_unix as polled last, 0 unknown
    window,     \* the upstream's window ends then
    blocked,    \* eligibility finds a reason against the account
    probes,      \* its record: when it was probed last, and with which result
    flights,    \* the generation in the flight map, or 0
    generation, \* flight_generation
    worker,     \* generation -> the spawned task
    picked,     \* the loop found the account due and has not called run yet
    settled     \* history: the probe of this stay that settled last, unless one of an
                \* earlier stay has written over its result since

warmupVars == <<hour, kind, member, admitted, stay, reset, window, blocked, probes, flights,
                generation, worker, picked, settled>>

NoProbe == [at |-> 0, result |-> "none"]
NoWorker == [step |-> "none", automatic |-> FALSE, stay |-> 0, at |-> 0]

WarmupInit ==
    /\ kind \in WarmProvider
    /\ hour = 1 /\ member = TRUE /\ admitted = TRUE /\ stay = 1
    /\ reset = 0 /\ window = 0 /\ blocked = FALSE
    /\ probes = NoProbe /\ flights = 0 /\ generation = 0
    /\ worker = [g \in 1..MaxFlight |-> NoWorker]
    /\ picked = FALSE /\ settled = NoProbe

-----------------------------------------------------------------------------
(* eligibility, which the loop and the task both ask.                      *)
Eligible == ~blocked

(* is_quota_window_active: the poller reported a reset that is to come.    *)
IsQuotaWindowActive == reset > hour

(* resolve_window_state: without a report, a success counts for a while.   *)
ResolveWindowState ==
    IsQuotaWindowActive \/ (probes.result = "ok" /\ probes.at + Window > hour)

(* claude_probe_due: from the reset and the jitter on, once per window.    *)
ClaudeProbeDue ==
    /\ reset > 0 /\ reset + Jitter <= hour /\ hour \notin Quiet
    /\ ~(probes.result = "ok" /\ probes.at >= reset)

(* due_at.  A record of this tick is recent.                               *)
DueAt ==
    /\ Eligible /\ probes.at # hour /\ ~ResolveWindowState
    /\ kind = "claude" => ClaudeProbeDue

Active(g) == worker[g].step # "none"

(* run: one flight at a time; a second operator waits for the first one's. *)
RunProbe(automatic) ==
    /\ automatic => picked
    /\ picked' = IF automatic THEN FALSE ELSE picked
    /\ IF admitted /\ flights = 0
       THEN /\ generation < MaxFlight
            /\ generation' = generation + 1 /\ flights' = generation'
            /\ worker' = [worker EXCEPT ![generation'] =
                    [step |-> "queued", automatic |-> automatic, stay |-> stay, at |-> 0]]
       ELSE UNCHANGED <<generation, flights, worker>>
    /\ UNCHANGED <<hour, kind, member, admitted, stay, reset, window, blocked, probes, settled>>

(* finish_flight: only its own.                                            *)
MutFinishFlight(g) ==
    /\ flights' = 0
    /\ worker' = [worker EXCEPT ![g] = NoWorker]

FinishFlight(g) ==
    /\ flights' = IF flights = g THEN 0 ELSE flights
    /\ worker' = [worker EXCEPT ![g] = NoWorker]

MutExecute(g) ==
    /\ worker[g].step = "queued"
    /\ IF member /\ Eligible
       THEN /\ worker' = [worker EXCEPT ![g].step = "sent", ![g].at = hour]
            /\ probes' = IF admitted THEN [probes EXCEPT !.at = hour] ELSE probes
            /\ UNCHANGED flights
       ELSE FinishFlight(g) /\ UNCHANGED probes
    /\ UNCHANGED <<hour, kind, member, admitted, stay, reset, window, blocked, generation, picked, settled>>

(* execute, up to the request: the checks and the record are one step; a   *)
(* record of an account that left is dropped.                              *)
Execute(g) ==
    /\ worker[g].step = "queued"
    /\ IF member /\ Eligible /\ (worker[g].automatic => DueAt)
       THEN /\ worker' = [worker EXCEPT ![g].step = "sent", ![g].at = hour]
            /\ probes' = IF admitted THEN [probes EXCEPT !.at = hour] ELSE probes
            /\ UNCHANGED flights
       ELSE FinishFlight(g) /\ UNCHANGED probes
    /\ UNCHANGED <<hour, kind, member, admitted, stay, reset, window, blocked, generation, picked, settled>>

(* validate: the frames of the answer, by what they are.                   *)
Validate(frames) ==
    {"content", "terminal"} \subseteq frames /\ frames \cap {"error", "malformed"} = {}

(* The answer, a failure, the time limit or a shutdown (500).  A 429, or a *)
(* 401 that no refresh cures, benches the account; a success starts the    *)
(* upstream's window if none is running.                                   *)
Settle(g) ==
    /\ worker[g].step = "sent"
    /\ \E status \in {200, 429, 500}, frames \in {{"content", "terminal"}, {"content"}} :
        LET ok == status = 200 /\ Validate(frames)
            result == IF ok THEN "ok" ELSE "failed" IN
        /\ probes' = IF probes = NoProbe THEN probes ELSE [probes EXCEPT !.result = result]
        /\ window' = IF ok /\ window <= hour THEN hour + Window ELSE window
        /\ blocked' = (blocked \/ status = 429)
        /\ settled' = IF worker[g].stay = stay THEN [at |-> worker[g].at, result |-> result] ELSE NoProbe
    /\ FinishFlight(g)
    /\ UNCHANGED <<hour, kind, member, admitted, stay, reset, generation, picked>>

-----------------------------------------------------------------------------
(* The loop's look at the pool; run comes later, after other accounts.     *)
SpawnWarmupLoop ==
    /\ member /\ DueAt /\ ~picked /\ picked' = TRUE
    /\ UNCHANGED <<hour, kind, member, admitted, stay, reset, window, blocked, probes, flights, generation, worker, settled>>

(* A rescan publishes the pool, and tells the runner later.                *)
Publishes ==
    /\ member = admitted /\ member' = ~member /\ stay < MaxStay
    /\ UNCHANGED <<hour, kind, admitted, stay, reset, window, blocked, probes, flights, generation, worker, picked, settled>>

MutRetainAccounts ==
    /\ admitted # member /\ admitted' = member
    /\ stay' = IF member THEN stay + 1 ELSE stay
    /\ probes' = NoProbe /\ settled' = NoProbe
    /\ UNCHANGED <<hour, kind, member, reset, window, blocked, generation, flights, worker, picked>>

RetainAccounts ==
    /\ admitted # member /\ admitted' = member
    /\ stay' = IF member THEN stay + 1 ELSE stay
    /\ IF member THEN UNCHANGED <<probes, flights>> ELSE probes' = NoProbe /\ flights' = 0
    /\ settled' = NoProbe
    /\ UNCHANGED <<hour, kind, member, reset, window, blocked, generation, worker, picked>>

Polls ==
    /\ reset' = window /\ reset' # reset
    /\ UNCHANGED <<hour, kind, member, admitted, stay, window, blocked, probes, flights, generation, worker, picked, settled>>

Unblocks ==
    /\ blocked /\ blocked' = FALSE
    /\ UNCHANGED <<hour, kind, member, admitted, stay, reset, window, probes, flights, generation, worker, picked, settled>>

Hour ==
    /\ hour < MaxHour /\ hour' = hour + 1
    /\ UNCHANGED <<kind, member, admitted, stay, reset, window, blocked, probes, flights, generation, worker, picked, settled>>

WarmupNext ==
    \/ \E automatic \in BOOLEAN : RunProbe(automatic)
    \/ \E g \in 1..MaxFlight : Execute(g) \/ Settle(g)
    \/ SpawnWarmupLoop \/ Publishes \/ RetainAccounts \/ Polls \/ Unblocks \/ Hour

-----------------------------------------------------------------------------
(* A flight in the map has a task that will remove it, so no account stays *)
(* "in flight" for good; and a departed account has no record and no       *)
(* flight (retain_accounts, record_probe, finish_flight).                  *)
FlightsHaveWorkers ==
    /\ flights # 0 => Active(flights) /\ worker[flights].stay = stay
    /\ ~admitted => flights = 0 /\ probes = NoProbe

(* One probe at a time for as long as the account stays in the pool, also  *)
(* when the task of an earlier stay ends late (finish_flight).             *)
OneProbePerStay ==
    \A g, h \in 1..MaxFlight : Active(g) /\ Active(h) /\ worker[g].stay = worker[h].stay => g = h

NoNeedlessProbeStep ==
    \A g \in 1..MaxFlight :
     /\ worker[g].step = "queued" /\ worker[g].automatic /\ worker'[g].step = "sent"
     /\ settled.result = "ok" /\ admitted
     => /\ settled.at + Window <= hour
        /\ kind = "claude" => settled.at < reset /\ reset <= hour

(* The loop does not probe an account whose latest probe of this stay      *)
(* succeeded and whose window the poller has not reported as over: what    *)
(* was due when it was picked is looked at again (execute).                *)
NoNeedlessProbe == [][NoNeedlessProbeStep]_warmupVars

(* Probes and polls of an account run side by side: one probe at a time,   *)
(* with a task to end it; a backoff of live accounts only, and one credit  *)
(* per reset call.                                                         *)
ProbedAndPolledOnce == OneProbePerStay /\ FlightsHaveWorkers /\ BackoffOfLiveOnly /\ ResetSpendsOnce

(* A probe is sent only if it is due when it is sent, and a failed poll    *)
(* leaves the last report in place.                                        *)
ProbedWhenDue == [][NoNeedlessProbeStep /\ FailureKeepsTheReportStep]_<<warmupVars, pollingVars>>
=============================================================================
