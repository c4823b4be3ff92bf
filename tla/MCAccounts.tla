----------------------------- MODULE MCAccounts -----------------------------
(***************************************************************************)
(* Accounts as the scheduler holds on to them, their usage as it is shown, *)
(* and the registry, catalogs and peers that say what they may serve. The  *)
(* parts share no state, so one of them runs at a time: `part' names it.   *)
(* The variables of Scheduler wait in a first state while another part     *)
(* runs, and the slots x1, x2, ... hold those of the other parts.          *)
(***************************************************************************)
EXTENDS Integers, Sequences, FiniteSets, TLC, Scheduler

CONSTANTS Owner, MaxSamples, SpanSecs, GrowthFactor, MaxUnix, MaxCount,
    Minutes, Model, Family, MaxSec, Fresh_, Limit, MaxUnits, MaxMonth, Seat,
    Subscription, ApiKeySeat, RankEvery, MaxRankNow, MAX_SESSIONS,
    SESSION_TTL, MaxBlocks, MaxWatchNow, MaxRecords, MaxNow, Buffer,
    CompactAt, MaxPops, Keep, MaxEvents, MaxClears, MaxAliasDepth, MaxRules,
    Embedded, Version, MaxFetch, MaxOffers, MaxRequests, MaxLoads, HomeNode,
    Seed, Invalid, Threshold, MaxRevision, MaxIssued, Worker, StudioModel,
    PENDING_LIMIT, QueueCap, MaxGeneration, Space, Environment, Turn,
    MaxTurns, MaxGroups, MaxPrefixes, TtlMs, Member, MaxTime, MaxAsked

VARIABLES part, x1, x2, x3, x4, x5, x6, x7, x8, x9, x10, x11, x12, x13, x14,
    x15, x16, x17

slots == <<part, x1, x2, x3, x4, x5, x6, x7, x8, x9, x10, x11, x12, x13, x14,
    x15, x16, x17, vars>>

OneQuota == {[remaining |-> "high", reset |-> 2]}
Unordered == {[a \in Account |-> Never]}
AnyPool == SUBSET Account

Usage == INSTANCE Usage WITH unix <- x1, windows <- x2, tracked <- x3,
    log <- x4, legacy <- x5, appended <- x6, meter <- x7, faulty <- x8,
    sec <- x1, snapshot <- x2, reading <- x3, body <- x1, head <- x2,
    tail <- x3, tokens <- x4, Count <- {1, 2}, limits <- x1, month <- x2,
    spentTokens <- x3, lastReading <- x4, reader <- x5, floor <- x6,
    unread <- x7, Payer <- Task, rankNow <- x1, resetAt <- x2, ranked <- x3,
    stale <- x4, watchNow <- x1, watched <- x2, lastPrompt <- x3,
    verdict <- x4, WatchSession <- Task, Block <- Instance
RequestTelemetry == INSTANCE RequestTelemetry WITH now <- x1, items <- x2,
    head <- x3, subscribers <- x4, buffer <- x5, conn <- x6, managed <- x7,
    made <- x8, offered <- x9, taken <- x10, received <- x11, since <- x12,
    pops <- x13, Conn <- Task, Retention <- 1, buckets <- x1, saved <- x2,
    events <- x3, pending <- x4, stored <- x5, counted <- x6, clearing <- x7,
    clears <- x8, newest <- x9, disturbed <- x10, Clearer <- Task,
    Provider <- {"p"}, Minutes <- 1, Holder <- Instance, Tokens <- {1}
ModelRegistry == INSTANCE ModelRegistry WITH phase <- x1, items <- x2,
    seen <- x3, reg <- x4, refused <- x5, sigAt <- x1, catAt <- x2,
    expired <- x3, lkg <- x4, active <- x5, source <- x6, served <- x7,
    lkgVersion <- x8, sigTag <- x9, catTag <- x10, fetch <- x11,
    inFlight <- x12, seq <- x13, waiter <- x14, ending <- x15, recent <- x16,
    fetches <- x17
RuntimeComposition == INSTANCE RuntimeComposition WITH offer <- x1,
    base <- x2, pool <- x3, genSeq <- x4, asked <- x5, completed <- x6,
    poller <- x7, running <- x8, Poller <- Task, file <- x1, member <- x2,
    counter <- x3, loads <- x4, order <- x5, fetcher <- x6, observer <- x7,
    observing <- x8, active <- x9, cached <- x10, Fetcher <- Task
RemotePeers == INSTANCE RemotePeers WITH fenced <- x1, heartbeat <- x2,
    failures <- x3, target <- x4, nodes <- x5, bound <- x6, applied <- x7,
    served <- x8, sync <- x9, request <- x10, pushes <- x11,
    release_seq <- x12, published <- x13, ledger <- x14, HomeRequest <- Task,
    workers <- x1, known <- x2, session <- x3, pending <- x4, client <- x5,
    Client <- Task
Matcher == INSTANCE Trajectories WITH groups <- x1, asking <- x2, now <- x3,
    asked <- x4, alone <- x5, Asker <- Task

-----------------------------------------------------------------------------
\* The slots a part does not use.
after14 == <<x15, x16, x17>>
after13 == <<x14, after14>>
after10 == <<x11, x12, x13, after13>>
after8 == <<x9, x10, after10>>
after7 == <<x8, after8>>
after5 == <<x6, x7, after7>>
after4 == <<x5, after5>>
after3 == <<x4, after4>>
after0 == <<x1, x2, x3, after3>>
Unused14 == x15 = 0 /\ x16 = 0 /\ x17 = 0
Unused13 == x14 = 0 /\ Unused14
Unused10 == x11 = 0 /\ x12 = 0 /\ x13 = 0 /\ Unused13
Unused8 == x9 = 0 /\ x10 = 0 /\ Unused10
Unused7 == x8 = 0 /\ Unused8
Unused5 == x6 = 0 /\ x7 = 0 /\ Unused7
Unused4 == x5 = 0 /\ Unused5
Unused3 == x4 = 0 /\ Unused4
Unused0 == x1 = 0 /\ x2 = 0 /\ x3 = 0 /\ Unused3

\* A part that waits.
TasksWaits == Init /\ pool = Account

MCInit ==
    \/ part = "tasks" /\ Init /\ Unused0
    \/ part = "samples" /\ Usage!SamplesInit /\ Unused8 /\ TasksWaits
    \/ part = "windows" /\ Usage!UsageInit /\ Unused3 /\ TasksWaits
    \/ part = "tokens" /\ Usage!TokenInit /\ Unused4 /\ TasksWaits
    \/ part = "queue" /\ RequestTelemetry!QueueInit /\ Unused13 /\ TasksWaits
    \/ part = "board" /\ RequestTelemetry!BoardInit /\ Unused10 /\ TasksWaits
    \/ part = "budgets" /\ Usage!BudgetInit /\ Unused7 /\ TasksWaits
    \/ part = "order" /\ Usage!RankInit /\ Unused4 /\ TasksWaits
    \/ part = "prefixes" /\ Usage!WatchInit /\ Unused4 /\ TasksWaits
    \/ part = "registry" /\ ModelRegistry!CompositionInit /\ Unused5 /\ TasksWaits
    \/ part = "catalog" /\ ModelRegistry!CatalogInit /\ TasksWaits
    \/ part = "runtime" /\ RuntimeComposition!RuntimeInit /\ Unused8 /\ TasksWaits
    \/ part = "devin" /\ RuntimeComposition!DevinInit /\ Unused10 /\ TasksWaits
    \/ part = "home" /\ RemotePeers!HomeInit /\ Unused14 /\ TasksWaits
    \/ part = "matcher" /\ Matcher!TrajectoryInit /\ Unused5 /\ TasksWaits
    \/ part = "workers" /\ RemotePeers!StudioInit /\ Unused5 /\ TasksWaits

RunTasks == part = "tasks" /\ Next /\ UNCHANGED <<part, after0>>
RunSamples == part = "samples" /\ Usage!SamplesNext /\ UNCHANGED <<part, after8, vars>>
RunWindows == part = "windows" /\ Usage!UsageNext /\ UNCHANGED <<part, after3, vars>>
RunTokens == part = "tokens" /\ Usage!TokenNext /\ UNCHANGED <<part, after4, vars>>
RunQueue == part = "queue" /\ RequestTelemetry!QueueNext /\ UNCHANGED <<part, after13, vars>>
RunBoard == part = "board" /\ RequestTelemetry!BoardNext /\ UNCHANGED <<part, after10, vars>>
RunBudgets == part = "budgets" /\ Usage!BudgetNext /\ UNCHANGED <<part, after7, vars>>
RunOrder == part = "order" /\ Usage!RankNext /\ UNCHANGED <<part, after4, vars>>
RunPrefixes == part = "prefixes" /\ Usage!WatchNext /\ UNCHANGED <<part, after4, vars>>
RunRegistry == part = "registry" /\ ModelRegistry!CompositionNext /\ UNCHANGED <<part, after5, vars>>
RunCatalog == part = "catalog" /\ ModelRegistry!CatalogNext /\ UNCHANGED <<part, vars>>
RunRuntime == part = "runtime" /\ RuntimeComposition!RuntimeNext /\ UNCHANGED <<part, after8, vars>>
RunDevin == part = "devin" /\ RuntimeComposition!DevinNext /\ UNCHANGED <<part, after10, vars>>
RunHome == part = "home" /\ RemotePeers!HomeNext /\ UNCHANGED <<part, after14, vars>>
RunMatcher == part = "matcher" /\ Matcher!TrajectoryNext /\ UNCHANGED <<part, after5, vars>>
RunWorkers == part = "workers" /\ RemotePeers!StudioNext /\ UNCHANGED <<part, after5, vars>>

MCNext == RunTasks \/ RunSamples \/ RunWindows \/ RunTokens \/ RunQueue \/
        RunBoard \/ RunBudgets \/ RunOrder \/ RunPrefixes \/ RunRegistry \/
        RunCatalog \/ RunRuntime \/ RunDevin \/ RunHome \/ RunMatcher \/
        RunWorkers

MCSpec == MCInit /\ [][MCNext]_slots

Symmetry == Permutations(Task) \union Permutations(Instance)

-----------------------------------------------------------------------------
\* Usage shown is usage reported: windows survive a restart and the log stays
\* bounded, a difference over a window is never more than was used, a reading
\* stays with the window it came from, an account counts as spent when a
\* reading says so, and a request's tokens are those its answer named last
\* (usage.rs); the dashboard counts the outcomes the history holds
\* (telemetry.rs); the queue of usage records gives each one once, to poppers
\* in order and to subscribers without a gap (resp.rs); a Claude account
\* found at its budget is closed, and all with a budget while the history
\* cannot be read (claude_budget.rs); ranks by reset time are current and
\* sorting keeps every slot (claude_reset_order.rs); a broken prefix is
\* reported where it breaks (claude_prefix_watch.rs).
UsageIsTheReported ==
    /\ part = "samples" => Usage!DeltasAreNotInflated
    /\ part = "samples" => Usage!RestartFindsTheWindows
    /\ part = "samples" => Usage!LogIsBounded
    /\ part = "windows" => Usage!ReadingsKeepTheirWindow
    /\ part = "windows" => Usage!ExhaustionFollowsReadings
    /\ part = "tokens" => Usage!TokensAreTheReported
    /\ part = "board" => RequestTelemetry!DashboardFollowsHistory
    /\ part = "queue" => RequestTelemetry!QueueIsExact
    /\ part = "queue" => RequestTelemetry!StreamHasNoGaps
    /\ part = "queue" => RequestTelemetry!SendersHaveReceivers
    /\ part = "budgets" => Usage!BudgetsClose
    /\ part = "order" => Usage!RanksAreCurrent
    /\ part = "order" => Usage!OrderKeepsSlots
    /\ part = "prefixes" => Usage!BreaksAreReal

\* What is routed is what was declared: merging bindings does not depend on
\* their order, every alias resolves, an open provider takes no model another
\* one claims, and a binding's account supports it (registry lib.rs); an
\* accepted catalog is kept and its waiters woken (CatalogManager); a
\* coalesced refresh has seen what its caller offered (RefreshCoordinator); a
\* Devin catalog is the one of the credential (publish_devin_member_catalog);
\* settings bound to Home are the applied ones, and a credential Home handed
\* out is held by one request or accounted for (home.rs); sibling
\* conversations are kept apart (lcp.rs); a request waits only for a worker
\* session that runs, chosen by the catalog that session sent (aistudio.rs).
RegistryIsSound ==
    /\ part = "registry" => ModelRegistry!OpenTakesNothing
    /\ part = "registry" => ModelRegistry!MergingCommutes
    /\ part = "registry" => ModelRegistry!AliasesResolve
    /\ part = "registry" => ModelRegistry!RoutedIsSupported
    /\ part = "catalog" => ModelRegistry!TakenIsKept
    /\ part = "catalog" => ModelRegistry!WaitersAreWoken
    /\ part = "runtime" => RuntimeComposition!CoalescedIsFresh
    /\ part = "devin" => RuntimeComposition!CatalogIsTheCredentials
    /\ part = "home" => RemotePeers!BoundFollowsApplied
    /\ part = "home" => RemotePeers!IssuedIsAccounted
    /\ part = "matcher" => Matcher!SiblingsAreApart
    /\ part = "workers" => RemotePeers!PendingHasASession
    /\ part = "workers" => RemotePeers!CatalogIsTheSessions

\* Newer is not replaced by older: the served catalog falls at a restart only
\* (verify_catalog_envelope), the pool's generations grow
\* (RefreshCoordinator), and of two requests of one member the one sent first
\* does not replace the other (publish_devin_member_catalog), an older
\* configuration of Home is not applied (home.rs), a conversation that grows
\* keeps its account, and its latest turns are not what a trim drops
\* (lcp.rs), and the end of a replaced worker session ends none of the new
\* one's requests (aistudio.rs).
NewerStays ==
    [][/\ part = "devin" => RuntimeComposition!LateAnswerIsDroppedStep
       /\ part = "catalog" => ModelRegistry!CatalogNeverFallsStep
       /\ part = "runtime" => RuntimeComposition!GenerationsGrowStep
       /\ part = "home" => RemotePeers!NewerConfigStaysStep
       /\ part = "matcher" => Matcher!LatestIsKeptStep
       /\ part = "matcher" => Matcher!GrowthKeepsTheAccountStep
       /\ part = "workers" => RemotePeers!OwnSessionEndsRequestsStep]_slots
=============================================================================
