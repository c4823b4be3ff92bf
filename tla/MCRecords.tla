----------------------------- MODULE MCRecords ------------------------------
(***************************************************************************)
(* What is remembered of requests: the history's database and its          *)
(* migrations, the pins on disk, the ledger of signatures, and sessions of *)
(* several turns. The parts share no state, so one of them runs at a time: *)
(* `part' names it. The variables of AffinityStore wait in a first state   *)
(* while another part runs, and the slots x1, x2, ... hold those of the    *)
(* other parts.                                                            *)
(***************************************************************************)
EXTENDS Integers, Sequences, FiniteSets, TLC, AffinityStore

CONSTANTS Lane, Version, MaxRow, MaxTime, TokenLimit, MaxCap, Retention,
    SizeCap, ChunkSize, PageLimit, Actor, Arguments, Weight, MaxEntries,
    MaxBytes, SnapshotEntries, TTL, MaxWrites, Holder, WsAccount, WsModel,
    Narrow, Common, Gate, MaxTurn

VARIABLES part, x1, x2, x3, x4, x5, x6, x7, x8, x9, x10, x11, x12

slots == <<part, x1, x2, x3, x4, x5, x6, x7, x8, x9, x10, x11, x12,
    affinityVars>>

HistoryStore == INSTANCE HistoryStore WITH events <- x1, nextRow <- x2,
    caps <- x3, nextCap <- x4, prices <- x5, clock <- x6, upkeep <- x7,
    walk <- x8, topReset <- x9, repriced <- x10, schemaVersion <- x1,
    columns <- x2, migration <- x3
Ledger == INSTANCE SignatureLedger WITH clock <- x1, entries <- x2,
    bytes <- x3, dirty <- x4, wake <- x5, stopping <- x6, worker <- x7,
    taken <- x8, file <- x9, alive <- x10, writes <- x11, failed <- x12,
    Key <- Actor, MaxClock <- 2
Endpoints == INSTANCE Endpoints WITH benched <- x1, scoped <- x2, key <- x3,
    saves <- x4, socket <- x5, asked <- x6, Socket <- Actor, openGate <- x1,
    rtNow <- x2, minted <- x3, secrets <- x4, calls <- x5, listed <- x6,
    relay <- x7, task <- x8, RtTask <- Actor, RtKey <- {"k"},
    RtMember <- Holder, MAX_SECRETS <- 2, MAX_SECRETS_PER_ISSUER <- 1,
    SecretTtl <- 1, MaxRtNow <- 1, MaxMint <- 2, MaxCalls <- 1, mpool <- x1,
    mnow <- x2, made <- x3, bound <- x4, spooled <- x5, active <- x6,
    media <- x7, MediaTask <- Actor, MediaKey <- {"k"},
    MediaAccount <- Holder, Offering <- {"m", "n"}, VideoTtl <- 1,
    MaxMediaNow <- 1, MaxVideo <- 1, MaxUpload <- 1, talkNow <- x1,
    token <- x2, store <- x3, said <- x4, told <- x5, talk <- x6,
    TalkTask <- Actor, Talker <- Holder, TalkAccount <- {"b", "g"},
    NativeAccount <- {"g"}, Session <- {"s"}, Prefix <- {"p"},
    CallId <- Arguments, Capacity <- 3, TalkTtl <- 2, TalkRetries <- 1,
    MaxTalkNow <- 1, MaxToken <- 2, MaxTalk <- 2

-----------------------------------------------------------------------------
\* The slots a part does not use.
after10 == <<x11, x12>>
after8 == <<x9, x10, after10>>
after7 == <<x8, after8>>
after6 == <<x7, after7>>
after3 == <<x4, x5, x6, after6>>
after0 == <<x1, x2, x3, after3>>
Unused10 == x11 = 0 /\ x12 = 0
Unused8 == x9 = 0 /\ x10 = 0 /\ Unused10
Unused7 == x8 = 0 /\ Unused8
Unused6 == x7 = 0 /\ Unused7
Unused3 == x4 = 0 /\ x5 = 0 /\ x6 = 0 /\ Unused6
Unused0 == x1 = 0 /\ x2 = 0 /\ x3 = 0 /\ Unused3

\* A part that waits.
PinsWaits == AffinityInit

Init ==
    \/ part = "store" /\ HistoryStore!StoreInit /\ Unused10 /\ PinsWaits
    \/ part = "schema" /\ HistoryStore!SchemaInit /\ Unused3 /\ PinsWaits
    \/ part = "pins" /\ AffinityInit /\ Unused0
    \/ part = "ledger" /\ Ledger!LedgerInit /\ PinsWaits
    \/ part = "sockets" /\ Endpoints!WsInit /\ Unused6 /\ PinsWaits
    \/ part = "calls" /\ Endpoints!RtInit /\ Unused8 /\ PinsWaits
    \/ part = "media" /\ Endpoints!MediaInit /\ Unused7 /\ PinsWaits
    \/ part = "talks" /\ Endpoints!TalkInit /\ Unused6 /\ PinsWaits

RunStore == part = "store" /\ HistoryStore!StoreNext /\ UNCHANGED <<part, after10, affinityVars>>
RunSchema == part = "schema" /\ HistoryStore!SchemaNext /\ UNCHANGED <<part, after3, affinityVars>>
RunPins == part = "pins" /\ AffinityNext /\ UNCHANGED <<part, after0>>
RunLedger == part = "ledger" /\ Ledger!LedgerNext /\ UNCHANGED <<part, affinityVars>>
RunSockets == part = "sockets" /\ Endpoints!WsNext /\ UNCHANGED <<part, after6, affinityVars>>
RunCalls == part = "calls" /\ Endpoints!RtNext /\ UNCHANGED <<part, after8, affinityVars>>
RunMedia == part = "media" /\ Endpoints!MediaNext /\ UNCHANGED <<part, after7, affinityVars>>
RunTalks == part = "talks" /\ Endpoints!TalkNext /\ UNCHANGED <<part, after6, affinityVars>>

Next == RunStore \/ RunSchema \/ RunPins \/ RunLedger \/ RunSockets \/
        RunCalls \/ RunMedia \/ RunTalks

Spec == Init /\ [][Next]_slots

Symmetry == Permutations(Actor) \union Permutations(Arguments) \union Permutations(Holder)

-----------------------------------------------------------------------------
\* However the history is trimmed and wherever a trim fails, the latest reset
\* of every Cline lane is still found after a restart; a walk over pages
\* misses no row; costs follow the prices in force; and an upgrade
\* interrupted anywhere is taken up again and ends with every column
\* (history.rs); a clean ledger of thought signatures is on disk, stays
\* within its bounds and replays what it was given for a call
\* (signature_ledger).
HistoryIsKept ==
    /\ part = "store" => HistoryStore!LiveResetsAreKept
    /\ part = "store" => HistoryStore!WalkMissesNothing
    /\ part = "store" => HistoryStore!CostsFollowPrices
    /\ part = "schema" => HistoryStore!MigrationNeverSticks
    /\ part = "schema" => HistoryStore!SchemaIsComplete
    /\ part = "ledger" => Ledger!CleanIsOnDisk
    /\ part = "ledger" => Ledger!StoreIsBounded
    /\ part = "ledger" => Ledger!ReplaysWhatWasGiven

\* Nothing goes before its time: upkeep of the history removes the oldest
\* rows only (prune_to_size), a pin is dropped only when it expired or
\* younger ones fill the cap (AffinityStore::trim), a restart keeps the order
\* in which signatures are evicted (LruStore::restore), a turn is recorded
\* before its session goes on to the next (wsrelay.rs), and what a caller was
\* told to continue from is kept for its time (interactions.rs).
NothingGoesEarly ==
    [][/\ part = "store" => HistoryStore!OldestGoFirstStep
       /\ part = "pins" => EvictionIsByAgeStep
       /\ part = "ledger" => Ledger!RestartKeepsOrderStep
       /\ part = "sockets" => Endpoints!TurnsAreRecordedStep
       /\ part = "talks" => Endpoints!ToldIsKeptStep]_slots

\* A WebSocket turn is recorded or at least charged once however its session
\* ends (wsrelay.rs); an open realtime call has an owner that can close it,
\* no two handlers of calls wait for each other, a sideband that forwards is
\* told when its call ends, secrets stay with their issuer (cp_routes.rs);
\* spools and active counts are released with their request, and a video is
\* asked of the account that makes it (media.rs); a conversation is continued
\* with its own history, whole, by its own account and within its limits, and
\* what goes first is the earliest to end (interactions.rs).
SessionsAreSettled ==
    /\ part = "sockets" => Endpoints!TurnsAreSettled
    /\ part = "calls" => Endpoints!RelayIsOwned
    /\ part = "calls" => Endpoints!NobodyWaitsInACircle
    /\ part = "calls" => Endpoints!ForwardingIsTold
    /\ part = "calls" => Endpoints!SecretsAreScoped
    /\ part = "media" => Endpoints!MediaIsReleased
    /\ part = "media" => Endpoints!VideoStaysWithItsMaker
    /\ part = "talks" => Endpoints!ContinuesItsOwn
    /\ part = "talks" => Endpoints!HistoryIsWhole
    /\ part = "talks" => Endpoints!EarliestGoesFirst
    /\ part = "talks" => Endpoints!TalkIsBounded
=============================================================================
