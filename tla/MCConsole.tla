----------------------------- MODULE MCConsole ------------------------------
(***************************************************************************)
(* The management console: logins, credential files, settings documents,   *)
(* the configuration document, plugins and the gate in front of them. The  *)
(* parts share no state, so one of them runs at a time: `part' names it.   *)
(* The variables of ConsoleSettings wait in a first state while another    *)
(* part runs, and the slots x1, x2, ... hold those of the other parts.     *)
(***************************************************************************)
EXTENDS Integers, Sequences, FiniteSets, TLC, ConsoleSettings

CONSTANTS LoginProvider, Actor, MaxLogin, MAX_OAUTH_SESSIONS,
    OAUTH_SESSION_TTL, MaxAge, KeyFile, Project, Identity, MaxCall, Offer,
    MaxResponder, MaxTimeout, TxtBudget, MaxPacket, MaxVisited, SpoolDoc,
    MaxPeer, SessionCap, Unusable, MaxVersion, CallThread, MaxClient,
    MaxEdit, Body, Chain, EgMember, ClaudeId, DevinId, MaxEgNow, MaxChange,
    MaxSupNow

VARIABLES part, x1, x2, x3, x4, x5, x6, x7, x8, x9, x10, x11, x12, x13

slots == <<part, x1, x2, x3, x4, x5, x6, x7, x8, x9, x10, x11, x12, x13,
    settingsVars, gateVars>>

\* Documents: only the default; one provider opted in, an entry that does not
\* build; a provider of its own and one that is direct.
EgressDoc(url, providers, egress) == [url |-> url, providers |-> providers, egress |-> egress]
EgressOn(url, sticky, ttl) == [enabled |-> TRUE, url |-> url, sticky |-> sticky, ttl |-> ttl]
EgressDocs ==
    {EgressDoc("p", <<>>, 1 :> "e"), EgressDoc("p", "devin" :> EgressOn("", TRUE, 2), 1 :> "bad"),
     EgressDoc("", ("claude-code" :> EgressOn("q", TRUE, 0)) @@ ("devin" :> EgressOn("direct", FALSE, 0)), <<>>)}

Credentials == INSTANCE Credentials WITH session <- x1, listener <- x2,
    port <- x3, handler <- x4, saved <- x5, now <- x6, started <- x7,
    Handler <- Actor, file <- x1, pooled <- x2, call <- x3, lock <- x4,
    gate <- x5, behind <- x6, calls <- x7, Admin <- Actor
Reachability == INSTANCE Reachability WITH step <- x1, wanted <- x2,
    manager <- x3, responder <- x4, woken <- x5, listening <- x6,
    found <- x7, timeouts <- x8, setup <- x1, spec <- x2, heard <- x3,
    answers <- x4, packet <- x1, offset <- x2, name <- x3, parsed <- x4,
    version <- x1, start <- x2, read <- x3, watch <- x4, tls <- x5,
    reloading <- x6, wire <- x7, sessions <- x8, server <- x9, Wire <- Actor,
    egNow <- x1, egDoc <- x2, entries <- x3, publisher <- x4, egPool <- x5,
    changes <- x6, rescanning <- x7, cache <- x8, call <- x9,
    EgTask <- Actor, EgDocs <- EgressDocs, Bad <- {"bad"}, supNow <- x1,
    supDoc <- x2, portUp <- x3, failures <- x4, lastTry <- x5,
    downSince <- x6, tries <- x7, Waits <- <<1, 2, 3>>, Steps <- <<2, 4>>
Spool == INSTANCE StorageSpool WITH kind <- x1, remote <- x2, tree <- x3,
    behind <- x4, spool <- x5, pending <- x6, lock <- x7, call <- x8,
    running <- x9, peers <- x10, confirmed <- x11, disturbed <- x12,
    unseen <- x13, SpoolTask <- Actor
Plugins == INSTANCE Plugins WITH doc <- x1, library <- x2, loaded <- x3,
    client <- x4, thread <- x5, operator <- x6, edits <- x7,
    Operator <- Actor, leg <- x1, body <- x2, said <- x3
Config == INSTANCE ConfigDocument WITH kind <- x1, source <- x2,
    edited <- x3, root <- x4, served <- x5, file <- x6, entry <- x7,
    writes <- x8, MaxEdits <- 1, MaxWrites <- 2

-----------------------------------------------------------------------------
\* The slots a part does not use.
after9 == <<x10, x11, x12, x13>>
after8 == <<x9, after9>>
after7 == <<x8, after8>>
after4 == <<x5, x6, x7, after7>>
after3 == <<x4, after4>>
after0 == <<x1, x2, x3, after3>>
Unused9 == x10 = 0 /\ x11 = 0 /\ x12 = 0 /\ x13 = 0
Unused8 == x9 = 0 /\ Unused9
Unused7 == x8 = 0 /\ Unused8
Unused4 == x5 = 0 /\ x6 = 0 /\ x7 = 0 /\ Unused7
Unused3 == x4 = 0 /\ Unused4
Unused0 == x1 = 0 /\ x2 = 0 /\ x3 = 0 /\ Unused3

\* A part that waits.
SettingsWaits == SettingsInit /\ mode = "plain"
GateWaits == GateInit
Waiting == SettingsWaits /\ GateWaits
waiting == <<settingsVars, gateVars>>

Init ==
    \/ part = "logins" /\ Credentials!OAuthInit /\ Unused7 /\ Waiting
    \/ part = "files" /\ Credentials!CredInit /\ Unused7 /\ Waiting
    \/ part = "settings" /\ SettingsInit /\ Unused0 /\ GateWaits
    \/ part = "gate" /\ GateInit /\ Unused0 /\ SettingsWaits
    \/ part = "discovery" /\ Reachability!DiscoveryInit /\ Unused8 /\ Waiting
    \/ part = "adverts" /\ Reachability!RecordInit /\ Unused4 /\ Waiting
    \/ part = "names" /\ Reachability!DnsInit /\ Unused4 /\ Waiting
    \/ part = "spool" /\ Spool!SpoolInit /\ Waiting
    \/ part = "listener" /\ Reachability!ListenerInit /\ Unused9 /\ Waiting
    \/ part = "plugins" /\ Plugins!PluginInit /\ Unused7 /\ Waiting
    \/ part = "hooks" /\ Plugins!HookInit /\ Unused3 /\ Waiting
    \/ part = "egress" /\ Reachability!EgressInit /\ Unused9 /\ Waiting
    \/ part = "config" /\ Config!ConfigInit /\ Unused8 /\ Waiting
    \/ part = "supervisor" /\ Reachability!SupervisorInit /\ Unused7 /\ Waiting

RunLogins == part = "logins" /\ Credentials!OAuthNext /\ UNCHANGED <<part, after7, waiting>>
RunFiles == part = "files" /\ Credentials!CredNext /\ UNCHANGED <<part, after7, waiting>>
RunSettings == part = "settings" /\ SettingsNext /\ UNCHANGED <<part, after0, gateVars>>
RunGate == part = "gate" /\ GateNext /\ UNCHANGED <<part, after0, settingsVars>>
RunDiscovery == part = "discovery" /\ Reachability!DiscoveryNext /\ UNCHANGED <<part, after8, waiting>>
RunAdverts == part = "adverts" /\ Reachability!RecordNext /\ UNCHANGED <<part, after4, waiting>>
RunNames == part = "names" /\ Reachability!DnsNext /\ UNCHANGED <<part, after4, waiting>>
RunSpool == part = "spool" /\ Spool!SpoolNext /\ UNCHANGED <<part, waiting>>
RunListener == part = "listener" /\ Reachability!ListenerNext /\ UNCHANGED <<part, after9, waiting>>
RunPlugins == part = "plugins" /\ Plugins!PluginNext /\ UNCHANGED <<part, after7, waiting>>
RunHooks == part = "hooks" /\ Plugins!HookNext /\ UNCHANGED <<part, after3, waiting>>
RunEgress == part = "egress" /\ Reachability!EgressNext /\ UNCHANGED <<part, after9, waiting>>
RunConfig == part = "config" /\ Config!ConfigNext /\ UNCHANGED <<part, after8, waiting>>
RunSupervisor == part = "supervisor" /\ Reachability!SupervisorNext /\ UNCHANGED <<part, after7, waiting>>

Next == RunLogins \/ RunFiles \/ RunSettings \/ RunGate \/ RunDiscovery \/
        RunAdverts \/ RunNames \/ RunSpool \/ RunListener \/ RunPlugins \/
        RunHooks \/ RunEgress \/ RunConfig \/ RunSupervisor

Spec == Init /\ [][Next]_slots

Symmetry == Permutations(Actor)

-----------------------------------------------------------------------------
\* A callback port is held only for a login that is still in the table
\* (OAuthSessions), and a peer learns of no more wrong keys than the limit,
\* however many requests overlap (ManagementAttempts); the listener serves
\* the certificate of the settings in force, no RESP session outlives the
\* shutdown (server.rs), and no call is in the code of a plugin that is
\* closed (plugins/loader.rs); the cache of clients holds one address per
\* account, of accounts in the pool only, a call leaves by the address
\* prescribed for it, and not at all for an account whose own address has no
\* client (try_client_for_target_at_with_override).
LimitsHold ==
    /\ part = "logins" => Credentials!PortsFollowSessions
    /\ part = "gate" => RepliesAreLimited
    /\ part = "listener" => Reachability!TlsFollowsSettings
    /\ part = "listener" => Reachability!NoSessionAfterShutdown
    /\ part = "plugins" => Plugins!CodeOutlivesItsCalls
    /\ part = "egress" => Reachability!OneClientPerTarget
    /\ part = "egress" => Reachability!LeavesAsPrescribed
    /\ part = "egress" => Reachability!UnbuiltIsNotServed

\* A login that was cancelled or evicted saves no credential and does not
\* come back by a late update (oauth.rs); an upload writes over no file and
\* adds no second file of an identity, a failed one leaves nothing behind, a
\* Devin import never switches a disabled account back on (creds.rs), and an
\* edit of a plugin that was refused changes nothing, while one that
\* succeeded was done (management/plugins.rs); a v8 write that does not name
\* the management secret keeps it (preserve_management_secret).
OnlyTheAskedIsSaved ==
    [][/\ part = "logins" => Credentials!CancelledIsNotSavedStep
       /\ part = "logins" => Credentials!GoneStaysGoneStep
       /\ part = "files" => Credentials!UploadsAddOnlyStep
       /\ part = "files" => Credentials!FailedUploadLeavesNothingStep
       /\ part = "files" => Credentials!DevinStaysOffStep
       /\ part = "plugins" => Plugins!RejectedChangesNothingStep
       /\ part = "plugins" => Plugins!DoneIsDoneStep
       /\ part = "config" => Config!SecretIsKeptStep]_slots

\* What was checked still holds when it is used: no client's profile is
\* overwritten unseen (put_profile), nobody is admitted while banned
\* (ManagementAttempts), shared storage is neither overwritten nor dropped
\* unseen (StorageManager), a RESP session is refused only while the cap is
\* reached (server.rs), and only the plugin client that was closed leaves the
\* list (try_unload_plugin).
ChecksHoldWhenUsed ==
    [][/\ part = "settings" => ProfileIsCompareAndSetStep
       /\ part = "gate" => BansHoldStep
       /\ part = "spool" => Spool!UnseenIsNotOverwrittenStep
       /\ part = "spool" => Spool!SyncRemovesOnlyGoneStep
       /\ part = "listener" => Reachability!SessionsRefusedWhenFullStep
       /\ part = "plugins" => Plugins!LiveStaysListedStep]_slots

\* A discovery responder that runs can still be stopped, also after a start
\* or a stop that failed, and an enabled one has announced itself; what is
\* heard is what was bound and advertised; and reading a packet's names ends
\* (discovery.rs); the egress proxy that is down is tried again, neither
\* sooner nor later than the intervals say (egress_supervisor.rs); a plugin
\* that was shut down leaves the list (loader.rs), and a body is what the
\* last plugin that had a word made of it (hooks.rs).
RunningIsOwned ==
    /\ part = "discovery" => Reachability!ResponderIsOwned
    /\ part = "discovery" => Reachability!EnabledMeansAnnounced
    /\ part = "adverts" => Reachability!AdvertisesTheBound
    /\ part = "adverts" => Reachability!HeardAsAdvertised
    /\ part = "names" => Reachability!DecodingEnds
    /\ part = "supervisor" => Reachability!RecoveryIsPaced
    /\ part = "plugins" => Plugins!DeadIsForgotten
    /\ part = "hooks" => Plugins!TheLastWordCounts

\* The three shapes of a setting are one: the canonical wins, an edit changes
\* only its path, a document rewritten from the settings is the same, and a
\* restart serves what was saved (v8/config.rs); the spool holds only what
\* the backend has held, and the process does not block itself
\* (StorageManager::put); and when no call is under way the pool is the one
\* the files describe, unless a call failed half-way (creds.rs).
StoredIsServed ==
    /\ part = "config" => Config!CanonicalWins
    /\ part = "config" => Config!EditsAreLocal
    /\ part = "config" => Config!RewriteIsStable
    /\ part = "config" => Config!RedactedIsUnchanged
    /\ part = "config" => Config!KnownSurviveARestart
    /\ part = "config" => Config!KeysKeepTheirShape
    /\ part = "files" => Credentials!PoolFollowsFiles
    /\ part = "spool" => Spool!SpoolIsConfirmed
    /\ part = "spool" => Spool!OwnWritesDoNotConflict
=============================================================================
