-------------------------- MODULE ConsoleSettings ---------------------------
(***************************************************************************)
(* The console's settings documents and the gate in front of it. The two   *)
(* share no state.                                                         *)
(***************************************************************************)
EXTENDS Integers, FiniteSets
LOCAL INSTANCE FiniteSetsExt

-----------------------------------------------------------------------------
(***************************************************************************)
(* The settings document (management/store.rs) and the console calls that  *)
(* change it.  A write takes the store's lock, edits a copy of the live    *)
(* document, validates, persists (to the selected storage backend first),  *)
(* and then publishes.  What a handler does afterwards (the router's       *)
(* strategy, the retry metadata) it does without the lock.  Home publishes *)
(* whole documents that are not persisted.                                 *)
(***************************************************************************)

CONSTANTS
    Writer,      \* concurrent console calls
    MaxWrite     \* bound: calls and Home snapshots

\* A lock that nobody holds is 0.
ASSUME WriterAssumption == 0 \notin Writer

VARIABLES
    live,       \* SettingsStore.current
    disk,       \* config.yaml
    backend,    \* config/config.yaml in the storage backend
    mode,       \* how the process was started: plain, with a storage backend, or under Home
    router,     \* the strategy of the live router
    writer,     \* Writer -> the call it is in
    mutateLock, \* 0 or the writer that holds the lock
    writes,     \* calls made, and the id of the edit the latest makes
    epoch,      \* history: whole documents put so far
    acked,      \* history: edits answered with success since then
    revoked,    \* history: scoped keys deleted since then
    halfway     \* history: a local write failed after the backend's

settingsVars == <<live, disk, backend, mode, router, writer, mutateLock, writes, epoch, acked, revoked, halfway>>

Strategies == {"fill-first", "round-robin"}
Settings == [strategy : Strategies, edits : SUBSET (1 .. MaxWrite), scoped : SUBSET (1 .. MaxWrite), revision : 0 .. MaxWrite, profile : 0 .. MaxWrite,
             secret : BOOLEAN, home : BOOLEAN]
Fresh == [strategy |-> "fill-first", edits |-> {}, scoped |-> {}, revision |-> 0, profile |-> 0, secret |-> TRUE, home |-> FALSE]
NoWriter == [op |-> "none", step |-> "idle", id |-> 0, seen |-> Fresh, at |-> 0, next |-> Fresh, strategy |-> "fill-first"]

SettingsInit ==
    /\ live = Fresh /\ disk = Fresh /\ backend = Fresh
    /\ mode \in {"plain", "store", "home"}
    /\ router = Fresh.strategy
    /\ writer = [w \in Writer |-> NoWriter]
    /\ mutateLock = 0 /\ writes = 0 /\ epoch = 0 /\ acked = {} /\ revoked = {} /\ halfway = FALSE

---------------------------------------------------------------------------
(* A call as it arrives: what its client had read of the document.         *)
Ask(w, op) ==
    /\ writer[w].step = "idle" /\ writes < MaxWrite
    /\ writes' = writes + 1
    /\ writer' = [writer EXCEPT ![w] = [NoWriter EXCEPT !.op = op, !.step = "asked", !.id = writes + 1, !.seen = live, !.at = epoch]]
    /\ UNCHANGED <<live, disk, backend, mode, router, mutateLock, epoch, acked, revoked, halfway>>

(* The edits, each applied to the document the store holds.                *)
Adds(doc, id) == [doc EXCEPT !.edits = @ \cup {id}]
ApplyEdit(doc, id) == {[Adds(doc, id) EXCEPT !.strategy = s] : s \in Strategies}
MutateKeyList(doc, id) == {Adds(doc, id), [doc EXCEPT !.edits = {id}]}
PutBinding(doc, id) == {Adds(doc, id)}
PutCodexCredits(doc, id) == {Adds(doc, id), doc}
PutWarmupPolicy(doc, id) == {Adds(doc, id)}
ClearSuspected(doc, id) == {Adds(doc, id)}
CreateScopedKey(doc, id) == {[doc EXCEPT !.scoped = @ \cup {id}]}
PatchScopedKey(doc, id) == {Adds(doc, id), doc}
DeleteScopedKey(doc, id) == {[doc EXCEPT !.scoped = @ \ {k}] : k \in doc.scoped} \cup {doc}

(* A whole YAML document; the secret is kept if the text has the marker    *)
(* that stands for it.                                                     *)
PutConfigYaml(doc, id) ==
    {[strategy |-> s, edits |-> {id}, scoped |-> {}, revision |-> r, profile |-> IF r = 0 THEN 0 ELSE doc.profile, secret |-> m, home |-> FALSE] :
        s \in Strategies, r \in {0, doc.revision}, m \in {doc.secret, FALSE}}

(* v8: PUT, PATCH or DELETE of a path.  A revision cannot be edited, and   *)
(* the secret outlives an edit that leaves it out.  A whole v8 document is *)
(* one of those above, with the secret kept.                               *)
EditV8(doc, id) == ApplyEdit(doc, id)

MutPutProfile(w, doc) ==
    IF writer[w].seen.revision <= doc.revision
    THEN {[doc EXCEPT !.revision = @ + 1, !.profile = writer[w].id]} ELSE {}

(* The compare-and-set of the shared client profile.                       *)
PutProfile(w, doc) ==
    IF writer[w].seen.revision = doc.revision
    THEN {[doc EXCEPT !.revision = @ + 1, !.profile = writer[w].id]} ELSE {}

EditsOf(w, doc) ==
    LET id == writer[w].id IN
    CASE writer[w].op = "edit" -> ApplyEdit(doc, id) \cup MutateKeyList(doc, id) \cup EditV8(doc, id)
      [] writer[w].op = "account" -> PutBinding(doc, id) \cup PutCodexCredits(doc, id) \cup PutWarmupPolicy(doc, id) \cup ClearSuspected(doc, id)
      [] writer[w].op = "scoped" -> CreateScopedKey(doc, id) \cup PatchScopedKey(doc, id) \cup DeleteScopedKey(doc, id)
      [] writer[w].op = "yaml" -> PutConfigYaml(doc, id)
      [] writer[w].op = "profile" -> PutProfile(w, doc)

---------------------------------------------------------------------------
MutConfigured(w) == writer[w].seen

(* The document a write starts from: the live one, read under the lock.    *)
Configured(w) == live

MutTryMutate(w) ==
    /\ writer[w].step = "asked"
    /\ \E next \in EditsOf(w, Configured(w)) :
           /\ writer' = [writer EXCEPT ![w].step = "persist", ![w].next = next]
           /\ backend' = IF mode = "store" THEN next ELSE backend
    /\ mutateLock' = w
    /\ UNCHANGED <<live, disk, mode, router, writes, epoch, acked, revoked, halfway>>

(* try_mutate and mutate_v8 up to the local write.                         *)
TryMutate(w) ==
    /\ writer[w].step = "asked" /\ mutateLock = 0
    /\ \E next \in EditsOf(w, Configured(w)) :
           /\ writer' = [writer EXCEPT ![w].step = "persist", ![w].next = next]
           /\ backend' = IF mode = "store" THEN next ELSE backend
    /\ mutateLock' = w
    /\ UNCHANGED <<live, disk, mode, router, writes, epoch, acked, revoked, halfway>>

(* The edit is refused, does not validate, or the backend refuses it.      *)
RefuseEdit(w) ==
    /\ writer[w].step = "asked" /\ mutateLock = 0
    /\ writer' = [writer EXCEPT ![w] = NoWriter]
    /\ UNCHANGED <<live, disk, backend, mode, router, mutateLock, writes, epoch, acked, revoked, halfway>>

MutPersist(w) ==
    /\ writer[w].step = "persist"
    /\ writer' = [writer EXCEPT ![w].step = "publish"]
    /\ UNCHANGED <<live, disk, backend, mode, router, mutateLock, writes, epoch, acked, revoked, halfway>>

(* Settings::persist, write_atomically: a new file renamed over the old.   *)
Persist(w) ==
    /\ writer[w].step = "persist"
    /\ disk' = writer[w].next
    /\ writer' = [writer EXCEPT ![w].step = "publish"]
    /\ UNCHANGED <<live, backend, mode, router, mutateLock, writes, epoch, acked, revoked, halfway>>

PersistFails(w) ==
    /\ writer[w].step = "persist"
    /\ writer' = [writer EXCEPT ![w] = NoWriter]
    /\ mutateLock' = 0
    /\ halfway' = (halfway \/ mode = "store")
    /\ UNCHANGED <<live, disk, backend, mode, router, writes, epoch, acked, revoked>>

(* The store of the new document, its observers and its publishers.        *)
Publish(w) ==
    /\ writer[w].step = "publish"
    /\ live' = writer[w].next
    /\ mutateLock' = 0
    /\ epoch' = IF writer[w].op = "yaml" THEN epoch + 1 ELSE epoch
    /\ acked' = IF writer[w].op = "yaml" \/ writer[w].next.edits = {writer[w].id} THEN writer[w].next.edits
                ELSE acked \cup ({writer[w].id} \cap writer[w].next.edits)
    /\ revoked' = IF writer[w].op = "yaml" THEN {} ELSE revoked \cup (live.scoped \ writer[w].next.scoped)
    /\ writer' = IF writer[w].op \in {"edit", "yaml"} THEN [writer EXCEPT ![w].step = "sync"]
                 ELSE [writer EXCEPT ![w] = NoWriter]
    /\ halfway' = FALSE
    /\ UNCHANGED <<disk, backend, mode, router, writes>>

(* sync_routing_strategy and its like: read the document, set the router.  *)
SyncRead(w) ==
    /\ writer[w].step = "sync"
    /\ writer' = [writer EXCEPT ![w].step = "apply", ![w].strategy = live.strategy]
    /\ UNCHANGED <<live, disk, backend, mode, router, mutateLock, writes, epoch, acked, revoked, halfway>>

SyncRoutingStrategy(w) ==
    /\ writer[w].step = "apply"
    /\ router' = writer[w].strategy
    /\ writer' = [writer EXCEPT ![w] = NoWriter]
    /\ UNCHANGED <<live, disk, backend, mode, mutateLock, writes, epoch, acked, revoked, halfway>>

(* Home's snapshot: validated and published, not persisted.                *)
ApplyHome ==
    /\ mode = "home" /\ mutateLock = 0 /\ writes < MaxWrite
    /\ writes' = writes + 1
    /\ \E s \in Strategies :
           live' = [Fresh EXCEPT !.strategy = s, !.edits = {writes + 1}, !.home = TRUE]
    /\ epoch' = epoch + 1 /\ acked' = {writes + 1} /\ revoked' = {}
    /\ UNCHANGED <<disk, backend, mode, router, writer, mutateLock, halfway>>

(* The process stops at any point and loads what was saved.                *)
RestartSettings ==
    LET saved == IF mode = "store" THEN backend ELSE disk IN
    /\ \E w \in Writer : writer[w].step # "idle"
    /\ live' = saved /\ disk' = saved /\ router' = saved.strategy
    /\ writer' = [w \in Writer |-> NoWriter]
    /\ mutateLock' = 0 /\ halfway' = FALSE
    /\ epoch' = epoch + 1 /\ acked' = saved.edits /\ revoked' = {}
    /\ UNCHANGED <<backend, mode, writes>>

SettingsNext ==
    \/ \E w \in Writer :
        \/ \E op \in {"edit", "account", "scoped", "yaml", "profile"} : Ask(w, op)
        \/ TryMutate(w) \/ RefuseEdit(w) \/ Persist(w) \/ PersistFails(w) \/ Publish(w) \/ SyncRead(w) \/ SyncRoutingStrategy(w)
    \/ ApplyHome \/ RestartSettings

---------------------------------------------------------------------------
(* The documents have their type, and one writer is inside the store.      *)
SettingsTypeOK ==
    /\ {live, disk, backend} \subseteq Settings
    /\ \A w \in Writer : writer[w].step \in {"persist", "publish"} => mutateLock = w

(* An edit the console confirmed stays in the document until a whole       *)
(* document replaces it, and a deleted scoped key does not come back:      *)
(* concurrent calls undo none of each other's work (mutate_lock).          *)
ConfirmedEditsStay == acked \subseteq live.edits /\ revoked \cap live.scoped = {}

(* Nothing local is served that was not saved: once no write is under way, *)
(* the file, and the backend if there is one, hold the live document.      *)
ServedIsSaved ==
    (mutateLock = 0 /\ ~live.home /\ ~halfway) => (disk = live /\ (mode = "store" => backend = live))

(* Both: what the console confirmed is served, and what is served is saved *)
(* (try_mutate).                                                           *)
SettingsAreKept == ConfirmedEditsStay /\ ServedIsSaved

ProfileIsCompareAndSetStep ==
    \A w \in Writer :
       (writer[w].op = "profile" /\ writer[w].step = "publish" /\ live' # live /\ writer[w].at = epoch /\ epoch' = epoch)
           => live.profile = writer[w].seen.profile

(* Two clients never overwrite each other's profile unseen, as long as no  *)
(* whole document was put in between (put_profile's If-Match).             *)
ProfileIsCompareAndSet == [][ProfileIsCompareAndSetStep]_settingsVars

(* Home's document is never persisted over the operator's file (apply_home *)
(* says so).                                                               *)
HomeStaysOffDisk == ~disk.home

(* The router never keeps a strategy the settings no longer hold, once no  *)
(* call is under way (sync_routing_strategy says so).                      *)
RouterFollowsSettings == (\A w \in Writer : writer[w].step = "idle") => router = live.strategy

-----------------------------------------------------------------------------
(***************************************************************************)
(* The lockout of the management API (management/gate.rs).  A request      *)
(* passes a preflight under the mutex and takes a verifier permit, then    *)
(* verifies the key on a blocking thread without the mutex, and takes the  *)
(* mutex again to count the outcome.  Requests of one peer overlap, and    *)
(* the operator may change the secret while they verify.                   *)
(***************************************************************************)

CONSTANTS
    Caller,       \* concurrent requests
    Peer,         \* addresses
    MAX_FAILURES, \* wrong keys in a row before a ban
    BAN_DURATION, \* how long a ban lasts
    Retention,    \* how long failures are remembered without another
    Permits,      \* size of the verifier semaphore
    MaxTick       \* bound: how far the clock runs

VARIABLES
    tick,      \* Instant::now()
    attempts,  \* ManagementAttempts.ips: failures, end of the ban and last failure of a peer
    caller,    \* Caller -> where its request is
    remote,    \* allow_remote in the settings
    told       \* history: how often, and when, a peer was told that its key is wrong, since its last right one

gateVars == <<tick, attempts, caller, remote, told>>

NoBan == 0
Clean == [count |-> 0, ban |-> NoBan, seen |-> 0]
NoCaller == [step |-> "idle", peer |-> CHOOSE p \in Peer : TRUE, key |-> "none", remote |-> FALSE]

GateInit ==
    /\ tick = 1
    /\ attempts = [p \in Peer |-> Clean]
    /\ caller = [c \in Caller |-> NoCaller]
    /\ remote = FALSE
    /\ told = [p \in Peer |-> [t \in 1 .. MaxTick |-> 0]]

Banned(p) == attempts[p].ban > tick
Verifying == {c \in Caller : caller[c].step = "verify"}

(* A ban that has run out, and failures long past, are forgotten.          *)
Preflight(p) ==
    CASE Banned(p) -> attempts[p]
      [] ~Banned(p) /\ attempts[p].ban # NoBan -> [attempts[p] EXCEPT !.count = 0, !.ban = NoBan]
      [] OTHER -> IF tick - attempts[p].seen <= Retention THEN attempts[p] ELSE Clean

(* The one peer of the model that is not the loopback may be kept out.     *)
IsLoopback(p) == p = "loopback"

(* begin_verification: refused while banned, while remote management is    *)
(* off, or when all permits are out.                                       *)
BeginVerification(c, p, key) ==
    /\ caller[c].step = "idle" /\ ~Banned(p)
    /\ attempts' = [attempts EXCEPT ![p] = Preflight(p)]
    /\ (IsLoopback(p) \/ remote) /\ Cardinality(Verifying) < Permits
    /\ caller' = [caller EXCEPT ![c] = [step |-> IF key = "missing" THEN "count" ELSE "verify", peer |-> p, key |-> key, remote |-> remote]]
    /\ UNCHANGED <<tick, remote, told>>

(* The key is compared on a blocking thread, and the permit returned.      *)
Verify(c) ==
    /\ caller[c].step = "verify"
    /\ caller' = [caller EXCEPT ![c].step = "count"]
    /\ UNCHANGED <<tick, attempts, remote, told>>

MutStillBanned(p) == FALSE

(* The second preflight: other requests of the peer may have been counted  *)
(* while this one verified.                                                *)
StillBanned(p) == Banned(p)

MutAfterFailure(a) ==
    IF a.count + 1 > MAX_FAILURES THEN [count |-> 0, ban |-> tick + BAN_DURATION, seen |-> tick]
    ELSE [a EXCEPT !.count = @ + 1, !.seen = tick]

(* One more wrong key.                                                     *)
AfterFailure(a) ==
    IF a.count + 1 >= MAX_FAILURES THEN [count |-> 0, ban |-> tick + BAN_DURATION, seen |-> tick]
    ELSE [a EXCEPT !.count = @ + 1, !.seen = tick]

Authenticate(c) ==
    LET p == caller[c].peer
        right == caller[c].key = "right"
    IN
    /\ caller[c].step = "count"
    /\ IF StillBanned(p) \/ ~(IsLoopback(p) \/ caller[c].remote)
       THEN /\ caller' = [caller EXCEPT ![c] = NoCaller]
            /\ UNCHANGED <<attempts, told>>
       ELSE /\ attempts' = [attempts EXCEPT ![p] = IF right THEN Clean ELSE AfterFailure(Preflight(p))]
            /\ told' = [told EXCEPT ![p] = IF right THEN [t \in 1 .. MaxTick |-> 0] ELSE [@ EXCEPT ![tick] = @ + 1]]
            /\ caller' = [caller EXCEPT ![c] = IF right THEN [@ EXCEPT !.step = "admitted"] ELSE NoCaller]
    /\ UNCHANGED <<tick, remote>>

(* The handler runs and answers.                                           *)
RunHandler(c) ==
    /\ caller[c].step = "admitted"
    /\ caller' = [caller EXCEPT ![c] = NoCaller]
    /\ UNCHANGED <<tick, attempts, remote, told>>

TimePasses ==
    /\ tick < MaxTick
    /\ tick' = tick + 1
    /\ UNCHANGED <<attempts, caller, remote, told>>

AllowRemote ==
    /\ remote' = ~remote
    /\ UNCHANGED <<tick, attempts, caller, told>>

GateNext ==
    \/ \E c \in Caller :
        \/ \E p \in Peer, key \in {"right", "wrong", "missing"} : BeginVerification(c, p, key)
        \/ Verify(c) \/ Authenticate(c) \/ RunHandler(c)
    \/ TimePasses \/ AllowRemote

---------------------------------------------------------------------------
(* Counts stay below the limit that turns them into a ban.                 *)
GateTypeOK ==
    /\ \A p \in Peer : attempts[p].count \in 0 .. MAX_FAILURES - 1 /\ attempts[p].ban \in 0 .. MaxTick + BAN_DURATION
    /\ \A c \in Caller : caller[c].step \in {"idle", "verify", "count", "admitted"}

BansHoldStep ==
    \A c \in Caller : (caller[c].step = "count" /\ caller'[c].step = "admitted") => ~Banned(caller[c].peer)

(* A peer is never let in while its ban lasts, not even with the right key *)
(* in a request that was being verified when the ban began.                *)
BansHold == [][BansHoldStep]_gateVars

(* In any stretch as long as a ban, a peer is told at most MAX_FAILURES     *)
(* times that its key is wrong, however its requests overlap.              *)
RepliesAreLimited ==
    \A p \in Peer, t \in 1 .. MaxTick :
        MapThenSumSet(LAMBDA u : told[p][u], (t .. t + BAN_DURATION - 1) \cap (1 .. MaxTick)) <= MAX_FAILURES
=============================================================================
