---------------------------- MODULE Credentials -----------------------------
(***************************************************************************)
(* How credentials come into the pool: logins started from the console,    *)
(* and the credential files it manages. The two share no state.            *)
(***************************************************************************)
EXTENDS Integers, FiniteSets, Functions, TLC, Sequences, SequencesExt

-----------------------------------------------------------------------------
(***************************************************************************)
(* Logins started from the console (management/oauth.rs): the table of     *)
(* sessions with its age limit and cap, the callback listeners that own a  *)
(* port, and the handlers that exchange a code or poll a device flow.  A   *)
(* handler works on a copy of its session across its awaits; only the      *)
(* write of the credential and the last update look at the table again.    *)
(***************************************************************************)

CONSTANTS
    LoginProvider,       \* providers explored, of the ones below
    Handler,             \* concurrent callbacks and status polls
    MaxLogin,            \* bound: sessions started
    MAX_OAUTH_SESSIONS,
    OAUTH_SESSION_TTL,
    MaxAge               \* bound: the clock

VARIABLES
    session,    \* SESSIONS: function on the live sessions
    listener,   \* LISTENERS: sessions with a handle
    port,       \* provider -> the session whose listener holds its port, or 0
    handler,    \* Handler -> the call it is in
    saved,      \* provider -> the session whose credential is on disk, or 0
    now,
    started     \* sessions started so far

oauthVars == <<session, listener, port, handler, saved, now, started>>

SessionStatus == {"Pending", "Exchanging", "Completed", "Failed"}
CallbackPorts == {"anthropic", "antigravity", "codex", "command-code"}
DeviceProviders == {"kimi", "qwen", "nous", "github-copilot"}
Idling == [step |-> "idle", id |-> 0, provider |-> "", claim |-> 0, born |-> 0, result |-> ""]

OAuthInit ==
    /\ session = <<>>
    /\ listener = {}
    /\ port = [p \in LoginProvider |-> 0]
    /\ handler = [h \in Handler |-> Idling]
    /\ saved = [p \in LoginProvider |-> 0]
    /\ now = 0 /\ started = 0

Live == DOMAIN session
Expired(s) == now - session[s].born >= OAUTH_SESSION_TTL
SessionIsActive(s) == s \in Live /\ ~Expired(s)

---------------------------------------------------------------------------
(* Starting a login.                                                       *)

(* An aborted listener gives its port back.                                *)
Abort(ports, gone) == [p \in LoginProvider |-> IF ports[p] \in gone THEN 0 ELSE ports[p]]

SweepExpired == {s \in Live : Expired(s)}

MutEnforceCap(table) == {}

(* The oldest sessions over the cap; creation times may tie.               *)
EnforceCap(table) ==
    CHOOSE out \in SUBSET DOMAIN table :
        /\ Cardinality(out) = (IF Cardinality(DOMAIN table) <= MAX_OAUTH_SESSIONS THEN 0
                               ELSE Cardinality(DOMAIN table) - MAX_OAUTH_SESSIONS)
        /\ \A x \in out, y \in DOMAIN table \ out : table[x].born <= table[y].born

MutPublishSession(new, listens) ==
    LET all == Restrict(session, Live \ SweepExpired) @@ (started + 1 :> new)
        gone == SweepExpired \cup EnforceCap(all)
    IN /\ session' = Restrict(all, DOMAIN all \ gone)
       /\ listener' = (listener \cup (IF listens THEN {started + 1} ELSE {})) \ gone
       /\ port' = IF listens THEN [port EXCEPT ![new.provider] = started + 1] ELSE port
       /\ started' = started + 1

(* publish_session, under both locks.                                      *)
PublishSession(new, listens) ==
    LET all == Restrict(session, Live \ SweepExpired) @@ (started + 1 :> new)
        gone == SweepExpired \cup EnforceCap(all)
        bound == IF listens THEN [port EXCEPT ![new.provider] = started + 1] ELSE port
    IN /\ session' = Restrict(all, DOMAIN all \ gone)
       /\ listener' = (listener \cup (IF listens THEN {started + 1} ELSE {})) \ gone
       /\ port' = Abort(bound, gone)
       /\ started' = started + 1

CreateAuthUrl(p) == [provider |-> p, status |-> "Pending", claim |-> 0, born |-> now]

(* A handler that serves the callback itself needs the provider's port: it *)
(* answers CONFLICT while another login holds it.                          *)
ListeningAuthUrl(p) ==
    /\ p \in LoginProvider /\ started < MaxLogin
    /\ port[p] = 0
    /\ PublishSession(CreateAuthUrl(p), TRUE)
    /\ UNCHANGED <<handler, saved, now>>

(* With a redirect_uri of its own, or in a flow that is polled.            *)
PlainAuthUrl(p) ==
    /\ p \in LoginProvider /\ started < MaxLogin
    /\ PublishSession(CreateAuthUrl(p), FALSE)
    /\ UNCHANGED <<handler, saved, now>>

AnthropicAuthUrl == ListeningAuthUrl("anthropic") \/ PlainAuthUrl("anthropic")
AntigravityAuthUrl == ListeningAuthUrl("antigravity") \/ PlainAuthUrl("antigravity")
CodexAuthUrl == ListeningAuthUrl("codex") \/ PlainAuthUrl("codex")
CommandCodeAuthUrl == ListeningAuthUrl("command-code") \/ PlainAuthUrl("command-code")
XaiAuthUrl == PlainAuthUrl("xai")
CursorAuthUrl == PlainAuthUrl("cursor")
ZcodeAuthUrl == PlainAuthUrl("zcode")
StartDeviceSession == \E p \in DeviceProviders : PlainAuthUrl(p)

(* cancel_session, and auth_status of a session that is too old.           *)
CancelSession(s) ==
    /\ s \in Live
    /\ session' = Restrict(session, Live \ {s})
    /\ listener' = listener \ {s}
    /\ port' = Abort(port, {s})
    /\ UNCHANGED <<handler, saved, now, started>>

---------------------------------------------------------------------------
(* A callback or a poll.                                                   *)

Enter(h, s, table) ==
    /\ handler[h].step = "idle"
    /\ handler' = [handler EXCEPT ![h] = [step |-> "exchanging", id |-> s, provider |-> session[s].provider,
                                          claim |-> table[s].claim, born |-> session[s].born, result |-> ""]]
    /\ session' = table
    /\ UNCHANGED <<listener, port, saved, now, started>>

(* oauth_callback with a code: the session is read, not claimed.           *)
OAuthCallback(h, s) ==
    /\ s \in Live
    /\ \/ session[s].provider \in {"codex", "xai", "antigravity"} /\ session[s].status = "Pending"
       \/ session[s].provider = "anthropic" /\ session[s].status \in {"Pending", "Failed"}
    /\ Enter(h, s, session)

MutClaimCommandCodeSession(h, s) ==
    /\ s \in Live /\ session[s].provider = "command-code" /\ ~Expired(s)
    /\ session[s].status \in {"Pending", "Exchanging"}
    /\ Enter(h, s, [session EXCEPT ![s].status = "Exchanging", ![s].claim = @ + 1])

(* A Command Code callback takes the session for itself.                   *)
ClaimCommandCodeSession(h, s) ==
    /\ s \in Live /\ session[s].provider = "command-code" /\ ~Expired(s)
    /\ session[s].status = "Pending"
    /\ Enter(h, s, [session EXCEPT ![s].status = "Exchanging", ![s].claim = @ + 1])

(* auth_status polls the flows that have no callback.                      *)
AuthStatus(h, s) ==
    /\ s \in Live /\ ~Expired(s)
    /\ session[s].provider \in {"cursor", "zcode"} \cup DeviceProviders
    /\ session[s].status = "Pending"
    /\ Enter(h, s, session)

MutMayPersist(h) == TRUE

(* write_session_credential_with: looked up under the lock the write is    *)
(* made under, so that a cancellation is before the look or after the      *)
(* write.                                                                  *)
MayPersist(h) ==
    LET c == handler[h] IN
    /\ SessionIsActive(c.id)
    /\ c.provider = "command-code" => /\ session[c.id].status = "Exchanging"
                                      /\ session[c.id].claim = c.claim
                                      /\ session[c.id].born = c.born

(* What follows the upstream's answers: the credential is written under    *)
(* the session's authority, or the exchange ends with an error.            *)
PersistSessionCredential(h) ==
    \/ /\ MayPersist(h)
       /\ saved' = [saved EXCEPT ![handler[h].provider] = handler[h].id]
       /\ handler' = [handler EXCEPT ![h].step = "settling", ![h].result = "Completed"]
       /\ UNCHANGED <<session, listener, port, now, started>>
    \/ /\ handler' = [handler EXCEPT ![h].step = "settling", ![h].result = "Failed"]
       /\ UNCHANGED <<session, listener, port, saved, now, started>>

Exchanging(h, providers) == handler[h].step = "exchanging" /\ handler[h].provider \in providers

ExchangeCodexCode(h) == Exchanging(h, {"codex"}) /\ PersistSessionCredential(h)
ExchangeAnthropicCode(h) == Exchanging(h, {"anthropic"}) /\ PersistSessionCredential(h)
ExchangeXaiCode(h) == Exchanging(h, {"xai"}) /\ PersistSessionCredential(h)
(* The address, the project and the file of an earlier login are found     *)
(* first; a second account of the same address is an error.                *)
ExchangeAntigravityCode(h) == Exchanging(h, {"antigravity"}) /\ PersistSessionCredential(h)
(* The pool is scanned before the session completes.                       *)
ExchangeCommandCodeCallback(h) == Exchanging(h, {"command-code"}) /\ PersistSessionCredential(h)

(* A poll that finds the login still pending leaves the session alone.     *)
StillPending(h) ==
    /\ handler' = [handler EXCEPT ![h] = Idling]
    /\ UNCHANGED <<session, listener, port, saved, now, started>>

PollCursorSession(h) == Exchanging(h, {"cursor"}) /\ (StillPending(h) \/ PersistSessionCredential(h))
PollZcodeSession(h) == Exchanging(h, {"zcode"}) /\ (StillPending(h) \/ PersistSessionCredential(h))
PollDeviceSession(h) == Exchanging(h, DeviceProviders) /\ (StillPending(h) \/ PersistSessionCredential(h))

MutUpdateSessionIn(c) ==
    session @@ (c.id :> [provider |-> c.provider, status |-> c.result, claim |-> c.claim, born |-> c.born])

(* update_session_in: a slot that is gone stays gone, and a claim that was *)
(* lost or settled is not written over.                                    *)
UpdateSessionIn(c) ==
    IF c.id \notin Live \/ (c.provider = "command-code" /\ (session[c.id].status # "Exchanging" \/ session[c.id].claim # c.claim))
    THEN session
    ELSE [session EXCEPT ![c.id].status = c.result]

(* The end of oauth_callback and auth_status: the session is looked up,    *)
(* the pool is scanned, and the outcome is written into the table.  A      *)
(* listener that took the callback of a completed login is told to finish; *)
(* the callback may also have come to the gateway's own route.             *)
Rescan(h) ==
    /\ handler[h].step = "settling"
    /\ handler' = [handler EXCEPT ![h] = IF SessionIsActive(handler[h].id) THEN [@ EXCEPT !.step = "updating"] ELSE Idling]
    /\ UNCHANGED <<session, listener, port, saved, now, started>>

Settle(h) ==
    LET c == handler[h] IN
    /\ c.step = "updating"
    /\ session' = UpdateSessionIn(c)
    /\ port' \in {port} \cup (IF c.result = "Completed" THEN {Abort(port, {c.id})} ELSE {})
    /\ handler' = [handler EXCEPT ![h] = Idling]
    /\ UNCHANGED <<listener, saved, now, started>>



(* spawn_callback_listener: the server stops at the session's deadline.    *)
ListenerDeadline ==
    \E p \in LoginProvider :
        /\ port[p] # 0
        /\ port[p] \in Live => Expired(port[p])
        /\ port' = [port EXCEPT ![p] = 0]
        /\ UNCHANGED <<session, listener, handler, saved, now, started>>

OAuthTick == now < MaxAge /\ now' = now + 1 /\ UNCHANGED <<session, listener, port, handler, saved, started>>

OAuthNext ==
    \/ AnthropicAuthUrl \/ AntigravityAuthUrl \/ CodexAuthUrl \/ CommandCodeAuthUrl
    \/ XaiAuthUrl \/ CursorAuthUrl \/ ZcodeAuthUrl \/ StartDeviceSession
    \/ \E s \in Live : CancelSession(s)
    \/ \E h \in Handler :
         \/ \E s \in Live : OAuthCallback(h, s) \/ ClaimCommandCodeSession(h, s) \/ AuthStatus(h, s)
         \/ ExchangeCodexCode(h) \/ ExchangeAnthropicCode(h) \/ ExchangeXaiCode(h)
         \/ ExchangeAntigravityCode(h) \/ ExchangeCommandCodeCallback(h)
         \/ PollCursorSession(h) \/ PollZcodeSession(h) \/ PollDeviceSession(h) \/ Rescan(h) \/ Settle(h)
    \/ ListenerDeadline \/ OAuthTick

---------------------------------------------------------------------------
(* The table of logins has its type and never outgrows its limit.          *)
OAuthTypeOK ==
    /\ \A s \in Live : session[s].status \in SessionStatus /\ session[s].provider \in LoginProvider
    /\ listener \subseteq Live
    /\ Cardinality(Live) <= MAX_OAUTH_SESSIONS

(* A port is held only for a login that is still in the table, whether the *)
(* others were cancelled, swept, or evicted by a newer login: none keeps   *)
(* the next login of its provider out.                                     *)
PortsFollowSessions == \A p \in LoginProvider : port[p] # 0 => port[p] \in listener

CancelledIsNotSavedStep ==
    \A p \in LoginProvider : saved'[p] # saved[p] => SessionIsActive(saved'[p])

(* A credential is written only by a login that is in the table and in     *)
(* time when it is written, though the handler has been away exchanging    *)
(* its code since it looked: nothing is saved for a cancelled login.       *)
CancelledIsNotSaved == [][CancelledIsNotSavedStep]_oauthVars

GoneStaysGoneStep ==
    \A s \in DOMAIN session' : s \in Live \/ s = started'

(* A cancelled, swept or evicted session never comes back, whatever its    *)
(* handlers still have to report.                                          *)
GoneStaysGone == [][GoneStaysGoneStep]_oauthVars

(* A Command Code login is exchanged by one callback at a time: a repeated *)
(* callback neither presents the key again nor settles the session.        *)
ClaimsAreExclusive ==
    \A g, h \in Handler :
        g # h /\ handler[g].provider = "command-code" /\ handler[h].provider = "command-code"
            => handler[g].id # handler[h].id

-----------------------------------------------------------------------------
(***************************************************************************)
(* The console's credential files (management/creds.rs, accounts.rs) and   *)
(* the pool rebuilt from them.  A handler checks, then writes one file     *)
(* after the other under the settings store's lock, then rescans.  A write *)
(* or the rescan may fail at any file.  A rescan loads and publishes under *)
(* a gate of its own, because some rescans come without the lock.          *)
(***************************************************************************)

CONSTANTS
    Admin,        \* concurrent console calls
    KeyFile,      \* names open to uploads and provider keys
    Project,      \* generic providers managed as a group of keys
    Identity,     \* what credential_identity tells apart
    MaxCall       \* bound: calls

VARIABLES
    file,     \* the auth directory: name -> document
    pooled,   \* the documents the published pool was built from
    call,     \* Admin -> the call it is in
    lock,     \* the composition lock: 0 or its holder
    gate,     \* the rescan gate: 0 or its holder
    behind,   \* history: a call ended after a write and before a load
    calls     \* calls made so far, and the revision of what the latest writes

credVars == <<file, pooled, call, lock, gate, behind, calls>>

FixedFile == {"devin", "vertex", "cline", "command-code", "monitor-trae"}
CredName == KeyFile \cup FixedFile
Document == [provider : Project \cup FixedFile \cup {"codex"}, ident : Identity \cup KeyFile \cup {"own"}, rev : 0 .. MaxCall, off : BOOLEAN]
NoDocument == [provider |-> "removed", ident |-> "", rev |-> 0, off |-> TRUE]
NoCall == [op |-> "none", step |-> "idle", todo |-> <<>>, done |-> <<>>, start |-> <<>>, loaded |-> <<>>]

CredInit ==
    /\ file = <<>> /\ pooled = <<>>
    /\ call = [a \in Admin |-> NoCall]
    /\ lock = 0 /\ gate = 0
    /\ behind = FALSE /\ calls = 0

Doc(provider, ident, off) == [provider |-> provider, ident |-> ident, rev |-> calls + 1, off |-> off]
Stored == DOMAIN file
Put(f, n, d) == IF d = NoDocument THEN Restrict(f, DOMAIN f \ {n}) ELSE (n :> d) @@ f

(* load_account_members: every document of a routable type.                *)
LoadAccountMembers == Restrict(file, {n \in Stored : file[n].provider # "monitor-trae"})

---------------------------------------------------------------------------
MutBegin(a, op, writes) ==
    /\ call[a].step = "idle" /\ calls < MaxCall
    /\ calls' = calls + 1
    /\ lock' = a
    /\ call' = [call EXCEPT ![a] = [NoCall EXCEPT !.op = op, !.step = "write", !.todo = writes, !.start = file]]
    /\ UNCHANGED <<file, pooled, gate, behind>>

(* A call under the lock with the writes its checks allow.                 *)
Begin(a, op, writes) ==
    /\ call[a].step = "idle" /\ lock = 0 /\ calls < MaxCall
    /\ calls' = calls + 1
    /\ lock' = a
    /\ call' = [call EXCEPT ![a] = [NoCall EXCEPT !.op = op, !.step = "write", !.todo = writes, !.start = file]]
    /\ UNCHANGED <<file, pooled, gate, behind>>

CreateAuthFile(a) == \E n \in KeyFile, i \in Identity : Begin(a, "create", <<<<n, Doc("codex", i, FALSE)>>>>)
DeleteAuthFile(a) == \E n \in Stored : Begin(a, "delete", <<<<n, NoDocument>>>>)
PatchAuthFileStatus(a) == \E n \in Stored, off \in BOOLEAN : Begin(a, "status", <<<<n, [file[n] EXCEPT !.off = off]>>>>)
PatchAuthFileFields(a) == \E n \in Stored : Begin(a, "fields", <<<<n, [file[n] EXCEPT !.rev = calls + 1]>>>>)

(* Every document is read before the first one is written.                 *)
BulkAuthFiles(a) ==
    \E names \in SUBSET Stored \ {{}}, off \in BOOLEAN :
        Begin(a, "bulk", [k \in 1 .. Cardinality(names) |->
            LET n == SetToSeq(names)[k] IN <<n, [file[n] EXCEPT !.off = off]>>])

(* Imports from elsewhere verify upstream first, and write under a name    *)
(* made from what they verified.                                           *)
ImportOver(a, n) == Begin(a, "import", <<<<n, Doc(n, "own", FALSE)>>>>)
VertexImport(a) == ImportOver(a, "vertex")
ClineImport(a) == ImportOver(a, "cline")
CommandCodeImport(a) == ImportOver(a, "command-code")
TraeImport(a) == Begin(a, "trae", <<<<"monitor-trae", Doc("monitor-trae", "own", FALSE)>>>>)

MutDevinImportCli(a) == Begin(a, "devin", <<<<"devin", Doc("devin", "own", FALSE)>>>>)

(* The one import that keeps the switch of the file it replaces, read      *)
(* under the lock it writes under.                                         *)
ExistingDisabled == "devin" \in Stored /\ file["devin"].off

DevinImportCli(a) == Begin(a, "devin", <<<<"devin", Doc("devin", "own", ExistingDisabled)>>>>)

---------------------------------------------------------------------------
(* Providers: the generic files with one provider id.                      *)
ProviderFiles(p) == {n \in Stored : file[n].provider = p}
Unused == {n \in KeyFile : n \notin Stored}

CreateProvider(a, p) ==
    /\ ProviderFiles(p) = {}
    /\ \E n \in Unused : Begin(a, "provider", <<<<n, Doc(p, n, FALSE)>>>>)

AddProviderKey(a, p) ==
    /\ ProviderFiles(p) # {}
    /\ \E n \in Unused, first \in ProviderFiles(p) :
           Begin(a, "provider", <<<<n, [Doc(p, n, FALSE) EXCEPT !.rev = file[first].rev]>>>>)

UpdateProvider(a, p) ==
    /\ ProviderFiles(p) # {}
    /\ Begin(a, "provider", [k \in 1 .. Cardinality(ProviderFiles(p)) |->
           LET n == SetToSeq(ProviderFiles(p))[k] IN <<n, [file[n] EXCEPT !.rev = calls + 1]>>])

DeleteProvider(a, p) ==
    /\ ProviderFiles(p) # {}
    /\ Begin(a, "provider", [k \in 1 .. Cardinality(ProviderFiles(p)) |-> <<SetToSeq(ProviderFiles(p))[k], NoDocument>>])

PatchProviderKey(a, p) ==
    \E n \in ProviderFiles(p), off \in BOOLEAN : Begin(a, "provider", <<<<n, [file[n] EXCEPT !.off = off]>>>>)

DeleteProviderKey(a, p) == \E n \in ProviderFiles(p) : Begin(a, "provider", <<<<n, NoDocument>>>>)

---------------------------------------------------------------------------
(* Importing files: names and identities must be new, on disk and among    *)
(* the files of the call.  (A document of its own provider name here.)     *)
CredentialIdentity(d) == <<d.provider, d.ident>>
ExistingIdentities == {CredentialIdentity(file[n]) : n \in Stored}

MutMayImport(pending) == \A k \in DOMAIN pending : CredentialIdentity(pending[k][2]) \notin ExistingIdentities

MayImport(pending) ==
    \A k \in DOMAIN pending :
        /\ pending[k][1] \notin Stored
        /\ CredentialIdentity(pending[k][2]) \notin ExistingIdentities
        /\ \A j \in 1 .. k - 1 :
               /\ pending[j][1] # pending[k][1]
               /\ CredentialIdentity(pending[j][2]) # CredentialIdentity(pending[k][2])

ImportAuthFiles(a) ==
    \E n1, n2 \in KeyFile, i1, i2 \in Identity :
        LET pending == <<<<n1, Doc("codex", i1, FALSE)>>, <<n2, Doc("codex", i2, FALSE)>>>>
        IN MayImport(pending) /\ Begin(a, "upload", pending)

---------------------------------------------------------------------------
(* The writes, the rescan and the answer.                                  *)
Answer(a, wrote) ==
    /\ call' = [call EXCEPT ![a] = NoCall]
    /\ lock' = IF lock = a THEN 0 ELSE lock
    /\ behind' = (behind \/ wrote)

(* persist_credential and remove_credential.                               *)
WriteNext(a) ==
    LET next == Head(call[a].todo) IN
    /\ call[a].step = "write" /\ call[a].todo # <<>>
    /\ file' = Put(file, next[1], next[2])
    /\ call' = [call EXCEPT ![a].todo = Tail(@), ![a].done = Append(@, next[1])]
    /\ UNCHANGED <<pooled, lock, gate, behind, calls>>

MutWriteFails(a) ==
    /\ call[a].step = "write" /\ call[a].todo # <<>>
    /\ call' = [call EXCEPT ![a].step = "undo", ![a].todo = <<>>, ![a].done = <<>>]
    /\ UNCHANGED <<file, pooled, lock, gate, behind, calls>>

(* An upload takes back what it wrote, and does not rescan although a      *)
(* rescan without the lock may have seen it; the other calls just answer.  *)
WriteFails(a) ==
    /\ call[a].step = "write" /\ call[a].todo # <<>>
    /\ IF call[a].op = "upload"
       THEN /\ call' = [call EXCEPT ![a].step = "undo", ![a].todo = <<>>]
            /\ UNCHANGED <<lock, behind>>
       ELSE Answer(a, call[a].done # <<>>)
    /\ UNCHANGED <<file, pooled, gate, calls>>

Undo(a) ==
    /\ call[a].step = "undo"
    /\ IF call[a].done = <<>>
       THEN Answer(a, TRUE) /\ UNCHANGED file
       ELSE /\ file' = Put(file, Head(call[a].done), NoDocument)
            /\ call' = [call EXCEPT ![a].done = Tail(@)]
            /\ UNCHANGED <<lock, behind>>
    /\ UNCHANGED <<pooled, gate, calls>>

UndoFails(a) ==
    /\ call[a].step = "undo" /\ call[a].done # <<>>
    /\ Answer(a, TRUE)
    /\ UNCHANGED <<file, pooled, gate, calls>>

(* After the last write: a monitor is not routed, and the Devin import     *)
(* leaves the lock before it rescans.                                      *)
Written(a) ==
    /\ call[a].step = "write" /\ call[a].todo = <<>>
    /\ IF call[a].op = "trae"
       THEN Answer(a, FALSE)
       ELSE /\ call' = [call EXCEPT ![a].step = "rescan"]
            /\ lock' = IF call[a].op = "devin" THEN 0 ELSE lock
            /\ UNCHANGED behind
    /\ UNCHANGED <<file, pooled, gate, calls>>

(* The order file is written, and the pool rescanned, without the lock.    *)
SaveAuthFileOrder(a) ==
    /\ call[a].step = "idle" /\ calls < MaxCall
    /\ calls' = calls + 1
    /\ call' = [call EXCEPT ![a] = [NoCall EXCEPT !.op = "order", !.step = "rescan"]]
    /\ UNCHANGED <<file, pooled, lock, gate, behind>>

MutEnterGate(a) == UNCHANGED gate

EnterGate(a) == gate = 0 /\ gate' = a

(* rescan_pool, to the load and from the load.                             *)
RescanLoad(a) ==
    /\ call[a].step = "rescan"
    /\ EnterGate(a)
    /\ call' = [call EXCEPT ![a].step = "publish", ![a].loaded = LoadAccountMembers]
    /\ behind' = FALSE
    /\ UNCHANGED <<file, pooled, lock, calls>>

RescanPublish(a) ==
    /\ call[a].step = "publish"
    /\ pooled' = call[a].loaded
    /\ gate' = 0
    /\ Answer(a, FALSE)
    /\ UNCHANGED <<file, calls>>

(* The directory cannot be listed, or the registry refuses the pool.  The  *)
(* client of a Devin import may also leave while the import is written.    *)
RescanFails(a) ==
    /\ call[a].step = "rescan"
    /\ Answer(a, call[a].done # <<>>)
    /\ UNCHANGED <<file, pooled, gate, calls>>

CredNext ==
    \E a \in Admin :
        \/ CreateAuthFile(a) \/ DeleteAuthFile(a) \/ PatchAuthFileStatus(a) \/ PatchAuthFileFields(a) \/ BulkAuthFiles(a)
        \/ VertexImport(a) \/ ClineImport(a) \/ CommandCodeImport(a) \/ TraeImport(a) \/ DevinImportCli(a) \/ ImportAuthFiles(a)
        \/ \E p \in Project : \/ CreateProvider(a, p) \/ AddProviderKey(a, p) \/ UpdateProvider(a, p)
                              \/ DeleteProvider(a, p) \/ PatchProviderKey(a, p) \/ DeleteProviderKey(a, p)
        \/ WriteNext(a) \/ WriteFails(a) \/ Undo(a) \/ UndoFails(a) \/ Written(a) \/ SaveAuthFileOrder(a)
        \/ RescanLoad(a) \/ RescanPublish(a) \/ RescanFails(a)

---------------------------------------------------------------------------
(* The state has its type, and only one call at a time writes.             *)
CredTypeOK ==
    /\ Stored \subseteq CredName /\ \A n \in Stored : file[n] \in Document
    /\ DOMAIN pooled \subseteq CredName /\ \A n \in DOMAIN pooled : pooled[n] \in Document
    /\ lock \in Admin \cup {0} /\ gate \in Admin \cup {0}
    /\ \A a \in Admin : call[a].step \in {"write", "undo"} => lock = a

(* When no call is under way, the pool is the one the files describe,      *)
(* unless a call failed between a write and the load.                      *)
PoolFollowsFiles ==
    (~behind /\ \A a \in Admin : call[a].step = "idle") => pooled = LoadAccountMembers

UploadsAddOnlyStep ==
    \A a \in Admin :
       (call[a].op = "upload" /\ call[a].step = "write" /\ file' # file) =>
           \E n \in DOMAIN file' \ Stored :
               /\ \A m \in Stored : file'[m] = file[m] /\ CredentialIdentity(file[m]) # CredentialIdentity(file'[n])

(* An upload never writes over a file nor adds a second file for an        *)
(* identity (the checks of import_auth_files hold until its writes).       *)
UploadsAddOnly == [][UploadsAddOnlyStep]_credVars

FailedUploadLeavesNothingStep ==
    \A a \in Admin :
       (call[a].op = "upload" /\ call[a].step \in {"write", "undo"} /\ call[a].done = <<>> /\ call'[a].op = "none")
           => file' = call[a].start

(* An upload that fails leaves the directory as it found it, unless a      *)
(* removal fails as well.                                                  *)
FailedUploadLeavesNothing == [][FailedUploadLeavesNothingStep]_credVars

DevinStaysOffStep ==
    \A a \in Admin :
       (call[a].op = "devin" /\ call[a].step = "write" /\ file' # file /\ "devin" \in Stored /\ file["devin"].off) => file'["devin"].off

(* A Devin import never switches a disabled account back on.               *)
DevinStaysOff == [][DevinStaysOffStep]_credVars
=============================================================================
