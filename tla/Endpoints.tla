---- MODULE Endpoints ----
(***************************************************************************)
(* Endpoints with sessions of their own, each a part that shares no state  *)
(* with the others: native WebSocket sessions                              *)
(* (crates/gateway/src/wsrelay.rs), realtime calls (cp_routes.rs,          *)
(* realtime.rs, realtime/media.rs), videos, speech and image edits         *)
(* (media.rs), and Gemini interactions (interactions.rs, send_interactions *)
(* of relay.rs).                                                           *)
(***************************************************************************)
EXTENDS Naturals, Sequences, FiniteSets, Relation

(***************************************************************************)
(* WebSocket sessions. A session is admitted, bound to one account and     *)
(* dialled; then two pumps run side by side until either ends or the       *)
(* process is asked to stop, and the session's open turns are settled. A   *)
(* turn is its place in the session. One key, scoped or not, pays for the  *)
(* turns; each costs one.                                                  *)
(***************************************************************************)

CONSTANTS Socket,        \* client connections
          WsAccount,     \* accounts whose provider speaks WebSocket
          WsModel,       \* models
          Narrow,        \* accounts that serve the model Common only
          Common,
          Gate,          \* permits of the inference gate
          TokenLimit,    \* of the scoped key
          MaxTurn        \* bound: turns of a session

VARIABLES benched,  \* accounts that are not available
          scoped,   \* whether the key is a scoped one
          key,      \* the live counter of the key: its tokens, or gone
          saves,    \* writes of the counter to the settings that are under way: session and turn
          socket,   \* each session
          asked     \* the operator asked the process to stop

wsVars == <<benched, scoped, key, saves, socket, asked>>

Turn == 1..MaxTurn

\* routable_accounts_for_model, in the pool the session was admitted with.
Serves(a, m) == a \notin Narrow \/ m = Common

Away == [phase |-> "away", account |-> "none", model |-> "none", sent |-> 0, begun |-> {}, open |-> {},
         recording |-> 0, recorded |-> [t \in Turn |-> 0], charged |-> [t \in Turn |-> 0]]

WsInit ==
    /\ benched = {} /\ scoped \in BOOLEAN
    /\ key = [used |-> 0, live |-> scoped] /\ saves = {}
    /\ socket = [s \in Socket |-> Away] /\ asked = FALSE

Holding(s) == socket[s].phase \in {"dial", "open", "settle"}

Exhausted == key.live /\ key.used >= TokenLimit

(***************************************************************************)
(* upgrade: a permit, the key's scope, and one account that serves the     *)
(* named model, is available and is selected by the router.                *)
(***************************************************************************)
candidates(m) == {a \in WsAccount : a \notin benched /\ (m = "none" \/ Serves(a, m))}

Upgrade(s) ==
    /\ socket[s].phase = "away"
    /\ Cardinality({x \in Socket : Holding(x)}) < Gate
    /\ ~Exhausted
    /\ \E m \in WsModel \cup {"none"} :
          /\ scoped => m # "none"
          /\ \E a \in candidates(m) :
                socket' = [socket EXCEPT ![s] = [Away EXCEPT !.phase = "dial", !.account = a, !.model = m]]
    /\ UNCHANGED <<benched, scoped, key, saves, asked>>

\* The upstream answers the dial with 101 and a valid handshake, or the
\* client is told why not and the permit is returned.
DialEnds(s) ==
    /\ socket[s].phase = "dial"
    /\ \E p \in {"open", "away"} : socket' = [socket EXCEPT ![s] = IF p = "open" THEN [@ EXCEPT !.phase = p] ELSE Away]
    /\ UNCHANGED <<benched, scoped, key, saves, asked>>

\* One pump has ended: the other is dropped where it is, and a turn it was
\* recording is charged but not recorded.
Ended(x) == [x EXCEPT !.phase = "settle", !.recording = 0]

(***************************************************************************)
(* The client's pump.                                                      *)
(***************************************************************************)

\* prepare_create: the key still has tokens, and the session's account
\* serves the model the turn or the session names; a refusal ends the session.
prepare_create(s) ==
    /\ socket[s].phase = "open" /\ socket[s].sent < MaxTurn
    /\ \E m \in WsModel \cup {socket[s].model} :
          socket' = [socket EXCEPT ![s] =
              IF m # "none" /\ ~Exhausted /\ Serves(@.account, m) THEN [@ EXCEPT !.sent = @ + 1] ELSE Ended(@)]
    /\ UNCHANGED <<benched, scoped, key, saves, asked>>

\* The client closes, breaks, sends no JSON, is silent for LIVENESS, or the
\* upstream takes no frame for as long.
ClientPumpEnds(s) ==
    /\ socket[s].phase = "open"
    /\ socket' = [socket EXCEPT ![s] = Ended(@)]
    /\ UNCHANGED <<benched, scoped, key, saves, asked>>

(***************************************************************************)
(* The upstream's pump: it notes turns that begin and records those that   *)
(* end.  It reads no further while a turn is being recorded.               *)
(***************************************************************************)
\* Mutant: the pump reads on while a turn is being recorded.
MutReading(s) == socket[s].phase = "open"

Reading(s) == socket[s].phase = "open" /\ socket[s].recording = 0

ResponseCreated(s) ==
    /\ Reading(s)
    /\ \E t \in 1..socket[s].sent \ socket[s].begun :
          socket' = [socket EXCEPT ![s].open = @ \cup {t}, ![s].begun = @ \cup {t}]
    /\ UNCHANGED <<benched, scoped, key, saves, asked>>

\* Mutant: the turn is left among the open ones.
MutTakeTurn(x, t) == x

TakeTurn(x, t) == [x EXCEPT !.open = @ \ {t}]

\* record_turn charges the key and waits for the settings to be written; for
\* a key that is not scoped, or gone, it goes on at once.
record_turn(s, t, tokens) ==
    /\ t \in socket[s].open
    /\ IF key.live
       THEN /\ key' = [key EXCEPT !.used = @ + tokens]
            /\ saves' = saves \cup {<<s, t>>}
            /\ socket' = [socket EXCEPT ![s] =
                             [TakeTurn(@, t) EXCEPT !.charged[t] = @ + tokens, !.recording = t]]
       ELSE /\ socket' = [socket EXCEPT ![s] = [TakeTurn(@, t) EXCEPT !.recorded[t] = @ + 1]]
            /\ UNCHANGED <<key, saves>>
    /\ UNCHANGED <<benched, scoped, asked>>

\* response.completed, failed, cancelled or incomplete.
ResponseEnds(s, t) == Reading(s) /\ record_turn(s, t, 1)

\* The blocking task writes the counter it was given, or fails; what the
\* settings then say is the subject of StreamOutcomes.
SaveEnds(w) ==
    /\ saves' = saves \ {w}
    /\ UNCHANGED <<benched, scoped, key, socket, asked>>

\* After the write the turn goes to the history and the dashboard.
Recorded(s) ==
    /\ socket[s].recording # 0
    /\ <<s, socket[s].recording>> \notin saves
    /\ socket' = [socket EXCEPT ![s].recorded[socket[s].recording] = @ + 1, ![s].recording = 0]
    /\ UNCHANGED <<benched, scoped, key, saves, asked>>

\* The upstream closes, breaks or is silent, or the client takes no frame.
UpstreamPumpEnds(s) ==
    /\ Reading(s)
    /\ socket' = [socket EXCEPT ![s] = Ended(@)]
    /\ UNCHANGED <<benched, scoped, key, saves, asked>>

(***************************************************************************)
(* The end of a session: turns that were open are recorded as failed,      *)
(* without tokens, one after the other; then both peers are sent the close *)
(* frame and the permit is returned.                                       *)
(***************************************************************************)
SettleOpen(s, t) ==
    /\ socket[s].phase = "settle" /\ socket[s].recording = 0
    /\ record_turn(s, t, 0)

Closed(s) ==
    /\ socket[s].phase = "settle" /\ socket[s].recording = 0 /\ socket[s].open = {}
    /\ socket' = [socket EXCEPT ![s].phase = "closed"]
    /\ UNCHANGED <<benched, scoped, key, saves, asked>>

(***************************************************************************)
(* Everybody else.                                                         *)
(***************************************************************************)
Bench(a) ==
    /\ benched' = IF a \in benched THEN benched \ {a} ELSE benched \cup {a}
    /\ UNCHANGED <<scoped, key, saves, socket, asked>>

\* The key is deleted; sessions hold on to the identity they came with.
DeleteKey ==
    /\ key.live
    /\ key' = [key EXCEPT !.live = FALSE]
    /\ UNCHANGED <<benched, scoped, saves, socket, asked>>

\* shutdown.notify_waiters reaches the sessions that wait at this moment.
Shutdown ==
    /\ ~asked /\ asked' = TRUE
    /\ socket' = [s \in Socket |-> IF socket[s].phase = "open" THEN Ended(socket[s]) ELSE socket[s]]
    /\ UNCHANGED <<benched, scoped, key, saves>>

WsNext ==
    \/ \E s \in Socket :
          \/ Upgrade(s) \/ DialEnds(s) \/ prepare_create(s) \/ ClientPumpEnds(s) \/ Recorded(s)
          \/ UpstreamPumpEnds(s) \/ ResponseCreated(s) \/ Closed(s)
          \/ \E t \in Turn : ResponseEnds(s, t) \/ SettleOpen(s, t)
    \/ \E w \in saves : SaveEnds(w)
    \/ \E a \in WsAccount : Bench(a)
    \/ DeleteKey \/ Shutdown

WsSpec == WsInit /\ [][WsNext]_wsVars

(***************************************************************************)
(* Properties.                                                             *)
(***************************************************************************)

\* Whichever side ends a session, and whatever its pumps were doing, each
\* turn the upstream began is recorded once, or was at least charged to its
\* key when the recording was cut off; none is recorded or charged twice,
\* and the key's counter is what its turns were charged (relay, record_turn).
TurnsAreSettled ==
    /\ \A s \in Socket, t \in Turn :
          /\ socket[s].recorded[t] <= 1 /\ socket[s].charged[t] <= 1
          /\ socket[s].phase = "closed" /\ t \in socket[s].begun =>
                socket[s].recorded[t] = 1 \/ socket[s].charged[t] = 1
    /\ key.used = Cardinality({p \in Socket \X Turn : socket[p[1]].charged[p[2]] = 1})

TurnsAreRecordedStep ==
    \A s \in Socket : LET t == socket[s].recording IN
        t # 0 /\ socket'[s].recording # t /\ socket'[s].phase = socket[s].phase => socket'[s].recorded[t] = 1
\* While a session lasts, a turn whose recording began is recorded before the
\* next one: only the end of the session can cut it off (upstream_to_client).
TurnsAreRecorded == [][TurnsAreRecordedStep]_wsVars

-----------------------------------------------------------------------------
(***************************************************************************)
(* Realtime calls. A call is its number, which is also its relay.          *)
(***************************************************************************)

CONSTANTS RtTask,         \* requests: offers, hangups, sidebands
          RtKey,          \* keys of the callers
          RtMember,       \* accounts that can carry a call
          MAX_SECRETS, MAX_SECRETS_PER_ISSUER,
          SecretTtl,      \* lifetime of a secret
          MaxRtNow,       \* bound: ticks
          MaxMint,        \* bound: secrets
          MaxCalls        \* bound: calls

VARIABLES openGate,  \* no master key is configured: everybody is admitted
          rtNow,     \* the store's clock
          minted,    \* secrets there have been; a secret is its place
          secrets,   \* places of those in the store
          calls,     \* calls there have been: owner, account, secret
          listed,    \* numbers in the map of calls
          relay,     \* of each call: none, open, failed or closed, and state callbacks to come
          task       \* each request

rtVars == <<openGate, rtNow, minted, secrets, calls, listed, relay, task>>

NoKey == "nokey"
NoMember == "nomember"
Call == 1..MaxCalls
Resting == [phase |-> "rest", call |-> 0, key |-> NoKey, locks |-> FALSE, woken |-> FALSE, late |-> FALSE]

RtInit ==
    /\ openGate \in BOOLEAN /\ rtNow = 0 /\ minted = <<>> /\ secrets = {} /\ calls = <<>> /\ listed = {}
    /\ relay = [c \in Call |-> [state |-> "none", echoes |-> 0]]
    /\ task = [x \in RtTask |-> Resting]

\* require_api_key without a secret: the identifier of the presented key.
Presented == RtKey \cup (IF openGate THEN {NoKey} ELSE {})

IssuerOf(k) == IF k = NoKey THEN "unrestricted" ELSE k

(***************************************************************************)
(* RealtimeStore.                                                          *)
(***************************************************************************)
retained == {s \in secrets : minted[s].dies > rtNow}

\* The secrets of all issuers and of this one are capped; refused, nothing
\* but the expired ones changes.
MutMint(k, m) ==
    /\ Len(minted) < MaxMint
    /\ \/ /\ Cardinality(retained) < MAX_SECRETS
          /\ minted' = Append(minted, [issuer |-> IssuerOf(k), member |-> m, dies |-> rtNow + SecretTtl])
          /\ secrets' = retained \cup {Len(minted) + 1}
       \/ Cardinality(retained) >= MAX_SECRETS /\ secrets' = retained /\ UNCHANGED minted
    /\ UNCHANGED <<openGate, rtNow, calls, listed, relay, task>>

mint(k, m) ==
    LET own == {s \in retained : minted[s].issuer = IssuerOf(k)}
        full == Cardinality(retained) >= MAX_SECRETS \/ Cardinality(own) >= MAX_SECRETS_PER_ISSUER
    IN /\ Len(minted) < MaxMint
       /\ \/ /\ ~full
             /\ minted' = Append(minted, [issuer |-> IssuerOf(k), member |-> m, dies |-> rtNow + SecretTtl])
             /\ secrets' = retained \cup {Len(minted) + 1}
          \/ full /\ secrets' = retained /\ UNCHANGED minted
       /\ UNCHANGED <<openGate, rtNow, calls, listed, relay, task>>

\* select_realtime_member: any account that can carry the call, or the one
\* the secret names.
MutSelectMember(pinned) == RtMember

select_realtime_member(pinned) == IF pinned = NoMember THEN RtMember ELSE {pinned}

\* realtime_client_secrets, realtime_sessions.
ClientSecret(k) == \E m \in select_realtime_member(NoMember) : mint(k, m)

RtTick == rtNow < MaxRtNow /\ rtNow' = rtNow + 1 /\ UNCHANGED <<openGate, minted, secrets, calls, listed, relay, task>>

(***************************************************************************)
(* MediaRelay.  Every send on the watch channel wakes those that have      *)
(* subscribed; closing the two peers sends again from their callbacks.     *)
(***************************************************************************)
MutSend(tasks, c) == tasks

Send(tasks, c) == [x \in RtTask |-> IF tasks[x].phase = "forward" /\ tasks[x].call = c
                                    THEN [tasks[x] EXCEPT !.woken = TRUE] ELSE tasks[x]]

Flagged(c) == relay[c].state \in {"failed", "closed"}

\* close, with the task that calls it leaving its phase for another.
Closes(c, tasks) ==
    /\ relay' = [relay EXCEPT ![c] = [state |-> "closed", echoes |-> IF @.state = "closed" THEN @.echoes ELSE 2]]
    /\ task' = Send(tasks, c)

PeerCloses(c) ==
    /\ relay[c].echoes > 0 /\ relay' = [relay EXCEPT ![c].echoes = @ - 1] /\ task' = Send(task, c)
    /\ UNCHANGED <<openGate, rtNow, minted, secrets, calls, listed>>

\* A peer connection fails, or a message is too large or does not fit in the
\* queue: only the flag is set.
MediaFails(c) ==
    /\ relay[c].state = "open" /\ relay' = [relay EXCEPT ![c].state = "failed"] /\ task' = Send(task, c)
    /\ UNCHANGED <<openGate, rtNow, minted, secrets, calls, listed>>

(***************************************************************************)
(* The locks: the map's, whose waiting writers go before new readers, and  *)
(* the one of each call.                                                   *)
(***************************************************************************)
Readable == \A y \in RtTask : task[y].phase \notin {"insert", "remove"}
Writable == \A y \in RtTask : task[y].phase # "owned"
LockFree(c) == \A y \in RtTask : ~(task[y].locks /\ task[y].call = c)

(***************************************************************************)
(* realtime_offer.                                                         *)
(***************************************************************************)

\* require_api_key: who presents a secret acts for its issuer; on an open
\* gateway everybody is admitted first, and under the secret's own value.
Bearer(s) == IF openGate THEN "bearer" ELSE minted[s].issuer

\* A secret opens calls for its issuer only, on the account it was minted for.
Opens(k, s, m) ==
    \/ s = 0 /\ k \in Presented /\ m \in select_realtime_member(NoMember)
    \/ s \in retained /\ k = Bearer(s) /\ k = minted[s].issuer /\ m \in select_realtime_member(minted[s].member)

\* MediaRelay::offer: two peers, tracks and the event channel, or closed.
MediaOffer(c, state) == relay' = [relay EXCEPT ![c].state = state]

Offer(x, k, s, m) ==
    /\ task[x].phase = "rest" /\ Len(calls) < MaxCalls /\ Opens(k, s, m)
    /\ LET c == Len(calls) + 1 IN
       /\ calls' = Append(calls, [owner |-> IssuerOf(k), member |-> m, secret |-> s])
       /\ \/ MediaOffer(c, "open")
             /\ task' = [task EXCEPT ![x] = [Resting EXCEPT !.phase = "upstream", !.call = c, !.key = k]]
          \/ MediaOffer(c, "closed") /\ UNCHANGED task
    /\ secrets' = IF s = 0 THEN secrets ELSE retained
    /\ UNCHANGED <<openGate, rtNow, minted, listed>>

\* An upstream error, a missing Location or an answer that does not fit.
OfferFails(x) ==
    /\ task[x].phase = "upstream"
    /\ Closes(task[x].call, [task EXCEPT ![x] = Resting])
    /\ UNCHANGED <<openGate, rtNow, minted, secrets, calls, listed>>

\* The client leaves: the handler is dropped, and with it the relay.
MutOfferDropped(x) ==
    /\ task[x].phase \in {"upstream", "insert"}
    /\ task' = [task EXCEPT ![x] = Resting]
    /\ UNCHANGED <<openGate, rtNow, minted, secrets, calls, listed, relay>>

OfferDropped(x) ==
    /\ task[x].phase \in {"upstream", "insert"}
    /\ Closes(task[x].call, [task EXCEPT ![x] = Resting])
    /\ UNCHANGED <<openGate, rtNow, minted, secrets, calls, listed>>

OfferAnswered(x) ==
    /\ task[x].phase = "upstream" /\ task' = [task EXCEPT ![x].phase = "insert"]
    /\ UNCHANGED <<openGate, rtNow, minted, secrets, calls, listed, relay>>

Insert(x) ==
    /\ task[x].phase = "insert" /\ Writable
    /\ listed' = listed \cup {task[x].call} /\ task' = [task EXCEPT ![x] = Resting]
    /\ UNCHANGED <<openGate, rtNow, minted, secrets, calls, relay>>

(***************************************************************************)
(* realtime_hangup: the call's lock is held while the upstream is asked,   *)
(* and given back before the map is written.                               *)
(***************************************************************************)
IsOwner(k, c) == calls[c].owner = k

Hangup(x, k, c) ==
    /\ task[x].phase = "rest" /\ k \in Presented /\ c \in listed /\ Readable
    /\ task' = [task EXCEPT ![x] = [Resting EXCEPT !.phase = "lock", !.call = c, !.key = k]]
    /\ UNCHANGED <<openGate, rtNow, minted, secrets, calls, listed, relay>>

HangupLocks(x) ==
    /\ task[x].phase = "lock" /\ LockFree(task[x].call)
    /\ task' = [task EXCEPT ![x] = IF IsOwner(@.key, @.call) THEN [@ EXCEPT !.phase = "post", !.locks = TRUE] ELSE Resting]
    /\ UNCHANGED <<openGate, rtNow, minted, secrets, calls, listed, relay>>

HangupRefused(x) ==
    /\ task[x].phase = "post" /\ task' = [task EXCEPT ![x] = Resting]
    /\ UNCHANGED <<openGate, rtNow, minted, secrets, calls, listed, relay>>

MutHangupConfirmed(x) ==
    /\ task[x].phase = "post"
    /\ Closes(task[x].call, [task EXCEPT ![x].phase = "remove"])
    /\ UNCHANGED <<openGate, rtNow, minted, secrets, calls, listed>>

HangupConfirmed(x) ==
    /\ task[x].phase = "post"
    /\ Closes(task[x].call, [task EXCEPT ![x].phase = "remove", ![x].locks = FALSE])
    /\ UNCHANGED <<openGate, rtNow, minted, secrets, calls, listed>>

Remove(x) ==
    /\ task[x].phase = "remove" /\ Writable
    /\ listed' = listed \ {task[x].call} /\ task' = [task EXCEPT ![x] = Resting]
    /\ UNCHANGED <<openGate, rtNow, minted, secrets, calls, relay>>

\* The client leaves: what its handler held is released.
Leaves(x) ==
    /\ task[x].phase \in {"lock", "post", "remove", "owned"} /\ task' = [task EXCEPT ![x] = Resting]
    /\ UNCHANGED <<openGate, rtNow, minted, secrets, calls, listed, relay>>

(***************************************************************************)
(* realtime_call_get_owned, live_sideband: the map stays locked until the  *)
(* call's owner is known.  sideband_upgrade runs after the answer.         *)
(***************************************************************************)
Sideband(x, k, c) ==
    /\ task[x].phase = "rest" /\ k \in Presented /\ c \in listed /\ Readable
    /\ task' = [task EXCEPT ![x] = [Resting EXCEPT !.phase = "owned", !.call = c, !.key = k]]
    /\ UNCHANGED <<openGate, rtNow, minted, secrets, calls, listed, relay>>

SidebandOwned(x) ==
    /\ task[x].phase = "owned" /\ LockFree(task[x].call)
    /\ task' = [task EXCEPT ![x] = IF IsOwner(@.key, @.call) THEN [@ EXCEPT !.phase = "upgraded"] ELSE Resting]
    /\ UNCHANGED <<openGate, rtNow, minted, secrets, calls, listed, relay>>

SidebandReads(x) ==
    /\ task[x].phase = "upgraded" /\ LockFree(task[x].call) /\ task' = [task EXCEPT ![x].phase = "dial"]
    /\ UNCHANGED <<openGate, rtNow, minted, secrets, calls, listed, relay>>

\* The subscription begins when the upstream has answered: what was sent
\* before counts as seen.
SidebandDials(x) ==
    /\ task[x].phase = "dial"
    /\ task' = [task EXCEPT ![x].phase = "forward", ![x].late = Flagged(task[x].call)]
    /\ UNCHANGED <<openGate, rtNow, minted, secrets, calls, listed, relay>>

\* The upstream cannot be reached, the flag woke the loop, or a side ended:
\* in each case the relay is closed.
SidebandEnds(x) ==
    /\ task[x].phase \in {"dial", "forward"}
    /\ Closes(task[x].call, [task EXCEPT ![x] = Resting])
    /\ UNCHANGED <<openGate, rtNow, minted, secrets, calls, listed>>

RtNext ==
    \/ RtTick
    \/ \E k \in Presented : ClientSecret(k)
    \/ \E c \in Call : PeerCloses(c) \/ MediaFails(c)
    \/ \E x \in RtTask :
          \/ \E k \in Presented, s \in secrets \cup {0}, m \in RtMember : Offer(x, k, s, m)
          \/ OfferFails(x) \/ OfferDropped(x) \/ OfferAnswered(x) \/ Insert(x)
          \/ \E k \in Presented, c \in listed : Hangup(x, k, c) \/ Sideband(x, k, c)
          \/ HangupLocks(x) \/ HangupRefused(x) \/ HangupConfirmed(x) \/ Remove(x) \/ Leaves(x)
          \/ SidebandOwned(x) \/ SidebandReads(x) \/ SidebandDials(x) \/ SidebandEnds(x)

RtSpec == RtInit /\ [][RtNext]_rtVars

(***************************************************************************)
(* Properties.                                                             *)
(***************************************************************************)

\* However an offer, a hangup or a sideband fails or is dropped half-way, a
\* relay that is not closed belongs to an offer under way or to a call that
\* can still be hung up (realtime_offer, realtime_hangup).
RelayIsOwned ==
    \A c \in Call : relay[c].state \in {"open", "failed"} =>
        c \in listed \/ \E x \in RtTask : task[x].call = c /\ task[x].phase \in {"upstream", "insert"}

\* x waits for a lock that y holds.
WaitsFor(x, y) ==
    \/ task[x].phase \in {"lock", "owned", "upgraded"} /\ task[y].locks /\ task[y].call = task[x].call
    \/ task[x].phase \in {"insert", "remove"} /\ task[y].phase = "owned"

\* The map of calls is locked while a call's lock is awaited, and a call's
\* lock while the upstream is; still no requests wait for each other in a
\* circle (realtime_hangup, realtime_call_get_owned).
NobodyWaitsInACircle ==
    IsIrreflexive(TransitiveClosure([p \in RtTask \X RtTask |-> WaitsFor(p[1], p[2])], RtTask), RtTask)

\* A sideband that forwarded when its call was hung up, or its media failed,
\* has been told (sideband_upgrade).
ForwardingIsTold ==
    \A x \in RtTask : task[x].phase = "forward" /\ Flagged(task[x].call) /\ ~task[x].late => task[x].woken

\* An issuer and all issuers together never have more live secrets than the
\* caps, and a call opened with a secret is its issuer's, on the account the
\* secret was minted for (RealtimeStore, realtime_offer).
SecretsAreScoped ==
    /\ Cardinality(retained) <= MAX_SECRETS
    /\ \A s \in retained :
          Cardinality({t \in retained : minted[t].issuer = minted[s].issuer}) <= MAX_SECRETS_PER_ISSUER
    /\ \A c \in DOMAIN calls : calls[c].secret # 0 =>
          /\ calls[c].owner = minted[calls[c].secret].issuer
          /\ calls[c].member = minted[calls[c].secret].member

-----------------------------------------------------------------------------
(***************************************************************************)
(* Videos, speech and image edits.                                         *)
(***************************************************************************)

CONSTANTS MediaTask,     \* requests
          MediaKey,      \* keys of the callers; NoCaller is a request without one
          MediaAccount,
          Offering,        \* what a pool may say of an account: provider and upstream model
          VideoTtl,      \* VIDEO_BINDING_TTL
          MaxMediaNow,   \* bound: ticks
          MaxVideo,      \* bound: videos
          MaxUpload      \* bound: spooled uploads

VARIABLES mpool,     \* what the pool says of each account, or Absent
          mnow,
          made,      \* videos there have been, with the caller and the account that made them
          bound,     \* numbers of the videos that are bound, with the binding's end
          spooled,   \* uploads there have been, and what became of their file
          active,    \* requests in flight of each account
          media      \* each request

mediaVars == <<mpool, mnow, made, bound, spooled, active, media>>

Absent == "absent"
NoCaller == "nokey"
NoRequest == [phase |-> "rest", key |-> NoCaller, account |-> Absent, serves |-> Absent, video |-> 0, upload |-> 0]

MediaInit ==
    /\ mpool \in [MediaAccount -> Offering] /\ mnow = 0 /\ made = <<>> /\ bound = [v \in {} |-> 0] /\ spooled = <<>>
    /\ active = [a \in MediaAccount |-> 0] /\ media = [x \in MediaTask |-> NoRequest]

MediaCaller == MediaKey \cup {NoCaller}

\* The pool is replaced: an account goes, comes back or serves another model.
PoolChanges(a) ==
    /\ mpool' = [b \in MediaAccount |-> IF b = a THEN Absent ELSE mpool[b]] \/ \E o \in Offering : mpool' = [mpool EXCEPT ![a] = o]
    /\ mpool' # mpool /\ UNCHANGED <<mnow, made, bound, spooled, active, media>>

MediaTick == mnow < MaxMediaNow /\ mnow' = mnow + 1 /\ UNCHANGED <<mpool, made, bound, spooled, active, media>>

\* select_member: the pool has it, and health, scheduler and scope admit it.
select_member(a) == mpool[a] # Absent

\* begin_activity is held from before the call until the answer was read, or
\* until the stream of the answer ends.
Starts(x, r) == media' = [media EXCEPT ![x] = r] /\ active' = [active EXCEPT ![r.account] = @ + 1]

Settles(x) == media' = [media EXCEPT ![x] = NoRequest] /\ active' = [active EXCEPT ![media[x].account] = @ - 1]

(***************************************************************************)
(* videos: any account that serves the model; the answer binds its video.  *)
(***************************************************************************)
videos(x, k, a) ==
    /\ media[x].phase = "rest" /\ select_member(a) /\ Len(made) < MaxVideo
    /\ Starts(x, [NoRequest EXCEPT !.phase = "create", !.key = k, !.account = a, !.serves = mpool[a]])
    /\ UNCHANGED <<mpool, mnow, made, bound, spooled>>

liveBound == {v \in DOMAIN bound : bound[v] > mnow}

bind_video(x) ==
    /\ media[x].phase = "create" /\ Len(made) < MaxVideo
    /\ LET v == Len(made) + 1 IN
       /\ made' = Append(made, [key |-> media[x].key, account |-> media[x].account, serves |-> media[x].serves])
       /\ bound' = [w \in liveBound \cup {v} |-> IF w = v THEN mnow + VideoTtl ELSE bound[w]]
    /\ Settles(x) /\ UNCHANGED <<mpool, mnow, spooled>>

\* select_bound_video: the account that made it, if it is still offered as
\* the same provider with the same model.
MutSelected(v) == mpool[made[v].account] # Absent

Selected(v) == mpool[made[v].account] = made[v].serves

\* A video that is bound to nobody is anybody's.
Asks(x, k, v, phase) ==
    /\ media[x].phase = "rest" /\ v \in liveBound /\ made[v].key \in {NoCaller, k} /\ Selected(v)
    /\ Starts(x, [NoRequest EXCEPT !.phase = phase, !.key = k, !.account = made[v].account,
                               !.serves = mpool[made[v].account], !.video = v])
    /\ UNCHANGED <<mpool, mnow, made, bound, spooled>>

videos_by_id(x, k, v) == Asks(x, k, v, "poll")

openai_videos(x, k, v) == Asks(x, k, v, "head")

\* bound_video: what has expired is removed when it is asked for.
Forgets(v) ==
    /\ v \in DOMAIN bound \ liveBound /\ bound' = [w \in DOMAIN bound \ {v} |-> bound[w]]
    /\ UNCHANGED <<mpool, mnow, made, spooled, active, media>>

(***************************************************************************)
(* relay: speech and image edits; also the content of a video.             *)
(***************************************************************************)
speech(x, a) ==
    /\ media[x].phase = "rest" /\ select_member(a)
    /\ Starts(x, [NoRequest EXCEPT !.phase = "head", !.account = a, !.serves = mpool[a]])
    /\ UNCHANGED <<mpool, mnow, made, bound, spooled>>

\* Upload is dropped: a task of its own removes the file, if there is one.
MutDropUpload(u) == UNCHANGED spooled

DropUpload(u) == spooled' = IF u = 0 THEN spooled ELSE [spooled EXCEPT ![u].held = FALSE]

\* The answer has come: its body is streamed, and the upload is dropped.
HeadArrives(x) ==
    /\ media[x].phase = "head" /\ media' = [media EXCEPT ![x].phase = "stream", ![x].upload = 0]
    /\ DropUpload(media[x].upload) /\ UNCHANGED <<mpool, mnow, made, bound, active>>

\* An answer was read or its stream ended, the upstream failed or the client
\* left: the activity and the upload go with the request.
MutRequestEnds(x) ==
    /\ media[x].phase \in {"create", "poll", "head", "stream"}
    /\ IF media[x].phase = "stream" THEN media' = [media EXCEPT ![x] = NoRequest] /\ UNCHANGED active ELSE Settles(x)
    /\ DropUpload(media[x].upload) /\ UNCHANGED <<mpool, mnow, made, bound>>

RequestEnds(x) ==
    /\ media[x].phase \in {"create", "poll", "head", "stream"}
    /\ Settles(x) /\ DropUpload(media[x].upload) /\ UNCHANGED <<mpool, mnow, made, bound>>

(***************************************************************************)
(* image_edits with a multipart body: spooled to a file, read once for its *)
(* model and again as the body that is sent.                               *)
(***************************************************************************)
spool(x) ==
    /\ media[x].phase = "rest" /\ Len(spooled) < MaxUpload
    /\ spooled' = Append(spooled, [held |-> TRUE, file |-> TRUE])
    /\ media' = [media EXCEPT ![x] = [NoRequest EXCEPT !.phase = "spool", !.upload = Len(spooled) + 1]]
    /\ UNCHANGED <<mpool, mnow, made, bound, active>>

\* The body breaks, is too large, has no model or no image, or no account
\* serves the model; or the client leaves.
UploadFails(x) ==
    /\ media[x].phase = "spool" /\ DropUpload(media[x].upload) /\ media' = [media EXCEPT ![x] = NoRequest]
    /\ UNCHANGED <<mpool, mnow, made, bound, active>>

image_edits(x, a) ==
    /\ media[x].phase = "spool" /\ select_member(a)
    /\ Starts(x, [media[x] EXCEPT !.phase = "head", !.account = a, !.serves = mpool[a]])
    /\ UNCHANGED <<mpool, mnow, made, bound, spooled>>

\* Drop for Upload.
RemoveFile(u) ==
    /\ ~spooled[u].held /\ spooled[u].file /\ spooled' = [spooled EXCEPT ![u].file = FALSE]
    /\ UNCHANGED <<mpool, mnow, made, bound, active, media>>

MediaNext ==
    \/ MediaTick
    \/ \E a \in MediaAccount : PoolChanges(a)
    \/ \E v \in DOMAIN bound : Forgets(v)
    \/ \E u \in DOMAIN spooled : RemoveFile(u)
    \/ \E x \in MediaTask :
          \/ \E k \in MediaCaller, a \in MediaAccount : videos(x, k, a)
          \/ \E k \in MediaCaller, v \in DOMAIN bound : videos_by_id(x, k, v) \/ openai_videos(x, k, v)
          \/ \E a \in MediaAccount : speech(x, a) \/ image_edits(x, a)
          \/ spool(x) \/ bind_video(x) \/ HeadArrives(x) \/ RequestEnds(x) \/ UploadFails(x)

MediaSpec == MediaInit /\ [][MediaNext]_mediaVars

(***************************************************************************)
(* Properties.                                                             *)
(***************************************************************************)

\* A video is asked for only on the account that made it, while that account
\* is still what it was then, and by the caller who ordered it or for a
\* video ordered without a key (select_bound_video, videos_by_id).
VideoStaysWithItsMaker ==
    \A x \in MediaTask : LET r == media[x] IN
        r.video # 0 =>
            /\ r.account = made[r.video].account /\ r.serves = made[r.video].serves
            /\ made[r.video].key \in {NoCaller, r.key}

\* However a request ends, its account counts it no longer; and a spooled
\* file is removed unless a request still sends or reads it (relay, Upload).
MediaIsReleased ==
    /\ \A a \in MediaAccount : active[a] =
          Cardinality({x \in MediaTask : media[x].phase # "spool" /\ media[x].account = a})
    /\ \A u \in DOMAIN spooled : spooled[u].held = (\E x \in MediaTask : media[x].upload = u)
    /\ \A x \in MediaTask : media[x].upload # 0 => spooled[media[x].upload].file

-----------------------------------------------------------------------------
(***************************************************************************)
(* Gemini interactions. An interaction is its number, given by the         *)
(* upstream and never twice; a digest is what was digested.                *)
(***************************************************************************)

CONSTANTS TalkTask,      \* requests
          Talker,        \* keys of the callers
          TalkAccount,   \* accounts the router may choose
          NativeAccount, \* those that speak the protocol; the others are translated
          Session,       \* values of x-session-id
          Prefix,        \* inputs up to the last one of the user, without that header
          CallId,        \* ids of function calls
          Capacity,      \* CAPACITY of the store
          TalkTtl,
          TalkRetries,   \* account_retry_limit
          MaxTalkNow,    \* bound: ticks
          MaxToken,      \* bound: tokens of an account
          MaxTalk        \* bound: interactions

VARIABLES talkNow,
          token,    \* of each account
          store,    \* continuations, each under its key
          said,     \* interactions there have been: who, with what, from which, answering what
          told,     \* interactions whose client was told that they are complete, and when they end
          talk      \* each request

talkVars == <<talkNow, token, store, said, told, talk>>

Silent == [phase |-> "rest", id |-> 0, ns |-> <<>>, owner |-> <<>>, history |-> {}, attempt |-> 0,
           refreshed |-> FALSE, posts |-> 0, used |-> 0, calls |-> <<>>, finished |-> FALSE]

TalkInit ==
    /\ talkNow = 0 /\ token = [a \in TalkAccount |-> 1] /\ store = {} /\ said = <<>> /\ told = {}
    /\ talk = [x \in TalkTask |-> Silent]

TalkTick == talkNow < MaxTalkNow /\ talkNow' = talkNow + 1 /\ UNCHANGED <<token, store, said, told, talk>>

(***************************************************************************)
(* The store.                                                              *)
(***************************************************************************)
IdKey(ns, i) == [ns |-> ns, id |-> i, calls |-> {}]
CallsKey(ns, cs) == [ns |-> ns, id |-> 0, calls |-> cs]

unexpired(entries) == {e \in entries : talkNow < e.dies}

At(k) == {e \in unexpired(store) : e.key = k}

\* put: a new key in a full store takes the place of an entry that ends first.
MutVictims(entries) == {e \in entries : \A f \in entries : f.dies <= e.dies}

Victims(entries) == {e \in entries : \A f \in entries : e.dies <= f.dies}

put(entries, e) ==
    LET live == unexpired(entries)
        others == {f \in live : f.key # e.key}
    IN IF others # live \/ Cardinality(live) < Capacity THEN {others \cup {e}}
       ELSE {(live \ {v}) \cup {e} : v \in Victims(live)}

(***************************************************************************)
(* handle: from the request to the call.                                   *)
(***************************************************************************)
MutCredential(a) == token[a]

Credential(a) == <<a, token[a]>>

\* namespace has the session or else the input; owner the session alone.
namespace(k, a, conv) == <<k, Credential(a), conv>>
Owner(k, a, conv) == <<k, Credential(a), IF conv \in Session THEN conv ELSE "none">>

\* The namespace of the interaction the request names, if there is just one.
NamedScopes(previous, owner) == {e.ns : e \in {f \in unexpired(store) : f.id = previous /\ f.owner = owner}}

\* prepare: what the request continues; empty when it is refused.
MutPrepare(ns, previous, answers) ==
    IF previous # 0 THEN At(IdKey(ns, previous)) ELSE At(CallsKey(ns, answers))

prepare(ns, previous, answers) ==
    LET named == At(IdKey(ns, previous)) IN
    IF previous # 0 /\ \E e \in named : e.calls = {} THEN named
    ELSE {e \in At(CallsKey(ns, answers)) : previous # 0 => named # {} /\ e.id = previous}

Asked(x, k, a, conv, ns, previous, answers, from) ==
    /\ said' = Append(said, [key |-> k, account |-> a, token |-> token[a], answers |-> answers,
                             from |-> IF from = {} THEN 0 ELSE (CHOOSE e \in from : TRUE).id, calls |-> {}])
    /\ talk' = [talk EXCEPT ![x] = [Silent EXCEPT !.phase = "post", !.id = Len(said) + 1, !.ns = ns,
                                    !.owner = Owner(k, a, conv), !.posts = 1, !.used = token[a],
                                    !.history = UNION {e.history : e \in from}]]
    /\ UNCHANGED <<talkNow, token, told>>

MaySpeak(x) == talk[x].phase = "rest" /\ Len(said) < MaxTalk

\* A conversation begins: no interaction is named and no call is answered.
Begins(x, k, a, conv) ==
    /\ MaySpeak(x) /\ Asked(x, k, a, conv, namespace(k, a, conv), 0, {}, {}) /\ UNCHANGED store

\* It continues an interaction by name, or by the calls it answers.
Continues(x, k, a, conv, previous, answers) ==
    /\ MaySpeak(x) /\ (previous # 0 \/ answers # {})
    /\ \E ns \in IF previous = 0 THEN {namespace(k, a, conv)} ELSE NamedScopes(previous, Owner(k, a, conv)) :
          /\ previous # 0 => NamedScopes(previous, Owner(k, a, conv)) = {ns}
          /\ prepare(ns, previous, answers) # {}
          /\ Asked(x, k, a, conv, ns, previous, answers, prepare(ns, previous, answers))
    /\ store' = unexpired(store)

(***************************************************************************)
(* send_interactions.                                                      *)
(***************************************************************************)
AccountOf(x) == said[talk[x].id].account

\* A 401 is answered once with a refresh, which rotates the token unless
\* another request has already.
Unauthorized(x) ==
    /\ talk[x].phase = "post" /\ ~talk[x].refreshed
    /\ LET a == AccountOf(x) IN
       \/ /\ token[a] < MaxToken \/ talk[x].used # token[a]
          /\ token' = IF talk[x].used = token[a] THEN [token EXCEPT ![a] = @ + 1] ELSE token
          /\ talk' = [talk EXCEPT ![x].refreshed = TRUE, ![x].used = token'[a], ![x].posts = @ + 1]
       \/ talk' = [talk EXCEPT ![x] = Silent] /\ UNCHANGED token
    /\ UNCHANGED <<talkNow, store, said, told>>

\* A status worth a retry, or a transport error.
MutRetries(x) ==
    /\ talk[x].phase = "post" /\ talk[x].attempt <= TalkRetries
    /\ talk' = [talk EXCEPT ![x].attempt = @ + 1, ![x].posts = @ + 1, ![x].used = token[AccountOf(x)]]
    /\ UNCHANGED <<talkNow, token, store, said, told>>

Retries(x) ==
    /\ talk[x].phase = "post" /\ talk[x].attempt < TalkRetries
    /\ talk' = [talk EXCEPT ![x].attempt = @ + 1, ![x].posts = @ + 1, ![x].used = token[AccountOf(x)]]
    /\ UNCHANGED <<talkNow, token, store, said, told>>

HeadRead(x) ==
    /\ talk[x].phase = "post" /\ talk' = [talk EXCEPT ![x].phase = "read"]
    /\ UNCHANGED <<talkNow, token, store, said, told>>

(***************************************************************************)
(* Observer.                                                               *)
(***************************************************************************)

\* frame, observe_native: a step that calls a function, or the end.
frame(x) ==
    /\ talk[x].phase = "read" /\ ~talk[x].finished
    /\ \/ \E c \in CallId : Len(talk[x].calls) < 2 /\ talk' = [talk EXCEPT ![x].calls = Append(@, c)]
       \/ talk' = [talk EXCEPT ![x].finished = TRUE]
    /\ UNCHANGED <<talkNow, token, store, said, told>>

Distinct(s) == \A i, j \in DOMAIN s : s[i] = s[j] => i = j

\* save: under the interaction's name, and under the calls it waits for.
save(x) ==
    LET r == talk[x]
        asks == {r.calls[i] : i \in DOMAIN r.calls}
        Entry(k) == [key |-> k, id |-> r.id, owner |-> r.owner, ns |-> r.ns, calls |-> asks,
                       history |-> IF said[r.id].account \in NativeAccount THEN {} ELSE r.history \cup {r.id}, dies |-> talkNow + TalkTtl]
        first == put(store, Entry(IdKey(r.ns, r.id)))
    IN IF asks = {} THEN first ELSE UNION {put(f, Entry(CallsKey(r.ns, asks))) : f \in first}

\* finish: saved, then told.
MutFinish(x) ==
    /\ talk[x].phase = "read" /\ talk[x].finished
    /\ IF Distinct(talk[x].calls) THEN store' \in save(x) ELSE UNCHANGED store
    /\ said' = [said EXCEPT ![talk[x].id].calls = {talk[x].calls[i] : i \in DOMAIN talk[x].calls}]
    /\ told' = told \cup {[id |-> talk[x].id, dies |-> talkNow + TalkTtl]} /\ talk' = [talk EXCEPT ![x] = Silent]
    /\ UNCHANGED <<talkNow, token>>

finish(x) ==
    /\ talk[x].phase = "read" /\ talk[x].finished /\ Distinct(talk[x].calls)
    /\ store' \in save(x) /\ told' = told \cup {[id |-> talk[x].id, dies |-> talkNow + TalkTtl]}
    /\ said' = [said EXCEPT ![talk[x].id].calls = {talk[x].calls[i] : i \in DOMAIN talk[x].calls}]
    /\ talk' = [talk EXCEPT ![x] = Silent]
    /\ UNCHANGED <<talkNow, token>>

\* The upstream refuses, breaks off, repeats a call's id or says the
\* interaction failed; or the client leaves.
Breaks(x) ==
    /\ talk[x].phase # "rest" /\ talk' = [talk EXCEPT ![x] = Silent]
    /\ UNCHANGED <<talkNow, token, store, said, told>>

TalkNext ==
    \/ TalkTick
    \/ \E x \in TalkTask :
          \/ \E k \in Talker, a \in TalkAccount, conv \in Session \cup Prefix :
                \/ Begins(x, k, a, conv)
                \/ \E previous \in {e.id : e \in store} \cup {0}, answers \in SUBSET CallId :
                      Continues(x, k, a, conv, previous, answers)
          \/ Unauthorized(x) \/ Retries(x) \/ HeadRead(x) \/ frame(x) \/ finish(x) \/ Breaks(x)

TalkSpec == TalkInit /\ [][TalkNext]_talkVars

(***************************************************************************)
(* Properties.                                                             *)
(***************************************************************************)

\* A request continues an interaction of its own caller, on the account and
\* with the token that made it; and the calls that one waits for are those
\* it answers, all of them (namespace, prepare).
ContinuesItsOwn ==
    \A i \in DOMAIN said : said[i].from # 0 => LET p == said[said[i].from] IN
        /\ p.key = said[i].key /\ p.account = said[i].account /\ p.token = said[i].token
        /\ p.calls # {} => said[i].answers = p.calls

\* The history kept for a translated account is the whole conversation that
\* led to the interaction, and nothing else (handle, save).
HistoryIsWhole ==
    \A e \in store : said[e.id].account \notin NativeAccount =>
        /\ e.id \in e.history
        /\ \A i \in e.history : said[i].from \in e.history \cup {0}
        /\ \A i \in e.history \ {e.id} : \E j \in e.history : said[j].from = i

ToldIsKeptStep ==
    \A r \in told' \ told : \E e \in store' :
        /\ e.id = r.id /\ e.calls = said'[r.id].calls
        /\ e.key = IF e.calls = {} THEN IdKey(e.ns, r.id) ELSE CallsKey(e.ns, e.calls)
\* When the client is told that an interaction is complete, the store has
\* it, under the calls it waits for if there are any (Observer::finish).
ToldIsKept == [][ToldIsKeptStep]_talkVars

\* An interaction whose client was told is forgotten before its time only
\* while everything that is kept ends no earlier (InteractionsStore::put).
EarliestGoesFirst ==
    \A r \in told : talkNow < r.dies /\ ~(\E e \in store : e.key = IdKey(e.ns, r.id)) =>
        \A e \in store : r.dies <= e.dies

\* The store keeps to its capacity, and a request is sent once, once more
\* after a refresh, and once for each retry (put, send_interactions).
TalkIsBounded ==
    /\ Cardinality(store) <= Capacity
    /\ \A x \in TalkTask : talk[x].posts <= TalkRetries + 2
====
