---- MODULE RemotePeers ----
(***************************************************************************)
(* Two peers that hold a session with the gateway: the Home cluster that   *)
(* coordinates it, and the AI Studio workers that serve requests for it.   *)
(* The two parts share no state.                                           *)
(*                                                                         *)
(* Home publishes the configuration and hands out one credential per       *)
(* attempt, which the gateway gives back through a queue:                  *)
(* crates/gateway/src/home.rs, its uses in relay.rs and main.rs, and       *)
(* apply_home of management/store.rs.  Home's side (its ledger of          *)
(* credentials handed out and the revision each node serves) is external.  *)
(* A document is its revision; the revisions in Invalid do not pass the    *)
(* validation of settings.                                                 *)
(***************************************************************************)
EXTENDS Naturals, Sequences, FiniteSets

CONSTANTS HomeNode, Seed,   \* the cluster's nodes, the one the enrolment names
          HomeRequest,      \* relayed requests
          Invalid,          \* revisions that do not validate
          Threshold,        \* HOME_RECONNECT_FAILOVER_THRESHOLD
          MaxRevision, MaxIssued \* bounds: revisions published, credentials handed out

VARIABLES fenced,      \* dispatch_fenced
          heartbeat,   \* heartbeat_ok
          failures,    \* reconnect_failures
          target,      \* config.host and port
          nodes,       \* cluster_nodes
          bound,       \* "enrol", "refused" (no start), then the settings slot: "no", "slot" (set, not replayed), "yes"
          applied,     \* applied_revision, with config_payload
          served,      \* the revision the settings serve, 0: the local document
          sync,        \* the worker: where it is and the revision it has read
          request,     \* each request
          pushes,      \* release frames on their way, or lost
          release_seq,
          published,   \* Home: the revision each node serves
          ledger       \* Home: each credential handed out, "out" or how often it was given back

homeVars == <<fenced, heartbeat, failures, target, nodes, bound, applied, served, sync, request, pushes, release_seq, published, ledger>>

Waiting == [pc |-> "tick", read |-> 0]
NoRequest == [pc |-> "new", home |-> FALSE, auth |-> 0, released |-> FALSE]
enabled_heartbeat == heartbeat

HomeInit ==
    /\ fenced = FALSE /\ heartbeat = FALSE /\ failures = 0
    /\ target = Seed /\ nodes = <<>>
    /\ bound = "enrol" /\ applied = 0 /\ served = 0
    /\ sync = Waiting /\ pushes = {} /\ release_seq = 0
    /\ request = [r \in HomeRequest |-> NoRequest]
    /\ published = [n \in HomeNode |-> 1]
    /\ ledger = <<>>

(***************************************************************************)
(* The enrolment token must be complete, and a CA certificate that is      *)
(* already on disk must be the one it names; otherwise the process ends.   *)
(***************************************************************************)
parse_home_jwt_claims(claims) ==
    {"certificate_id", "cluster_id", "ca_fingerprint", "enrollment_secret", "ip", "port"} \subseteq claims

verify_ca_certificate_pem(ca) == ca = "named"

\* Tokens: complete ones, and those that lack one claim.
ClaimNames == {"certificate_id", "cluster_id", "ca_fingerprint", "enrollment_secret", "ip", "port", "iat"}
Claims == {ClaimNames \ {c} : c \in ClaimNames}

config_from_jwt(claims, ca) == parse_home_jwt_claims(claims) /\ (ca = "none" \/ verify_ca_certificate_pem(ca))

Enrol(claims, ca) ==
    /\ bound = "enrol"
    /\ bound' = IF config_from_jwt(claims, ca) THEN "no" ELSE "refused"
    /\ UNCHANGED <<fenced, heartbeat, failures, target, nodes, applied, served, sync, request, pushes, release_seq, published, ledger>>

Started == bound \notin {"enrol", "refused"}

(***************************************************************************)
(* The sync worker.  Every command is refused once the client is fenced.   *)
(***************************************************************************)
execute_command(pc) == Started /\ sync.pc = pc /\ ~fenced

\* get_config and get_models; a reply that is empty, missing or broken fails.
ReadSnapshot ==
    /\ execute_command("tick")
    /\ published[target] > 0
    /\ sync' = [pc |-> "apply", read |-> published[target]]
    /\ UNCHANGED <<fenced, heartbeat, failures, target, nodes, bound, applied, served, request, pushes, release_seq, published, ledger>>

switch_to_next_node ==
    LET candidates == Append(nodes, Seed)
        others == {i \in DOMAIN candidates : candidates[i] # target}
    IN IF others = {} THEN target
       ELSE candidates[CHOOSE i \in others : \A j \in others : i <= j]

\* The worker's error path, with mark_reconnect_failure.
SyncFailed ==
    /\ heartbeat' = FALSE
    /\ failures' = IF failures + 1 >= Threshold THEN 0 ELSE failures + 1
    /\ target' = IF failures + 1 >= Threshold THEN switch_to_next_node ELSE target
    /\ sync' = Waiting

SyncFails ==
    /\ Started /\ sync.pc \in {"tick", "nodes"}
    /\ SyncFailed
    /\ UNCHANGED <<fenced, nodes, bound, applied, served, request, pushes, release_seq, published, ledger>>

\* Mutant: a node that lags brings its older configuration back.
MutNewer(revision) == revision # applied

Newer(revision) == revision > applied

\* Mutant: a bound settings store is not told.
MutPublishes == FALSE

Publishes == bound # "no"

\* apply_authoritative_snapshot holds the payload's lock throughout, and
\* leaves everything as it was when the settings refuse the document.
Apply ==
    /\ sync.pc = "apply"
    /\ IF Newer(sync.read) /\ Publishes /\ sync.read \in Invalid
       THEN SyncFailed /\ UNCHANGED <<applied, served>>
       ELSE /\ applied' = IF Newer(sync.read) THEN sync.read ELSE applied
            /\ served' = IF Newer(sync.read) /\ Publishes THEN sync.read ELSE served
            /\ sync' = [sync EXCEPT !.pc = "nodes"]
            /\ UNCHANGED <<heartbeat, failures, target>>
    /\ UNCHANGED <<fenced, nodes, bound, request, pushes, release_seq, published, ledger>>

\* refresh_cluster_nodes: the nodes by their number of clients, any order;
\* or discovery is off, or the reply is none.
RefreshClusterNodes(order) ==
    /\ execute_command("nodes")
    /\ \/ nodes' = order /\ target' = order[1]
       \/ UNCHANGED <<nodes, target>>
    /\ sync' = [sync EXCEPT !.pc = "beat"]
    /\ UNCHANGED <<fenced, heartbeat, failures, bound, applied, served, request, pushes, release_seq, published, ledger>>

Beat ==
    /\ sync.pc = "beat"
    /\ heartbeat' = TRUE /\ failures' = 0 /\ sync' = Waiting
    /\ UNCHANGED <<fenced, target, nodes, bound, applied, served, request, pushes, release_seq, published, ledger>>

NodeOrders == {q \in [1..Cardinality(HomeNode) -> HomeNode] : \A i, j \in DOMAIN q : i # j => q[i] # q[j]}

(***************************************************************************)
(* bind_settings at startup, beside the worker: the slot, then the replay  *)
(* of what was applied before.                                             *)
(***************************************************************************)
BindSlot ==
    /\ bound = "no"
    /\ bound' = "slot"
    /\ UNCHANGED <<fenced, heartbeat, failures, target, nodes, applied, served, sync, request, pushes, release_seq, published, ledger>>

BindReplays ==
    /\ bound = "slot"
    /\ bound' = "yes"
    /\ IF applied \in Invalid
       THEN fenced' = TRUE /\ heartbeat' = FALSE /\ UNCHANGED served
       ELSE served' = applied /\ UNCHANGED <<fenced, heartbeat>>
    /\ UNCHANGED <<failures, target, nodes, applied, sync, request, pushes, release_seq, published, ledger>>

(***************************************************************************)
(* Requests (handle_relay).                                                *)
(***************************************************************************)
Goes(r, pc) == request' = [request EXCEPT ![r].pc = pc]

\* The fence is looked at first, and whether Home selects is decided once.
Enter(r) ==
    /\ request[r].pc = "new" /\ bound = "yes"
    /\ request' = [request EXCEPT ![r] =
          [pc |-> IF fenced THEN "refused" ELSE "choose", home |-> enabled_heartbeat, auth |-> 0, released |-> FALSE]]
    /\ UNCHANGED <<fenced, heartbeat, failures, target, nodes, bound, applied, served, sync, pushes, release_seq, published, ledger>>

\* Each attempt asks again whether Home is authoritative.
Choose(r) ==
    /\ request[r].pc = "choose"
    /\ \/ enabled_heartbeat /\ Goes(r, IF fenced THEN "refused" ELSE "dispatch")
       \/ ~enabled_heartbeat /\ Goes(r, IF request[r].home THEN "refused" ELSE "local")
    /\ UNCHANGED <<fenced, heartbeat, failures, target, nodes, bound, applied, served, sync, pushes, release_seq, published, ledger>>

\* The connection is not made (its TLS configuration included): nothing was asked.
ConnectFails(r) ==
    /\ request[r].pc = "dispatch"
    /\ Goes(r, "refused")
    /\ UNCHANGED <<fenced, heartbeat, failures, target, nodes, bound, applied, served, sync, pushes, release_seq, published, ledger>>

\* rpop_auth has sent its command; Home hands a credential out or has none.
RpopAuth(r, issues) ==
    /\ request[r].pc = "dispatch"
    /\ issues => Len(ledger) < MaxIssued
    /\ ledger' = IF issues THEN Append(ledger, 0) ELSE ledger
    /\ request' = [request EXCEPT ![r].pc = "answer", ![r].auth = IF issues THEN Len(ledger') ELSE 0,
                                 ![r].released = FALSE]
    /\ UNCHANGED <<fenced, heartbeat, failures, target, nodes, bound, applied, served, sync, pushes, release_seq, published>>

\* What read_resp_bulk makes of the reply: what was sent, or nothing usable.
read_resp_bulk(auth) == {"broken"} \cup (IF auth = 0 THEN {"nil"} ELSE {"auth"})

\* Mutant: a reply that was lost is taken for none.
MutAborts(reply) == FALSE

\* A reply that is empty, breaks off or does not decode leaves open whether
\* a credential was handed out (abort_ambiguous_dispatch).
Aborts(reply) == reply = "broken"

DispatchMember(r, reply) ==
    /\ request[r].pc = "answer" /\ reply \in read_resp_bulk(request[r].auth)
    /\ Goes(r, IF reply = "auth" THEN "upstream" ELSE "refused")
    /\ fenced' = (fenced \/ Aborts(reply))
    /\ heartbeat' = (heartbeat /\ ~Aborts(reply))
    /\ UNCHANGED <<failures, target, nodes, bound, applied, served, sync, pushes, release_seq, published, ledger>>

\* Mutant: the lease does not remember that it was released.
MutReleasable(r) == TRUE

Releasable(r) == ~request[r].released

\* HomeLease::release numbers a frame and has a task of its own push it.
Release(r) ==
    /\ release_seq' = IF Releasable(r) THEN release_seq + 1 ELSE release_seq
    /\ pushes' = IF Releasable(r)
                 THEN pushes \cup {[auth |-> request[r].auth, seq |-> release_seq', lost |-> FALSE]} ELSE pushes

\* The finalizer of a response that was delivered releases the lease.
EndAttempt(r) ==
    /\ request[r].pc = "upstream"
    /\ Release(r)
    /\ request' = [request EXCEPT ![r].pc = "delivered", ![r].released = TRUE]
    /\ UNCHANGED <<fenced, heartbeat, failures, target, nodes, bound, applied, served, sync, published, ledger>>

\* The member is dropped, which releases the lease of an attempt that
\* failed; then comes the next attempt, or the answer.
DropMember(r) ==
    /\ request[r].pc \in {"upstream", "delivered"}
    /\ Release(r)
    /\ \E pc \in {"done"} \cup (IF request[r].pc = "upstream" THEN {"choose"} ELSE {}) :
          request' = [request EXCEPT ![r].pc = pc, ![r].auth = 0, ![r].released = TRUE]
    /\ UNCHANGED <<fenced, heartbeat, failures, target, nodes, bound, applied, served, sync, published, ledger>>

\* A frame is lost when its push fails or the client is fenced by then.
PushConcurrencyRelease(p) ==
    /\ ~p.lost
    /\ \/ ~fenced /\ ledger' = [ledger EXCEPT ![p.auth] = @ + 1] /\ pushes' = pushes \ {p}
       \/ pushes' = (pushes \ {p}) \cup {[p EXCEPT !.lost = TRUE]} /\ UNCHANGED ledger
    /\ UNCHANGED <<fenced, heartbeat, failures, target, nodes, bound, applied, served, sync, request, release_seq, published>>

\* Home: a newer revision reaches a node, not all at the same time.
PublishRevision(n) ==
    /\ Started /\ published[n] < MaxRevision
    /\ published' = [published EXCEPT ![n] = @ + 1]
    /\ UNCHANGED <<fenced, heartbeat, failures, target, nodes, bound, applied, served, sync, request, pushes, release_seq, ledger>>

HomeNext ==
    \/ \E claims \in Claims, ca \in {"none", "named", "other"} : Enrol(claims, ca)
    \/ ReadSnapshot \/ SyncFails \/ Apply \/ Beat \/ BindSlot \/ BindReplays
    \/ \E order \in NodeOrders : RefreshClusterNodes(order)
    \/ \E r \in HomeRequest :
          \/ Enter(r) \/ Choose(r) \/ ConnectFails(r) \/ EndAttempt(r) \/ DropMember(r)
          \/ \E issues \in BOOLEAN : RpopAuth(r, issues)
          \/ \E reply \in {"broken", "nil", "auth"} : DispatchMember(r, reply)
    \/ \E p \in pushes : PushConcurrencyRelease(p)
    \/ \E n \in HomeNode : PublishRevision(n)

HomeSpec == HomeInit /\ [][HomeNext]_homeVars

(***************************************************************************)
(* Properties.                                                             *)
(***************************************************************************)

\* A credential Home handed out is held by its request, was given back once,
\* or its frame is on its way or lost; when a request never learned of its
\* credential, the node is fenced (dispatch_member, HomeLease).
IssuedIsAccounted ==
    \A i \in DOMAIN ledger :
        LET holders == {r \in HomeRequest : request[r].auth = i /\ request[r].pc \in {"answer", "upstream"}}
            frames == {p \in pushes : p.auth = i}
        IN /\ ledger[i] + Cardinality(holders) + Cardinality(frames) <= 1
           /\ fenced \/ ledger[i] + Cardinality(holders) + Cardinality(frames) = 1

\* Once bound, the settings serve the revision applied last, whatever order
\* the worker and the start-up came in, unless the document applied before
\* the binding was refused, which fences the node (bind_settings).
BoundFollowsApplied == bound = "yes" => served = applied \/ (fenced /\ applied \in Invalid)

NewerConfigStaysStep == applied' >= applied /\ served' >= served
\* A node of the cluster that lags behind, also after a failover, never
\* brings an older configuration back (apply_authoritative_snapshot).
NewerConfigStays == [][NewerConfigStaysStep]_homeVars

(***************************************************************************)
(* Requests served by connected AI Studio workers:                         *)
(* crates/gateway/src/aistudio.rs and its use in relay.rs.  A worker       *)
(* connects under its name; each connection is a session with a generation *)
(* of its own, which may replace an earlier one that still runs.  A        *)
(* request is the entry it has in the pending map.                         *)
(***************************************************************************)
CONSTANTS Client,         \* requests
          Worker,         \* names of workers
          StudioModel,    \* models a worker may offer
          PENDING_LIMIT,  \* 1024
          QueueCap,       \* frames waiting for a worker, 64
          MaxGeneration   \* bound: connections

VARIABLES workers,   \* the registry: name -> generation (0: none), catalog and where that came from
          known,     \* known_models
          session,   \* generation -> its worker, whether it runs, its queue and the requests it has received
          pending,   \* the pending map: request -> generation
          client     \* each request

studioVars == <<workers, known, session, pending, client>>

Generation == 1..MaxGeneration
NoWorker == [generation |-> 0, catalog |-> {}, from |-> 0]
Unused == [worker |-> "none", runs |-> FALSE, queue |-> <<>>, has |-> {}]
Idle == [phase |-> "idle", worker |-> "none", generation |-> 0, result |-> "none"]

StudioInit ==
    /\ workers = [w \in Worker |-> NoWorker] /\ known = {}
    /\ session = [g \in Generation |-> Unused]
    /\ pending = {} /\ client = [c \in Client |-> Idle]

(***************************************************************************)
(* A worker's session.                                                     *)
(***************************************************************************)

\* worker_session: the new session takes the name over.
insert(w, g) ==
    /\ session[g].worker = "none" /\ \A h \in 1..(g - 1) : session[h].worker # "none"
    /\ session' = [session EXCEPT ![g] = [Unused EXCEPT !.worker = w, !.runs = TRUE]]
    /\ workers' = [workers EXCEPT ![w] = [NoWorker EXCEPT !.generation = g]]
    /\ UNCHANGED <<known, pending, client>>

\* Mutant: the frame of a replaced session counts as well.
MutSpeaksFor(g) == workers[session[g].worker].generation # 0

SpeaksFor(g) == workers[session[g].worker].generation = g

\* A catalog frame.
dispatch_catalog(g, models) ==
    /\ session[g].runs
    /\ IF SpeaksFor(g)
       THEN /\ workers' = [workers EXCEPT ![session[g].worker].catalog = models, ![session[g].worker].from = g]
            /\ known' = known \cup models
       ELSE UNCHANGED <<workers, known>>
    /\ UNCHANGED <<session, pending, client>>

\* The writer takes a frame off the queue and sends it.
WriterSends(g) ==
    /\ session[g].runs /\ session[g].queue # <<>>
    /\ session' = [session EXCEPT ![g].has = @ \cup {Head(session[g].queue)}, ![g].queue = Tail(@)]
    /\ UNCHANGED <<workers, known, pending, client>>

\* Mutant: the pending request is looked up by name and not by generation.
MutOwns(g, p) == session[p[2]].worker = session[g].worker

Owns(g, p) == p[2] = g

\* A frame that names a request: http_response, stream_end and error answer
\* it, a frame of a stream is not what this surface can relay, and any other
\* kind is ignored.  A worker may answer late, or twice.
dispatch(g, c, kind) ==
    /\ session[g].runs /\ c \in session[g].has
    /\ \E p \in pending :
          /\ p[1] = c /\ Owns(g, p)
          /\ pending' = pending \ {p}
          /\ client' = [client EXCEPT ![c].phase = "done",
                           ![c].result = IF kind = "http_response" THEN "answered" ELSE "invalid"]
    /\ UNCHANGED <<workers, known, session>>

\* Mutant: the requests of a session that was replaced are forgotten.
MutSwept(g) == IF SpeaksFor(g) THEN {p \in pending : Owns(g, p)} ELSE {}

Swept(g) == {p \in pending : Owns(g, p)}

\* The socket breaks or closes: the worker is gone unless it was replaced,
\* and the requests it had are answered.
disconnect(g) ==
    /\ session[g].runs
    /\ session' = [session EXCEPT ![g].runs = FALSE, ![g].queue = <<>>]
    /\ workers' = IF SpeaksFor(g) THEN [workers EXCEPT ![session[g].worker] = NoWorker] ELSE workers
    /\ pending' = pending \ Swept(g)
    /\ client' = [c \in Client |->
                     IF \E p \in Swept(g) : p[1] = c
                     THEN [client[c] EXCEPT !.phase = "done", !.result = "disconnected"] ELSE client[c]]
    /\ UNCHANGED known

(***************************************************************************)
(* A request.                                                              *)
(***************************************************************************)
worker_for_model(m) == {w \in Worker : workers[w].generation # 0 /\ m \in workers[w].catalog}

is_aistudio_model(m) == m \in known \/ worker_for_model(m) # {}

ChooseWorker(c, m) ==
    /\ client[c].phase = "idle" /\ is_aistudio_model(m)
    /\ IF worker_for_model(m) = {}
       THEN client' = [client EXCEPT ![c].phase = "done", ![c].result = "unavailable"]
       ELSE \E w \in worker_for_model(m) :
               client' = [client EXCEPT ![c].phase = "chosen", ![c].worker = w]
    /\ UNCHANGED <<workers, known, session, pending>>

\* Under the registry's lock the request enters the pending map with the
\* generation it will be sent to.
execute(c) ==
    /\ client[c].phase = "chosen"
    /\ LET g == workers[client[c].worker].generation
       IN  IF g = 0 \/ Cardinality(pending) >= PENDING_LIMIT
           THEN /\ client' = [client EXCEPT ![c].phase = "done", ![c].result = "unavailable"]
                /\ UNCHANGED pending
           ELSE /\ pending' = pending \cup {<<c, g>>}
                /\ client' = [client EXCEPT ![c].phase = "send", ![c].generation = g]
    /\ UNCHANGED <<workers, known, session>>

\* The frame goes into the queue when there is room.
Enqueue(c) ==
    /\ client[c].phase = "send" /\ session[client[c].generation].runs
    /\ Len(session[client[c].generation].queue) < QueueCap
    /\ session' = [session EXCEPT ![client[c].generation].queue = Append(@, c)]
    /\ client' = [client EXCEPT ![c].phase = "wait"]
    /\ UNCHANGED <<workers, known, pending>>

\* REQUEST_TIMEOUT, or the caller goes away: the guard removes the entry.
GiveUp(c) ==
    /\ client[c].phase \in {"send", "wait"}
    /\ pending' = {p \in pending : p[1] # c}
    /\ \E r \in {"timeout", "gone"} : client' = [client EXCEPT ![c].phase = "done", ![c].result = r]
    /\ UNCHANGED <<workers, known, session>>

StudioNext ==
    \/ \E g \in Generation :
          \/ \E w \in Worker : insert(w, g)
          \/ \E models \in SUBSET StudioModel : dispatch_catalog(g, models)
          \/ WriterSends(g) \/ disconnect(g)
          \/ \E c \in Client, k \in {"http_response", "stream_chunk"} : dispatch(g, c, k)
    \/ \E c \in Client :
          \/ \E m \in StudioModel : ChooseWorker(c, m)
          \/ execute(c) \/ Enqueue(c) \/ GiveUp(c)

StudioSpec == StudioInit /\ [][StudioNext]_studioVars

(***************************************************************************)
(* Properties.                                                             *)
(***************************************************************************)

\* A request in the pending map waits for a session that runs, also when the
\* worker has connected again meanwhile, and a request that waits is in the
\* map: none waits for an answer nobody can give (execute, disconnect).
PendingHasASession ==
    /\ \A p \in pending : session[p[2]].runs /\ client[p[1]].generation = p[2]
    /\ \A c \in Client : client[c].phase \in {"send", "wait"} <=> \E p \in pending : p[1] = c

\* The catalog a worker is chosen by is the one its present session sent
\* (dispatch).
CatalogIsTheSessions == \A w \in Worker : workers[w].from \in {0, workers[w].generation}

OwnSessionEndsRequestsStep ==
    \A c \in Client : LET g == client[c].generation IN
        client[c].phase # "done" /\ client'[c].phase = "done" =>
            /\ client'[c].result = "disconnected" => ~session'[g].runs
            /\ client'[c].result \in {"answered", "invalid"} => c \in session[g].has
\* The end of an earlier session of the same worker ends no request of the
\* present one, and only the session that was sent a request answers it
\* (dispatch, disconnect).
OwnSessionEndsRequests == [][OwnSessionEndsRequestsStep]_studioVars
====
