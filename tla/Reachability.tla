---------------------------- MODULE Reachability ----------------------------
(***************************************************************************)
(* How the gateway is reached and how it reaches others: the port that     *)
(* serves it, its advertisement on the local network (the responder's      *)
(* life, what is advertised and heard, and the reader of packets), the     *)
(* address and client its calls leave by, and the supervisor of the egress *)
(* proxy. The parts share no state.                                        *)
(***************************************************************************)
EXTENDS FiniteSets, Integers, Sequences
LOCAL INSTANCE SequencesExt

-----------------------------------------------------------------------------
(***************************************************************************)
(* The port that serves HTTP and RESP, with and without TLS, while the     *)
(* settings change: crates/gateway/src/server.rs.                          *)
(*                                                                         *)
(* The settings are a version; those in Unusable name a certificate that   *)
(* cannot be loaded.  An acceptor is the version it was made from.         *)
(***************************************************************************)

CONSTANTS Wire,        \* connections
          SessionCap,  \* RESP sessions at a time, 1024
          Unusable,    \* versions whose TLS settings are refused
          MaxVersion   \* bound: changes of the settings

VARIABLES version,   \* the settings in force
          start,     \* ProtocolListener::new: "channel", "observer", "prepare", "serving" or "failed"
          read,      \* the version being prepared, at the start or by a reload
          watch,     \* the channel: its value, and whether it was seen
          tls,       \* the acceptor
          reloading,
          wire,      \* each connection
          sessions,  \* the JoinSet: its tasks, or taken
          server     \* "up", "taken" (sessions), "closed" (the listener), "ended"

listenerVars == <<version, start, read, watch, tls, reloading, wire, sessions, server>>

Untaken == [taken |-> FALSE, running |-> {}, finished |-> {}]

ListenerInit ==
    /\ version = 1 /\ start = "channel" /\ read = 0 /\ tls = 0
    /\ watch = [value |-> 0, seen |-> TRUE, observed |-> FALSE]
    /\ reloading = FALSE
    /\ wire = [w \in Wire |-> "away"]
    /\ sessions = Untaken /\ server = "up"

\* The store publishes a change and tells its observers.
PublishSettings ==
    /\ version < MaxVersion
    /\ version' = version + 1
    /\ watch' = IF watch.observed THEN [watch EXCEPT !.value = version + 1, !.seen = FALSE] ELSE watch
    /\ UNCHANGED <<start, read, tls, reloading, wire, sessions, server>>

(***************************************************************************)
(* new: the channel, the observer, and only then the first settings.       *)
(***************************************************************************)
MakeChannel ==
    /\ start = "channel"
    /\ start' = "observer" /\ watch' = [watch EXCEPT !.value = version] /\ read' = version
    /\ UNCHANGED <<version, tls, reloading, wire, sessions, server>>

AddObserver ==
    /\ start = "observer"
    /\ start' = "prepare" /\ watch' = [watch EXCEPT !.observed = TRUE]
    /\ UNCHANGED <<version, read, tls, reloading, wire, sessions, server>>

\* Mutant: the settings the channel was made with are used.
MutFirstSettings == read

FirstSettings == version

\* from_settings and prepare: TLS is off, or its certificate and key are
\* named, can be read and fit together.
prepare(v) == v \notin Unusable

\* The server does not start with settings that are refused.
PrepareFirst ==
    /\ start = "prepare"
    /\ tls' = FirstSettings
    /\ start' = IF prepare(FirstSettings) THEN "serving" ELSE "failed"
    /\ UNCHANGED <<version, read, watch, reloading, wire, sessions, server>>

Accepting == start = "serving" /\ server \in {"up", "taken"}

(***************************************************************************)
(* accept: a change of the settings comes before anything else.            *)
(***************************************************************************)
Changed ==
    /\ Accepting /\ ~reloading /\ ~watch.seen
    /\ watch' = [watch EXCEPT !.seen = TRUE]
    /\ read' = watch.value /\ reloading' = TRUE
    /\ UNCHANGED <<version, start, tls, wire, sessions, server>>

reload_tls ==
    /\ Accepting /\ reloading
    /\ tls' = IF prepare(read) THEN read ELSE tls
    /\ reloading' = FALSE
    /\ UNCHANGED <<version, start, read, watch, wire, sessions, server>>

\* A connection's task makes the handshake and looks at the first byte.
Accept(w) ==
    /\ Accepting /\ ~reloading /\ watch.seen /\ wire[w] = "away"
    /\ wire' = [wire EXCEPT ![w] = "handshake"]
    /\ UNCHANGED <<version, start, read, watch, tls, reloading, sessions, server>>

\* The handshake fails, or takes longer than HANDSHAKE_TIMEOUT.
HandshakeFails(w) ==
    /\ wire[w] = "handshake"
    /\ wire' = [wire EXCEPT ![w] = "away"]
    /\ UNCHANGED <<version, start, read, watch, tls, reloading, sessions, server>>

SniffHttp(w) ==
    /\ wire[w] = "handshake"
    /\ wire' = [wire EXCEPT ![w] = "http"]
    /\ UNCHANGED <<version, start, read, watch, tls, reloading, sessions, server>>

\* Mutant: sessions that have ended are counted.
MutCounted == Cardinality(sessions.running \cup sessions.finished)

\* try_join_next has taken the ended sessions out.
Counted == Cardinality(sessions.running)

\* Mutant: the set is used after it was taken.
MutMayOpen == Counted < SessionCap

MayOpen == ~sessions.taken /\ Counted < SessionCap

SniffResp(w) ==
    /\ wire[w] = "handshake"
    /\ wire' = [wire EXCEPT ![w] = IF MayOpen THEN "resp" ELSE IF sessions.taken THEN "away" ELSE "refused"]
    /\ sessions' = [sessions EXCEPT !.running = IF MayOpen THEN @ \cup {w} ELSE @,
                                    !.finished = IF sessions.taken THEN @ ELSE {}]
    /\ UNCHANGED <<version, start, read, watch, tls, reloading, server>>

\* handle_redis_connection returns; the set learns of it at the next join.
SessionEnds(w) ==
    /\ w \in sessions.running
    /\ wire' = [wire EXCEPT ![w] = "away"]
    /\ sessions' = [sessions EXCEPT !.running = @ \ {w}, !.finished = @ \cup {w}]
    /\ UNCHANGED <<version, start, read, watch, tls, reloading, server>>

\* An HTTP connection ends, or a peer that was refused goes.
Leave(w) ==
    /\ wire[w] \in {"http", "refused"}
    /\ wire' = [wire EXCEPT ![w] = "away"]
    /\ UNCHANGED <<version, start, read, watch, tls, reloading, sessions, server>>

(***************************************************************************)
(* run_protocol_server at shutdown: the sessions are taken and ended, then *)
(* the listener is dropped with its handshakes, and the HTTP connections   *)
(* are waited for.                                                         *)
(***************************************************************************)
TakeSessions ==
    /\ start = "serving" /\ server = "up"
    /\ server' = "taken"
    /\ wire' = [w \in Wire |-> IF w \in sessions.running THEN "away" ELSE wire[w]]
    /\ sessions' = [taken |-> TRUE, running |-> {}, finished |-> {}]
    /\ UNCHANGED <<version, start, read, watch, tls, reloading>>

CloseListener ==
    /\ server = "taken"
    /\ server' = "closed" /\ reloading' = FALSE
    /\ wire' = [w \in Wire |-> IF wire[w] = "handshake" THEN "away" ELSE wire[w]]
    /\ UNCHANGED <<version, start, read, watch, tls, sessions>>

ServerEnds ==
    /\ server = "closed" /\ \A w \in Wire : wire[w] # "http"
    /\ server' = "ended"
    /\ UNCHANGED <<version, start, read, watch, tls, reloading, wire, sessions>>

ListenerNext ==
    \/ PublishSettings \/ MakeChannel \/ AddObserver \/ PrepareFirst \/ Changed \/ reload_tls
    \/ \E w \in Wire : \/ Accept(w) \/ HandshakeFails(w) \/ SniffHttp(w) \/ SniffResp(w)
                       \/ SessionEnds(w) \/ Leave(w)
    \/ TakeSessions \/ CloseListener \/ ServerEnds

ListenerSpec == ListenerInit /\ [][ListenerNext]_listenerVars

(***************************************************************************)
(* Properties.                                                             *)
(***************************************************************************)

\* A listener with no change ahead of it serves the certificate of the
\* settings in force, also of those that came while it started or while it
\* reloaded; one that cannot be loaded leaves an earlier one (new, accept).
TlsFollowsSettings ==
    Accepting /\ ~reloading /\ watch.seen =>
        IF version \in Unusable THEN tls \in 1..version \ Unusable ELSE tls = version

\* Once the sessions were taken for the shutdown none runs, also none of a
\* handshake that was under way (run_protocol_server).
NoSessionAfterShutdown == server # "up" => sessions.running = {} /\ \A w \in Wire : wire[w] # "resp"

SessionsRefusedWhenFullStep ==
    \A w \in Wire : wire[w] # "refused" /\ wire'[w] = "refused" =>
        Cardinality({v \in Wire : wire[v] = "resp"}) = SessionCap
\* A RESP session is refused only while as many as the cap really run, and
\* no more ever run.
SessionsRefusedWhenFull == [][SessionsRefusedWhenFullStep]_listenerVars

-----------------------------------------------------------------------------

(***************************************************************************)
(* The advertisement of the gateway on the local network, discovery.rs:    *)
(* DiscoveryManager and its advertiser, the responder thread that          *)
(* advertiser starts, waits for and may fail to stop in time, and a        *)
(* browser that listens.                                                   *)
(***************************************************************************)

CONSTANTS
    Offer,        \* service specifications a configuration leads to
    MaxResponder, \* bound: responder threads
    MaxTimeout    \* bound: waits that run out

VARIABLES
    step,      \* of apply_config or shutdown: where the caller waits
    wanted,    \* the specification being applied, or "off"
    manager,   \* DiscoveryManager: its advertiser's thread, enabled, last_spec
    responder, \* thread -> where it is, and what it announces
    woken,     \* thread -> its stop flag
    listening, \* a browser collects answers
    found,     \* what it has collected
    timeouts   \* waits that have run out

discoveryVars == <<step, wanted, manager, responder, woken, listening, found, timeouts>>

Threads == 1..MaxResponder
NoManager == [thread |-> 0, enabled |-> FALSE, last |-> "none", completion |-> FALSE]
NoThread == [at |-> "none", spec |-> "none"]

DiscoveryInit ==
    /\ step = "idle" /\ wanted = "off" /\ manager = NoManager
    /\ responder = [t \in Threads |-> NoThread] /\ woken = [t \in Threads |-> FALSE]
    /\ listening = FALSE /\ found = {} /\ timeouts = 0

Alive(t) == responder[t].at \in {"starting", "serving"}

-----------------------------------------------------------------------------
(* apply_config: nothing to do, or first the shutdown.  A specification    *)
(* that cannot be built leads to the shutdown as well ("off").             *)
ApplyConfig(spec) ==
    /\ step = "idle"
    /\ wanted' = spec
    /\ IF manager.enabled /\ manager.thread # 0 /\ manager.last = spec
       THEN step' = "idle" /\ UNCHANGED woken
       ELSE /\ step' = "stopping"
            /\ woken' = IF manager.thread = 0 THEN woken ELSE [woken EXCEPT ![manager.thread] = TRUE]
    /\ UNCHANGED <<manager, responder, listening, found, timeouts>>

(* finish_responder: the thread's result, after which it is joined.  The   *)
(* result may be the thread's error, which ends the call; the next one     *)
(* finds nothing left to wait for.                                         *)
FinishResponder ==
    /\ step \in {"stopping", "cleaning"}
    /\ manager.completion /\ ~Alive(manager.thread)
    /\ LET failed == responder[manager.thread].at \in {"failed", "crashed"} IN
        /\ manager' = IF failed \/ step = "cleaning" THEN [manager EXCEPT !.completion = FALSE] ELSE NoManager
        /\ step' = IF failed \/ step = "cleaning" THEN "idle" ELSE "stopped"
    /\ responder' = [responder EXCEPT ![manager.thread].at = "joined"]
    /\ UNCHANGED <<wanted, woken, listening, found, timeouts>>

(* shutdown with nothing to wait for.                                      *)
NothingToFinish ==
    /\ step = "stopping" /\ ~manager.completion
    /\ manager' = NoManager /\ step' = "stopped"
    /\ UNCHANGED <<wanted, responder, woken, listening, found, timeouts>>

MutFinishTimesOut ==
    /\ step \in {"stopping", "cleaning"} /\ manager.completion /\ Alive(manager.thread)
    /\ timeouts < MaxTimeout /\ timeouts' = timeouts + 1
    /\ step' = "idle" /\ manager' = NoManager
    /\ UNCHANGED <<wanted, responder, woken, listening, found>>

(* finish_responder times out: the ownership is retained.                  *)
FinishTimesOut ==
    /\ step \in {"stopping", "cleaning"} /\ manager.completion /\ Alive(manager.thread)
    /\ timeouts < MaxTimeout /\ timeouts' = timeouts + 1
    /\ step' = "idle"
    /\ UNCHANGED <<wanted, manager, responder, woken, listening, found>>

(* RealAdvertiser::start, up to the wait for the thread's readiness.       *)
Start_ ==
    /\ step = "stopped"
    /\ IF wanted = "off" THEN step' = "idle" /\ UNCHANGED <<manager, responder>>
       ELSE \E t \in Threads :
            /\ responder[t] = NoThread /\ \A s \in 1..(t - 1) : responder[s] # NoThread
            /\ responder' = [responder EXCEPT ![t] = [at |-> "starting", spec |-> wanted]]
            /\ manager' = [NoManager EXCEPT !.thread = t, !.completion = TRUE]
            /\ step' = "starting"
    /\ UNCHANGED <<wanted, woken, listening, found, timeouts>>

MutStarted ==
    /\ step = "starting"
    /\ manager' = [manager EXCEPT !.enabled = TRUE, !.last = wanted]
    /\ step' = "idle"
    /\ UNCHANGED <<wanted, responder, woken, listening, found, timeouts>>

(* The thread is ready: the manager is enabled from here on.               *)
Started ==
    /\ step = "starting" /\ responder[manager.thread].at \in {"serving", "crashed"}
    /\ manager' = [manager EXCEPT !.enabled = TRUE, !.last = wanted]
    /\ step' = "idle"
    /\ UNCHANGED <<wanted, responder, woken, listening, found, timeouts>>

(* No readiness in time, or the thread failed: stop is tried, and the      *)
(* partly started advertiser is kept whatever comes of it.                 *)
StartFails ==
    /\ step = "starting"
    /\ \/ responder[manager.thread].at = "failed" /\ timeouts' = timeouts
       \/ responder[manager.thread].at = "starting" /\ timeouts < MaxTimeout /\ timeouts' = timeouts + 1
    /\ woken' = [woken EXCEPT ![manager.thread] = TRUE]
    /\ step' = "cleaning"
    /\ UNCHANGED <<wanted, manager, responder, listening, found>>

-----------------------------------------------------------------------------
(* merge_discovered_services: a record of the instance, by its name, with  *)
(* no look at the time to live.                                            *)
MergeDiscoveredServices(spec) == found' = IF listening THEN found \cup {spec} ELSE found

(* The thread: sockets and the announcement, then readiness.               *)
Announce(t) ==
    /\ responder[t].at = "starting"
    /\ responder' = [responder EXCEPT ![t].at = "serving"]
    /\ MergeDiscoveredServices(responder[t].spec)
    /\ UNCHANGED <<step, wanted, manager, woken, listening, timeouts>>

(* A query is answered.                                                    *)
Answers(t) ==
    /\ responder[t].at = "serving" /\ ~woken[t] /\ listening
    /\ MergeDiscoveredServices(responder[t].spec)
    /\ UNCHANGED <<step, wanted, manager, responder, woken, listening, timeouts>>

(* The goodbye.                                                            *)
Goodbye(t) ==
    /\ responder[t].at = "serving" /\ woken[t]
    /\ responder' = [responder EXCEPT ![t].at = "done"]
    /\ MergeDiscoveredServices(responder[t].spec)
    /\ UNCHANGED <<step, wanted, manager, woken, listening, timeouts>>

(* A socket operation fails, before or after the readiness.                *)
ResponderFails(t) ==
    /\ Alive(t)
    /\ responder' = [responder EXCEPT ![t].at = IF @ = "starting" THEN "failed" ELSE "crashed"]
    /\ UNCHANGED <<step, wanted, manager, woken, listening, found, timeouts>>

(* browse_with_timeout: from an empty map.                                 *)
BrowseWithTimeout ==
    /\ listening' = ~listening /\ found' = IF listening THEN found ELSE {}
    /\ UNCHANGED <<step, wanted, manager, responder, woken, timeouts>>

DiscoveryNext ==
    \/ \E spec \in Offer \cup {"off"} : ApplyConfig(spec)
    \/ FinishResponder \/ NothingToFinish \/ FinishTimesOut \/ Start_ \/ Started \/ StartFails
    \/ \E t \in Threads : Announce(t) \/ Answers(t) \/ Goodbye(t) \/ ResponderFails(t)
    \/ BrowseWithTimeout

-----------------------------------------------------------------------------
(* At most one responder lives, and it is the manager's: no stop that ran  *)
(* out of time and no start that failed half-way leaves a thread behind    *)
(* that nobody can stop (finish_responder, apply_config).                  *)
ResponderIsOwned == \A t \in Threads : Alive(t) => manager.thread = t

(* While the manager calls itself enabled, nothing but its specification   *)
(* is being announced, and the announcement has been made (apply_config).  *)
EnabledMeansAnnounced ==
    manager.enabled =>
        /\ responder[manager.thread].at \notin {"starting", "failed"} /\ responder[manager.thread].spec = manager.last
        /\ \A t \in Threads : Alive(t) => responder[t].spec = manager.last

-----------------------------------------------------------------------------
(***************************************************************************)
(* What is advertised on the network and what a browser makes of it,       *)
(* discovery.rs: which interfaces and addresses a configuration selects,   *)
(* the text records within their budget, the records of a response, and    *)
(* the service merged from them.  Names are the sequences of their labels. *)
(***************************************************************************)

CONSTANTS
    TxtBudget \* MAX_TXT_BYTES, in records of size one

VARIABLES
    setup,  \* the configuration, the bind host and the interfaces
    spec,   \* the ServiceSpec made of it
    heard,  \* services_map of a browser
    answers \* what it heard, in order

recordVars == <<setup, spec, heard, answers>>

NoSpec == [ok |-> FALSE]
NoServices == [n \in {} |-> 0]

Loopback(ip) == ip = "local"
Unspecified(ip) == ip = "any"

(* NetworkInterface: the interfaces a machine may have.                    *)
Nic == {[name |-> n, up |-> u, tunnel |-> t, loop |-> n = "lo", multicast |-> n # "lo", addrs |-> as] :
          n \in {"eth"}, u \in BOOLEAN, t \in BOOLEAN, as \in {{"a", "b"}, {"any", "b"}}}
       \cup {[name |-> n, up |-> TRUE, tunnel |-> FALSE, loop |-> n = "lo", multicast |-> n # "lo",
              addrs |-> IF n = "lo" THEN {"local"} ELSE {"b"}] : n \in {"docker", "lo", "odd"}}

Setup == [nics : SUBSET Nic, include : SUBSET {"eth", "lo"}, exclude : SUBSET {"eth"},
          bind : {"none", "any", "bad", "a", "b", "local"}, name : {<<"gw">>, <<"gw", "x">>}, auth : BOOLEAN]

RecordInit ==
    /\ setup \in Setup /\ Cardinality(setup.nics) <= 2
    /\ spec = NoSpec /\ heard = NoServices /\ answers = << >>

-----------------------------------------------------------------------------
MutFilterInterfaces(nics, include, exclude) ==
    {i \in nics :
        /\ i.up /\ ~i.tunnel /\ (i.loop => "lo" \in include) /\ (i.multicast \/ i.loop)
        /\ IF include = {} THEN i.name # "docker" /\ (i.name = "eth" \/ i.loop) ELSE i.name \in include
        /\ \E ip \in i.addrs : IF i.loop THEN Loopback(ip) ELSE ~Loopback(ip) /\ ~Unspecified(ip)}

(* filter_interfaces: "docker" stands for the ignored prefixes, "eth" for  *)
(* the likely physical ones, "lo" for the loopback names.                  *)
FilterInterfaces(nics, include, exclude) ==
    {i \in nics :
        /\ i.up /\ ~i.tunnel /\ (i.loop => "lo" \in include) /\ (i.multicast \/ i.loop)
        /\ i.name \notin exclude
        /\ IF include = {} THEN i.name # "docker" /\ (i.name = "eth" \/ i.loop) ELSE i.name \in include
        /\ \E ip \in i.addrs : IF i.loop THEN Loopback(ip) ELSE ~Loopback(ip) /\ ~Unspecified(ip)}

ExtractInterfaceIps(nics) == {ip \in UNION {i.addrs : i \in nics} : ~Loopback(ip) /\ ~Unspecified(ip)}

(* build_service_spec, the interfaces: the filtered ones, a loopback       *)
(* interface for a loopback bind host, and of these the host's owners.     *)
SelectedInterfaces(s) ==
    LET filtered == FilterInterfaces(s.nics, s.include, s.exclude)
        owned(nics) == {i \in nics : s.bind \in i.addrs}
        widened == IF Loopback(s.bind) /\ owned(filtered) = {}
                   THEN filtered \cup {i \in owned(s.nics) : i.loop} ELSE filtered
    IN  IF s.bind \in {"none", "any"} THEN widened ELSE owned(widened)

(* ... and the addresses.                                                  *)
AdvertisedIps(s) ==
    LET ips == ExtractInterfaceIps(SelectedInterfaces(s)) IN
    CASE Loopback(s.bind) -> {s.bind}
      [] s.bind \in {"none", "any"} -> ips
      [] OTHER -> ips \cap {s.bind}

(* build_txt_records: in the order of importance, within the budget.       *)
BuildTxtRecords(auth) ==
    FoldLeft(LAMBDA records, kv : IF Len(records) + 1 > TxtBudget THEN records ELSE Append(records, kv),
             << >>, <<<<"version", 1>>, <<"auth_required", auth>>, <<"features", "all">>>>)

(* build_service_spec: the error cases leave no specification.             *)
BuildServiceSpec(s) ==
    IF s.bind = "bad" \/ SelectedInterfaces(s) = {} \/ AdvertisedIps(s) = {} THEN NoSpec
    ELSE [ok |-> TRUE, name |-> s.name, ips |-> AdvertisedIps(s), txt |-> BuildTxtRecords(s.auth)]

Fqdn(name) == name \o <<"_llm", "_tcp", "local">>
Host(name) == name \o <<"local">>

(* build_mdns_response: pointer, service, text and address records.        *)
BuildMdnsResponse(p) ==
    <<[type |-> "PTR", name |-> <<"_llm", "_tcp", "local">>, data |-> Fqdn(p.name)],
      [type |-> "SRV", name |-> Fqdn(p.name), data |-> Host(p.name)],
      [type |-> "TXT", name |-> Fqdn(p.name), data |-> p.txt]>>
    \o SetToSeq({[type |-> "A", name |-> Host(p.name), data |-> ip] : ip \in p.ips})

MutMergeDiscoveredServices(msg, services) ==
    LET of(type) == {r \in ToSet(msg) : r.type = type}
        merged(srv) == [ips |-> {r.data : r \in of("A")},
                       txt |-> UNION {ToSet(r.data) : r \in {r \in of("TXT") : r.name = srv.name}}]
        names == {srv.name[1] : srv \in of("SRV")}
    IN  [n \in names \cup DOMAIN services |->
            IF n \in names THEN merged(CHOOSE srv \in of("SRV") : srv.name[1] = n) ELSE services[n]]

(* merge_discovered_services: one service for each service record, with    *)
(* the text of its own name and the addresses of its host, kept under the  *)
(* first label of the name.                                                *)
MergeServices(msg, services) ==
    LET of(type) == {r \in ToSet(msg) : r.type = type}
        merged(srv) == [ips |-> {r.data : r \in {r \in of("A") : r.name = srv.data}},
                       txt |-> UNION {ToSet(r.data) : r \in {r \in of("TXT") : r.name = srv.name}}]
        names == {srv.name[1] : srv \in of("SRV")}
    IN  [n \in names \cup DOMAIN services |->
            IF n \in names THEN merged(CHOOSE srv \in of("SRV") : srv.name[1] = n) ELSE services[n]]

-----------------------------------------------------------------------------
Builds == spec = NoSpec /\ spec' = BuildServiceSpec(setup) /\ spec'.ok /\ UNCHANGED <<setup, heard, answers>>

(* Another gateway's response, alone or in one packet with ours, and ours. *)
Neighbour == [ok |-> TRUE, name |-> <<"peer">>, ips |-> {"p"}, txt |-> BuildTxtRecords(TRUE)]

Hears(msg) ==
    /\ spec.ok /\ Len(answers) < 2
    /\ heard' = MergeServices(msg, heard) /\ answers' = Append(answers, msg)
    /\ UNCHANGED <<setup, spec>>

RecordNext ==
    \/ Builds
    \/ spec.ok /\ \E msg \in {BuildMdnsResponse(spec), BuildMdnsResponse(Neighbour),
                             BuildMdnsResponse(spec) \o BuildMdnsResponse(Neighbour)} : Hears(msg)

-----------------------------------------------------------------------------
(* The addresses advertised are those of interfaces that are up and not    *)
(* excluded, and under a bind host that names one address they are that    *)
(* address alone (build_service_spec; a loopback bind host overrides the   *)
(* exclusion).                                                             *)
AdvertisesTheBound ==
    spec.ok =>
        /\ spec.ips # {}
        /\ setup.bind \notin {"none", "any"} => spec.ips = {setup.bind}
        /\ \A ip \in spec.ips : \E i \in setup.nics :
            ip \in i.addrs /\ (Loopback(ip) \/ (i.up /\ ~i.tunnel /\ i.name \notin setup.exclude))

(* A browser that heard the response lists the service with exactly its    *)
(* addresses, whatever else was in the packet, and with the requirement to *)
(* authenticate it announced: a record the budget leaves out reads as      *)
(* required (merge_discovered_services, build_txt_records).                *)
HeardAsAdvertised ==
    (\E n \in 1..Len(answers) : BuildMdnsResponse(spec)[1] \in ToSet(answers[n])) =>
        /\ spec.name[1] \in DOMAIN heard
        /\ heard[spec.name[1]].ips = spec.ips
        /\ (<<"auth_required", FALSE>> \in heard[spec.name[1]].txt) => ~setup.auth
        /\ ~setup.auth /\ TxtBudget >= 2 => <<"auth_required", FALSE>> \in heard[spec.name[1]].txt

-----------------------------------------------------------------------------
(***************************************************************************)
(* The reader of DNS packets of discovery.rs: names with compression       *)
(* pointers, read from any offset of any packet, and the walk over the     *)
(* records, which goes on from the offset the name reader returns.         *)
(* A record is cut down to its name, one byte of rdata length for the ten  *)
(* bytes of fixed fields, and a pointer record's target name.              *)
(***************************************************************************)

CONSTANTS
    MaxPacket,  \* bound: length of a packet
    MaxVisited  \* 128, the offsets one name may visit

VARIABLES
    packet, \* the bytes
    offset, \* where parse_dns_packet is
    name,   \* the name being decoded
    parsed  \* what has been read: records, or why it ended

dnsVars == <<packet, offset, name, parsed>>

NoName == [at |-> "none"]
Pointer == 192
Reserved == 64

Packet == UNION {[1..n -> {0, 1, 2, Reserved, Pointer}] : n \in 1..MaxPacket}

DnsInit ==
    /\ packet \in Packet /\ offset = 0 /\ name = NoName
    /\ parsed = [records |-> 0, ended |-> FALSE, at |-> << >>]

Byte(n) == packet[n + 1]

Decodes(from, of) ==
    name' = [at |-> of, curr |-> from, jumped |-> FALSE, next |-> 0, visited |-> << >>]

(* parse_dns_packet: the next record, while there are bytes.               *)
NextRecord ==
    /\ name = NoName /\ ~parsed.ended
    /\ IF offset >= Len(packet) THEN parsed' = [parsed EXCEPT !.ended = TRUE] /\ UNCHANGED name
       ELSE Decodes(offset, "owner") /\ parsed' = [parsed EXCEPT !.at = Append(@, offset)]
    /\ UNCHANGED <<packet, offset>>

(* The packet is refused, with what was read of it.                        *)
RefusePacket(n) ==
    /\ name' = NoName /\ parsed' = [parsed EXCEPT !.records = 0, !.ended = TRUE]
    /\ UNCHANGED <<packet, offset>>

(* A name has been read up to `end`: of an owner, the rdata length comes   *)
(* next, and the walk stops where it does not fit; a target must end where *)
(* the rdata ends.                                                         *)
Finish(n, end) ==
    IF n.at = "owner"
    THEN IF end + 1 > Len(packet) \/ end + 1 + Byte(end) > Len(packet)
         THEN name' = NoName /\ parsed' = [parsed EXCEPT !.ended = TRUE] /\ offset' = end /\ UNCHANGED packet
         ELSE IF Byte(end) = 0 THEN RefusePacket(n)
         ELSE Decodes(end + 1, "target") /\ offset' = end + 1 /\ UNCHANGED <<packet, parsed>>
    ELSE IF end # offset + Byte(offset - 1) THEN RefusePacket(n)
         ELSE name' = NoName /\ parsed' = [parsed EXCEPT !.records = @ + 1] /\ offset' = end /\ UNCHANGED packet

MutSeen(n) == n.jumped /\ Len(n.visited) >= MaxVisited

(* decode_dns_name_checked, the guard of its loop.                         *)
Seen(n) == Len(n.visited) >= MaxVisited \/ n.curr \in ToSet(n.visited)

MutFollow(n) ==
    IF n.curr + 1 >= Len(packet) \/ Byte(n.curr + 1) >= Len(packet) THEN RefusePacket(n)
    ELSE /\ name' = [n EXCEPT !.curr = Byte(n.curr + 1), !.visited = Append(@, n.curr),
                              !.jumped = TRUE, !.next = n.curr + 2]
         /\ UNCHANGED <<packet, offset, parsed>>

(* A pointer: the name goes on at its target, the packet after the first.  *)
Follow(n) ==
    IF n.curr + 1 >= Len(packet) \/ Byte(n.curr + 1) >= Len(packet) THEN RefusePacket(n)
    ELSE /\ name' = [n EXCEPT !.curr = Byte(n.curr + 1), !.visited = Append(@, n.curr),
                              !.jumped = TRUE, !.next = IF n.jumped THEN @ ELSE n.curr + 2]
         /\ UNCHANGED <<packet, offset, parsed>>

Label(n) ==
    IF n.curr + 1 + Byte(n.curr) > Len(packet) THEN RefusePacket(n)
    ELSE /\ name' = [n EXCEPT !.curr = @ + 1 + Byte(n.curr), !.visited = Append(@, n.curr)]
         /\ UNCHANGED <<packet, offset, parsed>>

(* One round of decode_dns_name_checked.                                   *)
DecodeDnsName ==
    /\ name # NoName
    /\ IF Seen(name) \/ name.curr >= Len(packet) THEN RefusePacket(name)
       ELSE CASE Byte(name.curr) = 0 -> Finish(name, IF name.jumped THEN name.next ELSE name.curr + 1)
              [] Byte(name.curr) = Pointer -> Follow(name)
              [] Byte(name.curr) = Reserved -> RefusePacket(name)
              [] OTHER -> Label(name)

DnsNext == NextRecord \/ DecodeDnsName

-----------------------------------------------------------------------------
(* Decoding ends for every packet: an offset is looked at once for a name, *)
(* so that a name that leads back into itself is refused                   *)
(* (decode_dns_name_checked).                                              *)
DecodingEnds == name # NoName => IsInjective(name.visited)

(* Where the name at n ends in the packet itself, pointers not followed.   *)
Extent[n \in 0..MaxPacket] ==
    IF n >= Len(packet) THEN n
    ELSE CASE Byte(n) = 0 -> n + 1
           [] Byte(n) = Pointer -> n + 2
           [] n + 1 + Byte(n) > Len(packet) -> n
           [] OTHER -> Extent[n + 1 + Byte(n)]

ReadsOnAfterTheNameStep ==
    offset' # offset =>
     /\ offset' > offset /\ offset' <= Len(packet)
     /\ offset' = Extent[offset] + (IF name'.at = "target" THEN 1 ELSE 0)

(* The walk reads on where the name ends in the packet, however many jumps *)
(* the name took, never where a pointer led, and it only moves forward     *)
(* (parse_dns_packet).                                                     *)
ReadsOnAfterTheName == [][ReadsOnAfterTheNameStep]_dnsVars

-----------------------------------------------------------------------------
(***************************************************************************)
(* The HTTP client a call leaves by (proxy_policy.rs, state.rs).  A        *)
(* published document gives a snapshot: the proxy of every provider, and   *)
(* clients for the default and for none.  Clients for session addresses    *)
(* are built on demand and cached by provider, member and address.  A      *)
(* Claude account may have an address of its own, whose client is built    *)
(* when the document is published.  A document is published in three       *)
(* steps, a rescan in two, and a call reads what it needs one by one.      *)
(***************************************************************************)

CONSTANTS
    EgMember,     \* accounts, positive numbers; a number stands for its hash
    ClaudeId,     \* those of Claude
    DevinId,      \* those of Devin; the others are of "codex"
    EgTask,       \* calls
    EgDocs,       \* documents that may be published
    Bad,          \* addresses no client can be built for
    MaxEgNow,     \* bound: the clock
    MaxChange     \* bound: documents published and rescans

VARIABLES
    egNow,        \* the clock
    egDoc,        \* the document whose snapshot is published (AppState.proxy)
    entries,      \* claude_egress_clients: account -> address
    publisher,    \* the write that is being published: its step and document
    egPool,       \* account -> its own address, for the accounts of the pool
    changes,      \* documents published and rescans so far
    rescanning,   \* a rescan has published its pool and not yet its ids
    cache,        \* ProxyClientCache: the allowlist, the generation, the clients
    call          \* EgTask -> the call it makes

egressVars == <<egNow, egDoc, entries, publisher, egPool, changes, rescanning, cache, call>>

-----------------------------------------------------------------------------
(* Addresses.  The user name of a proxy carries the session.               *)

NoUrl == [host |-> "", session |-> <<>>]
Direct == [host |-> "direct", session |-> <<>>]
IsAddress(host) == host \notin Bad
Raw(host) == [host |-> host, session |-> <<0>>]

session_phase_offset(m, ttl) == m % ttl

format_session_proxy_url(host, m, sticky, ttl, at) ==
    [host |-> host,
     session |-> IF ~sticky THEN <<>>
                 ELSE IF ttl = 0 THEN <<m>>
                 ELSE <<m, (at + session_phase_offset(m, ttl)) \div ttl>>]

Twin(p) == CASE p = "codex" -> "openai" [] p = "openai" -> "codex"
             [] p = "claude" -> "claude-code" [] p = "claude-code" -> "claude" [] OTHER -> p

NoPolicy == [enabled |-> FALSE, url |-> "", sticky |-> FALSE, ttl |-> 0]
PolicyOf(doc, p) ==
    IF p \in DOMAIN doc.providers THEN doc.providers[p]
    ELSE IF Twin(p) \in DOMAIN doc.providers THEN doc.providers[Twin(p)] ELSE NoPolicy

session_proxy_url(doc, p, m, at) ==
    LET policy == PolicyOf(doc, p)
        raw == IF policy.url # "" THEN policy.url ELSE doc.url
    IN IF ~policy.enabled \/ raw = "" THEN NoUrl
       ELSE IF raw = "direct" THEN Direct
       ELSE format_session_proxy_url(raw, m, policy.sticky, policy.ttl, at)

scoped_routing_active(doc) == \E p \in DOMAIN doc.providers : doc.providers[p].enabled

base_proxy_url(doc) ==
    IF scoped_routing_active(doc) \/ doc.url \in {"", "direct"} THEN Direct ELSE Raw(doc.url)

(* What a document has to pass before it is published, and what it has to  *)
(* pass besides unless Home sent it.                                       *)
validate_proxy_settings(doc) ==
    /\ IsAddress(doc.url)
    /\ \A p \in DOMAIN doc.providers : doc.providers[p].enabled => IsAddress(doc.providers[p].url)
MutValidateEgress(doc) == TRUE
validate_claude_egress(doc) == \A m \in DOMAIN doc.egress : IsAddress(doc.egress[m])

-----------------------------------------------------------------------------
(* The cache.  A key is a provider, a member and an address.               *)

MutAdmits(m) == TRUE
admits(m) == m \in cache.active

MutReplaceScoped(gen, p, m, url, http1) ==
    IF cache.generation # gen \/ ~admits(m) THEN cache.clients
    ELSE {c \in cache.clients : c.url # url \/ c.provider # p \/ c.member # m}
         \cup {[provider |-> p, member |-> m, url |-> url, http1 |-> http1]}
replace_scoped_generation(gen, p, m, url, http1) ==
    IF cache.generation # gen \/ ~admits(m) THEN cache.clients
    ELSE {c \in cache.clients : c.provider # p \/ c.member # m}
         \cup {[provider |-> p, member |-> m, url |-> url, http1 |-> http1]}

MutGet(p, m, url) == {c \in cache.clients : c.provider = p /\ c.member = m}
get(p, m, url) == {c \in cache.clients : c.provider = p /\ c.member = m /\ c.url = url}

clear == [cache EXCEPT !.generation = @ + 1, !.clients = {}]
retain_members(ids) == [cache EXCEPT !.active = ids, !.clients = {c \in @ : c.member \in ids}]

-----------------------------------------------------------------------------
(* Publishing a document: the observers, the snapshot, the cache.          *)

Unpublished == [step |-> "rest", doc |-> CHOOSE d \in EgDocs : TRUE, home |-> FALSE]

Publish(doc, home) ==
    /\ publisher.step = "rest" /\ changes < MaxChange
    /\ validate_proxy_settings(doc) /\ (home \/ validate_claude_egress(doc))
    /\ changes' = changes + 1
    /\ publisher' = [step |-> "snapshot", doc |-> doc, home |-> home]
    /\ entries' = doc.egress
    /\ call' = [x \in EgTask |-> [call[x] EXCEPT !.home = @ \/ home]]
    /\ UNCHANGED <<egNow, egDoc, egPool, rescanning, cache>>

StoreSnapshot ==
    /\ publisher.step = "snapshot"
    /\ egDoc' = publisher.doc /\ publisher' = [publisher EXCEPT !.step = "clear"]
    /\ UNCHANGED <<egNow, entries, egPool, changes, rescanning, cache, call>>

ClearCache ==
    /\ publisher.step = "clear"
    /\ cache' = clear /\ publisher' = Unpublished
    /\ UNCHANGED <<egNow, egDoc, entries, egPool, changes, rescanning, call>>

(* A rescan publishes the pool, then its ids to the cache.                 *)
RescanPool ==
    /\ ~rescanning /\ changes < MaxChange
    /\ \E ids \in SUBSET EgMember, url \in {"c"} \cup Bad : egPool' = [m \in ids |-> url]
    /\ rescanning' = TRUE /\ changes' = changes + 1
    /\ UNCHANGED <<egNow, egDoc, entries, publisher, cache, call>>

ReconcileState ==
    /\ rescanning /\ rescanning' = FALSE
    /\ cache' = retain_members(DOMAIN egPool)
    /\ UNCHANGED <<egNow, egDoc, entries, publisher, egPool, changes, call>>

EgTick == egNow < MaxEgNow /\ egNow' = egNow + 1
          /\ UNCHANGED <<egDoc, entries, publisher, egPool, changes, rescanning, cache, call>>

-----------------------------------------------------------------------------
(* A call: a relayed request, or a poll, probe or token refresh.  Only the *)
(* former asks claude_member_routable first, and only it asks for Devin's  *)
(* HTTP/1.1 client.                                                        *)

Quiet == [step |-> "rest", use |-> "poll", member |-> 0, own |-> "", at |-> 0, doc |-> Unpublished.doc,
          generation |-> 0, url |-> NoUrl, http1 |-> FALSE,
          entry |-> "", home |-> FALSE, wants |-> NoUrl] \* history: the entry read, documents of Home since, what was prescribed

ProviderOf(m) == IF m \in ClaudeId THEN "claude" ELSE IF m \in DevinId THEN "devin" ELSE "codex"
Entry(m) == IF m \in ClaudeId \cap DOMAIN entries THEN entries[m] ELSE ""
AsksHttp1(c) == c.use = "relay" /\ c.member \in DevinId

MutEgressInvalid(m) == FALSE
claude_egress_invalid(m) == ~IsAddress(Entry(m))

Advance(x, c) == call' = [call EXCEPT ![x] = c] /\ UNCHANGED <<egNow, egDoc, entries, publisher, egPool, changes, rescanning>>

Starts(x, m, use) ==
    /\ call[x].step = "rest" /\ m \in DOMAIN egPool
    /\ Advance(x, [Quiet EXCEPT !.step = "chosen", !.use = use, !.member = m, !.own = egPool[m]])
    /\ UNCHANGED cache

relays(x, m) == ~claude_egress_invalid(m) /\ Starts(x, m, "relay")
\* xAI's refresh, which is always direct, asks for no client and is left out.
refresh_member(x, m) == Starts(x, m, "poll")

Sent(c, url, http1) == [Quiet EXCEPT !.step = "sent", !.use = c.use, !.member = c.member, !.url = url, !.http1 = http1,
                                     !.entry = c.entry, !.home = c.home, !.wants = c.wants]

(* The account's own client, when it was built; the clock is read before   *)
(* the snapshot.                                                           *)
try_client_for_member(x) ==
    /\ call[x].step = "chosen"
    /\ LET c == call[x]  entry == Entry(c.member) IN
       Advance(x, IF entry = "" \/ ~IsAddress(entry)
                  THEN [c EXCEPT !.step = "asks", !.at = egNow, !.entry = entry]
                  ELSE Sent([c EXCEPT !.entry = entry, !.wants = Raw(entry)], Raw(entry), FALSE))
    /\ UNCHANGED cache

(* The address the snapshot prescribes for the call; credential files may  *)
(* name one of their own.                                                  *)
EffectiveUrl(c) ==
    IF c.own = "" THEN session_proxy_url(c.doc, ProviderOf(c.member), c.member, c.at)
    ELSE IF c.own = "direct" THEN Direct
    ELSE IF AsksHttp1(c) THEN Raw(c.own)
    ELSE format_session_proxy_url(c.own, c.member, FALSE, 0, c.at)

\* What that comes to when no address is prescribed.
Prescribed(c) ==
    LET url == EffectiveUrl(c) IN
    IF url # NoUrl THEN url ELSE IF scoped_routing_active(c.doc) THEN Direct ELSE base_proxy_url(c.doc)

LoadSnapshot(x) ==
    /\ call[x].step = "asks"
    /\ LET c == [call[x] EXCEPT !.step = "loaded", !.doc = egDoc] IN Advance(x, [c EXCEPT !.wants = Prescribed(c)])
    /\ UNCHANGED cache

ClientForTarget(x) ==
    /\ call[x].step = "loaded"
    /\ LET c == [call[x] EXCEPT !.generation = cache.generation, !.http1 = AsksHttp1(call[x])]
           url == EffectiveUrl(c)
       IN Advance(x, IF url = NoUrl
                     THEN Sent(c, IF scoped_routing_active(c.doc) THEN Direct ELSE base_proxy_url(c.doc), c.http1)
                     ELSE IF url = Direct THEN Sent(c, Direct, c.http1)
                     ELSE [Sent(c, url, c.http1) EXCEPT !.step = "looks", !.generation = c.generation])
    /\ UNCHANGED cache

LooksUp(x) ==
    /\ call[x].step = "looks"
    /\ LET c == call[x]  hit == get(ProviderOf(c.member), c.member, c.url) IN
       \/ \E f \in hit : Advance(x, Sent(c, f.url, f.http1))
       \/ hit = {} /\ IsAddress(c.url.host) /\ Advance(x, [c EXCEPT !.step = "built"])
       \/ hit = {} /\ ~IsAddress(c.url.host) /\ Advance(x, [c EXCEPT !.step = "refused"])
    /\ UNCHANGED cache

Caches(x) ==
    /\ call[x].step = "built"
    /\ LET c == call[x] IN
       /\ cache' = [cache EXCEPT !.clients = replace_scoped_generation(c.generation, ProviderOf(c.member), c.member, c.url, c.http1)]
       /\ Advance(x, Sent(c, c.url, c.http1))

Ends(x) ==
    /\ call[x].step \in {"sent", "refused"}
    /\ Advance(x, Quiet) /\ UNCHANGED cache

EgressInit ==
    /\ egNow = 0
    /\ egDoc \in {d \in EgDocs : validate_proxy_settings(d)} /\ entries = egDoc.egress
    /\ publisher = Unpublished
    /\ egPool = [m \in EgMember |-> ""] /\ changes = 0 /\ rescanning = FALSE
    /\ cache = [active |-> EgMember, generation |-> 0, clients |-> {}]
    /\ call = [x \in EgTask |-> Quiet]

EgressNext ==
    \/ EgTick \/ StoreSnapshot \/ ClearCache \/ RescanPool \/ ReconcileState
    \/ \E doc \in EgDocs, home \in BOOLEAN : Publish(doc, home)
    \/ \E x \in EgTask :
          \/ \E m \in EgMember : relays(x, m) \/ refresh_member(x, m)
          \/ try_client_for_member(x) \/ LoadSnapshot(x) \/ ClientForTarget(x) \/ LooksUp(x) \/ Caches(x) \/ Ends(x)

-----------------------------------------------------------------------------
\* The cache holds one address for a provider and member, and clients of
\* listed members only; between rescans these are members of the pool
\* (ProxyClientCache).
OneClientPerTarget ==
    /\ \A c, d \in cache.clients : c.provider = d.provider /\ c.member = d.member => c = d
    /\ \A c \in cache.clients : c.member \in cache.active /\ (~rescanning => c.member \in DOMAIN egPool)

\* A call leaves by the address its account's entry or the snapshot it read
\* prescribes at the time it asked, whatever is in the cache; it is refused
\* only when no client can be built, and then it does not go out another
\* way (try_client_for_target_at_with_override).
LeavesAsPrescribed ==
    \A x \in EgTask :
       /\ call[x].step = "sent" => call[x].url = call[x].wants /\ call[x].url.host \notin Bad
       /\ call[x].step = "refused" => call[x].wants.host \in Bad

\* A request is not sent for a Claude account whose own address has no
\* client, also when the entry changed after the account was chosen, unless
\* Home sent a document in between: its entries are not validated
\* (claude_egress_invalid, apply_home).
UnbuiltIsNotServed ==
    \A x \in EgTask : call[x].use = "relay" /\ call[x].step # "rest" /\ call[x].entry \in Bad => call[x].home

-----------------------------------------------------------------------------
(***************************************************************************)
(* The supervisor of the local egress proxy (egress_supervisor.rs).  It    *)
(* polls the proxy's port while a document needs it, and tries a recovery  *)
(* at intervals that grow with the failures in a row.                      *)
(***************************************************************************)

CONSTANTS
    Waits,        \* the intervals between recoveries, shortest first
    Steps,        \* the failures in a row from which the second and third hold
    MaxSupNow     \* bound: polls, each a unit of time

VARIABLES
    supNow,       \* the clock, in polls
    supDoc,       \* the policy in force: what names the local proxy
    portUp,       \* the proxy listens
    failures,     \* consecutive_failures
    lastTry,      \* last_recovery_attempt
    downSince,    \* history: the poll since which every poll was made and failed
    tries         \* history: when recoveries were tried

supervisorVars == <<supNow, supDoc, portUp, failures, lastTry, downSince, tries>>

Backoff(n) == IF n >= Steps[2] THEN Waits[3] ELSE IF n >= Steps[1] THEN Waits[2] ELSE Waits[1]

SupDocs == [global : BOOLEAN, enabled : BOOLEAN, own : BOOLEAN]
is_supervision_needed(d) == d.global \/ (d.enabled /\ d.own)

\* The world: documents come and go, and so does the proxy.
SettingsTurn == supDoc' \in SupDocs /\ UNCHANGED <<supNow, portUp, failures, lastTry, downSince, tries>>
PortTurns == portUp' = ~portUp /\ UNCHANGED <<supNow, supDoc, failures, lastTry, downSince, tries>>

MutPollPort(now) ==
    IF ~is_supervision_needed(supDoc) THEN UNCHANGED <<failures, lastTry, tries>> /\ downSince' = now + 1
    ELSE IF portUp THEN failures' = 0 /\ downSince' = now + 1 /\ UNCHANGED <<lastTry, tries>>
    ELSE /\ failures' = failures + 1 /\ lastTry' = now /\ UNCHANGED downSince
         /\ tries' = IF now - lastTry >= Backoff(failures + 1) THEN Append(tries, now) ELSE tries
PollPort(now) ==
    IF ~is_supervision_needed(supDoc) THEN UNCHANGED <<failures, lastTry, tries>> /\ downSince' = now + 1
    ELSE IF portUp THEN failures' = 0 /\ downSince' = now + 1 /\ UNCHANGED <<lastTry, tries>>
    ELSE /\ failures' = failures + 1 /\ UNCHANGED downSince
         /\ IF now - lastTry >= Backoff(failures + 1)
            THEN lastTry' = now /\ tries' = Append(tries, now)
            ELSE UNCHANGED <<lastTry, tries>>

run_supervisor_loop ==
    /\ supNow < MaxSupNow /\ supNow' = supNow + 1
    /\ PollPort(supNow + 1)
    /\ UNCHANGED <<supDoc, portUp>>

SupervisorInit ==
    /\ supNow = 0 /\ supDoc \in SupDocs /\ portUp \in BOOLEAN
    /\ failures = 0 /\ lastTry = -Waits[1] /\ downSince = 1 /\ tries = <<>>

SupervisorNext == run_supervisor_loop \/ SettingsTurn \/ PortTurns

\* Recoveries are never closer than the shortest wait, and while the proxy
\* stays down none of the longest waits passes without one
\* (run_supervisor_loop).
RecoveryIsPaced ==
    /\ \A i, j \in DOMAIN tries : i < j => tries[j] - tries[i] >= Waits[1]
    /\ supNow - downSince >= Waits[3] => \E i \in DOMAIN tries : supNow - tries[i] < Waits[3]

=============================================================================
