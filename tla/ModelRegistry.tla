--------------------------- MODULE ModelRegistry ----------------------------
(***************************************************************************)
(* The model registry: the composition of a snapshot, and the signed       *)
(* catalog it starts from. The two share no state.                         *)
(***************************************************************************)
EXTENDS Naturals, Sequences, FiniteSets
LOCAL INSTANCE SequencesExt
LOCAL INSTANCE FiniteSetsExt

-----------------------------------------------------------------------------
(***************************************************************************)
(* The model registry: how descriptors, discoveries, the operator's        *)
(* settings and the accounts' own models are composed into a snapshot, and *)
(* how a requested name is resolved against it.                            *)
(* crates/registry/src/lib.rs, runtime_state.rs.                           *)
(*                                                                         *)
(* A model id is its namespace and its base; a partial map is a function   *)
(* on a subset.  Display names, owners and metadata are left out.          *)
(***************************************************************************)

CONSTANTS MaxAliasDepth, MaxRules   \* bound: alias rules an operator writes

VARIABLES phase, items, seen, reg, refused
compositionVars == <<phase, items, seen, reg, refused>>

None == [ns |-> "", base |-> "none"]
Id(ns, base) == [ns |-> ns, base |-> base]
M == Id("", "m")
N == Id("", "n")
KiroM == Id("kiro", "m")
CodexN == Id("codex", "n")
Prefix == Id("team", "m")
Name == {M, N, KiroM, CodexN}

\* vertex is closed and serves every Gemini name, kiro takes discoveries, codex
\* is open; the others are known from accounts only.
Gemini == {M}
Policy == [vertex |-> "closed", kiro |-> "discovered", codex |-> "open"]
ProviderOrder == [codex |-> 1, kiro |-> 2, vertex |-> 3, devin |-> 4, antigravity |-> 5]

\* Precedence of the sources.
EmbeddedFallback == 1
RemoteSigned == 3
Discovered == 4
LocalOverride == 5

AllAuthority == {"capabilities", "prefixes", "upstream_id"}
Binding(p, policy, source, upstream, caps, authority, priority) ==
    [provider |-> p, policy |-> policy, source |-> source, upstream |-> upstream,
     caps |-> caps, authority |-> authority, priority |-> priority]
NewBinding(p, policy, source) == Binding(p, policy, source, None, {}, AllAuthority, 0)

EmptyMap == [x \in {} |-> None]
With(f, k, v) == [x \in DOMAIN f \cup {k} |-> IF x = k THEN v ELSE f[x]]

(***************************************************************************)
(* Merging.                                                                *)
(***************************************************************************)
\* Mutant: of two bindings of one rank the later replaces the capabilities.
MutMergeWith(b, in) ==
    LET wins == in.source > b.source \/ (in.source = b.source /\ in.priority >= b.priority)
    IN  [(IF wins THEN [in EXCEPT !.upstream = IF @ # None THEN @ ELSE b.upstream] ELSE b)
            EXCEPT !.authority = b.authority \cup in.authority]

MergeWith(b, in) ==
    LET wins == in.source > b.source \/ (in.source = b.source /\ in.priority > b.priority)
        ties == in.source = b.source /\ in.priority = b.priority
        says(f) == f \in in.authority
        free(f) == wins \/ f \notin b.authority
        caps == CASE ~says("capabilities") -> b.caps
                  [] ties -> b.caps \cup in.caps
                  [] OTHER -> IF free("capabilities") THEN in.caps ELSE b.caps
        upstream == IF says("upstream_id") /\ in.upstream # None
                        /\ (IF ties THEN b.upstream = None ELSE free("upstream_id"))
                    THEN in.upstream ELSE b.upstream
        top == IF wins THEN in ELSE b
    IN  [top EXCEPT !.caps = caps, !.upstream = upstream, !.authority = b.authority \cup in.authority]

AddBinding(bindings, b) ==
    With(bindings, b.provider, IF b.provider \in DOMAIN bindings THEN MergeWith(bindings[b.provider], b) ELSE b)

AddModel(models, id, desc) ==
    IF id \notin DOMAIN models THEN With(models, id, desc)
    ELSE With(models, id,
              [caps |-> models[id].caps \cup desc.caps,
               bindings |-> FoldSet(LAMBDA p, bs : AddBinding(bs, desc.bindings[p]), models[id].bindings, DOMAIN desc.bindings)])

\* A discovery adds to what a catalog says of the binding and never replaces it.
Supplement(b, disc) ==
    [b EXCEPT !.caps = IF "capabilities" \in disc.authority THEN @ \cup disc.caps ELSE @,
              !.authority = @ \cup disc.authority]

\* The models after a discovery of provider p; refused for a closed provider.
ApplyDiscovered(models, p, disc) ==
    LET binding == [NewBinding(p, Policy[p], Discovered) EXCEPT
                        !.authority = disc.authority,
                        !.caps = IF "capabilities" \in disc.authority THEN disc.caps ELSE {}]
        desc == IF disc.id \in DOMAIN models THEN models[disc.id] ELSE [caps |-> {}, bindings |-> EmptyMap]
        merged == CASE p \notin DOMAIN desc.bindings -> binding
                    [] desc.bindings[p].source # Discovered -> Supplement(desc.bindings[p], disc)
                    [] OTHER -> MergeWith(desc.bindings[p], binding)
    IN  With(models, disc.id, [desc EXCEPT !.bindings = With(@, p, merged)])

(***************************************************************************)
(* What is composed here.                                                  *)
(***************************************************************************)
Single(b) == With(EmptyMap, b.provider, b)
Vertex(source, priority, caps) ==
    [id |-> M, desc |-> [caps |-> {}, bindings |-> Single(Binding("vertex", "closed", source, None, caps, AllAuthority, priority))]]
Unbound == [id |-> N, desc |-> [caps |-> {"chat"}, bindings |-> EmptyMap]]
Prefixed == [id |-> KiroM, desc |-> [caps |-> {}, bindings |-> Single(Binding("kiro", "discovered", EmbeddedFallback, M, {"chat"}, AllAuthority, 0))]]
Item == {Vertex(EmbeddedFallback, 1, {"chat"}), Vertex(RemoteSigned, 0, {"tools"}), Vertex(RemoteSigned, 0, {"chat"}),
         Vertex(RemoteSigned, 1, {"image"}), Unbound, Prefixed}
Discovery ==
    {[p |-> "kiro", id |-> KiroM, caps |-> {"tools"}, authority |-> AllAuthority],
     [p |-> "kiro", id |-> N, caps |-> {"chat"}, authority |-> {}],
     [p |-> "kiro", id |-> N, caps |-> {"tools"}, authority |-> AllAuthority],
     [p |-> "vertex", id |-> N, caps |-> {"chat"}, authority |-> AllAuthority]}

(***************************************************************************)
(* Aliases and validation.                                                 *)
(***************************************************************************)
RECURSIVE Follow(_, _, _)
Follow(aliases, cur, visited) ==
    IF cur \notin DOMAIN aliases THEN cur
    ELSE IF cur \in visited \/ Cardinality(visited) >= MaxAliasDepth THEN None
    ELSE Follow(aliases, aliases[cur], visited \cup {cur})

ResolveAlias(r, requested) == Follow(r.aliases, requested, {})

\* Mutant: the walk of the validation starts with nothing visited.
MutTargetOf(aliases, alias) == IF aliases[alias] = alias THEN None ELSE Follow(aliases, aliases[alias], {})

\* The end of an alias, walked from its target as build and validate do.
TargetOf(aliases, alias) == IF aliases[alias] = alias THEN None ELSE Follow(aliases, aliases[alias], {alias})

HasOpen(r) == \E p \in DOMAIN r.providers : r.providers[p] = "open"
Build(r) ==
    /\ \A a \in DOMAIN r.aliases : TargetOf(r.aliases, a) # None /\ (TargetOf(r.aliases, a) \in DOMAIN r.models \/ HasOpen(r))
    /\ DOMAIN r.models # {} \/ HasOpen(r)
Validate(r) ==
    /\ Build(r)
    /\ \A id \in DOMAIN r.models : DOMAIN r.models[id].bindings \subseteq DOMAIN r.providers

\* An exclusion names a model, and a provider or all of them.
Excludes(exclusions, id, p) == \E e \in exclusions : e.id = id /\ e.p \in {"all", p}

ValidateLocalComposition(r, s) ==
    LET aliases == [a \in DOMAIN r.aliases \cup DOMAIN s.aliases |->
                        IF a \in DOMAIN s.aliases THEN s.aliases[a] ELSE r.aliases[a]]
        of(p) == {id \in DOMAIN r.models : p \in DOMAIN r.models[id].bindings}
    IN  /\ \A a \in DOMAIN aliases : TargetOf(aliases, a) \in DOMAIN r.models
        /\ \A p \in DOMAIN r.providers : of(p) # {} => \E id \in of(p) : ~Excludes(s.exclusions, id, p)

ComposeWithSettings(r, s) ==
    [r EXCEPT !.aliases = [a \in DOMAIN @ \cup DOMAIN s.aliases |-> IF a \in DOMAIN s.aliases THEN s.aliases[a] ELSE r.aliases[a]],
              !.exclusions = @ \cup s.exclusions]

(***************************************************************************)
(* Resolving a name.                                                       *)
(***************************************************************************)
\* Mutant: only the canonical name keeps an open provider out of a namespace.
MutOpenProviders(r, requested, id) ==
    {p \in DOMAIN r.providers : r.providers[p] = "open" /\ id.ns \in {"", p}}

OpenProviders(r, requested, id) ==
    {p \in DOMAIN r.providers : r.providers[p] = "open" /\ requested.ns \in {"", p} /\ id.ns \in {"", p}}

Synthesized(r, requested, id) ==
    {[NewBinding(p, "open", EmbeddedFallback) EXCEPT !.caps = {"chat"}] :
        p \in {q \in OpenProviders(r, requested, id) : ~Excludes(r.exclusions, id, q)}}

Before(a, b) ==
    \/ a.priority > b.priority
    \/ a.priority = b.priority /\ a.source > b.source
    \/ a.priority = b.priority /\ a.source = b.source /\ ProviderOrder[a.provider] < ProviderOrder[b.provider]

\* Mutant: open bindings are offered beside the closed ones.
MutEligible(r, requested, id) ==
    LET own == {r.models[id].bindings[p] : p \in {q \in DOMAIN r.models[id].bindings : ~Excludes(r.exclusions, id, q)}}
    IN  IF id \in DOMAIN r.models THEN own \cup Synthesized(r, requested, id) ELSE Synthesized(r, requested, id)

\* Closed and discovered bindings claim a model; open ones follow; an open
\* provider serves what nobody is bound to, outside the others' namespaces.
Eligible(r, requested, id) ==
    IF id \in DOMAIN r.models
    THEN LET own == {r.models[id].bindings[p] : p \in {q \in DOMAIN r.models[id].bindings : ~Excludes(r.exclusions, id, q)}}
             claiming == {b \in own : b.policy # "open"}
         IN  IF claiming # {} THEN claiming
             ELSE IF own # {} THEN own
             ELSE IF DOMAIN r.models[id].bindings = {} THEN Synthesized(r, requested, id) ELSE {}
    ELSE IF id.ns \in DOMAIN r.providers /\ r.providers[id.ns] # "open" THEN {}
    ELSE Synthesized(r, requested, id)

EffectiveCapabilities(desc) == desc.caps \cup UNION {desc.bindings[p].caps : p \in DOMAIN desc.bindings}

\* The eligible bindings in the order they are tried; none when unknown,
\* excluded or an alias that leads nowhere.
Resolve(r, requested) ==
    LET id == ResolveAlias(r, requested)
    IN  IF id = None \/ Excludes(r.exclusions, id, "all") THEN <<>>
        ELSE SetToSortSeq(Eligible(r, requested, id), Before)

(***************************************************************************)
(* What a provider's accounts say of themselves.                           *)
(***************************************************************************)
ContributionForProvider(r, p) == {id \in DOMAIN r.models : p \in DOMAIN r.models[id].bindings}
Unprefixed(id) == IF id.ns = "kiro" THEN Id("", id.base) ELSE id

\* Mutant: the upstream's name is compared with the request as it is written.
MutMatches(r, p, id, model) ==
    id = model \/ (r.models[id].bindings[p].upstream # None /\ r.models[id].bindings[p].upstream = model /\ id.ns = "")

Matches(r, p, id, model) ==
    LET up == IF r.models[id].bindings[p].upstream = None THEN id ELSE r.models[id].bindings[p].upstream
    IN  id = model \/ up \in {model, Unprefixed(model)}
HasPrefixSupport(r, p) == p = "vertex" /\ \E id \in ContributionForProvider(r, p) : "prefixes" \in r.models[id].bindings[p].authority
SupportsModel(r, p, model) ==
    \/ \E id \in ContributionForProvider(r, p) : Matches(r, p, id, model) \/ id = Id("kiro", Unprefixed(model).base)
    \/ HasPrefixSupport(r, p) /\ model \in Gemini
CapabilityProfile(r, p, model) ==
    LET ids == {i \in ContributionForProvider(r, p) : Matches(r, p, i, model)}
    IN  IF ids # {} THEN UNION {EffectiveCapabilities(r.models[id]) : id \in ids}
        ELSE IF HasPrefixSupport(r, p) /\ model \in Gemini THEN {"chat", "tools"} ELSE {}

(***************************************************************************)
(* Composition, step by step.                                              *)
(***************************************************************************)
CompositionInit ==
    /\ phase = "catalog" /\ items = {} /\ seen = {} /\ refused = FALSE
    /\ reg = [models |-> EmptyMap, providers |-> Policy, aliases |-> EmptyMap, exclusions |-> {}]

Adds(item) ==
    /\ phase = "catalog" /\ item \notin items /\ seen = {}
    /\ items' = items \cup {item}
    /\ reg' = [reg EXCEPT !.models = AddModel(@, item.id, item.desc)]
    /\ UNCHANGED <<phase, seen, refused>>

ApplyContribution(d) ==
    /\ phase = "catalog" /\ d \notin seen /\ ~refused
    /\ seen' = seen \cup {d}
    /\ IF Policy[d.p] = "closed"
       THEN refused' = TRUE /\ UNCHANGED reg
       ELSE reg' = [reg EXCEPT !.models = ApplyDiscovered(@, d.p, d)] /\ UNCHANGED refused
    /\ UNCHANGED <<phase, items>>

\* Bound: settings are tried on one catalog that has every model.
Compose(s) ==
    /\ phase = "catalog" /\ ~refused /\ items = {Vertex(EmbeddedFallback, 1, {"chat"}), Unbound, Prefixed}
    /\ Build(reg) /\ ValidateLocalComposition(reg, s)
    /\ reg' = ComposeWithSettings(reg, s) /\ phase' = "settings"
    /\ UNCHANGED <<items, seen, refused>>

\* What the accounts of a provider declare: Devin with the upstream's own name,
\* Antigravity ahead of the others.
Declared(p) ==
    LET b == NewBinding(p, "discovered", Discovered)
    IN  CASE p = "devin" -> [b EXCEPT !.upstream = N, !.caps = {"chat", "tools"}]
          [] p = "antigravity" -> [b EXCEPT !.priority = 100, !.caps = {"chat", "tools"}]
          [] OTHER -> b
Declare(models, p, id) ==
    LET desc == IF id \in DOMAIN models THEN models[id] ELSE [caps |-> Declared(p).caps, bindings |-> EmptyMap]
    IN  With(models, id, [desc EXCEPT !.bindings = IF p \in DOMAIN @ THEN @ ELSE With(@, p, Declared(p))])

\* A binding that is there stays, a closed provider takes none, and a snapshot
\* that does not validate is not used.
RegistryWithAccountContributions(p, id) ==
    LET r == IF p = "vertex" THEN reg
             ELSE [reg EXCEPT !.models = Declare(@, p, id),
                              !.providers = IF p \in DOMAIN @ THEN @ ELSE With(@, p, "discovered")]
    IN  /\ phase = "settings" /\ phase' = "runtime"
        /\ Validate(r) /\ reg' = r
        /\ UNCHANGED <<items, seen, refused>>

\* Models named by the environment are bound to Codex; a prefix of an account
\* becomes an alias unless the name is taken.
ComputeCandidate(alias, target) ==
    LET named == [reg EXCEPT !.models = LET desc == IF CodexN \in DOMAIN @ THEN @[CodexN] ELSE [caps |-> {}, bindings |-> EmptyMap]
                                            own == [NewBinding("codex", "open", LocalOverride) EXCEPT !.caps = {"chat"}]
                                        IN  With(@, CodexN, [desc EXCEPT !.bindings = IF "codex" \in DOMAIN @ THEN @ ELSE With(@, "codex", own)])]
        r == [named EXCEPT !.aliases = IF alias \in DOMAIN named.models \cup DOMAIN @ THEN @ ELSE With(@, alias, target)]
    IN  /\ phase = "runtime" /\ phase' = "published"
        /\ target \in DOMAIN named.models /\ Validate(r) /\ reg' = r
        /\ UNCHANGED <<items, seen, refused>>

\* The rules of the settings: aliases of a few names, and one exclusion or none.
Rules == UNION {[A -> Name] : A \in {B \in SUBSET Name : Cardinality(B) <= MaxRules}}
Settings ==
    [aliases : Rules,
     exclusions : {{}, {[id |-> KiroM, p |-> "all"]}, {[id |-> M, p |-> "vertex"]}, {[id |-> N, p |-> "codex"]}}]

CompositionNext ==
    \/ \E item \in Item : Adds(item)
    \/ \E d \in Discovery : ApplyContribution(d)
    \/ phase = "catalog" /\ \E s \in Settings : Compose(s)
    \/ \E p \in {"vertex", "codex", "devin", "antigravity"} : RegistryWithAccountContributions(p, IF p = "codex" THEN CodexN ELSE M)
    \/ \E alias \in {N, Prefix}, target \in {M, N} : ComputeCandidate(alias, target)

(***************************************************************************)
(* Properties.                                                             *)
(***************************************************************************)
Reference ==
    LET catalog == FoldSet(LAMBDA i, ms : AddModel(ms, i.id, i.desc), EmptyMap, items)
    IN  FoldSet(LAMBDA d, ms : ApplyDiscovered(ms, d.p, d), catalog, {d \in seen : Policy[d.p] # "closed"})

\* Descriptors of any sources and priorities, and then discoveries, make the
\* same models in whatever order they are applied (merge_with,
\* apply_contribution).
MergingCommutes == phase = "catalog" => reg.models = Reference

\* Every alias of a composed registry leads to a name within the hop limit, so
\* a request never fails on one (validate_local_composition, resolve_alias).
AliasesResolve == phase # "catalog" => \A id \in Name \cup {Prefix} : ResolveAlias(reg, id) # None

\* No open provider is offered a model that another provider claims, nor a
\* request that names another provider's namespace (resolve).
OpenTakesNothing ==
    phase # "catalog" =>
        \A requested \in Name : LET bs == Range(Resolve(reg, requested)) IN
            \A b \in bs : b.policy = "open" =>
                /\ requested.ns \in {"", b.provider}
                /\ \A c \in bs : c.policy = "open"

\* A binding a request is routed to is one its provider answers for, with the
\* model's capabilities (contribution_for_provider, supports_model,
\* capability_profile).
RoutedIsSupported ==
    phase # "catalog" =>
        \A requested \in Name : LET id == ResolveAlias(reg, requested) IN
            \A b \in Range(Resolve(reg, requested)) : id \in DOMAIN reg.models /\ b.provider \in DOMAIN reg.models[id].bindings =>
                /\ SupportsModel(reg, b.provider, id)
                /\ EffectiveCapabilities(reg.models[id]) \subseteq CapabilityProfile(reg, b.provider, id)
                /\ b.upstream # None => b.caps \subseteq CapabilityProfile(reg, b.provider, b.upstream)

-----------------------------------------------------------------------------
(***************************************************************************)
(* The signed model catalog: embedded in the binary, kept on disk as the   *)
(* last known good copy, and refreshed from a publisher.                   *)
(* registry/manager.rs, registry/cache.rs, crates/registry/src/envelope.rs.*)
(*                                                                         *)
(* A catalog is its version.  The publisher replaces two files, the        *)
(* signature and the payload, one after the other; an entity tag is the    *)
(* version the file had.                                                   *)
(***************************************************************************)

CONSTANTS Embedded,     \* version of the embedded catalog
          Version,      \* versions the publisher signs
          MaxFetch      \* bound: refreshes

VARIABLES sigAt, catAt,   \* published versions; 0 is none
          expired,        \* versions whose signature has expired
          lkg,            \* the cache file: a version, or 0 when missing or damaged
          active, source, \* active_snapshot
          served,         \* the registry of the unified runtime
          lkgVersion,     \* status.lkg_version
          sigTag, catTag, \* last_sig_etag, last_cat_etag
          fetch,          \* the fetch in flight
          inFlight, seq,  \* refresh_in_flight, refresh_completion_seq
          waiter,         \* a console call that waits for a refresh
          ending,         \* tasks past their fetch: flag lowered, number raised
          recent,         \* the last attempt is younger than the refresh interval
          fetches

catalogVars == <<sigAt, catAt, expired, lkg, active, source, served, lkgVersion, sigTag, catTag, fetch, inFlight, seq, waiter, ending, recent, fetches>>

NoFetch == [pc |-> "idle", sig |-> 0, cat |-> 0]
NoEnding == [lowered |-> 0, raised |-> 0]
NoWaiter == [pc |-> "idle", seq |-> 0, woken |-> FALSE]
Larger(a, b) == IF a > b THEN a ELSE b

\* What boot makes of the cache: verified without a threshold, adopted unless
\* it is older than the embedded catalog.
LoadLkg(file) == IF file \notin expired THEN file ELSE 0
BootWithMetrics(cached) ==
    /\ active' = Larger(cached, Embedded) /\ served' = Larger(cached, Embedded)
    /\ source' = IF cached >= Embedded THEN "lkg_cache" ELSE "embedded_fallback"
    /\ lkgVersion' = cached
    /\ sigTag' = 0 /\ catTag' = 0 /\ fetch' = NoFetch /\ inFlight' = FALSE /\ seq' = 0 /\ waiter' = NoWaiter /\ ending' = NoEnding /\ recent' = FALSE

CatalogInit ==
    /\ sigAt = 0 /\ catAt = 0 /\ expired = {}
    /\ lkg \in {0, Embedded}
    /\ active = Embedded /\ served = Embedded
    /\ source = IF lkg = 0 THEN "embedded_fallback" ELSE "lkg_cache"
    /\ lkgVersion = lkg
    /\ sigTag = 0 /\ catTag = 0 /\ fetch = NoFetch /\ inFlight = FALSE /\ seq = 0 /\ waiter = NoWaiter
    /\ ending = NoEnding /\ recent = FALSE /\ fetches = 0

(***************************************************************************)
(* The publisher and time.                                                 *)
(***************************************************************************)
PublishSignature(v) ==
    /\ sigAt' = v
    /\ UNCHANGED <<catAt, expired, lkg, active, source, served, lkgVersion, sigTag, catTag, fetch, inFlight, seq, waiter, ending, recent, fetches>>
PublishCatalog(v) ==
    /\ catAt' = v
    /\ UNCHANGED <<sigAt, expired, lkg, active, source, served, lkgVersion, sigTag, catTag, fetch, inFlight, seq, waiter, ending, recent, fetches>>
Expire(v) ==
    /\ expired' = expired \cup {v}
    /\ UNCHANGED <<sigAt, catAt, lkg, active, source, served, lkgVersion, sigTag, catTag, fetch, inFlight, seq, waiter, ending, recent, fetches>>

(***************************************************************************)
(* A refresh: one at a time, whoever asks.                                 *)
(***************************************************************************)
Fetching(f) == fetch' = f
Untouched == UNCHANGED <<sigAt, catAt, expired, recent, fetches>>

EnqueueRefresh ==
    /\ ~inFlight /\ fetches < MaxFetch
    /\ inFlight' = TRUE /\ fetches' = fetches + 1 /\ Fetching([NoFetch EXCEPT !.pc = "signature"])
    /\ UNCHANGED <<sigAt, catAt, expired, lkg, active, source, served, lkgVersion, sigTag, catTag, seq, waiter, ending, recent>>

\* The poller asks when the interval is over; the console at any time.
RefreshIsDue == ~recent
Poll == RefreshIsDue /\ EnqueueRefresh
Trigger == EnqueueRefresh
IntervalOver ==
    /\ recent /\ recent' = FALSE
    /\ UNCHANGED <<sigAt, catAt, expired, lkg, active, source, served, lkgVersion, sigTag, catTag, fetch, inFlight, seq, waiter, ending, fetches>>

\* The answer is not modified, not there, an error, or the file.
FetchSignature ==
    /\ fetch.pc = "signature"
    /\ \/ Fetching([NoFetch EXCEPT !.pc = "done"])
       \/ sigAt # 0 /\ sigAt # sigTag /\ Fetching([fetch EXCEPT !.pc = "catalog", !.sig = sigAt])
    /\ UNCHANGED <<lkg, active, source, served, lkgVersion, sigTag, catTag, inFlight, seq, waiter, ending>> /\ Untouched
FetchCatalog ==
    /\ fetch.pc = "catalog"
    /\ \/ Fetching([NoFetch EXCEPT !.pc = "done"])
       \/ catAt # 0 /\ catAt # catTag /\ Fetching([fetch EXCEPT !.pc = "verify", !.cat = catAt])
    /\ UNCHANGED <<lkg, active, source, served, lkgVersion, sigTag, catTag, inFlight, seq, waiter, ending>> /\ Untouched

\* The signature covers version and payload.
Signed(sig, cat) == sig = cat /\ sig \notin expired

\* Mutant: only the cached version is a threshold.
MutVerifyCatalogEnvelope(sig, cat) == Signed(sig, cat) /\ sig > lkgVersion

VerifyCatalogEnvelope(sig, cat) == Signed(sig, cat) /\ sig > Larger(active, lkgVersion)

KeepTags == sigTag' = fetch.sig /\ catTag' = fetch.cat

\* The version already served: verified, and nothing but the tags changes.
UpToDate ==
    /\ fetch.pc = "verify" /\ fetch.sig = served /\ Signed(fetch.sig, fetch.cat)
    /\ KeepTags /\ Fetching([NoFetch EXCEPT !.pc = "done"])
    /\ UNCHANGED <<lkg, active, source, served, lkgVersion, inFlight, seq, waiter, ending>> /\ Untouched

\* Mutant: the tags are kept whatever became of the catalog.
MutRejected ==
    /\ fetch.pc = "verify" /\ KeepTags /\ Fetching([NoFetch EXCEPT !.pc = "done"])
    /\ UNCHANGED <<lkg, active, source, served, lkgVersion, inFlight, seq, waiter, ending>> /\ Untouched

\* A catalog that does not verify, that the operator's settings do not fit, or
\* that cannot be written changes nothing.
Rejected ==
    /\ fetch.pc = "verify" /\ Fetching([NoFetch EXCEPT !.pc = "done"])
    /\ UNCHANGED <<lkg, active, source, served, lkgVersion, sigTag, catTag, inFlight, seq, waiter, ending>> /\ Untouched

\* Mutant: the snapshot is replaced before the file is written.
MutWriteAtomically ==
    /\ fetch.pc = "verify" /\ fetch.sig # served /\ VerifyCatalogEnvelope(fetch.sig, fetch.cat)
    /\ active' = fetch.sig /\ source' = "remote_signed" /\ Fetching([fetch EXCEPT !.pc = "written"])
    /\ UNCHANGED <<lkg, served, lkgVersion, sigTag, catTag, inFlight, seq, waiter, ending>> /\ Untouched

\* The commit, within the locks: the file first, replaced by a rename.
WriteAtomically ==
    /\ fetch.pc = "verify" /\ fetch.sig # served /\ VerifyCatalogEnvelope(fetch.sig, fetch.cat)
    /\ lkg' = fetch.sig /\ Fetching([fetch EXCEPT !.pc = "written"])
    /\ UNCHANGED <<active, source, served, lkgVersion, sigTag, catTag, inFlight, seq, waiter, ending>> /\ Untouched
StoreActive ==
    /\ fetch.pc = "written"
    /\ active' = fetch.sig /\ source' = "remote_signed" /\ Fetching([fetch EXCEPT !.pc = "stored"])
    /\ UNCHANGED <<lkg, served, lkgVersion, sigTag, catTag, inFlight, seq, waiter, ending>> /\ Untouched
Published ==
    /\ fetch.pc = "stored"
    /\ served' = fetch.sig /\ lkgVersion' = fetch.sig /\ KeepTags /\ Fetching([NoFetch EXCEPT !.pc = "done"])
    /\ UNCHANGED <<lkg, active, source, inFlight, seq, waiter, ending>> /\ Untouched

\* The task ends: the flag, the number, then the waiters; another may have begun.
EndingWith(e) == ending' = e /\ UNCHANGED <<lkg, active, source, served, lkgVersion, sigTag, catTag>> /\ Untouched
RecordAttempt ==
    /\ fetch.pc = "done" /\ Fetching([NoFetch EXCEPT !.pc = "recorded"]) /\ recent' = TRUE
    /\ UNCHANGED <<sigAt, catAt, expired, lkg, active, source, served, lkgVersion, sigTag, catTag, inFlight, seq, waiter, ending, fetches>>
Lowered ==
    /\ fetch.pc = "recorded" /\ Fetching(NoFetch) /\ inFlight' = FALSE
    /\ EndingWith([ending EXCEPT !.lowered = @ + 1]) /\ UNCHANGED <<seq, waiter>>
Raised ==
    /\ ending.lowered > 0 /\ seq' = seq + 1
    /\ EndingWith([lowered |-> ending.lowered - 1, raised |-> ending.raised + 1]) /\ UNCHANGED <<fetch, inFlight, waiter>>
NotifyWaiters ==
    /\ ending.raised > 0 /\ waiter' = [waiter EXCEPT !.woken = waiter.pc \in {"created", "waiting"}]
    /\ EndingWith([ending EXCEPT !.raised = @ - 1]) /\ UNCHANGED <<fetch, inFlight, seq>>

(***************************************************************************)
(* wait_for_refresh_after.                                                 *)
(***************************************************************************)
CreateNotified ==
    /\ waiter.pc = "asked" /\ waiter' = [waiter EXCEPT !.pc = "created", !.woken = FALSE]
    /\ UNCHANGED <<lkg, active, source, served, lkgVersion, sigTag, catTag, fetch, inFlight, seq, ending>> /\ Untouched
ReadSequence ==
    /\ waiter.pc = "idle" /\ waiter' = [NoWaiter EXCEPT !.pc = "asked", !.seq = seq]
    /\ UNCHANGED <<lkg, active, source, served, lkgVersion, sigTag, catTag, fetch, inFlight, seq, ending>> /\ Untouched
\* Mutant: one more refresh than the caller asked for must have ended.
MutCompareSequence ==
    /\ waiter.pc = "created"
    /\ waiter' = IF seq > waiter.seq + 1 THEN NoWaiter ELSE [waiter EXCEPT !.pc = "waiting"]
    /\ UNCHANGED <<lkg, active, source, served, lkgVersion, sigTag, catTag, fetch, inFlight, seq, ending>> /\ Untouched

CompareSequence ==
    /\ waiter.pc = "created"
    /\ waiter' = IF seq > waiter.seq THEN NoWaiter ELSE [waiter EXCEPT !.pc = "waiting"]
    /\ UNCHANGED <<lkg, active, source, served, lkgVersion, sigTag, catTag, fetch, inFlight, seq, ending>> /\ Untouched
Woken ==
    /\ waiter.pc = "waiting" /\ waiter.woken /\ waiter' = [waiter EXCEPT !.pc = "asked", !.woken = FALSE]
    /\ UNCHANGED <<lkg, active, source, served, lkgVersion, sigTag, catTag, fetch, inFlight, seq, ending>> /\ Untouched

\* The process stops anywhere; the next one boots from the file, or finds it damaged.
Restart ==
    /\ \E found \in {lkg, 0} : lkg' = found /\ BootWithMetrics(LoadLkg(found))
    /\ UNCHANGED <<sigAt, catAt, expired, fetches>>

CatalogNext ==
    \/ \E v \in Version : PublishSignature(v) \/ PublishCatalog(v) \/ Expire(v)
    \/ Poll \/ Trigger \/ IntervalOver \/ FetchSignature \/ FetchCatalog
    \/ UpToDate \/ Rejected \/ WriteAtomically \/ StoreActive \/ Published
    \/ RecordAttempt \/ Lowered \/ Raised \/ NotifyWaiters
    \/ ReadSequence \/ CreateNotified \/ CompareSequence \/ Woken
    \/ Restart

(***************************************************************************)
(* Properties.                                                             *)
(***************************************************************************)
CatalogNeverFallsStep == Restart \/ (active' >= active /\ served' >= served)

\* While a process runs, neither the catalog it holds nor the one it serves
\* goes back to an older version, whatever is published (apply_update_inner).
CatalogNeverFalls == [][CatalogNeverFallsStep]_catalogVars

\* A catalog taken from the publisher is on disk before it is served, and one
\* whose entity tag is sent back was taken: a rejected one is asked for again
\* (write_atomically, fetch_and_apply_inner).
TakenIsKept ==
    /\ source = "remote_signed" => lkg >= active
    /\ sigTag # 0 => active >= sigTag /\ served >= sigTag

\* Whoever waits for a refresh is woken by the one that ends next
\* (wait_for_refresh_after).
WaitersAreWoken ==
    waiter.pc = "waiting" /\ ~waiter.woken =>
        seq = waiter.seq \/ ending.raised > 0
=============================================================================
