------------------------- MODULE RuntimeComposition -------------------------
(***************************************************************************)
(* The published composition of pool and registry, and the discovery of a  *)
(* Devin account's models that publishes into it.                          *)
(***************************************************************************)
EXTENDS Naturals, FiniteSets

-----------------------------------------------------------------------------
(***************************************************************************)
(* The pool and the registry are published together: tasks that recompute  *)
(* the composition under the coordinator's lock, coalesced or not, and the *)
(* permissions a composition captures.  runtime_state.rs.                  *)
(*                                                                         *)
(* What the accounts offer is a counter that their usage polls raise; the  *)
(* registry is a version.                                                  *)
(***************************************************************************)

CONSTANTS Poller,      \* tasks that ask for a coalesced refresh
          MaxOffers    \* bound: changes of what the accounts offer

VARIABLES offer,      \* what the members offer now
          base,       \* base_registry
          pool,       \* the published composition
          genSeq,     \* generation_seq
          asked,      \* request_seq
          completed,  \* completed_seq
          poller,     \* the pollers
          running     \* whoever holds the lock

runtimeVars == <<offer, base, pool, genSeq, asked, completed, poller, running>>

NoTask == [kind |-> "free", who |-> "none", target |-> 0, gen |-> 0, saw |-> 0, reg |-> 0]
IdlePoller == [pc |-> "idle", want |-> 0, req |-> 0]

RuntimeInit ==
    /\ offer = 0 /\ base = 1 /\ pool = [gen |-> 1, saw |-> 0, reg |-> 1] /\ genSeq = 1
    /\ asked = 0 /\ completed = 0
    /\ poller = [p \in Poller |-> IdlePoller] /\ running = NoTask

\* A poll that changed what an account offers asks for a refresh.
Offers(p) ==
    /\ poller[p].pc = "idle" /\ offer < MaxOffers
    /\ offer' = offer + 1 /\ poller' = [poller EXCEPT ![p] = [@ EXCEPT !.pc = "changed", !.want = offer + 1]]
    /\ UNCHANGED <<base, pool, genSeq, asked, completed, running>>
TriggerCoalescedRefresh(p) ==
    /\ poller[p].pc = "changed"
    /\ asked' = asked + 1 /\ poller' = [poller EXCEPT ![p] = [@ EXCEPT !.pc = "asked", !.req = asked + 1]]
    /\ UNCHANGED <<offer, base, pool, genSeq, completed, running>>

Settles(p, pc) == poller' = [poller EXCEPT ![p].pc = pc]

\* Under the lock: somebody else's refresh may have served this request.
Coordinate(p) ==
    /\ running = NoTask /\ poller[p].pc = "asked"
    /\ IF completed >= poller[p].req
       THEN Settles(p, "fresh") /\ UNCHANGED <<running, genSeq>>
       ELSE /\ running' = [NoTask EXCEPT !.kind = "coalesced", !.who = p, !.target = asked, !.gen = genSeq + 1]
            /\ genSeq' = genSeq + 1 /\ Settles(p, "running")
    /\ UNCHANGED <<offer, base, pool, asked, completed>>
\* Registry updates, reloads of the accounts and Devin publications are never coalesced.
Exclusive(reg) ==
    /\ running = NoTask /\ genSeq < MaxOffers + 3
    /\ running' = [NoTask EXCEPT !.kind = "exclusive", !.gen = genSeq + 1, !.reg = reg] /\ genSeq' = genSeq + 1
    /\ UNCHANGED <<offer, base, pool, asked, completed, poller>>

\* The candidate is computed from the members as they are then.
ComputeCandidateComposition ==
    /\ running.kind \in {"coalesced", "exclusive"}
    /\ running' = [running EXCEPT !.kind = IF @ = "coalesced" THEN "refreshed" ELSE "replaced", !.saw = offer]
    /\ UNCHANGED <<offer, base, pool, genSeq, asked, completed, poller>>

\* Mutant: the composition keeps the generation of the one it replaces.
MutStore(reg) == pool' = [gen |-> pool.gen, saw |-> running.saw, reg |-> reg]

Store(reg) == pool' = [gen |-> running.gen, saw |-> running.saw, reg |-> reg]

\* Mutant: the requests served are read when the refresh has ended.
MutServed == asked

Served == running.target

RefreshEnds ==
    /\ running.kind = "refreshed"
    /\ Store(base) /\ completed' = Served /\ Settles(running.who, "fresh") /\ running' = NoTask
    /\ UNCHANGED <<offer, base, genSeq, asked>>

\* Mutant: the registry is kept although the candidate was refused.
MutFails ==
    /\ running.kind # "free" /\ base' = IF running.reg # 0 THEN running.reg ELSE base
    /\ poller' = IF running.kind \in {"coalesced", "refreshed"} THEN [poller EXCEPT ![running.who].pc = "failed"] ELSE poller
    /\ running' = NoTask
    /\ UNCHANGED <<offer, pool, genSeq, asked, completed>>

\* A candidate that does not compose, or whose commit fails, changes nothing:
\* neither the pool, nor the registry, nor what counts as served.
Fails ==
    /\ running.kind # "free"
    /\ poller' = IF running.kind \in {"coalesced", "refreshed"} THEN [poller EXCEPT ![running.who].pc = "failed"] ELSE poller
    /\ running' = NoTask
    /\ UNCHANGED <<offer, base, pool, genSeq, asked, completed>>

UpdateEnds ==
    /\ running.kind = "replaced"
    /\ LET reg == IF running.reg # 0 THEN running.reg ELSE base IN Store(reg) /\ base' = reg
    /\ running' = NoTask
    /\ UNCHANGED <<offer, genSeq, asked, completed, poller>>

Returns(p) ==
    /\ poller[p].pc \in {"fresh", "failed"} /\ poller' = [poller EXCEPT ![p] = IdlePoller]
    /\ UNCHANGED <<offer, base, pool, genSeq, asked, completed, running>>

RuntimeNext ==
    \/ \E p \in Poller : Offers(p) \/ TriggerCoalescedRefresh(p) \/ Coordinate(p) \/ Returns(p)
    \/ \E reg \in 0..2 : Exclusive(reg)
    \/ ComputeCandidateComposition \/ RefreshEnds \/ Fails \/ UpdateEnds

(***************************************************************************)
(* Properties.                                                             *)
(***************************************************************************)
\* A coalesced caller that is told it succeeded finds its change published,
\* whoever did the work (RefreshCoordinator::coordinate); and the published
\* registry is the base, so a refused update leaves no trace (update_registry).
CoalescedIsFresh ==
    /\ \A p \in Poller : poller[p].pc = "fresh" => pool.saw >= poller[p].want
    /\ pool.reg = base

GenerationsGrowStep == pool' # pool => pool'.gen > pool.gen /\ pool'.saw >= pool.saw

\* Each composition published is younger than the one it replaces and was
\* computed from members at least as recent (generation_seq).
GenerationsGrow == [][GenerationsGrowStep]_runtimeVars

-----------------------------------------------------------------------------
(***************************************************************************)
(* Model discovery of one Devin account: overlapping refreshes publish     *)
(* what the upstream listed into the pool and into the discovery cache,    *)
(* while rescans and settings changes replace the pool's members.          *)
(* devin_catalog.rs, management/registry.rs, runtime_state.rs, state.rs.   *)
(*                                                                         *)
(* A catalog is the request that fetched its models.  Each load of the     *)
(* credential file makes a member with a request counter of its own.       *)
(***************************************************************************)

CONSTANTS Fetcher,      \* refreshes that may run at the same time
          MaxRequests,  \* bound: upstream requests
          MaxLoads      \* bound: loads of the credential file

VARIABLES file,     \* revision of the token in the credential file; 0 is no file
          member,   \* the pool's member
          counter,  \* counter[n]: devin_discovery_seq of the member of load n
          loads,    \* loads so far
          order,    \* requests sent so far
          fetcher,  \* the refreshes
          observer, \* the settings observer: the member it read, or NoMember
          observing,
          active, cached   \* the discovery cache: is the account live, its entry

devinVars == <<file, member, counter, loads, order, fetcher, observer, observing, active, cached>>

NoCatalog == [rev |-> 0, seq |-> 0, load |-> 0, born |-> 0]
NoMember == [rev |-> 0, load |-> 0, cat |-> NoCatalog]
IdleFetcher == [pc |-> "idle", rev |-> 0, load |-> 0, seq |-> 0, born |-> 0, had |-> NoCatalog, cat |-> NoCatalog]
Loaded(rev, n) == [rev |-> rev, load |-> n, cat |-> NoCatalog]

DevinInit ==
    /\ file = 1 /\ member = Loaded(1, 1) /\ loads = 1
    /\ counter = [n \in 1..MaxLoads |-> 0] /\ order = 0
    /\ fetcher = [t \in Fetcher |-> IdleFetcher]
    /\ observer = NoMember /\ observing = FALSE
    /\ active = TRUE /\ cached = NoCatalog

(***************************************************************************)
(* A refresh: the credential and a number before the request, the          *)
(* credential again after it.                                              *)
(***************************************************************************)
RefreshAccountModels(t) ==
    /\ fetcher[t].pc = "idle" /\ member.rev # 0 /\ order < MaxRequests
    /\ order' = order + 1
    /\ counter' = [counter EXCEPT ![member.load] = @ + 1]
    /\ fetcher' = [fetcher EXCEPT ![t] = [pc |-> "sent", rev |-> member.rev, load |-> member.load,
                                          seq |-> counter[member.load] + 1, born |-> order + 1,
                                          had |-> member.cat, cat |-> NoCatalog]]
    /\ UNCHANGED <<file, member, loads, observer, observing, active, cached>>

Answered(t, cat) ==
    /\ fetcher' = [fetcher EXCEPT ![t].pc = "answered", ![t].cat = cat]
    /\ UNCHANGED <<file, member, counter, loads, order, observer, observing, active, cached>>
FetchDevinModelCatalog(t) ==
    /\ fetcher[t].pc = "sent"
    /\ Answered(t, [rev |-> fetcher[t].rev, seq |-> fetcher[t].seq, load |-> fetcher[t].load, born |-> fetcher[t].born])
\* A failed request renews what the member or the cache holds for this
\* credential, and is a first failure, without models, when neither has any.
FetchFails(t) ==
    LET had == IF fetcher[t].had # NoCatalog THEN fetcher[t].had ELSE cached IN
    /\ fetcher[t].pc = "sent"
    /\ Answered(t, IF had.rev = fetcher[t].rev /\ had.born # 0
                   THEN [had EXCEPT !.seq = fetcher[t].seq, !.load = fetcher[t].load]
                   ELSE [rev |-> fetcher[t].rev, seq |-> 0, load |-> fetcher[t].load, born |-> 0])

\* Mutant: a publication is compared with the member it began with only.
MutCurrent(cat) == member.rev # 0

Current(cat) == member.rev # 0 /\ cat.rev = member.rev

\* Mutant: a late answer is taken too.
MutOutOfOrder(cat) == FALSE

\* Numbers decide when both catalogs have one.
OutOfOrder(cat) == member.cat.rev = cat.rev /\ cat.seq > 0 /\ member.cat.seq > 0 /\ cat.seq <= member.cat.seq

\* Mutant: the entry is kept whether or not the account is live.
MutInsert(cat) == cached' = cat

Insert(cat) == cached' = IF active THEN cat ELSE cached

\* One exclusive section of the coordinator.
PublishDevinMemberCatalog(t) ==
    LET cat == fetcher[t].cat IN
    /\ fetcher[t].pc = "answered"
    /\ fetcher' = [fetcher EXCEPT ![t] = IdleFetcher]
    /\ IF Current(cat) /\ ~OutOfOrder(cat)
       THEN member' = [member EXCEPT !.cat = cat] /\ Insert(cat)
       ELSE UNCHANGED <<member, cached>>
    /\ UNCHANGED <<file, counter, loads, order, observer, observing, active>>

(***************************************************************************)
(* Rescans and settings changes.                                           *)
(***************************************************************************)
WriteFile(rev) ==
    /\ file # rev /\ file' = rev
    /\ UNCHANGED <<member, counter, loads, order, fetcher, observer, observing, active, cached>>

\* The same credential keeps its catalog, in a member with a new counter.
AdoptRuntimeState(fresh) == [fresh EXCEPT !.cat = IF fresh.rev = member.rev THEN member.cat ELSE NoCatalog]
RescanPool ==
    /\ loads < MaxLoads
    /\ IF file = 0 THEN member' = NoMember /\ UNCHANGED loads
                   ELSE member' = AdoptRuntimeState(Loaded(file, loads + 1)) /\ loads' = loads + 1
    /\ UNCHANGED <<file, counter, order, fetcher, observer, observing, active, cached>>

\* Mutant: a deleted account's entry stays in the cache.
MutRetainAccounts ==
    /\ active' = (member.rev # 0) /\ UNCHANGED cached
    /\ UNCHANGED <<file, member, counter, loads, order, fetcher, observer, observing>>

\* The allowlist and the prune are one swap.
RetainAccounts ==
    /\ active' = (member.rev # 0) /\ cached' = IF member.rev # 0 THEN cached ELSE NoCatalog
    /\ UNCHANGED <<file, member, counter, loads, order, fetcher, observer, observing>>

ObserverReads ==
    /\ ~observing /\ observing' = TRUE /\ observer' = member
    /\ UNCHANGED <<file, member, counter, loads, order, fetcher, active, cached>>
ReloadAccounts ==
    /\ observing /\ observing' = FALSE /\ observer' = NoMember /\ member' = observer
    /\ UNCHANGED <<file, counter, loads, order, fetcher, active, cached>>

DevinNext ==
    \/ \E t \in Fetcher : RefreshAccountModels(t) \/ FetchDevinModelCatalog(t) \/ FetchFails(t) \/ PublishDevinMemberCatalog(t)
    \/ \E rev \in 0..2 : WriteFile(rev)
    \/ RescanPool \/ RetainAccounts \/ ObserverReads \/ ReloadAccounts

(***************************************************************************)
(* Properties.                                                             *)
(***************************************************************************)
\* An account is routed by models its own credential was shown, and nothing is
\* cached for an account that is not live (publish_devin_member_catalog,
\* DevinDiscoveryCache::insert, retain_accounts).
CatalogIsTheCredentials ==
    /\ member.cat # NoCatalog => member.cat.rev = member.rev
    /\ ~active => cached = NoCatalog

Published(t) == fetcher[t].pc = "answered" /\ fetcher'[t].pc = "idle" /\ member' # member

LateAnswerIsDroppedStep ==
    \A t \in Fetcher :
        Published(t) /\ member.cat.load = fetcher[t].load /\ fetcher[t].seq # 0 /\ fetcher[t].cat.seq # 0 =>
            fetcher[t].seq > member.cat.seq

\* Among requests of one loaded member, a request that was sent earlier never
\* replaces the models of a later one (publish_devin_member_catalog).
LateAnswerIsDropped == [][LateAnswerIsDroppedStep]_devinVars

NewestRequestWinsStep ==
    \A t \in Fetcher :
        fetcher[t].pc = "answered" /\ fetcher'[t].pc = "idle" /\ Current(fetcher[t].cat) /\ fetcher[t].cat.born = fetcher[t].born =>
            (fetcher[t].born > member.cat.born) = (member'.cat.born = fetcher[t].born)

\* What the comment on the monotonic request sequence says: of two successful
\* requests the one sent later is kept, whatever finishes last.
NewestRequestWins == [][NewestRequestWinsStep]_devinVars
=============================================================================
