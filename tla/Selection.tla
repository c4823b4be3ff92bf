----------------------------- MODULE Selection ------------------------------
(***************************************************************************)
(* What the router promises its callers (docs/CONTRACTS.md, selection):    *)
(* a scope that is bound to an available member sticks to it; otherwise    *)
(* round robin takes a member no available member was served before, and   *)
(* fill-first takes any; nothing is remembered about a member outside the  *)
(* allowlist.  Counters, list order and the eviction rule are hidden.      *)
(***************************************************************************)
EXTENDS FiniteSets

CONSTANTS Member, Key, NoMember, NoKey

VARIABLES
    strategy,  \* the configured strategy
    active,    \* the allowlist
    tracked,   \* members that hold a place in the rotation
    older,     \* <<a, b>>: a was served before b, or never while b was
    bound,     \* scope -> the member it is pinned to, or NoMember
    asked,     \* the latest request: the members that could serve it, and its scope
    picked     \* the answer to it

vars == <<strategy, active, tracked, older, bound, asked, picked>>

Init ==
    /\ strategy \in {"StrictRoundRobin", "FillFirst"}
    /\ active = Member
    /\ tracked = {}
    /\ older = {}
    /\ bound = [k \in Key |-> NoMember]
    /\ asked = [offered |-> {}, scope |-> NoKey]
    /\ picked = NoMember

\* Mutant: m keeps its old place among the members served after it.
MutPlaceKeepsOld(m) ==
    /\ tracked' = tracked \union {m}
    /\ older' = older \union {<<a, m>> : a \in Member \ {m}}

\* m becomes the most recently served member.
Place(m) ==
    /\ tracked' = tracked \union {m}
    /\ older' = {p \in older : p[1] # m} \union {<<a, m>> : a \in Member \ {m}}

\* Mutant: the requests without a scope share one.
MutPin(key, m) == bound' = [k \in Key \union {key} |-> IF k = key THEN m ELSE bound[k]]

\* Scope key, if there is one, is pinned to m.
Pin(key, m) == bound' = [k \in Key |-> IF k = key THEN m ELSE bound[k]]

\* As Pin, and scopes may be forgotten to make room for this one.
PinForgetting(key, m) ==
    IF key = NoKey
    THEN UNCHANGED bound
    ELSE /\ bound' \in [Key -> Member \union {NoMember}]
         /\ bound'[key] = m
         /\ \A k \in Key \ {key} : bound'[k] \in {bound[k], NoMember}

\* The member a request of this scope must stay with, when it can.
Sticky(S, key) == key # NoKey /\ bound[key] \in S \intersect active

\* Mutant: round robin overlooks the order of service.
MutMayServe(S, key, m) ==
    IF Sticky(S, key) THEN m = bound[key] ELSE m \in S

MayServe(S, key, m) ==
    /\ m \in S
    /\ IF Sticky(S, key)
       THEN m = bound[key]
       ELSE strategy = "StrictRoundRobin" => ~ \E n \in S : <<n, m>> \in older

\* A request that any member of S could serve is answered with m.
Serve(S, key, m) ==
    /\ MayServe(S, key, m)
    /\ asked' = [offered |-> S, scope |-> key]
    /\ picked' = m
    /\ IF m \in active
       THEN /\ Place(m)
            /\ IF Sticky(S, key) THEN Pin(key, m) ELSE PinForgetting(key, m)
       ELSE UNCHANGED <<tracked, older, bound>>
    /\ UNCHANGED <<strategy, active>>

\* Only a request that nobody can serve is refused.
Refuse(key) ==
    /\ asked' = [offered |-> {}, scope |-> key]
    /\ picked' = NoMember
    /\ UNCHANGED <<strategy, active, tracked, older, bound>>

\* The caller names the member itself.
Force(m, key) ==
    /\ m \in active
    /\ Place(m)
    /\ Pin(key, m)
    /\ UNCHANGED <<strategy, active, asked, picked>>

SetStrategy(s) ==
    /\ strategy' = s
    /\ UNCHANGED <<active, tracked, older, bound, asked, picked>>

\* The pool changes: departed members lose their place and their scopes.
Retain(live) ==
    /\ active' = live
    /\ tracked' = tracked \intersect live
    /\ older' = {p \in Member \X Member : /\ p[2] \in tracked \intersect live
                                          /\ p[1] \notin live \/ p \in older}
    /\ bound' = [k \in Key |-> IF bound[k] \in live THEN bound[k] ELSE NoMember]
    /\ UNCHANGED <<strategy, asked, picked>>

Next ==
    \/ \E s \in {"StrictRoundRobin", "FillFirst"} : SetStrategy(s)
    \/ \E S \in SUBSET Member, key \in Key \union {NoKey}, m \in Member : Serve(S, key, m)
    \/ \E key \in Key \union {NoKey} : Refuse(key)
    \/ \E m \in Member, key \in Key \union {NoKey} : Force(m, key)
    \/ \E live \in SUBSET Member : Retain(live)

Spec == Init /\ [][Next]_vars

-----------------------------------------------------------------------------

\* Only scopes are bound, and only to members; the rotation is about members.
TypeOK ==
    /\ strategy \in {"StrictRoundRobin", "FillFirst"}
    /\ active \subseteq Member
    /\ tracked \subseteq Member
    /\ older \subseteq Member \X Member
    /\ bound \in [Key -> Member \union {NoMember}]
    /\ asked \in [offered : SUBSET Member, scope : Key \union {NoKey}]
    /\ picked \in asked.offered \union {NoMember}

\* Service order survives churn: of two members in the rotation exactly one was
\* served first, the order has no cycles, and a member that never served (or left
\* and came back) comes before every one that did.
RotationIsTotal ==
    /\ \A a, b \in tracked : a # b => (<<a, b>> \in older <=> <<b, a>> \notin older)
    /\ \A a, b, c \in Member : <<a, b>> \in older /\ <<b, c>> \in older => <<a, c>> \in older
    /\ \A a, b \in Member : a \notin tracked => (<<a, b>> \in older <=> b \in tracked)

\* A request that names no scope and can be served by m and by members of the
\* pool only.
OpenRequest(m) ==
    \E S \in SUBSET active : m \in S /\ \E n \in Member : Serve(S, NoKey, n)

\* Traffic on a pool that no longer changes: scoped requests offer and pin what
\* they like, every other request offers m.
SteadyNext(m) ==
    \/ OpenRequest(m)
    \/ \E S \in SUBSET active, key \in Key, n \in Member : Serve(S, key, n)
    \/ \E n \in Member, key \in Key \union {NoKey} : Force(n, key)

\* Requests keep arriving.
FairSpec == Spec /\ \A m \in Member : WF_vars(OpenRequest(m))

\* The service credited last is m's.
LatestServed(m) == m \in tracked /\ \A n \in Member : <<m, n>> \notin older

\* Round robin starves nobody: once the pool is stable, a member that every
\* unpinned request could use is credited with a service again and again, however
\* the pinned and forced requests of other scopes are interleaved.  (select_forced
\* credits its member without select returning it, so "picked" alone would not do.)
NobodyStarves ==
    \A m \in Member :
        (/\ <>[](strategy = "StrictRoundRobin" /\ m \in active)
         /\ <>[][SteadyNext(m)]_vars) => []<>LatestServed(m)
=============================================================================
