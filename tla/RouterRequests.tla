--------------------------- MODULE RouterRequests ---------------------------
(***************************************************************************)
(* The router together with the request each select answered, which the    *)
(* router itself does not keep: what its caller sees, and the mapping to   *)
(* the abstract Selection.                                                 *)
(***************************************************************************)
EXTENDS Router

VARIABLE asked   \* history: the candidates and the scope of the latest select

requestVars == <<vars, asked>>

\* The members a candidate list offers.
Offered(members, avail) == {members[i] : i \in Available(members, avail)}

RequestInit == Init /\ asked = [offered |-> {}, scope |-> NoKey]

\* Router::select
Select(members, avail, key) ==
    /\ \/ SelectBound(members, avail, key)
       \/ SelectFillFirst(members, avail, key)
       \/ SelectStrictRoundRobin(members, avail, key)
       \/ SelectNone(members, avail)
    /\ asked' = [offered |-> Offered(members, avail), scope |-> key]

RequestNext ==
    \/ \E members \in Pools, avail \in SUBSET Member, key \in Key \union {NoKey} :
          Select(members, avail, key)
    \/ /\ \/ \E s \in Strategies : SetStrategy(s)
          \/ \E m \in Member, key \in Key \union {NoKey} : SelectForced(m, key)
          \/ \E live \in SUBSET Member : RetainMembers(live)
       /\ UNCHANGED asked

RequestSpec == RequestInit /\ [][RequestNext]_requestVars

-----------------------------------------------------------------------------

\* The abstract state behind the counters.
Older == {p \in Member \X Member : last_served[p[1]] < last_served[p[2]]}

Bound == [k \in Key |-> affinity[k].id]

Sel == INSTANCE Selection WITH tracked <- Tracked, older <- Older, bound <- Bound

\* Stamping with one growing counter answers every request as promised: sticky
\* scopes, least-recently-served rotation under churn, a refusal only when nobody
\* can serve, and no memory of members outside the allowlist.
ImplementsSelection == Sel!Spec
=============================================================================
