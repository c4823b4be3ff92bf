---- MODULE Trajectories ----
(***************************************************************************)
(* Conversations without a session id, recognised by the turns they have   *)
(* in common: crates/router/src/lcp.rs and its use by HierarchyContext in  *)
(* crates/gateway/src/relay.rs.                                            *)
(*                                                                         *)
(* A trajectory is the sequence of its turns' digests, the environment     *)
(* first.  Digests are taken to be distinct for distinct contents.  The    *)
(* groups are in the order of their access numbers, which only bind gives. *)
(* Every prefix of one turn counts (min_prefix is 1), so two trajectories  *)
(* with the same environment always match, and the search for a common     *)
(* tail, which wants the same environment, finds nothing: it is left out.  *)
(***************************************************************************)
EXTENDS Naturals, Sequences, SequencesExt, FiniteSets

CONSTANTS Asker,              \* requests at a time
          Space,              \* namespaces: caller, provider and model
          Environment, Turn,  \* digests
          MaxTurns, MaxGroups, MaxPrefixes, TtlMs,  \* Bounds
          Member,             \* accounts
          MaxTime, MaxAsked   \* bounds: the clock, requests

VARIABLES groups,   \* Matcher.groups
          asking,   \* each request: nothing, or what it resolved
          now, asked,
          alone     \* history: no two requests of a namespace overlapped

trajectoryVars == <<groups, asking, now, asked, alone>>

NoAsk == [pc |-> "idle"]
NoMember == "none"
Trajectory == {<<e>> \o t : e \in Environment, t \in SeqOf(Turn, MaxTurns - 1) \ {<<>>}}

Total(gs) == FoldLeft(LAMBDA n, g : n + Len(g.turns), 0, gs)
TooMany(gs) == Len(gs) > MaxGroups \/ Total(gs) > MaxPrefixes

\* Mutant: the ones bound last go first.
MutTrimmed(gs) ==
    LET keep == CHOOSE k \in 0..Len(gs) : ~TooMany(SubSeq(gs, 1, Len(gs) - k)) /\ \A j \in 0..(k - 1) : TooMany(SubSeq(gs, 1, Len(gs) - j))
    IN SubSeq(gs, 1, Len(gs) - keep)

\* The groups that stay when the ones bound longest ago go first.
Trimmed(gs) ==
    LET drop == CHOOSE k \in 0..Len(gs) : /\ ~TooMany(SubSeq(gs, k + 1, Len(gs)))
                                          /\ \A j \in 0..(k - 1) : TooMany(SubSeq(gs, j + 1, Len(gs)))
    IN SubSeq(gs, drop + 1, Len(gs))

Live(gs) == SelectSeq(gs, LAMBDA g : now < g.expires)
Common(s, t) == CHOOSE n \in 0..Len(s) : /\ n <= Len(t) /\ SubSeq(s, 1, n) = SubSeq(t, 1, n)
                                         /\ n = Len(s) \/ n = Len(t) \/ s[n + 1] # t[n + 1]

\* hierarchy_digest of a prefix, and of a prefix under the root.
session_id(prefix) == <<"root">> \o prefix

\* Mutant: the group bound last is taken before the one with more turns in common.
MutBest(gs, space, turns) ==
    CHOOSE i \in DOMAIN gs : /\ gs[i].space = space /\ Common(gs[i].turns, turns) >= 1
                             /\ \A j \in DOMAIN gs : gs[j].space = space /\ Common(gs[j].turns, turns) >= 1 => j <= i

\* The most turns in common, then the longest, then the one bound last.
Best(gs, space, turns) ==
    CHOOSE i \in DOMAIN gs :
        /\ gs[i].space = space /\ Common(gs[i].turns, turns) >= 1
        /\ \A j \in DOMAIN gs : gs[j].space = space =>
              LET c == Common(gs[i].turns, turns)
                  d == Common(gs[j].turns, turns)
              IN \/ c > d
                 \/ c = d /\ Len(gs[i].turns) > Len(gs[j].turns)
                 \/ c = d /\ Len(gs[i].turns) = Len(gs[j].turns) /\ i >= j

Matched(gs, space, turns) == \E i \in DOMAIN gs : gs[i].space = space /\ Common(gs[i].turns, turns) >= 1

\* Mutant: a fork keeps the session of what it forked from.
MutForked(g, turns) == g.session

Forked(g, turns) ==
    LET c == Common(g.turns, turns)
    IN IF c < Len(g.turns) /\ c < Len(turns) THEN session_id(SubSeq(turns, 1, c + 1)) ELSE g.session

\* The binding that resolve finds: that of the best group, as a session of
\* its own when the trajectory forks off it, or a cold one.
resolve(gs, space, turns) ==
    IF Matched(gs, space, turns)
    THEN LET g == gs[Best(gs, space, turns)] IN [session |-> Forked(g, turns), member |-> g.member]
    ELSE [session |-> session_id(SubSeq(turns, 1, 1)), member |-> NoMember]

Resolve(a, space, turns) ==
    LET gs == Trimmed(Live(groups)) IN
    /\ asking[a].pc = "idle" /\ asked < MaxAsked
    /\ asked' = asked + 1
    /\ asking' = [asking EXCEPT ![a] =
          [pc |-> "resolved", space |-> space, turns |-> turns, binding |-> resolve(gs, space, turns)]]
    /\ groups' = IF Matched(gs, space, turns)
                 THEN [gs EXCEPT ![Best(gs, space, turns)].expires = now + TtlMs] ELSE gs
    /\ alone' = (alone /\ \A b \in Asker : asking[b].pc = "resolved" => asking[b].space # space)
    /\ UNCHANGED now

\* The trajectory replaces an earlier one of the same turns.
bind(gs, r, m) ==
    LET others == SelectSeq(gs, LAMBDA g : now < g.expires /\ ~(g.space = r.space /\ g.turns = r.turns))
    IN Trimmed(Append(others, [space |-> r.space, turns |-> r.turns, session |-> r.binding.session,
                               member |-> m, expires |-> now + TtlMs]))

\* A turn that succeeded binds its trajectory to the account that served
\* it, the preferred one or, after a failover, another.
Bind(a, m) ==
    /\ asking[a].pc = "resolved"
    /\ groups' = bind(groups, asking[a], m)
    /\ asking' = [asking EXCEPT ![a] = NoAsk]
    /\ UNCHANGED <<now, asked, alone>>

\* A turn that failed binds nothing.
Fail(a) ==
    /\ asking[a].pc = "resolved"
    /\ asking' = [asking EXCEPT ![a] = NoAsk]
    /\ UNCHANGED <<groups, now, asked, alone>>

Tick ==
    /\ now < MaxTime
    /\ now' = now + 1
    /\ UNCHANGED <<groups, asking, asked, alone>>

TrajectoryInit ==
    /\ groups = <<>> /\ now = 0 /\ asked = 0 /\ alone = TRUE
    /\ asking = [a \in Asker |-> NoAsk]

TrajectoryNext ==
    \/ \E a \in Asker : \/ Fail(a)
                        \/ \E m \in Member : Bind(a, m)
                        \/ \E s \in Space, t \in Trajectory : Resolve(a, s, t)
    \/ Tick

TrajectorySpec == TrajectoryInit /\ [][TrajectoryNext]_trajectoryVars

(***************************************************************************)
(* Properties.                                                             *)
(***************************************************************************)

LatestIsKeptStep ==
    \A a \in Asker : (\E m \in Member : Bind(a, m)) =>
        ~TooMany(groups') /\ \E i \in DOMAIN groups' : groups'[i].turns = asking[a].turns
\* The matcher stays within its bounds, and room is made by the trajectories
\* bound longest ago, never by the one just bound (bind).
LatestIsKept == [][LatestIsKeptStep]_trajectoryVars

\* When requests do not overlap, two trajectories that have parted have
\* different sessions, so that neither is served from the other's cache
\* (resolve).
SiblingsAreApart ==
    alone => \A i, j \in DOMAIN groups :
        groups[i].space = groups[j].space /\ groups[i].session = groups[j].session =>
            IsPrefix(groups[i].turns, groups[j].turns) \/ IsPrefix(groups[j].turns, groups[i].turns)

GrowthKeepsTheAccountStep ==
    \A a \in Asker : asking[a].pc = "idle" /\ asking'[a].pc = "resolved" =>
        LET r == asking'[a]
            live == {i \in DOMAIN groups : groups[i].space = r.space /\ now < groups[i].expires}
            grown == {i \in live : IsPrefix(groups[i].turns, r.turns)}
            last == CHOOSE i \in grown : \A j \in grown : Len(groups[j].turns) <= Len(groups[i].turns)
        IN grown # {} /\ (\A i \in live \ grown : Common(groups[i].turns, r.turns) < Len(groups[last].turns))
           => r.binding.member = groups[last].member /\ r.binding.session = groups[last].session
\* A conversation that has grown, and that nothing else has in common with
\* as far, goes on with its session and is offered the account that served
\* its last turn (resolve, preferred_index).
GrowthKeepsTheAccount == [][GrowthKeepsTheAccountStep]_trajectoryVars
====
