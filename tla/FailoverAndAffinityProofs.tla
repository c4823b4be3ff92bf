---------------------- MODULE FailoverAndAffinityProofs ---------------------
(***************************************************************************)
(* Which accounts a request may reach, for any accounts, sessions and      *)
(* limits.  The failover walk, where the gateway selects the account       *)
(* itself: a request repeats itself no more often than its rounds allow,   *)
(* and gives up only when it must.  The durable pins, for any cap and any  *)
(* TTL: the cap is exceeded by ties only, pins are taken from the idlest   *)
(* sessions, and a clean store is on disk.                                 *)
(***************************************************************************)
EXTENDS Failover, AffinityStore, FiniteSetTheorems, WellFoundedInduction, TLAPS

\* Rounds, of the accounts a request began with.
RoundsOf(S) == Max({RetryLimit[m] : m \in S} \union {0})

\* The most accounts a round may try.
Width(S) == Max({Cardinality(S), 1})

\* The locals of one walk: attempted holds exactly what this round tried, so that it
\* bounds both the attempts charged to the round and, with the earlier rounds, all.
Walks(q) ==
    /\ q \in Locals
    /\ q.attempted \subseteq q.initial
    /\ q.excluded \subseteq q.initial \intersect Claude
    /\ q.round <= RoundsOf(q.initial)
    /\ q.at \in {"chosen", "upstream"} => q.round_attempts > 0 /\ q.member \in Member
    /\ ~Home =>
          /\ q.round_attempts <= Cardinality(q.attempted)
          /\ q.tries <= q.round * Width(q.initial) + Cardinality(q.attempted)
          /\ q.at \in {"chosen", "upstream"} => q.member \in q.attempted

IInv ==
    /\ health \in [Member -> {"ok", "cooldown", "auth_failed"}]
    /\ suspected \subseteq Claude /\ denials \subseteq Claude
    /\ req \in [Request -> Locals]
    /\ \A r \in Request : Walks(req[r])

-----------------------------------------------------------------------------
\* Numbers

\* A finite set that is not empty has an element where f is greatest: take a smallest
\* subset without one, and an element away from it.
LEMMA Greatest ==
    ASSUME NEW S, IsFiniteSet(S), S # {}, NEW f, \A x \in S : f[x] \in Nat
    PROVE  \E x \in S : \A y \in S : f[y] <= f[x]
<1> DEFINE Has(T) == \E x \in T : \A y \in T : f[y] <= f[x]
           Bad == {n \in Nat : \E T \in SUBSET S : T # {} /\ ~Has(T) /\ Cardinality(T) = n}
<1>1. \A T \in SUBSET S : IsFiniteSet(T) /\ Cardinality(T) \in Nat
  BY FS_Subset, FS_CardinalityType, Zenon
<1>2. SUFFICES ASSUME Bad # {} PROVE FALSE
  <2>1. Has(S) \/ Cardinality(S) \in Bad
    BY <1>1, Zenon
  <2> QED
    BY <1>2, <2>1, Zenon
<1>3. PICK n \in Bad : \A k \in Bad : ~(k < n)
  <2>1. PICK n \in Bad : \A k \in Bad : ~ (<<k, n>> \in OpToRel(<, Nat))
    <3>1. Bad \subseteq Nat
      BY Zenon
    <3> QED
      BY <1>2, <3>1, WFMin, NatLessThanWellFounded, Zenon
  <2> QED
    BY <2>1, Zenon DEF OpToRel
<1>4. PICK T \in SUBSET S : T # {} /\ ~Has(T) /\ Cardinality(T) = n
  BY <1>3, Zenon
<1>5. PICK x \in T : TRUE
  BY <1>4, Zenon
<1> DEFINE U == T \ {x}
<1>6. U \in SUBSET S /\ Cardinality(U) \in Nat /\ Cardinality(U) < n
  BY <1>1, <1>4, <1>5, FS_RemoveElement
<1>7. U = {} \/ Has(U)
  BY <1>3, <1>6, Zenon
<1>8. Has(T)
  <2>1. CASE U = {}
    BY <1>5, <2>1
  <2>2. CASE Has(U)
    <3>1. PICK y \in U : \A z \in U : f[z] <= f[y]
      BY <2>2, Zenon
    <3>2. CASE f[x] <= f[y]
      BY <1>5, <3>1, <3>2, Zenon
    <3>3. CASE ~(f[x] <= f[y])
      <4>1. \A z \in T : f[z] <= f[x]
        BY <1>5, <3>1, <3>3
      <4> QED
        BY <1>5, <4>1, Zenon
    <3> QED
      BY <3>2, <3>3, Zenon
  <2> QED
    BY <1>7, <2>1, <2>2, Zenon
<1> QED
  BY <1>4, <1>8, Zenon

\* What Max returns, once a greatest element is known.
LEMMA MaxIs ==
    ASSUME NEW S, S \subseteq Nat, NEW m \in S, \A y \in S : m >= y
    PROVE  Max(S) = m
<1>1. \A x \in S : (\A y \in S : x >= y) => x = m
  OBVIOUS
<1> QED
  BY <1>1, Zenon DEF Max

\* The number of rounds is a number, for every set of accounts.
LEMMA RoundsType == ASSUME NEW S \in SUBSET Member PROVE RoundsOf(S) \in Nat
<1> DEFINE V == {RetryLimit[m] : m \in S} \union {0}
<1>1. V \subseteq Nat
  BY FailoverBounds
<1>2. CASE S = {}
  <2>1. V = {0}
    BY <1>2, Zenon
  <2> HIDE DEF V
  <2>2. Max(V) = 0
    BY <2>1, MaxIs
  <2> QED
    BY <2>2 DEF RoundsOf, V
<1>3. CASE S # {}
  <2>1. IsFiniteSet(S)
    BY FS_Subset, MemberAssumption, Zenon
  <2>2. \A x \in S : RetryLimit[x] \in Nat
    BY FailoverBounds, Zenon
  <2>3. PICK x \in S : \A y \in S : RetryLimit[y] <= RetryLimit[x]
    BY <1>3, <2>1, <2>2, Greatest, Zenon
  <2>4. RetryLimit[x] \in V /\ \A y \in V : RetryLimit[x] >= y
    BY <2>2, <2>3
  <2>5. Max(V) = RetryLimit[x]
    <3> HIDE DEF V
    <3> QED
      BY <1>1, <2>4, MaxIs, Zenon
  <2> QED
    BY <2>2, <2>5, Zenon DEF RoundsOf
<1> QED
  BY <1>2, <1>3, Zenon

\* A round is at least one account wide, and at least as wide as what it tried.
LEMMA WidthType ==
    ASSUME NEW S \in SUBSET Member, NEW T \in SUBSET S
    PROVE  /\ Cardinality(S) \in Nat /\ Cardinality(T) \in Nat /\ IsFiniteSet(T)
           /\ Width(S) \in Nat /\ Width(S) >= 1 /\ Cardinality(T) <= Width(S)
<1>1. /\ IsFiniteSet(S) /\ IsFiniteSet(T) /\ Cardinality(T) <= Cardinality(S)
      /\ Cardinality(S) \in Nat /\ Cardinality(T) \in Nat
  BY FS_Subset, FS_CardinalityType, MemberAssumption, Zenon
<1> DEFINE n == Cardinality(S)
           V == {n, 1}
           m == IF n >= 1 THEN n ELSE 1
<1>2. V \subseteq Nat /\ m \in V /\ \A y \in V : m >= y
  BY <1>1
<1>3. Max(V) = m
  <2> HIDE DEF V, m
  <2> QED
    BY <1>2, MaxIs, Zenon
<1> QED
  BY <1>1, <1>3 DEF Width

-----------------------------------------------------------------------------
\* The locals of one walk

\* A request that has not begun, or has been answered, and one that begins.
LEMMA IdleWalks ==
    /\ Walks(Idle)
    /\ \A S \in SUBSET Member : Walks([Idle EXCEPT !.at = "walk", !.initial = S])
<1>1. ASSUME NEW S \in SUBSET Member, NEW q \in Locals,
             q.at \in {"idle", "walk"}, q.initial = S, q.attempted = {}, q.excluded = {},
             q.round = 0, q.round_attempts = 0, q.tries = 0
      PROVE  Walks(q)
  <2>1. RoundsOf(S) \in Nat
    BY RoundsType, Zenon
  <2>2. Cardinality({}) = 0 /\ Width(S) \in Nat
    BY WidthType, FS_EmptySet, Zenon
  <2> QED
    BY <1>1, <2>1, <2>2 DEF Walks
<1>2. Walks(Idle)
  <2>1. Idle \in Locals
    BY Zenon DEF Idle, Locals
  <2> QED
    BY <1>1, <2>1, Zenon DEF Idle
<1>3. ASSUME NEW S \in SUBSET Member PROVE Walks([Idle EXCEPT !.at = "walk", !.initial = S])
  <2>1. [Idle EXCEPT !.at = "walk", !.initial = S] \in Locals
    BY Zenon DEF Idle, Locals
  <2> QED
    BY <1>1, <2>1, Zenon DEF Idle
<1> QED
  BY <1>2, <1>3, Zenon

\* A choice adds an account to the round, one this round has not tried.
LEMMA ChoiceWalks ==
    ASSUME NEW q, Walks(q), q.at = "walk", NEW m \in Member,
           ~Home => m \in q.initial \ q.attempted, NEW o,
           o = [q EXCEPT !.at = "chosen", !.member = m, !.retryable = FALSE,
                  !.attempted = IF Home THEN @ ELSE @ \union {m},
                  !.round_attempts = @ + 1, !.tries = @ + 1,
                  !.refreshed = FALSE, !.replay = FALSE]
    PROVE  Walks(o)
<1>1. q \in Locals /\ q.initial \in SUBSET Member /\ q.attempted \in SUBSET q.initial
      /\ q.round \in Nat /\ q.round_attempts \in Nat /\ q.tries \in Nat
  BY Zenon DEF Walks, Locals
<1> DEFINE tried == IF Home THEN q.attempted ELSE q.attempted \union {m}
<1>2. tried \in SUBSET Member
  BY <1>1, Zenon
<1>3. /\ o.at = "chosen" /\ o.member = m /\ o.attempted = tried /\ o.initial = q.initial
      /\ o.excluded = q.excluded /\ o.round = q.round
      /\ o.round_attempts = q.round_attempts + 1 /\ o.tries = q.tries + 1
  BY <1>1, Zenon DEF Locals
<1>4. o \in Locals
  <2> DEFINE k == q.round_attempts + 1
             n == q.tries + 1
             place == "chosen"
  <2>1. k \in Nat /\ n \in Nat /\ place \in {"idle", "walk", "chosen", "upstream"}
        /\ m \in Member \union {NoMember}
    BY <1>1
  <2> DEFINE half == [q EXCEPT !.at = place, !.member = m, !.retryable = FALSE,
                               !.attempted = tried]
  <2>2. o = [half EXCEPT !.round_attempts = k, !.tries = n, !.refreshed = FALSE,
                         !.replay = FALSE]
    BY <1>1, Zenon DEF Locals
  <2> HIDE DEF tried, k, n, place
  <2>3. half \in Locals
    BY <1>1, <1>2, <2>1, Zenon DEF Locals
  <2> HIDE DEF half
  <2> QED
    BY <2>1, <2>2, <2>3, ZenonT(60) DEF Locals
<1>5. CASE Home
  BY <1>1, <1>3, <1>4, <1>5 DEF Walks
<1>6. CASE ~Home
  <2>1. Cardinality(o.attempted) = Cardinality(q.attempted) + 1
    BY <1>1, <1>3, <1>6, WidthType, FS_AddElement
  <2>2. Cardinality(q.attempted) \in Nat /\ Width(q.initial) \in Nat
    BY <1>1, WidthType, Zenon
  <2>3. q.round * Width(q.initial) \in Nat
    BY <1>1, <2>2
  <2> DEFINE past == q.round * Width(q.initial)
  <2>4. q.tries <= past + Cardinality(q.attempted)
        /\ q.round_attempts <= Cardinality(q.attempted)
    BY <1>6, Zenon DEF Walks
  <2>5. past = o.round * Width(o.initial)
    BY <1>3, Zenon
  <2> HIDE DEF past
  <2>6. o.tries <= past + Cardinality(o.attempted)
        /\ o.round_attempts <= Cardinality(o.attempted)
    BY <1>1, <1>3, <2>1, <2>2, <2>3, <2>4 DEF past
  <2> QED
    BY <1>1, <1>3, <1>4, <1>6, <2>5, <2>6 DEF Walks
<1> QED
  BY <1>5, <1>6, Zenon

\* A new round forgets what the one before it tried.
LEMMA RoundWalks ==
    ASSUME NEW q, Walks(q), q.at = "walk", q.round < RoundsOf(q.initial), NEW o,
           o = [q EXCEPT !.round = @ + 1, !.round_attempts = 0, !.retryable = FALSE,
                  !.budget = 0, !.attempted = {}]
    PROVE  Walks(o)
<1>1. q \in Locals /\ q.initial \in SUBSET Member /\ q.attempted \in SUBSET q.initial
      /\ q.round \in Nat /\ q.tries \in Nat
  BY Zenon DEF Walks, Locals
<1>2. o \in Locals
  <2> DEFINE k == q.round + 1
             none == {}
  <2>1. k \in Nat /\ none \in SUBSET Member /\ 0 \in Nat
    BY <1>1
  <2>2. o = [q EXCEPT !.round = k, !.round_attempts = 0, !.retryable = FALSE,
                      !.budget = 0, !.attempted = none]
    BY Zenon
  <2> HIDE DEF k, none
  <2> QED
    BY <1>1, <2>1, <2>2, ZenonT(60) DEF Locals
<1>3. /\ o.at = "walk" /\ o.initial = q.initial /\ o.excluded = q.excluded
      /\ o.attempted = {} /\ o.round = q.round + 1 /\ o.round_attempts = 0
      /\ o.tries = q.tries
  BY <1>1, Zenon DEF Locals
<1>4. RoundsOf(q.initial) \in Nat
  BY <1>1, RoundsType, Zenon
<1>5. ~Home => o.tries <= o.round * Width(o.initial) + Cardinality(o.attempted)
  <2>1. /\ Cardinality(q.attempted) \in Nat /\ Width(q.initial) \in Nat
        /\ Cardinality(q.attempted) <= Width(q.initial)
    BY <1>1, WidthType, Zenon
  <2>2. Cardinality({}) = 0
    BY FS_EmptySet, Zenon
  <2>3. (q.round + 1) * Width(q.initial) = q.round * Width(q.initial) + Width(q.initial)
    BY <1>1, <2>1
  <2>4. q.round * Width(q.initial) \in Nat
    BY <1>1, <2>1
  <2> DEFINE past == q.round * Width(q.initial)
  <2>5. ~Home => q.tries <= past + Cardinality(q.attempted)
    BY Zenon DEF Walks
  <2> HIDE DEF past
  <2>6. ~Home => q.tries <= past + Width(q.initial)
    BY <1>1, <2>1, <2>4, <2>5 DEF past
  <2> QED
    BY <1>3, <2>1, <2>2, <2>3, <2>4, <2>6 DEF past
<1>6. Cardinality(o.attempted) = 0
  BY <1>3, FS_EmptySet, Zenon
<1> QED
  BY <1>1, <1>2, <1>3, <1>4, <1>5, <1>6 DEF Walks

\* A failed attempt, however it is charged, and with it a denied replay.
LEMMA ChargeWalks ==
    ASSUME NEW q, Walks(q), q.at \in {"chosen", "upstream"}, NEW c \in Charges
    PROVE  Walks(Charged(q, c))
<1> DEFINE o == Charged(q, c)
<1>1. /\ q \in Locals /\ q.round_attempts \in Nat /\ q.round_attempts > 0 /\ q.budget \in Nat
      /\ c.free \in BOOLEAN /\ c.retryable \in BOOLEAN
  BY Zenon DEF Walks, Locals, Charges
<1> DEFINE spent == IF c.free THEN q.budget ELSE q.budget + 1
           left == IF c.free THEN q.round_attempts - 1 ELSE q.round_attempts
<1>2. spent \in Nat /\ left \in Nat /\ left <= q.round_attempts
  BY <1>1
<1>3. o = [q EXCEPT !.at = "walk", !.budget = spent, !.round_attempts = left,
                    !.retryable = c.retryable]
  BY Zenon DEF Charged
<1> HIDE DEF spent, left, o
<1>4. o \in Locals
  BY <1>1, <1>2, <1>3, Zenon DEF Locals
<1>5. /\ o.at = "walk" /\ o.initial = q.initial /\ o.excluded = q.excluded
      /\ o.attempted = q.attempted /\ o.round = q.round /\ o.round_attempts = left
      /\ o.tries = q.tries
  BY <1>1, <1>3, Zenon DEF Locals
<1>6. Cardinality(q.attempted) \in Nat
  <2>1. q.initial \in SUBSET Member /\ q.attempted \in SUBSET q.initial
    BY Zenon DEF Walks, Locals
  <2> QED
    BY <2>1, WidthType, Zenon
<1>7. Walks(o)
  BY <1>1, <1>2, <1>4, <1>5, <1>6 DEF Walks
<1> QED
  BY <1>7, Zenon DEF o

\* A Claude 403 on a replay excludes an account the request began with.
LEMMA DenialWalks ==
    ASSUME NEW q, Walks(q), q.at = "upstream", ~Home, q.member \in Claude, NEW o,
           o = [Charged(q, Transport) EXCEPT !.excluded = @ \union {q.member},
                                             !.denier = q.member]
    PROVE  Walks(o)
<1> DEFINE p == Charged(q, Transport)
<1>1. Walks(p)
  BY ChargeWalks, Zenon DEF Charges, Transport
<1>2. p.at = "walk" /\ p.initial = q.initial
  BY Zenon DEF Charged, Walks, Locals
<1>3. q.member \in q.initial \intersect Claude /\ q.member \in Member
  BY Zenon DEF Walks, Locals
<1> HIDE DEF p
<1>4. p \in Locals /\ p.excluded \union {q.member} \in SUBSET Member
  BY <1>1, <1>3, Zenon DEF Walks, Locals
<1>5. /\ o.at = "walk" /\ o.initial = p.initial /\ o.attempted = p.attempted
      /\ o.excluded = p.excluded \union {q.member} /\ o.round = p.round
      /\ o.round_attempts = p.round_attempts /\ o.tries = p.tries
  BY <1>2, <1>4, Zenon DEF Locals, p
<1>6. o \in Locals
  <2> DEFINE e == p.excluded \union {q.member}
  <2>1. o = [p EXCEPT !.excluded = e, !.denier = q.member] /\ e \in SUBSET Member
    BY <1>4, Zenon DEF p
  <2> HIDE DEF e
  <2> QED
    BY <1>3, <1>4, <2>1, ZenonT(60) DEF Locals
<1> QED
  BY <1>1, <1>2, <1>3, <1>5, <1>6, Zenon DEF Walks

-----------------------------------------------------------------------------
\* The inductive invariant

\* A gateway that has just started.
LEMMA InitIInv == Init => IInv
<1>1. Walks(Idle) /\ Idle \in Locals
  BY IdleWalks, Zenon DEF Walks
<1> QED
  BY <1>1, Zenon DEF Init, IInv

\* Whatever a request meets, and whatever the others do to the accounts it shares.
LEMMA StepIInv == IInv /\ [Next]_vars => IInv'
<1> SUFFICES ASSUME IInv, [Next]_vars PROVE IInv'
  BY Zenon
<1>0. ASSUME NEW r \in Request, NEW o, Walks(o), Set(r, o)
      PROVE  req' \in [Request -> Locals] /\ \A s \in Request : Walks(req'[s])
  <2>1. o \in Locals
    BY <1>0, Zenon DEF Walks
  <2>2. req' = [req EXCEPT ![r] = o] /\ req \in [Request -> Locals]
    BY <1>0, Zenon DEF Set, IInv
  <2> QED
    BY <1>0, <2>1, <2>2, Zenon DEF IInv
<1>1. ASSUME NEW r \in Request, NEW o, Walks(o), Set(r, o), UNCHANGED <<health, suspected, denials>>
      PROVE  IInv'
  BY <1>0, <1>1, Zenon DEF IInv
<1>2. ASSUME NEW r \in Request, req[r].at \in {"chosen", "upstream"}, NEW c \in Charges, Fail(r, c)
      PROVE  IInv'
  <2>1. Walks(req[r])
    BY Zenon DEF IInv
  <2>2. Walks(Charged(req[r], c))
    BY <1>2, <2>1, ChargeWalks, Zenon
  <2>3. health' \in [Member -> {"ok", "cooldown", "auth_failed"}]
    BY <1>2, Zenon DEF Fail, Bench, Charges, IInv
  <2> QED
    BY <1>0, <1>2, <2>2, <2>3, Zenon DEF Fail, IInv
<1>3. AuthRejected \in Charges /\ Transport \in Charges
  BY Zenon DEF AuthRejected, Transport, Charges
<1>4. ASSUME NEW m \in Claude, NEW e \in BOOLEAN, RecordDenial(m, e)
      PROVE  suspected' \subseteq Claude /\ denials' \subseteq Claude
  BY <1>4, Zenon DEF RecordDenial, IInv
<1>5. ASSUME NEW r \in Request, Begin(r) PROVE IInv'
  <2>1. Routable \in SUBSET Member
    BY Zenon DEF Routable
  <2>2. Walks([Idle EXCEPT !.at = "walk", !.initial = Routable])
    BY <2>1, IdleWalks, Zenon
  <2> QED
    BY <1>1, <1>5, <2>2, Zenon DEF Begin
<1>6. ASSUME NEW r \in Request, NEW m \in Member, Choose(r, m) PROVE IInv'
  <2>1. Walks(req[r]) /\ (~Home => m \in req[r].initial \ req[r].attempted) /\ req[r].at = "walk"
    BY <1>6, Zenon DEF IInv, Choose, Candidates
  <2>2. PICK o : Walks(o) /\ Set(r, o)
    BY <1>6, <2>1, ChoiceWalks, Zenon DEF Choose
  <2> QED
    BY <1>1, <1>6, <2>2, Zenon DEF Choose
<1>7. ASSUME NEW r \in Request, NextRound(r) PROVE IInv'
  <2>1. Walks(req[r]) /\ req[r].at = "walk" /\ req[r].round < RoundsOf(req[r].initial)
    BY <1>7, Zenon DEF IInv, NextRound, MayRetry, Rounds, RoundsOf
  <2>2. PICK o : Walks(o) /\ Set(r, o)
    BY <1>7, <2>1, RoundWalks, Zenon DEF NextRound
  <2> QED
    BY <1>1, <1>7, <2>2, Zenon DEF NextRound
<1>8. ASSUME NEW r \in Request, GiveUp(r) \/ Succeed(r) \/ ReturnError(r) PROVE IInv'
  BY <1>1, <1>8, IdleWalks, Zenon DEF GiveUp, Succeed, ReturnError
<1>9. ASSUME NEW r \in Request, NEW b \in BOOLEAN, Dial(r, b) PROVE IInv'
  <2> DEFINE q == req[r]
             o == [q EXCEPT !.at = "upstream", !.refreshed = b]
  <2>1. Walks(q) /\ q \in Locals /\ q.at = "chosen"
    BY <1>9, Zenon DEF IInv, Dial, Walks
  <2>2. /\ o \in Locals /\ o.at = "upstream" /\ o.initial = q.initial
        /\ o.attempted = q.attempted /\ o.excluded = q.excluded /\ o.round = q.round
        /\ o.round_attempts = q.round_attempts /\ o.tries = q.tries /\ o.member = q.member
    BY <2>1, Zenon DEF Locals
  <2>3. Set(r, o)
    BY <1>9, Zenon DEF Dial
  <2> HIDE DEF o, q
  <2>4. Walks(o)
    BY <2>1, <2>2, Zenon DEF Walks
  <2> QED
    BY <1>1, <1>9, <2>3, <2>4, Zenon DEF Dial
<1>10. ASSUME NEW r \in Request, DialFails(r) PROVE IInv'
  BY <1>2, <1>3, <1>10, Zenon DEF DialFails
<1>11. ASSUME NEW r \in Request, NEW c \in Charges, Reject(r, c) PROVE IInv'
  BY <1>2, <1>11, Zenon DEF Reject
<1>12. ASSUME NEW r \in Request, Unauthorized(r) PROVE IInv'
  <2> DEFINE q == req[r]
             o == [q EXCEPT !.replay = TRUE]
  <2>1. Walks(q) /\ q \in Locals /\ q.at = "upstream"
    BY <1>12, Zenon DEF IInv, Unauthorized, Walks
  <2>2. /\ o \in Locals /\ o.at = q.at /\ o.initial = q.initial
        /\ o.attempted = q.attempted /\ o.excluded = q.excluded /\ o.round = q.round
        /\ o.round_attempts = q.round_attempts /\ o.tries = q.tries /\ o.member = q.member
    BY <2>1, Zenon DEF Locals
  <2>3. \/ Set(r, o) /\ UNCHANGED <<health, suspected, denials>>
        \/ Fail(r, AuthRejected) \/ Fail(r, Transport)
    BY <1>12, Zenon DEF Unauthorized
  <2>4. req[r].at \in {"chosen", "upstream"}
    BY <2>1, Zenon
  <2> HIDE DEF o, q
  <2>5. Walks(o)
    BY <2>1, <2>2, Zenon DEF Walks
  <2> QED
    BY <1>1, <1>2, <1>3, <2>3, <2>4, <2>5, Zenon
<1>13. ASSUME NEW r \in Request, NEW e \in BOOLEAN, Denied(r, e) PROVE IInv'
  <2>1. suspected' \subseteq Claude /\ denials' \subseteq Claude
    BY <1>4, <1>13, Zenon DEF Denied
  <2> QED
    BY <1>0, <1>13, <2>1, IdleWalks, Zenon DEF Denied, IInv
<1>14. ASSUME NEW r \in Request, DeniedOnReplay(r) PROVE IInv'
  <2>1. Walks(req[r])
    BY Zenon DEF IInv
  <2>2. PICK o : Walks(o) /\ Set(r, o)
    <3>1. CASE Home
      BY <1>14, <3>1, IdleWalks, Zenon DEF DeniedOnReplay
    <3>2. CASE ~Home
      BY <1>14, <2>1, <3>2, DenialWalks, Zenon DEF DeniedOnReplay
    <3> QED
      BY <3>1, <3>2, Zenon
  <2> QED
    BY <1>1, <1>14, <2>2, Zenon DEF DeniedOnReplay
<1>15. ASSUME NEW m \in Member, NEW h \in {"ok", "cooldown", "auth_failed"}, HealthChanges(m, h)
       PROVE  IInv'
  BY <1>15, Zenon DEF HealthChanges, IInv
<1>16. ASSUME NEW m \in Member, Forgive(m) PROVE IInv'
  BY <1>16, Zenon DEF Forgive, IInv
<1>17. ASSUME NEW m \in Member, NEW e \in BOOLEAN, DeniedElsewhere(m, e) PROVE IInv'
  BY <1>4, <1>17, Zenon DEF DeniedElsewhere, IInv
<1>18. CASE UNCHANGED vars
  BY <1>18, Zenon DEF vars, IInv
<1> QED
  BY <1>5, <1>6, <1>7, <1>8, <1>9, <1>10, <1>11, <1>12, <1>13, <1>14, <1>15, <1>16, <1>17,
     <1>18, Zenon DEF Next, Step

\* The invariant of every walk.
LEMMA AlwaysIInv == Spec => []IInv
BY InitIInv, StepIInv, PTL DEF Spec

-----------------------------------------------------------------------------
\* Only Claude accounts are suspected, counted as denied or excluded, and a request
\* tries only accounts that handle_relay listed when it began.
THEOREM FailoverTypes == Spec => []TypeOK
<1>1. IInv => TypeOK
  BY Zenon DEF IInv, Walks, TypeOK
<1> QED
  BY <1>1, AlwaysIInv, PTL

\* handle_relay: no round tries an account twice, and no request starts more rounds
\* than the retry limits of its accounts allow.
THEOREM WalksAreBounded == ~Home /\ Spec => []RepetitionIsBounded
<1> SUFFICES ASSUME ~Home PROVE Spec => []RepetitionIsBounded
  BY Zenon
<1>1. IInv => RepetitionIsBounded
  <2> SUFFICES ASSUME IInv, NEW r \in Request
               PROVE  /\ req[r].round <= Rounds(r)
                      /\ req[r].tries <= (req[r].round + 1) * Width(req[r].initial)
    BY Zenon DEF RepetitionIsBounded, Width
  <2> DEFINE q == req[r]
             past == q.round * Width(q.initial)
  <2>1. /\ q.initial \in SUBSET Member /\ q.attempted \in SUBSET q.initial
        /\ q.round \in Nat /\ q.tries \in Nat /\ q.round <= RoundsOf(q.initial)
        /\ q.tries <= past + Cardinality(q.attempted)
    BY Zenon DEF IInv, Walks, Locals
  <2>2. /\ Cardinality(q.attempted) \in Nat /\ Width(q.initial) \in Nat
        /\ Cardinality(q.attempted) <= Width(q.initial)
    BY <2>1, WidthType, Zenon
  <2>3. past \in Nat /\ (q.round + 1) * Width(q.initial) = past + Width(q.initial)
    BY <2>1, <2>2
  <2> HIDE DEF past
  <2>4. q.tries <= past + Width(q.initial)
    BY <2>1, <2>2, <2>3
  <2> QED
    BY <2>1, <2>3, <2>4, Zenon DEF Rounds, RoundsOf
<1> QED
  BY <1>1, AlwaysIInv, PTL

\* The cap of a round is a number.
LEMMA RoundCapType ==
    ASSUME ~Home, IInv, NEW r \in Request
    PROVE  RoundCap(r) \in Nat
<1> DEFINE n == Cardinality(req[r].initial)
           V == {MaxCredentials, n}
           m == IF MaxCredentials <= n THEN MaxCredentials ELSE n
<1>1. n \in Nat /\ MaxCredentials \in Nat
  <2>1. req[r].initial \in SUBSET Member
    BY Zenon DEF IInv, Locals
  <2> QED
    BY <2>1, FS_Subset, FS_CardinalityType, MemberAssumption, FailoverBounds, Zenon
<1>2. m \in V /\ m \in Nat /\ (\A y \in V : m <= y)
      /\ \A x \in V : (\A y \in V : x <= y) => x = m
  BY <1>1
<1>3. Min(V) \in Nat
  <2> HIDE DEF V, m
  <2> QED
    BY <1>2, Zenon DEF Min
<1> QED
  BY <1>1, <1>3, Zenon DEF RoundCap

\* The only way out of the walk itself is the break of the loop.
LEMMA WalkEndsByGivingUp ==
    ASSUME IInv, Next, NEW r \in Request, req[r].at = "walk", req'[r] = Idle
    PROVE  GiveUp(r)
<1>0. /\ Idle.at = "idle" /\ req \in [Request -> Locals]
      /\ req[r] \in Locals /\ req'[r].at = "idle"
  BY DEF Idle, IInv
<1>1. ASSUME NEW s \in Request, NEW o, Set(s, o) PROVE s = r /\ req'[r] = o
  BY <1>0, <1>1, Zenon DEF Set
<1>2. ASSUME NEW s \in Request, NEW c, Fail(s, c) PROVE s = r
  BY <1>1, <1>2, Zenon DEF Fail
<1>3. ASSUME NEW s \in Request, Begin(s) PROVE FALSE
  BY <1>0, <1>1, <1>3, Zenon DEF Begin
<1>4. ASSUME NEW s \in Request, NEW m \in Member, Choose(s, m) PROVE FALSE
  <2>1. s = r /\ req'[r].at = "chosen"
    <3>1. PICK o : Set(s, o) /\ o.at = "chosen"
      <4> DEFINE o == [req[s] EXCEPT !.at = "chosen", !.member = m, !.retryable = FALSE,
                         !.attempted = IF Home THEN @ ELSE @ \union {m},
                         !.round_attempts = @ + 1, !.tries = @ + 1,
                         !.refreshed = FALSE, !.replay = FALSE]
      <4>1. Set(s, o)
        BY <1>4, Zenon DEF Choose
      <4>2. req[s] \in Locals
        BY <1>0, Zenon
      <4>3. o.at = "chosen"
        BY <4>2, Zenon DEF Locals
      <4> HIDE DEF o
      <4> QED
        BY <4>1, <4>3, Zenon
    <3> QED
      BY <1>1, <3>1, Zenon
  <2> QED
    BY <1>0, <2>1, Zenon
<1>5. ASSUME NEW s \in Request, NextRound(s) PROVE FALSE
  <2>1. PICK o : Set(s, o) /\ o.at = "walk"
    <3> DEFINE o == [req[s] EXCEPT !.round = @ + 1, !.round_attempts = 0, !.retryable = FALSE,
                       !.budget = 0, !.attempted = {}]
    <3>1. Set(s, o)
      BY <1>5, Zenon DEF NextRound
    <3>2. req[s] \in Locals /\ req[s].at = "walk"
      BY <1>0, <1>5, Zenon DEF NextRound, MayRetry
    <3>3. o.at = "walk"
      BY <3>2, Zenon DEF Locals
    <3> HIDE DEF o
    <3> QED
      BY <3>1, <3>3, Zenon
  <2> QED
    BY <1>0, <1>1, <2>1, Zenon
<1>6. ASSUME NEW s \in Request, GiveUp(s) PROVE GiveUp(r)
  BY <1>1, <1>6, Zenon DEF GiveUp
<1>7. ASSUME NEW s \in Request, NEW b \in BOOLEAN, Dial(s, b) \/ Denied(s, b) PROVE FALSE
  BY <1>0, <1>1, <1>7, Zenon DEF Dial, Denied
<1>8. ASSUME NEW s \in Request, DialFails(s) \/ \E c \in Charges : Reject(s, c) PROVE FALSE
  BY <1>0, <1>2, <1>8, Zenon DEF DialFails, Reject
<1>9. ASSUME NEW s \in Request, Succeed(s) \/ ReturnError(s) \/ DeniedOnReplay(s) PROVE FALSE
  BY <1>0, <1>1, <1>9, Zenon DEF Succeed, ReturnError, DeniedOnReplay
<1>10. ASSUME NEW s \in Request, Unauthorized(s) PROVE FALSE
  BY <1>0, <1>1, <1>2, <1>10, Zenon DEF Unauthorized
<1>11. CASE UNCHANGED req
  BY <1>0, <1>11, Zenon
<1>12. ASSUME NEW m \in Member,
              \/ \E h \in {"ok", "cooldown", "auth_failed"} : HealthChanges(m, h)
              \/ Forgive(m) \/ \E b \in BOOLEAN : DeniedElsewhere(m, b)
       PROVE  FALSE
  BY <1>0, <1>12, Zenon DEF HealthChanges, Forgive, DeniedElsewhere
<1> QED
  BY <1>3, <1>4, <1>5, <1>6, <1>7, <1>8, <1>9, <1>10, <1>12, Zenon DEF Next, Step

\* handle_relay returns a failure only when the budget is spent, the round is full or
\* nobody it may still try is healthy: an attempt it did not charge is made good.
THEOREM GivesUpWhenItMust == ~Home /\ Spec => NoEarlyGiveUp
<1> SUFFICES ASSUME ~Home PROVE Spec => NoEarlyGiveUp
  BY Zenon
<1> DEFINE Justified ==
        \A r \in Request :
          req[r].at = "walk" /\ req'[r] = Idle =>
             \/ req[r].budget >= MaxAttempts(r)
             \/ Cardinality(req[r].excluded) >= MaxAttempts(r)
             \/ Cardinality(req[r].attempted) >= RoundCap(r)
             \/ \A m \in req[r].initial \ req[r].excluded :
                   \/ m \in req[r].attempted
                   \/ health[m] # "ok"
                   \/ ~RoundAllows(m, req[r].round)
<1>1. IInv /\ [Next]_vars => [Justified]_vars
  <2> SUFFICES ASSUME IInv, Next, NEW r \in Request, req[r].at = "walk", req'[r] = Idle
               PROVE  \/ req[r].budget >= MaxAttempts(r)
                      \/ Cardinality(req[r].excluded) >= MaxAttempts(r)
                      \/ Cardinality(req[r].attempted) >= RoundCap(r)
                      \/ \A m \in req[r].initial \ req[r].excluded :
                            \/ m \in req[r].attempted
                            \/ health[m] # "ok"
                            \/ ~RoundAllows(m, req[r].round)
    BY Zenon
  <2>1. GiveUp(r)
    BY WalkEndsByGivingUp, Zenon
  <2>2. CASE BudgetSpent(r)
    BY <2>2, Zenon DEF BudgetSpent
  <2>3. CASE ~(req[r].round_attempts < RoundCap(r))
    <3>1. /\ RoundCap(r) \in Nat /\ req[r].round_attempts \in Nat
          /\ req[r].initial \in SUBSET Member /\ req[r].attempted \in SUBSET req[r].initial
          /\ req[r].round_attempts <= Cardinality(req[r].attempted)
      BY RoundCapType, Zenon DEF IInv, Walks, Locals
    <3>2. Cardinality(req[r].attempted) \in Nat
      BY <3>1, WidthType, Zenon
    <3>3. Cardinality(req[r].attempted) >= RoundCap(r)
      BY <2>3, <3>1, <3>2
    <3> QED
      BY <3>3, Zenon
  <2>4. CASE Candidates(r) = {}
    BY <2>4, Zenon DEF Candidates
  <2> QED
    BY <2>1, <2>2, <2>3, <2>4, Zenon DEF GiveUp, CanSelect
<1> HIDE DEF Justified
<1>2. Spec => [][Justified]_vars
  BY <1>1, AlwaysIInv, PTL DEF Spec
<1> QED
  BY <1>2, Zenon DEF NoEarlyGiveUp, Justified

-----------------------------------------------------------------------------
\* The durable pins of Claude sessions

\* MAX_BINDINGS and BINDING_TTL_SECS are positive constants; a request runs for
\* some time.
Sizes ==
    /\ IsFiniteSet(Session) /\ NoPin \notin PinAccount
    /\ MaxBindings \in Nat \ {0} /\ Ttl \in Nat /\ MaxLag \in Nat

Younger(m, s) == {t \in BoundIn(m) : m[t].last_used > m[s].last_used}

\* What trimming establishes: fewer than MAX_BINDINGS are younger than any binding.
Trimmed(m) == \A s \in BoundIn(m) : Cardinality(Younger(m, s)) < MaxBindings

\* A map of the process, of a writer or of a file: trimmed, and of the past.
Sound(m, at) ==
    m \in Maps /\ Trimmed(m) /\ \A s \in Session : m[s].last_used <= at

\* A file that holds no map holds no bindings.
Readable(f) == f.kind # "map" => f.map = NoBindings

\* While the process runs, only the task writes, and what it writes is what the
\* map holds unless the map has changed since.
TaskInv ==
    phase = "running" =>
       /\ pc["flush"] = "idle" /\ handle["flush"] = "none"
       /\ pc["task"] = "idle" /\ ~dirty /\ ~failed => SamePins(map, file.map)
       /\ pc["task"] \in {"open", "write", "rename"} /\ ~dirty => SamePins(map, bytes["task"])
       /\ pc["task"] = "write" => handle["task"] = "temp" /\ temp.kind = "empty"
       /\ pc["task"] = "rename" => temp = FileOf("map", bytes["task"])

AffinityInv ==
    /\ AffinityTypeOK
    /\ Sound(map, now) /\ Sound(temp.map, now) /\ Sound(file.map, now)
    /\ \A w \in StoreWriter : Sound(bytes[w], now)
    /\ Readable(temp) /\ Readable(file)
    /\ TaskInv

-----------------------------------------------------------------------------
\* Trimming

\* The bindings of a map.
LEMMA MapShapes ==
    ASSUME NEW m \in Maps, NEW s \in Session
    PROVE  /\ m[s].last_used \in Nat
           /\ m[s] \in [account_id : PinAccount, last_used : Nat] \union {NoBinding}
BY DEF Maps, NoBinding

\* No bindings at all.
LEMMA EmptyMap ==
    /\ NoBindings \in Maps /\ BoundIn(NoBindings) = {}
    /\ \A at \in Nat : Sound(NoBindings, at) /\ LiveBindings(NoBindings, at) = NoBindings
<1>1. NoBindings \in Maps /\ BoundIn(NoBindings) = {} /\ NoBinding.last_used = 0
  BY Zenon DEF NoBindings, Maps, BoundIn, NoBinding
<1>2. \A s \in Session : NoBindings[s] = NoBinding
  BY Zenon DEF NoBindings
<1>3. ASSUME NEW at \in Nat PROVE Sound(NoBindings, at)
  BY <1>1, <1>2 DEF Sound, Trimmed
<1>4. ASSUME NEW at \in Nat PROVE LiveBindings(NoBindings, at) = NoBindings
  BY Zenon DEF LiveBindings, NoBindings
<1> QED
  BY <1>1, <1>3, <1>4, Zenon

\* retain keeps a part of the map.
LEMMA LiveKeeps ==
    ASSUME NEW m \in Maps, NEW at \in Nat
    PROVE  /\ LiveBindings(m, at) \in Maps
           /\ \A s \in Session : LiveBindings(m, at)[s] = IF FreshBinding(m[s], at) THEN m[s] ELSE NoBinding
<1>1. \A s \in Session : m[s] \in [account_id : PinAccount, last_used : Nat] \union {NoBinding}
  BY Zenon DEF Maps
<1> QED
  BY <1>1, Zenon DEF LiveBindings, Maps

\* The trimmed map, in terms of the bindings that are younger.
LEMMA TrimIs ==
    ASSUME NEW m \in Maps, NEW at \in Nat, NEW s \in Session
    PROVE  TrimBindings(m, at)[s]
             = IF Cardinality(Younger(LiveBindings(m, at), s)) < MaxBindings
               THEN LiveBindings(m, at)[s] ELSE NoBinding
BY Zenon DEF TrimBindings, Younger

\* A subset of finitely many sessions is no larger.
LEMMA FewerSessions ==
    ASSUME Sizes, NEW A, NEW B \in SUBSET Session, A \subseteq B
    PROVE  /\ Cardinality(A) \in Nat /\ Cardinality(B) \in Nat
           /\ Cardinality(A) <= Cardinality(B)
<1>1. IsFiniteSet(B)
  BY FS_Subset, Zenon DEF Sizes
<1>2. IsFiniteSet(A) /\ Cardinality(A) <= Cardinality(B)
  BY <1>1, FS_Subset, Zenon
<1> QED
  BY <1>1, <1>2, FS_CardinalityType, Zenon

\* Where every binding of n is m's, n is as trimmed as m.
LEMMA PartOfTrimmed ==
    ASSUME Sizes, NEW m \in Maps, NEW n \in Maps,
           \A s \in Session : n[s] \in {m[s], NoBinding},
           \A s \in BoundIn(n) : Cardinality(Younger(m, s)) < MaxBindings
    PROVE  Trimmed(n)
<1> SUFFICES ASSUME NEW s \in BoundIn(n) PROVE Cardinality(Younger(n, s)) < MaxBindings
  BY Zenon DEF Trimmed
<1>1. \A t \in BoundIn(n) : t \in BoundIn(m) /\ n[t] = m[t]
  BY Zenon DEF BoundIn
<1>2. Younger(n, s) \subseteq Younger(m, s) /\ Younger(m, s) \in SUBSET Session
  BY <1>1, Zenon DEF Younger, BoundIn
<1> QED
  BY <1>2, FewerSessions DEF Sizes

\* TrimBindings yields a trimmed part of the map it is given.
LEMMA TrimKeeps ==
    ASSUME Sizes, NEW m \in Maps, NEW at \in Nat
    PROVE  /\ TrimBindings(m, at) \in Maps /\ Trimmed(TrimBindings(m, at))
           /\ \A s \in Session : TrimBindings(m, at)[s] \in {m[s], NoBinding}
<1> DEFINE l == LiveBindings(m, at)
           n == TrimBindings(m, at)
<1>1. l \in Maps /\ \A s \in Session : l[s] \in {m[s], NoBinding}
  BY LiveKeeps, Zenon
<1>2. \A s \in Session : n[s] = IF Cardinality(Younger(l, s)) < MaxBindings THEN l[s] ELSE NoBinding
  BY TrimIs, Zenon
<1>3. n = [s \in Session |-> n[s]]
  BY Zenon DEF TrimBindings
<1> HIDE DEF l, n
<1>4. n \in Maps
  <2>1. \A s \in Session : n[s] \in [account_id : PinAccount, last_used : Nat] \union {NoBinding}
    BY <1>1, <1>2, MapShapes, Zenon
  <2> QED
    BY <1>3, <2>1, Zenon DEF Maps
<1>5. \A s \in BoundIn(n) : Cardinality(Younger(l, s)) < MaxBindings
  BY <1>2, Zenon DEF BoundIn
<1>6. Trimmed(n)
  BY <1>1, <1>2, <1>4, <1>5, PartOfTrimmed, Zenon
<1> QED
  BY <1>1, <1>2, <1>4, <1>6, Zenon DEF n

\* A trimmed map only loses what has expired.
LEMMA TrimOfTrimmed ==
    ASSUME Sizes, NEW m \in Maps, NEW at \in Nat, Trimmed(m)
    PROVE  TrimBindings(m, at) = LiveBindings(m, at)
<1> DEFINE l == LiveBindings(m, at)
           n == TrimBindings(m, at)
<1>1. l \in Maps /\ \A s \in Session : l[s] \in {m[s], NoBinding}
  BY LiveKeeps, Zenon
<1>2. \A s \in Session : n[s] = IF Cardinality(Younger(l, s)) < MaxBindings THEN l[s] ELSE NoBinding
  BY TrimIs, Zenon
<1>3. n = [s \in Session |-> n[s]] /\ l = [s \in Session |-> l[s]]
  BY Zenon DEF TrimBindings, LiveBindings
<1> HIDE DEF l, n
<1>4. Trimmed(l)
  <2>1. \A s \in BoundIn(l) : s \in BoundIn(m)
    BY <1>1, Zenon DEF BoundIn
  <2>2. \A s \in BoundIn(l) : Cardinality(Younger(m, s)) < MaxBindings
    BY <2>1, Zenon DEF Trimmed
  <2> QED
    BY <1>1, <2>2, PartOfTrimmed, Zenon
<1>5. \A s \in Session : n[s] = l[s]
  BY <1>2, <1>4, Zenon DEF Trimmed, BoundIn
<1> QED
  BY <1>3, <1>5, Zenon DEF l, n

\* A map within the cap is trimmed.
LEMMA SmallIsTrimmed ==
    ASSUME Sizes, NEW m \in Maps, ~(Cardinality(BoundIn(m)) > MaxBindings)
    PROVE  Trimmed(m)
<1> SUFFICES ASSUME NEW s \in BoundIn(m) PROVE Cardinality(Younger(m, s)) < MaxBindings
  BY Zenon DEF Trimmed
<1>1. BoundIn(m) \in SUBSET Session /\ IsFiniteSet(BoundIn(m))
  BY FS_Subset, Zenon DEF BoundIn, Sizes
<1>2. Younger(m, s) \subseteq BoundIn(m) \ {s}
  BY <1>1, MapShapes DEF Younger
<1>3. Cardinality(BoundIn(m) \ {s}) = Cardinality(BoundIn(m)) - 1
  BY <1>1, FS_RemoveElement, Zenon
<1>4. BoundIn(m) \ {s} \in SUBSET Session
  BY <1>1, Zenon
<1>5. /\ Cardinality(Younger(m, s)) \in Nat
      /\ Cardinality(Younger(m, s)) <= Cardinality(BoundIn(m) \ {s})
  BY <1>2, <1>4, FewerSessions, Zenon
<1>6. Cardinality(BoundIn(m)) \in Nat
  BY <1>1, FS_CardinalityType, Zenon
<1> QED
  BY <1>3, <1>5, <1>6 DEF Sizes

\* Pins that two maps agree on, they agree on later: a binding does not get younger.
LEMMA SamePinsLater ==
    ASSUME Sizes, NEW m1 \in Maps, NEW m2 \in Maps, NEW a \in Nat, NEW b \in Nat, a <= b,
           LiveBindings(m1, a) = LiveBindings(m2, a)
    PROVE  LiveBindings(m1, b) = LiveBindings(m2, b)
<1>1. ASSUME NEW s \in Session PROVE LiveBindings(m1, b)[s] = LiveBindings(m2, b)[s]
  <2>1. m1[s].last_used \in Nat /\ m2[s].last_used \in Nat
    BY MapShapes, Zenon
  <2>2. /\ FreshBinding(m1[s], b) => FreshBinding(m1[s], a)
        /\ FreshBinding(m2[s], b) => FreshBinding(m2[s], a)
    BY <2>1 DEF FreshBinding, Sizes
  <2>3. LiveBindings(m1, a)[s] = LiveBindings(m2, a)[s]
    BY Zenon
  <2> QED
    BY <2>2, <2>3, LiveKeeps
<1> QED
  BY <1>1, Zenon DEF LiveBindings

\* retain twice is retain once.
LEMMA LiveTwice ==
    ASSUME NEW m \in Maps, NEW at \in Nat
    PROVE  LiveBindings(LiveBindings(m, at), at) = LiveBindings(m, at)
<1>1. \A s \in Session : LiveBindings(LiveBindings(m, at), at)[s] = LiveBindings(m, at)[s]
  BY LiveKeeps
<1> QED
  BY <1>1, Zenon DEF LiveBindings

\* Every set of natural numbers that is not empty has a least one.
LEMMA LeastStamp ==
    ASSUME NEW T, T \subseteq Nat, T # {}
    PROVE  \E x \in T : \A y \in T : x <= y
<1>1. PICK x \in T : \A y \in T : ~(<<y, x>> \in OpToRel(<, Nat))
  BY WFMin, NatLessThanWellFounded, Zenon
<1>2. \A y \in T : ~(y < x)
  BY <1>1, Zenon DEF OpToRel
<1> QED
  BY <1>2

\* Some sessions have an oldest binding and a youngest one.
LEMMA OldestAndYoungest ==
    ASSUME NEW m \in Maps, NEW b \in Nat, \A s \in Session : m[s].last_used <= b,
           NEW T \in SUBSET Session, T # {}
    PROVE  /\ \E t \in T : \A u \in T : m[t].last_used <= m[u].last_used
           /\ \E t \in T : \A u \in T : m[u].last_used <= m[t].last_used
<1>1. \A s \in Session : m[s].last_used \in Nat
  BY MapShapes, Zenon
<1>2. \E t \in T : \A u \in T : m[t].last_used <= m[u].last_used
  <2> DEFINE V == {m[t].last_used : t \in T}
  <2>1. V \subseteq Nat /\ V # {}
    BY <1>1, Zenon
  <2>2. PICK x \in V : \A y \in V : x <= y
    BY <2>1, LeastStamp, Zenon
  <2> QED
    BY <2>2, Zenon
<1>3. \E t \in T : \A u \in T : m[u].last_used <= m[t].last_used
  <2> DEFINE V == {b - m[t].last_used : t \in T}
  <2>1. V \subseteq Nat /\ V # {}
    BY <1>1
  <2>2. PICK x \in V : \A y \in V : x <= y
    BY <2>1, LeastStamp, Zenon
  <2>3. PICK t \in T : x = b - m[t].last_used
    BY <2>2, Zenon
  <2>4. ASSUME NEW u \in T PROVE m[u].last_used <= m[t].last_used
    <3>1. b - m[t].last_used <= b - m[u].last_used
      BY <2>2, <2>3, Zenon
    <3> QED
      BY <1>1, <3>1
  <2> QED
    BY <2>4, Zenon
<1> QED
  BY <1>2, <1>3, Zenon

\* What a trimmed map holds beyond the cap shares the oldest stamp.
LEMMA TrimmedTies ==
    ASSUME Sizes, NEW m \in Maps, Trimmed(m), NEW b \in Nat, \A s \in Session : m[s].last_used <= b,
           BoundIn(m) # {}
    PROVE  LET oldest == {s \in BoundIn(m) : \A t \in BoundIn(m) : m[s].last_used <= m[t].last_used}
           IN  Cardinality(BoundIn(m) \ oldest) < MaxBindings
<1> DEFINE oldest == {s \in BoundIn(m) : \A t \in BoundIn(m) : m[s].last_used <= m[t].last_used}
<1>1. BoundIn(m) \in SUBSET Session
  BY Zenon DEF BoundIn
<1>2. PICK o \in BoundIn(m) : \A t \in BoundIn(m) : m[o].last_used <= m[t].last_used
  BY <1>1, OldestAndYoungest, Zenon
<1>3. BoundIn(m) \ oldest \subseteq Younger(m, o)
  <2>1. \A s \in BoundIn(m) : m[s].last_used \in Nat
    BY <1>1, MapShapes, Zenon
  <2>2. ASSUME NEW s \in BoundIn(m), s \notin oldest PROVE m[s].last_used > m[o].last_used
    <3>1. PICK t \in BoundIn(m) : ~(m[s].last_used <= m[t].last_used)
      BY <2>2, Zenon
    <3> QED
      BY <1>2, <2>1, <3>1
  <2> QED
    BY <2>2, Zenon DEF Younger
<1>4. Younger(m, o) \in SUBSET Session
  BY <1>1, Zenon DEF Younger
<1>5. Cardinality(Younger(m, o)) < MaxBindings
  BY <1>2, Zenon DEF Trimmed
<1> HIDE DEF oldest
<1>6. Cardinality(BoundIn(m) \ oldest) < MaxBindings
  BY <1>3, <1>4, <1>5, FewerSessions DEF Sizes
<1> QED
  BY <1>6, Zenon DEF oldest

\* A binding that is dropped while it is fresh leaves MAX_BINDINGS younger ones.
LEMMA DroppedForYounger ==
    ASSUME Sizes, NEW m \in Maps, NEW at \in Nat, NEW b \in Nat,
           \A s \in Session : m[s].last_used <= b,
           NEW s \in BoundIn(m), FreshBinding(m[s], at), TrimBindings(m, at)[s] = NoBinding
    PROVE  Cardinality({t \in BoundIn(TrimBindings(m, at)) :
                          TrimBindings(m, at)[t].last_used > m[s].last_used}) >= MaxBindings
<1> DEFINE l == LiveBindings(m, at)
           n == TrimBindings(m, at)
           K == {t \in BoundIn(n) : n[t].last_used > m[s].last_used}
           T == {t \in BoundIn(l) : ~(Cardinality(Younger(l, t)) < MaxBindings)}
<1>1. /\ l \in Maps /\ \A t \in Session : l[t] \in {m[t], NoBinding}
      /\ s \in Session /\ l[s] = m[s] /\ l[s] # NoBinding
  BY LiveKeeps, Zenon DEF BoundIn
<1>2. \A t \in Session : n[t] = IF Cardinality(Younger(l, t)) < MaxBindings THEN l[t] ELSE NoBinding
  BY TrimIs, Zenon
<1>3. n[s] = NoBinding
  BY Zenon
<1> HIDE DEF l, n
<1>4. \A t \in Session : l[t].last_used \in Nat /\ l[t].last_used <= b
  BY <1>1, MapShapes DEF NoBinding
<1>5. s \in T /\ T \in SUBSET Session
  BY <1>1, <1>2, <1>3, Zenon DEF BoundIn
<1>6. PICK t \in T : \A u \in T : l[u].last_used <= l[t].last_used
  BY <1>1, <1>4, <1>5, OldestAndYoungest, Zenon
<1>7. ASSUME NEW u \in Younger(l, t) PROVE u \in K
  <2>1. u \in BoundIn(l) /\ l[u].last_used > l[t].last_used
    BY Zenon DEF Younger
  <2>2. u \in Session /\ t \in Session
    BY <1>5, <2>1, Zenon DEF BoundIn
  <2>3. u \notin T
    BY <1>4, <1>6, <2>1, <2>2
  <2>4. n[u] = l[u] /\ u \in BoundIn(n)
    BY <1>2, <2>1, <2>2, <2>3, Zenon DEF BoundIn
  <2>5. l[s].last_used <= l[t].last_used
    BY <1>5, <1>6, Zenon
  <2>6. n[u].last_used > m[s].last_used
    BY <1>1, <1>4, <2>1, <2>2, <2>4, <2>5
  <2> QED
    BY <2>4, <2>6, Zenon
<1>8. K \in SUBSET Session
  BY Zenon DEF BoundIn
<1>9. ~(Cardinality(Younger(l, t)) < MaxBindings)
  BY <1>6, Zenon
<1> HIDE DEF K
<1>10. Younger(l, t) \subseteq K
  BY <1>7, Zenon
<1>11. Cardinality(K) >= MaxBindings
  BY <1>8, <1>9, <1>10, FewerSessions DEF Sizes
<1> QED
  BY <1>11, Zenon DEF K, n

-----------------------------------------------------------------------------
\* The inductive invariant

\* Time does not make a map unsound.
LEMMA SoundLater ==
    ASSUME NEW m, NEW a \in Nat, NEW b \in Nat, a <= b, Sound(m, a)
    PROVE  Sound(m, b)
<1>1. \A s \in Session : m[s].last_used \in Nat
  BY MapShapes, Zenon DEF Sound
<1> QED
  BY <1>1 DEF Sound

\* Trimming keeps a map sound.
LEMMA SoundTrim ==
    ASSUME Sizes, NEW m \in Maps, NEW at \in Nat, NEW b \in Nat, \A s \in Session : m[s].last_used <= b
    PROVE  Sound(TrimBindings(m, at), b)
<1>1. \A s \in Session : TrimBindings(m, at)[s] \in {m[s], NoBinding}
  BY TrimKeeps, Zenon
<1>2. NoBinding.last_used = 0
  BY Zenon DEF NoBinding
<1>3. \A s \in Session : TrimBindings(m, at)[s].last_used <= b
  BY <1>1, <1>2
<1> QED
  BY <1>3, TrimKeeps, Zenon DEF Sound

\* What the files of the store can be.
LEMMA FileShapes ==
    /\ \A k \in {"absent", "empty", "map", "torn"}, m \in Maps :
         /\ FileOf(k, m) \in [kind : {"absent", "empty", "map", "torn"}, map : Maps]
         /\ FileOf(k, m).kind = k /\ FileOf(k, m).map = m
    /\ NoFile = FileOf("absent", NoBindings) /\ NoBindings \in Maps
BY EmptyMap, Zenon DEF FileOf, NoFile

\* A first start: no file, nothing pinned.
LEMMA InitAffinity == AffinityInit => AffinityInv
<1> SUFFICES ASSUME AffinityInit PROVE AffinityInv
  BY Zenon
<1>1. /\ map = NoBindings /\ now = 0 /\ pc["task"] = "idle" /\ pc["flush"] = "idle"
      /\ handle["flush"] = "none" /\ bytes["task"] = NoBindings /\ bytes["flush"] = NoBindings
      /\ temp = NoFile /\ file = NoFile
  BY Zenon DEF AffinityInit, StoreWriter
<1>2. /\ NoFile \in [kind : {"absent", "empty", "map", "torn"}, map : Maps]
      /\ NoFile.kind = "absent" /\ NoFile.map = NoBindings
  BY FileShapes, Zenon
<1>3. AffinityTypeOK
  <2>1. /\ pc \in [StoreWriter -> {"idle", "swapped", "open", "write", "rename"}]
        /\ handle \in [StoreWriter -> {"none", "temp", "file", "replaced"}]
    BY Zenon DEF AffinityInit
  <2>2. bytes \in [StoreWriter -> Maps]
    BY EmptyMap, Zenon DEF AffinityInit
  <2>3. dirty = FALSE /\ failed = FALSE /\ phase = "running"
    BY Zenon DEF AffinityInit
  <2> QED
    BY <1>1, <1>2, <2>1, <2>2, <2>3, EmptyMap, Zenon DEF AffinityTypeOK
<1>4. Sound(NoBindings, now)
  BY <1>1, EmptyMap, Zenon
<1>5. TaskInv
  BY <1>1, <1>2, Zenon DEF TaskInv, SamePins
<1> QED
  BY <1>1, <1>2, <1>3, <1>4, <1>5, Zenon DEF AffinityInv, Readable, StoreWriter

\* Time passes.
LEMMA TicksKeep == ASSUME Sizes, AffinityInv, WallTicks PROVE AffinityInv'
<1>1. /\ now \in Nat /\ now' = now + 1 /\ now <= now'
      /\ UNCHANGED <<map, dirty, phase, pc, bytes, handle, temp, file, failed>>
  BY DEF WallTicks, AffinityInv, AffinityTypeOK
<1>2. AffinityTypeOK'
  BY <1>1 DEF AffinityInv, AffinityTypeOK
<1>3. /\ Sound(map', now') /\ Sound(temp'.map, now') /\ Sound(file'.map, now')
      /\ \A w \in StoreWriter : Sound(bytes'[w], now')
  BY <1>1, SoundLater DEF AffinityInv
<1>4. /\ SamePins(map, file.map) => SamePins(map, file.map)'
      /\ SamePins(map, bytes["task"]) => SamePins(map, bytes["task"])'
  BY <1>1, SamePinsLater DEF SamePins, AffinityInv, Sound, StoreWriter
<1>5. TaskInv'
  BY <1>1, <1>4, Zenon DEF AffinityInv, TaskInv
<1> QED
  BY <1>1, <1>2, <1>3, <1>5, Zenon DEF AffinityInv, Readable

\* put: the map stays sound whichever way it is trimmed, and is dirty.
LEMMA PutKeeps ==
    ASSUME Sizes, AffinityInv, NEW s \in Session, NEW account \in PinAccount, NEW at \in 0 .. now,
           PutBinding(s, account, at)
    PROVE  AffinityInv'
<1> DEFINE v == [account_id |-> account, last_used |-> at]
           m == [map EXCEPT ![s] = v]
<1>1. /\ map' = IF Cardinality(BoundIn(m)) > MaxBindings THEN TrimBindings(m, at) ELSE m
      /\ dirty' = TRUE /\ UNCHANGED <<now, phase, pc, bytes, handle, temp, file, failed>>
  BY Zenon DEF PutBinding
<1>2. now \in Nat /\ at \in Nat /\ at <= now /\ map \in Maps
  BY DEF AffinityInv, AffinityTypeOK
<1>3. v \in [account_id : PinAccount, last_used : Nat] /\ v.last_used = at
  BY <1>2, Zenon
<1> HIDE DEF v
<1>4. m \in Maps
  BY <1>2, <1>3, Zenon DEF Maps
<1>5. \A x \in Session : m[x].last_used <= now
  <2>1. \A x \in Session : m[x] = IF x = s THEN v ELSE map[x]
    BY <1>2, Zenon DEF Maps
  <2> QED
    BY <1>2, <1>3, <2>1, Zenon DEF AffinityInv, Sound
<1> HIDE DEF m
<1>6. Sound(map', now)
  <2>1. CASE Cardinality(BoundIn(m)) > MaxBindings
    BY <1>1, <1>2, <1>4, <1>5, <2>1, SoundTrim, Zenon
  <2>2. CASE ~(Cardinality(BoundIn(m)) > MaxBindings)
    BY <1>1, <1>4, <1>5, <2>2, SmallIsTrimmed, Zenon DEF Sound
  <2> QED
    BY <2>1, <2>2, Zenon
<1>7. AffinityTypeOK'
  BY <1>1, <1>6, Zenon DEF AffinityInv, AffinityTypeOK, Sound
<1>8. TaskInv'
  BY <1>1, Zenon DEF AffinityInv, TaskInv
<1> QED
  BY <1>1, <1>6, <1>7, <1>8, Zenon DEF AffinityInv, Readable

\* The snapshot: swap, trim and serialise.
LEMMA SnapshotKeeps ==
    ASSUME Sizes, AffinityInv, NEW w \in StoreWriter, SwapDirty(w) \/ SerializeMap(w)
    PROVE  AffinityInv'
<1>1. CASE SwapDirty(w)
  <2>1. /\ MayWrite(w) /\ dirty' = FALSE /\ pc' = [pc EXCEPT ![w] = "swapped"]
        /\ UNCHANGED <<map, now, phase, bytes, handle, temp, file, failed>>
    BY <1>1, Zenon DEF SwapDirty
  <2>2. AffinityTypeOK'
    BY <2>1, Zenon DEF AffinityInv, AffinityTypeOK
  <2>3. TaskInv'
    <3>1. phase = "running" => w = "task"
      BY <2>1, Zenon DEF MayWrite, StoreWriter
    <3>2. pc \in [StoreWriter -> {"idle", "swapped", "open", "write", "rename"}]
      BY Zenon DEF AffinityInv, AffinityTypeOK
    <3> QED
      BY <2>1, <3>1, <3>2, Zenon DEF AffinityInv, TaskInv, StoreWriter
  <2> QED
    BY <2>1, <2>2, <2>3, Zenon DEF AffinityInv, Readable
<1>2. CASE SerializeMap(w)
  <2> DEFINE n == TrimBindings(map, now)
  <2>1. /\ pc[w] = "swapped" /\ map' = n /\ bytes' = [bytes EXCEPT ![w] = n]
        /\ pc' = [pc EXCEPT ![w] = "open"]
        /\ UNCHANGED <<dirty, now, phase, handle, temp, file, failed>>
    BY <1>2, Zenon DEF SerializeMap
  <2>2. Sound(n, now)
    BY SoundTrim, Zenon DEF AffinityInv, AffinityTypeOK, Sound
  <2> HIDE DEF n
  <2>3. pc \in [StoreWriter -> {"idle", "swapped", "open", "write", "rename"}] /\ bytes \in [StoreWriter -> Maps]
    BY Zenon DEF AffinityInv, AffinityTypeOK
  <2>4. n \in Maps /\ \A v \in StoreWriter : Sound(bytes'[v], now')
    BY <2>1, <2>2, <2>3, Zenon DEF AffinityInv, Sound
  <2>5. AffinityTypeOK'
    BY <2>1, <2>3, <2>4, Zenon DEF AffinityInv, AffinityTypeOK
  <2>6. TaskInv'
    <3>1. phase = "running" => w = "task"
      BY <2>1, Zenon DEF AffinityInv, TaskInv, StoreWriter
    <3>2. phase = "running" => map' = bytes'["task"] /\ pc'["task"] = "open" /\ pc'["flush"] = "idle"
      BY <2>1, <2>3, <3>1, Zenon DEF AffinityInv, TaskInv, StoreWriter
    <3> QED
      BY <2>1, <3>2, Zenon DEF AffinityInv, TaskInv, SamePins
  <2> QED
    BY <2>1, <2>2, <2>4, <2>5, <2>6, Zenon DEF AffinityInv, Readable
<1> QED
  BY <1>1, <1>2, Zenon

\* The writer opens, writes and renames the temporary file.
LEMMA OpenKeeps ==
    ASSUME Sizes, AffinityInv, NEW w \in StoreWriter, OpenTemp(w)
    PROVE  AffinityInv'
<1>1. /\ pc[w] = "open" /\ temp' = FileOf("empty", NoBindings)
      /\ handle' = [handle EXCEPT ![w] = "temp"] /\ pc' = [pc EXCEPT ![w] = "write"]
      /\ UNCHANGED <<map, dirty, now, phase, bytes, file, failed>>
  BY Zenon DEF OpenTemp
<1>2. temp'.kind = "empty" /\ temp'.map = NoBindings
      /\ temp' \in [kind : {"absent", "empty", "map", "torn"}, map : Maps]
  BY <1>1, FileShapes, Zenon
<1>3. AffinityTypeOK
  BY Zenon DEF AffinityInv
<1>4. AffinityTypeOK'
  BY <1>1, <1>2, <1>3, Zenon DEF AffinityTypeOK
<1>5. TaskInv'
  <2>1. phase = "running" => w = "task"
    BY <1>1, Zenon DEF AffinityInv, TaskInv, StoreWriter
  <2>2. SamePins(map, bytes["task"])' = SamePins(map, bytes["task"])
    BY <1>1, Zenon DEF SamePins
  <2> QED
    BY <1>1, <1>2, <1>3, <2>1, <2>2, Zenon DEF AffinityInv, AffinityTypeOK, TaskInv, StoreWriter
<1>6. Sound(temp'.map, now')
  BY <1>1, <1>2, <1>3, EmptyMap, Zenon DEF AffinityTypeOK
<1> QED
  BY <1>1, <1>2, <1>4, <1>5, <1>6, Zenon DEF AffinityInv, Readable

\* What a write leaves in a file.
LEMMA WrittenShapes ==
    ASSUME NEW content, NEW b, NEW at \in Nat, Sound(b, at), NEW f \in WrittenTemp(content, b)
    PROVE  /\ f \in [kind : {"absent", "empty", "map", "torn"}, map : Maps]
           /\ Sound(f.map, at) /\ Readable(f)
           /\ content.kind = "empty" => f = FileOf("map", b)
<1>1. f \in {FileOf("map", b), FileOf("torn", NoBindings)}
  BY Zenon DEF WrittenTemp
<1>2. b \in Maps /\ NoBindings \in Maps /\ Sound(NoBindings, at)
  BY EmptyMap, Zenon DEF Sound
<1>3. CASE f = FileOf("map", b)
  BY <1>2, <1>3, FileShapes DEF Readable
<1>4. CASE f = FileOf("torn", NoBindings)
  <2>1. content.kind = "empty" => f = FileOf("map", b)
    BY Zenon DEF WrittenTemp
  <2> QED
    BY <1>2, <1>4, <2>1, FileShapes DEF Readable
<1> QED
  BY <1>1, <1>3, <1>4, Zenon

\* A step of a writer before the rename leaves the map, and the file it will
\* replace, as they are.
LEMMA WriteKeeps ==
    ASSUME Sizes, AffinityInv, NEW w \in StoreWriter, WriteTemp(w)
    PROVE  AffinityInv'
<1>1. /\ pc[w] = "write" /\ pc' = [pc EXCEPT ![w] = "rename"]
      /\ UNCHANGED <<map, dirty, now, phase, bytes, handle, failed>>
  BY Zenon DEF WriteTemp
<1>2. AffinityTypeOK /\ now \in Nat /\ Sound(bytes[w], now)
  BY Zenon DEF AffinityInv, AffinityTypeOK
<1>3. /\ handle[w] = "temp" => temp' \in WrittenTemp(temp, bytes[w]) /\ file' = file
      /\ handle[w] # "temp" => temp' = temp /\ (file' = file \/ file' \in WrittenTemp(file, bytes[w]))
  BY Zenon DEF WriteTemp
<1>4. /\ temp' \in [kind : {"absent", "empty", "map", "torn"}, map : Maps]
      /\ Sound(temp'.map, now') /\ Readable(temp')
  BY <1>1, <1>2, <1>3, WrittenShapes, Zenon DEF AffinityInv, AffinityTypeOK
<1>5. /\ file' \in [kind : {"absent", "empty", "map", "torn"}, map : Maps]
      /\ Sound(file'.map, now') /\ Readable(file')
  BY <1>1, <1>2, <1>3, WrittenShapes, Zenon DEF AffinityInv, AffinityTypeOK
<1>6. AffinityTypeOK'
  BY <1>1, <1>2, <1>4, <1>5, Zenon DEF AffinityTypeOK
<1>7. TaskInv'
  <2>1. ASSUME phase = "running"
        PROVE  /\ w = "task" /\ temp' = FileOf("map", bytes["task"])
               /\ pc'["flush"] = "idle" /\ handle["flush"] = "none" /\ pc'["task"] = "rename"
    <3>1. w = "task" /\ handle[w] = "temp" /\ temp.kind = "empty"
      BY <1>1, <2>1, Zenon DEF AffinityInv, TaskInv, StoreWriter
    <3>2. temp' = FileOf("map", bytes[w])
      BY <1>2, <1>3, <3>1, WrittenShapes, Zenon
    <3> QED
      BY <1>1, <1>2, <2>1, <3>1, <3>2, Zenon DEF AffinityInv, AffinityTypeOK, TaskInv, StoreWriter
  <2>2. SamePins(map, bytes["task"])' = SamePins(map, bytes["task"])
    BY <1>1, Zenon DEF SamePins
  <2> QED
    BY <1>1, <2>1, <2>2, Zenon DEF AffinityInv, TaskInv
<1> QED
  BY <1>1, <1>4, <1>5, <1>6, <1>7, Zenon DEF AffinityInv

\* The rename that publishes a writer's bytes keeps the store sound.
LEMMA RenameKeeps ==
    ASSUME Sizes, AffinityInv, NEW w \in StoreWriter, RenameTemp(w)
    PROVE  AffinityInv'
<1>1. /\ pc[w] = "rename" /\ file' = temp /\ temp' = NoFile /\ pc' = [pc EXCEPT ![w] = "idle"]
      /\ failed' = FALSE /\ UNCHANGED <<map, dirty, now, phase, bytes>>
  BY Zenon DEF RenameTemp
<1>2. AffinityTypeOK /\ now \in Nat
  BY Zenon DEF AffinityInv, AffinityTypeOK
<1>3. /\ handle' \in [StoreWriter -> {"none", "temp", "file", "replaced"}]
      /\ handle["flush"] = "none" => handle'["flush"] = "none"
  <2>1. handle' = [v \in StoreWriter |-> IF v = w THEN "none"
                                   ELSE CASE handle[v] = "temp" -> "file"
                                          [] handle[v] = "file" -> "replaced"
                                          [] OTHER -> handle[v]]
    BY Zenon DEF RenameTemp
  <2> QED
    BY <1>2, <2>1, Zenon DEF AffinityTypeOK, StoreWriter
<1>4. /\ temp' \in [kind : {"absent", "empty", "map", "torn"}, map : Maps]
      /\ temp'.map = NoBindings /\ temp'.kind = "absent"
  BY <1>1, FileShapes, Zenon
<1>5. AffinityTypeOK'
  BY <1>1, <1>2, <1>3, <1>4, Zenon DEF AffinityTypeOK
<1>6. TaskInv'
  <2>1. ASSUME phase = "running"
        PROVE  /\ w = "task" /\ file' = FileOf("map", bytes["task"])
               /\ pc'["flush"] = "idle" /\ handle'["flush"] = "none" /\ pc'["task"] = "idle"
    <3>1. w = "task" /\ temp = FileOf("map", bytes["task"])
      BY <1>1, <2>1, Zenon DEF AffinityInv, TaskInv, StoreWriter
    <3> QED
      BY <1>1, <1>2, <1>3, <2>1, <3>1, Zenon DEF AffinityInv, AffinityTypeOK, TaskInv, StoreWriter
  <2>2. ASSUME phase = "running", ~dirty PROVE SamePins(map, file.map)'
    <3>1. SamePins(map, bytes["task"])
      BY <1>1, <2>1, <2>2, Zenon DEF AffinityInv, TaskInv
    <3>2. file'.map = bytes["task"]
      BY <1>2, <2>1, <2>2, FileShapes DEF AffinityTypeOK, StoreWriter
    <3> QED
      BY <1>1, <3>1, <3>2, Zenon DEF SamePins
  <2> QED
    BY <1>1, <2>1, <2>2, Zenon DEF TaskInv
<1>7. Sound(temp'.map, now')
  BY <1>1, <1>2, <1>4, EmptyMap, Zenon
<1> QED
  BY <1>1, <1>4, <1>5, <1>6, <1>7, Zenon DEF AffinityInv, Readable

\* A write that fails, and the steps that only end the process.
LEMMA EndsKeep ==
    ASSUME Sizes, AffinityInv, (\E w \in StoreWriter : WriteFails(w)) \/ AbortTask \/ ExitProcess
    PROVE  AffinityInv'
<1>1. UNCHANGED <<map, dirty, now, bytes, temp, file>>
  BY Zenon DEF WriteFails, AbortTask, ExitProcess
<1>2. AffinityTypeOK
  BY Zenon DEF AffinityInv
<1>3. AffinityTypeOK' /\ TaskInv'
  <2>1. CASE \E w \in StoreWriter : WriteFails(w)
    <3>1. PICK w \in StoreWriter : WriteFails(w)
      BY <2>1, Zenon
    <3>2. /\ pc[w] # "idle" /\ pc' = [pc EXCEPT ![w] = "idle"] /\ handle' = [handle EXCEPT ![w] = "none"]
          /\ failed' = TRUE /\ phase' = phase
      BY <3>1, Zenon DEF WriteFails
    <3>3. AffinityTypeOK'
      BY <1>1, <1>2, <3>2, Zenon DEF AffinityTypeOK
    <3>4. phase = "running" => w = "task"
      BY <3>2, Zenon DEF AffinityInv, TaskInv, StoreWriter
    <3>5. TaskInv'
      BY <1>1, <1>2, <3>2, <3>4, Zenon DEF AffinityInv, AffinityTypeOK, TaskInv, StoreWriter
    <3> QED
      BY <3>3, <3>5, Zenon
  <2>2. CASE AbortTask \/ ExitProcess
    BY <1>1, <1>2, <2>2, SMTT(30) DEF AbortTask, ExitProcess, AffinityTypeOK, TaskInv
  <2> QED
    BY <2>1, <2>2, Zenon
<1> QED
  BY <1>1, <1>3, Zenon DEF AffinityInv, Readable

\* A restart: what load reads is what the file still owes.
LEMMA ReloadKeeps ==
    ASSUME Sizes, AffinityInv, Reload
    PROVE  AffinityInv'
<1>1. /\ map' = LoadStore(file, now) /\ dirty' = FALSE /\ phase' = "running" /\ temp' = NoFile
      /\ failed' = FALSE /\ UNCHANGED <<now, file>>
  BY Zenon DEF Reload
<1>2. /\ pc' \in [StoreWriter -> {"idle", "swapped", "open", "write", "rename"}]
      /\ handle' \in [StoreWriter -> {"none", "temp", "file", "replaced"}]
      /\ pc'["task"] = "idle" /\ pc'["flush"] = "idle" /\ handle'["flush"] = "none"
  BY Zenon DEF Reload, StoreWriter
<1>3. bytes' \in [StoreWriter -> Maps] /\ \A w \in StoreWriter : bytes'[w] = NoBindings
  BY EmptyMap, Zenon DEF Reload
<1>4. now \in Nat /\ Sound(file.map, now) /\ Readable(file) /\ file.map \in Maps /\ Trimmed(file.map)
      /\ \A s \in Session : file.map[s].last_used <= now
  BY Zenon DEF AffinityInv, AffinityTypeOK, Sound
<1>5. Sound(map', now) /\ LiveBindings(map', now) = LiveBindings(file.map, now)
  <2>1. CASE file.kind = "map"
    <3>1. map' = TrimBindings(file.map, now)
      BY <1>1, <2>1, Zenon DEF LoadStore
    <3> QED
      BY <1>4, <3>1, SoundTrim, TrimOfTrimmed, LiveTwice, Zenon
  <2>2. CASE file.kind # "map"
    <3>1. map' = NoBindings /\ file.map = NoBindings
      BY <1>1, <1>4, <2>2, Zenon DEF LoadStore, Readable
    <3> QED
      BY <1>4, <3>1, EmptyMap, Zenon
  <2> QED
    BY <2>1, <2>2, Zenon
<1>6. /\ temp' \in [kind : {"absent", "empty", "map", "torn"}, map : Maps]
      /\ temp'.map = NoBindings /\ temp'.kind = "absent"
  BY <1>1, FileShapes, Zenon
<1>7. AffinityTypeOK'
  BY <1>1, <1>2, <1>3, <1>5, <1>6, Zenon DEF AffinityInv, AffinityTypeOK, Sound
<1>8. TaskInv'
  BY <1>1, <1>2, <1>5, Zenon DEF TaskInv, SamePins
<1>9. Sound(temp'.map, now') /\ \A w \in StoreWriter : Sound(bytes'[w], now')
  BY <1>1, <1>3, <1>4, <1>6, EmptyMap, Zenon
<1> QED
  BY <1>1, <1>4, <1>5, <1>6, <1>7, <1>8, <1>9, Zenon DEF AffinityInv, Readable

\* Every step keeps the invariant.
LEMMA StepAffinity == Sizes /\ AffinityInv /\ [AffinityNext]_affinityVars => AffinityInv'
<1> SUFFICES ASSUME Sizes, AffinityInv, [AffinityNext]_affinityVars PROVE AffinityInv'
  BY Zenon
<1>1. CASE WallTicks
  BY <1>1, TicksKeep, Zenon
<1>2. CASE \E s \in Session, account \in PinAccount, at \in 0 .. now : PutBinding(s, account, at)
  BY <1>2, PutKeeps, Zenon
<1>3. CASE \E w \in StoreWriter : SwapDirty(w) \/ SerializeMap(w)
  BY <1>3, SnapshotKeeps, Zenon
<1>4. CASE \E w \in StoreWriter : OpenTemp(w)
  BY <1>4, OpenKeeps, Zenon
<1>5. CASE \E w \in StoreWriter : WriteTemp(w)
  BY <1>5, WriteKeeps, Zenon
<1>6. CASE \E w \in StoreWriter : RenameTemp(w)
  BY <1>6, RenameKeeps
<1>7. CASE (\E w \in StoreWriter : WriteFails(w)) \/ AbortTask \/ ExitProcess
  BY <1>7, EndsKeep, Zenon
<1>8. CASE Reload
  BY <1>8, ReloadKeeps
<1>9. CASE UNCHANGED affinityVars
  BY <1>9, Zenon DEF affinityVars, AffinityInv, AffinityTypeOK, TaskInv, SamePins, Readable
<1> QED
  BY <1>1, <1>2, <1>3, <1>4, <1>5, <1>6, <1>7, <1>8, <1>9, Zenon DEF AffinityNext

\* The invariant of the store, over every start, crash and restart.
LEMMA AlwaysAffinity == ASSUME Sizes PROVE AffinitySpec => []AffinityInv
<1>1. AffinityInv /\ [AffinityNext]_affinityVars => AffinityInv'
  BY StepAffinity, Zenon
<1> QED
  BY <1>1, InitAffinity, PTL DEF AffinitySpec

-----------------------------------------------------------------------------
\* The theorems

\* The maps in memory, under way and on disk keep their types through torn writes,
\* crashes and restarts.
THEOREM AffinityTypes == Sizes /\ AffinitySpec => []AffinityTypeOK
<1> SUFFICES ASSUME Sizes PROVE AffinitySpec => []AffinityTypeOK
  BY Zenon
<1>1. AffinityInv => AffinityTypeOK
  BY Zenon DEF AffinityInv
<1> QED
  BY <1>1, AlwaysAffinity, PTL

\* For any number of sessions and any cap, while the process runs a clean store
\* whose last write did not fail is on disk: snapshot_if_dirty swaps the flag
\* before it locks the map, so no put falls between the two unnoticed.
THEOREM CleanIsSaved == Sizes /\ AffinitySpec => []CleanMeansSaved
<1> SUFFICES ASSUME Sizes PROVE AffinitySpec => []CleanMeansSaved
  OBVIOUS
<1>1. AffinityInv => CleanMeansSaved
  BY Zenon DEF AffinityInv, TaskInv, CleanMeansSaved
<1> QED
  BY <1>1, AlwaysAffinity, PTL

\* For any number of sessions and any cap, the map is larger than MAX_BINDINGS only
\* by bindings that share its oldest stamp: trim's cutoff keeps ties.
THEOREM OverCapByTies == Sizes /\ AffinitySpec => []OverCapOnlyByTies
<1> SUFFICES ASSUME Sizes PROVE AffinitySpec => []OverCapOnlyByTies
  OBVIOUS
<1>1. ASSUME AffinityInv PROVE OverCapOnlyByTies
  <2>1. map \in Maps /\ now \in Nat /\ Trimmed(map) /\ \A s \in Session : map[s].last_used <= now
    BY <1>1, Zenon DEF AffinityInv, AffinityTypeOK, Sound
  <2>2. Cardinality(BoundIn(map)) > MaxBindings => BoundIn(map) # {}
    BY FS_EmptySet DEF Sizes
  <2>3. BoundIn(map) # {} =>
          Cardinality(BoundIn(map) \ {s \in BoundIn(map) : \A t \in BoundIn(map) :
                                         map[s].last_used <= map[t].last_used}) < MaxBindings
    BY <2>1, TrimmedTies, Zenon
  <2> QED
    BY <2>2, <2>3, Zenon DEF OverCapOnlyByTies
<1> QED
  BY <1>1, AlwaysAffinity, PTL

\* What one put takes from a session.
LEMMA PutDropsIdlest ==
    ASSUME Sizes, AffinityInv, NEW x \in Session, NEW account \in PinAccount, NEW at \in 0 .. now,
           now - at <= MaxLag, PutBinding(x, account, at), NEW s \in BoundIn(map),
           map'[s] = NoBinding, FreshBinding(map[s], now)
    PROVE  Cardinality({t \in BoundIn(map') : map'[t].last_used + MaxLag > map[s].last_used}) >= MaxBindings
<1> DEFINE v == [account_id |-> account, last_used |-> at]
           m == [map EXCEPT ![x] = v]
           kept == {t \in BoundIn(map') : map'[t].last_used + MaxLag > map[s].last_used}
<1>1. map' = IF Cardinality(BoundIn(m)) > MaxBindings THEN TrimBindings(m, at) ELSE m
  BY Zenon DEF PutBinding
<1>2. /\ now \in Nat /\ at \in Nat /\ at <= now /\ map \in Maps /\ s \in Session
      /\ \A t \in Session : map[t].last_used \in Nat /\ map[t].last_used <= now
      /\ MaxBindings \in Nat /\ MaxLag \in Nat /\ Ttl \in Nat
  BY MapShapes DEF AffinityInv, AffinityTypeOK, Sound, BoundIn, Sizes
<1>3. v \in [account_id : PinAccount, last_used : Nat] /\ v.last_used = at /\ v # NoBinding
  BY <1>2, Zenon DEF NoBinding, Sizes
<1> HIDE DEF v
<1>4. m \in Maps
  BY <1>2, <1>3, Zenon DEF Maps
<1>5. \A t \in Session : m[t] = IF t = x THEN v ELSE map[t]
  BY <1>2, Zenon DEF Maps
<1>6. s \in BoundIn(m) /\ m[s] # NoBinding /\ \A t \in Session : m[t].last_used <= now
  BY <1>2, <1>3, <1>5, Zenon DEF BoundIn
<1>7. m[s].last_used \in Nat /\ m[s].last_used + MaxLag >= map[s].last_used
  BY <1>2, <1>3, <1>5
<1>8. FreshBinding(m[s], at)
  BY <1>2, <1>3, <1>5 DEF FreshBinding
<1> HIDE DEF m
<1>9. map' = TrimBindings(m, at) /\ map' \in Maps
  <2>1. map' = TrimBindings(m, at)
    BY <1>1, <1>6, Zenon
  <2>2. TrimBindings(m, at) \in Maps
    BY <1>2, <1>4, <1>6, TrimKeeps, Zenon
  <2> QED
    BY <2>1, <2>2, Zenon
<1>10. Cardinality({t \in BoundIn(map') : map'[t].last_used > m[s].last_used}) >= MaxBindings
  BY <1>2, <1>4, <1>6, <1>8, <1>9, DroppedForYounger
<1>11. \A t \in Session : map'[t].last_used \in Nat
  BY <1>9, MapShapes, Zenon
<1>12. /\ {t \in BoundIn(map') : map'[t].last_used > m[s].last_used} \subseteq kept
       /\ kept \in SUBSET Session
  BY <1>2, <1>7, <1>11 DEF BoundIn
<1> HIDE DEF kept
<1>13. /\ Cardinality({t \in BoundIn(map') : map'[t].last_used > m[s].last_used}) \in Nat
       /\ Cardinality(kept) \in Nat
       /\ Cardinality({t \in BoundIn(map') : map'[t].last_used > m[s].last_used}) <= Cardinality(kept)
  BY <1>12, FewerSessions, Zenon
<1>14. Cardinality(kept) >= MaxBindings
  BY <1>2, <1>10, <1>13
<1> QED
  BY <1>14, Zenon DEF kept

\* For any number of sessions, any cap, TTL and request length, no put and no
\* snapshot drops a binding that has not expired unless MAX_BINDINGS bindings that
\* are younger, up to the length of a request, stay.
THEOREM EvictsByAge == Sizes /\ AffinitySpec => EvictionIsByAge
<1> SUFFICES ASSUME Sizes PROVE AffinitySpec => EvictionIsByAge
  BY Zenon
<1>1. ASSUME AffinityInv, [AffinityNext]_affinityVars PROVE [EvictionIsByAgeStep]_affinityVars
  <2> SUFFICES ASSUME AffinityNext, ~Reload, NEW s \in BoundIn(map), map'[s] = NoBinding,
                      FreshBinding(map[s], now)
               PROVE  Cardinality({t \in BoundIn(map') :
                                     map'[t].last_used + MaxLag > map[s].last_used}) >= MaxBindings
    BY <1>1, Zenon DEF EvictionIsByAgeStep
  <2>1. map \in Maps /\ now \in Nat /\ Trimmed(map) /\ s \in Session /\ map[s] # NoBinding
    BY <1>1, Zenon DEF AffinityInv, AffinityTypeOK, Sound, BoundIn
  <2>2. map' # map
    BY <2>1, Zenon
  <2>3. CASE \E x \in Session, account \in PinAccount, at \in 0 .. now :
               now - at <= MaxLag /\ PutBinding(x, account, at)
    BY <1>1, <2>3, PutDropsIdlest, Zenon
  <2>4. CASE \E w \in StoreWriter : SerializeMap(w)
    <3>1. map' = LiveBindings(map, now)
      BY <2>1, <2>4, TrimOfTrimmed, Zenon DEF SerializeMap
    <3> QED
      BY <2>1, <3>1, LiveKeeps, Zenon
  <2> QED
    BY <2>2, <2>3, <2>4, Zenon
    DEF AffinityNext, WallTicks, SwapDirty, OpenTemp, WriteTemp, RenameTemp, WriteFails, AbortTask, ExitProcess
<1>2. AffinitySpec => [][EvictionIsByAgeStep]_affinityVars
  BY <1>1, AlwaysAffinity, PTL DEF AffinitySpec
<1> QED
  BY <1>2, Zenon DEF EvictionIsByAge

\* The file has the live pins of a clean store, and the map stays within its
\* cap but for ties.
THEOREM PinsSurvive == Sizes /\ AffinitySpec => []PinsAreKept
<1>1. CleanMeansSaved /\ OverCapOnlyByTies => PinsAreKept
  BY Zenon DEF PinsAreKept
<1> QED
  BY <1>1, CleanIsSaved, OverCapByTies, PTL
=============================================================================
