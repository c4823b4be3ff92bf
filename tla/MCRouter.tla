------------------------------ MODULE MCRouter ------------------------------
(***************************************************************************)
(* Instance of the router for TLC: three members, two scopes, stale lists. *)
(***************************************************************************)
EXTENDS RouterRequests, TLC

CONSTANTS m1, m2, m3

MCPools == {<<m1, m2>>, <<m2, m1>>, <<m3, m1, m2>>}

KeySymmetry == Permutations(Key)

\* No step depends on the request before it.
WithoutRequest == vars
=============================================================================
