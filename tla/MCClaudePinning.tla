-------------------------- MODULE MCClaudePinning ---------------------------
(***************************************************************************)
(* Instances of ClaudePinning for TLC: one conversation, two subscriptions *)
(* and one API key.                                                        *)
(***************************************************************************)
EXTENDS ClaudePinning, TLC

CONSTANTS m1, m2, m3

MCOrder == <<m1, m2, m3>>

MCPools == {MCOrder}

MCKey == {"raw", "scoped"} \X Session

TurnSymmetry == Permutations(Turn)
=============================================================================
