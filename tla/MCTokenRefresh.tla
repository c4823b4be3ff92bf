--------------------------- MODULE MCTokenRefresh ---------------------------
(***************************************************************************)
(* Instances of TokenRefresh for TLC.                                      *)
(***************************************************************************)
EXTENDS TokenRefresh, TLC

CONSTANTS t1, t2, o1, o2, o3

\* Objects nobody holds are garbage: what was in them tells no states apart.
Reachable ==
    <<file, issued, valid, expired, coordinator, rescan, published, task, written, lineage, spent,
      [o \in Live |-> member[o]]>>

Symmetry == Permutations(Object) \union Permutations(Task)
=============================================================================
