----------------------------- MODULE MCFailover -----------------------------
EXTENDS Failover, TLC

CONSTANTS m1, m2, m3

\* No extra rounds; and one where only m1 may be retried.
NoRounds == [m \in Member |-> 0]

OneRetries == [m \in Member |-> IF m = m1 THEN 1 ELSE 0]

RequestSymmetry == Permutations(Request)
=============================================================================
