--------------------------- MODULE MCWhitelister ---------------------------
(* Instances of Whitelister for TLC. *)
EXTENDS Whitelister, TLC

CONSTANTS a1, a2, e1, e2, c1, c2

OneAddr == {a1}
TwoAddrs == {a1, a2}
Second == {a2}
None == {}
TwoEndpoints == {e1, e2}
OneCaller == {c1}
TwoCallers == {c1, c2}

\* callers are interchangeable
Symmetry == Permutations(TwoCallers)
=============================================================================
