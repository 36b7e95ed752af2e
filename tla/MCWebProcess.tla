---------------------------- MODULE MCWebProcess ----------------------------
(* WebProcess with the constants its configurations choose among. *)
EXTENDS WebProcess, TLC

CONSTANTS k1, k2, off, on, p1, p2, p3, a1, a2, h1, h2

AllOff == [key \in {k1, k2} |-> off]
Symmetry == Permutations({p1, p2, p3}) \cup Permutations({a1, a2}) \cup Permutations({h1, h2})
            \cup Permutations({k1, k2})
=============================================================================
