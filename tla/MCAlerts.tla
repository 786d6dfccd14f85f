------------------------------ MODULE MCAlerts ------------------------------
(* Instances of Alerts for TLC.                                            *)
EXTENDS Alerts, TLC

CONSTANTS f1, f2, f3, v1, v2

(* f1 and f2 are fills of one wallet on one market and side, f3 is not.    *)
GroupOf == [f \in Fills |-> IF f = f3 THEN "h" ELSE "g"]

(* Nothing tells the fills of one group apart, nor the workers.            *)
Symmetry == Permutations({f1, f2}) \cup Permutations(Workers)
=============================================================================
