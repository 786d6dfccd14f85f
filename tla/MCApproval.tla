----------------------------- MODULE MCApproval -----------------------------
(* Instances of Approval for TLC.                                          *)
EXTENDS Approval, TLC

CONSTANTS p1, a1, a2, t1, t2, c1, c2

(* Every arrival is one of p1: proposals share the poster and no more.     *)
AllOfOne == [a \in Arrivals |-> p1]

(* Nothing tells the taps apart, nor the arrivals of one proposal, nor the *)
(* commands.                                                               *)
Symmetry == Permutations(Taps) \cup Permutations(Arrivals) \cup Permutations(Commands)
=============================================================================
