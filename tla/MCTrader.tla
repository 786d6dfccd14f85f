------------------------------ MODULE MCTrader ------------------------------
(* Instances of Trader for TLC.                                            *)
EXTENDS Trader

CONSTANTS p1, p2, p3

OneEach == [p \in Proposals |-> 1]
TwoAndOnes == [p \in Proposals |-> IF p = p1 THEN 2 ELSE 1]
=============================================================================
