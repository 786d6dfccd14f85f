------------------------------ MODULE MCWatcher ------------------------------
(* Instances of Watcher for TLC.                                           *)
EXTENDS Watcher

CONSTANTS a1, a2, b1, u1, again1, again2

(* a1 and a2 are fills of one transaction, b1 of another; u1 is the fill   *)
(* of wallets nobody watches, in the transaction of b1.  When the block of *)
(* the first is replaced, its fills may be reported by the logs again1 and *)
(* again2, one place further.                                              *)
TxOf == [l \in Logs |-> IF l \in {b1, u1} THEN "b" ELSE "a"]
IndexOf ==
    [l \in Logs |-> CASE l \in {a1, b1} -> 0 [] l \in {a2, u1, again1} -> 1 [] l = again2 -> 2]
FillOf == [l \in Logs |-> CASE l = again1 -> a1 [] l = again2 -> a2 [] OTHER -> l]
FirstOf == [t \in {"a", "b"} |-> IF t = "a" THEN {a1, a2} ELSE {b1, u1} \cap Logs]
InclusionsOf == [t \in {"a", "b"} |-> {FirstOf[t]} \cup (IF t = "a" THEN {{again1, again2}} ELSE {})]
=============================================================================
