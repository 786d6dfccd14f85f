---------------------------- MODULE OncePlacement ----------------------------
(***************************************************************************)
(* What the trader promises of each proposal, without its pipeline, its    *)
(* goroutines or its failures: an order leaves only for a proposal that    *)
(* somebody holds a claim on, a claim can be dropped only as long as no    *)
(* order left, and after that the fate of the one order is the exchange's. *)
(* There is no way back from "sent", so no second order ever leaves.       *)
(***************************************************************************)
CONSTANT Proposals

VARIABLE placement

Init == placement = [p \in Proposals |-> "free"]

Move(p, from, to) ==
    /\ placement[p] = from
    /\ placement' = [placement EXCEPT ![p] = to]

Claim(p) == Move(p, "free", "claimed")
Drop(p) == Move(p, "claimed", "free")
Send(p) == Move(p, "claimed", "sent")
Accept(p) == Move(p, "sent", "accepted")
Refuse(p) == Move(p, "sent", "refused")

Next == \E p \in Proposals : Claim(p) \/ Drop(p) \/ Send(p) \/ Accept(p) \/ Refuse(p)

Spec == Init /\ [][Next]_placement
=============================================================================
