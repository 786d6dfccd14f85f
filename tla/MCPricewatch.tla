---------------------------- MODULE MCPricewatch ----------------------------
EXTENDS Pricewatch

CONSTANTS k1, w

(* One sell, which may be delivered again.                                 *)
MCTrades == {[wallet |-> w, token |-> k1, entry |-> 7, buy |-> FALSE]}

(* Gamma learns of the end late, of the market at once or with its end.    *)
MCListings == {[market |-> 0, end |-> 1], [market |-> 1, end |-> 1]}

(* The market ends at 2, and its price moves all the time.                 *)
MCEndOf == [k \in Tokens |-> 2]
MCPrice == [k \in Tokens |-> [n \in 0 .. MaxTime |-> 5 + n]]
===============================================================================
