-------------------------------- MODULE Decode --------------------------------
(***************************************************************************)
(* From the OrderFilled logs of the exchange contracts to the trades of    *)
(* watched wallets (services/watcher, packages decode and engine).         *)
(*                                                                         *)
(*   log -> Decode, by the ABI its topic names -> FillFor each watched side*)
(*     -> AggregateByTx: one trade for each transaction, wallet, token and *)
(*        direction, at the average price                                  *)
(*                                                                         *)
(* A raw log is a record: its topic ("current", "legacy" or another), the  *)
(* number of topics and of data words, maker, taker, the two amounts, and  *)
(* side and token or, in the legacy ABI, the two assets.  Amounts are      *)
(* whole units of USDC and of shares; prices are in units of 1/Unit USDC.  *)
(***************************************************************************)
EXTENDS FiniteSetsExt

CONSTANTS
    Unit,       \* units of a price in one USDC
    Collateral  \* the asset id of USDC in the legacy ABI

ASSUME UnitAssumption == Unit \in Nat \ {0}

Opposite(side) == IF side = "buy" THEN "sell" ELSE "buy"

(* The fields both ABIs share.                                             *)
OrderFilled(l, side, token) ==
    [maker |-> l.maker, taker |-> l.taker, side |-> side, token |-> token,
     makerAmount |-> l.makerAmount, takerAmount |-> l.takerAmount,
     tx |-> l.tx, index |-> l.index]

(* The decoders return the set of what they can make of a log: one event,  *)
(* or none when it does not have the shape of its ABI.                     *)
DecodeOrderFilled(l) ==
    IF l.topics = 4 /\ l.words = 7 /\ l.side \in {"buy", "sell"}
    THEN {OrderFilled(l, l.side, l.token)}
    ELSE {}

(* The maker who pays in collateral buys; one asset must be collateral and *)
(* the other not.                                                          *)
DecodeOrderFilledLegacy(l) ==
    IF l.topics # 4 \/ l.words # 5 \/ (l.makerAsset = Collateral) = (l.takerAsset = Collateral)
    THEN {}
    ELSE IF l.makerAsset = Collateral
         THEN {OrderFilled(l, "buy", l.takerAsset)}
         ELSE {OrderFilled(l, "sell", l.makerAsset)}

Decoded(l) ==
    CASE l.topic = "current" -> DecodeOrderFilled(l)
      [] l.topic = "legacy" -> DecodeOrderFilledLegacy(l)
      [] OTHER -> {}

-----------------------------------------------------------------------------
(* Mutant of FillFor: the taker is given the maker's side.                 *)
FillForMakerSide(of, role) ==
    LET makerBuys == of.side = "buy" IN
    [role |-> role, wallet |-> IF role = "maker" THEN of.maker ELSE of.taker,
     token |-> of.token, side |-> of.side,
     usdc |-> IF makerBuys THEN of.makerAmount ELSE of.takerAmount,
     shares |-> IF makerBuys THEN of.takerAmount ELSE of.makerAmount,
     tx |-> of.tx, index |-> of.index]

(* The fill as the maker or the taker sees it.  The maker's side says which*)
(* amount is money; the taker is on the other side, even of himself.       *)
FillFor(of, role) ==
    LET makerBuys == of.side = "buy" IN
    [role |-> role, wallet |-> IF role = "maker" THEN of.maker ELSE of.taker,
     token |-> of.token,
     side |-> IF role = "taker" \/ of.maker = of.taker THEN Opposite(of.side) ELSE of.side,
     usdc |-> IF makerBuys THEN of.makerAmount ELSE of.takerAmount,
     shares |-> IF makerBuys THEN of.takerAmount ELSE of.makerAmount,
     tx |-> of.tx, index |-> of.index]

(* The fills of watched wallets in a batch of logs: a log between two of   *)
(* them gives two.                                                         *)
WatchedFills(logs, watched) ==
    {f \in UNION {{FillFor(of, role) : of \in Decoded(l), role \in {"maker", "taker"}}
                    : l \in logs} : f.wallet \in watched}

(* Money over shares, rounded to the nearest unit; 0 when there are none.  *)
priceString(usdc, shares) ==
    IF shares = 0 THEN 0 ELSE (2 * usdc * Unit + shares) \div (2 * shares)

key(f) == [tx |-> f.tx, wallet |-> f.wallet, token |-> f.token, side |-> f.side]

(* One trade for each key, with the lowest index of its fills.             *)
AggregateByTx(fills) ==
    LET trade(k) ==
          LET group == {f \in fills : key(f) = k}
              usdc == SumFunctionOnSet([f \in group |-> f.usdc], group)
              shares == SumFunctionOnSet([f \in group |-> f.shares], group)
          IN [tx |-> k.tx, wallet |-> k.wallet, token |-> k.token, side |-> k.side,
              price |-> priceString(usdc, shares), size |-> shares,
              index |-> Min({f.index : f \in group})]
    IN {trade(k) : k \in {key(f) : f \in fills}}
===============================================================================
