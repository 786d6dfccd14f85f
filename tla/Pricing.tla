------------------------------- MODULE Pricing -------------------------------
(***************************************************************************)
(* What a trade is worth copying: the decision of strategy (package        *)
(* decide), the stake of the sizing engine (pkg/sizing, packages sizer and *)
(* book) and the order the trader builds of a proposal (package order).    *)
(* Pure functions of a trade, of the market and of the configuration.      *)
(*                                                                         *)
(* Prices are in the units of Decode, a Tick of the exchange is several;   *)
(* money is in the same units, fractions are in tenths.  A quotient of     *)
(* floating point is rounded down.                                         *)
(***************************************************************************)
EXTENDS Decode, Sequences, TLC

CONSTANT Tick  \* units in a price tick

ASSUME TickAssumption == Tick \in 1 .. Unit

-----------------------------------------------------------------------------
(* decide.                                                                 *)

SizeUSD(t, p) ==
    LET size == IF p.sizing = "fixed" THEN p.fixedUSD
                ELSE (t.size * t.price * p.proportion) \div 10
    IN IF p.maxSizeUSD > 0 /\ size > p.maxSizeUSD THEN p.maxSizeUSD ELSE size

WithinSlippage(t, current, p) ==
    IF t.side = "buy" THEN current <= t.price + p.maxSlippage
    ELSE current >= t.price - p.maxSlippage

(* The worst price accepted, to the nearest tick.                          *)
limitPrice(t, p) ==
    LET v == IF t.side = "buy" THEN t.price + p.maxSlippage ELSE t.price - p.maxSlippage
    IN ((2 * v + Tick) \div (2 * Tick)) * Tick

Tradable(v) == v >= Tick /\ v <= Unit - Tick

(* Decide proposes, and does not skip.                                     *)
Accepts(t, m, p) ==
    /\ t.price > 0 /\ t.size > 0
    /\ m.active
    /\ p.allowlist = {} \/ m.condition \in p.allowlist
    /\ m.liquidity >= p.minLiquidityUSD
    /\ m.price > 0
    /\ WithinSlippage(t, m.price, p)
    /\ SizeUSD(t, p) >= p.minSizeUSD
    /\ Tradable(limitPrice(t, p))

ProposalID(t) == <<t.tx, t.index, t.wallet>>

Proposal(t, p) ==
    [id |-> ProposalID(t), trade |-> t, limit |-> limitPrice(t, p), sizeUSD |-> SizeUSD(t, p)]

-----------------------------------------------------------------------------
(* book: the best level comes first on either side.                        *)

HasMid(b) == b.bids # <<>> /\ b.asks # <<>>
Mid(b) == (b.bids[1].price + b.asks[1].price) \div 2
HalfSpread(b) == (b.asks[1].price - b.bids[1].price) \div 2

Book(bids, asks) ==
    [bids |-> SortSeq(bids, LAMBDA k, l : k.price > l.price),
     asks |-> SortSeq(asks, LAMBDA k, l : k.price < l.price)]

(* The asks within the band of the best one.                               *)
BuyDepthUSD(b, band) ==
    SumFunctionOnSet([i \in DOMAIN b.asks |-> b.asks[i].price * b.asks[i].size],
                     {i \in DOMAIN b.asks : b.asks[i].price <= b.asks[1].price + band})

-----------------------------------------------------------------------------
(* sizing.Size.                                                            *)

AtMost(x, bound) == IF x > bound THEN bound ELSE x

(* Edge and cost are in 1/(10 * CLVFull) of a price unit.                  *)
Edge(in, c) ==
    LET n == AtMost(in.clvN, c.clvFull)
        roi == IF in.roi < 0 THEN 0 ELSE in.roi
    IN 10 * n * in.avgCLV + (c.clvFull - n) * in.price * roi

Cost(in, c) == 10 * c.clvFull * in.halfSpread

(* Mutant of Stake: the edge is not net of the costs.                      *)
StakeGross(in, c) ==
    LET net == Edge(in, c)
        kelly == (c.kelly * net * in.bankroll) \div (100 * c.clvFull * (Unit - in.price))
        capped == AtMost(kelly, (c.perBet * in.bankroll) \div 10)
    IN IF net > 0 THEN {AtMost(capped, in.depthCap)} ELSE {}

(* The stake, in a set, or the empty set for a skip.  The sizer passes no  *)
(* exposure, drawdown, fee or slippage: their caps and costs do not act.   *)
Stake(in, c) ==
    LET net == Edge(in, c) - Cost(in, c)
        kelly == (c.kelly * net * in.bankroll) \div (100 * c.clvFull * (Unit - in.price))
        perBet == AtMost(kelly, (c.perBet * in.bankroll) \div 10)
        depth == IF in.depthCap > 0 THEN AtMost(perBet, in.depthCap) ELSE perBet
        stake == AtMost(depth, (c.maxExposure * in.bankroll) \div 10)
    IN IF /\ in.bankroll > 0
          /\ in.price > 0 /\ in.price < Unit
          /\ in.fresh
          /\ 2 * in.halfSpread <= c.maxSpread
          /\ Edge(in, c) > 0
          /\ net > 10 * c.clvFull * c.edgeBuffer
          /\ stake >= c.minStakeUSD
       THEN {stake}
       ELSE {}

(* sizer.Size: a leader with stats, a book with both sides.                *)
Sized(row, b, c) ==
    IF ~row.found \/ ~HasMid(b) THEN {}
    ELSE Stake([price |-> Mid(b), halfSpread |-> HalfSpread(b),
                avgCLV |-> row.avgCLV, clvN |-> row.clvN, roi |-> row.roi, fresh |-> row.fresh,
                bankroll |-> c.bankroll, depthCap |-> BuyDepthUSD(b, c.slipBand)], c)

-----------------------------------------------------------------------------
(* order.FromProposal: pay money for shares, or shares for money.  Shares  *)
(* are in units of 1/Unit.                                                 *)
FromProposal(o) ==
    LET shares == (o.sizeUSD * Unit) \div o.limit
    IN IF o.trade.side = "buy"
       THEN [makerAmount |-> o.sizeUSD, takerAmount |-> shares]
       ELSE [makerAmount |-> shares, takerAmount |-> o.sizeUSD]
===============================================================================
