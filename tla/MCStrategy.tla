------------------------------ MODULE MCStrategy ------------------------------
EXTENDS Strategy

CONSTANTS whale, shark, tok, cash

Log(i, maker, taker, side, makerAmount, takerAmount) ==
    [topic |-> "current", topics |-> 4, words |-> 7, tx |-> 1, index |-> i, maker |-> maker,
     taker |-> taker, side |-> side, token |-> tok, makerAmount |-> makerAmount,
     takerAmount |-> takerAmount]

Legacy(tx, maker, taker, makerAsset, takerAsset, makerAmount, takerAmount) ==
    [topic |-> "legacy", topics |-> 4, words |-> 5, tx |-> tx, index |-> 1, maker |-> maker,
     taker |-> taker, makerAsset |-> makerAsset, takerAsset |-> takerAsset,
     makerAmount |-> makerAmount, takerAmount |-> takerAmount]

(* One transaction of two fills, in which shark takes what whale and a     *)
(* stranger make; a sale in the legacy ABI; a log of two tokens.           *)
L1 == Log(1, whale, shark, "sell", 20, 10)
L2 == Log(2, "stranger", shark, "sell", 10, 6)
L3 == Legacy(2, whale, "stranger", tok, cash, 20, 9)
L4 == Legacy(3, whale, "stranger", tok, tok, 5, 5)

MCBatches == {{L1, L2}, {L2}, {L3, L4}}

Level(price, size) == [price |-> price, size |-> size]

MCMarkets ==
    {[active |-> TRUE, condition |-> "c", liquidity |-> 50, price |-> 50],
     [active |-> TRUE, condition |-> "c", liquidity |-> 50, price |-> 65],
     [active |-> TRUE, condition |-> "d", liquidity |-> 50, price |-> 50]}

MCRows ==
    {[found |-> TRUE, avgCLV |-> 12, clvN |-> 9, roi |-> 0, fresh |-> TRUE],
     [found |-> TRUE, avgCLV |-> 5, clvN |-> 9, roi |-> 2, fresh |-> TRUE],
     [found |-> TRUE, avgCLV |-> -8, clvN |-> 1, roi |-> 5, fresh |-> TRUE],
     [found |-> TRUE, avgCLV |-> 12, clvN |-> 9, roi |-> 0, fresh |-> FALSE]}

MCBooks ==
    {Book(<<Level(46, 3), Level(48, 1)>>, <<Level(90, 9), Level(52, 1)>>),
     Book(<<Level(44, 3)>>, <<Level(52, 30)>>),
     Book(<<>>, <<Level(52, 30)>>)}

(* Money is in units of 1/Unit USDC.                                       *)
Fixed ==
    [engine |-> FALSE, sizing |-> "fixed", fixedUSD |-> 120, proportion |-> 0,
     minSizeUSD |-> 20, maxSizeUSD |-> 100, maxSlippage |-> 13, allowlist |-> {"c"},
     minLiquidityUSD |-> 40]

Proportional ==
    [Fixed EXCEPT !.sizing = "proportional", !.proportion = 1, !.maxSizeUSD = 75,
                  !.allowlist = {}, !.maxSlippage = 2]

Engine ==
    [engine |-> TRUE, sizing |-> "fixed", fixedUSD |-> 50, proportion |-> 0, minSizeUSD |-> 20,
     maxSizeUSD |-> 0, maxSlippage |-> 8, allowlist |-> {}, minLiquidityUSD |-> 40,
     bankroll |-> 1000, kelly |-> 5, edgeBuffer |-> 2, maxSpread |-> 8, perBet |-> 3,
     maxExposure |-> 1, clvFull |-> 5, minStakeUSD |-> 20, slipBand |-> 5]

MCPolicies == {Fixed, Proportional, Engine}
===============================================================================
