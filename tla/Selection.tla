------------------------------ MODULE Selection ------------------------------
(***************************************************************************)
(* How the leaderboard rates a wallet and chooses whom to watch            *)
(* (services/leaderboard: packages client, dataapi, stats, skill and       *)
(* selection).  Pure functions of what the APIs answer.                    *)
(*                                                                         *)
(*   leaderboard pages -> candidatePool -> activity of each -> Compute,    *)
(*   Fresh -> Shrink over the population -> Select                         *)
(*                                                                         *)
(* An activity is [market, kind, usdc, size, at]; kind joins the type and  *)
(* the side of the API.  Rates are in percent, skill in hundredths of a    *)
(* percent; quotients are rounded down.                                    *)
(***************************************************************************)
EXTENDS Integers, SequencesExt

CONSTANTS
    Wallets,        \* well-formed addresses
    Address,        \* their alphabetical order
    Window,         \* the window the operator configured
    CandidateTopK, MaxCandidates,
    PageSize, MaxActivity,
    FreshMinSamples, CusumK, CusumH, CusumClamp,  \* in tenths of a deviation
    ShrinkK,        \* equivalent resolved markets of the prior
    ClvFull,        \* CLV samples of full confidence
    Criteria,       \* the gates: minResolved, minWinRate, ... , requireFresh
    TopN

ASSUME SelectionAssumption ==
    /\ {CandidateTopK, PageSize, ShrinkK, ClvFull, FreshMinSamples} \subseteq Nat \ {0}
    /\ {MaxCandidates, MaxActivity, TopN, CusumK, CusumH, CusumClamp} \subseteq Nat
    /\ Criteria.minPortfolio \in Int
    /\ CusumClamp - CusumK <= CusumH    \* 3.5 < 5.0 (freshness.go:10-22)
    /\ \A v, w \in Wallets : Address[v] \in Int /\ (Address[v] = Address[w] => v = w)

-----------------------------------------------------------------------------
(* The pool.                                                               *)

candidateWindows == {"7d", "30d", "all", Window}

(* The first row of each wallet, without the rows that have no address.    *)
Firsts(entries) ==
    LET first == {i \in DOMAIN entries :
                    /\ entries[i].wallet \in Wallets
                    /\ \A j \in 1 .. i - 1 : entries[j].wallet # entries[i].wallet}
    IN [k \in 1 .. Cardinality(first) |->
          entries[CHOOSE i \in first : Cardinality({j \in first : j < i}) = k - 1]]

Upto(s, n) == SubSeq(s, 1, Min({Len(s), n}))

(* No entries at all is an error.                                          *)
FetchEntries(page) == Upto(Firsts(page), CandidateTopK)

(* answers[w] is what FetchEntries returned for window w, <<>> an error.   *)
candidatePool(answers) ==
    LET extra == IF Window \in {"7d", "30d", "all"} THEN <<>> ELSE answers[Window]
        chosen == Upto(Firsts(answers["7d"] \o answers["30d"] \o answers["all"] \o extra),
                       MaxCandidates)
        profit30(w) ==
            LET amounts == {e.amount : e \in {x \in ToSet(answers["30d"]) : x.wallet = w}}
            IN IF amounts = {} THEN 0 ELSE Max(amounts)
    IN [i \in DOMAIN chosen |->
          [wallet |-> chosen[i].wallet, profit30 |-> profit30(chosen[i].wallet)]]

-----------------------------------------------------------------------------
(* stats.                                                                  *)

(* Whole pages are read until one is short or MaxActivity rows are there.  *)
Activity(history) ==
    Upto(history, ((MaxActivity + PageSize - 1) \div PageSize) * PageSize)

Usdc(acts, c, kinds) ==
    LET them == {i \in DOMAIN acts : acts[i].market = c /\ acts[i].kind \in kinds}
    IN SumFunctionOnSet([i \in them |-> acts[i].usdc], them)

Shares(acts, c, kind) ==
    LET them == {i \in DOMAIN acts : acts[i].market = c /\ acts[i].kind = kind}
    IN SumFunctionOnSet([i \in them |-> acts[i].size], them)

market(acts, c) ==
    LET cost == Usdc(acts, c, {"buy", "split"}) IN
    [net |-> Usdc(acts, c, {"sell", "redeem", "merge"}) - cost,
     cost |-> cost,
     redeemed |-> \E i \in DOMAIN acts : acts[i].market = c /\ acts[i].kind = "redeem",
     bought |-> Shares(acts, c, "buy"),
     held |-> Shares(acts, c, "buy") - Shares(acts, c, "sell"),
     last |-> Max({acts[i].at : i \in {j \in DOMAIN acts : acts[j].market = c}})]

(* Redeemed, or bought and sold back to a thousandth.                      *)
resolved(m) ==
    \/ m.redeemed
    \/ m.bought > 0 /\ 1000 * m.held \in -m.bought .. m.bought

Rating(markets, done, paid) ==
    LET pnl == SumFunctionOnSet([c \in paid |-> markets[c].net], paid)
        capital == SumFunctionOnSet([c \in paid |-> markets[c].cost], paid)
        wins == {c \in done : markets[c].net > 0}
        priced == {c \in paid : markets[c].cost > 0}
        inOrder == CHOOSE s \in [1 .. Cardinality(priced) -> priced] :
                     /\ ToSet(s) = priced
                     /\ \A i, j \in DOMAIN s : i < j => markets[s[i]].last <= markets[s[j]].last
    IN [resolved |-> Cardinality(done),
        winRate |-> IF done = {} THEN 0 ELSE (100 * Cardinality(wins)) \div Cardinality(done),
        pnl |-> pnl,
        roi |-> IF capital > 0 THEN (100 * pnl) \div capital ELSE 0,
        returns |-> [i \in DOMAIN inOrder |->
                       (100 * markets[inOrder[i]].net) \div markets[inOrder[i]].cost],
        traded |-> Cardinality(DOMAIN markets)]

(* Mutant of Compute: profit without a cost basis counts.                  *)
ComputeUnpaid(acts) ==
    LET markets == [c \in {acts[i].market : i \in DOMAIN acts} |-> market(acts, c)]
        done == {c \in DOMAIN markets : resolved(markets[c])}
    IN Rating(markets, done, done)

(* The returns, and the profit over the capital, are of the resolved       *)
(* markets whose cost is known.                                            *)
Compute(acts) ==
    LET markets == [c \in {acts[i].market : i \in DOMAIN acts} |-> market(acts, c)]
        done == {c \in DOMAIN markets : resolved(markets[c])}
    IN Rating(markets, done, {c \in done : markets[c].cost > 0})

-----------------------------------------------------------------------------
(* skill.                                                                  *)

Root(v) == CHOOSE x \in 0 .. v : x * x <= v /\ v < (x + 1) * (x + 1)

SumOf(s) == SumFunctionOnSet(s, DOMAIN s)

Clamped(z) == IF z > CusumClamp THEN CusumClamp ELSE IF z < -CusumClamp THEN -CusumClamp ELSE z

(* The lower CUSUM of the returns, measured in their own deviation.        *)
Cusum(returns) ==
    LET n == Len(returns)
        mean == SumOf(returns) \div n
        sd == Root(SumOf([i \in 1 .. n |-> (returns[i] - mean) * (returns[i] - mean)]) \div n)
        step(lo, r) == Max({0, lo - Clamped((10 * (r - mean)) \div sd) - CusumK})
    IN IF sd = 0 THEN 0 ELSE FoldLeft(step, 0, returns)

Fresh(returns) ==
    Len(returns) < FreshMinSamples \/ Cusum(returns) <= CusumH

(* pop is a function from wallets to what is known of them in this refresh.*)
PopulationMean(pop) ==
    LET n == SumFunctionOnSet([w \in DOMAIN pop |-> pop[w].rating.resolved], DOMAIN pop)
        total == SumFunctionOnSet(
                     [w \in DOMAIN pop |-> 100 * pop[w].rating.resolved * pop[w].rating.roi],
                     DOMAIN pop)
    IN IF n = 0 THEN 0 ELSE total \div n

Shrunk(pop, w) ==
    (100 * pop[w].rating.resolved * pop[w].rating.roi + ShrinkK * PopulationMean(pop))
      \div (pop[w].rating.resolved + ShrinkK)

(* Mutant of Score: the rank is the place in the sorted list.              *)
ScoreByPlace(pop, w) ==
    LET smaller == {v \in DOMAIN pop : \/ Shrunk(pop, v) < Shrunk(pop, w)
                                       \/ /\ Shrunk(pop, v) = Shrunk(pop, w)
                                          /\ Address[v] < Address[w]}
        n == Cardinality(DOMAIN pop) - 1
    IN IF n = 0 THEN 100 ELSE (200 * Cardinality(smaller) + n) \div (2 * n)

(* The percentile, to the nearest percent.                                 *)
Score(pop, w) ==
    LET smaller == {v \in DOMAIN pop : Shrunk(pop, v) < Shrunk(pop, w)}
        n == Cardinality(DOMAIN pop) - 1
    IN IF n = 0 THEN 100 ELSE (200 * Cardinality(smaller) + n) \div (2 * n)

-----------------------------------------------------------------------------
(* selection.                                                              *)

(* In 1/ClvFull of the unit of skill.                                      *)
rankKey(s) == ClvFull * s.shrunk + Min({s.clvN, ClvFull}) * 100 * s.avgCLV

meets(r) ==
    /\ r.resolved >= Criteria.minResolved
    /\ r.winRate >= Criteria.minWinRate
    /\ r.portfolio >= Criteria.minPortfolio
    /\ r.pnl >= Criteria.minRealized
    /\ Criteria.requireFresh => r.fresh

Above(s, t) ==
    \/ rankKey(s) > rankKey(t)
    \/ rankKey(s) = rankKey(t) /\ s.rating.winRate > t.rating.winRate

(* The order of the pool: ties go to the first address.                    *)
Before(stats, v, w) ==
    \/ Above(stats[v], stats[w])
    \/ ~Above(stats[w], stats[v]) /\ Address[v] < Address[w]

(* The best TopN of those that clear every gate.                           *)
Select(stats) ==
    LET pool == {w \in DOMAIN stats : meets(stats[w].rating)}
    IN {w \in pool : Cardinality({v \in pool : Before(stats, v, w)}) < TopN}
===============================================================================
