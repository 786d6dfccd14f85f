------------------------------- MODULE Strategy -------------------------------
(***************************************************************************)
(* The strategy service (services/strategy, package handler): one callback *)
(* that turns the trades the watcher detected into proposals.              *)
(*                                                                         *)
(*   fetch the market -> add to seen -> Decide -> size the stake -> publish*)
(*                                                                         *)
(* The watcher publishes a batch of logs again when it cannot tell whether *)
(* it was handled, whole or torn in two (module Watcher); the bus keeps    *)
(* what strategy has not taken yet in the memory of its client.  What was  *)
(* seen is in memory, in two generations of bounded size, so that in the   *)
(* end every trade is forgotten.                                           *)
(***************************************************************************)
EXTENDS Pricing

CONSTANTS
    Batches,        \* sets of raw logs the watcher may publish the trades of
    Watched,        \* the watched wallets
    Markets,        \* answers of the market data source
    Rows,           \* answers of the leaderboard to GetWalletStats
    Books,          \* order books
    Policies,       \* configurations of the service
    Capacity,       \* max of GenSet
    MaxBatches,     \* batches published in a behaviour
    MaxFailures     \* failures in a behaviour

ASSUME StrategyAssumption ==
    /\ Capacity \in Nat \ {0} /\ MaxBatches \in Nat /\ MaxFailures \in Nat
    /\ \A logs \in Batches :
         /\ IsFiniteSet(logs)
         /\ \A l \in logs : {l.makerAmount, l.takerAmount, l.index} \subseteq Nat
    /\ \A p \in Policies :
         /\ {p.fixedUSD, p.proportion, p.minSizeUSD, p.maxSizeUSD, p.maxSlippage} \subseteq Nat
         /\ p.engine =>
              /\ {p.bankroll, p.kelly, p.edgeBuffer, p.perBet, p.maxExposure, p.minStakeUSD,
                  p.slipBand} \subseteq Nat
              /\ p.clvFull \in Nat \ {0}
    /\ \A row \in Rows : {row.avgCLV, row.roi} \subseteq Int /\ row.clvN \in Nat
    /\ \A b \in Books : {b.bids, b.asks} \subseteq Seq([price : Nat, size : Nat])

VARIABLES
    policy,      \* the configuration, fixed when the process is deployed
    queue,       \* trades on the bus, not yet handled
    stage,       \* stage of Handle
    offer,       \* the proposal being sized or published, in a set
    cur, old,    \* GenSet: the ids added last and those before
    verdicts,    \* history: the ids handled by this process and how it ended
    batches, failures

seen == <<cur, old>>
vars == <<policy, queue, stage, offer, seen, verdicts, batches, failures>>

Seen == cur \cup old

TypeOK ==
    /\ policy \in Policies
    /\ stage \in {"idle", "size", "publish"}
    /\ stage # "idle" => queue # <<>>
    /\ Cardinality(offer) = (IF stage \in {"size", "publish"} THEN 1 ELSE 0)
    /\ Cardinality(cur) < Capacity /\ Cardinality(old) \in {0, Capacity}
    /\ cur \cap old = {}
    /\ \A x \in offer : x.proposal.id \in Seen
    /\ batches \in 0 .. MaxBatches /\ failures \in 0 .. MaxFailures

Init ==
    /\ policy \in Policies
    /\ queue = <<>>
    /\ stage = "idle" /\ offer = {}
    /\ cur = {} /\ old = {}
    /\ verdicts = <<>>
    /\ batches = 0 /\ failures = 0

-----------------------------------------------------------------------------
(* The watcher publishes the trades of a batch, one after the other.       *)
TradesOf(logs) == AggregateByTx(WatchedFills(logs, Watched))

Sorted(T) ==
    CHOOSE s \in [1 .. Cardinality(T) -> T] :
        /\ {s[i] : i \in DOMAIN s} = T
        /\ \A i, j \in DOMAIN s : i < j /\ s[i].tx = s[j].tx =>
                s[i].index <= s[j].index /\ \A k \in i .. j : s[k].tx = s[i].tx

Detect(logs) ==
    /\ batches < MaxBatches
    /\ batches' = batches + 1
    /\ queue' = queue \o Sorted(TradesOf(logs))
    /\ UNCHANGED <<policy, stage, offer, seen, verdicts, failures>>

-----------------------------------------------------------------------------
(* GenSet.Add.                                                             *)

(* Mutant of Add: a full generation is dropped.                            *)
AddForgets(id) ==
    LET full == Cardinality(cur \cup {id}) >= Capacity IN
    /\ cur' = IF full THEN {} ELSE cur \cup {id}
    /\ old' = IF full THEN {} ELSE old

Add(id) ==
    LET full == Cardinality(cur \cup {id}) >= Capacity IN
    /\ cur' = IF full THEN {} ELSE cur \cup {id}
    /\ old' = IF full THEN cur \cup {id} ELSE old

-----------------------------------------------------------------------------
(* Handle.                                                                 *)

Fail == failures < MaxFailures /\ failures' = failures + 1

Trade == Head(queue)
Id == ProposalID(Trade)

(* Handle returns; the callback is free for the next trade.                *)
Return(verdict) ==
    /\ stage' = "idle" /\ offer' = {}
    /\ queue' = Tail(queue)
    /\ verdicts' = Append(verdicts, [id |-> Id, verdict |-> verdict])

(* The market could not be fetched: the trade is not seen, "so a           *)
(* redelivery can retry" (handler.go:63).                                  *)
FetchFails ==
    /\ stage = "idle" /\ queue # <<>>
    /\ Fail
    /\ Return("retry")
    /\ UNCHANGED <<policy, seen, batches>>

(* The market, or none, and the decision on it.  The trade is seen whatever*)
(* comes of it.                                                            *)
Vet ==
    /\ stage = "idle" /\ queue # <<>>
    /\ \/ /\ Id \in Seen
          /\ Return("duplicate")
          /\ UNCHANGED seen
       \/ /\ Id \notin Seen
          /\ Add(Id)
          /\ \/ Return("skipped")
             \/ \E m \in Markets :
                  /\ Accepts(Trade, m, policy)
                  /\ stage' = IF policy.engine THEN "size" ELSE "publish"
                  /\ offer' = {[proposal |-> Proposal(Trade, policy), market |-> m, row |-> {}, book |-> {}]}
                  /\ UNCHANGED <<queue, verdicts>>
    /\ UNCHANGED <<policy, batches, failures>>

(* The engine sets the stake or vetoes the proposal, also when the lookups *)
(* it needs fail; the trade was seen.                                      *)
SizeStake ==
    /\ stage = "size"
    /\ \/ /\ Fail
          /\ Return("vetoed")
       \/ /\ UNCHANGED failures
          /\ \E row \in Rows, b \in Books, o \in offer :
               IF Sized(row, b, policy) = {}
               THEN Return("vetoed")
               ELSE /\ stage' = "publish"
                    /\ \E stake \in Sized(row, b, policy) :
                         offer' = {[o EXCEPT !.proposal.sizeUSD = stake, !.row = {row}, !.book = {b}]}
                    /\ UNCHANGED <<queue, verdicts>>
    /\ UNCHANGED <<policy, seen, batches>>

Publish ==
    /\ stage = "publish"
    /\ \/ Fail /\ Return("lost")
       \/ UNCHANGED failures /\ Return("proposed")
    /\ UNCHANGED <<policy, seen, batches>>

(* The process ends; what was seen and the trades it had taken go with it. *)
Restart ==
    /\ Fail
    /\ queue' = <<>> /\ stage' = "idle" /\ offer' = {}
    /\ cur' = {} /\ old' = {}
    /\ verdicts' = <<>>
    /\ UNCHANGED <<policy, batches>>

-----------------------------------------------------------------------------
Step == FetchFails \/ Vet \/ SizeStake \/ Publish

Next == Restart \/ Step \/ \E logs \in Batches : Detect(logs)

Spec == Init /\ [][Next]_vars

-----------------------------------------------------------------------------
Done(v) == v.verdict \notin {"retry", "duplicate"}

(* A trade yields one decision, and so at most one proposal (handler.go:53-*)
(* 55), however often it is delivered, until Capacity others were decided: *)
(* between two decisions on one trade lie that many on other trades.       *)
ProposedOnce ==
    \A i, j \in DOMAIN verdicts :
        i < j /\ Done(verdicts[i]) /\ Done(verdicts[j]) /\ verdicts[i].id = verdicts[j].id
            => Cardinality({verdicts[k].id : k \in {n \in i + 1 .. j - 1 : Done(verdicts[n])}})
                 >= Capacity

(* A delivery is ignored only for a decision this process took on the trade*)
(* itself: one whose market could not be fetched may be retried (handler.go*)
(* :63-66), and the two wallets of one log do not hide each other          *)
(* (decide.go:179-184).                                                    *)
DuplicateOfVerdict ==
    \A j \in DOMAIN verdicts :
        verdicts[j].verdict = "duplicate"
            => \E i \in 1 .. j - 1 : Done(verdicts[i]) /\ verdicts[i].id = verdicts[j].id

Worst(o) ==
    IF o.trade.side = "buy" THEN o.trade.price + policy.maxSlippage
    ELSE o.trade.price - policy.maxSlippage

(* An order at the limit pays, or asks for, what the policy allows: within *)
(* half a tick and the share that rounding drops.                          *)
PricedWithin(o) ==
    LET amounts == FromProposal(o) IN
    IF o.trade.side = "buy"
    THEN 2 * amounts.makerAmount * Unit <= (2 * Worst(o) + Tick) * (amounts.takerAmount + 1)
    ELSE 2 * amounts.takerAmount * Unit >= (2 * Worst(o) - Tick) * amounts.makerAmount

(* The money is within what the policy, or with the engine the bankroll and*)
(* the asks near the best one, allows.                                     *)
SizedWithin(x) ==
    LET o == x.proposal IN
    IF policy.engine
    THEN \A b \in x.book :
           /\ o.sizeUSD >= policy.minStakeUSD
           /\ 10 * o.sizeUSD <= policy.bankroll * AtMost(policy.perBet, policy.maxExposure)
           /\ o.sizeUSD <= BuyDepthUSD(b, policy.slipBand)
    ELSE /\ o.sizeUSD >= policy.minSizeUSD
         /\ policy.maxSizeUSD > 0 => o.sizeUSD <= policy.maxSizeUSD

(* A stake is placed for an edge that outlasts half the spread.            *)
WorthIt(x) ==
    \A b \in x.book, row \in x.row :
        (row.clvN >= policy.clvFull) => row.avgCLV > HalfSpread(b) + policy.edgeBuffer

(* What the process remembers is what it decided on, and each trade once.  *)
Inv == TypeOK /\ ProposedOnce /\ DuplicateOfVerdict

(* What is published costs no more than the policy allows in price and in  *)
(* money and, sized by the engine, is backed by an edge net of the spread. *)
WithinPolicy ==
    stage = "publish" =>
        \A x \in offer : PricedWithin(x.proposal) /\ SizedWithin(x) /\ WorthIt(x)

(* What a wallet holds of a token after the trades T, and what a log moved.*)
Held(T, w, token) ==
    LET own == {t \in T : t.wallet = w /\ t.token = token}
    IN SumFunctionOnSet([t \in own |-> IF t.side = "buy" THEN t.size ELSE -t.size], own)

Moved(of, w) ==
    LET n == IF of.side = "buy" THEN of.takerAmount ELSE of.makerAmount
    IN IF w \notin {of.maker, of.taker} THEN 0
       ELSE IF (of.side = "buy") = (w = of.maker) THEN n ELSE -n

Events(logs) == UNION {Decoded(l) : l \in logs}

Gained(logs, w, token) ==
    LET traded == {of \in Events(logs) : of.token = token}
    IN SumFunctionOnSet([of \in traded |-> Moved(of, w)], traded)

(* T says of each watched wallet that it gained what the logs moved to it, *)
(* no trade is priced outside its fills, and no two have one identity.     *)
AddsUp(logs, T) ==
    LET fills == WatchedFills(logs, Watched)
    IN /\ \A w \in Watched, token \in {of.token : of \in Events(logs)} :
            Held(T, w, token) = Gained(logs, w, token)
       /\ \A t \in T :
            LET prices == {priceString(f.usdc, f.shares) : f \in {g \in fills : key(g) = key(t)}}
            IN \E low, high \in prices : low <= t.price /\ t.price <= high
       /\ Cardinality({ProposalID(t) : t \in T}) = Cardinality(T)

Arrived == SubSeq(queue', Len(queue) + 1, Len(queue'))

(* The trades that arrive with a batch are its logs, in both ABIs, seen by *)
(* both sides and merged by transaction: none lost, none counted twice.    *)
(* The logs are between two different wallets, each with its own index, and*)
(* move money for shares.                                                  *)
TradesAddUp ==
    [][\A logs \in Batches :
        Detect(logs) =>
            /\ AddsUp(logs, {Arrived[i] : i \in DOMAIN Arrived})
            /\ Len(Arrived) = Cardinality(TradesOf(logs))]_vars
===============================================================================
