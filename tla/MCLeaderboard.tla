---------------------------- MODULE MCLeaderboard ----------------------------
EXTENDS Leaderboard, TLC

CONSTANTS a, b, c

(* Newest first: a market bought for 10 and left for `back`.               *)
Trip(m, kind, back) ==
    <<[market |-> m, kind |-> kind, usdc |-> back, size |-> 10, at |-> 10 * m + 1],
      [market |-> m, kind |-> "buy", usdc |-> 10, size |-> 10, at |-> 10 * m]>>

(* Five wins and a loss; three wins before two losses.                     *)
Steady == Trip(6, "sell", 1) \o Trip(5, "redeem", 12) \o Trip(4, "redeem", 12)
            \o Trip(3, "redeem", 12) \o Trip(2, "sell", 12) \o Trip(1, "redeem", 12)
Fading == Trip(6, "sell", 3) \o Trip(5, "sell", 3) \o Trip(4, "redeem", 19)
            \o Trip(3, "redeem", 19) \o Trip(2, "redeem", 19) \o Trip(1, "redeem", 19)

(* The buy of market 2 lies beyond the rows fetched; one market is split   *)
(* and merged, one is still open.                                          *)
Cut == Trip(7, "redeem", 14) \o Trip(5, "sell", 8) \o Trip(4, "redeem", 11)
         \o <<[market |-> 8, kind |-> "buy", usdc |-> 5, size |-> 9, at |-> 45],
              [market |-> 9, kind |-> "merge", usdc |-> 3, size |-> 3, at |-> 44],
              [market |-> 9, kind |-> "split", usdc |-> 3, size |-> 3, at |-> 43],
              [market |-> 3, kind |-> "reward", usdc |-> 3, size |-> 0, at |-> 42],
              [market |-> 3, kind |-> "redeem", usdc |-> 2, size |-> 2, at |-> 41]>>
         \o Trip(2, "redeem", 50)
(* All but a thousandth is sold.                                           *)
Small == <<[market |-> 1, kind |-> "sell", usdc |-> 14, size |-> 999, at |-> 11],
           [market |-> 1, kind |-> "buy", usdc |-> 10, size |-> 1000, at |-> 10]>>

MCHistories == (a :> {Steady, Fading}) @@ (b :> {Cut}) @@ (c :> {Small, <<>>})
MCAddress == (a :> 1) @@ (b :> 2) @@ (c :> 3)
MCPortfolio == (a :> 500) @@ (b :> 300) @@ (c :> 200)

Row(w, n) == [wallet |-> w, amount |-> n]
MCBoards ==
    ("7d" :> {<<Row(a, 9), Row(b, 5)>>}) @@
    ("30d" :> {<<Row(b, 8), Row("none", 7), Row(b, 8), Row(a, 6)>>}) @@
    ("all" :> {<<Row(c, 9), Row(b, 3)>>}) @@
    ("1d" :> {<<Row(c, 2), Row(a, 1), Row(b, 1)>>})

MCClvAnswers ==
    {<<>>, (a :> [avg |-> 3, n |-> 2]) @@ (b :> [avg |-> -2, n |-> 9]), c :> [avg |-> 30, n |-> 1]}

MCCriteria ==
    [minResolved |-> 1, minWinRate |-> 50, minPortfolio |-> 100, minRealized |-> 1,
     requireFresh |-> TRUE]
===============================================================================
