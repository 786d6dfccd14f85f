----------------------------- MODULE Leaderboard -----------------------------
(***************************************************************************)
(* The refresh of the leaderboard service (services/leaderboard, packages  *)
(* syncer and store): the pipeline that rates the wallets of the public    *)
(* leaderboard and replaces the watchset.                                  *)
(*                                                                         *)
(*   candidate pool -> crawl each wallet, Concurrency at a time, and upsert*)
(*   its stats -> shrink, store each score -> fetch the closing-line values*)
(*   and store each -> Select -> Replace -> SetLastSync                    *)
(*                                                                         *)
(* Every fetch and every write may fail and the process may end anywhere.  *)
(* What is on disk is served meanwhile (GetWalletStats, GetWatchset): the  *)
(* strategy sizes its stakes from it and the watcher follows the table.    *)
(***************************************************************************)
EXTENDS Selection

CONSTANTS
    Boards,        \* raw pages the leaderboard API may answer, by window
    Histories,     \* activities the data API may answer, by wallet
    Portfolio,     \* portfolio values, by wallet
    ClvAnswers,    \* what pricewatch may know: functions from some wallets
    Concurrency,
    MaxRefreshes,  \* refreshes in a behaviour
    MaxFaults      \* failures in a behaviour

ASSUME LeaderboardAssumption ==
    /\ Concurrency \in Nat \ {0} /\ MaxRefreshes \in Nat /\ MaxFaults \in Nat
    /\ \A w \in candidateWindows : \A page \in Boards[w] : page \in Seq(ToSet(page))
    /\ \A w \in Wallets : \A history \in Histories[w] :
         /\ history \in Seq(ToSet(history))
         /\ \A i \in DOMAIN history : {history[i].usdc, history[i].size, history[i].at} \subseteq Int
    /\ \A known \in ClvAnswers : \A w \in DOMAIN known :
         known[w].avg \in Int /\ known[w].n \in Nat

VARIABLES
    phase,     \* stage of refresh
    pool,      \* candidates still to crawl, in the order of the pool
    aborted,   \* the errgroup has an error
    stats,     \* statsByWallet
    left,      \* wallets the current stage has still to write
    rows,      \* table wallet_stats, a function from the wallets it has
    table,     \* table watchset
    lastSync, refresh,  \* the refresh last completed, and the current one
    faults,
    outcome    \* history: what came of the crawl of each candidate

memory == <<phase, pool, aborted, stats, left>>
boardVars == <<memory, rows, table, lastSync, refresh, faults, outcome>>

BoardTypeOK ==
    /\ phase \in {"idle", "crawl", "score", "clv", "select", "sync"}
    /\ {c.wallet : c \in ToSet(pool)} \cup DOMAIN stats \subseteq Wallets
    /\ left \subseteq DOMAIN stats
    /\ DOMAIN stats \subseteq DOMAIN rows
    /\ table \subseteq DOMAIN rows
    /\ lastSync \in 0 .. refresh /\ refresh \in 0 .. MaxRefreshes
    /\ faults \in 0 .. MaxFaults
    /\ DOMAIN outcome \subseteq Wallets
    /\ Range(outcome) \subseteq {"pending", "rated", "unvalued", "failed"}

BoardInit ==
    /\ phase = "idle" /\ pool = <<>> /\ aborted = FALSE /\ stats = <<>> /\ left = {}
    /\ rows = <<>> /\ table = {} /\ lastSync = 0 /\ refresh = 0
    /\ faults = 0 /\ outcome = <<>>

Fault == faults < MaxFaults /\ faults' = faults + 1

(* refresh returns.                                                        *)
Return ==
    /\ phase' = "idle" /\ pool' = <<>> /\ aborted' = FALSE /\ stats' = <<>> /\ left' = {}
    /\ outcome' = <<>>

-----------------------------------------------------------------------------
Pages == [w \in candidateWindows |-> {FetchEntries(p) : p \in Boards[w]} \cup {<<>>}]

Answers ==
    {answers \in [DOMAIN Pages -> UNION {Pages[w] : w \in DOMAIN Pages}] :
        \A w \in DOMAIN Pages : answers[w] \in Pages[w]}

(* The pools that can come of them.  Without any window there is none, and *)
(* the refresh ends.                                                       *)
Pools == {candidatePool(answers) : answers \in Answers}

StartRefresh ==
    /\ phase = "idle" /\ refresh < MaxRefreshes
    /\ refresh' = refresh + 1
    /\ pool' \in Pools
    /\ phase' = IF pool' = <<>> THEN "idle" ELSE "crawl"
    /\ outcome' = [w \in {c.wallet : c \in ToSet(pool')} |-> "pending"]
    /\ UNCHANGED <<aborted, stats, left, rows, table, lastSync, faults>>

(* The crawls under way, by their place in the pool: once the group has an *)
(* error no other starts.                                                  *)
Running == 1 .. Min({Len(pool), Concurrency})

Rated(history) ==
    LET s == Compute(Activity(history)) IN
    [resolved |-> s.resolved, winRate |-> s.winRate, pnl |-> s.pnl, roi |-> s.roi,
     traded |-> s.traded, fresh |-> Fresh(s.returns), portfolio |-> 0, profit30 |-> 0]

Ratings == [w \in Wallets |-> {Rated(history) : history \in Histories[w]}]

With(f, w, x) == [v \in DOMAIN f \cup {w} |-> IF v = w THEN x ELSE f[v]]

(* Mutant of UpsertStats: the whole row is replaced.                       *)
UpsertStatsWhole(w, r) ==
    rows' = With(rows, w, [rating |-> r, computed |-> refresh, skill |-> 0,
                           avgCLV |-> 0, clvN |-> 0])

(* Score and closing-line value are left as they were, 0 in a new row.     *)
UpsertStats(w, r) ==
    rows' = With(rows, w,
                 IF w \in DOMAIN rows
                 THEN [rows[w] EXCEPT !.rating = r, !.computed = refresh]
                 ELSE [rating |-> r, computed |-> refresh, skill |-> 0, avgCLV |-> 0, clvN |-> 0])

(* The wallet cannot be crawled: it is left out of this refresh.           *)
CrawlFails(i) ==
    /\ phase = "crawl" /\ i \in Running
    /\ IF aborted THEN UNCHANGED faults ELSE Fault
    /\ pool' = RemoveAt(pool, i)
    /\ outcome' = With(outcome, pool[i].wallet, "failed")
    /\ UNCHANGED <<phase, aborted, stats, left, rows, table, lastSync, refresh>>

(* The stats are stored; when the portfolio value cannot be fetched they   *)
(* count with 0.                                                           *)
Crawl(i) ==
    /\ phase = "crawl" /\ i \in Running
    /\ LET w == pool[i].wallet IN
       \E rating \in Ratings[w], valued \in BOOLEAN :
         LET r == [rating EXCEPT !.portfolio = IF valued THEN Portfolio[w] ELSE 0,
                                 !.profit30 = pool[i].profit30] IN
         /\ IF valued THEN UNCHANGED faults ELSE Fault
         /\ outcome' = With(outcome, w, IF valued THEN "rated" ELSE "unvalued")
         /\ UpsertStats(w, r)
         /\ stats' = With(stats, w, [rating |-> r, shrunk |-> 0, score |-> 0,
                                     avgCLV |-> 0, clvN |-> 0])
    /\ pool' = RemoveAt(pool, i)
    /\ UNCHANGED <<phase, aborted, left, table, lastSync, refresh>>

(* Mutant of UpsertFails: it is skipped like a crawl that fails.           *)
UpsertFailsAlone(i) ==
    /\ phase = "crawl" /\ i \in Running
    /\ Fault
    /\ pool' = RemoveAt(pool, i)
    /\ UNCHANGED <<phase, aborted, stats, left, rows, table, lastSync, refresh, outcome>>

(* The store refuses: the refresh is aborted when those under way end.     *)
UpsertFails(i) ==
    /\ phase = "crawl" /\ i \in Running
    /\ Fault
    /\ aborted' = TRUE
    /\ pool' = RemoveAt(Upto(pool, Concurrency), i)
    /\ UNCHANGED <<phase, stats, left, rows, table, lastSync, refresh, outcome>>

(* All crawls are done; the population is known.                           *)
ShrinkAll ==
    /\ phase = "crawl" /\ pool = <<>>
    /\ IF aborted
       THEN Return
       ELSE /\ phase' = "score"
            /\ stats' = [w \in DOMAIN stats |->
                           [stats[w] EXCEPT !.shrunk = Shrunk(stats, w), !.score = Score(stats, w)]]
            /\ left' = DOMAIN stats
            /\ UNCHANGED <<pool, aborted, outcome>>
    /\ UNCHANGED <<rows, table, lastSync, refresh, faults>>

SetSkillScore(w) ==
    /\ phase = "score" /\ w \in left
    /\ \/ /\ UNCHANGED faults
          /\ rows' = [rows EXCEPT ![w].skill = stats[w].score]
          /\ left' = left \ {w}
          /\ UNCHANGED <<phase, pool, aborted, stats, outcome>>
       \/ /\ Fault /\ Return
          /\ UNCHANGED rows
    /\ UNCHANGED <<table, lastSync, refresh>>

(* What pricewatch knows of the rated wallets counts for the rank.  When it*)
(* cannot be asked, the rank does without and the rows keep what they had. *)
FetchCLV ==
    /\ phase = "score" /\ left = {}
    /\ \/ /\ Fault
          /\ phase' = "select"
          /\ UNCHANGED <<stats, left>>
       \/ /\ UNCHANGED faults
          /\ phase' = "clv"
          /\ left' = DOMAIN stats
          /\ \E known \in ClvAnswers :
               stats' = [w \in DOMAIN stats |->
                           IF w \in DOMAIN known
                           THEN [stats[w] EXCEPT !.avgCLV = known[w].avg, !.clvN = known[w].n]
                           ELSE stats[w]]
    /\ UNCHANGED <<pool, aborted, rows, table, lastSync, refresh, outcome>>

(* Mutant of SetWalletCLV: a wallet pricewatch dropped keeps its value.    *)
SetWalletCLVKnown(w) ==
    /\ phase = "clv" /\ w \in left
    /\ rows' = IF stats[w].clvN > 0
               THEN [rows EXCEPT ![w].avgCLV = stats[w].avgCLV, ![w].clvN = stats[w].clvN]
               ELSE rows
    /\ left' = left \ {w}
    /\ UNCHANGED <<phase, pool, aborted, stats, table, lastSync, refresh, faults, outcome>>

(* First what pricewatch returned is stored, then the others are cleared;  *)
(* a write that fails is skipped.                                          *)
SetWalletCLV(w) ==
    /\ phase = "clv" /\ w \in left
    /\ stats[w].clvN = 0 => \A v \in left : stats[v].clvN = 0
    /\ left' = left \ {w}
    /\ \/ /\ UNCHANGED faults
          /\ rows' = [rows EXCEPT ![w].avgCLV = stats[w].avgCLV, ![w].clvN = stats[w].clvN]
       \/ Fault /\ UNCHANGED rows
    /\ UNCHANGED <<phase, pool, aborted, stats, table, lastSync, refresh, outcome>>

(* The selection becomes the watchset in one transaction; an empty one     *)
(* never does (syncer/stats.go:292-299, store.go:127-133).                 *)
Replace ==
    /\ phase \in {"clv", "select"} /\ left = {}
    /\ \/ /\ Select(stats) = {}
          /\ Return
          /\ UNCHANGED <<table, faults>>
       \/ /\ Select(stats) # {}
          /\ Fault /\ Return
          /\ UNCHANGED table
       \/ /\ Select(stats) # {}
          /\ table' = Select(stats) /\ phase' = "sync"
          /\ UNCHANGED <<pool, aborted, stats, left, faults, outcome>>
    /\ UNCHANGED <<rows, lastSync, refresh>>

SetLastSync ==
    /\ phase = "sync"
    /\ \/ UNCHANGED faults /\ lastSync' = refresh
       \/ Fault /\ UNCHANGED lastSync
    /\ Return
    /\ UNCHANGED <<rows, table, refresh>>

(* The process ends between two steps of a refresh.                        *)
LeaderboardRestarts ==
    /\ phase # "idle"
    /\ Fault
    /\ Return
    /\ UNCHANGED <<rows, table, lastSync, refresh>>

-----------------------------------------------------------------------------
CrawlStep == \E i \in Running : Crawl(i) \/ CrawlFails(i) \/ UpsertFails(i)

BoardNext ==
    \/ StartRefresh \/ CrawlStep \/ ShrinkAll
    \/ \E w \in left : SetSkillScore(w) \/ SetWalletCLV(w)
    \/ FetchCLV \/ Replace \/ SetLastSync
    \/ LeaderboardRestarts

BoardSpec == BoardInit /\ [][BoardNext]_boardVars

-----------------------------------------------------------------------------
(* What is served of a wallet when it is put into the watchset is what it  *)
(* was chosen for: stats of this refresh that clear every gate, its score  *)
(* and, if nothing failed, the closing-line value it was ranked by.  The   *)
(* table and the rows are written in a dozen separate steps.               *)
SelectionIsEarned ==
    phase = "sync" =>
        \A w \in table :
            /\ w \in DOMAIN stats /\ rows[w].computed = refresh
            /\ meets(rows[w].rating)
            /\ rows[w].skill = stats[w].score
            /\ faults = 0 => /\ rows[w].avgCLV = stats[w].avgCLV
                             /\ rows[w].clvN = stats[w].clvN

BoardIsSound == BoardTypeOK /\ SelectionIsEarned

(* A rating can be relied on: the return on the capital lies between the   *)
(* best and the worst market, so that no profit lacks its cost (stats.go:  *)
(* 132-136); a market that was sold out at a loss counts, and one of which *)
(* more than dust is left does not; a single bad market does not cool a    *)
(* wallet off (freshness.go:13-20).                                        *)
RatingIsSound(history) ==
    LET acts == Activity(history)
        s == Compute(acts)
        returns == ToSet(s.returns)
        seen == {acts[i].market : i \in DOMAIN acts}
        redeemed == {acts[i].market : i \in {j \in DOMAIN acts : acts[j].kind = "redeem"}}
        bought(c) == Shares(acts, c, "buy")
        sold(c) == Shares(acts, c, "sell")
        ended == redeemed \cup {c \in seen : bought(c) = sold(c) /\ bought(c) > 0}
        open == {c \in seen \ redeemed : 1000 * (bought(c) - sold(c)) > bought(c)}
        bad == {i \in DOMAIN s.returns : Len(s.returns) * s.returns[i] < SumOf(s.returns)}
    IN /\ returns # {} => Min(returns) <= s.roi /\ s.roi <= Max(returns)
       /\ returns = {} => s.roi = 0 /\ s.pnl = 0
       /\ Cardinality(ended) <= s.resolved
       /\ s.resolved + Cardinality(open) <= s.traded
       /\ ~Fresh(s.returns) => Cardinality(bad) > 1

SoundHistories == [w \in Wallets |-> {history \in Histories[w] : RatingIsSound(history)}]

(* Whatever the data API answers of a candidate, its rating is.            *)
RatingsAreSound ==
    \A candidate \in ToSet(pool) :
        Histories[candidate.wallet] \subseteq SoundHistories[candidate.wallet]

(* Skill orders by evidence (skill.go:21-36, 65-71), until the watchset is *)
(* chosen by it: every estimate lies between the wallet's own return and   *)
(* the mean of the population, equal estimates have equal scores, and a    *)
(* better one never has a lower score.                                     *)
SkillIsSound ==
    phase \in {"score", "clv", "select", "sync"} =>
        LET mean == PopulationMean(stats)
            own(w) == 100 * stats[w].rating.roi
        IN \A v, w \in DOMAIN stats :
             /\ \/ own(v) <= stats[v].shrunk /\ stats[v].shrunk <= mean
                \/ mean <= stats[v].shrunk /\ stats[v].shrunk <= own(v)
             /\ stats[v].shrunk >= stats[w].shrunk => stats[v].score >= stats[w].score
             /\ stats[v].score \in 0 .. 100

(* What a wallet is judged by when every answer about it arrives.          *)
OwnFigures(w) == [stats[w].rating EXCEPT !.portfolio = Portfolio[w]]

(* TopN others of the new watchset rank at least as high.                  *)
Outranked(w) == Cardinality({v \in table' : ~Above(stats[w], stats[v])}) = TopN

(* A wallet leaves the watchset because it is no candidate any more, fails *)
(* a gate on its own figures, or is outranked; or because one of the two   *)
(* fetches about itself failed.  No write that fails, no other wallet's    *)
(* failure and no restart removes anyone, and never do all leave.          *)
LeavesForAReason ==
    [][/\ table # {} => table' # {}
       /\ \A w \in table \ table' :
            \/ w \notin DOMAIN outcome
            \/ outcome[w] = "failed"
            \/ outcome[w] = "unvalued" /\ Criteria.minPortfolio > 0
            \/ w \in DOMAIN stats /\ (~meets(OwnFigures(w)) \/ Outranked(w))]_boardVars

(* "Portfolio value is best-effort: a failure here must not drop the       *)
(* candidate" (syncer/stats.go:223-224): who leaves although its value     *)
(* could not be fetched fails a gate on its own figures, or is outranked.  *)
(* Not so: the value counts as 0, which is below the minimum.              *)
ValueFailureDropsNobody ==
    [][\A w \in table \ table' :
         w \in DOMAIN outcome /\ outcome[w] = "unvalued"
           => ~meets(OwnFigures(w)) \/ Outranked(w)]_boardVars

(* "in-pool wallets never flash avg_clv=0 mid-refresh" (syncer/stats.go:   *)
(* 350): the value served is cleared only after pricewatch answered        *)
(* without it.                                                             *)
CLVNeverFlashes ==
    [][\A w \in DOMAIN rows :
        rows[w].clvN > 0 /\ rows'[w].clvN = 0 => phase = "clv" /\ stats[w].clvN = 0]_boardVars
===============================================================================
