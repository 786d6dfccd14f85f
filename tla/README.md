# LobsterRoll in TLA+

LobsterRoll copies the trades of selected Polymarket wallets. Eight Go services
talk over NATS and gRPC: one finds wallets worth following, one watches the
chain for their fills, several decide what to do about a fill, a human approves
it in Telegram, and one signs and places the order. This directory holds TLA+
models of the parts that run concurrently or survive failures and of the
computations they rest on, TLC runs over small instances of them, and TLAPS
proofs, for every instance, about trading, approval, the watcher and its feed,
alerts, consensus, strategy, the leaderboard and pricewatch.

Paths below are relative to `src/services/` unless they start with `src/`.

## 1. The system

```
 leaderboard  -- watchset (gRPC) ------> watcher
 watcher      -- trades.detected ------> strategy, consensus, notifier
 consensus    -- consensus.signal -----> notifier
 strategy     -- orders.proposed ------> notifier, and trader in the auto modes
 notifier     -- orders.approved ------> trader
 notifier     -- control.halt ---------> trader
 trader       -- orders ---------------> Polymarket CLOB
 trader       -- orders.filled/failed -> whoever listens
 watcher      -- trades.detected ------> pricewatch
 enrichment   -- markets, ends (gRPC) -> notifier, pricewatch
 pricewatch   -- closing-line value ---> leaderboard
 leaderboard  -- wallet stats (gRPC) --> strategy, notifier
```

| component | state it keeps | operations | hard behaviour | what makes it correct | model |
|---|---|---|---|---|---|
| **trader** placement (`trader/internal/handler`, `store`, `halt`, `clob`) | placements table (SQLite), halt flag (memory) | `OnApproved`, `OnProposed`, `place`, `Claim`, `Unclaim`, `MarkResult`, `State.Set` | two subscriptions at once, redelivery, unanswered orders, crash between any two steps, kill switch during signing | at most one order per proposal; the table answers for every order; results are true; a halt stops what has not passed its re-check; a taken proposal is answered | `Trader`, `OncePlacement` |
| **trader** caps (`trader/internal/caps`) | ledger in memory and its row | `Reserve`, `Release`, `rollDay`, `persist`, load in `New` | midnight, a clock that steps back, a save or load that fails, two reservations at once | what is or may be at the exchange is reserved and within the caps; ledger = reservations | `CapsLedger` in `Trader` |
| **notifier** approval (`notifier/internal/approval`, update loop of `main.go`) | `pend`, `halted` (memory); the chat (Telegram) | `OnProposal`, `HandleCallback`, `HandleCommand` | a goroutine per tap and per command, calls between two locks, proposals that arrive again, failed sends and publications, restart | an arrival is decided at most once and stays decidable; the chat tells the truth; the last command stands | `Approval` |
| **notifier** alerts (`notifier/internal/handler`, `dispatch`, `src/pkg/dedup/ttlset.go`) | three TTL sets, bounded queue, snapshot of positions | `Submit`, `Drain`, `Handle`, `maybePositionAlert`, `pollPositions` | workers share keys, sends fail, replies get lost, queue is full | one alert per burst but not none; no fill twice; held markets alerted; drain returns | `Alerts` |
| **watcher** chain watcher (`watcher/internal/chainwatch`, `engine`, `dedup`, `store`) | cursor (SQLite), seen set, buffer of the pending block | `Run`, `cycle`, `backfill`, `runLive`, `processBatch` | overlap of replay, catch-up and stream, reorganisations, disconnect, failed publication, crash | cursor covers only published fills; no log twice, none missed; a transaction stays one trade | `Watcher` |
| **watchset feed** (`leaderboard/internal/server`, `store`; `watcher/internal/feeder`, `watchset`) | watchset table, subscribers with bounded channels, the watcher's set | `Replace`, `Broadcast`, `GetWatchset`, `StreamWatchset`, `Feeder.Run` | snapshot and stream are two calls, slow subscribers are evicted, both ends restart | a settled stream misses no wallet; additions and removals arrive in the end | `WatchsetFeed` |
| **consensus** (`consensus/internal/window`, `aggregator`) | tables `trade_events`, `fired` | `Record`, `Handle` | expiry and reaping against new trades, replayed trades, publication after commit | a signal names a real cohort, is not repeated, and is not held back while its cohort lasts; rows do not leak | `Consensus` |
| **strategy** (`strategy/internal/handler`, `decide`, `sizer`, `book`; `src/pkg/sizing`, `src/pkg/dedup/genset.go`) | two-generation seen set | `Handle`, `Decide`, `Size` | lookups and publication fail around the dedup; torn and repeated transactions; rounding | one decision per trade; what is published keeps to the policy | `Strategy`, `Pricing` |
| **decoding** (`watcher/internal/decode`, `engine`) | none | `Decode`, `FillFor`, `AggregateByTx` | two ABIs, two sides of one log | trades add up to what the logs moved | `Decode` |
| **leaderboard** refresh (`leaderboard/internal/syncer`, `store`) | tables of stats and of the watchset, last sync | `refresh` | windows, crawls and writes fail one by one; concurrent crawls; a restart half-way | nobody is watched who did not earn it, or leaves without a reason; served values never flash | `Leaderboard` |
| **leaderboard** statistics and selection (`client`, `dataapi`, `stats`, `skill`, `selection`) | none | `FetchEntries`, `Activity`, `Compute`, `Fresh`, `Shrink`, `Select` | bounded history, few samples, ties | profit has its cost; skill orders by evidence | `Selection` |
| **pricewatch** (`pricewatch/internal/capture`, `settle`, `store`, `enrich`, `clv`) | snapshots, recorded trades, tracker, end dates | `OnTradeDetected`, `Poll`, `Run` of the settler, `Prune` | three loops over one database, pruning against settlement, stale ends | a trade is settled once, in the end, with the quote nearest to the close of those there were when it was looked up | `Pricewatch` |
| **enrichment** (`enrichment/internal/server`, `cache`) | cache on disk with a TTL, negative cache in memory | `EnrichToken` | a market that is listed late, a cache that cannot be written | an unknown end is asked for again | in `Pricewatch` |
| bus, chain, config, metrics, HTTP, SQLite helpers (`src/pkg`), deployment, tools; `src/pkg/exit`, which no service calls | none of their own | | | | the environment of each model |

Interactions. Services share no memory. NATS core delivers each subscription's
messages one at a time to its callback, drops what nobody listens to, and may
hand over the same thing again when the publisher retries; `watcher` -> `strategy`
/ `notifier` / `consensus`, `strategy` -> `notifier` / `trader`, `notifier` ->
`trader` are such messages. The watchset travels over gRPC. Inside the notifier
and the watcher, goroutines share maps under mutexes that are released around
every network call: most of the hazards in `PROJECT.json` sit there.

## 2. Modules and how they correspond to the code

`CapsLedger` is the arithmetic of `caps.go` as operators on a ledger record
(`dayKey`, `daySpent`, `openExposure`): `rollDay`, `Allowed` (the three checks
of `Reserve`), `Committed`, `Released`. Money is whole units, days are numbers.

`Trader` has one stage per step of `handler.place`; `pc[s]`, `job[s]`,
`outcome[s]` are the program counter and locals of the callback of subscription
`s` ("approved" or "proposed"). `claims` is the placements table, `caps` the
ledger in memory and `saved` its row, `exchange` what the CLOB did with each
order, whether or not an answer came back. `posts`, `heldOn` and `results` are
history. `Reserve` and `ReleaseCaps` include the `persist` call they make,
which may fail. `Restart` may come between any two steps and loses what the
process loses. `Faults` names what may go wrong in a run: each of claim,
unclaim, mark, publish, save, load, sign and network fails at its own call;
refuse lets the exchange say no; crash and clock are restarts and a clock that
steps back over midnight.

`OncePlacement` is the abstract promise: a proposal goes free -> claimed ->
sent -> accepted or refused, back to free only from claimed. `Trader`
implements it under the mapping `Placement` (property `ImplementsOncePlacement`).

`Approval` splits `OnProposal`, `HandleCallback` and `HandleCommand` at every
lock, Telegram call and publication. A proposal may arrive several times
(`Arrivals`, `ProposalOf`): each arrival is registered and posted, as the code
does, under the one key of its proposal. `pend[p]` is the map of the Manager; its
`Entry` says which arrival was registered and which message belongs to it.
`NoteMessage` re-reads the entry and writes the zero value with the message back
when the key is gone, and `RestoreProposal` writes over whatever is there, as
the code does. A tap may come as soon as the message is in the chat. `chat`
survives the process. `crossed`, `closed`, `last` and `decisions` are history.
`Conditions` names the failures, and one habit of the operator: typing a command
before the last one was confirmed ("hasty").

`Watcher` follows `cycle`: `ReadHead`, `Backfill`, `Subscribe`, `NewHead`,
`Backfill` again (catch-up), then `Receive` and `Tick` of `runLive`.
`ProcessBatch` is publish, mark, advance in that order, with the outcomes that
a failed publication (some trades out, nothing marked) and a failed save leave.
A log is a model value with a transaction (`Tx`), an index in its block (`Index`)
and the fill it reports (`Fill`). What `dedup.Seen` tells logs apart by is `Key`,
transaction and index, as in the code. A transaction that a reorganisation
includes again may report its fills by other logs, at other indices
(`Inclusions`, of which `current` is the one in the chain). `mined` is the chain,
`wire` the subscription; what is on it, in the buffer, in memory and published
are occurrences of logs, with the block and the number of reorganisations they
were sent after, so that a log that is sent again is buffered and summed again.
`Reorg` replaces the last two blocks. `promised`, `torn` and `replaced` are
history: where the first run began, the transactions whose block a disconnect or
a shutdown cut, and those whose block was replaced.

`WatchsetFeed` has the server side (`table`, `ch`, `lost`) and the client side
(`feeder`, `watch`, `ready`) of one stream; `sent` is what gRPC has buffered.
Subscribers do not affect one another, so one is enough.

`Alerts` has a stage per step of `Handle` and `maybePositionAlert` for each
worker, the queue of the pool, and the TTL sets as expiry times. `alerts`,
`told`, `positions` and `steady` are history: what Telegram acknowledged, what
reached the user, and the markets held all along. A job is given up before a
cooldown passes, because its context has a deadline.

`Consensus` has `Record` as the one transaction it is (insert, prune, reap,
count, `decideFire`, write the high-water) and the publication as a step after
it that may be lost. The time of the inserted row is the clock of the process.
`latest`, `high`, `signalled`, `lost` are history, computed from the trades
alone and never from the tables: `high` follows the live cohort as time passes,
`signalled` and `lost` are reset, as the code resets its row, when a recorded
trade finds the cohort short of the threshold (`Seen`).

`Decode` turns raw logs into trades: the shape each ABI asks for, the view of
maker and taker (`FillFor`), and `AggregateByTx`. A log is a record, an amount
a whole number, a price a number of `1/Unit` USDC rounded as the code rounds.
`Pricing` extends it with what is done with a trade: `Accepts` is the chain of
filters of `Decide`, `Stake` the sizing formula over integers, with the zeros
that `sizer.Size` leaves in its inputs; `FromProposal` is the trader's order.

`Strategy` extends `Pricing` with the handler: `Vet` is fetch, dedup and
decision, `SizeStake` the engine, `Publish` the bus, each with its failure.
`Detect` publishes what `AggregateByTx` makes of a batch, and a batch may be a
part of a transaction, as `Watcher` shows it can. `cur` and `old` are the two
generations of `GenSet`. The configuration is a variable without steps, so that
one run covers several.

`Selection` is the leaderboard's mathematics as operators on integers: rates
are percents, quotients are rounded down, the CUSUM of `Fresh` counts tenths of
a deviation. Markets with the same last activity may come in any order, as
`sort.Slice` over the values of a map leaves them. `Leaderboard` is the refresh: `StartRefresh` reads the windows,
`Crawl`, `CrawlFails` and `UpsertFails` run for the first `Concurrency`
candidates at once, then `ShrinkAll`, `SetSkillScore`, `FetchCLV`,
`SetWalletCLV`, `Replace` and `SetLastSync`, each with its failure and
`LeaderboardRestarts` between any two. A crawl whose portfolio value cannot be
fetched goes on with 0. `rows` and `table` are on disk, `stats` in memory;
`outcome` is history: what came of each candidate's fetches.

`Pricewatch` has the callback, the poll loop (`StartPoll`, `Snapshot`, `Prune`)
and the settle loop over one database, and behind `EndDate` the enrichment
service with its own two caches. A settle pass lists the trades (`StartPass`)
and then, for each, looks up the end (`ReadEnd`, `LookupFails`), reads the nearest
snapshot (`ReadNearest`) and writes the value (`WriteCLV`); polls, pruning,
deliveries and restarts come between any two of these. `listing` says when the
market and its end become public. `taken` and `owed` are history: every snapshot
there ever was, and those the table had, or should have had, when the settler
read it. `MaxSpan` bounds how many ticks a poll or a pass lasts in a run.

The definitions whose comment begins "Mutant of" are variants of the definition
that follows them, each with a plausible mistake. No specification uses them:
`PROJECT.json` pairs each property with one, and TLC finds the property
violated when the variant takes the place of the original.

## 3. The runs

`tlc -workers 2 -config <run>.cfg <module>` in this directory. States are
distinct states.

| run | module | asks | states |
|---|---|---|---|
| `trader_once` | MCTrader | two proposals on both subscriptions, crashes and every fault of claim, network and bus: `AtMostOnce`, `SentIsClaimed`, `AtRiskIsReserved`, `ResultsAreTrue`, `HaltHoldsBack`, `LedgerIsExact`, and refinement of `OncePlacement` | 488 thousand |
| `trader_live` | MCTrader | two days, a clock that steps back, a ledger that is not saved: `ExposureCap`, the budget (`Inv`), and under fairness `ClaimIsAnswered`, `PostIsSettled` | 338 thousand |
| `trader_midnight` | MCTrader | **violation** of `DayCap` over midnight | |
| `approval_gate` | MCApproval | a proposal that arrives twice, two taps, two commands that cross or follow, everything fails, a restart: each arrival decided once and as tapped (`Inv`), `StaysDecidable`, `ShownVerdictIsTrue`, `LastCommandStands` | 3.0 million |
| `watcher_live` | MCWatcher | any two failures, one of them perhaps a reorganisation: the cursor covers what was published (`Inv`), `WholeTrades`, `EmittedOnce`, and under fairness `EveryTradePublished` | 642 thousand |
| `feed_live` | MCWatchsetFeed | evictions, broken streams, restarts: nothing missing (`FeedIsSound`), and under fairness `EventuallyWatched` | 22 thousand |
| `feed_forgotten` | MCWatchsetFeed | **violation** of `EventuallyForgotten` | |
| `alerts_burst` | MCAlerts | redelivered fills of one burst on two workers, lost replies, shutdown: `OneAlertPerBurst`, alerted once (`Inv`), `PositionIsAlerted`, `CooldownIsEarned` | 1.9 million |
| `consensus_window` | MCConsensus | replays, expiry, failed transactions, lost signals: `SignalIsReal`, `NeverRepeats`, `CohortIsSignalled`, rows are live (`Inv`) | 66 thousand |
| `strategy_once` | MCStrategy | whole, torn and repeated batches under three policies, failures and restarts: one decision per trade (`Inv`), `WithinPolicy`, `TradesAddUp` | 128 thousand |
| `leaderboard_refresh` | MCLeaderboard | two refreshes with two failures anywhere: `BoardIsSound` with `SelectionIsEarned`, `RatingsAreSound`, `SkillIsSound`, `LeavesForAReason`, `CLVNeverFlashes` | 520 thousand |
| `pricewatch_close` | MCPricewatch | a trade delivered twice, a market listed late, polls, pruning, expiring caches, a failure: `SettledIsFinal`, `ClosesOnNearest`, and under fairness `EventuallySettled` | 584 thousand |

`Inv` of a module is its `TypeOK` with the invariants named beside it;
pricewatch's `TypeOK` is checked in `SettledIsFinal`.

### What the violations show

* **Midnight.** `Release` (`trader/internal/caps/caps.go:103`) takes the amount
  off the current day's ledger although it was put on yesterday's. An order
  reserved before midnight and released after it (refused, or stopped by the
  kill switch) makes room for more than `MaxPerDay` on the new day. The
  comment over it calls the roll-back exact.
* **Forgotten removal.** `Snapshot` (`watcher/internal/feeder/feeder.go:34`)
  and the first update of a stream only add. A wallet that leaves the table
  between two streams, or between the snapshot and the subscription, stays
  watched until the process ends.
### Sentences of the code that it does not keep

Four more sentences are false of the models, as they are of the code. Each is
stated as a property beside the others of its module, and no run checks it: TLC
refutes it within seconds where it takes the place of the last INVARIANT or
PROPERTY of the configuration named here.

* **A repeat is decided again** (`ProposalDecidedOnce`, `approval_gate.cfg`).
  `OnProposal`
  (`notifier/internal/approval/approval.go:82`) registers whatever arrives. The
  strategy publishes a proposal again when it has forgotten its trade, after a
  restart or a rotation of its seen set, and the second message takes a second
  tap, although lines 4-5 say "a proposal can be decided at most once". What is
  decided once is an arrival (`DecidedOnce`). Two approvals make one order, since
  the trader claims by the id of the proposal (`Claim` in `Trader`); a rejection
  and then an approval make one too.
* **A fill is published twice** (`FillEmittedOnce`, `watcher_live.cfg`).
  `watcher/internal/dedup/dedup.go:13` tells a log
  by its transaction and `types.Log.Index`, its place in the block, which another
  block may change; so a fill of a transaction that a reorganisation includes
  elsewhere is published again. A log that is sent again while its block is
  pending is appended to the buffer (`chainwatch/chainwatch.go:256`) and counted
  twice in one trade, since `engine/engine.go:61` only knows what was published.
  And where a shifted index meets one that was seen, a fill is taken for a
  repeat. "dedup makes the overlap safe" (`chainwatch.go:100`) holds of logs by
  transaction and index (`EmittedOnce`), in blocks that stay.
* **A cohort that forms again** (`ReformedIsSignalled`, `consensus_window.cfg`).
  The high-water is reset when a recorded trade finds the cohort below the
  threshold (`consensus/internal/window/window.go:179`), not "when the live cohort falls BELOW minWallets" (line 83). Of two wallets
  that were signalled one expires; the trade of a third makes two again, no trade
  having been recorded in between, and nothing is signalled.
* **A failed fetch of a value drops its wallet** (`ValueFailureDropsNobody`,
  `leaderboard_refresh.cfg`).
  `leaderboard/internal/syncer/stats.go:228` goes on with 0 and the gate
  `STATS_MIN_PORTFOLIO_USD` (100000 unless set) rejects it, where the comment at
  223 says that a failure "must not drop the candidate".

### Bounds, and why they are enough

* Trader: two proposals (one of size 2 in `trader_once`, so that caps and the
  ceiling of `auto_below` distinguish them), two subscriptions as in the code,
  two days, so that midnight falls between any two steps. The proofs of section
  5 remove the bounds for everything but liveness. `LedgerIsExact` speaks of the
  exposure, which goes over midnight, and not of the day's total, which
  `Release` gets wrong there; `ExposureCap` is asked of buys only, since a
  reserved sell is no exposure.
* Approval: one proposal that arrives twice, since two proposals share nothing
  but the poster, and two arrivals of one share the key too; two taps, which race
  for an entry or of which one follows the failed publication of the other; two
  commands, which cross or follow one another; one restart. Taps, arrivals and
  commands are symmetric.
* Watcher: two logs of one transaction, one of another and one that is not
  watched; when its block is replaced the first transaction may have its fills
  one index further, so that one key is new and the other is that of a different
  fill; 3 blocks, chunks of 2, so that a backfill has several chunks and a
  cursor inside them; `ReorgDepth` 2; 2 failures, so that a retry can fail too.
  `StreamLag` says that the subscription is at most one block behind, the
  code's own assumption when it takes a quiet tick for a complete block.
* Feed: two wallets, one added while the other is removed; a channel of one,
  so that the second update evicts; four changes; two failures.
* Alerts: two fills of one group, each delivered twice, two workers (the pool
  has four, but a third one finds the keys as the second does), a queue of one,
  `Cooldown` 2 and `DedupTTL` 4 with a clock to 5: both expire within a behaviour.
* Consensus: two keys, three wallets against `MinWallets` 2, so that a cohort
  can reach and outgrow the threshold; `Window` 1 with a clock to 3, so that a
  cohort forms, dies out and forms again.
* Strategy: a transaction of two fills in which both sides are watched, its
  second half alone, and a batch in the legacy ABI with a log that is none;
  three of them in any order; `Capacity` 2, so that a generation is full after
  two trades; three policies, of which one runs the engine; markets, rows and
  books on either side of each gate.
* Leaderboard: three wallets, of which one's history fades, one's is cut by
  `MaxActivity` and one's is empty or a market sold but for a thousandth; two
  places in the watchset; two refreshes, so that the second meets the rows and the table of the first.
* Pricewatch: one trade of one token delivered twice; the market ends at 2 and
  time runs to 4, with `Retention` 2 and a TTL of 1 everywhere, so that every
  cache expires, and every snapshot before the end may be pruned, within a
  behaviour; a price that differs at each time, so that the wrong snapshot
  gives a wrong value.

`SYMMETRY` is used only in runs without liveness.

### Deadlock

Trader runs check for it: a message or a command is always possible. The
others set `CHECK_DEADLOCK FALSE`, because their inputs are bounded (taps,
blocks, changes, deliveries, batches, refreshes, ticks) and a behaviour that has used them up
stops rightly.

### Fairness

Weak fairness is assumed only of goroutines that the code keeps running, never
of the outside world, and with it that the calls they make return: `Step(s)` of
each trader callback (SQLite has a busy timeout, the HTTP client and the context
have theirs); `Step` of the watcher (its retry loop never ends and its ticker ticks);
`Broadcast`, `Server` and `Feeder` of the feed (the feeder reconnects for
ever); `Settle` of pricewatch (its ticker ticks). Some of these calls have no
deadline of their own: those of the watcher to its node, and the gRPC call at
`pricewatch/internal/enrich/enrich.go:59`, behind which only the enrichment
server's fetch is bounded (20 s). That they return is an assumption. Nothing
makes the operator tap, the chain mine, NATS deliver, the exchange answer or a failure
happen. `trader_live` has no crash: after one the claim stays and nobody
answers for it, which the code accepts (`SentIsClaimed` says what is kept).

`EventuallySettled` is run with `CacheTTL` 1. With 0, which
`enrichment/internal/config/config.go:17` documents as "never", `EnrichToken`
keeps an end that was unknown when it was cached for ever, a later one is never
asked for, and the property fails; the default is 24 hours.

## 4. Where the models stop the code short

Disagreements that a property excludes in its statement or a run by its
constants. They are real.

* A proposal that arrives again can be decided again (section 3). Its
  entry takes the place of the older one, and each of the messages decides what
  is there. When the repeat cannot be posted, the entry goes and the buttons of
  the older message are dead (`approval.go:93`); and a tap of the older entry whose
  publication fails is restored over the newer one (`approval.go:143`), so that
  the newer message keeps buttons that decide the older arrival.
  `StaysDecidable` says that some arrival
  stays to be decided, and excepts messages forgotten in the first way (`closed`).
* A tap that overtakes the write of the message id
  (`notifier/internal/approval/approval.go:98`) lets the zero proposal be
  decided by the next tap. `DecisionsAreWhole` and `StaysDecidable` except the
  proposals of which a tap was taken while one of their messages was posted
  (`crossed`). `DecidedOnce` and `ShownVerdictIsTrue` do not.
* Two commands typed before the first is confirmed may take effect in either
  order (`notifier/main.go:210`), so that a trader may run on after /resume,
  /halt: `LastCommandStands` speaks of a command given after the others were
  confirmed, and published. A halt that NATS refuses is confirmed all the same
  (`approval.go:173`).
* While one worker's send is under way, the other fills of the burst are
  suppressed by its cooldown key (`notifier/internal/handler/handler.go:101`)
  but keep their own; when the send then fails nothing is left to alert, and a
  redelivery that comes between the two removals is suppressed too. The comment
  at 125 says "never zero because of a transient failure"; `CooldownIsEarned`
  says what does hold: the key is gone, so that a new fill alerts.
* A position alert whose send fails is not retried (`handler.go:171`):
  `PositionIsAlerted` is asked where no send failed.
* A block whose logs arrive more than a tick apart, a retry before there is a
  cursor and a reorganisation that moves a fill below the pending block break
  `CursorCovers` or `EveryTradePublished`, which speak of transactions whose block
  was not replaced and of runs without "slow"; a failed publication, a shutdown or
  a crash makes the process publish again, which `EmittedOnce` excepts; it speaks
  of transactions and indices, and section 3 says what that leaves open.
  `WholeTrades` excepts what a disconnect tore and what was replaced. Strategy takes the two parts of
  a torn transaction for two trades; one log whose maker is its taker counts twice.
* A signal that NATS refuses is lost for good (`consensus/internal/aggregator/aggregator.go:82`):
  `CohortIsSignalled` excepts those keys. It also counts a signal of an earlier
  cohort until a recorded trade saw the live one short of the threshold, or it
  was more than one wallet short: {a, b}, then {b}, then {b, c} is no signal
  (section 3). A proposal that NATS refuses is lost
  too (`strategy/internal/handler/handler.go:105`), since its trade was seen.
* A ledger that cannot be read at start counts as empty (`caps.go:55`), and a
  sell that made room for a buy and is then refused leaves the exposure above
  its cap (`caps.go:107`).
* The stake of the engine is not clamped by `MaxSizeUSD`, whatever
  `strategy/internal/decide/decide.go:28` says of sizes, and sells are sized
  like buys (`sizer/sizer.go:47`): `SizedWithin` asks of the engine its own
  caps. The sizer passes no exposure, drawdown, fee or slippage, so those parts
  of `src/pkg/sizing` never act. A depth of zero is no cap either
  (`src/pkg/sizing/sizing.go:94`), as when the best ask has no size.
* A wallet whose crawl fails once, or whose portfolio value cannot be fetched
  once where a minimum is set, leaves the watchset: `LeavesForAReason` names both
  among the reasons (for the second see section 3). When pricewatch cannot be asked, rows keep an old
  closing-line value, where `leaderboard/internal/syncer/stats.go:280` speaks of zero.
* A bound on the rows fetched may fall inside a market: the operators drop
  profit without any cost, but a market that lost a part of its purchases keeps
  too high a return.
* A snapshot that the poll loop stores between the settler's read
  (`pricewatch/internal/settle/settle.go:66`) and its write (:74) is not seen,
  however near to the close it is, and the value is final. `ClosesOnNearest`
  speaks of what there was when the settler read.
* Nothing bounds how far the nearest snapshot is from the close, and pruning
  does not ask whether a trade is settled: a trade whose snapshots are gone
  stays unsettled, which `EventuallySettled` excepts. A known end is kept for
  the life of the process (`pricewatch/internal/enrich/enrich.go:69`), although
  the cache behind it expires because ends move; here an end does not move.

## 5. What is proved

`tlapm <module>.tla` checks each proof module; a theorem speaks of all values of
the constants that satisfy the named assumption of its model (sizes, caps,
lifetimes and depths are positive, sets that are counted or summed are finite,
a "none" is not a member of the set it stands beside) and of all combinations
of faults, unless it names a hypothesis.

| module | theorem | states |
|---|---|---|
| `TraderProofs` | `TraderKeepsInv` | `[]Inv`: `BudgetKept` |
| | `PlacedAtMostOnce` | `[]AtMostOnce` |
| | `SentStaysClaimed` | `[]SentIsClaimed` |
| | `AtRiskStaysReserved` | `[]AtRiskIsReserved` |
| | `HaltIsRespected` | the action property `HaltHoldsBack` |
| | `Refinement` | `ImplementsOncePlacement` |
| | `ResultsTellTheTruth` | `[]ResultsAreTrue` |
| | `LedgerStaysExact` | `LedgerIsKept => []LedgerIsExact` |
| | `ExposureStaysCapped` | only buys and `MemoryIsKept => []ExposureCap` |
| | `DayStaysCapped` | one day and `MemoryIsKept => []DayCap` |
| `ApprovalProofs` | `ApprovalKeepsInv` | `[]Inv`: `DecidedOnce` by arrival, `DecisionsAreWhole` |
| | `ApprovalStaysDecidable` | `[]StaysDecidable` |
| | `ApprovalShowsTheVerdict` | `[]ShownVerdictIsTrue` |
| | `ApprovalObeysTheLastCommand` | `[]LastCommandStands` |
| `WatcherProofs` | `WatcherKeepsInv` | `"slow" \notin Conditions => []Inv`: `CursorCovers` |
| | `WatcherMakesWholeTrades` | `"slow" \notin Conditions => []WholeTrades` |
| | `WatcherEmitsOnce` | `MaxReorgs + StreamLag <= ReorgDepth => []EmittedOnce`, by transaction and index |
| | `FeedKeepsInv` | `[]FeedIsSound`: `NothingMissing` |
| `AlertsProofs` | `AlertsOncePerBurst` | `[]OneAlertPerBurst` |
| | `AlertsDropReemits` | `[]Inv`: `AlertedOnce` |
| | `AlertsEarnTheCooldown` | `[]CooldownIsEarned` |
| | `AlertsFollowUp` | `[]PositionIsAlerted` |
| `ConsensusProofs` | `ConsensusKeepsInv` | `[]Inv`: `RowsAreLive` |
| | `ConsensusSignalIsReal` | `[]SignalIsReal` |
| | `ConsensusNeverRepeats` | the action property `NeverRepeats` |
| | `ConsensusSignalsTheCohort` | `[]CohortIsSignalled` |
| `StrategyProofs` | `StrategyDecidesOnce` | `[]Inv`: `ProposedOnce`, `DuplicateOfVerdict` |
| | `StrategyKeepsPolicy` | `BooksHaveDepth => []WithinPolicy` |
| | `StrategyTradesAddUp` | `LogsAreSound =>` the action property `TradesAddUp` |
| `RatingProofs` | `PricewatchSettlesForGood` | the action property `SettledIsFinal` |
| | `PricewatchClosesOnNearest` | the action property `ClosesOnNearest` |
| | `LeaderboardSelectsSoundly` | `[]BoardIsSound`: `SelectionIsEarned` |
| | `LeaderboardRatesSoundly` | `[]RatingsAreSound` |
| | `LeaderboardSkillIsSound` | `[]SkillIsSound` |
| | `LeaderboardLeavesForAReason` | the action property `LeavesForAReason` |
| | `LeaderboardCLVNeverFlashes` | the action property `CLVNeverFlashes` |
| `SumTheorems` | `SumTakesAnyFirst`, `SumIsMonotone`, `SumIsLinear`, `SumOfLess`, `SumByParts` | sums over finite sets |
| | `HasLeast`, `HasGreatest` | the extremes of a finite set of integers |
| | `RanksAreCounted` | the places in a finite ordered set |

### The hypotheses

* `LedgerIsKept`: no `save` and no `load` fault. A ledger that is not saved or
  not read is not exact, as the code says itself when it logs the failure.
  `MemoryIsKept` is weaker: either that, or the process does not crash, since
  then the ledger in memory is never replaced.
* Only buys: a sell that makes room and is then refused breaks the cap
  (section 4). One day: midnight breaks it (section 3).
* `"slow" \notin Conditions`: the logs of a block arrive within a tick of one
  another, which is what `runLive` relies on when it flushes on a quiet tick
  (`watcher/internal/chainwatch/chainwatch.go:267`).
* `MaxReorgs + StreamLag <= ReorgDepth`: the seen set forgets what lies
  `reorgDepth` (128) below the block it processes. Each reorganisation of the
  model moves a transaction by at most one block, so that it is never more than
  `MaxReorgs` away from where it was published, and the subscription is at most
  `StreamLag` behind. The bound is over the whole behaviour and is needed: a
  transaction that each reorganisation takes along with the head is at last so
  far from its entry that the entry goes.
* `BooksHaveDepth`: the best ask of a book has a price and a size. A book whose
  best ask is empty may have a depth of zero, and the engine takes zero for "no
  cap" (section 4).
* `LogsAreSound`: in a batch of logs each has its own index in its transaction,
  two different wallets, and moves money for shares or neither, as the exchange
  emits them. A log whose maker is its taker counts twice (section 4), and one
  with money but no shares has no price.
* The clamp of the CUSUM, less its slack, does not exceed its threshold
  (`SelectionAssumption`): 4.0 - 0.5 against 5.0, and the reason that
  `leaderboard/internal/skill/freshness.go:13` gives for the clamp. With a
  larger clamp one bad market does cool a wallet off.
* Of what the leaderboard is told, only its form is assumed
  (`LeaderboardAssumption`): pages and histories are lists, amounts and
  closing-line values whole numbers, and two wallets have two addresses.

### The arguments

None of these invariants is inductive. Each module defines the one that is, as a
conjunction of named parts, shows that `Init` gives it and that every step keeps
it, one lemma or step per action, and derives the properties.

*Trader.* `AtMostOnce` does not stop two callbacks that are both about to post.
`PlacementInv` adds what the code relies on. A callback is a *holder* from the
insert of its claim to the record of the result; two holders never have one
proposal (`Exclusive`), a holder's proposal is claimed (`HolderIsClaimed`), one
that has not posted knows that nobody has (`HolderHasNotSent`), from signing to
the answer the reservation is held (`ReservedIsHeld`), and the exchange knows
exactly the orders posted (`PostedIsAtExchange`). The step that carries the
argument is the claim: the insert succeeds only where there is no row, and where
there is none nobody holds and nothing was posted, since what is posted stays
claimed. `BudgetKept` rests on `LedgerOperations` alone: an allowed reservation
stays within the day's cap and every other operation keeps it there, so no
failure of save or load matters. `Refinement` shows that every step is a step of
`OncePlacement` or leaves `Placement` unchanged. `LedgerIsExact` needs the same
holders: a release is made by the one holder whose reservation it is, so that
the set of reservations loses exactly that proposal; `LedgerSteps` reduces every
step to a reservation, a release, a reload or nothing, and `NetMoves` says what
each does to the sum.

*Approval.* `GateInv` follows two things through the entries of `pend`: what an
arrival registered, and the message that an entry knows. Each waits untouched
until its arrival is posted (`WaitingIsUntouched`), and is then under the key, or
in one tap's hand, or decided once, or gone, never two of these (`OnePlace` for
the arrival, `OneKnows` for the message); an entry written over another one only
loses what it held. What a tap edits into a message was decided by it
(`EditIsOfDecision`, `VerdictIsDecided`), and a message is known to one decision,
hence the verdict it shows. `PostingIsSound` says what the poster may rely on
between its two locks, and `Whole` that without a tap that crossed it the zero
proposal never takes the place of a real one; while nobody restarts something
stays under the key (`NotForgotten`). `SwitchInv` says that the last command is
the only one that may still be under way, and that what it has done so far stands.

*Watcher.* `BaseInv` types the chain, the failures, what is in flight, what is in
memory and the stage of the cycle, and says that of a transaction nobody replaced
every copy is as it is in the chain (`Steady`), and that memory holds only what
was published. `Calm` is why the cursor covers: above the cursor every such log is
still to be asked for, on the wire, in the buffer, or published (`NothingMissed`),
and the wire is in the order of the blocks (`Ordered`), so that a log of a later
block completes the pending one. `Together` says that the logs of a transaction
are together at each of those places. `DriftInv` bounds how far the places of one
transaction lie apart by the reorganisations so far. `OnceInv` is about keys: that
of a published log is still in memory, or its block will neither be received nor
fetched again (`Remembered`); whatever is in flight with the key of a published
log is known (`KnownIn`), so that each key is in one trade (`Single`).

*Feed.* The updates between the table and the watcher are, in the order they will
be applied, those on the wire, those in the channel and the one not yet
broadcast. `FeedInv` says that they leave each wallet of the table watched: the
last of them that names it adds it (`Brings`), or none removes it (`Keeps`) and it
is there already; unless the subscriber is lost.

*Alerts.* A key in a TTL set is the one its claimant set, and there is one
claimant (`ClaimIsKept`, `OneHold`); a job ends before the cooldown it claimed
(`JobsAreShort`). A free key therefore means that no alert is young and none is
on its way.

*Consensus.* The rows of the window are the latest trades of the live wallets
(`RowsMatchLatest`), so that a cohort counted from the tables is the one the
history sees; the high-water is at least the largest live cohort since it was
below the threshold (`HighIsLive`, `FiredCoversHigh`); and as long as the live
cohort is not more than one wallet short of the threshold it was published since
the last reset, is about to be, or its signal was lost (`HeardOrPending`). One
wallet short, since the next trade may bring it back before `Record` sees it.

*Strategy.* `ProposedOnce` looks back over verdicts that the generations have
long forgotten. `Remembers` relates the two: a decided id that left the young
generation has all of that generation decided after it, and one that left both
has all of the old one, which is full; an id under way was free when it was
added, so that Capacity others lie between it and its last decision. `OfferInv`
and `SizedInv` carry the limit, the stake and the book of the proposal from
`Vet` to `Publish`; the bounds are arithmetic on `limitPrice`, `FromProposal`,
`Stake` and `BuyDepthUSD`, in lemmas of their own (`LimitIsNear`,
`OrderAtLimit`, `DepthOfBook`, `StakeIsBacked`). That a batch of logs yields
finitely many trades with natural prices and sizes, and that they can be put in
a sequence, is proved too (`TradesOfBatch`, `ListExists`). `TradesAddUp` is a
matter of sums: the fills of a batch are grouped by event on one side and by
trade on the other, and both groupings add up to the same whole (`SumByParts`);
the price of a trade is an average, which lies between the prices of its parts
because the sum is linear (`PriceIsBetween`); and trades have different ids
because the lowest index of each is that of one of its fills
(`TradesAreDistinct`).

*Pricewatch.* An end that is known anywhere, in either cache, was public before
(`Public`), so that no chain of caches and restarts makes a market end early; the
prices stored that are gone are older than Retention (`PricesInv`); what a
pass has before it is not settled (`TradesInv`); and the market of the trade in
hand has ended, and the snapshot found for it is the nearest of those owed when
it was read, whatever was stored or pruned since (`SettlerInv`). Then a step records a row that
counts for nobody, settles one row, or leaves the table alone (`RowSteps`).

*Leaderboard.* The watchset, the rows and the stats in memory are written in a
dozen steps, any of which may fail. `BoardInv` says what is equal to what at each
stage: a row of a rated wallet has the rating of this refresh (`RowsInv`), the
scores differ only where the stage has `left` to write, and so do the closing-line
values unless something failed; whoever is selected clears every gate.
`OutcomeInv` says that no candidate waits but in the pool, unless the refresh is
aborted, and that a rating whose fetches succeeded is the wallet's own. That a
wallet leaves only when TopN others rank no lower is a fact about `Select`
(`SelectTakesTheBest`): `Before` orders the wallets that clear the gates, since no
two have one address, and in an ordered set the elements with less than TopN
before them are TopN or all of it (`RanksAreCounted`). It needs the rank keys to be
integers, hence the lemmas that type `Compute`, `Shrunk` and `candidatePool` for
any history and page. `SkillIsSound` is arithmetic: the estimate is an average of
the wallet's own return and the mean (`AverageBetween`), and rounding down leaves
it between them (`QuotientBetween`); the score counts the strictly smaller, of
which a better wallet has more (`ScoreGrows`).

`RatingsAreSound` does not depend on the state: `EveryRatingIsSound` shows it of
any history. The markets that count can be listed by their last activity, ties
included (`CanBeListed`), so the returns of a rating are exactly theirs
(`RatingConsistsOf`). Each return, rounded down, bounds the profit of its market
in terms of its cost, and these bounds add up (`ReturnLiesBetween`). What ended
is a part of what is resolved, and what is held is outside of it
(`EndedAreResolved`). The CUSUM is a fold, that is, a function on the sets of
returns; one for the first k is made from one for the first k - 1
(`CusumsExist`). Only a return below the mean takes it up (`CusumStepIs`), from
zero by at most the clamp less the slack, so that one such return in the whole
series leaves it within the threshold (`CusumStaysLow`).

*Sums and orders.* Induction over data is beyond the provers, but a finite set of
counterexamples has one that is minimal under strict inclusion
(`SmallestSubset`), and a finite set of numbers has a least (`HasLeast`);
first-order reasoning from either gives a contradiction.
`SumTheorems` uses it for `SumFunctionOnSet`, whose definition takes the elements
in an order that `CHOOSE` fixes, and `WatcherProofs` to show that the sort in
`InOrder` exists. The predicate must be a set of subsets, hence the detour.

### Only model-checked

Every safety invariant and every action property of the passing runs is stated
by a theorem. What remains is liveness (`ClaimIsAnswered`, `PostIsSettled`,
`EveryTradePublished`, `EventuallyWatched`, `EventuallySettled`), which is beyond
the prover, as is ENABLED; and the two violations, which are counterexamples.

## 6. What is left out

Text, JSON, the packing of ABI words, EIP-712 and HTTP; floating point, whose
place integers take, rounded down where the code does not round; metrics and
logging; the long-poll offset of Telegram; `HandleConsensus` (one cache and one
send); `GetWalletStats`, `GetWalletCLV` and the other read-only calls, whose
answers are inputs; the single flight of enrichment, which joins concurrent
misses and changes no answer; `src/pkg/exit`, which no service calls;
configuration parsing other than `RequiresApproval`. `PROJECT.json` lists every
component with its reason.

## 7. Plan

Modelled in order of what an error costs: money (trader), consent (approval),
completeness of the input (watcher, feed), alerts and consensus, then the
computations that feed them; then proved about in the same order, in modules
beside the models. What is worth adding when the code changes there:

1. `Pipeline`: `Approval` with `Trader` over a bus that loses and repeats, and
   the refinement of `OncePlacement` by the two together. Today each is checked
   against an environment that may do whatever the other can.
2. The order book and the price clients as components of their own, once more
   than their answers matters.
