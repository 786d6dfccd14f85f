----------------------------- MODULE Pricewatch -----------------------------
(***************************************************************************)
(* Closing-line values: services/pricewatch records the trades of watched  *)
(* wallets, snapshots the price of what they traded and, once a market has *)
(* ended, settles each trade with the snapshot nearest to the close.  The  *)
(* end of a market comes from services/enrichment, which caches what the   *)
(* gamma API says of a token.                                              *)
(*                                                                         *)
(*   bus  -> OnTradeDetected: track the token, record the trade            *)
(*   pollLoop   -> Poll each active token, then Prune                      *)
(*   settleLoop -> for each unsettled trade: EndDate, Nearest, SetTradeCLV,*)
(*                 the poll loop and a restart at any point between them   *)
(*   EndDate -> own cache -> EnrichToken -> its cache, its misses -> gamma *)
(*                                                                         *)
(* The loops and the callback run concurrently over one database.  An end  *)
(* of 0 is an unknown one; time is in units of a tick.                     *)
(***************************************************************************)
EXTENDS FiniteSetsExt

CONSTANTS
    Tokens,
    Trades,        \* trades that may be detected: [wallet, token, entry, buy]
    EndOf,         \* when the market of a token ends
    Listings,      \* when gamma may learn of a market and of its end: [market, end]
    Price,         \* Price[k][n]: midprice of token k at time n
    TokenTTL, Retention, CloseBuffer,
    CacheTTL, NegCacheTTL,  \* of the enrichment service
    NegTTL,        \* of the cache in front of it
    MaxTime, MaxDeliveries, MaxFailures,
    MaxSpan        \* ticks a poll or a pass is observed to last, a bound

ASSUME PricewatchAssumption ==
    /\ {TokenTTL, Retention, CloseBuffer, CacheTTL, NegCacheTTL, NegTTL} \subseteq Nat
    /\ {MaxTime, MaxDeliveries, MaxFailures, MaxSpan} \subseteq Nat
    /\ \A t \in Trades : t.token \in Tokens
    /\ \A k \in Tokens : EndOf[k] \in Nat
    /\ \A l \in Listings : l.market \in Nat /\ l.end \in Nat

VARIABLES
    now,
    listing,    \* when gamma learns of a token's market and of its end
    db,         \* enrichment cache: tokens to [end, at]
    absent,     \* enrichment's misses: tokens to their expiry
    ends,       \* EndDate's cache: tokens to [end, exp]
    seen,       \* tracker: tokens to when they were last traded
    poll, pollAt, active,   \* stage and time of Poll, tokens still to fetch
    snaps,      \* table price_snapshots
    trades,     \* table clv_trades: trades to [settled, clv]
    pass, passAt,           \* trades left of a settle pass, and its time
    settling,   \* the trade of the pass whose end has been read, if any
    target,     \* the time its closing price is looked up for
    close,      \* the snapshot found for it, if any
    taken,      \* history: every snapshot ever stored
    owed,       \* history: what the table owed the settler when it read
    deliveries, failures

enrichment == <<db, absent>>
polling == <<poll, pollAt, active, taken>>
settler == <<pass, passAt, settling, target, close, owed>>
vars == <<now, listing, enrichment, ends, seen, polling, snaps, trades, settler,
          deliveries, failures>>

Forever == -1

TypeOK ==
    /\ now \in 0 .. MaxTime
    /\ \A k \in DOMAIN db : db[k].end \in {0, EndOf[k]} /\ db[k].at <= now
    /\ \A k \in DOMAIN absent : k \notin DOMAIN db => absent[k] <= now + NegCacheTTL
    /\ \A k \in DOMAIN ends : ends[k].end = 0 \/ ends[k].exp = Forever
    /\ \A k \in DOMAIN seen : seen[k] <= now
    /\ active \subseteq Tokens /\ pollAt <= now /\ passAt <= now
    /\ snaps \subseteq taken
    /\ \A s, x \in snaps : s.token = x.token /\ s.ts = x.ts => s = x
    /\ pass \subseteq DOMAIN trades /\ DOMAIN trades \subseteq Trades
    /\ settling \subseteq pass /\ close \subseteq owed

Init ==
    /\ now = 0
    /\ listing \in [Tokens -> Listings]
    /\ db = <<>> /\ absent = <<>> /\ ends = <<>> /\ seen = <<>>
    /\ poll = "idle" /\ pollAt = 0 /\ active = {} /\ snaps = {} /\ taken = {}
    /\ trades = <<>> /\ pass = {} /\ passAt = 0
    /\ settling = {} /\ target = 0 /\ close = {} /\ owed = {}
    /\ deliveries = 0 /\ failures = 0

Fail == failures < MaxFailures /\ failures' = failures + 1

(* What a step fails to write: "none" of it, or one named part.            *)
Fails(part) == IF part = "none" THEN UNCHANGED failures ELSE Fail

Put(f, k, x) == [j \in DOMAIN f \cup {k} |-> IF j = k THEN x ELSE f[j]]
Keep(f, K) == [k \in K |-> f[k]]

-----------------------------------------------------------------------------
(* The world: time passes, also while a poll or a pass is under way.        *)
Tick ==
    /\ now < MaxTime /\ now' = now + 1
    /\ poll = "idle" \/ now < pollAt + MaxSpan
    /\ pass = {} \/ now < passAt + MaxSpan
    /\ UNCHANGED <<listing, enrichment, ends, seen, polling, snaps, trades, settler,
                   deliveries, failures>>

-----------------------------------------------------------------------------
(* The callback of trades.detected.                                        *)

(* Mutant of RecordTrade: the row of a trade delivered again is replaced.  *)
RecordTradeAgain(t) == trades' = Put(trades, t, [settled |-> FALSE, clv |-> 0])

RecordTrade(t) ==
    trades' = IF t \in DOMAIN trades THEN trades
              ELSE Put(trades, t, [settled |-> FALSE, clv |-> 0])

(* The token is tracked, also when the row cannot be written.              *)
OnTradeDetected(t) ==
    /\ deliveries < MaxDeliveries /\ deliveries' = deliveries + 1
    /\ seen' = Put(seen, t.token, now)
    /\ \/ RecordTrade(t) /\ UNCHANGED failures
       \/ Fail /\ UNCHANGED trades
    /\ UNCHANGED <<now, listing, enrichment, ends, polling, snaps, settler>>

-----------------------------------------------------------------------------
(* pollLoop.                                                               *)

(* Tokens untraded for longer than TokenTTL are dropped.                   *)
StartPoll ==
    /\ poll = "idle"
    /\ LET alive == {k \in DOMAIN seen : now - seen[k] <= TokenTTL} IN
       /\ seen' = Keep(seen, alive)
       /\ active' = alive
    /\ poll' = "fetch" /\ pollAt' = now
    /\ UNCHANGED <<now, listing, enrichment, ends, snaps, trades, settler, taken,
                   deliveries, failures>>

(* The table with a row of its own for each token and time.                *)
Replacing(T, s) == {x \in T : x.token # s.token \/ x.ts # s.ts} \cup {s}

(* The price of now is stored as that of when the poll began.              *)
Snapshot(k) ==
    /\ poll = "fetch" /\ k \in active
    /\ active' = active \ {k}
    /\ \/ LET s == [token |-> k, ts |-> pollAt, mid |-> Price[k][now]] IN
          /\ snaps' = Replacing(snaps, s) /\ taken' = Replacing(taken, s)
          /\ UNCHANGED failures
       \/ Fail /\ UNCHANGED <<snaps, taken>>
    /\ UNCHANGED <<now, listing, enrichment, ends, seen, poll, pollAt, trades, settler,
                   deliveries>>

(* Mutant of Prune: what is older than the tracker's TTL goes.             *)
PruneByTTL ==
    /\ poll = "fetch" /\ active = {}
    /\ poll' = "idle" /\ pollAt' = 0
    /\ snaps' = {s \in snaps : s.ts >= pollAt - TokenTTL}
    /\ UNCHANGED <<now, listing, enrichment, ends, seen, active, taken, trades, settler,
                   deliveries, failures>>

Prune ==
    /\ poll = "fetch" /\ active = {}
    /\ poll' = "idle" /\ pollAt' = 0
    /\ \/ snaps' = {s \in snaps : s.ts >= pollAt - Retention} /\ UNCHANGED failures
       \/ Fail /\ UNCHANGED snaps
    /\ UNCHANGED <<now, listing, enrichment, ends, seen, active, taken, trades, settler,
                   deliveries>>

-----------------------------------------------------------------------------
(* The enrichment service: the end of k's market, 0 when there is none or  *)
(* the token is not found.  Its cache is trusted for CacheTTL, 0 for ever, *)
(* a miss for NegCacheTTL.  What could not be cached is served all the same*)
EnrichToken(k, end, failing) ==
    LET hit == k \in DOMAIN db /\ (CacheTTL = 0 \/ now - db[k].at <= CacheTTL)
        miss == k \in DOMAIN absent /\ now < absent[k]
    IN IF hit THEN end = db[k].end /\ UNCHANGED enrichment
       ELSE IF miss THEN end = 0 /\ UNCHANGED enrichment
       ELSE /\ end = IF now < listing[k].end THEN 0 ELSE EndOf[k]
            /\ IF now < listing[k].market
               THEN absent' = Put(absent, k, now + NegCacheTTL) /\ UNCHANGED db
               ELSE /\ absent' = Keep(absent, DOMAIN absent \ {k})
                    /\ db' = IF failing = "cache" THEN db
                             ELSE Put(db, k, [end |-> end, at |-> now])

(* The notifier asks for the token of a trade it alerts of.                *)
AskedByNotifier(k) ==
    /\ k \in {t.token : t \in DOMAIN trades}
    /\ deliveries < MaxDeliveries /\ deliveries' = deliveries + 1
    /\ \E end \in {0, EndOf[k]}, failing \in {"none", "cache"} :
        EnrichToken(k, end, failing) /\ Fails(failing)
    /\ UNCHANGED <<now, listing, ends, seen, polling, snaps, trades, settler>>

(* Mutant of EndDate: an unknown end is remembered like a known one.       *)
EndDateForever(k, end, failing) ==
    IF k \in DOMAIN ends
    THEN end = ends[k].end /\ UNCHANGED <<enrichment, ends>>
    ELSE /\ EnrichToken(k, end, failing)
         /\ ends' = Put(ends, k, [end |-> end, exp |-> Forever])

(* A known end is remembered for ever, an unknown one for NegTTL.          *)
EndDate(k, end, failing) ==
    IF k \in DOMAIN ends /\ (ends[k].exp = Forever \/ now < ends[k].exp)
    THEN end = ends[k].end /\ UNCHANGED <<enrichment, ends>>
    ELSE /\ EnrichToken(k, end, failing)
         /\ ends' = Put(ends, k, [end |-> end, exp |-> IF end > 0 THEN Forever ELSE now + NegTTL])

-----------------------------------------------------------------------------
(* settleLoop.                                                             *)

Unsettled == {t \in DOMAIN trades : ~trades[t].settled}

StartPass ==
    /\ pass = {} /\ Unsettled # {}
    /\ pass' = Unsettled /\ passAt' = now
    /\ UNCHANGED <<now, listing, enrichment, ends, seen, polling, snaps, trades, settling,
                   target, close, owed, deliveries, failures>>

Distance(m, n) == IF m < n THEN n - m ELSE m - n

(* Of two snapshots as near, the later.                                    *)
Nearest(k, aim) ==
    {s \in snaps :
        /\ s.token = k
        /\ \A x \in snaps :
            x.token = k => \/ Distance(s.ts, aim) < Distance(x.ts, aim)
                           \/ Distance(s.ts, aim) = Distance(x.ts, aim) /\ s.ts >= x.ts}

CLV(t, mid) == IF t.buy THEN mid - t.entry ELSE t.entry - mid

(* The pass goes on to its next trade.                                     *)
Leave(t) ==
    /\ pass' = pass \ {t}
    /\ passAt' = IF pass' = {} THEN 0 ELSE passAt
    /\ settling' = {} /\ target' = 0 /\ close' = {} /\ owed' = {}

(* A trade is left for a later pass when its market has no known end or had*)
(* not ended when the pass began.                                          *)
ReadEnd(t) ==
    /\ settling = {} /\ t \in pass
    /\ \E end \in {0, EndOf[t.token]}, failing \in {"none", "cache"} :
        /\ Fails(failing)
        /\ EndDate(t.token, end, failing)
        /\ \/ (end = 0 \/ passAt < end) /\ Leave(t)
           \/ /\ end # 0 /\ passAt >= end
              /\ settling' = {t} /\ target' = end - CloseBuffer
              /\ UNCHANGED <<pass, passAt, close, owed>>
    /\ UNCHANGED <<now, listing, seen, polling, snaps, trades, deliveries>>

(* The end could not be looked up; the trade is left for a later pass.     *)
LookupFails(t) ==
    /\ settling = {} /\ t \in pass
    /\ Leave(t) /\ Fail
    /\ UNCHANGED <<now, listing, enrichment, ends, seen, polling, snaps, trades, deliveries>>

(* The snapshots of a token that are in the table or young enough to be.   *)
Owed(k) == {s \in taken : s.token = k /\ (s \in snaps \/ s.ts >= now - Retention)}

(* A trade without a snapshot, or whose lookup fails, is left too.         *)
ReadNearest(t) ==
    /\ t \in settling /\ close = {}
    /\ \/ Nearest(t.token, target) = {} /\ Leave(t) /\ UNCHANGED failures
       \/ Fail /\ Leave(t)
       \/ /\ Nearest(t.token, target) # {}
          /\ close' = Nearest(t.token, target) /\ owed' = Owed(t.token)
          /\ UNCHANGED <<pass, passAt, settling, target, failures>>
    /\ UNCHANGED <<now, listing, enrichment, ends, seen, polling, snaps, trades, deliveries>>

(* What the poll loop has stored since the snapshot was read is not seen.  *)
WriteCLV(t) ==
    /\ t \in settling /\ Leave(t)
    /\ \E s \in close :
        \/ /\ trades' = [trades EXCEPT ![t] = [settled |-> TRUE, clv |-> CLV(t, s.mid)]]
           /\ UNCHANGED failures
        \/ Fail /\ UNCHANGED trades
    /\ UNCHANGED <<now, listing, enrichment, ends, seen, polling, snaps, deliveries>>

Holders == {t.wallet : t \in Trades}

(* GetWalletCLV: the mean, as a sum and a count.                           *)
WalletCLV(w) ==
    LET settled == {t \in DOMAIN trades : t.wallet = w /\ trades[t].settled} IN
    [sum |-> SumFunctionOnSet([t \in settled |-> trades[t].clv], settled), n |-> Cardinality(settled)]

-----------------------------------------------------------------------------
(* The database survives pricewatch, and the cache enrichment.             *)
Restart ==
    /\ Fail
    /\ ends' = <<>> /\ seen' = <<>>
    /\ poll' = "idle" /\ pollAt' = 0 /\ active' = {} /\ pass' = {} /\ passAt' = 0
    /\ settling' = {} /\ target' = 0 /\ close' = {} /\ owed' = {}
    /\ UNCHANGED <<now, listing, enrichment, snaps, trades, taken, deliveries>>

EnrichmentRestarts ==
    /\ Fail
    /\ absent' = <<>>
    /\ UNCHANGED <<now, listing, db, ends, seen, polling, snaps, trades, settler, deliveries>>

Settle ==
    \/ StartPass
    \/ \E t \in pass : ReadEnd(t) \/ LookupFails(t) \/ ReadNearest(t) \/ WriteCLV(t)

Next ==
    \/ Tick
    \/ \E k \in Tokens : Snapshot(k) \/ AskedByNotifier(k)
    \/ \E t \in Trades : OnTradeDetected(t)
    \/ StartPoll \/ Prune
    \/ Settle
    \/ Restart \/ EnrichmentRestarts

(* The settle loop runs on a ticker, and its calls return.                 *)
Spec == Init /\ [][Next]_vars /\ WF_vars(Settle)

-----------------------------------------------------------------------------
(* What is served of a wallet only grows: a trade delivered again, by the  *)
(* bus or by the watcher, changes no settled value (trades.go:49-50), nor  *)
(* does a pass that listed it before.                                      *)
SettledIsFinal ==
    [][/\ TypeOK'
       /\ \A w \in Holders :
            \/ WalletCLV(w)' = WalletCLV(w)
            \/ WalletCLV(w)'.n > WalletCLV(w).n
       /\ \A t \in DOMAIN trades : trades[t].settled => trades'[t] = trades[t]]_vars

(* A trade is settled after its market ended and with the price nearest to *)
(* the close of all that the poll loop had stored for its token when they  *)
(* were read, as far as they were not older than Retention: restarts, half *)
(* polls and pruning lose no price that is needed.  (One stored between the*)
(* reading and the writing, settle.go:66-74, is not seen.)                 *)
ClosesOnNearest ==
    [][\A t \in DOMAIN trades :
        trades'[t].settled /\ ~trades[t].settled =>
            LET end == EndOf[t.token]
                near(s) == Distance(s.ts, end - CloseBuffer)
            IN /\ end <= now /\ listing[t.token].end <= now
               /\ \E s \in owed :
                    /\ trades'[t].clv = CLV(t, s.mid)
                    /\ \A x \in owed : near(s) <= near(x)]_vars

(* The end has been public for longer than the caches may hide it, and     *)
(* time has come to where nothing waits for it any more.                   *)
Ripe(t) ==
    /\ t \in Unsettled
    /\ now = MaxTime /\ EndOf[t.token] <= now
    /\ listing[t.token].end + Max({CacheTTL + 1, NegCacheTTL}) + NegTTL <= now
    /\ \E s \in snaps : s.token = t.token

(* An unsettled trade is settled in the end unless its snapshots are       *)
(* pruned: no failed lookup, unknown end or cache hides it for good.       *)
EventuallySettled == \A t \in Trades : Ripe(t) ~> ~Ripe(t)
===============================================================================
