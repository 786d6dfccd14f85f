---------------------------- MODULE RatingProofs ----------------------------
(***************************************************************************)
(* Theorems about what wallets are rated by and which of them are watched: *)
(* Pricewatch, for all trades, markets, prices, lifetimes of the caches and*)
(* bounds; Leaderboard, for all pages, histories, gates and sizes.         *)
(***************************************************************************)
EXTENDS Pricewatch, Leaderboard, SumTheorems, SequenceTheorems

(***************************************************************************)
(* The inductive invariant, by the state it speaks of.                     *)
(***************************************************************************)

ClockInv ==
    /\ now \in Nat /\ now <= MaxTime
    /\ listing \in [Tokens -> Listings]

(* An end that is known was public before.                                 *)
Public(k, end) == end = 0 \/ (end = EndOf[k] /\ listing[k].end <= now)

CachesInv ==
    /\ DOMAIN db \subseteq Tokens /\ DOMAIN ends \subseteq Tokens
    /\ \A k \in DOMAIN db : db[k].at \in Nat /\ db[k].at <= now /\ Public(k, db[k].end)
    /\ \A k \in DOMAIN absent : absent[k] \in Nat /\ absent[k] <= now + NegCacheTTL
    /\ \A k \in DOMAIN ends :
         /\ Public(k, ends[k].end)
         /\ ends[k].end = 0 \/ ends[k].exp = Forever

(* The prices stored that are gone are older than Retention.               *)
PricesInv ==
    /\ DOMAIN seen \subseteq Tokens
    /\ \A k \in DOMAIN seen : seen[k] \in Nat /\ seen[k] <= now
    /\ active \subseteq Tokens
    /\ pollAt \in Nat /\ pollAt <= now
    /\ \A x \in taken : x.ts \in Nat
    /\ snaps \subseteq taken
    /\ \A s, x \in snaps : s.token = x.token /\ s.ts = x.ts => s = x
    /\ \A x \in taken : x \in snaps \/ x.ts < now - Retention

(* What a pass has before it is not settled.                               *)
TradesInv ==
    /\ trades = [t \in DOMAIN trades |-> trades[t]]
    /\ DOMAIN trades \subseteq Trades /\ IsFiniteSet(DOMAIN trades)
    /\ pass \subseteq Unsettled
    /\ passAt \in Nat /\ passAt <= now

(* The market of the trade that is being settled has ended, and no snapshot*)
(* that the table owed the settler is nearer than the one it found.        *)
SettlerInv ==
    /\ settling \subseteq pass
    /\ \A t \in settling :
         /\ EndOf[t.token] <= now /\ listing[t.token].end <= now
         /\ target = EndOf[t.token] - CloseBuffer
    /\ settling = {} => close = {}
    /\ close \subseteq owed
    /\ \A s \in close : \A x \in owed : Distance(s.ts, target) <= Distance(x.ts, target)

PricewatchInv == ClockInv /\ CachesInv /\ PricesInv /\ TradesInv /\ SettlerInv

-----------------------------------------------------------------------------
(* It holds at the start and says what TypeOK says.                        *)
LEMMA PricewatchIsTyped == PricewatchInv => TypeOK
<1> SUFFICES ASSUME PricewatchInv PROVE TypeOK
  OBVIOUS
<1>1. now \in 0 .. MaxTime
  BY PricewatchAssumption DEF PricewatchInv, ClockInv
<1>2. \A k \in DOMAIN db : db[k].end \in {0, EndOf[k]} /\ db[k].at <= now
  BY DEF PricewatchInv, CachesInv, Public
<1>3. \A k \in DOMAIN absent : k \notin DOMAIN db => absent[k] <= now + NegCacheTTL
  BY DEF PricewatchInv, CachesInv
<1>4. \A k \in DOMAIN ends : ends[k].end = 0 \/ ends[k].exp = Forever
  BY DEF PricewatchInv, CachesInv
<1>5. pass \subseteq DOMAIN trades
  BY DEF PricewatchInv, TradesInv, Unsettled
<1>6. QED
  BY <1>1, <1>2, <1>3, <1>4, <1>5 DEF PricewatchInv, PricesInv, TradesInv, SettlerInv, TypeOK

(* Nothing is known at the start.                                        *)
LEMMA PricewatchStarts == Init => PricewatchInv
<1> SUFFICES ASSUME Init PROVE PricewatchInv
  OBVIOUS
<1>1. DOMAIN <<>> = {} /\ IsFiniteSet({})
  BY FS_EmptySet
<1>2. ClockInv
  BY PricewatchAssumption DEF Init, ClockInv
<1>3. CachesInv
  BY <1>1 DEF Init, CachesInv
<1>4. PricesInv
  BY <1>1 DEF Init, PricesInv
<1>5. TradesInv
  BY <1>1 DEF Init, TradesInv, Unsettled
<1>6. SettlerInv
  BY DEF Init, SettlerInv
<1>7. QED
  BY <1>2, <1>3, <1>4, <1>5, <1>6 DEF PricewatchInv

(* What a function has at the keys that are kept.                          *)
LEMMA KeepIs ==
    \A f, K : DOMAIN Keep(f, K) = K /\ \A k \in K : Keep(f, K)[k] = f[k]
BY DEF Keep

-----------------------------------------------------------------------------
(* The caches.                                                             *)

(* What enrichment answers is 0 or public, and what it stores too.         *)
LEMMA EnrichTokenIsPublic ==
    ASSUME ClockInv, CachesInv, NEW k \in Tokens, NEW end, NEW failing,
           EnrichToken(k, end, failing)
    PROVE  /\ Public(k, end)
           /\ DOMAIN db' \subseteq Tokens
           /\ \A j \in DOMAIN db' : db'[j].at \in Nat /\ db'[j].at <= now /\ Public(j, db'[j].end)
           /\ \A j \in DOMAIN absent' : absent'[j] \in Nat /\ absent'[j] <= now + NegCacheTTL
<1> DEFINE hit == k \in DOMAIN db /\ (CacheTTL = 0 \/ now - db[k].at <= CacheTTL)
           miss == k \in DOMAIN absent /\ now < absent[k]
<1>1. CASE hit
  BY <1>1 DEF EnrichToken, CachesInv, enrichment
<1>2. CASE ~hit /\ miss
  BY <1>2 DEF EnrichToken, CachesInv, enrichment, Public
<1>3. CASE ~hit /\ ~miss
  <2>1. /\ end = IF now < listing[k].end THEN 0 ELSE EndOf[k]
        /\ IF now < listing[k].market
           THEN absent' = Put(absent, k, now + NegCacheTTL) /\ UNCHANGED db
           ELSE /\ absent' = Keep(absent, DOMAIN absent \ {k})
                /\ db' = IF failing = "cache" THEN db ELSE Put(db, k, [end |-> end, at |-> now])
    BY <1>3 DEF EnrichToken
  <2>2. listing[k].end \in Nat /\ now \in Nat /\ NegCacheTTL \in Nat
    BY PricewatchAssumption DEF ClockInv
  <2>3. Public(k, end)
    BY <2>1, <2>2 DEF Public
  <2>4. db' = db \/ db' = Put(db, k, [end |-> end, at |-> now])
    BY <2>1
  <2>5. absent' = Put(absent, k, now + NegCacheTTL) \/ absent' = Keep(absent, DOMAIN absent \ {k})
    BY <2>1
  <2>6. /\ DOMAIN db' \subseteq Tokens
        /\ \A j \in DOMAIN db' : db'[j].at \in Nat /\ db'[j].at <= now /\ Public(j, db'[j].end)
    <3>1. CASE db' = db
      BY <3>1 DEF CachesInv
    <3>2. CASE db' = Put(db, k, [end |-> end, at |-> now])
      <4>1. db' = [j \in DOMAIN db \cup {k} |-> IF j = k THEN [end |-> end, at |-> now] ELSE db[j]]
        BY <3>2 DEF Put
      <4>2. QED
        BY <4>1, <2>2, <2>3 DEF CachesInv
    <3>3. QED
      BY <2>4, <3>1, <3>2
  <2>7. \A j \in DOMAIN absent' : absent'[j] \in Nat /\ absent'[j] <= now + NegCacheTTL
    <3>1. CASE absent' = Put(absent, k, now + NegCacheTTL)
      <4>1. absent' = [j \in DOMAIN absent \cup {k} |-> IF j = k THEN now + NegCacheTTL ELSE absent[j]]
        BY <3>1 DEF Put
      <4>2. QED
        BY <4>1, <2>2 DEF CachesInv
    <3>2. CASE absent' = Keep(absent, DOMAIN absent \ {k})
      BY <3>2, KeepIs DEF CachesInv
    <3>3. QED
      BY <2>5, <3>1, <3>2
  <2>8. QED
    BY <2>3, <2>6, <2>7
<1>4. QED
  BY <1>1, <1>2, <1>3

(* So is what EndDate answers and remembers.                               *)
LEMMA EndDateIsPublic ==
    ASSUME ClockInv, CachesInv, NEW k \in Tokens, NEW end, NEW failing, EndDate(k, end, failing),
           UNCHANGED <<now, listing>>
    PROVE  Public(k, end) /\ CachesInv'
<1>1. CASE k \in DOMAIN ends /\ (ends[k].exp = Forever \/ now < ends[k].exp)
  <2>1. end = ends[k].end /\ UNCHANGED <<db, absent, ends>>
    BY <1>1 DEF EndDate, enrichment
  <2>2. QED
    BY <1>1, <2>1 DEF CachesInv, Public
<1>2. CASE ~(k \in DOMAIN ends /\ (ends[k].exp = Forever \/ now < ends[k].exp))
  <2>1. /\ EnrichToken(k, end, failing)
        /\ ends' = Put(ends, k, [end |-> end, exp |-> IF end > 0 THEN Forever ELSE now + NegTTL])
    BY <1>2 DEF EndDate
  <2>2. /\ Public(k, end)
        /\ DOMAIN db' \subseteq Tokens
        /\ \A j \in DOMAIN db' : db'[j].at \in Nat /\ db'[j].at <= now /\ Public(j, db'[j].end)
        /\ \A j \in DOMAIN absent' : absent'[j] \in Nat /\ absent'[j] <= now + NegCacheTTL
    BY <2>1, EnrichTokenIsPublic
  <2>3. PICK x : x = [end |-> end, exp |-> IF end > 0 THEN Forever ELSE now + NegTTL]
    OBVIOUS
  <2>6. ends' = [j \in DOMAIN ends \cup {k} |-> IF j = k THEN x ELSE ends[j]]
    BY <2>1, <2>3 DEF Put
  <2>4. end = 0 \/ end > 0
    BY <2>2, PricewatchAssumption DEF Public
  <2>5. QED
    BY <2>2, <2>3, <2>4, <2>6 DEF CachesInv, Public
<1>3. QED
  BY <1>1, <1>2
-----------------------------------------------------------------------------
(* Each step keeps the invariant.                                          *)

(* Time passes: what was old stays old, what was public stays public.      *)
LEMMA TickKeepsInv ==
    ASSUME PricewatchInv, Tick
    PROVE  PricewatchInv'
<1>1. /\ now \in Nat /\ now' = now + 1 /\ now' <= MaxTime
      /\ UNCHANGED <<listing, db, absent, ends, seen, active, pollAt, snaps, trades, taken, settler>>
  BY PricewatchAssumption DEF PricewatchInv, ClockInv, Tick, enrichment, polling
<1>2. ASSUME NEW k \in Tokens, NEW end, Public(k, end) PROVE Public(k, end)'
  <2>1. listing[k].end \in Nat
    BY PricewatchAssumption DEF PricewatchInv, ClockInv
  <2>2. QED
    BY <1>1, <1>2, <2>1 DEF Public
<1>3. ClockInv'
  BY <1>1 DEF PricewatchInv, ClockInv
<1>4. CachesInv'
  <2>1. \A k \in DOMAIN db : db[k].at \in Nat /\ db[k].at <= now' /\ Public(k, db[k].end)'
    BY <1>1, <1>2 DEF PricewatchInv, CachesInv
  <2>2. \A k \in DOMAIN absent : absent[k] \in Nat /\ absent[k] <= now' + NegCacheTTL
    BY <1>1, PricewatchAssumption DEF PricewatchInv, CachesInv
  <2>3. \A k \in DOMAIN ends : Public(k, ends[k].end)' /\ (ends[k].end = 0 \/ ends[k].exp = Forever)
    BY <1>1, <1>2 DEF PricewatchInv, CachesInv
  <2>4. QED
    BY <1>1, <2>1, <2>2, <2>3 DEF PricewatchInv, CachesInv
<1>5. PricesInv'
  <2>1. \A x \in taken : x \in snaps \/ x.ts < now' - Retention
    BY <1>1, PricewatchAssumption DEF PricewatchInv, PricesInv
  <2>2. \A k \in DOMAIN seen : seen[k] \in Nat /\ seen[k] <= now'
    BY <1>1 DEF PricewatchInv, PricesInv
  <2>3. QED
    BY <1>1, <2>1, <2>2 DEF PricewatchInv, PricesInv
<1>6. TradesInv'
  BY <1>1 DEF PricewatchInv, TradesInv, Unsettled, settler
<1>7. SettlerInv'
  <2>1. UNCHANGED <<pass, settling, target, close, owed, listing>>
    BY <1>1 DEF settler
  <2>2. ASSUME NEW t \in settling PROVE EndOf[t.token] <= now' /\ listing[t.token].end <= now'
    <3>1. t.token \in Tokens
      BY PricewatchAssumption DEF PricewatchInv, SettlerInv, TradesInv, Unsettled
    <3>2. EndOf[t.token] \in Nat /\ listing[t.token].end \in Nat
      BY <3>1, PricewatchAssumption DEF PricewatchInv, ClockInv
    <3>3. QED
      BY <1>1, <3>2 DEF PricewatchInv, SettlerInv
  <2>3. QED
    BY <2>1, <2>2 DEF PricewatchInv, SettlerInv
<1>8. QED
  BY <1>3, <1>4, <1>5, <1>6, <1>7 DEF PricewatchInv

(* The callback adds a row that is not settled, or none.                   *)
LEMMA DetectionKeepsInv ==
    ASSUME PricewatchInv, NEW t \in Trades, OnTradeDetected(t)
    PROVE  PricewatchInv'
<1>1. /\ seen' = Put(seen, t.token, now)
      /\ UNCHANGED <<now, listing, db, absent, ends, active, pollAt, snaps, taken, pass, passAt>>
      /\ UNCHANGED <<settling, target, close, owed>>
  BY DEF OnTradeDetected, enrichment, polling, settler
<1>2. ClockInv' /\ CachesInv'
  BY <1>1 DEF PricewatchInv, ClockInv, CachesInv, Public
<1>3. PricesInv'
  <2>1. seen' = [j \in DOMAIN seen \cup {t.token} |-> IF j = t.token THEN now ELSE seen[j]]
    BY <1>1 DEF Put
  <2>2. t.token \in Tokens /\ now \in Nat
    BY PricewatchAssumption DEF PricewatchInv, ClockInv
  <2>3. DOMAIN seen' \subseteq Tokens /\ \A k \in DOMAIN seen' : seen'[k] \in Nat /\ seen'[k] <= now
    BY <2>1, <2>2 DEF PricewatchInv, PricesInv
  <2>4. QED
    BY <1>1, <2>3 DEF PricewatchInv, PricesInv
<1>4. TradesInv'
  <2>1. CASE trades' = trades
    BY <1>1, <2>1 DEF PricewatchInv, TradesInv, Unsettled
  <2>2. CASE t \notin DOMAIN trades /\ trades' = Put(trades, t, [settled |-> FALSE, clv |-> 0])
    <3>1. PICK x : x = [settled |-> FALSE, clv |-> 0]
      OBVIOUS
    <3>2. trades' = [j \in DOMAIN trades \cup {t} |-> IF j = t THEN x ELSE trades[j]]
      BY <2>2, <3>1 DEF Put
    <3>3. IsFiniteSet(DOMAIN trades \cup {t})
      BY FS_AddElement DEF PricewatchInv, TradesInv
    <3>4. DOMAIN trades' = DOMAIN trades \cup {t} /\ trades' = [j \in DOMAIN trades' |-> trades'[j]]
      BY <3>2
    <3>5. Unsettled \subseteq Unsettled'
      BY <2>2, <3>2 DEF Unsettled
    <3>6. QED
      BY <1>1, <3>3, <3>4, <3>5 DEF PricewatchInv, TradesInv
  <2>3. QED
    BY <2>1, <2>2 DEF OnTradeDetected, RecordTrade
<1>5. SettlerInv'
  BY <1>1 DEF PricewatchInv, SettlerInv
<1>6. QED
  BY <1>2, <1>3, <1>4, <1>5 DEF PricewatchInv

(* The poll: a price fetched takes the place of one of the same time, and  *)
(* what is pruned is old.                                                  *)
LEMMA PollKeepsInv ==
    ASSUME PricewatchInv, StartPoll \/ (\E k \in Tokens : Snapshot(k)) \/ Prune
    PROVE  PricewatchInv'
<1>1. UNCHANGED <<now, listing, db, absent, ends, trades, settler>>
  BY DEF StartPoll, Snapshot, Prune, enrichment
<1>2. ClockInv' /\ CachesInv' /\ TradesInv' /\ SettlerInv'
  BY <1>1 DEF PricewatchInv, ClockInv, CachesInv, Public, TradesInv, Unsettled, SettlerInv, settler
<1>3. now \in Nat /\ pollAt \in Nat /\ pollAt <= now /\ Retention \in Nat
  BY PricewatchAssumption DEF PricewatchInv, ClockInv, PricesInv
<1>4. ASSUME StartPoll PROVE PricesInv'
  <2>1. PICK alive \in SUBSET DOMAIN seen : seen' = Keep(seen, alive) /\ active' = alive
    BY <1>4 DEF StartPoll
  <2>2. DOMAIN seen' = alive /\ \A k \in alive : seen'[k] = seen[k]
    BY <2>1 DEF Keep
  <2>3. pollAt' = now /\ UNCHANGED <<snaps, taken>>
    BY <1>4 DEF StartPoll
  <2>4. QED
    BY <1>1, <1>3, <2>1, <2>2, <2>3 DEF PricewatchInv, PricesInv
<1>5. ASSUME NEW k \in Tokens, Snapshot(k) PROVE PricesInv'
  <2>1. active' \subseteq active /\ UNCHANGED <<seen, pollAt>>
    BY <1>5 DEF Snapshot
  <2>2. CASE UNCHANGED <<snaps, taken>>
    BY <1>1, <2>1, <2>2 DEF PricewatchInv, PricesInv
  <2>3. CASE ~UNCHANGED <<snaps, taken>>
    <3>1. PICK s : /\ s = [token |-> k, ts |-> pollAt, mid |-> Price[k][now]]
                   /\ snaps' = Replacing(snaps, s) /\ taken' = Replacing(taken, s)
      BY <1>5, <2>3 DEF Snapshot
    <3>2. s.ts \in Nat
      BY <1>3, <3>1
    <3>3. QED
      BY <1>1, <2>1, <3>1, <3>2 DEF PricewatchInv, PricesInv, Replacing
  <2>4. QED
    BY <2>2, <2>3
<1>6. ASSUME Prune PROVE PricesInv'
  <2>1. /\ pollAt' = 0 /\ UNCHANGED <<seen, active, taken>>
        /\ snaps' = snaps \/ snaps' = {s \in snaps : s.ts >= pollAt - Retention}
    BY <1>6 DEF Prune
  <2>2. ASSUME NEW x \in taken, x \in snaps, x \notin snaps' PROVE x.ts < now - Retention
    BY <1>3, <2>1, <2>2 DEF PricewatchInv, PricesInv
  <2>3. QED
    BY <1>1, <1>3, <2>1, <2>2 DEF PricewatchInv, PricesInv
<1>7. QED
  BY <1>2, <1>4, <1>5, <1>6 DEF PricewatchInv

(* The notifier's question touches the caches of enrichment only.          *)
LEMMA NotifierKeepsInv ==
    ASSUME PricewatchInv, NEW k \in Tokens, AskedByNotifier(k)
    PROVE  PricewatchInv'
<1>1. UNCHANGED <<now, listing, ends, seen, active, pollAt, snaps, taken, trades, settler>>
  BY DEF AskedByNotifier, polling
<1>2. PICK end, failing : EnrichToken(k, end, failing)
  BY DEF AskedByNotifier
<1>3. /\ DOMAIN db' \subseteq Tokens
      /\ \A j \in DOMAIN db' : db'[j].at \in Nat /\ db'[j].at <= now /\ Public(j, db'[j].end)
      /\ \A j \in DOMAIN absent' : absent'[j] \in Nat /\ absent'[j] <= now + NegCacheTTL
  BY <1>2, EnrichTokenIsPublic DEF PricewatchInv
<1>4. CachesInv'
  BY <1>1, <1>3 DEF PricewatchInv, CachesInv, Public
<1>5. QED
  BY <1>1, <1>4 DEF PricewatchInv, ClockInv, PricesInv, TradesInv, Unsettled, SettlerInv, settler

(* The row of t gets the value of the nearest price, after its close.      *)
Settles(t) ==
    /\ t \in Unsettled
    /\ EndOf[t.token] <= now /\ listing[t.token].end <= now
    /\ \E s \in owed :
         /\ trades' = [trades EXCEPT ![t] = [settled |-> TRUE, clv |-> CLV(t, s.mid)]]
         /\ \A x \in owed : Distance(s.ts, EndOf[t.token] - CloseBuffer)
                               <= Distance(x.ts, EndOf[t.token] - CloseBuffer)

(* What the settler writes.                                                *)
LEMMA WritingIs ==
    ASSUME PricewatchInv, NEW t \in pass, WriteCLV(t)
    PROVE  trades' = trades \/ Settles(t)
<1>1. t \in settling /\ t \in Unsettled
  BY DEF WriteCLV, PricewatchInv, TradesInv
<1>2. PICK s \in close :
        \/ trades' = [trades EXCEPT ![t] = [settled |-> TRUE, clv |-> CLV(t, s.mid)]]
        \/ UNCHANGED trades
  BY DEF WriteCLV
<1>3. /\ s \in owed /\ target = EndOf[t.token] - CloseBuffer
      /\ EndOf[t.token] <= now /\ listing[t.token].end <= now
      /\ \A x \in owed : Distance(s.ts, target) <= Distance(x.ts, target)
  BY <1>1, <1>2 DEF PricewatchInv, SettlerInv
<1>4. QED
  BY <1>1, <1>2, <1>3 DEF Settles

(* Going on to the next trade keeps what is known of the pass.             *)
LEMMA LeavingKeepsInv ==
    ASSUME PricewatchInv, NEW t \in pass, Leave(t),
           UNCHANGED now,
           trades' = trades \/ \E x : trades' = [trades EXCEPT ![t] = x]
    PROVE  TradesInv' /\ SettlerInv'
<1>1. pass' = pass \ {t} /\ passAt' \in {0, passAt} /\ settling' = {} /\ close' = {} /\ owed' = {}
  BY DEF Leave
<1>2. /\ DOMAIN trades' = DOMAIN trades /\ trades' = [u \in DOMAIN trades' |-> trades'[u]]
      /\ \A u \in DOMAIN trades : u # t => trades'[u] = trades[u]
  BY DEF PricewatchInv, TradesInv
<1>3. passAt' \in Nat /\ passAt' <= now
  BY <1>1 DEF PricewatchInv, TradesInv, ClockInv
<1>4. pass' \subseteq Unsettled'
  BY <1>1, <1>2 DEF PricewatchInv, TradesInv, Unsettled
<1>5. QED
  BY <1>1, <1>2, <1>3, <1>4 DEF PricewatchInv, TradesInv, SettlerInv

(* The end that was read is that of the market, and it is over.            *)
LEMMA ReadEndKeepsInv ==
    ASSUME PricewatchInv, NEW t \in pass, ReadEnd(t)
    PROVE  CachesInv' /\ TradesInv' /\ SettlerInv'
<1>1. /\ t \in Unsettled /\ t \in Trades /\ t.token \in Tokens /\ EndOf[t.token] \in Nat
      /\ passAt \in Nat /\ passAt <= now /\ now \in Nat
  BY PricewatchAssumption DEF PricewatchInv, ClockInv, TradesInv, Unsettled
<1>2. UNCHANGED <<now, listing, trades>>
  BY DEF ReadEnd
<1>3. PICK end \in {0, EndOf[t.token]}, failing \in {"none", "cache"} :
        /\ EndDate(t.token, end, failing)
        /\ \/ Leave(t)
           \/ /\ end # 0 /\ passAt >= end
              /\ settling' = {t} /\ target' = end - CloseBuffer
              /\ UNCHANGED <<pass, passAt, close, owed>>
  BY DEF ReadEnd
<1>4. Public(t.token, end) /\ CachesInv'
  BY <1>1, <1>2, <1>3, EndDateIsPublic DEF PricewatchInv
<1>5. CASE Leave(t)
  BY <1>2, <1>4, <1>5, LeavingKeepsInv
<1>6. CASE /\ end # 0 /\ passAt >= end
           /\ settling' = {t} /\ target' = end - CloseBuffer
           /\ UNCHANGED <<pass, passAt, close, owed>>
  <2>1. TradesInv'
    BY <1>2, <1>6 DEF PricewatchInv, TradesInv, Unsettled
  <2>2. end = EndOf[t.token] /\ EndOf[t.token] <= now /\ listing[t.token].end <= now
    BY <1>1, <1>4, <1>6 DEF Public
  <2>3. close = {}
    BY DEF ReadEnd, PricewatchInv, SettlerInv
  <2>4. SettlerInv'
    BY <1>2, <1>6, <2>2, <2>3 DEF PricewatchInv, SettlerInv
  <2>5. QED
    BY <1>4, <2>1, <2>4
<1>7. QED
  BY <1>3, <1>5, <1>6

(* The snapshot found is the nearest of those the table owes: what is young*)
(* enough is in it.                                                        *)
LEMMA ReadNearestKeepsInv ==
    ASSUME PricewatchInv, NEW t \in pass, ReadNearest(t)
    PROVE  TradesInv' /\ SettlerInv'
<1>1. UNCHANGED <<now, listing, trades>>
  BY DEF ReadNearest
<1>2. CASE Leave(t)
  BY <1>1, <1>2, LeavingKeepsInv
<1>3. CASE ~Leave(t)
  <2>1. /\ t \in settling /\ UNCHANGED <<pass, passAt, settling, target>>
        /\ close' = Nearest(t.token, target) /\ owed' = Owed(t.token)
    BY <1>3 DEF ReadNearest
  <2>2. TradesInv'
    BY <1>1, <2>1 DEF PricewatchInv, TradesInv, Unsettled
  <2>3. close' \subseteq owed'
    BY <2>1 DEF Nearest, Owed, PricewatchInv, PricesInv
  <2>4. target \in Int
    <3>1. t \in settling /\ t.token \in Tokens
      BY PricewatchAssumption DEF ReadNearest, PricewatchInv, TradesInv, Unsettled
    <3>2. target = EndOf[t.token] - CloseBuffer
      BY <3>1 DEF PricewatchInv, SettlerInv
    <3>3. QED
      BY <3>1, <3>2, PricewatchAssumption
  <2>5. ASSUME NEW s \in close', NEW x \in owed'
        PROVE  Distance(s.ts, target) <= Distance(x.ts, target)
    <3>1. x \in taken /\ x.token = t.token /\ x.ts \in Nat /\ (x \in snaps \/ x.ts >= now - Retention)
      BY <2>1 DEF Owed, PricewatchInv, PricesInv
    <3>2. now \in Nat /\ Retention \in Nat
      BY PricewatchAssumption DEF PricewatchInv, ClockInv
    <3>3. x \in snaps
      BY <3>1, <3>2 DEF PricewatchInv, PricesInv
    <3>4. s \in snaps /\ s.ts \in Nat
      BY <2>1 DEF Nearest, PricewatchInv, PricesInv
    <3>5. Distance(s.ts, target) \in Int /\ Distance(x.ts, target) \in Int
      BY <2>4, <3>1, <3>4 DEF Distance
    <3>6. \/ Distance(s.ts, target) < Distance(x.ts, target)
          \/ Distance(s.ts, target) = Distance(x.ts, target)
      BY <2>1, <3>1, <3>3 DEF Nearest
    <3>7. QED
      BY <3>5, <3>6
  <2>6. SettlerInv'
    BY <1>1, <2>1, <2>3, <2>5 DEF PricewatchInv, SettlerInv
  <2>7. QED
    BY <2>2, <2>6
<1>4. QED
  BY <1>2, <1>3

(* The pass: a trade leaves it when it is settled or put off.              *)
LEMMA SettleKeepsInv ==
    ASSUME PricewatchInv, Settle
    PROVE  PricewatchInv'
<1>1. UNCHANGED <<now, listing, seen, active, pollAt, snaps, taken>>
  BY DEF Settle, StartPass, ReadEnd, LookupFails, ReadNearest, WriteCLV, polling
<1>2. ClockInv' /\ PricesInv'
  BY <1>1 DEF PricewatchInv, ClockInv, PricesInv
<1>3. ASSUME UNCHANGED <<db, absent, ends>> PROVE CachesInv'
  BY <1>1, <1>3 DEF PricewatchInv, CachesInv, Public
<1>4. ASSUME StartPass PROVE CachesInv' /\ TradesInv' /\ SettlerInv'
  <2>1. /\ pass = {} /\ pass' = Unsettled /\ passAt' = now
        /\ UNCHANGED <<db, absent, ends, trades, settling, target, close, owed>>
    BY <1>4 DEF StartPass, enrichment
  <2>2. TradesInv'
    BY <1>1, <2>1 DEF PricewatchInv, ClockInv, TradesInv, Unsettled
  <2>3. SettlerInv'
    BY <1>1, <2>1 DEF PricewatchInv, SettlerInv
  <2>4. QED
    BY <1>3, <2>1, <2>2, <2>3
<1>5. ASSUME NEW t \in pass, LookupFails(t) PROVE CachesInv' /\ TradesInv' /\ SettlerInv'
  <2>1. Leave(t) /\ UNCHANGED <<db, absent, ends, trades>>
    BY <1>5 DEF LookupFails, enrichment
  <2>2. QED
    BY <1>1, <1>3, <2>1, LeavingKeepsInv
<1>6. ASSUME NEW t \in pass, ReadNearest(t) PROVE CachesInv' /\ TradesInv' /\ SettlerInv'
  <2>1. UNCHANGED <<db, absent, ends>>
    BY <1>6 DEF ReadNearest, enrichment
  <2>2. QED
    BY <1>3, <1>6, <2>1, ReadNearestKeepsInv
<1>7. ASSUME NEW t \in pass, WriteCLV(t) PROVE CachesInv' /\ TradesInv' /\ SettlerInv'
  <2>1. Leave(t) /\ UNCHANGED <<db, absent, ends>>
    BY <1>7 DEF WriteCLV, enrichment
  <2>2. trades' = trades \/ \E x : trades' = [trades EXCEPT ![t] = x]
    BY <1>7, WritingIs DEF Settles
  <2>3. QED
    BY <1>1, <1>3, <2>1, <2>2, LeavingKeepsInv
<1>8. QED
  BY <1>2, <1>4, <1>5, <1>6, <1>7, ReadEndKeepsInv DEF PricewatchInv, Settle

(* A restart forgets the tracker, the poll, the pass or a cache.           *)
LEMMA RestartKeepsInv ==
    ASSUME PricewatchInv, Restart \/ EnrichmentRestarts
    PROVE  PricewatchInv'
<1>1. UNCHANGED <<now, listing, db, snaps, trades, taken>>
  BY DEF Restart, EnrichmentRestarts, enrichment, polling
<1>2. ends' = ends \/ ends' = <<>>
  BY DEF Restart, EnrichmentRestarts
<1>3. absent' = absent \/ absent' = <<>>
  BY DEF Restart, EnrichmentRestarts, enrichment
<1>4. seen' = seen \/ seen' = <<>>
  BY DEF Restart, EnrichmentRestarts
<1>5. /\ active' \in {{}, active} /\ pollAt' \in {0, pollAt}
      /\ pass' \in {{}, pass} /\ passAt' \in {0, passAt}
  BY DEF Restart, EnrichmentRestarts, polling, settler
<1>6. DOMAIN <<>> = {}
  OBVIOUS
<1>7. CachesInv'
  BY <1>1, <1>2, <1>3, <1>6 DEF PricewatchInv, CachesInv, Public
<1>8. PricesInv'
  BY <1>1, <1>4, <1>5, <1>6 DEF PricewatchInv, PricesInv, ClockInv
<1>9. TradesInv'
  BY <1>1, <1>5 DEF PricewatchInv, TradesInv, Unsettled, ClockInv
<1>10. SettlerInv'
  <2>1. CASE Restart
    BY <2>1 DEF Restart, SettlerInv
  <2>2. CASE EnrichmentRestarts
    BY <1>1, <2>2 DEF EnrichmentRestarts, settler, PricewatchInv, SettlerInv
  <2>3. QED
    BY <2>1, <2>2
<1>11. QED
  BY <1>1, <1>7, <1>8, <1>9, <1>10 DEF PricewatchInv, ClockInv

(* Whatever the step.                                                      *)
LEMMA PricewatchGoesOn == PricewatchInv /\ [Next]_vars => PricewatchInv'
<1> SUFFICES ASSUME PricewatchInv, [Next]_vars PROVE PricewatchInv'
  OBVIOUS
<1>1. CASE UNCHANGED vars
  BY <1>1 DEF vars, enrichment, polling, settler, PricewatchInv, ClockInv, CachesInv, Public,
              PricesInv, TradesInv, Unsettled, SettlerInv
<1>2. CASE Next
  BY <1>2, TickKeepsInv, DetectionKeepsInv, PollKeepsInv, NotifierKeepsInv, SettleKeepsInv,
     RestartKeepsInv DEF Next
<1>3. QED
  BY <1>1, <1>2

(* So it holds throughout.                                                 *)
THEOREM PricewatchKept == Spec => []PricewatchInv
  BY PricewatchStarts, PricewatchGoesOn, PTL DEF Spec
-----------------------------------------------------------------------------
(* A row is added that is not settled.                                     *)
Records(t) ==
    /\ t \in Trades \ DOMAIN trades
    /\ trades' = Put(trades, t, [settled |-> FALSE, clv |-> 0])

(* What a step does to the rows: a new one, one settled, or nothing.       *)
LEMMA RowSteps ==
    ASSUME PricewatchInv, [Next]_vars
    PROVE  trades' = trades \/ (\E t \in Trades : Records(t) \/ Settles(t))
<1>1. CASE UNCHANGED vars
  BY <1>1 DEF vars
<1>2. CASE \E t \in Trades : OnTradeDetected(t)
  BY <1>2 DEF OnTradeDetected, RecordTrade, Records
<1>3. CASE \E t \in pass : WriteCLV(t)
  <2>1. pass \subseteq Trades
    BY DEF PricewatchInv, TradesInv, Unsettled
  <2>2. QED
    BY <1>3, <2>1, WritingIs
<1>4. CASE \/ Tick \/ StartPoll \/ Prune \/ StartPass \/ Restart \/ EnrichmentRestarts
           \/ \E k \in Tokens : Snapshot(k) \/ AskedByNotifier(k)
           \/ \E t \in pass : ReadEnd(t) \/ LookupFails(t) \/ ReadNearest(t)
  BY <1>4 DEF Tick, StartPoll, Prune, StartPass, Restart, EnrichmentRestarts, Snapshot,
              AskedByNotifier, ReadEnd, LookupFails, ReadNearest
<1>5. QED
  BY <1>1, <1>2, <1>3, <1>4 DEF Next, Settle

(* The trades of a wallet that count.                                      *)
Counted(w) == {t \in DOMAIN trades : t.wallet = w /\ trades[t].settled}

(* Where the same trades count with the same values, the mean is the same. *)
LEMMA SameCLV ==
    ASSUME NEW w, Counted(w)' = Counted(w),
           \A t \in Counted(w) : trades'[t] = trades[t]
    PROVE  WalletCLV(w)' = WalletCLV(w)
<1> DEFINE C == Counted(w)
<1>1. /\ WalletCLV(w) = [sum |-> SumFunctionOnSet([t \in C |-> trades[t].clv], C),
                         n |-> Cardinality(C)]
      /\ WalletCLV(w)' = [sum |-> SumFunctionOnSet([t \in C' |-> trades'[t].clv], C'),
                          n |-> Cardinality(C')]
  BY DEF WalletCLV, Counted
<1>2. [t \in C' |-> trades'[t].clv] = [t \in C |-> trades[t].clv]
  OBVIOUS
<1>3. QED
  BY <1>1, <1>2

(* A row that was recorded counts for nobody yet ...                       *)
LEMMA RecordingIsFinal ==
    ASSUME PricewatchInv, NEW t \in Trades, Records(t)
    PROVE  /\ \A u \in DOMAIN trades : trades'[u] = trades[u]
           /\ \A w : WalletCLV(w)' = WalletCLV(w)
<1>1. PICK x : x = [settled |-> FALSE, clv |-> 0]
  OBVIOUS
<1>2. t \notin DOMAIN trades
      /\ trades' = [j \in DOMAIN trades \cup {t} |-> IF j = t THEN x ELSE trades[j]]
  BY <1>1 DEF Records, Put
<1>3. DOMAIN trades' = DOMAIN trades \cup {t} /\ ~trades'[t].settled
      /\ \A u \in DOMAIN trades : trades'[u] = trades[u]
  BY <1>1, <1>2
<1>4. ASSUME NEW w PROVE WalletCLV(w)' = WalletCLV(w)
  <2>1. Counted(w)' = Counted(w)
    BY <1>2, <1>3 DEF Counted
  <2>2. \A u \in Counted(w) : trades'[u] = trades[u]
    BY <1>3 DEF Counted
  <2>3. QED
    BY <2>1, <2>2, SameCLV
<1>5. QED
  BY <1>3, <1>4

(* ... and one that is settled counts once more for its wallet alone.      *)
LEMMA SettlingIsFinal ==
    ASSUME PricewatchInv, NEW t \in Trades, Settles(t)
    PROVE  /\ \A u \in DOMAIN trades : trades[u].settled => trades'[u] = trades[u]
           /\ \A w : \/ WalletCLV(w)' = WalletCLV(w)
                     \/ WalletCLV(w)'.n > WalletCLV(w).n
<1>1. PICK v : trades' = [trades EXCEPT ![t] = [settled |-> TRUE, clv |-> v]]
  BY DEF Settles
<1>2. t \in DOMAIN trades /\ ~trades[t].settled
  BY DEF Settles, Unsettled
<1>3. /\ DOMAIN trades' = DOMAIN trades /\ trades'[t].settled
      /\ \A u \in DOMAIN trades : u # t => trades'[u] = trades[u]
  BY <1>1, <1>2
<1>4. \A u \in DOMAIN trades : trades[u].settled => trades'[u] = trades[u]
  BY <1>2, <1>3
<1>5. ASSUME NEW w, w # t.wallet PROVE WalletCLV(w)' = WalletCLV(w)
  <2>1. Counted(w)' = Counted(w)
    BY <1>3, <1>5 DEF Counted
  <2>2. \A u \in Counted(w) : trades'[u] = trades[u]
    BY <1>4 DEF Counted
  <2>3. QED
    BY <2>1, <2>2, SameCLV
<1>6. WalletCLV(t.wallet)'.n > WalletCLV(t.wallet).n
  <2> DEFINE C == Counted(t.wallet)
  <2>1. C' = C \cup {t} /\ t \notin C
    BY <1>2, <1>3 DEF Counted
  <2>2. IsFiniteSet(C)
    BY FS_Subset DEF Counted, PricewatchInv, TradesInv
  <2>3. Cardinality(C') = Cardinality(C) + 1 /\ Cardinality(C) \in Nat
    BY <2>1, <2>2, FS_AddElement, FS_CardinalityType
  <2>4. WalletCLV(t.wallet).n = Cardinality(C) /\ WalletCLV(t.wallet)'.n = Cardinality(C')
    BY DEF WalletCLV, Counted
  <2>5. QED
    BY <2>3, <2>4
<1>7. QED
  BY <1>4, <1>5, <1>6

-----------------------------------------------------------------------------
(* What is served of a wallet changes only by a trade more: no row that    *)
(* arrives again and no pass that listed a trade before touches a settled  *)
(* value, over restarts and failures of either service (trades.go:49-50).  *)
THEOREM PricewatchSettlesForGood == Spec => SettledIsFinal
<1> DEFINE Final == /\ TypeOK'
                    /\ \A w \in Holders : \/ WalletCLV(w)' = WalletCLV(w)
                                          \/ WalletCLV(w)'.n > WalletCLV(w).n
                    /\ \A t \in DOMAIN trades : trades[t].settled => trades'[t] = trades[t]
<1>1. ASSUME PricewatchInv, [Next]_vars, TypeOK' PROVE Final
  <2>1. TypeOK'
    BY <1>1
  <2>2. CASE trades' = trades
    BY <2>1, <2>2 DEF WalletCLV
  <2>3. CASE \E t \in Trades : Records(t) \/ Settles(t)
    BY <1>1, <2>1, <2>3, RecordingIsFinal, SettlingIsFinal
  <2>4. QED
    BY <1>1, <2>2, <2>3, RowSteps
<1>2. QED
  BY <1>1, PricewatchIsTyped, PricewatchKept, PTL DEF Spec, SettledIsFinal

(* A trade is settled after its market ended and was known to have, with   *)
(* the price nearest to the close of all that had ever been stored when the*)
(* settler read them, as far as they were not older than Retention.        *)
THEOREM PricewatchClosesOnNearest == Spec => ClosesOnNearest
<1> DEFINE Closes ==
             \A t \in DOMAIN trades :
                trades'[t].settled /\ ~trades[t].settled =>
                    LET end == EndOf[t.token]
                        near(s) == Distance(s.ts, end - CloseBuffer)
                    IN /\ end <= now /\ listing[t.token].end <= now
                       /\ \E s \in owed :
                            /\ trades'[t].clv = CLV(t, s.mid)
                            /\ \A x \in owed : near(s) <= near(x)
<1>1. ASSUME PricewatchInv, [Next]_vars, NEW t \in DOMAIN trades,
             trades'[t].settled, ~trades[t].settled
      PROVE  /\ EndOf[t.token] <= now /\ listing[t.token].end <= now
             /\ \E s \in owed :
                  /\ trades'[t].clv = CLV(t, s.mid)
                  /\ \A x \in owed : Distance(s.ts, EndOf[t.token] - CloseBuffer)
                                        <= Distance(x.ts, EndOf[t.token] - CloseBuffer)
  <2>1. PICK u \in Trades : Settles(u)
    BY <1>1, RowSteps, RecordingIsFinal
  <2>2. u = t
    BY <1>1, <2>1 DEF Settles
  <2>3. PICK s \in owed :
          /\ trades' = [trades EXCEPT ![t] = [settled |-> TRUE, clv |-> CLV(t, s.mid)]]
          /\ \A x \in owed : Distance(s.ts, EndOf[t.token] - CloseBuffer)
                                <= Distance(x.ts, EndOf[t.token] - CloseBuffer)
    BY <2>1, <2>2 DEF Settles
  <2>4. trades'[t].clv = CLV(t, s.mid)
    BY <2>3
  <2>5. EndOf[t.token] <= now /\ listing[t.token].end <= now
    BY <2>1, <2>2 DEF Settles
  <2>6. QED
    BY <2>3, <2>4, <2>5
<1>2. PricewatchInv /\ [Next]_vars => Closes
  BY <1>1
<1>3. QED
  BY <1>2, PricewatchKept, PTL DEF Spec, ClosesOnNearest

-----------------------------------------------------------------------------
(***************************************************************************)
(* The leaderboard.                                                        *)
(***************************************************************************)

(* What the pages may hold, of it what has an address, and what a pool can *)
(* be made of.                                                             *)
RawEntries == UNION {ToSet(page) : page \in UNION {Boards[w] : w \in candidateWindows}}
Entries == {e \in RawEntries : e.wallet \in Wallets}
Candidates == UNION {ToSet(p) : p \in Pools}

(* The fields that a rating is compared by are numbers.                    *)
IsRating(r) ==
    /\ r.resolved \in Nat /\ r.winRate \in Int /\ r.roi \in Int
    /\ r = [resolved |-> r.resolved, winRate |-> r.winRate, pnl |-> r.pnl, roi |-> r.roi,
            traded |-> r.traded, fresh |-> r.fresh, portfolio |-> r.portfolio,
            profit30 |-> r.profit30]

IsStat(s) ==
    /\ IsRating(s.rating) /\ s.shrunk \in Int /\ s.avgCLV \in Int /\ s.clvN \in Nat
    /\ s = [rating |-> s.rating, shrunk |-> s.shrunk, score |-> s.score,
            avgCLV |-> s.avgCLV, clvN |-> s.clvN]

IsRow(r) ==
    r = [rating |-> r.rating, computed |-> r.computed, skill |-> r.skill,
         avgCLV |-> r.avgCLV, clvN |-> r.clvN]

RefreshInv ==
    /\ phase \in {"idle", "crawl", "score", "clv", "select", "sync"}
    /\ pool \in Seq(Candidates)
    /\ lastSync \in Nat /\ lastSync <= refresh
    /\ refresh \in Nat /\ refresh <= MaxRefreshes
    /\ faults \in Nat /\ faults <= MaxFaults

(* What the refresh has in memory.                                         *)
StatsInv ==
    /\ IsFiniteSet(DOMAIN stats) /\ DOMAIN stats \subseteq Wallets
    /\ \A w \in DOMAIN stats : IsStat(stats[w])
    /\ left \subseteq DOMAIN stats
    /\ phase = "idle" => DOMAIN stats = {}
    /\ phase \in {"crawl", "select", "sync"} => left = {}

(* What is stored of it by now.                                            *)
RowsInv ==
    /\ DOMAIN stats \subseteq DOMAIN rows /\ table \subseteq DOMAIN rows
    /\ \A w \in DOMAIN rows : IsRow(rows[w])
    /\ \A w \in DOMAIN stats :
         rows[w].rating = stats[w].rating /\ rows[w].computed = refresh
    /\ phase = "score" => \A w \in DOMAIN stats \ left : rows[w].skill = stats[w].score
    /\ phase \in {"clv", "select", "sync"} =>
         \A w \in DOMAIN stats : rows[w].skill = stats[w].score
    /\ phase \in {"clv", "sync"} /\ faults = 0 =>
         \A w \in DOMAIN stats \ left :
            rows[w].avgCLV = stats[w].avgCLV /\ rows[w].clvN = stats[w].clvN
    /\ phase = "select" => faults > 0
    /\ phase = "sync" => table \subseteq DOMAIN stats /\ \A w \in table : meets(stats[w].rating)

(* What became of each candidate: none waits but in the pool, unless the   *)
(* refresh is aborted, and who was crawled is rated by what was fetched.   *)
OutcomeInv ==
    /\ DOMAIN outcome \subseteq Wallets
    /\ aborted => phase = "crawl"
    /\ \A w \in DOMAIN outcome :
         /\ outcome[w] \in {"pending", "rated", "unvalued", "failed"}
         /\ outcome[w] = "pending" =>
              aborted \/ (phase = "crawl" /\ \E k \in 1 .. Len(pool) : pool[k].wallet = w)
         /\ outcome[w] \in {"rated", "unvalued"} => w \in DOMAIN stats
         /\ outcome[w] = "rated" => stats[w].rating.portfolio = Portfolio[w]
         /\ outcome[w] = "unvalued" => stats[w].rating.portfolio = 0

BoardInv == RefreshInv /\ StatsInv /\ RowsInv /\ OutcomeInv

-----------------------------------------------------------------------------
(* What the constants are.                                                 *)
LEMMA BoardConstants ==
    /\ CandidateTopK \in Nat /\ MaxCandidates \in Nat /\ PageSize \in Nat \ {0}
    /\ MaxActivity \in Nat /\ TopN \in Nat /\ ShrinkK \in Nat \ {0} /\ ClvFull \in Nat \ {0}
    /\ Concurrency \in Nat \ {0} /\ MaxRefreshes \in Nat /\ MaxFaults \in Nat
BY SelectionAssumption, LeaderboardAssumption

(* The lesser of two.                                                      *)
LEMMA LesserOfTwo ==
    \A a, b \in Int : Min({a, b}) = IF a <= b THEN a ELSE b
<1> TAKE a, b \in Int
<1> DEFINE m == IF a <= b THEN a ELSE b
<1>1. m \in {a, b} /\ m \in Int /\ \A x \in {a, b} : m <= x
  OBVIOUS
<1>2. \A y \in {a, b} : (\A x \in {a, b} : y <= x) => y = m
  OBVIOUS
<1> HIDE DEF m
<1>3. Min({a, b}) = m
  BY <1>1, <1>2 DEF Min
<1>4. QED
  BY <1>3 DEF m

(* The first n of a sequence are a sequence of the same.                   *)
LEMMA UptoIsPrefix ==
    ASSUME NEW S, NEW s \in Seq(S), NEW n \in Nat
    PROVE  /\ Upto(s, n) \in Seq(S)
           /\ DOMAIN Upto(s, n) \subseteq DOMAIN s
           /\ \A i \in DOMAIN Upto(s, n) : Upto(s, n)[i] = s[i]
<1>1. Len(s) \in Nat /\ DOMAIN s = 1 .. Len(s)
  OBVIOUS
<1>2. Min({Len(s), n}) \in Nat /\ Min({Len(s), n}) <= Len(s)
  BY <1>1, LesserOfTwo
<1>3. PICK m \in Nat : m = Min({Len(s), n}) /\ m <= Len(s)
  BY <1>2
<1> DEFINE t == SubSeq(s, 1, m)
<1>4. t \in Seq(S) /\ Len(t) = m /\ \A i \in 1 .. m : t[i] = s[i]
  <2>1. \A i \in 1 .. m : s[i] \in S
    BY <1>1, <1>3
  <2>2. /\ 1 \in Int /\ m \in Int /\ m - 1 + 1 = m /\ (~(1 <= m) => m = 0)
        /\ \A i \in 1 .. m : 1 + i - 1 = i
    BY <1>3
  <2>3. QED
    BY <2>1, <2>2, SubSeqProperties
<1>5. Upto(s, n) = t
  BY <1>3 DEF Upto
<1> HIDE DEF t
<1>6. DOMAIN t = 1 .. m
  BY <1>4
<1>7. \A i \in 1 .. m : i \in DOMAIN s
  BY <1>1, <1>3
<1>8. QED
  BY <1>4, <1>5, <1>6, <1>7

(* Of a sequence of what the pages hold, the first of each wallet is a     *)
(* sequence of what has an address.                                        *)
LEMMA FirstsAreEntries ==
    ASSUME NEW S, NEW s \in Seq(S)
    PROVE  Firsts(s) \in Seq({e \in S : e.wallet \in Wallets})
<1> DEFINE F == {i \in DOMAIN s :
                    /\ s[i].wallet \in Wallets
                    /\ \A j \in 1 .. i - 1 : s[j].wallet # s[i].wallet}
           R == {p \in F \X F : p[1] < p[2]}
           at(k) == CHOOSE i \in F : Cardinality({j \in F : j < i}) = k - 1
<1>1. Len(s) \in Nat /\ DOMAIN s = 1 .. Len(s) /\ F \in SUBSET (1 .. Len(s))
  OBVIOUS
<1>2. IsFiniteSet(F) /\ Cardinality(F) \in Nat
  <2>1. IsFiniteSet(1 .. Len(s))
    BY <1>1, FS_Interval
  <2>2. QED
    BY <1>1, <2>1, FS_Subset, FS_CardinalityType
<1>3. \A i \in F : i \in Int /\ s[i] \in {e \in S : e.wallet \in Wallets}
  BY <1>1
<1>4. \A x \in F : Below(F, R, x) = {j \in F : j < x}
  BY DEF Below
<1>5. Firsts(s) = [k \in 1 .. Cardinality(F) |-> s[at(k)]]
  BY DEF Firsts
<1> HIDE DEF F
<1>6. Orders(R, F)
  BY <1>3 DEF Orders
<1> HIDE DEF R
<1>7. ASSUME NEW k \in 1 .. Cardinality(F) PROVE at(k) \in F
  <2>1. k - 1 \in 0 .. Cardinality(F) - 1
    BY <1>2
  <2>2. \E x \in F : Cardinality(Below(F, R, x)) = k - 1
    BY <1>2, <1>6, <2>1, RanksAreCounted
  <2>3. \E x \in F : Cardinality({j \in F : j < x}) = k - 1
    BY <1>4, <2>2
  <2>4. QED
    BY <2>3
<1> HIDE DEF at
<1>8. [k \in 1 .. Cardinality(F) |-> s[at(k)]] \in Seq({e \in S : e.wallet \in Wallets})
  BY <1>2, <1>3, <1>7
<1>9. QED
  BY <1>5, <1>8

(* Every pool is a sequence of wallets that have an address.               *)
LEMMA PoolsAreCandidates ==
    /\ \A p \in Pools : p \in Seq(Candidates)
    /\ \A c \in Candidates : c.wallet \in Wallets
<1> DEFINE W == {"7d", "30d", "all"}
<1>1. \A w \in candidateWindows : \A page \in Boards[w] : page \in Seq(RawEntries)
  <2> SUFFICES ASSUME NEW w \in candidateWindows, NEW page \in Boards[w]
               PROVE  page \in Seq(RawEntries)
    OBVIOUS
  <2>1. page \in Seq(ToSet(page))
    BY LeaderboardAssumption
  <2>2. ToSet(page) \subseteq RawEntries
    BY DEF RawEntries
  <2>3. QED
    BY <2>1, <2>2
<1>2. \A w \in candidateWindows : \A page \in Boards[w] : FetchEntries(page) \in Seq(Entries)
  BY <1>1, FirstsAreEntries, UptoIsPrefix, BoardConstants DEF FetchEntries, Entries
<1>3. \A w \in candidateWindows : \A x \in Pages[w] : x \in Seq(Entries)
  <2>1. <<>> \in Seq(Entries)
    OBVIOUS
  <2>2. QED
    BY <1>2, <2>1 DEF Pages
<1>4. DOMAIN Pages = candidateWindows
  BY DEF Pages
<1>5. \A answers \in Answers : \A w \in candidateWindows : answers[w] \in Seq(Entries)
  BY <1>3, <1>4 DEF Answers
<1>6. ASSUME NEW answers \in Answers
      PROVE  /\ candidatePool(answers) \in Seq(ToSet(candidatePool(answers)))
             /\ \A i \in DOMAIN candidatePool(answers) :
                  candidatePool(answers)[i].wallet \in Wallets
  <2> DEFINE extra == IF Window \in W THEN <<>> ELSE answers[Window]
             all == answers["7d"] \o answers["30d"] \o answers["all"] \o extra
             chosen == Upto(Firsts(all), MaxCandidates)
             profit30(w) ==
                 LET amounts == {e.amount : e \in {x \in ToSet(answers["30d"]) : x.wallet = w}}
                 IN IF amounts = {} THEN 0 ELSE Max(amounts)
             p == [i \in DOMAIN chosen |->
                     [wallet |-> chosen[i].wallet, profit30 |-> profit30(chosen[i].wallet)]]
  <2>1. candidatePool(answers) = p
    BY DEF candidatePool
  <2>2. /\ answers["7d"] \in Seq(Entries) /\ answers["30d"] \in Seq(Entries)
        /\ answers["all"] \in Seq(Entries) /\ answers[Window] \in Seq(Entries)
    BY <1>5 DEF candidateWindows
  <2>3. extra \in Seq(Entries)
    BY <2>2
  <2>4. all \in Seq(Entries)
    BY <2>2, <2>3
  <2> HIDE DEF all
  <2>5. Firsts(all) \in Seq(Entries)
    <3>1. {e \in Entries : e.wallet \in Wallets} = Entries
      BY DEF Entries
    <3>2. QED
      BY <2>4, <3>1, FirstsAreEntries
  <2>6. chosen \in Seq(Entries)
    BY <2>5, UptoIsPrefix, BoardConstants
  <2> HIDE DEF chosen
  <2>7. Len(chosen) \in Nat /\ DOMAIN chosen = 1 .. Len(chosen)
        /\ \A i \in DOMAIN chosen : chosen[i].wallet \in Wallets
    BY <2>6 DEF Entries
  <2> HIDE DEF profit30
  <2>8. DOMAIN p = 1 .. Len(chosen) /\ \A i \in DOMAIN p : p[i].wallet \in Wallets
    BY <2>7
  <2>9. p \in Seq(ToSet(p))
    <3>1. \A i \in 1 .. Len(chosen) : p[i] \in ToSet(p)
      BY <2>8 DEF ToSet
    <3>2. p = [i \in 1 .. Len(chosen) |-> p[i]]
      BY <2>7
    <3> HIDE DEF p
    <3>3. QED
      BY <2>7, <3>1, <3>2
  <2>10. QED
    BY <2>1, <2>8, <2>9
<1>7. \A p \in Pools : /\ p \in Seq(ToSet(p)) /\ \A i \in DOMAIN p : p[i].wallet \in Wallets
  BY <1>6 DEF Pools
<1>8. \A p \in Pools : ToSet(p) \subseteq Candidates
  BY DEF Candidates
<1>9. QED
  <2>1. \A p \in Pools : p \in Seq(Candidates)
    BY <1>7, <1>8
  <2>2. \A c \in Candidates : c.wallet \in Wallets
    BY <1>7 DEF Candidates, ToSet
  <2>3. QED
    BY <2>1, <2>2
-----------------------------------------------------------------------------
(* Numbers.  A greater factor gives a greater product ...                  *)
LEMMA TimesGrows ==
    ASSUME NEW b \in Nat, NEW x \in Int, NEW y \in Int, x <= y
    PROVE  b * x \in Int /\ b * y \in Int /\ b * x <= b * y
<1>1. PICK d \in Nat : y = x + d
  <2>1. y - x \in Nat /\ y = x + (y - x)
    OBVIOUS
  <2>2. QED
    BY <2>1
<1>2. b * d \in Nat /\ b * x \in Int /\ b * (x + d) = b * x + b * d
  OBVIOUS
<1>3. QED
  BY <1>1, <1>2

(* ... and a quotient that rounds down lies between the whole numbers that *)
(* the fraction lies between.                                              *)
LEMMA QuotientBetween ==
    ASSUME NEW a \in Int, NEW b \in Nat \ {0}, NEW low \in Int, NEW high \in Int,
           b * low <= a, a <= b * high
    PROVE  a \div b \in Int /\ low <= a \div b /\ a \div b <= high
<1>1. PICK q \in Int : q = a \div b /\ b * q <= a /\ a < b * q + b
  OBVIOUS
<1>2. ASSUME q < low PROVE FALSE
  <2>1. b * (q + 1) <= b * low
    BY <1>2, TimesGrows
  <2>2. b * (q + 1) = b * q + b /\ b * low \in Int /\ b * q \in Int
    OBVIOUS
  <2>3. QED
    BY <1>1, <2>1, <2>2
<1>3. ASSUME high < q PROVE FALSE
  <2>1. b * (high + 1) <= b * q
    BY <1>3, TimesGrows
  <2>2. b * (high + 1) = b * high + b /\ b * high \in Int /\ b * q \in Int
    OBVIOUS
  <2>3. QED
    BY <1>1, <2>1, <2>2
<1>4. QED
  BY <1>1, <1>2, <1>3

(* The greatest and the least number of a finite set.                      *)
LEMMA ExtremesAre ==
    ASSUME NEW S \in SUBSET Int, IsFiniteSet(S), S # {}
    PROVE  /\ Max(S) \in S /\ \A x \in S : x <= Max(S)
           /\ Min(S) \in S /\ \A x \in S : Min(S) <= x
<1> DEFINE id == [x \in S |-> x]
<1>1. \A x \in S : id[x] \in Int /\ id[x] = x
  OBVIOUS
<1> HIDE DEF id
<1>2. \E m \in S : \A x \in S : m >= x
  <2>1. PICK m \in S : \A x \in S : id[x] <= id[m]
    BY <1>1, HasGreatest
  <2>2. QED
    BY <1>1, <2>1
<1>3. \E m \in S : \A x \in S : m <= x
  <2>1. PICK m \in S : \A x \in S : id[m] <= id[x]
    BY <1>1, HasLeast
  <2>2. QED
    BY <1>1, <2>1
<1>4. Max(S) \in S /\ \A x \in S : Max(S) >= x
  BY <1>2 DEF Max
<1>5. Min(S) \in S /\ \A x \in S : Min(S) <= x
  BY <1>3 DEF Min
<1>6. QED
  BY <1>4, <1>5

(* A finite set can be listed in the order of a number of each element.    *)
LEMMA CanBeListed ==
    ASSUME NEW S, IsFiniteSet(S), NEW f, \A x \in S : f[x] \in Int
    PROVE  \E s \in [1 .. Cardinality(S) -> S] :
              /\ ToSet(s) = S
              /\ \A i, j \in DOMAIN s : i < j => f[s[i]] <= f[s[j]]
<1>0. PICK n \in Nat : ExistsBijection(1 .. n, S)
  BY FS_NatBijection
<1>1. PICK b \in Bijection(1 .. n, S) : TRUE
  BY <1>0 DEF ExistsBijection
<1> DEFINE place(x) == CHOOSE k \in 1 .. n : b[k] = x
           R == {p \in S \X S :
                   \/ f[p[1]] < f[p[2]]
                   \/ f[p[1]] = f[p[2]] /\ place(p[1]) < place(p[2])}
           rank(x) == Cardinality(Below(S, R, x))
           at(k) == CHOOSE x \in S : rank(x) = k - 1
           s == [k \in 1 .. Cardinality(S) |-> at(k)]
<1>2. ASSUME NEW x \in S PROVE place(x) \in 1 .. n /\ b[place(x)] = x
  <2>1. \E k \in 1 .. n : b[k] = x
    BY <1>1 DEF Bijection, Surjection
  <2>2. QED
    BY <2>1
<1>3. \A x, y \in S : place(x) = place(y) => x = y
  <2> HIDE DEF place
  <2>1. QED
    BY <1>2
<1>4. \A x \in S : place(x) \in Int
  <2> HIDE DEF place
  <2>1. QED
    BY <1>2
<1> HIDE DEF place
<1>5. Orders(R, S)
  BY <1>3, <1>4 DEF Orders
<1>6. \A x, y \in S : f[x] < f[y] => <<x, y>> \in R
  OBVIOUS
<1> HIDE DEF R
<1>7. Cardinality(S) \in Nat
  BY FS_CardinalityType
<1>8. /\ \A x \in S : rank(x) \in 0 .. Cardinality(S) - 1
      /\ \A x, y \in S : <<x, y>> \in R => rank(x) < rank(y)
      /\ \A k \in 0 .. Cardinality(S) - 1 : \E x \in S : rank(x) = k
  BY <1>5, RanksAreCounted
<1> HIDE DEF rank
<1>9. ASSUME NEW k \in 1 .. Cardinality(S) PROVE at(k) \in S /\ rank(at(k)) = k - 1
  <2>1. k - 1 \in 0 .. Cardinality(S) - 1
    BY <1>7
  <2>2. \E x \in S : rank(x) = k - 1
    BY <1>8, <2>1
  <2>3. QED
    BY <2>2
<1> HIDE DEF at
<1>10. ASSUME NEW x \in S PROVE \E k \in 1 .. Cardinality(S) : at(k) = x
  <2>1. PICK k \in 1 .. Cardinality(S) : rank(x) = k - 1
    <3>1. rank(x) + 1 \in 1 .. Cardinality(S) /\ rank(x) = (rank(x) + 1) - 1
      BY <1>7, <1>8
    <3>2. QED
      BY <3>1
  <2>2. at(k) \in S /\ rank(at(k)) = rank(x) /\ rank(x) \in Int
    BY <1>8, <1>9, <2>1
  <2>3. ASSUME NEW y \in S, rank(y) = rank(x), y # x PROVE FALSE
    <3>1. <<x, y>> \in R \/ <<y, x>> \in R
      BY <1>5, <2>3 DEF Orders
    <3>2. rank(x) < rank(y) \/ rank(y) < rank(x)
      BY <1>8, <3>1
    <3>3. QED
      BY <2>2, <2>3, <3>2
  <2>4. QED
    BY <2>2, <2>3
<1>11. s \in [1 .. Cardinality(S) -> S]
  BY <1>9
<1>12. ToSet(s) = S
  BY <1>9, <1>10 DEF ToSet
<1>13. ASSUME NEW i \in 1 .. Cardinality(S), NEW j \in 1 .. Cardinality(S), i < j
       PROVE  f[s[i]] <= f[s[j]]
  <2>1. s[i] \in S /\ s[j] \in S /\ rank(s[i]) = i - 1 /\ rank(s[j]) = j - 1
    BY <1>9
  <2>2. ASSUME f[s[j]] < f[s[i]] PROVE FALSE
    <3>1. rank(s[j]) < rank(s[i])
      <4>1. <<s[j], s[i]>> \in R
        BY <1>6, <2>1, <2>2
      <4>2. QED
        BY <1>8, <2>1, <4>1
    <3>2. QED
      BY <1>13, <2>1, <3>1
  <2>3. f[s[i]] \in Int /\ f[s[j]] \in Int
    BY <2>1
  <2>4. QED
    BY <2>2, <2>3
<1>14. QED
  BY <1>11, <1>12, <1>13
-----------------------------------------------------------------------------
(* What is rated: activity with numbers, its markets, those resolved and   *)
(* those that count.                                                       *)
IsActivity(acts) ==
    /\ \E n \in Nat : DOMAIN acts = 1 .. n
    /\ \A i \in DOMAIN acts : {acts[i].usdc, acts[i].size, acts[i].at} \subseteq Int

MarketsOf(acts) == [c \in {acts[i].market : i \in DOMAIN acts} |-> market(acts, c)]
DoneOf(acts) == {c \in DOMAIN MarketsOf(acts) : resolved(MarketsOf(acts)[c])}
PaidOf(acts) == {c \in DoneOf(acts) : MarketsOf(acts)[c].cost > 0}

(* What is read of a history is activity.                                  *)
LEMMA HistoryIsActivity ==
    \A w \in Wallets : \A history \in Histories[w] : IsActivity(Activity(history))
<1> SUFFICES ASSUME NEW w \in Wallets, NEW history \in Histories[w]
             PROVE  IsActivity(Activity(history))
  OBVIOUS
<1> DEFINE pages == (MaxActivity + PageSize - 1) \div PageSize
           acts == Upto(history, pages * PageSize)
<1>1. /\ history \in Seq(ToSet(history))
      /\ \A i \in DOMAIN history : {history[i].usdc, history[i].size, history[i].at} \subseteq Int
  BY LeaderboardAssumption
<1>2. pages \in Nat /\ PageSize \in Nat
  BY BoardConstants
<1>3. Activity(history) = acts
  BY DEF Activity
<1> HIDE DEF pages
<1>4. pages * PageSize \in Nat
  BY <1>2
<1>5. /\ acts \in Seq(ToSet(history)) /\ DOMAIN acts \subseteq DOMAIN history
      /\ \A i \in DOMAIN acts : acts[i] = history[i]
  BY <1>1, <1>4, UptoIsPrefix
<1> HIDE DEF acts
<1>6. Len(acts) \in Nat /\ DOMAIN acts = 1 .. Len(acts)
  BY <1>5
<1>7. \A i \in DOMAIN acts : {acts[i].usdc, acts[i].size, acts[i].at} \subseteq Int
  <2> TAKE i \in DOMAIN acts
  <2>1. acts[i] = history[i] /\ i \in DOMAIN history
    BY <1>5
  <2>2. QED
    BY <1>1, <2>1
<1>8. IsActivity(acts)
  BY <1>6, <1>7 DEF IsActivity
<1>9. QED
  BY <1>3, <1>8

(* What the trades of a market cost, paid and moved are sums of numbers.   *)
LEMMA AmountsAreNumbers ==
    ASSUME NEW acts, IsActivity(acts)
    PROVE  /\ \A c, kinds : Usdc(acts, c, kinds) \in Int
           /\ \A c, kind : Shares(acts, c, kind) \in Int
<1>1. IsFiniteSet(DOMAIN acts)
  BY FS_Interval DEF IsActivity
<1>2. \A i \in DOMAIN acts : acts[i].usdc \in Int /\ acts[i].size \in Int
  BY DEF IsActivity
<1>3. ASSUME NEW c, NEW kinds PROVE Usdc(acts, c, kinds) \in Int
  <2> DEFINE them == {i \in DOMAIN acts : acts[i].market = c /\ acts[i].kind \in kinds}
             amount == [i \in them |-> acts[i].usdc]
  <2>1. IsFiniteSet(them)
    BY <1>1, FS_Subset
  <2>2. \A i \in them : amount[i] \in Int
    BY <1>2
  <2>3. Usdc(acts, c, kinds) = SumFunctionOnSet(amount, them)
    BY DEF Usdc
  <2> HIDE DEF them, amount
  <2>4. QED
    BY <2>1, <2>2, <2>3, SumType
<1>4. ASSUME NEW c, NEW kind PROVE Shares(acts, c, kind) \in Int
  <2> DEFINE them == {i \in DOMAIN acts : acts[i].market = c /\ acts[i].kind = kind}
             amount == [i \in them |-> acts[i].size]
  <2>1. IsFiniteSet(them)
    BY <1>1, FS_Subset
  <2>2. \A i \in them : amount[i] \in Int
    BY <1>2
  <2>3. Shares(acts, c, kind) = SumFunctionOnSet(amount, them)
    BY DEF Shares
  <2> HIDE DEF them, amount
  <2>4. QED
    BY <2>1, <2>2, <2>3, SumType
<1>5. QED
  BY <1>3, <1>4

(* So a market has a profit, a cost and a last activity, and of finitely   *)
(* many markets some are resolved, and of these some count.                *)
LEMMA MarketsAreNumbers ==
    ASSUME NEW acts, IsActivity(acts)
    PROVE  /\ IsFiniteSet(DOMAIN MarketsOf(acts))
           /\ DOMAIN MarketsOf(acts) = {acts[i].market : i \in DOMAIN acts}
           /\ DoneOf(acts) \in SUBSET DOMAIN MarketsOf(acts) /\ IsFiniteSet(DoneOf(acts))
           /\ PaidOf(acts) \in SUBSET DoneOf(acts) /\ IsFiniteSet(PaidOf(acts))
           /\ \A c \in DOMAIN MarketsOf(acts) :
                /\ MarketsOf(acts)[c].net \in Int /\ MarketsOf(acts)[c].cost \in Int
                /\ MarketsOf(acts)[c].last \in Int
           /\ \A c \in PaidOf(acts) : MarketsOf(acts)[c].cost > 0
<1> DEFINE M == {acts[i].market : i \in DOMAIN acts}
<1>1. DOMAIN MarketsOf(acts) = M
  BY DEF MarketsOf
<1>2. IsFiniteSet(DOMAIN acts)
  BY FS_Interval DEF IsActivity
<1>3. IsFiniteSet(M)
  <2> DEFINE of == [i \in DOMAIN acts |-> acts[i].market]
  <2>1. M = {of[i] : i \in DOMAIN acts}
    OBVIOUS
  <2> HIDE DEF of, M
  <2>2. QED
    BY <1>2, <2>1, ImageIsFinite
<1>4. ASSUME NEW c \in M
      PROVE  /\ MarketsOf(acts)[c].net \in Int /\ MarketsOf(acts)[c].cost \in Int
             /\ MarketsOf(acts)[c].last \in Int
  <2> DEFINE own == {j \in DOMAIN acts : acts[j].market = c}
             at == [i \in own |-> acts[i].at]
             ats == {at[i] : i \in own}
  <2>1. MarketsOf(acts)[c] = market(acts, c)
    BY DEF MarketsOf
  <2>2. /\ market(acts, c).net = Usdc(acts, c, {"sell", "redeem", "merge"})
                                   - Usdc(acts, c, {"buy", "split"})
        /\ market(acts, c).cost = Usdc(acts, c, {"buy", "split"})
    BY DEF market
  <2>3. market(acts, c).last = Max(ats)
    <3>1. ats = {acts[i].at : i \in {j \in DOMAIN acts : acts[j].market = c}}
      OBVIOUS
    <3> HIDE DEF ats
    <3>2. QED
      BY <3>1 DEF market
  <2>4. IsFiniteSet(own) /\ own # {} /\ \A i \in own : at[i] \in Int
    BY <1>2, FS_Subset DEF IsActivity
  <2> HIDE DEF own, at
  <2>5. IsFiniteSet(ats) /\ ats # {} /\ ats \in SUBSET Int
    BY <2>4, ImageIsFinite
  <2> HIDE DEF ats
  <2>6. Max(ats) \in Int
    BY <2>5, ExtremesAre
  <2>7. /\ Usdc(acts, c, {"sell", "redeem", "merge"}) \in Int
        /\ Usdc(acts, c, {"buy", "split"}) \in Int
    BY AmountsAreNumbers
  <2>8. QED
    BY <2>1, <2>2, <2>3, <2>6, <2>7
<1>5. /\ DoneOf(acts) \in SUBSET DOMAIN MarketsOf(acts)
      /\ PaidOf(acts) \in SUBSET DoneOf(acts)
      /\ \A c \in PaidOf(acts) : MarketsOf(acts)[c].cost > 0
  BY DEF DoneOf, PaidOf
<1>6. IsFiniteSet(DoneOf(acts)) /\ IsFiniteSet(PaidOf(acts))
  <2>1. IsFiniteSet(DoneOf(acts))
    BY <1>1, <1>3, <1>5, FS_Subset
  <2>2. QED
    BY <1>5, <2>1, FS_Subset
<1>7. QED
  BY <1>1, <1>3, <1>4, <1>5, <1>6

(* The return of a market in percent; the profit and the capital of those  *)
(* that count.                                                             *)
ReturnOf(acts, c) == (100 * MarketsOf(acts)[c].net) \div MarketsOf(acts)[c].cost
ProfitOf(acts) == SumFunctionOnSet([c \in PaidOf(acts) |-> MarketsOf(acts)[c].net], PaidOf(acts))
CapitalOf(acts) == SumFunctionOnSet([c \in PaidOf(acts) |-> MarketsOf(acts)[c].cost], PaidOf(acts))

(* What a rating consists of: the returns are those of the markets that    *)
(* count, whichever way markets with the same last activity are ordered.   *)
LEMMA RatingConsistsOf ==
    ASSUME NEW acts, IsActivity(acts)
    PROVE  LET s == Compute(acts) IN
           /\ s.resolved = Cardinality(DoneOf(acts))
           /\ s.traded = Cardinality(DOMAIN MarketsOf(acts))
           /\ \E wins \in SUBSET DoneOf(acts) :
                s.winRate = IF DoneOf(acts) = {} THEN 0
                            ELSE (100 * Cardinality(wins)) \div Cardinality(DoneOf(acts))
           /\ s.pnl = ProfitOf(acts)
           /\ s.roi = IF CapitalOf(acts) > 0 THEN (100 * ProfitOf(acts)) \div CapitalOf(acts) ELSE 0
           /\ s.returns \in Seq(Int)
           /\ ToSet(s.returns) = {ReturnOf(acts, c) : c \in PaidOf(acts)}
<1> DEFINE m == MarketsOf(acts)
           done == DoneOf(acts)
           paid == PaidOf(acts)
           wins == {c \in done : m[c].net > 0}
           inTime(s) == /\ ToSet(s) = paid
                         /\ \A i, j \in DOMAIN s : i < j => m[s[i]].last <= m[s[j]].last
           inOrder == CHOOSE s \in [1 .. Cardinality(paid) -> paid] : inTime(s)
           returns == [i \in DOMAIN inOrder |-> (100 * m[inOrder[i]].net) \div m[inOrder[i]].cost]
<1>1. Compute(acts) = Rating(m, done, paid)
  <2>1. DoneOf(acts) = {c \in DOMAIN m : resolved(m[c])}
    BY DEF DoneOf
  <2>2. PaidOf(acts) = {c \in DoneOf(acts) : m[c].cost > 0}
    BY DEF PaidOf
  <2>3. MarketsOf(acts) = [c \in {acts[i].market : i \in DOMAIN acts} |-> market(acts, c)]
    BY DEF MarketsOf
  <2>4. QED
    BY <2>1, <2>2, <2>3 DEF Compute
<1>2. {c \in paid : m[c].cost > 0} = paid
  BY MarketsAreNumbers
<1>3. /\ Rating(m, done, paid).resolved = Cardinality(done)
      /\ Rating(m, done, paid).traded = Cardinality(DOMAIN m)
      /\ Rating(m, done, paid).winRate =
           IF done = {} THEN 0 ELSE (100 * Cardinality(wins)) \div Cardinality(done)
      /\ Rating(m, done, paid).pnl = ProfitOf(acts)
      /\ Rating(m, done, paid).roi =
           IF CapitalOf(acts) > 0 THEN (100 * ProfitOf(acts)) \div CapitalOf(acts) ELSE 0
  BY DEF Rating, ProfitOf, CapitalOf
<1>4. Rating(m, done, paid).returns = returns
  <2> DEFINE priced == {c \in paid : m[c].cost > 0}
             ordered == CHOOSE s \in [1 .. Cardinality(priced) -> priced] :
                          /\ ToSet(s) = priced
                          /\ \A i, j \in DOMAIN s : i < j => m[s[i]].last <= m[s[j]].last
  <2>1. Rating(m, done, paid).returns =
          [i \in DOMAIN ordered |-> (100 * m[ordered[i]].net) \div m[ordered[i]].cost]
    BY DEF Rating
  <2>2. ordered = inOrder
    BY <1>2
  <2> HIDE DEF ordered, inOrder
  <2>3. QED
    BY <2>1, <2>2
<1>5. \E s \in [1 .. Cardinality(paid) -> paid] : inTime(s)
  <2> DEFINE f == [c \in paid |-> m[c].last]
  <2>1. \A c \in paid : f[c] \in Int
    BY MarketsAreNumbers
  <2>2. PICK s \in [1 .. Cardinality(paid) -> paid] :
           /\ ToSet(s) = paid
           /\ \A i, j \in DOMAIN s : i < j => f[s[i]] <= f[s[j]]
    <3> HIDE DEF f, paid
    <3>1. IsFiniteSet(paid)
      BY MarketsAreNumbers DEF paid
    <3>2. QED
      BY <2>1, <3>1, CanBeListed
  <2>3. \A i \in DOMAIN s : f[s[i]] = m[s[i]].last
    OBVIOUS
  <2> HIDE DEF f, paid, m
  <2>4. QED
    BY <2>2, <2>3
<1> HIDE DEF inTime
<1>6. inOrder \in [1 .. Cardinality(paid) -> paid] /\ inTime(inOrder)
  BY <1>5
<1> HIDE DEF inOrder
<1>7. Cardinality(paid) \in Nat
  <2>1. IsFiniteSet(PaidOf(acts))
    BY MarketsAreNumbers
  <2>2. QED
    BY <2>1, FS_CardinalityType
<1>8. returns = [i \in 1 .. Cardinality(paid) |-> ReturnOf(acts, inOrder[i])]
  BY <1>6 DEF ReturnOf
<1>9. \A c \in paid : ReturnOf(acts, c) \in Int
  <2> TAKE c \in paid
  <2>1. MarketsOf(acts)[c].net \in Int /\ MarketsOf(acts)[c].cost \in Int
        /\ MarketsOf(acts)[c].cost > 0
    BY MarketsAreNumbers
  <2>2. QED
    BY <2>1 DEF ReturnOf
<1> HIDE DEF returns, paid
<1>10. returns \in Seq(Int)
  BY <1>6, <1>7, <1>8, <1>9
<1>11. ToSet(returns) = {ReturnOf(acts, c) : c \in paid}
  <2>1. {inOrder[i] : i \in 1 .. Cardinality(paid)} = paid
    BY <1>6 DEF inTime, ToSet
  <2>2. ToSet(returns) = {ReturnOf(acts, inOrder[i]) : i \in 1 .. Cardinality(paid)}
    BY <1>8 DEF ToSet
  <2>3. QED
    BY <2>1, <2>2
<1>12. QED
  <2>1. wins \in SUBSET done
    OBVIOUS
  <2> HIDE DEF wins, done, m
  <2>2. /\ Compute(acts).resolved = Cardinality(done)
        /\ Compute(acts).traded = Cardinality(DOMAIN m)
        /\ \E W \in SUBSET done : Compute(acts).winRate =
             IF done = {} THEN 0 ELSE (100 * Cardinality(W)) \div Cardinality(done)
        /\ Compute(acts).pnl = ProfitOf(acts)
        /\ Compute(acts).roi =
             IF CapitalOf(acts) > 0 THEN (100 * ProfitOf(acts)) \div CapitalOf(acts) ELSE 0
        /\ Compute(acts).returns = returns
    BY <1>1, <1>3, <1>4, <2>1
  <2>3. QED
    BY <1>10, <1>11, <2>2 DEF done, m, paid

(* The profit and the capital are numbers, and the return on the capital   *)
(* lies between the worst and the best of the markets that count.          *)
LEMMA ReturnLiesBetween ==
    ASSUME NEW acts, IsActivity(acts)
    PROVE  /\ ProfitOf(acts) \in Int /\ CapitalOf(acts) \in Int
           /\ PaidOf(acts) = {} => ProfitOf(acts) = 0 /\ CapitalOf(acts) = 0
           /\ \A low, high \in Int :
                /\ PaidOf(acts) # {}
                /\ \A c \in PaidOf(acts) : low <= ReturnOf(acts, c) /\ ReturnOf(acts, c) <= high
                => /\ CapitalOf(acts) > 0
                   /\ low <= (100 * ProfitOf(acts)) \div CapitalOf(acts)
                   /\ (100 * ProfitOf(acts)) \div CapitalOf(acts) <= high
<1> DEFINE m == MarketsOf(acts)
           paid == PaidOf(acts)
           net == [c \in paid |-> m[c].net]
           cost == [c \in paid |-> m[c].cost]
<1>1. /\ IsFiniteSet(paid)
      /\ \A c \in paid : net[c] \in Int /\ cost[c] \in Nat \ {0}
  <2>1. \A c \in paid : m[c].net \in Int /\ m[c].cost \in Int /\ m[c].cost > 0
    BY MarketsAreNumbers
  <2>2. \A c \in paid : m[c].cost \in Nat \ {0}
    BY <2>1
  <2>3. IsFiniteSet(paid)
    BY MarketsAreNumbers
  <2>4. QED
    BY <2>1, <2>2, <2>3
<1>2. ProfitOf(acts) = SumFunctionOnSet(net, paid) /\ CapitalOf(acts) = SumFunctionOnSet(cost, paid)
  BY DEF ProfitOf, CapitalOf
<1>3. \A c \in paid : ReturnOf(acts, c) = (100 * net[c]) \div cost[c]
  BY DEF ReturnOf
<1> HIDE DEF m, paid, net, cost
<1>4. ProfitOf(acts) \in Int /\ CapitalOf(acts) \in Nat
  <2>1. SumFunctionOnSet(net, paid) \in Int
    BY <1>1, SumType
  <2>2. SumFunctionOnSet(cost, paid) \in Nat
    BY <1>1, SumType
  <2>3. QED
    BY <1>2, <2>1, <2>2
<1>5. paid = {} => ProfitOf(acts) = 0 /\ CapitalOf(acts) = 0
  BY <1>2, SumOfNone
<1>6. ASSUME NEW low \in Int, NEW high \in Int, paid # {},
             \A c \in paid : low <= ReturnOf(acts, c) /\ ReturnOf(acts, c) <= high
      PROVE  /\ CapitalOf(acts) > 0
             /\ low <= (100 * ProfitOf(acts)) \div CapitalOf(acts)
             /\ (100 * ProfitOf(acts)) \div CapitalOf(acts) <= high
  <2> DEFINE worst == [c \in paid |-> low * cost[c]]
             best == [c \in paid |-> (high + 1) * cost[c]]
             hundred == [c \in paid |-> 100 * net[c]]
             N == ProfitOf(acts)
             C == CapitalOf(acts)
  <2>1. C > 0
    <3>1. PICK c \in paid : TRUE
      BY <1>6
    <3>2. cost[c] <= SumFunctionOnSet(cost, paid)
      BY <1>1, SumCoversPart
    <3>3. QED
      BY <1>1, <1>2, <1>4, <3>2
  <2>2. ASSUME NEW c \in paid
        PROVE  /\ worst[c] \in Int /\ best[c] \in Int /\ hundred[c] \in Int
               /\ worst[c] <= hundred[c] /\ hundred[c] < best[c]
    <3>1. PICK n \in Int, k \in Nat \ {0}, r \in Int :
            /\ n = net[c] /\ k = cost[c] /\ r = ReturnOf(acts, c)
            /\ r = (100 * n) \div k
      BY <1>1, <1>3
    <3>2. k * r <= 100 * n /\ 100 * n < k * r + k
      <4>1. PICK a \in Int : a = 100 * n
        OBVIOUS
      <4>2. k * (a \div k) <= a /\ a < k * (a \div k) + k
        OBVIOUS
      <4>3. QED
        BY <3>1, <4>1, <4>2
    <3>3. low <= r /\ r <= high
      BY <1>6, <3>1
    <3>4. k * low <= k * r /\ k * r <= k * high /\ k * low \in Int /\ k * high \in Int /\ k * r \in Int
      BY <3>3, TimesGrows
    <3>5. low * k = k * low /\ (high + 1) * k = k * high + k
      OBVIOUS
    <3>6. worst[c] = low * k /\ best[c] = (high + 1) * k /\ hundred[c] = 100 * n
      BY <3>1
    <3>7. QED
      BY <3>2, <3>4, <3>5, <3>6
  <2>3. /\ SumFunctionOnSet(worst, paid) = low * C
        /\ SumFunctionOnSet(best, paid) = (high + 1) * C
        /\ SumFunctionOnSet(hundred, paid) = 100 * N
    <3>1. \A c \in paid : cost[c] \in Int
      BY <1>1
    <3>2. \A c \in paid : /\ worst[c] = low * cost[c] + 0 * cost[c]
                          /\ best[c] = (high + 1) * cost[c] + 0 * cost[c]
                          /\ hundred[c] = 100 * net[c] + 0 * net[c]
      BY <3>1, <1>1
    <3> HIDE DEF worst, best, hundred
    <3>3. SumFunctionOnSet(worst, paid) = low * C + 0 * C
      BY <1>1, <1>2, <3>1, <3>2, SumIsLinear
    <3>4. SumFunctionOnSet(best, paid) = (high + 1) * C + 0 * C
      BY <1>1, <1>2, <3>1, <3>2, SumIsLinear
    <3>5. SumFunctionOnSet(hundred, paid) = 100 * N + 0 * N
      BY <1>1, <1>2, <3>1, <3>2, SumIsLinear
    <3>6. QED
      BY <1>4, <3>3, <3>4, <3>5
  <2>4. low * C <= 100 * N /\ 100 * N < (high + 1) * C
    <3> HIDE DEF worst, best, hundred
    <3>1. SumFunctionOnSet(worst, paid) <= SumFunctionOnSet(hundred, paid)
      BY <1>1, <2>2, SumOfLess
    <3>2. \A c \in paid : hundred[c] <= best[c] /\ hundred[c] < best[c]
      BY <2>2
    <3>3. PICK c \in paid : TRUE
      BY <1>6
    <3>4. SumFunctionOnSet(hundred, paid) < SumFunctionOnSet(best, paid)
      BY <1>1, <2>2, <3>2, <3>3, SumOfLess
    <3>5. QED
      BY <2>3, <3>1, <3>4
  <2>5. PICK a \in Int, b \in Nat \ {0}, q \in Int :
           /\ a = 100 * N /\ b = C /\ q = a \div b
           /\ low * b <= a /\ a < (high + 1) * b
    BY <1>4, <2>1, <2>4
  <2>6. b * q <= a /\ a < b * q + b
    <3>1. b * (a \div b) <= a /\ a < b * (a \div b) + b
      OBVIOUS
    <3>2. QED
      BY <2>5, <3>1
  <2>7. ASSUME q < low PROVE FALSE
    <3>1. b * (q + 1) <= b * low
      BY <2>7, TimesGrows
    <3>2. b * (q + 1) = b * q + b /\ b * low = low * b /\ b * q \in Int
      OBVIOUS
    <3>3. QED
      BY <2>5, <2>6, <3>1, <3>2
  <2>8. ASSUME high < q PROVE FALSE
    <3>1. b * (high + 1) <= b * q
      BY <2>8, TimesGrows
    <3>2. b * (high + 1) = (high + 1) * b
      OBVIOUS
    <3>3. QED
      BY <2>5, <2>6, <3>1, <3>2
  <2>9. QED
    BY <2>1, <2>5, <2>7, <2>8
<1>7. QED
  BY <1>4, <1>5, <1>6 DEF paid

(* So a rating can be compared.                                            *)
LEMMA RatingsAreNumbers == \A w \in Wallets : \A r \in Ratings[w] : IsRating(r)
<1> SUFFICES ASSUME NEW w \in Wallets, NEW r \in Ratings[w] PROVE IsRating(r)
  OBVIOUS
<1>1. PICK history \in Histories[w] : r = Rated(history)
  BY DEF Ratings
<1> DEFINE acts == Activity(history)
           s == Compute(acts)
<1>2. IsActivity(acts)
  BY HistoryIsActivity
<1> HIDE DEF acts
<1>3. IsFiniteSet(DoneOf(acts))
  BY <1>2, MarketsAreNumbers
<1>4. /\ Cardinality(DoneOf(acts)) \in Nat
      /\ DoneOf(acts) # {} => Cardinality(DoneOf(acts)) # 0
  BY <1>3, FS_CardinalityType, FS_EmptySet
<1>5. s.resolved \in Nat
  BY <1>2, <1>4, RatingConsistsOf
<1>6. s.winRate \in Int
  <2>1. PICK wins \in SUBSET DoneOf(acts) :
          s.winRate = IF DoneOf(acts) = {} THEN 0
                      ELSE (100 * Cardinality(wins)) \div Cardinality(DoneOf(acts))
    BY <1>2, RatingConsistsOf
  <2>2. IsFiniteSet(wins)
    BY <1>3, FS_Subset
  <2>3. Cardinality(wins) \in Nat
    BY <2>2, FS_CardinalityType
  <2>4. QED
    BY <1>4, <2>1, <2>3
<1>7. s.roi \in Int
  <2>1. s.roi = IF CapitalOf(acts) > 0 THEN (100 * ProfitOf(acts)) \div CapitalOf(acts) ELSE 0
    BY <1>2, RatingConsistsOf
  <2>2. ProfitOf(acts) \in Int /\ CapitalOf(acts) \in Int
    BY <1>2, ReturnLiesBetween
  <2>3. QED
    BY <2>1, <2>2
<1>8. QED
  BY <1>1, <1>5, <1>6, <1>7 DEF Rated, IsRating, acts
-----------------------------------------------------------------------------
(* What a rating promises.                                                 *)
(* A market that was redeemed, or sold out, is resolved; one of which more *)
(* than a thousandth is left, and that nobody redeemed, is not.            *)
LEMMA EndedAreResolved ==
    ASSUME NEW acts, IsActivity(acts),
           NEW redeemed,
           redeemed = {acts[i].market : i \in {j \in DOMAIN acts : acts[j].kind = "redeem"}},
           NEW ended,
           ended = redeemed \cup
                     {c \in DOMAIN MarketsOf(acts) :
                        /\ Shares(acts, c, "buy") = Shares(acts, c, "sell")
                        /\ Shares(acts, c, "buy") > 0},
           NEW open,
           open = {c \in DOMAIN MarketsOf(acts) \ redeemed :
                     1000 * (Shares(acts, c, "buy") - Shares(acts, c, "sell"))
                       > Shares(acts, c, "buy")}
    PROVE  /\ Cardinality(ended) <= Cardinality(DoneOf(acts))
           /\ Cardinality(DoneOf(acts)) + Cardinality(open) <= Cardinality(DOMAIN MarketsOf(acts))
<1> DEFINE M == DOMAIN MarketsOf(acts)
           done == DoneOf(acts)
<1>1. /\ IsFiniteSet(M) /\ IsFiniteSet(done) /\ done \in SUBSET M
      /\ M = {acts[i].market : i \in DOMAIN acts}
  BY MarketsAreNumbers
<1>2. ASSUME NEW c \in M
      PROVE  c \in done <=>
               \/ c \in redeemed
               \/ /\ Shares(acts, c, "buy") > 0
                  /\ 1000 * (Shares(acts, c, "buy") - Shares(acts, c, "sell"))
                       \in -Shares(acts, c, "buy") .. Shares(acts, c, "buy")
  <2>1. MarketsOf(acts)[c] = market(acts, c)
    BY <1>1 DEF MarketsOf
  <2>2. /\ market(acts, c).redeemed
             = (\E i \in DOMAIN acts : acts[i].market = c /\ acts[i].kind = "redeem")
        /\ market(acts, c).bought = Shares(acts, c, "buy")
        /\ market(acts, c).held = Shares(acts, c, "buy") - Shares(acts, c, "sell")
    BY DEF market
  <2>3. c \in done <=> resolved(market(acts, c))
    BY <2>1 DEF DoneOf
  <2>4. (\E i \in DOMAIN acts : acts[i].market = c /\ acts[i].kind = "redeem") <=> c \in redeemed
    OBVIOUS
  <2>5. QED
    BY <2>2, <2>3, <2>4 DEF resolved
<1>3. \A c : Shares(acts, c, "buy") \in Int /\ Shares(acts, c, "sell") \in Int
  BY AmountsAreNumbers
<1>4. ended \subseteq M /\ open \subseteq M
  BY <1>1
<1> HIDE DEF M, done
<1>5. \A x, y \in Int : x = y /\ x > 0 => 1000 * (x - y) \in -x .. x
  OBVIOUS
<1>6. \A x, y \in Int : 1000 * (x - y) > x => ~(1000 * (x - y) \in -x .. x)
  OBVIOUS
<1>7. ended \in SUBSET done
  <2>1. \A c \in ended : c \in M
    BY <1>4
  <2>2. QED
    BY <1>2, <1>3, <1>5, <2>1 DEF M
<1>8. done \cap open = {}
  <2>1. \A c \in open : c \in M /\ c \notin redeemed
    BY <1>4 DEF M
  <2>2. \A c \in open : 1000 * (Shares(acts, c, "buy") - Shares(acts, c, "sell"))
                          > Shares(acts, c, "buy")
    OBVIOUS
  <2>3. QED
    BY <1>2, <1>3, <1>6, <2>1, <2>2
<1>9. Cardinality(ended) <= Cardinality(done)
  BY <1>1, <1>7, FS_Subset
<1>10. Cardinality(done) + Cardinality(open) <= Cardinality(M)
  <2>1. IsFiniteSet(open) /\ done \cup open \in SUBSET M
    BY <1>1, <1>4, FS_Subset
  <2>2. Cardinality(done \cup open) <= Cardinality(M)
    BY <1>1, <2>1, FS_Subset
  <2>3. Cardinality(done \cup open)
          = Cardinality(done) + Cardinality(open) - Cardinality(done \cap open)
    BY <1>1, <2>1, FS_Union
  <2>4. Cardinality(done \cap open) = 0
    BY <1>8, FS_EmptySet
  <2>5. Cardinality(done) \in Nat /\ Cardinality(open) \in Nat
    BY <1>1, <2>1, FS_CardinalityType
  <2>6. QED
    BY <2>2, <2>3, <2>4, <2>5
<1>11. QED
  BY <1>9, <1>10 DEF M, done

(* The whole root of a number is a number.                                 *)
LEMMA RootIsNumber == \A v \in Nat : Root(v) \in Nat
<1> TAKE v \in Nat
<1> DEFINE S == {x \in 0 .. v : x * x <= v}
           id == [x \in S |-> x]
<1>1. IsFiniteSet(0 .. v)
  BY FS_Interval
<1>2. IsFiniteSet(S) /\ 0 \in S
  BY <1>1, FS_Subset
<1>3. \A x \in S : id[x] \in Int /\ id[x] = x /\ x \in Nat
  OBVIOUS
<1> HIDE DEF id
<1>4. PICK m \in S : \A x \in S : x <= m
  <2> HIDE DEF S
  <2>1. PICK m \in S : \A x \in S : id[x] <= id[m]
    BY <1>2, <1>3, HasGreatest
  <2>2. QED
    BY <1>3, <2>1
<1>5. PICK n \in Nat : n = m /\ n <= v /\ n * n <= v
  OBVIOUS
<1>6. v < (n + 1) * (n + 1)
  <2>1. CASE n = v
    <3>1. (n + 1) * (n + 1) = n * n + 2 * n + 1 /\ n * n \in Nat
      OBVIOUS
    <3>2. QED
      BY <1>5, <2>1, <3>1
  <2>2. CASE n # v
    <3>1. n + 1 \in 0 .. v /\ n + 1 \notin S
      BY <1>4, <1>5, <2>2
    <3>2. (n + 1) * (n + 1) \in Int
      OBVIOUS
    <3>3. QED
      BY <3>1, <3>2
  <2>3. QED
    BY <2>1, <2>2
<1>7. \E x \in 0 .. v : x * x <= v /\ v < (x + 1) * (x + 1)
  BY <1>5, <1>6
<1>8. Root(v) \in 0 .. v
  BY <1>7 DEF Root
<1>9. QED
  BY <1>8

(* A quotient by a positive number has the sign of what is divided.        *)
LEMMA QuotientIsPositive ==
    ASSUME NEW a \in Int, NEW b \in Nat \ {0}
    PROVE  a \div b \in Int /\ (a >= 0 => a \div b >= 0)
<1>1. PICK q \in Int : q = a \div b /\ b * q <= a /\ a < b * q + b
  OBVIOUS
<1>2. ASSUME a >= 0, q < 0 PROVE FALSE
  <2>1. b * q <= b * (-1)
    BY <1>2, TimesGrows
  <2>2. b * (-1) = -b /\ b * q \in Int
    OBVIOUS
  <2>3. QED
    BY <1>1, <1>2, <2>1, <2>2
<1>3. QED
  BY <1>1, <1>2

(* One step of the CUSUM, and a function that is it for some of the        *)
(* returns.                                                                *)
CusumStep(mean, sd, lo, r) == Max({0, lo - Clamped((10 * (r - mean)) \div sd) - CusumK})

Cusums(g, returns, mean, sd, S) ==
    g = [s \in SUBSET S |->
           IF s = {} THEN 0
           ELSE CusumStep(mean, sd, g[s \ {Max(s)}], returns[Max(s)])]

(* The operator of the model is such a function for all of them.           *)
LEMMA CusumIsOf ==
    ASSUME NEW returns
    PROVE  LET n == Len(returns)
               mean == SumOf(returns) \div n
               sd == Root(SumOf([i \in 1 .. n |->
                            (returns[i] - mean) * (returns[i] - mean)]) \div n)
           IN Cusum(returns) =
                IF sd = 0 THEN 0
                ELSE (CHOOSE g : Cusums(g, returns, mean, sd, DOMAIN returns))[DOMAIN returns]
BY Zenon DEF Cusum, FoldLeft, MapThenFoldSet, Cusums, CusumStep

(* One step stays at zero or above; only a return below the mean takes it  *)
(* up, and by no more than the clamp less the slack.                       *)
LEMMA CusumStepIs ==
    ASSUME NEW mean \in Int, NEW sd \in Nat \ {0}, NEW lo \in Nat, NEW r \in Int
    PROVE  /\ CusumStep(mean, sd, lo, r) \in Nat
           /\ mean <= r => CusumStep(mean, sd, lo, r) <= lo
           /\ lo = 0 => CusumStep(mean, sd, lo, r) <= CusumH
<1>1. CusumK \in Nat /\ CusumH \in Nat /\ CusumClamp \in Nat /\ CusumClamp - CusumK <= CusumH
  BY SelectionAssumption
<1> DEFINE q == (10 * (r - mean)) \div sd
           z == Clamped(q)
           next == lo - z - CusumK
<1>2. q \in Int /\ (mean <= r => q >= 0)
  <2>1. PICK a \in Int : a = 10 * (r - mean) /\ (mean <= r => a >= 0)
    OBVIOUS
  <2>2. QED
    BY <2>1, QuotientIsPositive
<1> HIDE DEF q
<1>3. z \in Int /\ -CusumClamp <= z /\ (mean <= r => z >= 0)
  BY <1>1, <1>2 DEF Clamped
<1> HIDE DEF z
<1>4. next \in Int
  BY <1>1, <1>3
<1>5. CusumStep(mean, sd, lo, r) = Max({0, next})
  BY DEF CusumStep, z, q
<1>6. Max({0, next}) = IF next > 0 THEN next ELSE 0
  <2> HIDE DEF next
  <2>1. {0, next} \in SUBSET Int /\ {0, next} # {} /\ IsFiniteSet({0, next})
    <3>1. IsFiniteSet({0})
      BY FS_Singleton
    <3>2. IsFiniteSet({0} \cup {next})
      BY <3>1, FS_AddElement
    <3>3. {0, next} = {0} \cup {next}
      OBVIOUS
    <3>4. IsFiniteSet({0, next})
      BY <3>2, <3>3
    <3>5. {0, next} \in SUBSET Int /\ {0, next} # {}
      BY <1>4
    <3>6. QED
      BY <3>4, <3>5
  <2>2. Max({0, next}) \in {0, next} /\ \A x \in {0, next} : x <= Max({0, next})
    BY <2>1, ExtremesAre
  <2>3. QED
    BY <1>4, <2>2
<1>7. QED
  BY <1>1, <1>3, <1>4, <1>5, <1>6

(* There is such a function for every sequence: it is found for the first  *)
(* k returns from the one for the first k - 1.                             *)
LEMMA CusumsExist ==
    ASSUME NEW returns, NEW mean, NEW sd, NEW n \in Nat
    PROVE  \E g : Cusums(g, returns, mean, sd, 1 .. n)
<1> DEFINE Good(k) == \E g : Cusums(g, returns, mean, sd, 1 .. k)
           Bad == {k \in 0 .. n : ~Good(k)}
           id == [k \in Bad |-> k]
<1>1. SUFFICES ASSUME Bad # {} PROVE FALSE
  <2>1. n \in 0 .. n
    OBVIOUS
  <2>2. QED
    BY <1>1, <2>1
<1>2. IsFiniteSet(Bad)
  <2>1. IsFiniteSet(0 .. n)
    BY FS_Interval
  <2> HIDE DEF Good
  <2>2. QED
    BY <2>1, FS_Subset
<1>3. \A k \in Bad : id[k] \in Int /\ id[k] = k /\ k \in Nat
  OBVIOUS
<1> HIDE DEF id, Good
<1>4. PICK k \in Bad : \A j \in Bad : k <= j
  <2> HIDE DEF Bad
  <2>1. PICK k \in Bad : \A j \in Bad : id[k] <= id[j]
    BY <1>1, <1>2, <1>3, HasLeast
  <2>2. QED
    BY <1>3, <2>1
<1>5. k \in Nat /\ k <= n /\ ~Good(k)
  OBVIOUS
<1>6. k # 0
  <2>1. ASSUME k = 0 PROVE FALSE
    <3> DEFINE g == [s \in SUBSET {} |-> 0]
    <3>1. 1 .. k = {}
      BY <2>1
    <3>2. \A s \in SUBSET {} : s = {}
      OBVIOUS
    <3>3. Cusums(g, returns, mean, sd, {})
      BY <3>2 DEF Cusums
    <3> HIDE DEF g
    <3>4. Good(k)
      BY <3>1, <3>3 DEF Good
    <3>5. QED
      BY <1>5, <3>4
  <2>2. QED
    BY <2>1
<1>7. k - 1 \in Nat /\ k - 1 \notin Bad
  BY <1>4, <1>5, <1>6
<1>8. PICK h : Cusums(h, returns, mean, sd, 1 .. k - 1)
  BY <1>5, <1>7 DEF Good
<1> DEFINE g == [s \in SUBSET (1 .. k) |->
                   IF k \in s THEN CusumStep(mean, sd, h[s \ {k}], returns[k]) ELSE h[s]]
<1>9. ASSUME NEW s \in SUBSET (1 .. k - 1) PROVE s \in SUBSET (1 .. k) /\ g[s] = h[s]
  <2>1. k \notin s /\ s \in SUBSET (1 .. k)
    BY <1>5
  <2>2. QED
    BY <2>1
<1>10. ASSUME NEW s \in SUBSET (1 .. k), s # {}
       PROVE  g[s] = CusumStep(mean, sd, g[s \ {Max(s)}], returns[Max(s)])
  <2>1. IsFiniteSet(s) /\ \A x \in s : x \in Int /\ 1 <= x /\ x <= k
    <3>1. IsFiniteSet(1 .. k)
      BY <1>5, FS_Interval
    <3>2. IsFiniteSet(s)
      BY <3>1, FS_Subset
    <3>3. \A x \in 1 .. k : x \in Int /\ 1 <= x /\ x <= k
      BY <1>5
    <3>4. QED
      BY <3>2, <3>3
  <2>2. Max(s) \in s /\ \A x \in s : x <= Max(s)
    <3>1. s \in SUBSET Int
      BY <2>1
    <3>2. QED
      BY <1>10, <2>1, <3>1, ExtremesAre
  <2>3. CASE k \in s
    <3>1. Max(s) = k
      <4>1. k <= Max(s) /\ Max(s) <= k /\ Max(s) \in Int
        BY <2>1, <2>2, <2>3
      <4>2. QED
        BY <1>5, <4>1
    <3>2. s \ {k} \in SUBSET (1 .. k - 1)
      BY <1>5
    <3>3. g[s \ {k}] = h[s \ {k}]
      BY <1>9, <3>2
    <3>4. g[s] = CusumStep(mean, sd, h[s \ {k}], returns[k])
      BY <2>3
    <3>5. QED
      BY <3>1, <3>3, <3>4
  <2>4. CASE k \notin s
    <3>1. s \in SUBSET (1 .. k - 1) /\ s \ {Max(s)} \in SUBSET (1 .. k - 1)
      <4>1. \A x \in s : x \in 1 .. k - 1
        BY <1>5, <2>1, <2>4
      <4>2. QED
        BY <4>1
    <3>2. h[s] = CusumStep(mean, sd, h[s \ {Max(s)}], returns[Max(s)])
      BY <1>8, <1>10, <3>1 DEF Cusums
    <3>3. g[s] = h[s] /\ g[s \ {Max(s)}] = h[s \ {Max(s)}]
      BY <1>9, <3>1
    <3>4. QED
      BY <3>2, <3>3
  <2>5. QED
    BY <2>3, <2>4
<1>11. g[{}] = 0
  <2>1. {} \in SUBSET (1 .. k - 1) /\ h[{}] = 0
    BY <1>8 DEF Cusums
  <2>2. QED
    BY <1>9, <2>1
<1>12. g = [s \in SUBSET (1 .. k) |-> g[s]]
  OBVIOUS
<1> HIDE DEF g
<1>13. Cusums(g, returns, mean, sd, 1 .. k)
  <2>1. \A s \in SUBSET (1 .. k) :
           g[s] = IF s = {} THEN 0 ELSE CusumStep(mean, sd, g[s \ {Max(s)}], returns[Max(s)])
    BY <1>10, <1>11
  <2>2. QED
    BY <1>12, <2>1 DEF Cusums
<1>14. QED
  BY <1>5, <1>13 DEF Good

(* Over returns of which none is bad it stays at zero, and over returns of *)
(* which one is it stays within the threshold.                             *)
LEMMA CusumStaysLow ==
    ASSUME NEW n \in Nat, NEW returns, \A i \in 1 .. n : returns[i] \in Int,
           NEW mean \in Int, NEW sd \in Nat \ {0},
           NEW bad, \A i \in 1 .. n : i \notin bad => mean <= returns[i],
           NEW g, Cusums(g, returns, mean, sd, 1 .. n)
    PROVE  \A s \in SUBSET (1 .. n) :
              /\ g[s] \in Nat
              /\ s \cap bad = {} => g[s] = 0
              /\ \A b : s \cap bad \subseteq {b} => g[s] <= CusumH
<1> DEFINE Low(s) == /\ g[s] \in Nat
                     /\ s \cap bad = {} => g[s] = 0
                     /\ \A b : s \cap bad \subseteq {b} => g[s] <= CusumH
           Bad == {s \in SUBSET (1 .. n) : ~Low(s)}
<1>1. SUFFICES ASSUME Bad # {} PROVE FALSE
  OBVIOUS
<1>2. IsFiniteSet(1 .. n)
  BY FS_Interval
<1> HIDE DEF Low
<1>3. PICK s \in Bad : \A r \in Bad : r \subseteq s => r = s
  <2> DEFINE F == 1 .. n
  <2>1. Bad \in SUBSET SUBSET F /\ IsFiniteSet(F)
    BY <1>2
  <2> HIDE DEF Bad, F
  <2>2. QED
    BY <1>1, <2>1, SmallestSubset
<1>4. s \in SUBSET (1 .. n) /\ ~Low(s)
  OBVIOUS
<1>5. CusumH \in Nat
  BY SelectionAssumption
<1>6. s # {}
  <2>1. g[{}] = 0
    <3>1. {} \in SUBSET (1 .. n)
      OBVIOUS
    <3>2. QED
      BY <3>1 DEF Cusums
  <2>2. Low({})
    BY <1>5, <2>1 DEF Low
  <2>3. QED
    BY <1>4, <2>2
<1> DEFINE m == Max(s)
           r == s \ {m}
<1>7. m \in s
  <2>1. IsFiniteSet(s)
    BY <1>2, <1>4, FS_Subset
  <2>2. s \in SUBSET Int
    BY <1>4
  <2>3. QED
    BY <1>6, <2>1, <2>2, ExtremesAre
<1>8. g[s] = CusumStep(mean, sd, g[r], returns[m])
  BY <1>4, <1>6 DEF Cusums
<1> HIDE DEF m
<1>9. r \in SUBSET (1 .. n) /\ r # s /\ r \subseteq s /\ returns[m] \in Int /\ m \in 1 .. n
  BY <1>4, <1>7
<1>10. Low(r)
  <2>1. r \notin Bad
    BY <1>3, <1>9
  <2>2. QED
    BY <1>9, <2>1
<1> HIDE DEF Bad, r
<1>11. /\ g[s] \in Nat
       /\ mean <= returns[m] => g[s] <= g[r]
       /\ g[r] = 0 => g[s] <= CusumH
  <2>1. PICK lo \in Nat, x \in Int : lo = g[r] /\ x = returns[m]
    BY <1>9, <1>10 DEF Low
  <2>2. /\ CusumStep(mean, sd, lo, x) \in Nat
        /\ mean <= x => CusumStep(mean, sd, lo, x) <= lo
        /\ lo = 0 => CusumStep(mean, sd, lo, x) <= CusumH
    BY CusumStepIs
  <2>3. QED
    BY <1>8, <2>1, <2>2
<1>12. g[r] \in Nat
  BY <1>10 DEF Low
<1>13. Low(s)
  <2>1. CASE m \in bad
    <3>1. s \cap bad # {}
      BY <1>7, <2>1
    <3>2. ASSUME NEW b, s \cap bad \subseteq {b} PROVE g[s] <= CusumH
      <4>1. r \cap bad = {}
        BY <1>7, <2>1, <3>2 DEF r
      <4>2. g[r] = 0
        BY <1>10, <4>1 DEF Low
      <4>3. QED
        BY <1>11, <4>2
    <3>3. QED
      BY <1>11, <3>1, <3>2 DEF Low
  <2>2. CASE m \notin bad
    <3>1. g[s] <= g[r]
      BY <1>9, <1>11, <2>2
    <3>2. r \cap bad = s \cap bad
      BY <2>2 DEF r
    <3>3. s \cap bad = {} => g[r] = 0
      BY <1>10, <3>2 DEF Low
    <3>4. \A b : s \cap bad \subseteq {b} => g[r] <= CusumH
      BY <1>10, <3>2 DEF Low
    <3>5. s \cap bad = {} => g[s] = 0
      BY <1>11, <1>12, <3>1, <3>3
    <3>6. ASSUME NEW b, s \cap bad \subseteq {b} PROVE g[s] <= CusumH
      <4>1. g[r] <= CusumH
        BY <3>4, <3>6
      <4>2. QED
        BY <1>5, <1>11, <1>12, <3>1, <4>1
    <3>7. QED
      BY <1>11, <3>5, <3>6 DEF Low
  <2>3. QED
    BY <2>1, <2>2
<1>14. QED
  BY <1>4, <1>13

(* A wallet is not cooled off by one market below its average.             *)
LEMMA OneBadMarketIsFresh ==
    ASSUME NEW returns \in Seq(Int),
           NEW bad,
           bad = {i \in DOMAIN returns : Len(returns) * returns[i] < SumOf(returns)},
           ~Fresh(returns)
    PROVE  Cardinality(bad) > 1
<1> DEFINE n == Len(returns)
           total == SumOf(returns)
           mean == total \div n
           off == [i \in 1 .. n |-> (returns[i] - mean) * (returns[i] - mean)]
           sd == Root(SumOf(off) \div n)
<1>1. n \in Nat /\ DOMAIN returns = 1 .. n /\ \A i \in 1 .. n : returns[i] \in Int
  OBVIOUS
<1>2. ~(Cusum(returns) <= CusumH) /\ ~(n < FreshMinSamples)
  BY DEF Fresh
<1>3. FreshMinSamples \in Nat \ {0} /\ CusumH \in Nat
  BY SelectionAssumption
<1>4. n \in Nat \ {0}
  BY <1>1, <1>2, <1>3
<1>5. IsFiniteSet(1 .. n)
  BY <1>1, FS_Interval
<1>6. total \in Int
  <2>1. total = SumFunctionOnSet(returns, 1 .. n)
    BY <1>1 DEF SumOf
  <2> HIDE DEF total, n
  <2>2. QED
    BY <1>1, <1>5, <2>1, SumType
<1> HIDE DEF n, total
<1>7. mean \in Int /\ n * mean <= total
  <2>1. PICK a \in Int, b \in Nat \ {0} : a = total /\ b = n
    BY <1>4, <1>6
  <2>2. a \div b \in Int /\ b * (a \div b) <= a
    OBVIOUS
  <2>3. QED
    BY <2>1, <2>2
<1> HIDE DEF mean
<1>8. SumOf(off) \in Nat
  <2>1. \A a \in Int : a * a \in Nat
    <3>1. \A a \in Int : a * a \in Int /\ a * a >= 0
      OBVIOUS
    <3>2. QED
      BY <3>1
  <2>2. \A i \in 1 .. n : returns[i] - mean \in Int
    BY <1>1, <1>7
  <2>3. \A i \in 1 .. n : off[i] \in Nat
    BY <2>1, <2>2
  <2>4. SumOf(off) = SumFunctionOnSet(off, 1 .. n)
    BY DEF SumOf
  <2> HIDE DEF off
  <2>5. QED
    BY <1>5, <2>3, <2>4, SumType
<1>9. sd \in Nat
  <2> HIDE DEF off
  <2>1. SumOf(off) \div n \in Nat
    <3>1. PICK a \in Nat, b \in Nat \ {0} : a = SumOf(off) /\ b = n
      BY <1>4, <1>8
    <3>2. a \div b \in Int /\ (a >= 0 => a \div b >= 0)
      BY QuotientIsPositive
    <3>3. QED
      BY <3>1, <3>2
  <2>2. QED
    BY <2>1, RootIsNumber
<1>10. sd # 0
  <2>1. ASSUME sd = 0 PROVE FALSE
    <3>1. Cusum(returns) = 0
      BY <2>1, CusumIsOf DEF sd, off, mean, total, n
    <3>2. QED
      BY <1>2, <1>3, <3>1
  <2>2. QED
    BY <2>1
<1> DEFINE G == CHOOSE g : Cusums(g, returns, mean, sd, 1 .. n)
<1>11. Cusum(returns) = G[1 .. n]
  <2>1. Cusum(returns) =
          (CHOOSE g : Cusums(g, returns, mean, sd, DOMAIN returns))[DOMAIN returns]
    BY <1>10, CusumIsOf DEF sd, off, mean, total, n
  <2> HIDE DEF sd
  <2>2. QED
    BY <1>1, <2>1
<1> HIDE DEF sd
<1>12. Cusums(G, returns, mean, sd, 1 .. n)
  BY <1>1, CusumsExist
<1> HIDE DEF G
<1>13. \A i \in 1 .. n : i \notin bad => mean <= returns[i]
  <2> SUFFICES ASSUME NEW i \in 1 .. n, i \notin bad, returns[i] < mean PROVE FALSE
    BY <1>1, <1>7
  <2>1. PICK x \in Int, y \in Int, b \in Nat \ {0}, a \in Int :
           x = returns[i] /\ b = n /\ a = mean /\ y = x + 1 /\ y <= a
    BY <1>1, <1>4, <1>7
  <2>2. b * y <= b * a
    BY <2>1, TimesGrows
  <2>3. b * y = b * x + b /\ b * x \in Int /\ b * a \in Int
    <3>1. b * (x + 1) = b * x + b /\ b * x \in Int /\ b * a \in Int
      OBVIOUS
    <3>2. QED
      BY <2>1, <3>1
  <2>4. n * returns[i] < total
    <3>1. PICK p \in Int, q \in Int : p = b * x /\ q = b * a
      BY <2>3
    <3>2. q <= total /\ p + b <= q
      BY <1>7, <2>1, <2>2, <2>3, <3>1
    <3>3. p < total
      BY <1>6, <3>2
    <3>4. QED
      BY <2>1, <3>1, <3>3
  <2>5. QED
    BY <1>1, <2>4 DEF n, total
<1>14. ASSUME NEW b, bad \subseteq {b} PROVE FALSE
  <2>1. 1 .. n \in SUBSET (1 .. n) /\ (1 .. n) \cap bad \subseteq {b}
    BY <1>14
  <2>2. G[1 .. n] <= CusumH
    BY <1>1, <1>7, <1>9, <1>10, <1>12, <1>13, <2>1, CusumStaysLow
  <2>3. QED
    BY <1>2, <1>11, <2>2
<1>15. IsFiniteSet(bad)
  <2>1. bad \in SUBSET (1 .. n)
    BY <1>1
  <2>2. QED
    BY <1>5, <2>1, FS_Subset
<1>16. Cardinality(bad) \in Nat
  BY <1>15, FS_CardinalityType
<1>17. Cardinality(bad) # 0
  BY <1>14, <1>15, FS_EmptySet
<1>18. Cardinality(bad) # 1
  BY <1>14, <1>15, FS_Singleton
<1>19. QED
  BY <1>16, <1>17, <1>18

(* Whatever the activity, a rating is sound.                               *)
LEMMA EveryRatingIsSound ==
    \A w \in Wallets : \A history \in Histories[w] : RatingIsSound(history)
<1> SUFFICES ASSUME NEW w \in Wallets, NEW history \in Histories[w]
             PROVE  RatingIsSound(history)
  OBVIOUS
<1> DEFINE acts == Activity(history)
           s == Compute(acts)
           returns == ToSet(s.returns)
           present == {acts[i].market : i \in DOMAIN acts}
           redeemed == {acts[i].market : i \in {j \in DOMAIN acts : acts[j].kind = "redeem"}}
           bought(c) == Shares(acts, c, "buy")
           sold(c) == Shares(acts, c, "sell")
           ended == redeemed \cup {c \in present : bought(c) = sold(c) /\ bought(c) > 0}
           open == {c \in present \ redeemed : 1000 * (bought(c) - sold(c)) > bought(c)}
           bad == {i \in DOMAIN s.returns : Len(s.returns) * s.returns[i] < SumOf(s.returns)}
<1>1. IsActivity(acts)
  BY HistoryIsActivity
<1> HIDE DEF acts
<1>2. /\ s.resolved = Cardinality(DoneOf(acts))
      /\ s.traded = Cardinality(DOMAIN MarketsOf(acts))
      /\ s.pnl = ProfitOf(acts)
      /\ s.roi = IF CapitalOf(acts) > 0 THEN (100 * ProfitOf(acts)) \div CapitalOf(acts) ELSE 0
      /\ s.returns \in Seq(Int)
      /\ returns = {ReturnOf(acts, c) : c \in PaidOf(acts)}
  BY <1>1, RatingConsistsOf
<1>3. returns # {} => Min(returns) <= s.roi /\ s.roi <= Max(returns)
  <2> SUFFICES ASSUME returns # {} PROVE Min(returns) <= s.roi /\ s.roi <= Max(returns)
    OBVIOUS
  <2>1. IsFiniteSet(returns) /\ returns \in SUBSET Int
    <3> DEFINE f == [c \in PaidOf(acts) |-> ReturnOf(acts, c)]
    <3>1. IsFiniteSet(PaidOf(acts))
      BY <1>1, MarketsAreNumbers
    <3>2. returns = {f[c] : c \in PaidOf(acts)}
      BY <1>2
    <3>3. returns \in SUBSET Int
      <4>1. PICK q \in Seq(Int) : q = s.returns
        BY <1>2
      <4>2. ToSet(q) \in SUBSET Int
        BY DEF ToSet
      <4>3. QED
        BY <4>1, <4>2
    <3> HIDE DEF returns, f
    <3>4. IsFiniteSet({f[c] : c \in PaidOf(acts)})
      BY <3>1, ImageIsFinite
    <3>5. QED
      BY <3>2, <3>3, <3>4
  <2> HIDE DEF returns
  <2>2. /\ Min(returns) \in returns /\ \A x \in returns : Min(returns) <= x
        /\ Max(returns) \in returns /\ \A x \in returns : x <= Max(returns)
    BY <2>1, ExtremesAre
  <2>3. PICK low \in Int, high \in Int : low = Min(returns) /\ high = Max(returns)
    BY <2>1, <2>2
  <2>4. /\ PaidOf(acts) # {}
        /\ \A c \in PaidOf(acts) : low <= ReturnOf(acts, c) /\ ReturnOf(acts, c) <= high
    BY <1>2, <2>2, <2>3
  <2>5. /\ CapitalOf(acts) > 0
        /\ low <= (100 * ProfitOf(acts)) \div CapitalOf(acts)
        /\ (100 * ProfitOf(acts)) \div CapitalOf(acts) <= high
    BY <1>1, <2>4, ReturnLiesBetween
  <2>6. QED
    BY <1>2, <2>3, <2>5
<1>4. returns = {} => s.roi = 0 /\ s.pnl = 0
  <2>1. returns = {} => PaidOf(acts) = {}
    BY <1>2
  <2>2. PaidOf(acts) = {} => ProfitOf(acts) = 0 /\ CapitalOf(acts) = 0
    BY <1>1, ReturnLiesBetween
  <2>3. ASSUME PaidOf(acts) = {} PROVE s.roi = 0 /\ s.pnl = 0
    <3>1. ProfitOf(acts) = 0 /\ ~(CapitalOf(acts) > 0)
      BY <2>2, <2>3
    <3> HIDE DEF s
    <3>2. QED
      BY <1>2, <3>1
  <2>4. QED
    BY <2>1, <2>3
<1>5. Cardinality(ended) <= s.resolved /\ s.resolved + Cardinality(open) <= s.traded
  <2>1. DOMAIN MarketsOf(acts) = present
    BY <1>1, MarketsAreNumbers
  <2>2. /\ Cardinality(ended) <= Cardinality(DoneOf(acts))
        /\ Cardinality(DoneOf(acts)) + Cardinality(open) <= Cardinality(DOMAIN MarketsOf(acts))
    <3>1. ended = redeemed \cup {c \in DOMAIN MarketsOf(acts) :
                    Shares(acts, c, "buy") = Shares(acts, c, "sell") /\ Shares(acts, c, "buy") > 0}
      BY <2>1
    <3>2. open = {c \in DOMAIN MarketsOf(acts) \ redeemed :
                    1000 * (Shares(acts, c, "buy") - Shares(acts, c, "sell"))
                      > Shares(acts, c, "buy")}
      BY <2>1
    <3>3. redeemed = {acts[i].market : i \in {j \in DOMAIN acts : acts[j].kind = "redeem"}}
      OBVIOUS
    <3> HIDE DEF ended, open, redeemed
    <3>4. QED
      BY <1>1, <3>1, <3>2, <3>3, EndedAreResolved
  <2>3. QED
    BY <1>2, <2>2
<1>6. ~Fresh(s.returns) => Cardinality(bad) > 1
  <2>1. PICK q \in Seq(Int) : q = s.returns
    BY <1>2
  <2>2. bad = {i \in DOMAIN q : Len(q) * q[i] < SumOf(q)}
    BY <2>1
  <2> HIDE DEF bad, s
  <2>3. ~Fresh(q) => Cardinality(bad) > 1
    BY <2>2, OneBadMarketIsFresh
  <2>4. QED
    BY <2>1, <2>3
<1>7. QED
  BY <1>3, <1>4, <1>5, <1>6 DEF RatingIsSound, acts
-----------------------------------------------------------------------------
(* What the population makes of it.                                        *)

(* An average weighted by whole numbers, rounded down.                     *)
LEMMA AverageBetween ==
    ASSUME NEW m \in Nat, NEW k \in Nat \ {0}, NEW x \in Int, NEW y \in Int, x <= y
    PROVE  /\ x <= (m * x + k * y) \div (m + k) /\ (m * x + k * y) \div (m + k) <= y
           /\ x <= (m * y + k * x) \div (m + k) /\ (m * y + k * x) \div (m + k) <= y
<1>1. /\ m * x \in Int /\ m * y \in Int /\ m * x <= m * y
      /\ k * x \in Int /\ k * y \in Int /\ k * x <= k * y
  BY TimesGrows
<1>2. (m + k) * x = m * x + k * x /\ (m + k) * y = m * y + k * y /\ m + k \in Nat \ {0}
  OBVIOUS
<1>3. /\ (m + k) * x <= m * x + k * y /\ m * x + k * y <= (m + k) * y
      /\ (m + k) * x <= m * y + k * x /\ m * y + k * x <= (m + k) * y
      /\ m * x + k * y \in Int /\ m * y + k * x \in Int
  BY <1>1, <1>2
<1>4. PICK b \in Nat \ {0}, a \in Int, c \in Int :
        b = m + k /\ a = m * x + k * y /\ c = m * y + k * x
  BY <1>2, <1>3
<1>5. b * x <= a /\ a <= b * y /\ b * x <= c /\ c <= b * y
  BY <1>3, <1>4
<1>6. x <= a \div b /\ a \div b <= y /\ x <= c \div b /\ c \div b <= y
  BY <1>5, QuotientBetween
<1>7. QED
  BY <1>4, <1>6

(* A population with numbers.                                              *)
IsPopulation(pop) ==
    /\ IsFiniteSet(DOMAIN pop)
    /\ \A w \in DOMAIN pop : pop[w].rating.resolved \in Nat /\ pop[w].rating.roi \in Int

(* Its mean is a number.                                                   *)
LEMMA MeanIsNumber ==
    ASSUME NEW pop, IsPopulation(pop)
    PROVE  PopulationMean(pop) \in Int
<1> DEFINE count == [w \in DOMAIN pop |-> pop[w].rating.resolved]
           gain == [w \in DOMAIN pop |-> 100 * pop[w].rating.resolved * pop[w].rating.roi]
           n == SumFunctionOnSet(count, DOMAIN pop)
           total == SumFunctionOnSet(gain, DOMAIN pop)
<1>1. IsFiniteSet(DOMAIN pop) /\ \A w \in DOMAIN pop : count[w] \in Nat /\ gain[w] \in Int
  BY DEF IsPopulation
<1>2. PopulationMean(pop) = IF n = 0 THEN 0 ELSE total \div n
  BY DEF PopulationMean
<1> HIDE DEF count, gain
<1>3. n \in Nat /\ total \in Int
  BY <1>1, SumType
<1> HIDE DEF n, total
<1>4. QED
  BY <1>2, <1>3

(* An estimate lies between the wallet's own return and the mean.          *)
LEMMA ShrunkIsBetween ==
    ASSUME NEW pop, IsPopulation(pop), NEW w \in DOMAIN pop
    PROVE  LET own == 100 * pop[w].rating.roi
               mean == PopulationMean(pop)
           IN /\ Shrunk(pop, w) \in Int
              /\ \/ own <= Shrunk(pop, w) /\ Shrunk(pop, w) <= mean
                 \/ mean <= Shrunk(pop, w) /\ Shrunk(pop, w) <= own
<1>1. PopulationMean(pop) \in Int /\ pop[w].rating.resolved \in Nat /\ pop[w].rating.roi \in Int
      /\ ShrinkK \in Nat \ {0}
  BY MeanIsNumber, BoardConstants DEF IsPopulation
<1>2. PICK m \in Nat, r \in Int, k \in Nat \ {0}, y \in Int :
        /\ m = pop[w].rating.resolved /\ r = pop[w].rating.roi /\ k = ShrinkK
        /\ y = PopulationMean(pop)
  BY <1>1
<1>3. Shrunk(pop, w) = (100 * m * r + k * y) \div (m + k)
  BY <1>2 DEF Shrunk
<1>4. PICK x \in Int : x = 100 * r
  OBVIOUS
<1>5. 100 * m * r = m * x
  BY <1>4
<1>6. Shrunk(pop, w) = (m * x + k * y) \div (m + k)
  BY <1>3, <1>5
<1>7. (m * x + k * y) \div (m + k) \in Int
  <2>1. m * x + k * y \in Int /\ m + k \in Nat \ {0}
    OBVIOUS
  <2>2. \A a \in Int, b \in Nat \ {0} : a \div b \in Int
    OBVIOUS
  <2>3. QED
    BY <2>1, <2>2
<1>8. x <= y \/ y <= x
  OBVIOUS
<1>9. \/ x <= Shrunk(pop, w) /\ Shrunk(pop, w) <= y
      \/ y <= Shrunk(pop, w) /\ Shrunk(pop, w) <= x
  BY <1>6, <1>8, AverageBetween
<1>10. QED
  BY <1>2, <1>4, <1>6, <1>7, <1>9

(* The score is a percentage that grows with the estimate: it is the share *)
(* of the others whose estimate is smaller, to the nearest percent.        *)
LEMMA ScoreGrows ==
    ASSUME NEW pop, IsPopulation(pop)
    PROVE  \A v, w \in DOMAIN pop :
             /\ Score(pop, w) \in 0 .. 100
             /\ Shrunk(pop, v) >= Shrunk(pop, w) => Score(pop, v) >= Score(pop, w)
<1> DEFINE P == DOMAIN pop
           n == Cardinality(P) - 1
           smaller(w) == {v \in P : Shrunk(pop, v) < Shrunk(pop, w)}
           share(w) == (200 * Cardinality(smaller(w)) + n) \div (2 * n)
<1>1. \A w \in P : Shrunk(pop, w) \in Int
  BY ShrunkIsBetween
<1>2. \A w \in P : Score(pop, w) = IF n = 0 THEN 100 ELSE share(w)
  BY DEF Score
<1>3. IsFiniteSet(P)
  BY DEF IsPopulation
<1>4. ASSUME NEW w \in P
      PROVE  /\ n \in Nat
             /\ Cardinality(smaller(w)) \in Nat /\ Cardinality(smaller(w)) <= n
  <2>1. smaller(w) \in SUBSET (P \ {w})
    BY <1>1
  <2> HIDE DEF smaller
  <2> HIDE DEF P
  <2>2. IsFiniteSet(P \ {w}) /\ Cardinality(P \ {w}) = n
    BY <1>3, FS_RemoveElement
  <2>3. Cardinality(P \ {w}) \in Nat
    BY <2>2, FS_CardinalityType
  <2>4. IsFiniteSet(smaller(w)) /\ Cardinality(smaller(w)) <= Cardinality(P \ {w})
    BY <2>1, <2>2, FS_Subset
  <2>5. Cardinality(smaller(w)) \in Nat
    BY <2>4, FS_CardinalityType
  <2>6. QED
    BY <2>2, <2>3, <2>4, <2>5
<1>5. ASSUME NEW v \in P, NEW w \in P, Shrunk(pop, v) >= Shrunk(pop, w)
      PROVE  Cardinality(smaller(w)) <= Cardinality(smaller(v))
  <2>1. smaller(w) \in SUBSET smaller(v) /\ smaller(v) \in SUBSET P
    BY <1>1, <1>5
  <2> HIDE DEF smaller
  <2>2. IsFiniteSet(smaller(v))
    BY <1>3, <2>1, FS_Subset
  <2>3. QED
    BY <2>1, <2>2, FS_Subset
<1>6. ASSUME NEW c \in Nat, NEW d \in Nat, NEW k \in Nat \ {0}, c <= d, d <= k
      PROVE  /\ (200 * c + k) \div (2 * k) \in 0 .. 100
             /\ (200 * c + k) \div (2 * k) <= (200 * d + k) \div (2 * k)
  <2>1. PICK p \in Nat, q \in Nat, b \in Nat \ {0} :
          p = 200 * c + k /\ q = 200 * d + k /\ b = 2 * k
    <3>1. 200 * c + k \in Nat /\ 200 * d + k \in Nat /\ 2 * k \in Nat \ {0}
      OBVIOUS
    <3>2. QED
      BY <3>1
  <2>2. p <= q /\ p < b * 101
    BY <1>6, <2>1
  <2>3. PICK i \in Nat : i = p \div b /\ b * i <= p /\ p < b * i + b
    OBVIOUS
  <2>4. i <= 100
    <3>1. SUFFICES ASSUME 101 <= i PROVE FALSE
      BY <2>3
    <3>2. b * 101 <= b * i
      BY <3>1, TimesGrows
    <3>3. QED
      BY <2>2, <2>3, <3>2
  <2>5. PICK j \in Nat : j = q \div b /\ b * j <= q /\ q < b * j + b
    OBVIOUS
  <2>6. i <= j
    <3>1. SUFFICES ASSUME j + 1 <= i PROVE FALSE
      BY <2>3, <2>5
    <3>2. b * (j + 1) <= b * i /\ b * (j + 1) = b * j + b /\ b * j \in Int /\ b * i \in Int
      BY <3>1, TimesGrows
    <3>3. QED
      BY <2>2, <2>3, <2>5, <3>2
  <2>7. QED
    BY <2>1, <2>3, <2>4, <2>5, <2>6
<1> HIDE DEF smaller
<1>7. ASSUME NEW v \in P, NEW w \in P
      PROVE  /\ Score(pop, w) \in 0 .. 100
             /\ Shrunk(pop, v) >= Shrunk(pop, w) => Score(pop, v) >= Score(pop, w)
  <2>1. CASE n = 0
    BY <1>2, <2>1
  <2>2. CASE n # 0
    <3> HIDE DEF n
    <3>1. n \in Nat \ {0} /\ Cardinality(smaller(v)) \in Nat /\ Cardinality(smaller(w)) \in Nat
          /\ Cardinality(smaller(v)) <= n /\ Cardinality(smaller(w)) <= n
      BY <1>4, <2>2
    <3>2. \A c \in Nat : c <= n => (200 * c + n) \div (2 * n) \in 0 .. 100
      BY <1>6, <3>1
    <3>3. share(w) \in 0 .. 100
      BY <3>1, <3>2
    <3>4. ASSUME Shrunk(pop, v) >= Shrunk(pop, w) PROVE share(w) <= share(v)
      <4>1. Cardinality(smaller(w)) <= Cardinality(smaller(v))
        BY <1>5, <3>4
      <4>2. QED
        BY <1>6, <3>1, <4>1
    <3>5. Score(pop, v) = share(v) /\ Score(pop, w) = share(w)
      BY <1>2, <2>2
    <3>6. share(v) \in Int /\ share(w) \in Int
      BY <3>1, <3>2
    <3> HIDE DEF share
    <3>7. QED
      BY <3>3, <3>4, <3>5, <3>6
  <2>3. QED
    BY <2>1, <2>2
<1>8. QED
  BY <1>7

(* The mean is that of the ratings alone.                                  *)
LEMMA MeanOfRatings ==
    ASSUME NEW p, NEW q, DOMAIN p = DOMAIN q,
           \A w \in DOMAIN p : p[w].rating = q[w].rating
    PROVE  PopulationMean(p) = PopulationMean(q)
<1>1. /\ [w \in DOMAIN p |-> p[w].rating.resolved] = [w \in DOMAIN q |-> q[w].rating.resolved]
      /\ [w \in DOMAIN p |-> 100 * p[w].rating.resolved * p[w].rating.roi] =
         [w \in DOMAIN q |-> 100 * q[w].rating.resolved * q[w].rating.roi]
  OBVIOUS
<1>2. QED
  BY <1>1 DEF PopulationMean

(* The key that ranks is a number.                                         *)
LEMMA KeyIsNumber == \A s : IsStat(s) => rankKey(s) \in Int /\ s.rating.winRate \in Int
<1> SUFFICES ASSUME NEW s, IsStat(s) PROVE rankKey(s) \in Int /\ s.rating.winRate \in Int
  OBVIOUS
<1>1. s.shrunk \in Int /\ s.avgCLV \in Int /\ s.clvN \in Int /\ s.rating.winRate \in Int
  BY DEF IsStat, IsRating
<1>2. ClvFull \in Int /\ Min({s.clvN, ClvFull}) \in Int
  <2>1. ClvFull \in Int
    BY BoardConstants
  <2>2. \A a, b \in Int : Min({a, b}) \in Int
    BY LesserOfTwo
  <2>3. QED
    BY <1>1, <2>1, <2>2
<1>3. \A i, j, k, l \in Int : i * j + k * 100 * l \in Int
  OBVIOUS
<1>4. ClvFull * s.shrunk + Min({s.clvN, ClvFull}) * 100 * s.avgCLV \in Int
  <2> DEFINE i == ClvFull
             j == s.shrunk
             k == Min({s.clvN, ClvFull})
             l == s.avgCLV
  <2>1. i \in Int /\ j \in Int /\ k \in Int /\ l \in Int
    BY <1>1, <1>2
  <2> HIDE DEF i, j, k, l
  <2>2. i * j + k * 100 * l \in Int
    BY <1>3, <2>1
  <2>3. QED
    BY <2>2 DEF i, j, k, l
<1>5. QED
  BY <1>1, <1>4 DEF rankKey

(* The ranking orders any set of rated wallets.                            *)
LEMMA BeforeOrders ==
    ASSUME NEW P \in SUBSET Wallets, NEW pop, \A w \in P : IsStat(pop[w])
    PROVE  Orders({x \in P \X P : Before(pop, x[1], x[2])}, P)
<1> DEFINE R == {x \in P \X P : Before(pop, x[1], x[2])}
           key == [w \in P |-> rankKey(pop[w])]
           rate == [w \in P |-> pop[w].rating.winRate]
<1>1. \A w \in P : key[w] \in Int /\ rate[w] \in Int /\ Address[w] \in Int
  BY KeyIsNumber, SelectionAssumption
<1>2. \A v, w \in P : Address[v] = Address[w] => v = w
  BY SelectionAssumption
<1>3. \A v, w \in P : Above(pop[v], pop[w]) <=>
         key[v] > key[w] \/ (key[v] = key[w] /\ rate[v] > rate[w])
  BY DEF Above
<1> HIDE DEF key, rate
<1>4. \A v, w \in P : <<v, w>> \in R <=>
         \/ key[v] > key[w]
         \/ key[v] = key[w] /\ rate[v] > rate[w]
         \/ key[v] = key[w] /\ rate[v] = rate[w] /\ Address[v] < Address[w]
  BY <1>1, <1>3 DEF Before
<1> HIDE DEF R
<1>5. QED
  <2>1. \A x \in P : <<x, x>> \notin R
    BY <1>1, <1>4
  <2>2. \A x, y, z \in P : <<x, y>> \in R /\ <<y, z>> \in R => <<x, z>> \in R
    BY <1>1, <1>4
  <2>3. \A x, y \in P : x # y => <<x, y>> \in R \/ <<y, x>> \in R
    BY <1>1, <1>2, <1>4
  <2>4. QED
    BY <2>1, <2>2, <2>3 DEF Orders, R

(* Who clears the gates and is not selected leaves TopN before it.         *)
LEMMA SelectTakesTheBest ==
    ASSUME StatsInv
    PROVE  /\ Select(stats) \subseteq DOMAIN stats
           /\ \A w \in Select(stats) : meets(stats[w].rating)
           /\ \A w \in DOMAIN stats \ Select(stats) : meets(stats[w].rating) =>
                 Cardinality({v \in Select(stats) : ~Above(stats[w], stats[v])}) = TopN
<1> DEFINE P == {w \in DOMAIN stats : meets(stats[w].rating)}
           R == {x \in P \X P : Before(stats, x[1], x[2])}
           rank(w) == Cardinality(Below(P, R, w))
<1>1. \A w \in P : Below(P, R, w) = {v \in P : Before(stats, v, w)}
  BY DEF Below
<1>2. Select(stats) = {w \in P : rank(w) < TopN}
  <2>1. Select(stats) = {w \in P : Cardinality({v \in P : Before(stats, v, w)}) < TopN}
    BY DEF Select
  <2>2. QED
    BY <1>1, <2>1
<1>3. P \in SUBSET Wallets /\ P \in SUBSET DOMAIN stats /\ IsFiniteSet(P)
      /\ \A w \in P : IsStat(stats[w])
  BY FS_Subset DEF StatsInv
<1>4. Orders(R, P)
  BY <1>3, BeforeOrders
<1>5. \A w \in P : meets(stats[w].rating)
  OBVIOUS
<1>6. \A w \in DOMAIN stats : meets(stats[w].rating) => w \in P
  OBVIOUS
<1>7. \A v, w \in P : Above(stats[w], stats[v]) => <<w, v>> \in R
  BY DEF Before
<1> HIDE DEF P, R
<1>8. Cardinality(P) \in Nat /\ TopN \in Nat
  BY <1>3, FS_CardinalityType, BoardConstants
<1>9. /\ \A x \in P : rank(x) \in 0 .. Cardinality(P) - 1
      /\ \A x, y \in P : <<x, y>> \in R => rank(x) < rank(y)
      /\ \A n \in 0 .. Cardinality(P) : Cardinality({x \in P : rank(x) < n}) = n
  BY <1>3, <1>4, RanksAreCounted
<1> HIDE DEF rank
<1>10. ASSUME NEW w \in P, w \notin Select(stats)
       PROVE  Cardinality({v \in Select(stats) : ~Above(stats[w], stats[v])}) = TopN
  <2>1. rank(w) \in Nat /\ rank(w) >= TopN /\ rank(w) <= Cardinality(P) - 1
    BY <1>2, <1>8, <1>9, <1>10
  <2>2. TopN \in 0 .. Cardinality(P)
    BY <1>8, <2>1
  <2>3. \A v \in Select(stats) : ~Above(stats[w], stats[v])
    <3> SUFFICES ASSUME NEW v \in Select(stats), Above(stats[w], stats[v]) PROVE FALSE
      OBVIOUS
    <3>1. v \in P /\ rank(v) < TopN /\ rank(v) \in Nat
      BY <1>2, <1>8, <1>9
    <3>2. rank(w) < rank(v)
      BY <1>7, <1>9, <3>1
    <3>3. QED
      BY <1>8, <2>1, <3>1, <3>2
  <2>4. {v \in Select(stats) : ~Above(stats[w], stats[v])} = {v \in P : rank(v) < TopN}
    BY <1>2, <2>3
  <2>5. QED
    BY <1>9, <2>2, <2>4
<1>11. QED
  BY <1>2, <1>3, <1>5, <1>6, <1>10
-----------------------------------------------------------------------------
(* The inductive invariant.                                                *)
LEMMA BoardIsTyped == BoardInv => BoardTypeOK
<1> SUFFICES ASSUME BoardInv PROVE BoardTypeOK
  OBVIOUS
<1>1. {c.wallet : c \in ToSet(pool)} \subseteq Wallets
  <2>1. \A i \in DOMAIN pool : pool[i] \in Candidates
    BY DEF BoardInv, RefreshInv
  <2>2. QED
    BY <2>1, PoolsAreCandidates DEF ToSet
<1>2. /\ lastSync \in 0 .. refresh /\ refresh \in 0 .. MaxRefreshes
      /\ faults \in 0 .. MaxFaults
  BY BoardConstants DEF BoardInv, RefreshInv
<1>3. /\ DOMAIN outcome \subseteq Wallets
      /\ Range(outcome) \subseteq {"pending", "rated", "unvalued", "failed"}
  BY DEF BoardInv, OutcomeInv, Range
<1>4. QED
  BY <1>1, <1>2, <1>3 DEF BoardInv, RefreshInv, StatsInv, RowsInv, BoardTypeOK

(* Before the first refresh nothing is stored and nothing is watched.      *)
LEMMA BoardStarts == BoardInit => BoardInv
<1> SUFFICES ASSUME BoardInit PROVE BoardInv
  OBVIOUS
<1>1. DOMAIN <<>> = {} /\ IsFiniteSet({}) /\ <<>> \in Seq(Candidates)
  BY FS_EmptySet
<1>2. RefreshInv
  BY <1>1, BoardConstants DEF BoardInit, RefreshInv
<1>3. StatsInv
  BY <1>1 DEF BoardInit, StatsInv
<1>4. RowsInv
  BY <1>1 DEF BoardInit, RowsInv
<1>5. OutcomeInv
  BY <1>1 DEF BoardInit, OutcomeInv
<1>6. QED
  BY <1>2, <1>3, <1>4, <1>5 DEF BoardInv

(* A crawl that ends leaves the pool a sequence of candidates.             *)
LEMMA RemovalKeepsPool ==
    ASSUME NEW S, NEW s \in Seq(S), NEW i \in 1 .. Len(s)
    PROVE  RemoveAt(s, i) \in Seq(S)
<1>1. Len(s) \in Nat /\ i \in Int /\ i - 1 \in Int /\ i + 1 \in Int
      /\ 1 \in Int /\ Len(s) \in Int
  OBVIOUS
<1>2. (\A k \in 1 .. i - 1 : s[k] \in S) /\ (\A k \in i + 1 .. Len(s) : s[k] \in S)
  BY <1>1
<1>3. SubSeq(s, 1, i - 1) \in Seq(S) /\ SubSeq(s, i + 1, Len(s)) \in Seq(S)
  BY <1>1, <1>2, SubSeqProperties
<1>4. QED
  BY <1>3 DEF RemoveAt

(* What is not removed is still there.                                     *)
LEMMA RemovalKeepsOthers ==
    ASSUME NEW S, NEW s \in Seq(S), NEW i \in 1 .. Len(s), NEW k \in 1 .. Len(s), k # i
    PROVE  \E j \in 1 .. Len(RemoveAt(s, i)) : RemoveAt(s, i)[j] = s[k]
<1>1. Len(s) \in Nat /\ i \in Int /\ k \in Int /\ 1 <= i /\ i <= Len(s)
      /\ 1 <= k /\ k <= Len(s) /\ i - 1 \in Int /\ i + 1 \in Int /\ 1 \in Int /\ Len(s) \in Int
  OBVIOUS
<1>2. (\A n \in 1 .. i - 1 : s[n] \in S) /\ (\A n \in i + 1 .. Len(s) : s[n] \in S)
  BY <1>1
<1> DEFINE a == SubSeq(s, 1, i - 1)
           b == SubSeq(s, i + 1, Len(s))
<1>3. /\ a \in Seq(S) /\ Len(a) = i - 1 /\ \A n \in 1 .. i - 1 : a[n] = s[n]
      /\ b \in Seq(S) /\ Len(b) = Len(s) - i /\ \A n \in 1 .. Len(s) - i : b[n] = s[i + n]
  <2>1. a \in Seq(S) /\ Len(a) = i - 1 /\ \A n \in 1 .. i - 1 : a[n] = s[n]
    <3>1. /\ a \in Seq(S)
          /\ Len(a) = IF 1 <= i - 1 THEN i - 1 - 1 + 1 ELSE 0
          /\ \A n \in 1 .. i - 1 - 1 + 1 : a[n] = s[1 + n - 1]
      BY <1>1, <1>2, SubSeqProperties
    <3>2. QED
      BY <1>1, <3>1
  <2>2. b \in Seq(S) /\ Len(b) = Len(s) - i /\ \A n \in 1 .. Len(s) - i : b[n] = s[i + n]
    <3>1. /\ b \in Seq(S)
          /\ Len(b) = IF i + 1 <= Len(s) THEN Len(s) - (i + 1) + 1 ELSE 0
          /\ \A n \in 1 .. Len(s) - (i + 1) + 1 : b[n] = s[i + 1 + n - 1]
      BY <1>1, <1>2, SubSeqProperties
    <3>2. QED
      BY <1>1, <3>1
  <2>3. QED
    BY <2>1, <2>2
<1>4. RemoveAt(s, i) = a \o b
  BY DEF RemoveAt
<1> HIDE DEF a, b
<1>5. /\ Len(a \o b) = Len(s) - 1
      /\ \A n \in 1 .. Len(s) - 1 : (a \o b)[n] = IF n <= i - 1 THEN a[n] ELSE b[n - (i - 1)]
  <2>1. /\ Len(a \o b) = Len(a) + Len(b)
        /\ \A n \in 1 .. Len(a) + Len(b) :
             (a \o b)[n] = IF n <= Len(a) THEN a[n] ELSE b[n - Len(a)]
    BY <1>3, ConcatProperties
  <2>2. Len(a) + Len(b) = Len(s) - 1
    BY <1>1, <1>3
  <2>3. QED
    BY <1>3, <2>1, <2>2
<1>6. CASE k < i
  <2>1. k \in 1 .. Len(s) - 1 /\ k \in 1 .. i - 1 /\ k <= i - 1
    BY <1>1, <1>6
  <2>2. QED
    BY <1>3, <1>4, <1>5, <2>1
<1>7. CASE k > i
  <2>1. /\ k - 1 \in 1 .. Len(s) - 1 /\ ~(k - 1 <= i - 1) /\ k - i \in 1 .. Len(s) - i
        /\ (k - 1) - (i - 1) = k - i /\ i + (k - i) = k
    BY <1>1, <1>7
  <2>2. (a \o b)[k - 1] = b[(k - 1) - (i - 1)]
    BY <1>5, <2>1
  <2>3. b[k - i] = s[i + (k - i)]
    BY <1>3, <2>1
  <2>4. (a \o b)[k - 1] = s[k]
    BY <2>1, <2>2, <2>3
  <2>5. QED
    BY <1>4, <1>5, <2>1, <2>4
<1>8. QED
  BY <1>1, <1>6, <1>7

(* The crawls under way are of the pool, and of its beginning.             *)
LEMMA RunningIsInPool ==
    ASSUME pool \in Seq(Candidates), NEW i \in Running
    PROVE  /\ i \in 1 .. Len(pool) /\ pool[i] \in Candidates
           /\ Upto(pool, Concurrency) \in Seq(Candidates)
           /\ i \in 1 .. Len(Upto(pool, Concurrency))
<1>1. Len(pool) \in Nat /\ Concurrency \in Nat
  BY BoardConstants
<1>2. PICK m \in Nat : m = Min({Len(pool), Concurrency}) /\ m <= Len(pool)
  BY <1>1, LesserOfTwo
<1>3. i \in 1 .. m
  BY <1>2 DEF Running
<1>4. /\ 1 \in Int /\ m \in Int /\ m - 1 + 1 = m /\ 1 <= m
      /\ \A k \in 1 .. m : pool[k] \in Candidates
  <2>1. m \in Int /\ m - 1 + 1 = m /\ 1 <= m
    BY <1>2, <1>3
  <2>2. ASSUME NEW k \in 1 .. m PROVE pool[k] \in Candidates
    <3>1. k \in 1 .. Len(pool)
      BY <1>1, <1>2
    <3>2. QED
      BY <3>1
  <2>3. QED
    BY <2>1, <2>2
<1>5. Upto(pool, Concurrency) = SubSeq(pool, 1, m)
  BY <1>2 DEF Upto
<1>6. SubSeq(pool, 1, m) \in Seq(Candidates) /\ Len(SubSeq(pool, 1, m)) = m
  BY <1>4, SubSeqProperties
<1>7. i \in 1 .. Len(pool)
  BY <1>1, <1>2, <1>3
<1>8. pool[i] \in Candidates
  BY <1>3, <1>4
<1>9. QED
  BY <1>3, <1>5, <1>6, <1>7, <1>8

(* A refresh that returns forgets what it had, and leaves what it stored.  *)
LEMMA ReturnKeeps ==
    ASSUME BoardInv, Return, UNCHANGED <<rows, table, refresh>>,
           lastSync' \in {lastSync, refresh},
           faults' \in Nat, faults' <= MaxFaults
    PROVE  BoardInv'
<1>1. /\ phase' = "idle" /\ pool' = <<>> /\ stats' = <<>> /\ left' = {}
      /\ aborted' = FALSE /\ outcome' = <<>>
      /\ rows' = rows /\ table' = table /\ refresh' = refresh
  BY DEF Return
<1>2. DOMAIN <<>> = {} /\ IsFiniteSet({}) /\ <<>> \in Seq(Candidates)
  BY FS_EmptySet
<1>3. RefreshInv'
  BY <1>1, <1>2 DEF BoardInv, RefreshInv
<1>4. StatsInv'
  BY <1>1, <1>2 DEF BoardInv, StatsInv
<1>5. RowsInv'
  BY <1>1, <1>2 DEF BoardInv, RowsInv
<1>6. OutcomeInv'
  BY <1>1, <1>2 DEF OutcomeInv
<1>7. QED
  BY <1>3, <1>4, <1>5, <1>6 DEF BoardInv

(* After the crawls nothing that becomes of a candidate changes.           *)
LEMMA OutcomeStays ==
    ASSUME BoardInv, phase # "crawl", UNCHANGED <<outcome, aborted>>,
           \A w \in DOMAIN stats : w \in DOMAIN stats' /\ stats'[w].rating = stats[w].rating
    PROVE  OutcomeInv'
BY DEF BoardInv, OutcomeInv

(* A failure is counted.                                                   *)
LEMMA FaultCounts ==
    ASSUME BoardInv, Fault \/ UNCHANGED faults
    PROVE  faults' \in Nat /\ faults' <= MaxFaults /\ faults' >= faults
           /\ (Fault => faults' > 0) /\ (faults' = 0 => faults = 0)
BY BoardConstants DEF Fault, BoardInv, RefreshInv
-----------------------------------------------------------------------------
(* Every step keeps it.                                                    *)
LEMMA StartKeeps == BoardInv /\ StartRefresh => BoardInv'
<1> SUFFICES ASSUME BoardInv, StartRefresh PROVE BoardInv'
  OBVIOUS
<1>1. /\ phase = "idle" /\ refresh < MaxRefreshes /\ refresh' = refresh + 1
      /\ pool' \in Pools /\ phase' \in {"idle", "crawl"}
      /\ stats' = stats /\ left' = left /\ rows' = rows /\ table' = table
      /\ lastSync' = lastSync /\ faults' = faults /\ aborted' = aborted
      /\ outcome' = [w \in {c.wallet : c \in ToSet(pool')} |-> "pending"]
      /\ pool' = <<>> \/ phase' = "crawl"
  BY DEF StartRefresh
<1>2. DOMAIN stats = {} /\ left = {}
  BY <1>1 DEF BoardInv, StatsInv
<1>3. RefreshInv'
  BY <1>1, PoolsAreCandidates, BoardConstants DEF BoardInv, RefreshInv
<1>4. StatsInv'
  BY <1>1, <1>2 DEF BoardInv, StatsInv
<1>5. RowsInv'
  BY <1>1, <1>2 DEF BoardInv, RowsInv
<1>6. OutcomeInv'
  <2>1. ~aborted
    BY <1>1 DEF BoardInv, OutcomeInv
  <2>2. pool' \in Seq(Candidates) /\ DOMAIN pool' = 1 .. Len(pool')
    BY <1>1, PoolsAreCandidates
  <2>3. ASSUME NEW w \in DOMAIN outcome'
        PROVE  /\ w \in Wallets /\ outcome'[w] = "pending" /\ phase' = "crawl"
               /\ \E k \in 1 .. Len(pool') : pool'[k].wallet = w
    <3>1. PICK k \in 1 .. Len(pool') : pool'[k].wallet = w
      BY <1>1, <2>2 DEF ToSet
    <3>2. pool'[k] \in Candidates /\ pool' # <<>>
      BY <2>2
    <3>3. QED
      BY <1>1, <3>1, <3>2, PoolsAreCandidates
  <2>4. QED
    BY <1>1, <2>1, <2>3 DEF OutcomeInv
<1>7. QED
  BY <1>3, <1>4, <1>5, <1>6 DEF BoardInv

(* A crawl that ends decides the fate of its wallet; the others wait on.   *)
LEMMA PendingInPool ==
    ASSUME BoardInv, NEW i \in 1 .. Len(pool), pool[i].wallet \in Wallets, NEW fate,
           outcome' = With(outcome, pool[i].wallet, fate),
           phase = "crawl", UNCHANGED <<phase, aborted>>, pool' = RemoveAt(pool, i),
           \A v \in DOMAIN stats : /\ v \in DOMAIN stats'
                                   /\ v # pool[i].wallet => stats'[v] = stats[v],
           \/ fate = "failed"
           \/ /\ fate \in {"rated", "unvalued"} /\ pool[i].wallet \in DOMAIN stats'
              /\ stats'[pool[i].wallet].rating.portfolio =
                   IF fate = "rated" THEN Portfolio[pool[i].wallet] ELSE 0
    PROVE  OutcomeInv'
<1> DEFINE w == pool[i].wallet
<1>1. /\ DOMAIN outcome' = DOMAIN outcome \cup {w} /\ outcome'[w] = fate
      /\ \A v \in DOMAIN outcome : v # w => outcome'[v] = outcome[v]
  BY DEF With
<1>2. ASSUME NEW v \in DOMAIN outcome, v # w, outcome[v] = "pending", ~aborted
      PROVE  \E k \in 1 .. Len(pool') : pool'[k].wallet = v
  <2>1. PICK k \in 1 .. Len(pool) : pool[k].wallet = v
    BY <1>2 DEF BoardInv, OutcomeInv
  <2>2. pool \in Seq(Candidates) /\ k # i
    BY <1>2, <2>1 DEF BoardInv, RefreshInv
  <2>3. QED
    BY <2>1, <2>2, RemovalKeepsOthers
<1> HIDE DEF w
<1>3. ASSUME NEW v \in DOMAIN outcome, v # w
      PROVE  /\ outcome'[v] \in {"pending", "rated", "unvalued", "failed"}
             /\ outcome'[v] = "pending" => aborted' \/ \E k \in 1 .. Len(pool') : pool'[k].wallet = v
             /\ outcome'[v] \in {"rated", "unvalued"} => v \in DOMAIN stats'
             /\ outcome'[v] = "rated" => stats'[v].rating.portfolio = Portfolio[v]
             /\ outcome'[v] = "unvalued" => stats'[v].rating.portfolio = 0
  BY <1>1, <1>2, <1>3 DEF BoardInv, OutcomeInv, w
<1>4. QED
  BY <1>1, <1>3 DEF BoardInv, OutcomeInv, w

(* A crawl that fails leaves a shorter pool, and nothing else.             *)
LEMMA CrawlEndsKeeps ==
    ASSUME BoardInv, NEW i, CrawlFails(i) \/ UpsertFails(i), i \in Running
    PROVE  BoardInv'
<1>1. /\ phase = "crawl" /\ phase' = phase /\ stats' = stats /\ left' = left
      /\ rows' = rows /\ table' = table /\ lastSync' = lastSync /\ refresh' = refresh
      /\ Fault \/ faults' = faults
      /\ pool' \in {RemoveAt(pool, i), RemoveAt(Upto(pool, Concurrency), i)}
  BY DEF CrawlFails, UpsertFails
<1>2. pool' \in Seq(Candidates)
  BY <1>1, RunningIsInPool, RemovalKeepsPool DEF BoardInv, RefreshInv
<1>3. RefreshInv'
  BY <1>1, <1>2, FaultCounts DEF BoardInv, RefreshInv
<1>4. StatsInv'
  BY <1>1 DEF BoardInv, StatsInv
<1>5. RowsInv'
  BY <1>1 DEF BoardInv, RowsInv
<1>6. i \in 1 .. Len(pool) /\ pool[i].wallet \in Wallets
  BY RunningIsInPool, PoolsAreCandidates DEF BoardInv, RefreshInv
<1>7. CASE CrawlFails(i)
  <2>1. outcome' = With(outcome, pool[i].wallet, "failed") /\ aborted' = aborted
        /\ pool' = RemoveAt(pool, i)
    BY <1>7 DEF CrawlFails
  <2>2. QED
    BY <1>1, <1>3, <1>4, <1>5, <1>6, <2>1, PendingInPool DEF BoardInv
<1>8. CASE UpsertFails(i)
  <2>1. aborted' = TRUE /\ outcome' = outcome
    BY <1>8 DEF UpsertFails
  <2>2. OutcomeInv'
    BY <1>1, <2>1 DEF BoardInv, OutcomeInv
  <2>3. QED
    BY <1>3, <1>4, <1>5, <2>2 DEF BoardInv
<1>9. QED
  BY <1>7, <1>8

(* The row of a wallet that is rated again keeps its score and its value.  *)
LEMMA UpsertKeeps ==
    ASSUME NEW w, NEW r, UpsertStats(w, r), \A v \in DOMAIN rows : IsRow(rows[v])
    PROVE  /\ DOMAIN rows' = DOMAIN rows \cup {w}
           /\ rows'[w].rating = r /\ rows'[w].computed = refresh /\ IsRow(rows'[w])
           /\ \A v \in DOMAIN rows : v # w => rows'[v] = rows[v]
           /\ w \in DOMAIN rows =>
                 rows'[w].avgCLV = rows[w].avgCLV /\ rows'[w].clvN = rows[w].clvN
<1>1. rows' = With(rows, w,
                 IF w \in DOMAIN rows
                 THEN [rows[w] EXCEPT !.rating = r, !.computed = refresh]
                 ELSE [rating |-> r, computed |-> refresh, skill |-> 0, avgCLV |-> 0, clvN |-> 0])
  BY DEF UpsertStats
<1>2. DOMAIN rows' = DOMAIN rows \cup {w} /\ \A v \in DOMAIN rows : v # w => rows'[v] = rows[v]
  BY <1>1 DEF With
<1>3. CASE w \in DOMAIN rows
  <2>1. rows'[w] = [rows[w] EXCEPT !.rating = r, !.computed = refresh]
    BY <1>1, <1>3 DEF With
  <2>2. rows'[w] = [rating |-> r, computed |-> refresh, skill |-> rows[w].skill,
                    avgCLV |-> rows[w].avgCLV, clvN |-> rows[w].clvN]
    BY <1>3, <2>1 DEF IsRow
  <2>3. QED
    BY <1>2, <2>2 DEF IsRow
<1>4. CASE w \notin DOMAIN rows
  <2>1. rows'[w] = [rating |-> r, computed |-> refresh, skill |-> 0, avgCLV |-> 0, clvN |-> 0]
    BY <1>1, <1>4 DEF With
  <2>2. QED
    BY <1>2, <1>4, <2>1 DEF IsRow
<1>5. QED
  BY <1>3, <1>4

(* A field of a rating, or two of what is known of a wallet, is set.       *)
LEMMA RatingIsSet ==
    ASSUME NEW q, IsRating(q), NEW value, NEW profit
    PROVE  /\ IsRating([q EXCEPT !.portfolio = value, !.profit30 = profit])
           /\ [q EXCEPT !.portfolio = value, !.profit30 = profit].portfolio = value
<1> DEFINE r == [q EXCEPT !.portfolio = value, !.profit30 = profit]
<1>1. q = [resolved |-> q.resolved, winRate |-> q.winRate, pnl |-> q.pnl, roi |-> q.roi,
           traded |-> q.traded, fresh |-> q.fresh, portfolio |-> q.portfolio,
           profit30 |-> q.profit30]
  BY DEF IsRating
<1>2. DOMAIN q = {"resolved", "winRate", "pnl", "roi", "traded", "fresh", "portfolio", "profit30"}
  BY <1>1
<1>3. /\ DOMAIN r = DOMAIN q /\ r.resolved = q.resolved /\ r.winRate = q.winRate
      /\ r.roi = q.roi /\ r.portfolio = value
  BY <1>2
<1>4. r = [f \in DOMAIN q |-> r[f]]
  BY <1>2
<1> HIDE DEF r
<1>5. r = [resolved |-> r.resolved, winRate |-> r.winRate, pnl |-> r.pnl, roi |-> r.roi,
           traded |-> r.traded, fresh |-> r.fresh, portfolio |-> r.portfolio,
           profit30 |-> r.profit30]
  BY <1>2, <1>3, <1>4
<1>6. IsRating(r)
  BY <1>3, <1>5 DEF IsRating
<1>7. QED
  BY <1>3, <1>6 DEF r

(* What the steps of a refresh make of the stats of a wallet.              *)
Scored(q, x, y) == [q EXCEPT !.shrunk = x, !.score = y]
Valued(q, x, y) == [q EXCEPT !.avgCLV = x, !.clvN = y]

(* The score is a field of its own ...                                     *)
LEMMA StatIsScored ==
    \A q, x, y : IsStat(q) /\ x \in Int =>
        /\ IsStat(Scored(q, x, y)) /\ Scored(q, x, y).rating = q.rating
        /\ Scored(q, x, y).shrunk = x /\ Scored(q, x, y).score = y
<1> SUFFICES ASSUME NEW q, NEW x \in Int, NEW y, NEW s, IsStat(q), s = Scored(q, x, y)
             PROVE  IsStat(s) /\ s.rating = q.rating /\ s.shrunk = x /\ s.score = y
  OBVIOUS
<1>1. /\ IsRating(q.rating) /\ q.avgCLV \in Int /\ q.clvN \in Nat
      /\ q = [rating |-> q.rating, shrunk |-> q.shrunk, score |-> q.score,
              avgCLV |-> q.avgCLV, clvN |-> q.clvN]
  BY DEF IsStat
<1>2. DOMAIN q = {"rating", "shrunk", "score", "avgCLV", "clvN"}
  BY <1>1
<1>3. /\ s = [f \in DOMAIN q |-> s[f]] /\ s.rating = q.rating
      /\ s.shrunk = x /\ s.score = y /\ s.avgCLV = q.avgCLV /\ s.clvN = q.clvN
  BY <1>2 DEF Scored
<1>4. s = [rating |-> s.rating, shrunk |-> s.shrunk, score |-> s.score,
           avgCLV |-> s.avgCLV, clvN |-> s.clvN]
  BY <1>2, <1>3
<1>5. QED
  BY <1>1, <1>3, <1>4 DEF IsStat

(* ... and so is the closing-line value.                                   *)
LEMMA StatIsValued ==
    \A q, x, y : IsStat(q) /\ x \in Int /\ y \in Nat =>
        /\ IsStat(Valued(q, x, y)) /\ Valued(q, x, y).rating = q.rating
        /\ Valued(q, x, y).score = q.score /\ Valued(q, x, y).shrunk = q.shrunk
<1> SUFFICES ASSUME NEW q, NEW x \in Int, NEW y \in Nat, NEW s, IsStat(q), s = Valued(q, x, y)
             PROVE  /\ IsStat(s) /\ s.rating = q.rating
                    /\ s.score = q.score /\ s.shrunk = q.shrunk
  OBVIOUS
<1>1. /\ IsRating(q.rating) /\ q.shrunk \in Int
      /\ q = [rating |-> q.rating, shrunk |-> q.shrunk, score |-> q.score,
              avgCLV |-> q.avgCLV, clvN |-> q.clvN]
  BY DEF IsStat
<1>2. DOMAIN q = {"rating", "shrunk", "score", "avgCLV", "clvN"}
  BY <1>1
<1>3. /\ s = [f \in DOMAIN q |-> s[f]] /\ s.rating = q.rating
      /\ s.shrunk = q.shrunk /\ s.score = q.score /\ s.avgCLV = x /\ s.clvN = y
  BY <1>2 DEF Valued
<1>4. s = [rating |-> s.rating, shrunk |-> s.shrunk, score |-> s.score,
           avgCLV |-> s.avgCLV, clvN |-> s.clvN]
  BY <1>2, <1>3
<1>5. QED
  BY <1>1, <1>3, <1>4 DEF IsStat

(* A crawl writes the same stats to memory and to the row.                 *)
LEMMA CrawlKeeps ==
    ASSUME BoardInv, NEW i, Crawl(i), i \in Running
    PROVE  BoardInv'
<1> DEFINE w == pool[i].wallet
<1>1. PICK rating \in Ratings[w], valued \in BOOLEAN :
        LET r == [rating EXCEPT !.portfolio = IF valued THEN Portfolio[w] ELSE 0,
                                !.profit30 = pool[i].profit30] IN
        /\ IF valued THEN UNCHANGED faults ELSE Fault
        /\ outcome' = With(outcome, w, IF valued THEN "rated" ELSE "unvalued")
        /\ UpsertStats(w, r)
        /\ stats' = With(stats, w, [rating |-> r, shrunk |-> 0, score |-> 0,
                                    avgCLV |-> 0, clvN |-> 0])
  BY DEF Crawl
<1> DEFINE value == IF valued THEN Portfolio[w] ELSE 0
           fate  == IF valued THEN "rated" ELSE "unvalued"
           r == [rating EXCEPT !.portfolio = value, !.profit30 = pool[i].profit30]
           s == [rating |-> r, shrunk |-> 0, score |-> 0, avgCLV |-> 0, clvN |-> 0]
<1>2. /\ phase = "crawl" /\ phase' = phase /\ left' = left /\ table' = table
      /\ lastSync' = lastSync /\ refresh' = refresh /\ pool' = RemoveAt(pool, i)
      /\ aborted' = aborted /\ outcome' = With(outcome, w, fate)
      /\ Fault \/ faults' = faults
  BY <1>1 DEF Crawl
<1>3. pool' \in Seq(Candidates) /\ w \in Wallets
  BY <1>2, RunningIsInPool, RemovalKeepsPool, PoolsAreCandidates DEF BoardInv, RefreshInv
<1>4. IsStat(s) /\ s.rating = r /\ r.portfolio = value
  <2>1. IsRating(rating)
    BY <1>3, RatingsAreNumbers
  <2> HIDE DEF value
  <2>2. IsRating(r) /\ r.portfolio = value
    BY <2>1, RatingIsSet
  <2> HIDE DEF r
  <2>3. QED
    BY <2>2 DEF IsStat
<1>5. stats' = With(stats, w, s) /\ UpsertStats(w, r)
  BY <1>1
<1> HIDE DEF s, r, value
<1>12. i \in 1 .. Len(pool) /\ (fate = "rated" => value = Portfolio[w])
      /\ fate \in {"rated", "unvalued"} /\ (fate = "unvalued" => value = 0)
  BY RunningIsInPool DEF BoardInv, RefreshInv, value
<1> HIDE DEF fate, w
<1>6. /\ DOMAIN stats' = DOMAIN stats \cup {w} /\ stats'[w] = s
      /\ \A v \in DOMAIN stats : v # w => stats'[v] = stats[v]
  BY <1>5 DEF With
<1>7. /\ DOMAIN rows' = DOMAIN rows \cup {w}
      /\ rows'[w].rating = r /\ rows'[w].computed = refresh /\ IsRow(rows'[w])
      /\ \A v \in DOMAIN rows : v # w => rows'[v] = rows[v]
  BY <1>5, UpsertKeeps DEF BoardInv, RowsInv
<1>8. RefreshInv'
  BY <1>2, <1>3, FaultCounts DEF BoardInv, RefreshInv
<1>9. StatsInv'
  <2>1. IsFiniteSet(DOMAIN stats')
    BY <1>6, FS_AddElement DEF BoardInv, StatsInv
  <2>2. \A v \in DOMAIN stats' : IsStat(stats'[v])
    BY <1>4, <1>6 DEF BoardInv, StatsInv
  <2>3. DOMAIN stats' \subseteq Wallets /\ left' \subseteq DOMAIN stats'
    BY <1>2, <1>3, <1>6 DEF BoardInv, StatsInv
  <2>4. QED
    BY <1>2, <2>1, <2>2, <2>3 DEF BoardInv, StatsInv
<1>10. RowsInv'
  <2>1. DOMAIN stats' \subseteq DOMAIN rows' /\ table' \subseteq DOMAIN rows'
    BY <1>2, <1>6, <1>7 DEF BoardInv, RowsInv
  <2>2. \A v \in DOMAIN rows' : IsRow(rows'[v])
    BY <1>7 DEF BoardInv, RowsInv
  <2>3. \A v \in DOMAIN stats' :
           rows'[v].rating = stats'[v].rating /\ rows'[v].computed = refresh'
    BY <1>2, <1>4, <1>6, <1>7 DEF BoardInv, RowsInv
  <2>4. QED
    BY <1>2, <2>1, <2>2, <2>3 DEF RowsInv
<1>11. OutcomeInv'
  <2>1. w \in DOMAIN stats' /\ stats'[w].rating.portfolio = IF fate = "rated" THEN Portfolio[w] ELSE 0
    BY <1>4, <1>6, <1>12
  <2>2. QED
    BY <1>2, <1>3, <1>6, <1>12, <2>1, PendingInPool DEF w
<1>13. QED
  BY <1>8, <1>9, <1>10, <1>11 DEF BoardInv

(* The skill of the population is a function of ratings that stay.         *)
LEMMA ShrinkKeeps == BoardInv /\ ShrinkAll => BoardInv'
<1> SUFFICES ASSUME BoardInv, ShrinkAll PROVE BoardInv'
  OBVIOUS
<1>1. /\ phase = "crawl" /\ rows' = rows /\ table' = table /\ lastSync' = lastSync
      /\ refresh' = refresh /\ faults' = faults
  BY DEF ShrinkAll
<1>2. CASE Return
  BY <1>1, <1>2, ReturnKeeps DEF BoardInv, RefreshInv
<1>3. CASE ~Return
  <2>1. /\ phase' = "score" /\ left' = DOMAIN stats /\ pool' = pool /\ pool = <<>>
        /\ ~aborted /\ aborted' = aborted /\ outcome' = outcome
        /\ stats' = [w \in DOMAIN stats |->
              [stats[w] EXCEPT !.shrunk = Shrunk(stats, w), !.score = Score(stats, w)]]
    BY <1>3 DEF ShrinkAll
  <2>2. \A w \in DOMAIN stats : IsStat(stats[w])
    BY DEF BoardInv, StatsInv
  <2>3. \A w \in DOMAIN stats : Shrunk(stats, w) \in Int
    <3>1. IsPopulation(stats)
      BY <2>2 DEF BoardInv, StatsInv, IsStat, IsRating, IsPopulation
    <3>2. QED
      BY <3>1, ShrunkIsBetween
  <2>4. DOMAIN stats' = DOMAIN stats
    BY <2>1
  <2>5. \A w \in DOMAIN stats :
          stats'[w] = [stats[w] EXCEPT !.shrunk = Shrunk(stats, w), !.score = Score(stats, w)]
    BY <2>1
  <2>6. ASSUME NEW w \in DOMAIN stats
        PROVE  IsStat(stats'[w]) /\ stats'[w].rating = stats[w].rating
    <3>1. IsStat(stats[w]) /\ Shrunk(stats, w) \in Int
      BY <2>2, <2>3
    <3>2. stats'[w] = Scored(stats[w], Shrunk(stats, w), Score(stats, w))
      BY <2>5 DEF Scored
    <3>3. QED
      BY <3>1, <3>2, StatIsScored
  <2>7. RefreshInv'
    BY <1>1, <2>1 DEF BoardInv, RefreshInv
  <2>8. StatsInv'
    BY <2>1, <2>4, <2>6 DEF BoardInv, StatsInv
  <2>9. RowsInv'
    BY <1>1, <2>1, <2>4, <2>6 DEF BoardInv, RowsInv
  <2>10. OutcomeInv'
    <3>1. Len(pool) = 0 /\ ~aborted /\ aborted' = aborted /\ outcome' = outcome
      <4>1. pool = <<>> /\ ~aborted /\ aborted' = aborted /\ outcome' = outcome
        BY <2>1
      <4>2. QED
        BY <4>1
    <3>2. 1 .. Len(pool) = {}
      BY <3>1
    <3>3. \A w \in DOMAIN outcome : outcome[w] # "pending"
      BY <3>1, <3>2 DEF BoardInv, OutcomeInv
    <3>4. ASSUME NEW w \in DOMAIN outcome
          PROVE  /\ outcome[w] \in {"rated", "unvalued", "failed"}
                 /\ outcome[w] \in {"rated", "unvalued"} => w \in DOMAIN stats
                 /\ outcome[w] = "rated" => stats[w].rating.portfolio = Portfolio[w]
                 /\ outcome[w] = "unvalued" => stats[w].rating.portfolio = 0
                 /\ w \in Wallets
      BY <3>3 DEF BoardInv, OutcomeInv
    <3>5. QED
      BY <2>4, <2>6, <3>1, <3>4 DEF OutcomeInv
  <2>11. QED
    BY <2>7, <2>8, <2>9, <2>10 DEF BoardInv
<1>4. QED
  BY <1>2, <1>3

(* A field of a row, or two, are set.                                      *)
LEMMA RowIsScored ==
    ASSUME NEW q, IsRow(q), NEW x
    PROVE  [q EXCEPT !.skill = x] =
             [rating |-> q.rating, computed |-> q.computed, skill |-> x,
              avgCLV |-> q.avgCLV, clvN |-> q.clvN]
<1>1. q = [rating |-> q.rating, computed |-> q.computed, skill |-> q.skill,
           avgCLV |-> q.avgCLV, clvN |-> q.clvN]
  BY DEF IsRow
<1>2. DOMAIN q = {"rating", "computed", "skill", "avgCLV", "clvN"}
  BY <1>1
<1>3. QED
  BY <1>2

(* The closing-line value of a row is a field of its own, like its score.  *)
LEMMA RowIsValued ==
    ASSUME NEW q, IsRow(q), NEW x, NEW y
    PROVE  [q EXCEPT !.avgCLV = x, !.clvN = y] =
             [rating |-> q.rating, computed |-> q.computed, skill |-> q.skill,
              avgCLV |-> x, clvN |-> y]
<1>1. q = [rating |-> q.rating, computed |-> q.computed, skill |-> q.skill,
           avgCLV |-> q.avgCLV, clvN |-> q.clvN]
  BY DEF IsRow
<1>2. DOMAIN q = {"rating", "computed", "skill", "avgCLV", "clvN"}
  BY <1>1
<1> DEFINE r == [q EXCEPT !.avgCLV = x, !.clvN = y]
<1>3. /\ r = [f \in DOMAIN q |-> r[f]] /\ r.rating = q.rating /\ r.computed = q.computed
      /\ r.skill = q.skill /\ r.avgCLV = x /\ r.clvN = y
  BY <1>2
<1> HIDE DEF r
<1>4. r = [rating |-> q.rating, computed |-> q.computed, skill |-> q.skill,
           avgCLV |-> x, clvN |-> y]
  BY <1>2, <1>3
<1>5. QED
  BY <1>4 DEF r

(* One row differs in its score, or in its closing-line value.             *)
SkillBecomes(w, x) ==
    /\ DOMAIN rows' = DOMAIN rows
    /\ \A v \in DOMAIN rows :
         /\ IsRow(rows'[v])
         /\ rows'[v].rating = rows[v].rating /\ rows'[v].computed = rows[v].computed
         /\ rows'[v].avgCLV = rows[v].avgCLV /\ rows'[v].clvN = rows[v].clvN
         /\ rows'[v].skill = IF v = w THEN x ELSE rows[v].skill

ValueBecomes(w) ==
    /\ DOMAIN rows' = DOMAIN rows
    /\ \A v \in DOMAIN rows :
         /\ IsRow(rows'[v])
         /\ rows'[v].rating = rows[v].rating /\ rows'[v].computed = rows[v].computed
         /\ rows'[v].skill = rows[v].skill
         /\ rows'[v].avgCLV = IF v = w THEN stats[w].avgCLV ELSE rows[v].avgCLV
         /\ rows'[v].clvN = IF v = w THEN stats[w].clvN ELSE rows[v].clvN

(* What the two writers of the rows do to them.                            *)
LEMMA SkillIsWritten ==
    ASSUME BoardInv, NEW w \in DOMAIN rows, NEW x, rows' = [rows EXCEPT ![w].skill = x]
    PROVE  SkillBecomes(w, x)
<1>1. \A v \in DOMAIN rows : IsRow(rows[v])
  BY DEF BoardInv, RowsInv
<1>2. /\ DOMAIN rows' = DOMAIN rows /\ rows'[w] = [rows[w] EXCEPT !.skill = x]
      /\ \A v \in DOMAIN rows : v # w => rows'[v] = rows[v]
  OBVIOUS
<1>3. rows'[w] = [rating |-> rows[w].rating, computed |-> rows[w].computed, skill |-> x,
                  avgCLV |-> rows[w].avgCLV, clvN |-> rows[w].clvN]
  BY <1>1, <1>2, RowIsScored
<1>4. QED
  BY <1>1, <1>2, <1>3 DEF IsRow, SkillBecomes

(* A value that is stored changes its row in these two fields only.        *)
LEMMA ValueIsWritten ==
    ASSUME BoardInv, NEW w \in DOMAIN rows,
           rows' = [rows EXCEPT ![w].avgCLV = stats[w].avgCLV, ![w].clvN = stats[w].clvN]
    PROVE  ValueBecomes(w)
<1> DEFINE x == stats[w].avgCLV
           y == stats[w].clvN
<1>1. \A v \in DOMAIN rows : IsRow(rows[v])
  BY DEF BoardInv, RowsInv
<1>2. /\ DOMAIN rows' = DOMAIN rows /\ rows'[w] = [rows[w] EXCEPT !.avgCLV = x, !.clvN = y]
      /\ \A v \in DOMAIN rows : v # w => rows'[v] = rows[v]
  OBVIOUS
<1> HIDE DEF x, y
<1>3. rows'[w] = [rating |-> rows[w].rating, computed |-> rows[w].computed,
                  skill |-> rows[w].skill, avgCLV |-> x, clvN |-> y]
  <2> DEFINE q == rows[w]
  <2>1. IsRow(q)
    BY <1>1
  <2> HIDE DEF q
  <2>2. [q EXCEPT !.avgCLV = x, !.clvN = y] =
          [rating |-> q.rating, computed |-> q.computed, skill |-> q.skill,
           avgCLV |-> x, clvN |-> y]
    BY <2>1, RowIsValued
  <2>3. QED
    BY <1>2, <2>2 DEF q
<1>4. QED
  BY <1>1, <1>2, <1>3 DEF IsRow, x, y, ValueBecomes

(* The two writes touch one row and one field each, so that what is left   *)
(* to write is all that differs from memory.                               *)
LEMMA SkillKeeps == ASSUME BoardInv, NEW w \in left, SetSkillScore(w) PROVE BoardInv'
<1>1. /\ phase = "score" /\ table' = table /\ lastSync' = lastSync /\ refresh' = refresh
      /\ w \in DOMAIN stats /\ w \in DOMAIN rows
  BY DEF SetSkillScore, BoardInv, StatsInv, RowsInv
<1>2. CASE Fault /\ Return /\ UNCHANGED rows
  BY <1>1, <1>2, FaultCounts, ReturnKeeps DEF BoardInv, RefreshInv
<1>3. CASE /\ UNCHANGED faults
           /\ rows' = [rows EXCEPT ![w].skill = stats[w].score]
           /\ left' = left \ {w}
           /\ UNCHANGED <<phase, pool, aborted, stats, outcome>>
  <2> DEFINE x == stats[w].score
  <2>1. rows' = [rows EXCEPT ![w].skill = x]
    BY <1>3
  <2> HIDE DEF x
  <2>2. SkillBecomes(w, x)
    BY <1>1, <2>1, SkillIsWritten
  <2>3. RefreshInv'
    BY <1>1, <1>3 DEF BoardInv, RefreshInv
  <2>4. StatsInv'
    BY <1>1, <1>3 DEF BoardInv, StatsInv
  <2>5. RowsInv'
    BY <1>1, <1>3, <2>2 DEF BoardInv, RowsInv, x, SkillBecomes
  <2>6. OutcomeInv'
    BY <1>1, <1>3, OutcomeStays
  <2>7. QED
    BY <2>3, <2>4, <2>5, <2>6 DEF BoardInv
<1>4. QED
  BY <1>2, <1>3 DEF SetSkillScore

(* Once every score is stored, what pricewatch answers is still to write.  *)
LEMMA FetchKeeps == BoardInv /\ FetchCLV => BoardInv'
<1> SUFFICES ASSUME BoardInv, FetchCLV PROVE BoardInv'
  OBVIOUS
<1>1. /\ phase = "score" /\ left = {} /\ pool' = pool /\ rows' = rows /\ table' = table
      /\ lastSync' = lastSync /\ refresh' = refresh /\ UNCHANGED <<outcome, aborted>>
  BY DEF FetchCLV
<1>2. CASE Fault /\ phase' = "select" /\ UNCHANGED <<stats, left>>
  <2>1. RefreshInv' /\ faults' > 0
    BY <1>1, <1>2, FaultCounts DEF BoardInv, RefreshInv
  <2>2. StatsInv'
    BY <1>1, <1>2 DEF BoardInv, StatsInv
  <2>3. RowsInv'
    BY <1>1, <1>2, <2>1 DEF BoardInv, RowsInv
  <2>4. OutcomeInv'
    BY <1>1, <1>2, OutcomeStays
  <2>5. QED
    BY <2>1, <2>2, <2>3, <2>4 DEF BoardInv
<1>3. CASE UNCHANGED faults /\ phase' = "clv"
  <2>1. left' = DOMAIN stats
    BY <1>3 DEF FetchCLV
  <2>2. PICK known \in ClvAnswers :
          stats' = [w \in DOMAIN stats |->
                      IF w \in DOMAIN known
                      THEN [stats[w] EXCEPT !.avgCLV = known[w].avg, !.clvN = known[w].n]
                      ELSE stats[w]]
    BY <1>3 DEF FetchCLV
  <2>3. DOMAIN stats' = DOMAIN stats
    BY <2>2
  <2>4. ASSUME NEW w \in DOMAIN stats
        PROVE  /\ IsStat(stats'[w]) /\ stats'[w].rating = stats[w].rating
               /\ stats'[w].score = stats[w].score
    <3>1. IsStat(stats[w])
      BY DEF BoardInv, StatsInv
    <3>2. CASE w \in DOMAIN known
      <4>1. stats'[w] = Valued(stats[w], known[w].avg, known[w].n)
        BY <2>2, <3>2 DEF Valued
      <4>2. known[w].avg \in Int /\ known[w].n \in Nat
        BY <3>2, LeaderboardAssumption
      <4>3. QED
        BY <3>1, <4>1, <4>2, StatIsValued
    <3>3. CASE w \notin DOMAIN known
      BY <2>2, <3>1, <3>3
    <3>4. QED
      BY <3>2, <3>3
  <2>5. RefreshInv'
    BY <1>1, <1>3 DEF BoardInv, RefreshInv
  <2>6. StatsInv'
    BY <1>3, <2>1, <2>3, <2>4 DEF BoardInv, StatsInv
  <2>7. RowsInv'
    BY <1>1, <1>3, <2>1, <2>3, <2>4 DEF BoardInv, RowsInv
  <2>8. OutcomeInv'
    BY <1>1, <2>3, <2>4, OutcomeStays
  <2>9. QED
    BY <2>5, <2>6, <2>7, <2>8 DEF BoardInv
<1>4. QED
  BY <1>2, <1>3 DEF FetchCLV

(* A value stored is one less to write; one that is not needs a failure.   *)
LEMMA ValueKeeps == ASSUME BoardInv, NEW w \in left, SetWalletCLV(w) PROVE BoardInv'
<1>1. /\ phase = "clv" /\ phase' = phase /\ pool' = pool /\ stats' = stats
      /\ left' = left \ {w} /\ table' = table /\ lastSync' = lastSync /\ refresh' = refresh
      /\ w \in DOMAIN stats /\ w \in DOMAIN rows /\ (Fault \/ faults' = faults)
      /\ UNCHANGED <<outcome, aborted>>
  BY DEF SetWalletCLV, BoardInv, StatsInv, RowsInv
<1>2. RefreshInv'
  BY <1>1, FaultCounts DEF BoardInv, RefreshInv
<1>3. StatsInv'
  BY <1>1 DEF BoardInv, StatsInv
<1>4. RowsInv'
  <2>1. CASE Fault /\ UNCHANGED rows
    <3>1. faults' > 0
      BY <2>1, FaultCounts
    <3>2. QED
      BY <1>1, <2>1, <3>1 DEF BoardInv, RowsInv
  <2>2. CASE /\ UNCHANGED faults
             /\ rows' = [rows EXCEPT ![w].avgCLV = stats[w].avgCLV, ![w].clvN = stats[w].clvN]
    <3>1. ValueBecomes(w)
      BY <1>1, <2>2, ValueIsWritten
    <3>2. QED
      BY <1>1, <2>2, <3>1 DEF BoardInv, RowsInv, ValueBecomes
  <2>3. QED
    BY <2>1, <2>2 DEF SetWalletCLV
<1>5. OutcomeInv'
  BY <1>1, OutcomeStays
<1>6. QED
  BY <1>2, <1>3, <1>4, <1>5 DEF BoardInv

(* What is selected clears every gate, and each of its rows is written.    *)
LEMMA ReplaceKeeps == BoardInv /\ Replace => BoardInv'
<1> SUFFICES ASSUME BoardInv, Replace PROVE BoardInv'
  OBVIOUS
<1>1. /\ phase \in {"clv", "select"} /\ left = {} /\ rows' = rows
      /\ lastSync' = lastSync /\ refresh' = refresh
  BY DEF Replace
<1>2. CASE Return /\ (Fault \/ UNCHANGED faults) /\ UNCHANGED table
  BY <1>1, <1>2, FaultCounts, ReturnKeeps DEF BoardInv, RefreshInv
<1>3. CASE /\ table' = Select(stats) /\ phase' = "sync"
           /\ UNCHANGED <<pool, aborted, stats, left, faults, outcome>>
  <2>1. Select(stats) \subseteq DOMAIN stats /\ \A w \in Select(stats) : meets(stats[w].rating)
    BY SelectTakesTheBest DEF BoardInv
  <2>2. RefreshInv'
    BY <1>1, <1>3 DEF BoardInv, RefreshInv
  <2>3. StatsInv'
    BY <1>1, <1>3 DEF BoardInv, StatsInv
  <2>4. faults \in Nat /\ (phase = "select" => faults > 0)
    BY DEF BoardInv, RefreshInv, RowsInv
  <2>5. RowsInv'
    BY <1>1, <1>3, <2>1, <2>4 DEF BoardInv, RowsInv
  <2>6. OutcomeInv'
    BY <1>1, <1>3, OutcomeStays
  <2>7. QED
    BY <2>2, <2>3, <2>5, <2>6 DEF BoardInv
<1>4. QED
  BY <1>2, <1>3 DEF Replace

(* Every step of a refresh keeps the invariant.                            *)
LEMMA BoardGoesOn == BoardInv /\ [BoardNext]_boardVars => BoardInv'
<1> SUFFICES ASSUME BoardInv, [BoardNext]_boardVars PROVE BoardInv'
  OBVIOUS
<1>1. CASE StartRefresh
  BY <1>1, StartKeeps
<1>2. CASE CrawlStep
  BY <1>2, CrawlKeeps, CrawlEndsKeeps DEF CrawlStep
<1>3. CASE ShrinkAll
  BY <1>3, ShrinkKeeps
<1>4. CASE \E w \in left : SetSkillScore(w) \/ SetWalletCLV(w)
  BY <1>4, SkillKeeps, ValueKeeps
<1>5. CASE FetchCLV
  BY <1>5, FetchKeeps
<1>6. CASE Replace
  BY <1>6, ReplaceKeeps
<1>7. CASE SetLastSync
  <2>1. /\ Return /\ UNCHANGED <<rows, table, refresh>> /\ lastSync' \in {lastSync, refresh}
        /\ Fault \/ UNCHANGED faults
    BY <1>7 DEF SetLastSync
  <2>2. QED
    BY <2>1, FaultCounts, ReturnKeeps
<1>8. CASE LeaderboardRestarts
  <2>1. Return /\ UNCHANGED <<rows, table, lastSync, refresh>> /\ Fault
    BY <1>8 DEF LeaderboardRestarts
  <2>2. QED
    BY <2>1, FaultCounts, ReturnKeeps
<1>9. CASE UNCHANGED boardVars
  <2>1. UNCHANGED <<phase, pool, aborted, stats, left, rows, table, lastSync, refresh, faults,
                    outcome>>
    BY <1>9 DEF boardVars, memory
  <2>2. QED
    BY <2>1 DEF BoardInv, RefreshInv, StatsInv, RowsInv, OutcomeInv
<1>10. QED
  BY <1>1, <1>2, <1>3, <1>4, <1>5, <1>6, <1>7, <1>8, <1>9 DEF BoardNext

(* The invariant holds of every behaviour.                                 *)
THEOREM BoardKept == BoardSpec => []BoardInv
BY BoardStarts, BoardGoesOn, PTL DEF BoardSpec

(* What is to be shown follows.                                            *)
LEMMA BoardInvIsSound == BoardInv => BoardIsSound
<1> SUFFICES ASSUME BoardInv PROVE BoardIsSound
  OBVIOUS
<1>1. SelectionIsEarned
  <2> SUFFICES ASSUME phase = "sync", NEW w \in table
               PROVE  /\ w \in DOMAIN stats /\ rows[w].computed = refresh
                      /\ meets(rows[w].rating)
                      /\ rows[w].skill = stats[w].score
                      /\ faults = 0 => /\ rows[w].avgCLV = stats[w].avgCLV
                                       /\ rows[w].clvN = stats[w].clvN
    BY DEF SelectionIsEarned
  <2>1. w \in DOMAIN stats /\ meets(stats[w].rating) /\ left = {}
    BY DEF BoardInv, StatsInv, RowsInv
  <2>2. QED
    BY <2>1 DEF BoardInv, RowsInv
<1>2. QED
  BY <1>1, BoardIsTyped DEF BoardIsSound

(* What is served of a wallet when it is put into the watchset is what it  *)
(* was chosen for, however the dozen writes of a refresh, their failures   *)
(* and the end of the process fall.                                        *)
THEOREM LeaderboardSelectsSoundly == BoardSpec => []BoardIsSound
BY BoardKept, BoardInvIsSound, PTL

(* The watchset changes only by a selection that is not empty.             *)
LEMMA TableChangesBySelection ==
    ASSUME BoardInv, [BoardNext]_boardVars, table' # table
    PROVE  table' = Select(stats) /\ Select(stats) # {} /\ phase \in {"clv", "select"}
<1>1. Replace
  BY DEF BoardNext, boardVars, memory, StartRefresh, CrawlStep, Crawl, CrawlFails, UpsertFails,
         ShrinkAll, SetSkillScore, SetWalletCLV, FetchCLV, SetLastSync, LeaderboardRestarts
<1>2. QED
  BY <1>1 DEF Replace

(* A gate that 0 clears does not tell whether the value was fetched.       *)
LEMMA OwnFiguresFail ==
    ASSUME BoardInv, NEW w \in DOMAIN outcome, w \in DOMAIN stats, ~meets(stats[w].rating),
           \/ outcome[w] = "rated"
           \/ outcome[w] = "unvalued" /\ ~(Criteria.minPortfolio > 0)
    PROVE  ~meets(OwnFigures(w))
<1> DEFINE q == stats[w].rating
           r == OwnFigures(w)
<1>1. /\ outcome[w] = "rated" => q.portfolio = Portfolio[w]
      /\ outcome[w] = "unvalued" => q.portfolio = 0
      /\ IsRating(q)
  BY DEF BoardInv, OutcomeInv, StatsInv, IsStat
<1>2. DOMAIN q = {"resolved", "winRate", "pnl", "roi", "traded", "fresh", "portfolio", "profit30"}
  BY <1>1 DEF IsRating
<1>3. /\ r.resolved = q.resolved /\ r.winRate = q.winRate /\ r.pnl = q.pnl
      /\ r.fresh = q.fresh /\ r.portfolio = Portfolio[w]
  BY <1>2 DEF OwnFigures
<1> HIDE DEF q, r
<1>4. CASE outcome[w] = "rated"
  BY <1>1, <1>3, <1>4 DEF meets, q, r
<1>5. CASE outcome[w] = "unvalued" /\ ~(Criteria.minPortfolio > 0)
  <2>1. q.portfolio >= Criteria.minPortfolio
    BY <1>1, <1>5, SelectionAssumption
  <2>2. QED
    BY <1>3, <2>1 DEF meets, q, r
<1>6. QED
  BY <1>4, <1>5

(* Nobody leaves the watchset but for a reason of its own, whatever the    *)
(* pages, histories, gates and sizes: the table changes only by a          *)
(* selection among candidates that were all crawled, and who clears the    *)
(* gates and is not in it leaves TopN others before it.  A fetch about the *)
(* wallet itself that fails is such a reason.                              *)
THEOREM LeaderboardLeavesForAReason == BoardSpec => LeavesForAReason
<1> DEFINE A == /\ table # {} => table' # {}
                /\ \A w \in table \ table' :
                     \/ w \notin DOMAIN outcome
                     \/ outcome[w] = "failed"
                     \/ outcome[w] = "unvalued" /\ Criteria.minPortfolio > 0
                     \/ w \in DOMAIN stats /\ (~meets(OwnFigures(w)) \/ Outranked(w))
<1>1. BoardInv /\ [BoardNext]_boardVars => A
  <2> SUFFICES ASSUME BoardInv, [BoardNext]_boardVars PROVE A
    OBVIOUS
  <2>1. CASE table' = table
    BY <2>1
  <2>2. CASE table' # table
    <3>1. table' = Select(stats) /\ Select(stats) # {} /\ phase \in {"clv", "select"}
      BY <2>2, TableChangesBySelection
    <3>2. \A w \in DOMAIN stats \ Select(stats) : meets(stats[w].rating) =>
             Cardinality({v \in Select(stats) : ~Above(stats[w], stats[v])}) = TopN
      BY SelectTakesTheBest DEF BoardInv
    <3>3. ASSUME NEW w \in table \ table', w \in DOMAIN outcome, outcome[w] # "failed",
                 ~(outcome[w] = "unvalued" /\ Criteria.minPortfolio > 0)
          PROVE  w \in DOMAIN stats /\ (~meets(OwnFigures(w)) \/ Outranked(w))
      <4>1. outcome[w] \in {"rated", "unvalued"} /\ w \in DOMAIN stats
        BY <3>1, <3>3 DEF BoardInv, OutcomeInv
      <4>2. CASE meets(stats[w].rating)
        BY <3>1, <3>2, <3>3, <4>1, <4>2 DEF Outranked
      <4>3. CASE ~meets(stats[w].rating)
        BY <3>3, <4>1, <4>3, OwnFiguresFail
      <4>4. QED
        BY <4>1, <4>2, <4>3
    <3>4. QED
      BY <3>1, <3>3
  <2>3. QED
    BY <2>1, <2>2
<1>2. QED
  BY <1>1, BoardKept, PTL DEF BoardSpec, LeavesForAReason

(* The closing-line value that is served is cleared only after pricewatch  *)
(* answered without the wallet.                                            *)
THEOREM LeaderboardCLVNeverFlashes == BoardSpec => CLVNeverFlashes
<1> DEFINE A == \A w \in DOMAIN rows :
                  rows[w].clvN > 0 /\ rows'[w].clvN = 0 => phase = "clv" /\ stats[w].clvN = 0
<1>1. BoardInv /\ [BoardNext]_boardVars => A
  <2> SUFFICES ASSUME BoardInv, [BoardNext]_boardVars, NEW w \in DOMAIN rows,
                      rows[w].clvN > 0, rows'[w].clvN = 0
               PROVE  phase = "clv" /\ stats[w].clvN = 0
    OBVIOUS
  <2>1. CASE rows' = rows
    BY <2>1
  <2>2. CASE \E i \in Running : Crawl(i)
    <3>1. PICK v, r : UpsertStats(v, r)
      BY <2>2 DEF Crawl
    <3>2. rows'[w].clvN = rows[w].clvN
      BY <3>1, UpsertKeeps DEF BoardInv, RowsInv
    <3>3. QED
      BY <3>2
  <2>3. CASE \E v \in left : SetSkillScore(v)
    <3>1. PICK v \in left : SetSkillScore(v)
      BY <2>3
    <3> DEFINE x == stats[v].score
    <3>2. CASE rows' = [rows EXCEPT ![v].skill = x]
      <4> HIDE DEF x
      <4>1. v \in DOMAIN rows
        BY DEF BoardInv, StatsInv, RowsInv
      <4>2. rows'[w].clvN = rows[w].clvN
        BY <3>2, <4>1, SkillIsWritten DEF SkillBecomes
      <4>3. QED
        BY <4>2
    <3>3. QED
      BY <2>1, <3>1, <3>2 DEF SetSkillScore
  <2>4. CASE \E v \in left : SetWalletCLV(v)
    <3>1. PICK v \in left : SetWalletCLV(v)
      BY <2>4
    <3>2. CASE rows' = [rows EXCEPT ![v].avgCLV = stats[v].avgCLV, ![v].clvN = stats[v].clvN]
      <4>1. v \in DOMAIN rows
        BY DEF BoardInv, StatsInv, RowsInv
      <4>2. rows'[w].clvN = IF w = v THEN stats[v].clvN ELSE rows[w].clvN
        BY <3>2, <4>1, ValueIsWritten DEF ValueBecomes
      <4>3. phase = "clv"
        BY <3>1 DEF SetWalletCLV
      <4>4. QED
        BY <4>2, <4>3
    <3>3. QED
      BY <2>1, <3>1, <3>2 DEF SetWalletCLV
  <2>5. QED
    BY <2>1, <2>2, <2>3, <2>4
    DEF BoardNext, boardVars, StartRefresh, CrawlStep, CrawlFails, UpsertFails, ShrinkAll,
        FetchCLV, Replace, SetLastSync, LeaderboardRestarts
<1>2. QED
  BY <1>1, BoardKept, PTL DEF BoardSpec, CLVNeverFlashes

(* Skill is sound once every wallet is scored ...                          *)
LEMMA ShrinkSkills ==
    ASSUME BoardInv, ShrinkAll
    PROVE  SkillIsSound'
<1>1. CASE aborted
  BY <1>1 DEF ShrinkAll, Return, SkillIsSound
<1>2. CASE ~aborted
  <2>1. stats' = [w \in DOMAIN stats |->
                    [stats[w] EXCEPT !.shrunk = Shrunk(stats, w), !.score = Score(stats, w)]]
    BY <1>2 DEF ShrinkAll
  <2>2. IsPopulation(stats) /\ \A w \in DOMAIN stats : IsStat(stats[w])
    BY DEF BoardInv, StatsInv, IsStat, IsRating, IsPopulation
  <2>3. DOMAIN stats' = DOMAIN stats
    BY <2>1
  <2>4. ASSUME NEW w \in DOMAIN stats
        PROVE  /\ stats'[w].rating = stats[w].rating
               /\ stats'[w].shrunk = Shrunk(stats, w) /\ stats'[w].score = Score(stats, w)
    <3>1. stats'[w] = Scored(stats[w], Shrunk(stats, w), Score(stats, w))
      BY <2>1 DEF Scored
    <3>2. IsStat(stats[w]) /\ Shrunk(stats, w) \in Int
      BY <2>2, ShrunkIsBetween
    <3>3. QED
      BY <3>1, <3>2, StatIsScored
  <2>5. PopulationMean(stats') = PopulationMean(stats)
    BY <2>3, <2>4, MeanOfRatings
  <2>6. ASSUME NEW v \in DOMAIN stats, NEW w \in DOMAIN stats
        PROVE  /\ \/ /\ 100 * stats'[v].rating.roi <= stats'[v].shrunk
                     /\ stats'[v].shrunk <= PopulationMean(stats')
                  \/ /\ PopulationMean(stats') <= stats'[v].shrunk
                     /\ stats'[v].shrunk <= 100 * stats'[v].rating.roi
               /\ stats'[v].shrunk >= stats'[w].shrunk => stats'[v].score >= stats'[w].score
               /\ stats'[v].score \in 0 .. 100
    <3>1. /\ \/ /\ 100 * stats[v].rating.roi <= Shrunk(stats, v)
                /\ Shrunk(stats, v) <= PopulationMean(stats)
             \/ /\ PopulationMean(stats) <= Shrunk(stats, v)
                /\ Shrunk(stats, v) <= 100 * stats[v].rating.roi
          /\ Shrunk(stats, v) >= Shrunk(stats, w) => Score(stats, v) >= Score(stats, w)
          /\ Score(stats, v) \in 0 .. 100
      BY <2>2, ShrunkIsBetween, ScoreGrows
    <3>2. QED
      BY <2>4, <2>5, <3>1
  <2>7. QED
    BY <2>3, <2>6 DEF SkillIsSound
<1>3. QED
  BY <1>1, <1>2

(* ... and stays so: what pricewatch answers changes none of it.           *)
LEMMA FetchKeepsSkill ==
    ASSUME BoardInv, SkillIsSound, FetchCLV
    PROVE  SkillIsSound'
<1>1. phase = "score"
  BY DEF FetchCLV
<1>2. CASE stats' = stats
  BY <1>1, <1>2 DEF SkillIsSound
<1>3. CASE \E known \in ClvAnswers :
             stats' = [w \in DOMAIN stats |->
                         IF w \in DOMAIN known
                         THEN [stats[w] EXCEPT !.avgCLV = known[w].avg, !.clvN = known[w].n]
                         ELSE stats[w]]
  <2>1. PICK known \in ClvAnswers :
             stats' = [w \in DOMAIN stats |->
                         IF w \in DOMAIN known
                         THEN [stats[w] EXCEPT !.avgCLV = known[w].avg, !.clvN = known[w].n]
                         ELSE stats[w]]
    BY <1>3
  <2>2. DOMAIN stats' = DOMAIN stats
    BY <2>1
  <2>3. ASSUME NEW w \in DOMAIN stats
        PROVE  /\ stats'[w].rating = stats[w].rating
               /\ stats'[w].shrunk = stats[w].shrunk /\ stats'[w].score = stats[w].score
    <3>1. CASE w \in DOMAIN known
      <4>1. stats'[w] = Valued(stats[w], known[w].avg, known[w].n)
        BY <2>1, <3>1 DEF Valued
      <4>2. IsStat(stats[w]) /\ known[w].avg \in Int /\ known[w].n \in Nat
        BY <3>1, LeaderboardAssumption DEF BoardInv, StatsInv
      <4>3. QED
        BY <4>1, <4>2, StatIsValued
    <3>2. CASE w \notin DOMAIN known
      BY <2>1, <3>2
    <3>3. QED
      BY <3>1, <3>2
  <2>4. PopulationMean(stats') = PopulationMean(stats)
    BY <2>2, <2>3, MeanOfRatings
  <2>5. QED
    BY <1>1, <2>2, <2>3, <2>4 DEF SkillIsSound
<1>4. QED
  BY <1>2, <1>3 DEF FetchCLV

(* From the scores to the selection, every estimate lies between the       *)
(* wallet's own return and the mean of the population, and scores follow   *)
(* the estimates, for all populations and priors.                          *)
THEOREM LeaderboardSkillIsSound == BoardSpec => []SkillIsSound
<1>1. BoardInit => SkillIsSound
  BY DEF BoardInit, SkillIsSound
<1>2. BoardInv /\ SkillIsSound /\ [BoardNext]_boardVars => SkillIsSound'
  <2> SUFFICES ASSUME BoardInv, SkillIsSound, [BoardNext]_boardVars PROVE SkillIsSound'
    OBVIOUS
  <2>1. CASE /\ stats' = stats
             /\ \/ phase \in {"score", "clv", "select", "sync"}
                \/ phase' \in {"idle", "crawl"}
    BY <2>1 DEF SkillIsSound
  <2>2. CASE phase' \in {"idle", "crawl"}
    BY <2>2 DEF SkillIsSound
  <2>3. CASE ShrinkAll
    BY <2>3, ShrinkSkills
  <2>4. CASE FetchCLV
    BY <2>4, FetchKeepsSkill
  <2>5. CASE CrawlStep
    <3>1. phase' = "crawl"
      BY <2>5 DEF CrawlStep, Crawl, CrawlFails, UpsertFails
    <3>2. QED
      BY <2>2, <3>1
  <2>6. CASE StartRefresh
    BY <2>2, <2>6 DEF StartRefresh
  <2>7. CASE \E w \in left : SetSkillScore(w) \/ SetWalletCLV(w)
    BY <2>1, <2>2, <2>7 DEF SetSkillScore, SetWalletCLV, Return
  <2>8. CASE Replace \/ SetLastSync \/ LeaderboardRestarts
    BY <2>1, <2>2, <2>8 DEF Replace, SetLastSync, LeaderboardRestarts, Return
  <2>9. CASE UNCHANGED boardVars
    BY <2>9 DEF boardVars, memory, SkillIsSound
  <2>10. QED
    BY <2>3, <2>4, <2>5, <2>6, <2>7, <2>8, <2>9 DEF BoardNext
<1>3. QED
  BY <1>1, <1>2, BoardKept, PTL DEF BoardSpec

-----------------------------------------------------------------------------
(* The pool only holds wallets whose ratings can be relied on: every       *)
(* return has its cost, what ended counts and what is held does not, and   *)
(* one bad market cools nobody off.                                        *)
THEOREM LeaderboardRatesSoundly == BoardSpec => []RatingsAreSound
<1>1. BoardInv => RatingsAreSound
  <2> SUFFICES ASSUME BoardInv, NEW candidate \in ToSet(pool)
               PROVE  Histories[candidate.wallet] \subseteq SoundHistories[candidate.wallet]
    BY DEF RatingsAreSound
  <2>1. candidate \in Candidates
    <3>1. pool \in Seq(Candidates)
      BY DEF BoardInv, RefreshInv
    <3>2. QED
      BY <3>1 DEF ToSet
  <2>2. candidate.wallet \in Wallets
    BY <2>1, PoolsAreCandidates
  <2>3. QED
    BY <2>2, EveryRatingIsSound DEF SoundHistories
<1>2. QED
  BY <1>1, BoardKept, PTL
=============================================================================
