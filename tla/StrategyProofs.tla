---------------------------- MODULE StrategyProofs ----------------------------
(***************************************************************************)
(* What strategy remembers and what it publishes, proved for all batches   *)
(* of logs, policies, markets, books, capacities and bounds.               *)
(***************************************************************************)
EXTENDS Strategy, SumTheorems

(***************************************************************************)
(* The inductive invariant, in two parts: that of the two generations      *)
(* against the verdicts given, and that of the proposal under way.         *)
(***************************************************************************)

(* What may be on the bus, and what has been decided.                      *)
Detected == UNION {TradesOf(logs) : logs \in Batches}

Priced(t) == t.price \in Nat /\ t.size \in Nat

Verdicts ==
    [id : {ProposalID(t) : t \in Detected},
     verdict : {"retry", "duplicate", "skipped", "vetoed", "lost", "proposed"}]

Pending == {x.proposal.id : x \in offer}

(* The ids decided in v after its i-th entry.                              *)
After(v, i) == {v[k].id : k \in {n \in i + 1 .. Len(v) : Done(v[n])}}

(* The generations c and o, the verdicts v and the ids P under way fit: an *)
(* id that left c has all of c decided after it, and one that left both    *)
(* has all of o; what is in them was decided or is under way; and if it is *)
(* under way, it was free when it was added.                               *)
Remembers(c, o, v, P) ==
    /\ \A i \in DOMAIN v : Done(v[i]) =>
         /\ v[i].id \in c \/ c \subseteq After(v, i) \cup P
         /\ v[i].id \in c \cup o \/ (o # {} /\ o \subseteq After(v, i) \cup P)
    /\ \A s \in c \cup o : s \in P \/ \E i \in DOMAIN v : Done(v[i]) /\ v[i].id = s
    /\ \A s \in P :
         /\ s \in c \/ (c = {} /\ s \in o)
         /\ \A i \in DOMAIN v :
              Done(v[i]) /\ v[i].id = s => Cardinality(After(v, i)) >= Capacity

(* Each generation is smaller than the capacity, or full and closed.       *)
Generations(c, o) ==
    /\ IsFiniteSet(c) /\ IsFiniteSet(o) /\ c \cap o = {}
    /\ Cardinality(c) < Capacity /\ Cardinality(o) \in {0, Capacity}

MemoryInv ==
    /\ TypeOK
    /\ queue \in Seq(Detected) /\ verdicts \in Seq(Verdicts)
    /\ Generations(cur, old)
    /\ Remembers(cur, old, verdicts, Pending)
    /\ Inv
    /\ stage # "idle" => Pending = {Id}
    /\ stage = "idle" => offer = {}

(* The proposal under way is of the trade at the head of the queue, with   *)
(* the limit of the policy; once it is to be published, it is sized.       *)
Offer ==
    [proposal : [id : {ProposalID(t) : t \in Detected}, trade : Detected, limit : Nat,
                 sizeUSD : Nat],
     market : Markets, row : SUBSET Rows, book : SUBSET Books]

OfferInv ==
    /\ offer \subseteq Offer
    /\ stage = "size" => policy.engine
    /\ \A x \in offer :
         /\ x.proposal.id = ProposalID(Trade)
         /\ x.proposal.limit = limitPrice(x.proposal.trade, policy)
         /\ x.proposal.limit >= Tick

(* The best ask of a book is not empty: a depth of zero would be no cap.   *)
BooksHaveDepth ==
    \A b \in Books : b.asks # <<>> => b.asks[1].price > 0 /\ b.asks[1].size > 0

SizedInv ==
    BooksHaveDepth /\ stage = "publish" => \A x \in offer : SizedWithin(x) /\ WorthIt(x)

StrategyInv == MemoryInv /\ OfferInv /\ SizedInv
-----------------------------------------------------------------------------
(* What arrives from the watcher.                                          *)

(* An event keeps the amounts of its log, and a log has one event at most. *)
LEMMA OneEvent ==
    \A l : /\ \A of \in Decoded(l) : /\ of.makerAmount = l.makerAmount
                                     /\ of.takerAmount = l.takerAmount
                                     /\ of.index = l.index
           /\ \A of, e \in Decoded(l) : of = e
<1> SUFFICES ASSUME NEW l
             PROVE  /\ \A of \in Decoded(l) : /\ of.makerAmount = l.makerAmount
                                              /\ of.takerAmount = l.takerAmount
                                              /\ of.index = l.index
                    /\ \A of, e \in Decoded(l) : of = e
  OBVIOUS
<1>1. Decoded(l) \in {DecodeOrderFilled(l), DecodeOrderFilledLegacy(l), {}}
  BY DEF Decoded
<1>2. \A side, token : /\ OrderFilled(l, side, token).makerAmount = l.makerAmount
                       /\ OrderFilled(l, side, token).takerAmount = l.takerAmount
                       /\ OrderFilled(l, side, token).index = l.index
  BY DEF OrderFilled
<1>3. Decoded(l) = {} \/ \E side, token : Decoded(l) = {OrderFilled(l, side, token)}
  <2> HIDE DEF OrderFilled
  <2>1. QED
    BY <1>1 DEF DecodeOrderFilled, DecodeOrderFilledLegacy
<1>4. QED
  BY <1>2, <1>3

(* The fills of a batch are finitely many, with amounts that are numbers.  *)
LEMMA FillsOfBatch ==
    ASSUME NEW logs \in Batches
    PROVE  /\ IsFiniteSet(WatchedFills(logs, Watched))
           /\ \A f \in WatchedFills(logs, Watched) :
                 f.usdc \in Nat /\ f.shares \in Nat /\ f.index \in Nat
<1> DEFINE Of(l) == {FillFor(of, role) : of \in Decoded(l), role \in {"maker", "taker"}}
           All == {[m \in logs |-> Of(m)][l] : l \in logs}
<1>1. \A l \in logs : IsFiniteSet(Of(l))
  <2> TAKE l \in logs
  <2>1. CASE Decoded(l) = {}
    <3>1. Of(l) = {}
      BY <2>1
    <3>2. QED
      BY <3>1, FS_EmptySet
  <2>2. CASE \E of : of \in Decoded(l)
    <3>1. PICK of : of \in Decoded(l)
      BY <2>2
    <3>2. \A e \in Decoded(l) : e = of
      BY <3>1, OneEvent
    <3>3. Of(l) = {FillFor(of, "maker")} \cup {FillFor(of, "taker")}
      <4> HIDE DEF FillFor
      <4>1. QED
        BY <3>1, <3>2
    <3>4. \A x : IsFiniteSet({x})
      BY FS_Singleton
    <3>5. \A x, y : IsFiniteSet({x} \cup {y})
      BY <3>4, FS_Union
    <3> HIDE DEF Of
    <3>6. QED
      BY <3>3, <3>5
  <2>3. QED
    BY <2>1, <2>2
<1>2. IsFiniteSet(UNION All)
  <2> HIDE DEF Of
  <2>1. IsFiniteSet(All)
    BY ImageIsFinite, StrategyAssumption
  <2>2. \A T \in All : IsFiniteSet(T)
    BY <1>1
  <2>3. QED
    BY <2>1, <2>2, FS_UNION
<1>3. WatchedFills(logs, Watched) = {f \in UNION All : f.wallet \in Watched}
  BY DEF WatchedFills
<1>4. IsFiniteSet(WatchedFills(logs, Watched))
  BY <1>2, <1>3, FS_Subset
<1>5. ASSUME NEW f \in WatchedFills(logs, Watched)
      PROVE  f.usdc \in Nat /\ f.shares \in Nat /\ f.index \in Nat
  <2>0. PICK l \in logs : f \in Of(l)
    BY <1>5, <1>3
  <2>1. PICK of \in Decoded(l) : \E role \in {"maker", "taker"} : f = FillFor(of, role)
    BY <2>0
  <2>2. l.makerAmount \in Nat /\ l.takerAmount \in Nat /\ l.index \in Nat
    BY StrategyAssumption
  <2>3. of.makerAmount \in Nat /\ of.takerAmount \in Nat /\ of.index \in Nat
    BY <2>1, <2>2, OneEvent
  <2>4. QED
    BY <2>1, <2>3 DEF FillFor
<1>6. QED
  BY <1>4, <1>5

(* So are its trades.                                                      *)
LEMMA TradesOfBatch ==
    ASSUME NEW logs \in Batches
    PROVE  /\ IsFiniteSet(TradesOf(logs))
           /\ \A t \in TradesOf(logs) : Priced(t) /\ t.index \in Int
<1> DEFINE fills == WatchedFills(logs, Watched)
           keys == {[g \in fills |-> key(g)][f] : f \in fills}
           group(k) == {f \in fills : key(f) = k}
           usdc(k) == SumFunctionOnSet([f \in group(k) |-> f.usdc], group(k))
           shares(k) == SumFunctionOnSet([f \in group(k) |-> f.shares], group(k))
           first(k) == Min({f.index : f \in group(k)})
           trade(k) ==
             [tx |-> k.tx, wallet |-> k.wallet, token |-> k.token, side |-> k.side,
              price |-> priceString(usdc(k), shares(k)), size |-> shares(k),
              index |-> first(k)]
           trades == {[c \in keys |-> trade(c)][k] : k \in keys}
<1>1. IsFiniteSet(fills) /\ IsFiniteSet(keys)
  BY FillsOfBatch, ImageIsFinite
<1>2. \A f \in fills : f.usdc \in Nat /\ f.shares \in Nat /\ f.index \in Nat
  BY FillsOfBatch
<1>3. TradesOf(logs) = trades
  BY DEF TradesOf, AggregateByTx
<1>4. IsFiniteSet(trades)
  <2> HIDE DEF keys, trade
  <2>1. QED
    BY <1>1, ImageIsFinite
<1>5. ASSUME NEW k \in keys
      PROVE  usdc(k) \in Nat /\ shares(k) \in Nat /\ first(k) \in Int
  <2>1. group(k) # {} /\ IsFiniteSet(group(k))
    BY <1>1, <1>5, FS_Subset
  <2>2. usdc(k) \in Nat
    <3> DEFINE g == [f \in group(k) |-> f.usdc]
    <3>1. \A x \in group(k) : g[x] \in Nat
      BY <1>2
    <3> HIDE DEF group, g
    <3>2. SumFunctionOnSet(g, group(k)) \in Nat
      BY <3>1, <2>1, SumType
    <3>3. QED
      BY <3>2 DEF g
  <2>3. shares(k) \in Nat
    <3> DEFINE g == [f \in group(k) |-> f.shares]
    <3>1. \A x \in group(k) : g[x] \in Nat
      BY <1>2
    <3> HIDE DEF group, g
    <3>2. SumFunctionOnSet(g, group(k)) \in Nat
      BY <3>1, <2>1, SumType
    <3>3. QED
      BY <3>2 DEF g
  <2>4. first(k) \in Int
    <3> DEFINE g == [f \in group(k) |-> f.index]
    <3>1. \A x \in group(k) : g[x] = x.index /\ x.index \in Int
      BY <1>2
    <3> HIDE DEF group, g
    <3>2. PICK m \in group(k) : \A x \in group(k) : g[m] <= g[x]
      BY <3>1, <2>1, HasLeast
    <3>3. \E x \in {f.index : f \in group(k)} : \A y \in {f.index : f \in group(k)} : x <= y
      BY <3>1, <3>2
    <3>4. first(k) \in {f.index : f \in group(k)}
      BY <3>3 DEF Min
    <3>5. QED
      BY <3>4, <3>1
  <2>5. QED
    BY <2>2, <2>3, <2>4
<1>6. ASSUME NEW u \in Nat, NEW s \in Nat PROVE priceString(u, s) \in Nat
  <2>1. CASE s = 0
    BY <2>1 DEF priceString
  <2>2. CASE s # 0
    <3>1. Unit \in Nat
      BY UnitAssumption
    <3>2. 2 * u * Unit + s \in Nat /\ 2 * s \in Nat \ {0}
      BY <3>1, <2>2
    <3>3. (2 * u * Unit + s) \div (2 * s) \in Nat
      BY <3>2
    <3>4. QED
      BY <3>3, <2>2 DEF priceString
  <2>3. QED
    BY <2>1, <2>2
<1>7. ASSUME NEW t \in trades PROVE Priced(t) /\ t.index \in Int
  <2> HIDE DEF keys, usdc, shares, first
  <2>1. PICK k \in keys : t = trade(k)
    BY <1>7
  <2>2. QED
    BY <2>1, <1>5, <1>6 DEF Priced
<1>8. QED
  BY <1>3, <1>4, <1>7

-----------------------------------------------------------------------------
(* The queue.                                                              *)

InGroups(s) ==
    \A i, j \in DOMAIN s : i < j /\ s[i].tx = s[j].tx =>
        s[i].index <= s[j].index /\ \A k \in i .. j : s[k].tx = s[i].tx

Lists(s, T) ==
    /\ s \in [1 .. Cardinality(T) -> T]
    /\ {s[i] : i \in DOMAIN s} = T
    /\ InGroups(s)

EndsWith(s, x) == \A i, j \in DOMAIN s : i < j /\ s[i].tx = x => s[j].tx = x

(* One more trade of the transaction that comes last goes to the end.      *)
LEMMA ListsOneMore ==
    ASSUME NEW T, IsFiniteSet(T), NEW t, t \notin T, NEW s, Lists(s, T), EndsWith(s, t.tx),
           \A u \in T : u.index \in Int, t.index \in Int,
           \A u \in T : u.tx = t.tx => u.index <= t.index
    PROVE  \E r : Lists(r, T \cup {t}) /\ EndsWith(r, t.tx) /\
                  \A x : (\A u \in T \cup {t} : u.tx # x) => EndsWith(r, x)
<1> DEFINE n == Cardinality(T)
           r == [i \in 1 .. n + 1 |-> IF i = n + 1 THEN t ELSE s[i]]
<1>1. n \in Nat /\ Cardinality(T \cup {t}) = n + 1
  BY FS_CardinalityType, FS_AddElement
<1> HIDE DEF n
<1>2. s \in [1 .. n -> T] /\ {s[i] : i \in DOMAIN s} = T /\ DOMAIN s = 1 .. n
  BY DEF Lists, n
<1>3. r \in [1 .. n + 1 -> T \cup {t}]
  BY <1>1, <1>2
<1>4. r[n + 1] = t /\ \A i \in 1 .. n : r[i] = s[i] /\ r[i] \in T
  BY <1>1, <1>2
<1>5. DOMAIN r = 1 .. n + 1
  OBVIOUS
<1> HIDE DEF r
<1>6. {r[i] : i \in DOMAIN r} = T \cup {t}
  <2>1. \A i \in DOMAIN r : r[i] \in T \cup {t}
    BY <1>3, <1>5
  <2>2. ASSUME NEW u \in T PROVE \E i \in DOMAIN r : r[i] = u
    <3>1. PICK i \in 1 .. n : s[i] = u
      BY <1>2
    <3>2. i \in DOMAIN r
      BY <1>1, <1>5
    <3>3. QED
      BY <3>1, <3>2, <1>4
  <2>3. n + 1 \in DOMAIN r
    BY <1>1, <1>5
  <2>4. QED
    BY <2>1, <2>2, <2>3, <1>4
<1>7. ASSUME NEW i \in DOMAIN r, NEW j \in DOMAIN r, i < j, r[i].tx = r[j].tx
      PROVE  r[i].index <= r[j].index /\ \A k \in i .. j : r[k].tx = r[i].tx
  <2>1. i \in 1 .. n
    BY <1>1, <1>5, <1>7
  <2>2. CASE j \in 1 .. n
    <3>1. s[i].index <= s[j].index /\ \A k \in i .. j : s[k].tx = s[i].tx
      BY <2>1, <2>2, <1>2, <1>4, <1>7 DEF Lists, InGroups
    <3>2. \A k \in i .. j : k \in 1 .. n
      BY <2>1, <2>2, <1>1
    <3>3. QED
      BY <3>1, <3>2, <2>1, <2>2, <1>4
  <2>3. CASE j = n + 1
    <3>1. r[i].tx = t.tx /\ r[i] \in T
      BY <2>1, <2>3, <1>4, <1>7
    <3>2. r[i].index <= r[j].index
      BY <3>1, <2>3, <1>4
    <3>3. ASSUME NEW k \in i .. j PROVE r[k].tx = t.tx
      <4>1. k \in 1 .. n \/ k = n + 1
        BY <2>1, <2>3, <1>1
      <4>2. CASE k \in 1 .. n /\ i < k
        BY <4>2, <2>1, <3>1, <1>2, <1>4 DEF EndsWith
      <4>3. CASE k = i
        BY <4>3, <3>1
      <4>4. CASE k = n + 1
        BY <4>4, <1>4
      <4>5. QED
        BY <4>1, <4>2, <4>3, <4>4, <2>1, <1>1
    <3>4. QED
      BY <3>1, <3>2, <3>3
  <2>4. QED
    BY <2>2, <2>3, <1>1, <1>5
<1>8. Lists(r, T \cup {t})
  BY <1>1, <1>3, <1>6, <1>7 DEF Lists, InGroups
<1>9. EndsWith(r, t.tx)
  <2> SUFFICES ASSUME NEW i \in DOMAIN r, NEW j \in DOMAIN r, i < j, r[i].tx = t.tx
               PROVE  r[j].tx = t.tx
    BY DEF EndsWith
  <2>1. i \in 1 .. n
    BY <1>1, <1>5
  <2>2. CASE j \in 1 .. n
    BY <2>1, <2>2, <1>2, <1>4 DEF EndsWith
  <2>3. CASE j = n + 1
    BY <2>3, <1>4
  <2>4. QED
    BY <2>2, <2>3, <1>1, <1>5
<1>10. \A x : (\A u \in T \cup {t} : u.tx # x) => EndsWith(r, x)
  BY <1>3, <1>5 DEF EndsWith
<1>11. QED
  BY <1>8, <1>9, <1>10

(* Finitely many trades can be listed so that a given transaction is last. *)
LEMMA ListExists ==
    ASSUME NEW F, IsFiniteSet(F), \A t \in F : t.index \in Int
    PROVE  \A T \in SUBSET F : \A x : \E s : Lists(s, T) /\ EndsWith(s, x)
<1> DEFINE Bad == {T \in SUBSET F : ~ \A x : \E s : Lists(s, T) /\ EndsWith(s, x)}
<1>1. SUFFICES ASSUME Bad # {} PROVE FALSE
  BY <1>1
<1>2. PICK T \in Bad : \A R \in Bad : R \subseteq T => R = T
  <2> HIDE DEF Bad
  <2>1. Bad \in SUBSET SUBSET F
    BY DEF Bad
  <2>2. QED
    BY <2>1, <1>1, SmallestSubset
<1>3. PICK x : ~ \E s : Lists(s, T) /\ EndsWith(s, x)
  BY <1>2
<1>4. T \in SUBSET F /\ IsFiniteSet(T)
  BY <1>2, FS_Subset
<1>5. CASE T = {}
  <2>1. Cardinality(T) = 0
    BY <1>5, FS_EmptySet
  <2>2. DOMAIN <<>> = {} /\ <<>> \in [1 .. 0 -> {}]
    OBVIOUS
  <2>3. Lists(<<>>, T) /\ EndsWith(<<>>, x)
    BY <2>1, <2>2, <1>5 DEF Lists, InGroups, EndsWith
  <2>4. QED
    BY <2>3, <1>3
<1>6. CASE T # {}
  <2>1. PICK y \in {t.tx : t \in T} : (\E t \in T : t.tx = x) => y = x
    BY <1>6
  <2> DEFINE G == {t \in T : t.tx = y}
             f == [t \in G |-> t.index]
  <2>2. IsFiniteSet(G) /\ G # {} /\ \A t \in G : f[t] \in Int
    BY <2>1, <1>4, FS_Subset
  <2>3. PICK t \in G : \A u \in G : f[u] <= f[t]
    <3> HIDE DEF G, f
    <3>1. QED
      BY <2>2, HasGreatest
  <2>4. \A u \in T \ {t} : u.tx = t.tx => u.index <= t.index
    BY <2>3
  <2>5. PICK s : Lists(s, T \ {t}) /\ EndsWith(s, t.tx)
    <3>1. T \ {t} \notin Bad /\ T \ {t} \in SUBSET F
      BY <1>2, <1>4, <2>3
    <3>2. QED
      BY <3>1
  <2>6. PICK r : /\ Lists(r, (T \ {t}) \cup {t}) /\ EndsWith(r, t.tx)
                 /\ \A z : (\A u \in (T \ {t}) \cup {t} : u.tx # z) => EndsWith(r, z)
    <3>1. IsFiniteSet(T \ {t}) /\ t \notin T \ {t} /\ t.index \in Int
      BY <1>4, <2>3, FS_Subset
    <3>2. \A u \in T \ {t} : u.index \in Int
      BY <1>4
    <3>3. QED
      BY <3>1, <3>2, <2>4, <2>5, ListsOneMore
  <2>7. (T \ {t}) \cup {t} = T
    BY <2>3
  <2>8. EndsWith(r, x)
    BY <2>1, <2>3, <2>6, <2>7
  <2>9. QED
    BY <2>6, <2>7, <2>8, <1>3
<1>7. QED
  BY <1>5, <1>6

(* What Detect appends are the trades of the batch.                        *)
LEMMA SortedTrades ==
    ASSUME NEW logs \in Batches
    PROVE  /\ Sorted(TradesOf(logs)) \in Seq(TradesOf(logs))
           /\ Len(Sorted(TradesOf(logs))) = Cardinality(TradesOf(logs))
           /\ {Sorted(TradesOf(logs))[i] : i \in DOMAIN Sorted(TradesOf(logs))} = TradesOf(logs)
<1> DEFINE T == TradesOf(logs)
<1>1. IsFiniteSet(T) /\ \A t \in T : t.index \in Int
  BY TradesOfBatch
<1>2. Cardinality(T) \in Nat
  BY <1>1, FS_CardinalityType
<1>3. PICK s : Lists(s, T)
  <2> HIDE DEF T
  <2>1. QED
    BY <1>1, ListExists
<1>4. Sorted(T) \in [1 .. Cardinality(T) -> T] /\ {Sorted(T)[i] : i \in DOMAIN Sorted(T)} = T
  <2> HIDE DEF T
  <2>1. \E r \in [1 .. Cardinality(T) -> T] :
            /\ {r[i] : i \in DOMAIN r} = T
            /\ \A i, j \in DOMAIN r : i < j /\ r[i].tx = r[j].tx =>
                 r[i].index <= r[j].index /\ \A k \in i .. j : r[k].tx = r[i].tx
    BY <1>3 DEF Lists, InGroups
  <2>2. QED
    BY <2>1 DEF Sorted
<1>5. QED
  <2> HIDE DEF T
  <2>1. Sorted(T) \in Seq(T) /\ Len(Sorted(T)) = Cardinality(T)
    BY <1>2, <1>4
  <2>2. QED
    BY <1>4, <2>1 DEF T

-----------------------------------------------------------------------------
(* The generations against the verdicts.                                   *)

(* There are finitely many ids after an entry.                             *)
LEMMA AfterIsFinite ==
    ASSUME NEW v \in Seq(Verdicts), NEW i \in DOMAIN v
    PROVE  IsFiniteSet(After(v, i))
<1> DEFINE K == {n \in i + 1 .. Len(v) : Done(v[n])}
           f == [k \in K |-> v[k].id]
<1>1. i \in Int /\ Len(v) \in Nat
  OBVIOUS
<1>2. IsFiniteSet(i + 1 .. Len(v))
  BY <1>1, FS_Interval
<1>3. IsFiniteSet(K)
  BY <1>2, FS_Subset
<1>4. IsFiniteSet({f[k] : k \in K})
  <2> HIDE DEF K, f
  <2>1. QED
    BY <1>3, ImageIsFinite
<1>5. After(v, i) = {f[k] : k \in K}
  BY DEF After
<1>6. QED
  BY <1>4, <1>5

(* What one more verdict changes.                                          *)
LEMMA AppendVerdict ==
    ASSUME NEW v \in Seq(Verdicts), NEW w \in Verdicts
    PROVE  LET r == Append(v, w) IN
           /\ r \in Seq(Verdicts) /\ Len(r) = Len(v) + 1
           /\ DOMAIN r = DOMAIN v \cup {Len(v) + 1}
           /\ \A i \in DOMAIN v : /\ r[i] = v[i]
                                  /\ After(r, i) = IF Done(w) THEN After(v, i) \cup {w.id}
                                                   ELSE After(v, i)
           /\ r[Len(v) + 1] = w
           /\ After(r, Len(v) + 1) = {}
<1> DEFINE r == Append(v, w)
           n == Len(v)
<1>1. r \in Seq(Verdicts) /\ Len(r) = n + 1 /\ n \in Nat
      /\ DOMAIN v = 1 .. n /\ DOMAIN r = 1 .. n + 1
      /\ r[n + 1] = w /\ \A i \in 1 .. n : r[i] = v[i]
  OBVIOUS
<1> HIDE DEF r
<1>2. DOMAIN r = DOMAIN v \cup {n + 1}
  BY <1>1
<1>3. After(r, n + 1) = {}
  BY <1>1 DEF After
<1>4. ASSUME NEW i \in DOMAIN v
      PROVE  After(r, i) = IF Done(w) THEN After(v, i) \cup {w.id} ELSE After(v, i)
  <2>1. i \in 1 .. n
    BY <1>1
  <2>2. \A k : k \in i + 1 .. n + 1 <=> k \in i + 1 .. n \/ k = n + 1
    BY <2>1, <1>1
  <2>3. \A k \in i + 1 .. n : r[k] = v[k]
    BY <2>1, <1>1
  <2>4. CASE Done(w)
    <3>1. After(r, i) = After(v, i) \cup {w.id}
      BY <2>2, <2>3, <2>4, <1>1 DEF After
    <3>2. QED
      BY <3>1, <2>4
  <2>5. CASE ~Done(w)
    <3>1. After(r, i) = After(v, i)
      BY <2>2, <2>3, <2>5, <1>1 DEF After
    <3>2. QED
      BY <3>1, <2>5
  <2>6. QED
    BY <2>4, <2>5
<1>5. QED
  BY <1>1, <1>2, <1>3, <1>4 DEF r

(* An id that is not remembered is added: whatever leaves, leaves with a   *)
(* full generation after it.                                               *)
LEMMA AddRemembers ==
    ASSUME NEW c, NEW o, NEW v \in Seq(Verdicts), NEW id, id \notin c \cup o,
           Generations(c, o), Remembers(c, o, v, {}),
           NEW d, NEW e,
           \/ /\ Cardinality(c \cup {id}) < Capacity
              /\ d = c \cup {id} /\ e = o
           \/ /\ Cardinality(c \cup {id}) >= Capacity
              /\ d = {} /\ e = c \cup {id}
    PROVE  Generations(d, e) /\ Remembers(d, e, v, {id})
<1>1. IsFiniteSet(c) /\ IsFiniteSet(o) /\ Cardinality(c) < Capacity /\ Capacity \in Nat \ {0}
  BY StrategyAssumption DEF Generations
<1>2. IsFiniteSet(c \cup {id}) /\ Cardinality(c \cup {id}) = Cardinality(c) + 1
      /\ Cardinality(c) \in Nat
  BY <1>1, FS_AddElement, FS_CardinalityType
<1>3. ASSUME NEW i \in DOMAIN v, Done(v[i])
      PROVE  /\ v[i].id \in c \/ c \subseteq After(v, i)
             /\ v[i].id \in c \cup o \/ (o # {} /\ o \subseteq After(v, i))
  BY <1>3 DEF Remembers
<1>4. ASSUME NEW i \in DOMAIN v, Done(v[i]), v[i].id = id
      PROVE  Cardinality(After(v, i)) >= Capacity
  <2>1. o # {} /\ o \subseteq After(v, i)
    BY <1>3, <1>4
  <2>2. Cardinality(o) # 0
    BY <2>1, <1>1, FS_EmptySet
  <2>3. Cardinality(o) = Capacity
    BY <2>2 DEF Generations
  <2>4. IsFiniteSet(After(v, i))
    BY AfterIsFinite
  <2>5. Cardinality(o) <= Cardinality(After(v, i))
    BY <2>1, <2>4, FS_Subset
  <2>6. QED
    BY <2>3, <2>5, <2>4, <1>1, FS_CardinalityType
<1>5. \A s \in c \cup o : \E i \in DOMAIN v : Done(v[i]) /\ v[i].id = s
  BY DEF Remembers
<1>6. CASE d = c \cup {id} /\ e = o /\ Cardinality(c \cup {id}) < Capacity
  <2>1. Generations(d, e)
    BY <1>6, <1>2 DEF Generations
  <2>2. Remembers(d, e, v, {id})
    BY <1>6, <1>3, <1>4, <1>5 DEF Remembers
  <2>3. QED
    BY <2>1, <2>2
<1>7. CASE d = {} /\ e = c \cup {id} /\ Cardinality(c \cup {id}) >= Capacity
  <2>1. Generations(d, e)
    <3>1. IsFiniteSet({}) /\ Cardinality({}) = 0
      BY FS_EmptySet
    <3>2. Cardinality(c \cup {id}) = Capacity
      BY <1>7, <1>1, <1>2
    <3>3. QED
      BY <3>1, <3>2, <1>7, <1>1, <1>2 DEF Generations
  <2>2. Remembers(d, e, v, {id})
    BY <1>7, <1>3, <1>4, <1>5 DEF Remembers
  <2>3. QED
    BY <2>1, <2>2
<1>8. QED
  BY <1>6, <1>7

(* The verdict on an id under way is given.                                *)
LEMMA DecideRemembers ==
    ASSUME NEW c, NEW o, NEW v \in Seq(Verdicts), NEW w \in Verdicts, Done(w),
           Remembers(c, o, v, {w.id})
    PROVE  Remembers(c, o, Append(v, w), {})
<1> DEFINE r == Append(v, w)
           n == Len(v) + 1
<1>1. /\ DOMAIN r = DOMAIN v \cup {n}
      /\ \A i \in DOMAIN v : r[i] = v[i] /\ After(r, i) = After(v, i) \cup {w.id}
      /\ r[n] = w
  BY AppendVerdict
<1> HIDE DEF r, n
<1>2. ASSUME NEW i \in DOMAIN r, Done(r[i])
      PROVE  /\ r[i].id \in c \/ c \subseteq After(r, i)
             /\ r[i].id \in c \cup o \/ (o # {} /\ o \subseteq After(r, i))
  <2>1. CASE i \in DOMAIN v
    BY <2>1, <1>1, <1>2 DEF Remembers
  <2>2. CASE i = n
    BY <2>2, <1>1 DEF Remembers
  <2>3. QED
    BY <2>1, <2>2, <1>1
<1>3. \A s \in c \cup o : \E i \in DOMAIN r : Done(r[i]) /\ r[i].id = s
  <2> TAKE s \in c \cup o
  <2>1. CASE s = w.id
    BY <2>1, <1>1
  <2>2. CASE s # w.id
    <3>1. PICK i \in DOMAIN v : Done(v[i]) /\ v[i].id = s
      BY <2>2 DEF Remembers
    <3>2. QED
      BY <3>1, <1>1
  <2>3. QED
    BY <2>1, <2>2
<1>4. Remembers(c, o, r, {})
  BY <1>2, <1>3 DEF Remembers
<1>5. QED
  BY <1>4 DEF r

(* A verdict that decides nothing changes nothing.                         *)
LEMMA IgnoreRemembers ==
    ASSUME NEW c, NEW o, NEW v \in Seq(Verdicts), NEW w \in Verdicts, ~Done(w),
           Remembers(c, o, v, {})
    PROVE  Remembers(c, o, Append(v, w), {})
<1> DEFINE r == Append(v, w)
           n == Len(v) + 1
<1>1. /\ DOMAIN r = DOMAIN v \cup {n}
      /\ \A i \in DOMAIN v : r[i] = v[i] /\ After(r, i) = After(v, i)
      /\ r[n] = w
  BY AppendVerdict
<1> HIDE DEF r, n
<1>2. Remembers(c, o, r, {})
  BY <1>1 DEF Remembers
<1>3. QED
  BY <1>2 DEF r

(* What the properties say of the verdicts.                                *)
Once(v) ==
    \A i, j \in DOMAIN v :
        i < j /\ Done(v[i]) /\ Done(v[j]) /\ v[i].id = v[j].id
            => Cardinality({v[k].id : k \in {n \in i + 1 .. j - 1 : Done(v[n])}}) >= Capacity

Excused(v) ==
    \A j \in DOMAIN v :
        v[j].verdict = "duplicate" => \E i \in 1 .. j - 1 : Done(v[i]) /\ v[i].id = v[j].id

(* A decision on an id under way is apart from the last one on it.         *)
LEMMA DecidedOnce ==
    ASSUME NEW c, NEW o, NEW v \in Seq(Verdicts), NEW w \in Verdicts,
           Done(w) => Remembers(c, o, v, {w.id}),
           Once(v)
    PROVE  Once(Append(v, w))
<1> DEFINE r == Append(v, w)
           n == Len(v)
<1>1. n \in Nat /\ DOMAIN v = 1 .. n /\ DOMAIN r = 1 .. n + 1
      /\ r[n + 1] = w /\ \A i \in 1 .. n : r[i] = v[i]
  OBVIOUS
<1> HIDE DEF r, n
<1>2. SUFFICES ASSUME NEW i \in DOMAIN r, NEW j \in DOMAIN r, i < j,
                      Done(r[i]), Done(r[j]), r[i].id = r[j].id
               PROVE  Cardinality({r[k].id : k \in {m \in i + 1 .. j - 1 : Done(r[m])}})
                        >= Capacity
  BY DEF Once, r
<1>3. i \in 1 .. n
  BY <1>1, <1>2
<1>4. {r[k].id : k \in {m \in i + 1 .. j - 1 : Done(r[m])}}
        = {v[k].id : k \in {m \in i + 1 .. j - 1 : Done(v[m])}}
  <2>1. \A k \in i + 1 .. j - 1 : r[k] = v[k]
    BY <1>1, <1>2, <1>3
  <2>2. QED
    BY <2>1
<1>5. CASE j \in 1 .. n
  BY <1>1, <1>2, <1>3, <1>4, <1>5 DEF Once
<1>6. CASE j = n + 1
  <2>1. v[i].id = w.id /\ Done(v[i]) /\ Done(w)
    BY <1>1, <1>2, <1>3, <1>6
  <2>2. Cardinality(After(v, i)) >= Capacity
    BY <2>1, <1>1, <1>3 DEF Remembers
  <2>3. j - 1 = n
    BY <1>1, <1>6
  <2>4. QED
    BY <2>2, <2>3, <1>4 DEF After, n
<1>7. QED
  BY <1>1, <1>5, <1>6

(* A duplicate of what is remembered is excused by the decision on it.     *)
LEMMA DuplicateExcused ==
    ASSUME NEW c, NEW o, NEW v \in Seq(Verdicts), NEW w \in Verdicts,
           w.verdict = "duplicate" => Remembers(c, o, v, {}) /\ w.id \in c \cup o,
           Excused(v)
    PROVE  Excused(Append(v, w))
<1> DEFINE r == Append(v, w)
           n == Len(v)
<1>1. n \in Nat /\ DOMAIN v = 1 .. n /\ DOMAIN r = 1 .. n + 1
      /\ r[n + 1] = w /\ \A i \in 1 .. n : r[i] = v[i]
  OBVIOUS
<1> HIDE DEF r, n
<1>2. SUFFICES ASSUME NEW j \in DOMAIN r, r[j].verdict = "duplicate"
               PROVE  \E i \in 1 .. j - 1 : Done(r[i]) /\ r[i].id = r[j].id
  BY DEF Excused, r
<1>3. CASE j \in 1 .. n
  <2>1. PICK i \in 1 .. j - 1 : Done(v[i]) /\ v[i].id = v[j].id
    BY <1>1, <1>2, <1>3 DEF Excused
  <2>2. i \in 1 .. n
    BY <1>1, <1>3
  <2>3. QED
    BY <2>1, <2>2, <1>1, <1>3
<1>4. CASE j = n + 1
  <2>1. PICK i \in DOMAIN v : Done(v[i]) /\ v[i].id = w.id
    BY <1>1, <1>2, <1>4 DEF Remembers
  <2>2. i \in 1 .. j - 1
    BY <1>1, <1>4
  <2>3. QED
    BY <2>1, <2>2, <1>1, <1>4
<1>5. QED
  BY <1>1, <1>3, <1>4

-----------------------------------------------------------------------------
(* The memory of the process.                                              *)

(* Nothing is remembered or under way when the process starts.             *)
LEMMA MemoryInit == Init => MemoryInv
<1> SUFFICES ASSUME Init PROVE MemoryInv
  OBVIOUS
<1>1. IsFiniteSet({}) /\ Cardinality({}) = 0
  BY FS_EmptySet
<1>2. Generations(cur, old)
  BY <1>1, StrategyAssumption DEF Init, Generations
<1>3. Pending = {}
  BY DEF Init, Pending
<1>4. TypeOK
  BY <1>1, StrategyAssumption DEF Init, TypeOK
<1>5. Remembers(cur, old, verdicts, Pending)
  BY <1>3 DEF Init, Remembers
<1>6. ProposedOnce /\ DuplicateOfVerdict
  BY DEF Init, ProposedOnce, DuplicateOfVerdict
<1>7. queue \in Seq(Detected) /\ verdicts \in Seq(Verdicts)
  BY DEF Init
<1>8. QED
  BY <1>2, <1>4, <1>5, <1>6, <1>7 DEF Init, MemoryInv, Inv

(* The trade at the head of the queue.                                     *)
LEMMA HeadIsDetected ==
    ASSUME queue \in Seq(Detected), queue # <<>>
    PROVE  Trade \in Detected /\ Tail(queue) \in Seq(Detected)
BY DEF Trade

(* Handle returns with the generations as they are: its verdict decides on *)
(* the id under way, or on nothing.                                        *)
LEMMA ReturnKeepsMemory ==
    ASSUME MemoryInv, queue # <<>>, NEW c, NEW o, NEW verdict, Return(verdict),
           verdict \in {"retry", "duplicate", "skipped", "vetoed", "lost", "proposed"},
           cur' = c, old' = o, Generations(c, o),
           verdict \notin {"retry", "duplicate"} => Remembers(c, o, verdicts, {Id}),
           verdict \in {"retry", "duplicate"} => Remembers(c, o, verdicts, {}),
           verdict = "duplicate" => Id \in c \cup o,
           policy' = policy, batches' \in 0 .. MaxBatches, failures' \in 0 .. MaxFailures
    PROVE  MemoryInv'
<1> DEFINE w == [id |-> Id, verdict |-> verdict]
<1>1. Trade \in Detected /\ queue' \in Seq(Detected)
  BY HeadIsDetected DEF MemoryInv, Return
<1>2. w \in Verdicts /\ w.id = Id /\ w.verdict = verdict
  BY <1>1 DEF Verdicts, Id
<1>3. verdicts' = Append(verdicts, w) /\ verdicts \in Seq(Verdicts)
  BY DEF Return, MemoryInv
<1>4. Done(w) <=> verdict \notin {"retry", "duplicate"}
  BY <1>2 DEF Done
<1> HIDE DEF w
<1>5. verdicts' \in Seq(Verdicts)
  BY <1>2, <1>3
<1>6. Remembers(c, o, verdicts', {})
  BY <1>2, <1>3, <1>4, DecideRemembers, IgnoreRemembers
<1>7. Once(verdicts')
  <2>1. Once(verdicts)
    BY DEF MemoryInv, Inv, ProposedOnce, Once
  <2>2. Done(w) => Remembers(c, o, verdicts, {w.id})
    BY <1>2, <1>4
  <2>3. QED
    BY <2>1, <2>2, <1>2, <1>3, DecidedOnce
<1>8. Excused(verdicts')
  <2>1. Excused(verdicts)
    BY DEF MemoryInv, Inv, DuplicateOfVerdict, Excused
  <2>2. w.verdict = "duplicate" => Remembers(c, o, verdicts, {}) /\ w.id \in c \cup o
    BY <1>2
  <2>3. QED
    BY <2>1, <2>2, <1>2, <1>3, DuplicateExcused
<1>9. stage' = "idle" /\ offer' = {} /\ Pending' = {}
  BY DEF Return, Pending
<1>10. TypeOK'
  <2>1. Cardinality({}) = 0
    BY FS_EmptySet
  <2>2. QED
    BY <2>1, <1>9 DEF TypeOK, MemoryInv, Generations
<1>11. ProposedOnce' /\ DuplicateOfVerdict'
  BY <1>7, <1>8 DEF ProposedOnce, DuplicateOfVerdict, Once, Excused
<1>12. QED
  BY <1>1, <1>5, <1>6, <1>9, <1>10, <1>11 DEF MemoryInv, Inv

(* GenSet.Add, as AddRemembers has it.                                     *)
LEMMA AddIsAddition ==
    ASSUME MemoryInv, stage = "idle", Id \notin Seen, Add(Id)
    PROVE  Generations(cur', old') /\ Remembers(cur', old', verdicts, {Id})
<1>1. Pending = {}
  BY DEF MemoryInv, Pending
<1>2. Remembers(cur, old, verdicts, {}) /\ Generations(cur, old) /\ verdicts \in Seq(Verdicts)
  BY <1>1 DEF MemoryInv
<1>3. IsFiniteSet(cur \cup {Id})
  BY <1>2, FS_AddElement DEF Generations
<1>4. Cardinality(cur \cup {Id}) \in Nat /\ Capacity \in Nat
  BY <1>3, FS_CardinalityType, StrategyAssumption
<1>5. \/ /\ Cardinality(cur \cup {Id}) < Capacity
         /\ cur' = cur \cup {Id} /\ old' = old
      \/ /\ Cardinality(cur \cup {Id}) >= Capacity
         /\ cur' = {} /\ old' = cur \cup {Id}
  BY <1>4 DEF Add
<1>6. QED
  BY <1>2, <1>5, AddRemembers DEF Seen

(* A failure is counted.                                                   *)
LEMMA FailCounts == TypeOK /\ Fail => failures' \in 0 .. MaxFailures
BY StrategyAssumption DEF TypeOK, Fail

(* A trade whose market could not be had stays out of the generations.     *)
LEMMA FetchFailsMemory == MemoryInv /\ FetchFails => MemoryInv'
<1> SUFFICES ASSUME MemoryInv, FetchFails PROVE MemoryInv'
  OBVIOUS
<1>1. Pending = {} /\ Generations(cur, old) /\ TypeOK
  BY DEF FetchFails, MemoryInv, Pending
<1>2. Remembers(cur, old, verdicts, {})
  BY <1>1 DEF MemoryInv
<1>3. cur' = cur /\ old' = old /\ policy' = policy /\ batches' \in 0 .. MaxBatches
  BY <1>1 DEF FetchFails, seen, TypeOK
<1>4. failures' \in 0 .. MaxFailures
  BY <1>1, FailCounts DEF FetchFails
<1>5. QED
  BY <1>1, <1>2, <1>3, <1>4, ReturnKeepsMemory DEF FetchFails

(* A trade is ignored, skipped, or taken up with its id added.             *)
LEMMA VetMemory == MemoryInv /\ Vet => MemoryInv'
<1> SUFFICES ASSUME MemoryInv, Vet PROVE MemoryInv'
  OBVIOUS
<1>1. /\ stage = "idle" /\ queue # <<>> /\ Pending = {} /\ TypeOK
      /\ Generations(cur, old) /\ Remembers(cur, old, verdicts, {})
  BY DEF Vet, MemoryInv, Pending
<1>2. policy' = policy /\ batches' \in 0 .. MaxBatches /\ failures' \in 0 .. MaxFailures
  BY <1>1 DEF Vet, TypeOK
<1>3. CASE Id \in Seen /\ Return("duplicate") /\ UNCHANGED seen
  <2>1. cur' = cur /\ old' = old /\ Id \in cur \cup old
    BY <1>3 DEF seen, Seen
  <2>2. QED
    BY <2>1, <1>1, <1>2, <1>3, ReturnKeepsMemory
<1>4. CASE Id \notin Seen /\ Add(Id) /\ Return("skipped")
  <2>1. Generations(cur', old') /\ Remembers(cur', old', verdicts, {Id})
    BY <1>1, <1>4, AddIsAddition
  <2>2. \A c, o : c = cur' /\ o = old' => MemoryInv'
    BY <2>1, <1>1, <1>2, <1>4, ReturnKeepsMemory
  <2>3. QED
    BY <2>2
<1>5. ASSUME Id \notin Seen, Add(Id), NEW m \in Markets, NEW s \in {"size", "publish"},
             stage' = s,
             offer' = {[proposal |-> Proposal(Trade, policy), market |-> m, row |-> {},
                        book |-> {}]},
             UNCHANGED <<queue, verdicts>>
      PROVE  MemoryInv'
  <2>1. Generations(cur', old') /\ Remembers(cur', old', verdicts, {Id})
    BY <1>1, <1>5, AddIsAddition
  <2>2. Pending' = {Id} /\ Id' = Id
    BY <1>5 DEF Pending, Proposal, Id, Trade
  <2>3. Cardinality(offer') = 1
    BY <1>5, FS_Singleton
  <2>4. Id \in Seen'
    BY <2>1 DEF Remembers, Seen
  <2>5. \A x \in offer' : x.proposal.id \in Seen'
    BY <2>2, <2>4 DEF Pending
  <2>6. TypeOK'
    BY <2>1, <2>3, <2>5, <1>1, <1>2, <1>5 DEF TypeOK, Generations
  <2>7. Inv'
    BY <2>6, <1>5 DEF MemoryInv, Inv, ProposedOnce, DuplicateOfVerdict
  <2>8. QED
    BY <2>1, <2>2, <2>6, <2>7, <1>5 DEF MemoryInv
<1>6. QED
  BY <1>3, <1>4, <1>5 DEF Vet

(* The stake changes the size of the offer and nothing it is known by.     *)
LEMMA SizeStakeMemory == MemoryInv /\ OfferInv /\ SizeStake => MemoryInv'
<1> SUFFICES ASSUME MemoryInv, OfferInv, SizeStake PROVE MemoryInv'
  OBVIOUS
<1>1. /\ stage = "size" /\ Pending = {Id} /\ TypeOK /\ queue # <<>>
      /\ Generations(cur, old) /\ Remembers(cur, old, verdicts, {Id})
      /\ cur' = cur /\ old' = old /\ policy' = policy /\ batches' \in 0 .. MaxBatches
  BY DEF SizeStake, MemoryInv, TypeOK, seen
<1>2. failures' = failures \/ Fail
  BY DEF SizeStake
<1>3. failures' \in 0 .. MaxFailures
  BY <1>1, <1>2, FailCounts DEF TypeOK
<1>4. CASE Return("vetoed")
  BY <1>1, <1>3, <1>4, ReturnKeepsMemory
<1>5. ASSUME NEW row \in Rows, NEW b \in Books, NEW o \in offer, NEW stake,
             stage' = "publish",
             offer' = {[o EXCEPT !.proposal.sizeUSD = stake, !.row = {row}, !.book = {b}]},
             UNCHANGED <<queue, verdicts>>
      PROVE  MemoryInv'
  <2>1. o.proposal.id = Id /\ o \in Offer
    BY <1>5 DEF OfferInv, Id
  <2>2. [o EXCEPT !.proposal.sizeUSD = stake, !.row = {row}, !.book = {b}].proposal.id = Id
    BY <2>1 DEF Offer
  <2>3. Pending' = {Id} /\ Id' = Id
    BY <2>2, <1>5 DEF Pending, Id, Trade
  <2>4. Cardinality(offer') = 1
    BY <1>5, FS_Singleton
  <2>5. Id \in Seen'
    BY <1>1 DEF Remembers, Seen
  <2>6. \A x \in offer' : x.proposal.id \in Seen'
    BY <2>3, <2>5 DEF Pending
  <2>7. TypeOK'
    BY <2>4, <2>6, <1>1, <1>3, <1>5 DEF TypeOK
  <2>8. Inv'
    BY <2>7, <1>5 DEF MemoryInv, Inv, ProposedOnce, DuplicateOfVerdict
  <2>9. QED
    BY <2>3, <2>7, <2>8, <1>1, <1>5 DEF MemoryInv
<1>6. QED
  BY <1>4, <1>5 DEF SizeStake

(* Published or lost, the trade under way is decided now.                  *)
LEMMA PublishMemory == MemoryInv /\ Publish => MemoryInv'
<1> SUFFICES ASSUME MemoryInv, Publish PROVE MemoryInv'
  OBVIOUS
<1>1. /\ stage = "publish" /\ Pending = {Id} /\ TypeOK /\ queue # <<>>
      /\ Generations(cur, old) /\ Remembers(cur, old, verdicts, {Id})
      /\ cur' = cur /\ old' = old /\ policy' = policy /\ batches' \in 0 .. MaxBatches
  BY DEF Publish, MemoryInv, TypeOK, seen
<1>2. failures' = failures \/ Fail
  BY DEF Publish
<1>3. failures' \in 0 .. MaxFailures
  BY <1>1, <1>2, FailCounts DEF TypeOK
<1>4. Return("lost") \/ Return("proposed")
  BY DEF Publish
<1>5. QED
  BY <1>1, <1>3, <1>4, ReturnKeepsMemory

(* A restart forgets the generations and the verdicts together.            *)
LEMMA RestartMemory == MemoryInv /\ Restart => MemoryInv'
<1> SUFFICES ASSUME MemoryInv, Restart PROVE MemoryInv'
  OBVIOUS
<1>1. IsFiniteSet({}) /\ Cardinality({}) = 0 /\ Capacity \in Nat \ {0}
  BY FS_EmptySet, StrategyAssumption
<1>2. failures' \in 0 .. MaxFailures /\ TypeOK
  BY FailCounts DEF Restart, MemoryInv
<1>3. TypeOK'
  BY <1>1, <1>2 DEF Restart, TypeOK
<1>4. Generations(cur', old')
  BY <1>1 DEF Restart, Generations
<1>5. Pending' = {}
  BY DEF Restart, Pending
<1>6. Remembers(cur', old', verdicts', Pending')
  BY <1>5 DEF Restart, Remembers
<1>7. ProposedOnce' /\ DuplicateOfVerdict'
  BY DEF Restart, ProposedOnce, DuplicateOfVerdict
<1>8. queue' \in Seq(Detected) /\ verdicts' \in Seq(Verdicts) /\ stage' = "idle" /\ offer' = {}
  BY DEF Restart
<1>9. QED
  BY <1>3, <1>4, <1>6, <1>7, <1>8 DEF MemoryInv, Inv

(* More trades at the end of the queue leave its head where it is.         *)
LEMMA DetectAppends ==
    ASSUME queue \in Seq(Detected), NEW logs \in Batches, Detect(logs)
    PROVE  /\ queue' \in Seq(Detected)
           /\ queue # <<>> => queue' # <<>> /\ Trade' = Trade
<1>1. Sorted(TradesOf(logs)) \in Seq(Detected)
  <2>1. Sorted(TradesOf(logs)) \in Seq(TradesOf(logs)) /\ TradesOf(logs) \subseteq Detected
    BY SortedTrades DEF Detected
  <2>2. QED
    BY <2>1
<1>2. queue' = queue \o Sorted(TradesOf(logs))
  BY DEF Detect
<1>3. QED
  BY <1>1, <1>2 DEF Trade

(* What arrives waits in the queue; the memory is as it was.               *)
LEMMA DetectMemory ==
    ASSUME MemoryInv, NEW logs \in Batches, Detect(logs)
    PROVE  MemoryInv'
<1>1. /\ queue' \in Seq(Detected)
      /\ queue # <<>> => queue' # <<>> /\ Trade' = Trade
  BY DetectAppends DEF MemoryInv
<1>2. cur' = cur /\ old' = old /\ Pending' = Pending
      /\ UNCHANGED <<policy, stage, offer, verdicts, failures>>
  BY DEF Detect, seen, Pending
<1>3. batches' \in 0 .. MaxBatches
  BY StrategyAssumption DEF Detect, MemoryInv, TypeOK
<1>4. TypeOK'
  BY <1>1, <1>2, <1>3 DEF MemoryInv, TypeOK, Seen
<1>5. stage # "idle" => Id' = Id
  BY <1>1 DEF MemoryInv, TypeOK, Id
<1>6. Inv'
  BY <1>2, <1>4 DEF MemoryInv, Inv, ProposedOnce, DuplicateOfVerdict
<1>7. QED
  BY <1>1, <1>2, <1>4, <1>5, <1>6 DEF MemoryInv

(* Every step keeps the generations in step with the verdicts.             *)
LEMMA NextMemory == MemoryInv /\ OfferInv /\ [Next]_vars => MemoryInv'
<1> SUFFICES ASSUME MemoryInv, OfferInv, [Next]_vars PROVE MemoryInv'
  OBVIOUS
<1>1. CASE UNCHANGED vars
  <2>1. /\ UNCHANGED <<policy, queue, stage, offer, cur, old, verdicts, batches, failures>>
        /\ Pending' = Pending /\ Id' = Id
    BY <1>1 DEF vars, seen, Pending, Id, Trade
  <2>2. TypeOK'
    BY <2>1 DEF MemoryInv, TypeOK, Seen
  <2>3. Inv'
    BY <2>1, <2>2 DEF MemoryInv, Inv, ProposedOnce, DuplicateOfVerdict
  <2>4. QED
    BY <2>1, <2>2, <2>3 DEF MemoryInv
<1>2. QED
  BY <1>1, RestartMemory, FetchFailsMemory, VetMemory, SizeStakeMemory, PublishMemory,
     DetectMemory DEF Next, Step

-----------------------------------------------------------------------------
(* Arithmetic.                                                             *)

(* A quotient rounds down.                                                 *)
LEMMA Quotient ==
    ASSUME NEW a \in Int, NEW b \in Nat \ {0}
    PROVE  /\ a \div b \in Int
           /\ b * (a \div b) <= a /\ a < b * (a \div b) + b
           /\ a >= 0 => a \div b >= 0
OBVIOUS

(* The trades on the bus and the policies have numbers.                    *)
LEMMA DetectedIsPriced == \A t \in Detected : Priced(t)
BY TradesOfBatch DEF Detected

(* The numbers of a policy, with the engine and without.                   *)
LEMMA PolicyHasNumbers ==
    ASSUME NEW p \in Policies
    PROVE  /\ p.fixedUSD \in Nat /\ p.proportion \in Nat /\ p.minSizeUSD \in Nat
           /\ p.maxSizeUSD \in Nat /\ p.maxSlippage \in Nat
           /\ p.engine => /\ p.bankroll \in Nat /\ p.kelly \in Nat /\ p.edgeBuffer \in Nat
                          /\ p.perBet \in Nat /\ p.maxExposure \in Nat
                          /\ p.minStakeUSD \in Nat /\ p.slipBand \in Nat
                          /\ p.clvFull \in Nat \ {0}
BY StrategyAssumption

(* The size of a proposal is clamped.                                      *)
LEMMA SizeIsClamped ==
    ASSUME NEW t, Priced(t), NEW p \in Policies
    PROVE  /\ SizeUSD(t, p) \in Nat
           /\ p.maxSizeUSD > 0 => SizeUSD(t, p) <= p.maxSizeUSD
<1>1. p.fixedUSD \in Nat /\ p.maxSizeUSD \in Nat /\ p.proportion \in Nat
  BY PolicyHasNumbers
<1>2. t.size * t.price * p.proportion \in Nat
  BY <1>1 DEF Priced
<1>3. (t.size * t.price * p.proportion) \div 10 \in Nat
  BY <1>2
<1>4. QED
  BY <1>1, <1>3 DEF SizeUSD

(* The limit is within half a tick of the worst price the policy accepts.  *)
LEMMA LimitIsNear ==
    ASSUME NEW t, Priced(t), NEW p \in Policies, NEW v \in Int,
           v = IF t.side = "buy" THEN t.price + p.maxSlippage ELSE t.price - p.maxSlippage
    PROVE  /\ limitPrice(t, p) \in Int
           /\ 2 * limitPrice(t, p) <= 2 * v + Tick
           /\ 2 * limitPrice(t, p) > 2 * v - Tick
<1> DEFINE q == (2 * v + Tick) \div (2 * Tick)
<1>1. Tick \in Nat \ {0} /\ 2 * v + Tick \in Int /\ 2 * Tick \in Nat \ {0}
  BY TickAssumption, UnitAssumption
<1>2. limitPrice(t, p) = q * Tick
  BY DEF limitPrice
<1>3. q \in Int /\ 2 * Tick * q <= 2 * v + Tick /\ 2 * v + Tick < 2 * Tick * q + 2 * Tick
  BY <1>1, Quotient
<1> HIDE DEF q
<1>4. q * Tick \in Int /\ 2 * Tick * q = 2 * (q * Tick)
  BY <1>1, <1>3
<1>5. QED
  BY <1>1, <1>2, <1>3, <1>4

(* What is ordered at the limit pays at most, or asks at least, the limit. *)
LEMMA OrderAtLimit ==
    ASSUME NEW size \in Nat, NEW limit \in Nat \ {0}, NEW w \in Int
    PROVE  LET shares == (size * Unit) \div limit IN
           /\ 2 * limit <= w => 2 * size * Unit <= w * (shares + 1)
           /\ 2 * limit > w => 2 * size * Unit >= w * shares
<1> DEFINE money == size * Unit
           shares == money \div limit
<1>1. money \in Nat /\ Unit \in Nat /\ 2 * size * Unit = 2 * money
  BY UnitAssumption
<1> HIDE DEF money
<1>2. shares \in Nat /\ limit * shares <= money /\ money < limit * shares + limit
  BY <1>1, Quotient
<1> HIDE DEF shares
<1>3. limit * shares + limit = limit * (shares + 1)
  BY <1>2
<1>4. ASSUME 2 * limit <= w PROVE 2 * money <= w * (shares + 1)
  <2>1. (2 * limit) * (shares + 1) <= w * (shares + 1)
    BY <1>2, <1>4
  <2>2. (2 * limit) * (shares + 1) = 2 * (limit * (shares + 1))
    BY <1>2
  <2>3. QED
    BY <2>1, <2>2, <1>1, <1>2, <1>3
<1>5. ASSUME 2 * limit > w PROVE 2 * money >= w * shares
  <2>1. w * shares <= (2 * limit) * shares
    BY <1>2, <1>5
  <2>2. (2 * limit) * shares = 2 * (limit * shares)
    BY <1>2
  <2>3. QED
    BY <2>1, <2>2, <1>1, <1>2
<1>6. QED
  BY <1>1, <1>4, <1>5 DEF shares, money

(* The depth of a book is a sum of what its asks offer, and not less than  *)
(* what the best one does.                                                 *)
LEMMA DepthOfBook ==
    ASSUME NEW b \in Books, NEW band \in Nat
    PROVE  /\ BuyDepthUSD(b, band) \in Nat
           /\ BooksHaveDepth /\ b.asks # <<>> => BuyDepthUSD(b, band) > 0
<1> DEFINE f == [i \in DOMAIN b.asks |-> b.asks[i].price * b.asks[i].size]
           S == {i \in DOMAIN b.asks : b.asks[i].price <= b.asks[1].price + band}
           Total(s) == SumFunctionOnSet(f, s)
<1>1. b.asks \in Seq([price : Nat, size : Nat])
  BY StrategyAssumption
<1>2. \A i \in DOMAIN b.asks : b.asks[i].price \in Nat /\ b.asks[i].size \in Nat
  <2>1. \A i \in DOMAIN b.asks : b.asks[i] \in [price : Nat, size : Nat]
    <3> HIDE DEF f, S
    <3>1. \A T, s : s \in Seq(T) => \A i \in DOMAIN s : s[i] \in T
      OBVIOUS
    <3>2. QED
      BY <1>1, <3>1
  <2>2. QED
    BY <2>1
<1>3. DOMAIN b.asks = 1 .. Len(b.asks) /\ Len(b.asks) \in Nat
  BY <1>1
<1>4. IsFiniteSet(DOMAIN b.asks)
  <2>1. \A n \in Nat : IsFiniteSet(1 .. n)
    BY FS_Interval
  <2>2. QED
    BY <2>1, <1>3
<1>5. IsFiniteSet(S)
  BY <1>4, FS_Subset
<1>6. \A i \in DOMAIN b.asks : f[i] \in Nat /\ f[i] = b.asks[i].price * b.asks[i].size
  BY <1>2
<1>7. BuyDepthUSD(b, band) = Total(S)
  BY DEF BuyDepthUSD
<1>8. S \subseteq DOMAIN b.asks
  OBVIOUS
<1>9. ASSUME b.asks # <<>> PROVE 1 \in S
  <2>1. 1 \in DOMAIN b.asks
    BY <1>9, <1>1, <1>3
  <2>2. QED
    BY <2>1, <1>2
<1> HIDE DEF f, S
<1>10. Total(S) \in Nat
  BY <1>5, <1>6, <1>8, SumType
<1>11. ASSUME BooksHaveDepth, b.asks # <<>> PROVE Total(S) > 0
  <2>1. {1} \in SUBSET S /\ 1 \in S /\ 1 \in DOMAIN b.asks
    BY <1>8, <1>9, <1>11
  <2>2. f[1] \in Nat /\ f[1] > 0
    <3>1. b.asks[1].price \in Nat \ {0} /\ b.asks[1].size \in Nat \ {0}
      BY <1>2, <1>11, <2>1 DEF BooksHaveDepth
    <3>2. b.asks[1].price * b.asks[1].size > 0
      BY <3>1
    <3>3. QED
      BY <3>2, <2>1, <1>6
  <2>3. Total({1}) = f[1]
    <3>1. IsFiniteSet({1}) /\ {1} \ {1} = {}
      BY FS_Singleton
    <3>2. \A x \in {1} : f[x] \in Int
      BY <2>2
    <3>3. Total({1}) = f[1] + Total({1} \ {1})
      BY <3>1, <3>2, SumTakesAnyFirst
    <3>4. Total({}) = 0
      BY SumOfNone
    <3> HIDE DEF Total
    <3>5. QED
      BY <3>1, <3>3, <3>4, <2>2
  <2>4. Total({1}) <= Total(S)
    BY <2>1, <1>5, <1>6, <1>8, SumIsMonotone
  <2> HIDE DEF Total
  <2>5. QED
    BY <2>2, <2>3, <2>4, <1>10
<1>12. QED
  BY <1>7, <1>10, <1>11

(* Whatever the engine stakes is within its caps and has an edge net of    *)
(* half the spread.                                                        *)
LEMMA StakeIsBacked ==
    ASSUME NEW p \in Policies, p.engine, NEW row \in Rows, NEW b \in Books,
           NEW stake \in Sized(row, b, p)
    PROVE  /\ stake \in Nat /\ stake >= p.minStakeUSD
           /\ 10 * stake <= p.bankroll * AtMost(p.perBet, p.maxExposure)
           /\ BooksHaveDepth => stake <= BuyDepthUSD(b, p.slipBand)
           /\ row.clvN >= p.clvFull => row.avgCLV > HalfSpread(b) + p.edgeBuffer
<1> DEFINE in == [price |-> Mid(b), halfSpread |-> HalfSpread(b),
                  avgCLV |-> row.avgCLV, clvN |-> row.clvN, roi |-> row.roi,
                  fresh |-> row.fresh, bankroll |-> p.bankroll,
                  depthCap |-> BuyDepthUSD(b, p.slipBand)]
           net == Edge(in, p) - Cost(in, p)
           kelly == (p.kelly * net * in.bankroll) \div (100 * p.clvFull * (Unit - in.price))
           perBet == AtMost(kelly, (p.perBet * in.bankroll) \div 10)
           depth == IF in.depthCap > 0 THEN AtMost(perBet, in.depthCap) ELSE perBet
           most == AtMost(depth, (p.maxExposure * in.bankroll) \div 10)
<1>1. HasMid(b) /\ stake \in Stake(in, p)
  BY DEF Sized
<1> HIDE DEF in
<1>2. /\ stake = most /\ in.price > 0 /\ in.price < Unit
      /\ net > 10 * p.clvFull * p.edgeBuffer /\ most >= p.minStakeUSD
  BY <1>1 DEF Stake
<1>3. /\ p.bankroll \in Nat /\ p.kelly \in Nat /\ p.edgeBuffer \in Nat /\ p.perBet \in Nat
      /\ p.maxExposure \in Nat /\ p.minStakeUSD \in Nat /\ p.clvFull \in Nat \ {0}
  BY PolicyHasNumbers
<1>4. /\ row.avgCLV \in Int /\ row.clvN \in Nat /\ row.roi \in Int
      /\ b.bids[1].price \in Int /\ b.asks[1].price \in Int
  <2>1. b.bids \in Seq([price : Nat, size : Nat]) /\ b.asks \in Seq([price : Nat, size : Nat])
    BY StrategyAssumption
  <2>2. b.bids[1] \in [price : Nat, size : Nat] /\ b.asks[1] \in [price : Nat, size : Nat]
    <3>1. \A T, s : s \in Seq(T) /\ s # <<>> => s[1] \in T
      OBVIOUS
    <3>2. QED
      BY <2>1, <3>1, <1>1 DEF HasMid
  <2>3. QED
    BY <2>2, StrategyAssumption
<1>5. Mid(b) \in Int /\ HalfSpread(b) \in Int
  BY <1>4 DEF Mid, HalfSpread
<1>6. /\ in.price = Mid(b) /\ in.halfSpread = HalfSpread(b) /\ in.avgCLV = row.avgCLV
      /\ in.clvN = row.clvN /\ in.roi = row.roi /\ in.bankroll = p.bankroll
      /\ in.depthCap = BuyDepthUSD(b, p.slipBand)
  BY DEF in
<1>7. in.depthCap \in Int /\ (BooksHaveDepth => in.depthCap > 0)
  BY <1>1, <1>6, DepthOfBook, PolicyHasNumbers DEF HasMid
<1>8. net \in Int
  <2>1. Edge(in, p) \in Int
    BY <1>3, <1>4, <1>5, <1>6 DEF Edge, AtMost
  <2>2. Cost(in, p) \in Int
    BY <1>3, <1>5, <1>6 DEF Cost
  <2>3. QED
    BY <2>1, <2>2
<1>9. kelly \in Int
  <2>1. 100 * p.clvFull * (Unit - in.price) \in Nat \ {0}
    <3>1. Unit - in.price \in Nat \ {0}
      BY <1>2, <1>5, <1>6, UnitAssumption
    <3>2. 100 * p.clvFull \in Nat \ {0}
      BY <1>3
    <3>3. QED
      BY <3>1, <3>2
  <2>2. p.kelly * net * in.bankroll \in Int
    <3> HIDE DEF net
    <3>1. QED
      BY <1>3, <1>6, <1>8
  <2> HIDE DEF net
  <2>3. QED
    BY <2>1, <2>2, Quotient
<1>10. ASSUME NEW cap \in Nat
       PROVE  /\ (cap * in.bankroll) \div 10 \in Int
              /\ 10 * ((cap * in.bankroll) \div 10) <= p.bankroll * cap
  <2>1. cap * in.bankroll \in Int /\ cap * in.bankroll = p.bankroll * cap
    BY <1>3, <1>6
  <2>2. QED
    BY <2>1, Quotient
<1> HIDE DEF kelly
<1>11. perBet \in Int /\ perBet <= (p.perBet * in.bankroll) \div 10
  BY <1>3, <1>9, <1>10 DEF AtMost
<1> HIDE DEF perBet
<1>12. depth \in Int /\ depth <= perBet /\ (BooksHaveDepth => depth <= in.depthCap)
  BY <1>7, <1>11 DEF AtMost
<1> HIDE DEF depth
<1>13. most \in Int /\ most <= depth /\ most <= (p.maxExposure * in.bankroll) \div 10
  BY <1>3, <1>10, <1>12 DEF AtMost
<1> HIDE DEF most
<1>14. stake \in Nat /\ stake >= p.minStakeUSD
  BY <1>2, <1>3, <1>13
<1>15. 10 * stake <= p.bankroll * AtMost(p.perBet, p.maxExposure)
  <2>1. 10 * stake <= p.bankroll * p.perBet
    <3>1. (p.perBet * in.bankroll) \div 10 \in Int
          /\ 10 * ((p.perBet * in.bankroll) \div 10) <= p.bankroll * p.perBet
      BY <1>3, <1>10
    <3>2. p.bankroll * p.perBet \in Int
      BY <1>3
    <3>3. QED
      BY <3>1, <3>2, <1>2, <1>11, <1>12, <1>13
  <2>2. 10 * stake <= p.bankroll * p.maxExposure
    <3>1. (p.maxExposure * in.bankroll) \div 10 \in Int
          /\ 10 * ((p.maxExposure * in.bankroll) \div 10) <= p.bankroll * p.maxExposure
      BY <1>3, <1>10
    <3>2. p.bankroll * p.maxExposure \in Int
      BY <1>3
    <3>3. QED
      BY <3>1, <3>2, <1>2, <1>13
  <2>3. AtMost(p.perBet, p.maxExposure) \in {p.perBet, p.maxExposure}
    BY DEF AtMost
  <2>4. QED
    BY <2>1, <2>2, <2>3
<1>16. BooksHaveDepth => stake <= BuyDepthUSD(b, p.slipBand)
  BY <1>2, <1>6, <1>7, <1>11, <1>12, <1>13
<1>17. ASSUME row.clvN >= p.clvFull PROVE row.avgCLV > HalfSpread(b) + p.edgeBuffer
  <2>1. AtMost(in.clvN, p.clvFull) = p.clvFull
    BY <1>3, <1>4, <1>6, <1>17 DEF AtMost
  <2>2. \A roi \in Int : (p.clvFull - p.clvFull) * in.price * roi = 0
    BY <1>3, <1>5, <1>6
  <2>3. Edge(in, p) = 10 * p.clvFull * row.avgCLV
    <3>1. (IF in.roi < 0 THEN 0 ELSE in.roi) \in Int
      BY <1>4, <1>6
    <3>2. 10 * p.clvFull * row.avgCLV \in Int
      BY <1>3, <1>4
    <3>3. QED
      BY <3>1, <3>2, <2>1, <2>2, <1>6 DEF Edge
  <2>4. Cost(in, p) = 10 * p.clvFull * HalfSpread(b)
    BY <1>6 DEF Cost
  <2>5. 10 * p.clvFull * row.avgCLV - 10 * p.clvFull * HalfSpread(b)
          > 10 * p.clvFull * p.edgeBuffer
    BY <1>2, <2>3, <2>4
  <2>6. \A c \in Nat \ {0}, x, y, z \in Int : c * x - c * y > c * z => x > y + z
    OBVIOUS
  <2>7. 10 * p.clvFull \in Nat \ {0}
    BY <1>3
  <2>8. QED
    BY <2>5, <2>6, <2>7, <1>3, <1>4, <1>5
<1>18. QED
  BY <1>14, <1>15, <1>16, <1>17

-----------------------------------------------------------------------------
(* The proposal under way.                                                 *)

(* Nothing is offered at first.                                            *)
LEMMA OfferInit == Init => OfferInv /\ SizedInv
BY DEF Init, OfferInv, SizedInv

(* A callback that returns has no proposal under way.                      *)
LEMMA NothingOffered == stage' = "idle" /\ offer' = {} => OfferInv' /\ SizedInv'
BY DEF OfferInv, SizedInv

(* An accepted trade has a limit on the grid of the exchange, and the size *)
(* of the policy.                                                          *)
LEMMA VetOffer == MemoryInv /\ OfferInv /\ Vet => OfferInv' /\ SizedInv'
<1> SUFFICES ASSUME MemoryInv, OfferInv, Vet,
                    NEW m \in Markets, Accepts(Trade, m, policy),
                    stage' = IF policy.engine THEN "size" ELSE "publish",
                    offer' = {[proposal |-> Proposal(Trade, policy), market |-> m, row |-> {},
                               book |-> {}]},
                    UNCHANGED <<queue, verdicts>>
             PROVE  OfferInv' /\ SizedInv'
  BY NothingOffered DEF Vet, Return
<1> PICK x : x = [proposal |-> Proposal(Trade, policy), market |-> m, row |-> {},
                  book |-> {}]
  OBVIOUS
<1>1. policy' = policy /\ policy \in Policies /\ Trade' = Trade
  BY DEF Vet, MemoryInv, TypeOK, Trade
<1>2. Trade \in Detected /\ Priced(Trade)
  BY HeadIsDetected, DetectedIsPriced DEF Vet, MemoryInv
<1>3. limitPrice(Trade, policy) \in Int
  <2>1. \A v \in Int :
          v = (IF Trade.side = "buy" THEN Trade.price + policy.maxSlippage
               ELSE Trade.price - policy.maxSlippage) => limitPrice(Trade, policy) \in Int
    BY <1>1, <1>2, LimitIsNear
  <2>2. Trade.price \in Int /\ policy.maxSlippage \in Int
    BY <1>1, <1>2, PolicyHasNumbers DEF Priced
  <2>3. QED
    BY <2>1, <2>2
<1>4. limitPrice(Trade, policy) >= Tick /\ limitPrice(Trade, policy) \in Nat
  <2>1. Tick \in Nat
    BY TickAssumption, UnitAssumption
  <2>2. QED
    BY <2>1, <1>3 DEF Accepts, Tradable
<1>5. SizeUSD(Trade, policy) \in Nat /\ SizeUSD(Trade, policy) >= policy.minSizeUSD
      /\ (policy.maxSizeUSD > 0 => SizeUSD(Trade, policy) <= policy.maxSizeUSD)
  BY <1>1, <1>2, SizeIsClamped DEF Accepts
<1>6. /\ x.proposal.id = ProposalID(Trade) /\ x.proposal.trade = Trade
      /\ x.proposal.limit = limitPrice(Trade, policy)
      /\ x.proposal.sizeUSD = SizeUSD(Trade, policy)
      /\ x.row = {} /\ x.book = {}
  BY DEF Proposal
<1>7. x \in Offer
  BY <1>2, <1>4, <1>5 DEF Offer, Proposal
<1>8. offer' = {x}
  OBVIOUS
<1>9. /\ stage' = "size" => policy.engine
      /\ stage' = "publish" => ~policy.engine
  OBVIOUS
<1>10. OfferInv'
  BY <1>1, <1>4, <1>6, <1>7, <1>8, <1>9 DEF OfferInv
<1>11. ASSUME ~policy.engine PROVE SizedWithin(x)' /\ WorthIt(x)'
  <2>1. SizedWithin(x)'
    BY <1>1, <1>5, <1>6, <1>11 DEF SizedWithin
  <2>2. WorthIt(x)'
    BY <1>6 DEF WorthIt
  <2>3. QED
    BY <2>1, <2>2
<1>12. SizedInv'
  BY <1>8, <1>9, <1>11 DEF SizedInv
<1>13. QED
  BY <1>10, <1>12

(* The engine's stake takes the place of the size.                         *)
LEMMA SizeStakeOffer ==
    MemoryInv /\ OfferInv /\ SizeStake => OfferInv' /\ SizedInv'
<1> SUFFICES ASSUME MemoryInv, OfferInv, SizeStake,
                    NEW row \in Rows, NEW b \in Books, NEW o \in offer,
                    NEW stake \in Sized(row, b, policy),
                    stage' = "publish",
                    offer' = {[o EXCEPT !.proposal.sizeUSD = stake, !.row = {row},
                                        !.book = {b}]},
                    UNCHANGED <<queue, verdicts>>
             PROVE  OfferInv' /\ SizedInv'
  BY NothingOffered DEF SizeStake, Return
<1> DEFINE x == [o EXCEPT !.proposal.sizeUSD = stake, !.row = {row}, !.book = {b}]
<1>1. policy' = policy /\ policy \in Policies /\ policy.engine /\ Trade' = Trade
  BY DEF SizeStake, MemoryInv, TypeOK, OfferInv, Trade
<1>2. /\ stake \in Nat /\ stake >= policy.minStakeUSD
      /\ 10 * stake <= policy.bankroll * AtMost(policy.perBet, policy.maxExposure)
      /\ BooksHaveDepth => stake <= BuyDepthUSD(b, policy.slipBand)
      /\ row.clvN >= policy.clvFull => row.avgCLV > HalfSpread(b) + policy.edgeBuffer
  BY <1>1, StakeIsBacked
<1>3. /\ o \in Offer /\ o.proposal.id = ProposalID(Trade)
      /\ o.proposal.limit = limitPrice(o.proposal.trade, policy) /\ o.proposal.limit >= Tick
  BY DEF OfferInv
<1>4. /\ x \in Offer
      /\ x.proposal.id = o.proposal.id /\ x.proposal.trade = o.proposal.trade
      /\ x.proposal.limit = o.proposal.limit /\ x.proposal.sizeUSD = stake
      /\ x.row = {row} /\ x.book = {b}
  BY <1>2, <1>3 DEF Offer
<1> HIDE DEF x
<1>5. BooksHaveDepth => SizedWithin(x)'
  BY <1>1, <1>2, <1>4 DEF SizedWithin
<1>6. WorthIt(x)'
  BY <1>1, <1>2, <1>4 DEF WorthIt
<1>7. offer' = {x}
  BY DEF x
<1>8. OfferInv'
  BY <1>1, <1>3, <1>4, <1>7 DEF OfferInv
<1>9. SizedInv'
  BY <1>5, <1>6, <1>7 DEF SizedInv
<1>10. QED
  BY <1>8, <1>9

(* Every step keeps the proposal under way within its limits.              *)
LEMMA NextOffer ==
    MemoryInv /\ OfferInv /\ SizedInv /\ [Next]_vars => OfferInv' /\ SizedInv'
<1> SUFFICES ASSUME MemoryInv, OfferInv, SizedInv, [Next]_vars PROVE OfferInv' /\ SizedInv'
  OBVIOUS
<1>1. ASSUME UNCHANGED <<policy, stage, offer>>, offer # {} => Trade' = Trade
      PROVE  OfferInv' /\ SizedInv'
  <2>1. OfferInv'
    BY <1>1 DEF OfferInv
  <2>2. \A x : (SizedWithin(x) <=> SizedWithin(x)') /\ (WorthIt(x) <=> WorthIt(x)')
    BY <1>1 DEF SizedWithin, WorthIt
  <2>3. SizedInv'
    BY <1>1, <2>2 DEF SizedInv
  <2>4. QED
    BY <2>1, <2>3
<1>2. CASE UNCHANGED vars
  BY <1>1, <1>2 DEF vars, Trade
<1>3. ASSUME NEW logs \in Batches, Detect(logs) PROVE OfferInv' /\ SizedInv'
  <2>1. queue # <<>> => Trade' = Trade
    BY <1>3, DetectAppends DEF MemoryInv
  <2>2. offer # {} => queue # <<>>
    BY DEF MemoryInv, TypeOK
  <2>3. QED
    BY <2>1, <2>2, <1>1, <1>3 DEF Detect
<1>4. CASE Restart \/ FetchFails \/ Publish
  BY <1>4, NothingOffered DEF Restart, FetchFails, Publish, Return
<1>5. QED
  BY <1>2, <1>3, <1>4, VetOffer, SizeStakeOffer DEF Next, Step

(* What is under way and sized is within the policy.                       *)
LEMMA OfferIsWithinPolicy ==
    ASSUME BooksHaveDepth, StrategyInv
    PROVE  WithinPolicy
<1> SUFFICES ASSUME stage = "publish", NEW x \in offer
             PROVE  PricedWithin(x.proposal)
  BY DEF WithinPolicy, StrategyInv, SizedInv
<1> DEFINE o == x.proposal
           w == 2 * Worst(o)
<1>1. /\ o.trade \in Detected /\ o.sizeUSD \in Nat /\ o.limit \in Nat
      /\ o.limit = limitPrice(o.trade, policy) /\ o.limit >= Tick
  BY DEF StrategyInv, OfferInv, Offer
<1>2. policy \in Policies /\ Priced(o.trade)
  BY <1>1, DetectedIsPriced DEF StrategyInv, MemoryInv, TypeOK
<1>3. Worst(o) = IF o.trade.side = "buy" THEN o.trade.price + policy.maxSlippage
                 ELSE o.trade.price - policy.maxSlippage
  BY DEF Worst
<1>4. Worst(o) \in Int
  BY <1>2, <1>3, PolicyHasNumbers DEF Priced
<1>5. 2 * o.limit <= w + Tick /\ 2 * o.limit > w - Tick
  BY <1>1, <1>2, <1>3, <1>4, LimitIsNear
<1>6. o.limit \in Nat \ {0} /\ w + Tick \in Int /\ w - Tick \in Int
  BY <1>1, <1>4, TickAssumption, UnitAssumption
<1> HIDE DEF w
<1> DEFINE shares == (o.sizeUSD * Unit) \div o.limit
<1>7. /\ 2 * o.sizeUSD * Unit <= (w + Tick) * (shares + 1)
      /\ 2 * o.sizeUSD * Unit >= (w - Tick) * shares
  BY <1>1, <1>5, <1>6, OrderAtLimit
<1>8. CASE o.trade.side = "buy"
  BY <1>7, <1>8 DEF PricedWithin, FromProposal, w
<1>9. CASE o.trade.side # "buy"
  BY <1>7, <1>9 DEF PricedWithin, FromProposal, w
<1>10. QED
  BY <1>8, <1>9

-----------------------------------------------------------------------------
(* The theorems.                                                           *)

(* The inductive invariant holds always.                                   *)
LEMMA StrategyKept == Spec => []StrategyInv
<1>1. Init => StrategyInv
  BY MemoryInit, OfferInit DEF StrategyInv
<1>2. StrategyInv /\ [Next]_vars => StrategyInv'
  BY NextMemory, NextOffer DEF StrategyInv
<1>3. QED
  BY <1>1, <1>2, PTL DEF Spec

(* The handler takes one decision on a trade, however often it is          *)
(* delivered, until as many others were decided as a generation holds; and *)
(* ignores a delivery only for such a decision.                            *)
THEOREM StrategyDecidesOnce == Spec => []Inv
<1>1. StrategyInv => Inv
  BY DEF StrategyInv, MemoryInv
<1>2. QED
  BY <1>1, StrategyKept, PTL

(* What the handler publishes keeps to the slippage of the policy in price *)
(* and to its caps in money and, sized by the engine, has an edge net of   *)
(* the spread; where a book's best ask is not empty.                       *)
THEOREM StrategyKeepsPolicy == BooksHaveDepth => (Spec => []WithinPolicy)
<1> SUFFICES ASSUME BooksHaveDepth PROVE Spec => []WithinPolicy
  OBVIOUS
<1>1. StrategyInv => WithinPolicy
  BY OfferIsWithinPolicy
<1>2. QED
  BY <1>1, StrategyKept, PTL
-----------------------------------------------------------------------------
(* What the trades of a batch say of its logs.                             *)

(* The index is the log's own within its transaction, its maker and taker  *)
(* are two wallets, and it moves money for shares or neither.              *)
LogsAreSound ==
    \A logs \in Batches : \A l \in logs :
        /\ l.maker # l.taker
        /\ l.makerAmount = 0 <=> l.takerAmount = 0
        /\ \A m \in logs : l.tx = m.tx /\ l.index = m.index => l = m

(* The trade of a key.                                                     *)
Group(fills, k) == {f \in fills : key(f) = k}

Money(fills, k) == SumFunctionOnSet([f \in Group(fills, k) |-> f.usdc], Group(fills, k))

Shares(fills, k) == SumFunctionOnSet([f \in Group(fills, k) |-> f.shares], Group(fills, k))

TradeOf(fills, k) ==
    [tx |-> k.tx, wallet |-> k.wallet, token |-> k.token, side |-> k.side,
     price |-> priceString(Money(fills, k), Shares(fills, k)), size |-> Shares(fills, k),
     index |-> Min({f.index : f \in Group(fills, k)})]

(* A batch yields the trade of each key its fills have.                    *)
LEMMA TradesAreOfGroups ==
    \A fills : AggregateByTx(fills) = {TradeOf(fills, k) : k \in {key(f) : f \in fills}}
BY DEF AggregateByTx, TradeOf, Group, Money, Shares

(* A trade has its key.                                                    *)
LEMMA TradeHasKey ==
    \A fills, f : LET t == TradeOf(fills, key(f)) IN
        /\ key(t) = key(f)
        /\ t.tx = f.tx /\ t.wallet = f.wallet /\ t.token = f.token /\ t.side = f.side
        /\ t.size = Shares(fills, key(f))
        /\ t.price = priceString(Money(fills, key(f)), Shares(fills, key(f)))
        /\ t.index = Min({g.index : g \in Group(fills, key(f))})
BY DEF TradeOf, key

(* The numbers of an event are those of its log, and it is for shares.     *)
LEMMA EventsOfBatch ==
    ASSUME LogsAreSound, NEW logs \in Batches
    PROVE  /\ IsFiniteSet(Events(logs))
           /\ \A of \in Events(logs) :
                /\ of.makerAmount \in Nat /\ of.takerAmount \in Nat
                /\ of.makerAmount = 0 <=> of.takerAmount = 0
                /\ of.side \in {"buy", "sell"}
                /\ of.maker # of.taker
                /\ \A e \in Events(logs) : of.tx = e.tx /\ of.index = e.index => of = e
<1>1. ASSUME NEW l
      PROVE  /\ IsFiniteSet(Decoded(l))
             /\ \A of \in Decoded(l) :
                  /\ of.makerAmount = l.makerAmount /\ of.takerAmount = l.takerAmount
                  /\ of.maker = l.maker /\ of.taker = l.taker
                  /\ of.tx = l.tx /\ of.index = l.index
                  /\ of.side \in {"buy", "sell"}
  <2>1. \A side, token :
           LET of == OrderFilled(l, side, token) IN
           /\ of.makerAmount = l.makerAmount /\ of.takerAmount = l.takerAmount
           /\ of.maker = l.maker /\ of.taker = l.taker
           /\ of.tx = l.tx /\ of.index = l.index /\ of.side = side
    BY DEF OrderFilled
  <2>2. Decoded(l) = {} \/ \E side \in {"buy", "sell"} : \E token :
                              Decoded(l) = {OrderFilled(l, side, token)}
    <3> HIDE DEF OrderFilled
    <3>1. Decoded(l) \in {DecodeOrderFilled(l), DecodeOrderFilledLegacy(l), {}}
      BY DEF Decoded
    <3>2. QED
      BY <3>1 DEF DecodeOrderFilled, DecodeOrderFilledLegacy
  <2>3. \A x : IsFiniteSet({x}) /\ IsFiniteSet({})
    BY FS_Singleton, FS_EmptySet
  <2> HIDE DEF OrderFilled
  <2>4. IsFiniteSet(Decoded(l))
    BY <2>2, <2>3
  <2>5. QED
    BY <2>1, <2>2, <2>4
<1>2. IsFiniteSet(Events(logs))
  <2> DEFINE All == {[m \in logs |-> Decoded(m)][l] : l \in logs}
  <2>1. IsFiniteSet(All)
    BY ImageIsFinite, StrategyAssumption
  <2>2. \A T \in All : IsFiniteSet(T)
    BY <1>1
  <2>3. Events(logs) = UNION All
    BY DEF Events
  <2> HIDE DEF All
  <2>4. QED
    BY <2>1, <2>2, <2>3, FS_UNION
<1>3. \A of \in Events(logs) : \E l \in logs : of \in Decoded(l)
  BY DEF Events
<1>4. ASSUME NEW of \in Events(logs)
      PROVE  /\ of.makerAmount \in Nat /\ of.takerAmount \in Nat
             /\ of.makerAmount = 0 <=> of.takerAmount = 0
             /\ of.side \in {"buy", "sell"}
             /\ of.maker # of.taker
             /\ \A e \in Events(logs) : of.tx = e.tx /\ of.index = e.index => of = e
  <2>1. PICK l \in logs : of \in Decoded(l)
    BY <1>3
  <2>2. l.makerAmount \in Nat /\ l.takerAmount \in Nat
    BY StrategyAssumption
  <2>3. ASSUME NEW e \in Events(logs), of.tx = e.tx, of.index = e.index PROVE of = e
    <3>1. PICK m \in logs : e \in Decoded(m)
      BY <1>3
    <3>2. l = m
      BY <1>1, <2>1, <2>3, <3>1 DEF LogsAreSound
    <3>3. QED
      BY <2>1, <3>1, <3>2, OneEvent
  <2>4. QED
    BY <1>1, <2>1, <2>2, <2>3 DEF LogsAreSound
<1>5. QED
  BY <1>2, <1>4

(* The fills are the views of the events by their watched sides.           *)
LEMMA FillsAreViews ==
    \A logs, f : f \in WatchedFills(logs, Watched) <=>
        /\ f.wallet \in Watched
        /\ \E of \in Events(logs), role \in {"maker", "taker"} : f = FillFor(of, role)
<1> HIDE DEF FillFor
<1>1. QED
  BY DEF WatchedFills, Events

(* What a view says of its event.                                          *)
LEMMA ViewOfEvent ==
    ASSUME NEW of, of.maker # of.taker, of.side \in {"buy", "sell"}, NEW role \in {"maker", "taker"}
    PROVE  LET f == FillFor(of, role) IN
           /\ f.role = role /\ f.token = of.token /\ f.tx = of.tx /\ f.index = of.index
           /\ f.wallet = (IF role = "maker" THEN of.maker ELSE of.taker)
           /\ f.side = (IF role = "maker" THEN of.side ELSE Opposite(of.side))
           /\ f.usdc = (IF of.side = "buy" THEN of.makerAmount ELSE of.takerAmount)
           /\ f.shares = (IF of.side = "buy" THEN of.takerAmount ELSE of.makerAmount)
BY DEF FillFor

(* One fill for each log and wallet, with money for its shares.            *)
LEMMA FillsAreSound ==
    ASSUME LogsAreSound, NEW logs \in Batches
    PROVE  LET fills == WatchedFills(logs, Watched) IN
           \A f \in fills :
              /\ f.shares = 0 => f.usdc = 0
              /\ \A g \in fills : f.tx = g.tx /\ f.index = g.index /\ f.wallet = g.wallet => f = g
<1> DEFINE fills == WatchedFills(logs, Watched)
<1>1. ASSUME NEW f \in fills
      PROVE  \E of \in Events(logs), role \in {"maker", "taker"} : f = FillFor(of, role)
  BY <1>1, FillsAreViews
<1>2. ASSUME NEW f \in fills, NEW g \in fills,
             f.tx = g.tx, f.index = g.index, f.wallet = g.wallet
      PROVE  f = g
  <2>1. PICK of \in Events(logs), role \in {"maker", "taker"} : f = FillFor(of, role)
    BY <1>1
  <2>2. PICK e \in Events(logs), part \in {"maker", "taker"} : g = FillFor(e, part)
    BY <1>1
  <2>3. of.maker # of.taker /\ of.side \in {"buy", "sell"}
    BY EventsOfBatch
  <2>4. e.maker # e.taker /\ e.side \in {"buy", "sell"}
    BY EventsOfBatch
  <2>5. /\ f.tx = of.tx /\ f.index = of.index
        /\ f.wallet = (IF role = "maker" THEN of.maker ELSE of.taker)
    BY <2>1, <2>3, ViewOfEvent
  <2>6. /\ g.tx = e.tx /\ g.index = e.index
        /\ g.wallet = (IF part = "maker" THEN e.maker ELSE e.taker)
    BY <2>2, <2>4, ViewOfEvent
  <2>7. of = e
    BY <1>2, <2>5, <2>6, EventsOfBatch
  <2>8. role = part
    BY <1>2, <2>3, <2>5, <2>6, <2>7
  <2>9. QED
    BY <2>1, <2>2, <2>7, <2>8
<1>3. ASSUME NEW f \in fills, f.shares = 0 PROVE f.usdc = 0
  <2>1. PICK of \in Events(logs), role \in {"maker", "taker"} : f = FillFor(of, role)
    BY <1>1
  <2>2. of.maker # of.taker /\ of.side \in {"buy", "sell"}
    BY EventsOfBatch
  <2>3. /\ f.usdc = (IF of.side = "buy" THEN of.makerAmount ELSE of.takerAmount)
        /\ f.shares = (IF of.side = "buy" THEN of.takerAmount ELSE of.makerAmount)
    BY <2>1, <2>2, ViewOfEvent
  <2>4. of.makerAmount = 0 <=> of.takerAmount = 0
    BY EventsOfBatch
  <2>5. QED
    BY <1>3, <2>3, <2>4
<1>4. QED
  BY <1>2, <1>3

(* A fill counts for its wallet by its direction.                          *)
Signed(f) == IF f.side = "buy" THEN f.shares ELSE -f.shares

FillsIn(logs, w, token) ==
    {f \in WatchedFills(logs, Watched) : f.wallet = w /\ f.token = token}

(* What the fills of a wallet bring is what the logs moved to it.          *)
LEMMA FillsAreMoved ==
    ASSUME LogsAreSound, NEW logs \in Batches, NEW w \in Watched, NEW token
    PROVE  SumFunctionOnSet([f \in FillsIn(logs, w, token) |-> Signed(f)], FillsIn(logs, w, token))
             = Gained(logs, w, token)
<1> DEFINE S == FillsIn(logs, w, token)
           g == [f \in S |-> Signed(f)]
           E == {of \in Events(logs) : of.token = token}
           c == [f \in S |-> CHOOSE of \in E : of.tx = f.tx /\ of.index = f.index]
           Part(of) == {f \in S : c[f] = of}
           h == [of \in E |-> Moved(of, w)]
           p == [of \in E |-> SumFunctionOnSet(g, Part(of))]
<1>1. IsFiniteSet(S)
  BY FillsOfBatch, FS_Subset DEF FillsIn
<1>2. IsFiniteSet(E)
  BY EventsOfBatch, FS_Subset
<1>3. \A f \in S : g[f] = Signed(f) /\ g[f] \in Int
  BY FillsOfBatch DEF FillsIn, Signed
<1>4. ASSUME NEW f \in S, NEW of \in Events(logs), NEW role \in {"maker", "taker"},
             f = FillFor(of, role)
      PROVE  of \in E /\ c[f] = of
  <2>1. of.maker # of.taker /\ of.side \in {"buy", "sell"}
    BY EventsOfBatch
  <2>2. f.tx = of.tx /\ f.index = of.index /\ f.token = of.token
    BY <1>4, <2>1, ViewOfEvent
  <2>3. of \in E
    BY <2>2 DEF FillsIn
  <2>4. \A e \in E : e.tx = f.tx /\ e.index = f.index => e = of
    BY <2>2, EventsOfBatch
  <2>5. c[f] = CHOOSE e \in E : e.tx = f.tx /\ e.index = f.index
    OBVIOUS
  <2> HIDE DEF E, S, c
  <2>6. QED
    BY <2>2, <2>3, <2>4, <2>5
<1>5. ASSUME NEW f \in S
      PROVE  /\ f.wallet = w
             /\ \E of \in Events(logs), role \in {"maker", "taker"} : f = FillFor(of, role)
  BY <1>5, FillsAreViews DEF FillsIn
<1>6. \A f \in S : c[f] \in E
  <2> HIDE DEF S, c, E
  <2>1. QED
    BY <1>4, <1>5
<1>7. ASSUME NEW of \in E PROVE p[of] = h[of] /\ h[of] \in Int
  <2>1. /\ of.maker # of.taker /\ of.side \in {"buy", "sell"} /\ of.token = token
        /\ of \in Events(logs) /\ of.makerAmount \in Nat /\ of.takerAmount \in Nat
    BY EventsOfBatch
  <2>2. ASSUME NEW role \in {"maker", "taker"}
        PROVE  FillFor(of, role) \in S <=> w = (IF role = "maker" THEN of.maker ELSE of.taker)
    <3>1. FillFor(of, role).wallet = (IF role = "maker" THEN of.maker ELSE of.taker)
      BY <2>1, ViewOfEvent
    <3>2. FillFor(of, role).token = token
      BY <2>1, ViewOfEvent
    <3>3. QED
      BY <2>1, <3>1, <3>2, FillsAreViews DEF FillsIn
  <2>3. \A f : f \in Part(of) <=>
                  f \in S /\ \E role \in {"maker", "taker"} : f = FillFor(of, role)
    <3> HIDE DEF S, c, E
    <3>1. QED
      BY <1>4, <1>5, <2>1
  <2>4. p[of] = SumFunctionOnSet(g, Part(of)) /\ h[of] = Moved(of, w)
    OBVIOUS
  <2> HIDE DEF S, E, c, p, h, Part, g
  <2>5. \A f \in S : SumFunctionOnSet(g, {f}) = g[f]
    <3> TAKE f \in S
    <3>1. IsFiniteSet({f}) /\ \A y \in {f} : g[y] \in Int
      BY <1>3, FS_Singleton
    <3>2. SumFunctionOnSet(g, {f}) = g[f] + SumFunctionOnSet(g, {f} \ {f})
      BY <3>1, SumTakesAnyFirst
    <3>3. {f} \ {f} = {}
      OBVIOUS
    <3>4. QED
      BY <1>3, <3>2, <3>3, SumOfNone
  <2>6. CASE w = of.maker
    <3> DEFINE f == FillFor(of, "maker")
    <3>1. f.side = of.side
             /\ f.shares = (IF of.side = "buy" THEN of.takerAmount ELSE of.makerAmount)
      BY <2>1, ViewOfEvent
    <3>2. f \in S /\ FillFor(of, "taker") \notin S
      BY <2>1, <2>2, <2>6
    <3> HIDE DEF f
    <3>3. Part(of) = {f}
      BY <2>3, <3>2 DEF f
    <3>4. p[of] = Signed(f)
      BY <1>3, <2>4, <2>5, <3>2, <3>3
    <3>5. QED
      BY <2>1, <2>4, <2>6, <3>1, <3>4 DEF Signed, Moved
  <2>7. CASE w = of.taker
    <3> DEFINE f == FillFor(of, "taker")
    <3>1. f.side = Opposite(of.side)
             /\ f.shares = (IF of.side = "buy" THEN of.takerAmount ELSE of.makerAmount)
      BY <2>1, ViewOfEvent
    <3>2. f \in S /\ FillFor(of, "maker") \notin S
      BY <2>1, <2>2, <2>7
    <3> HIDE DEF f
    <3>3. Part(of) = {f}
      BY <2>3, <3>2 DEF f
    <3>4. p[of] = Signed(f)
      BY <1>3, <2>4, <2>5, <3>2, <3>3
    <3>5. QED
      BY <2>1, <2>4, <2>7, <3>1, <3>4 DEF Signed, Moved, Opposite
  <2>8. CASE w \notin {of.maker, of.taker}
    <3>1. Part(of) = {}
      BY <2>2, <2>3, <2>8
    <3>2. QED
      BY <2>4, <2>8, <3>1, SumOfNone DEF Moved
  <2>9. QED
    BY <2>6, <2>7, <2>8
<1>8. SumFunctionOnSet(g, S) = SumFunctionOnSet(p, E)
  <2>1. \A f \in S : g[f] \in Int
    BY <1>3
  <2> HIDE DEF S, g, c, E
  <2>2. QED
    BY <2>1, <1>1, <1>2, <1>6, SumByParts
<1>9. SumFunctionOnSet(p, E) = SumFunctionOnSet(h, E)
  <2> HIDE DEF p, h, E
  <2>1. QED
    BY <1>2, <1>7, SumOfEqual
<1>10. QED
  BY <1>8, <1>9 DEF Gained

(* What the trades of a wallet bring is what its fills bring.              *)
LEMMA TradesAreFills ==
    ASSUME NEW logs \in Batches, NEW w, NEW token
    PROVE  Held(TradesOf(logs), w, token)
             = SumFunctionOnSet([f \in FillsIn(logs, w, token) |-> Signed(f)],
                                FillsIn(logs, w, token))
<1> DEFINE fills == WatchedFills(logs, Watched)
           S == FillsIn(logs, w, token)
           g == [f \in S |-> Signed(f)]
           T == {t \in TradesOf(logs) : t.wallet = w /\ t.token = token}
           c == [f \in S |-> TradeOf(fills, key(f))]
           Part(t) == {f \in S : c[f] = t}
           h == [t \in T |-> IF t.side = "buy" THEN t.size ELSE -t.size]
           p == [t \in T |-> SumFunctionOnSet(g, Part(t))]
<1>1. IsFiniteSet(S)
  BY FillsOfBatch, FS_Subset DEF FillsIn
<1>2. IsFiniteSet(T)
  BY TradesOfBatch, FS_Subset
<1>3. \A f \in S : g[f] = Signed(f) /\ g[f] \in Int /\ f.shares \in Nat
  BY FillsOfBatch DEF FillsIn, Signed
<1>4. TradesOf(logs) = {TradeOf(fills, k) : k \in {key(f) : f \in fills}}
  BY TradesAreOfGroups DEF TradesOf
<1>5. \A f \in S : c[f] = TradeOf(fills, key(f)) /\ f \in fills /\ f.wallet = w /\ f.token = token
  BY DEF FillsIn
<1>6. \A f \in S : c[f] \in T
  <2> HIDE DEF S, c, fills
  <2>1. QED
    BY <1>4, <1>5, TradeHasKey
<1>7. ASSUME NEW t \in T PROVE p[t] = h[t] /\ h[t] \in Int
  <2>1. PICK f \in fills : t = TradeOf(fills, key(f))
    <3> HIDE DEF fills
    <3>1. QED
      BY <1>4
  <2>2. /\ key(t) = key(f) /\ t.wallet = f.wallet /\ t.token = f.token /\ t.side = f.side
        /\ t.size = Shares(fills, key(f))
    <3> HIDE DEF fills
    <3>1. QED
      BY <2>1, TradeHasKey
  <2>3. f.wallet = w /\ f.token = token
    BY <2>2
  <2> DEFINE G == Group(fills, key(f))
             s == [e \in G |-> e.shares]
  <2>4. Part(t) = G
    <3>1. \A e \in S : c[e] = t => key(e) = key(f)
      <4> HIDE DEF fills, S, c, T
      <4>1. QED
        BY <1>5, <2>2, TradeHasKey
    <3>2. \A e \in fills : key(e) = key(f) => e \in S /\ c[e] = t
      <4>1. \A e \in fills : key(e) = key(f) => e.wallet = w /\ e.token = token
        BY <2>3 DEF key
      <4>2. \A e \in fills : key(e) = key(f) => e \in S
        BY <4>1 DEF FillsIn
      <4> HIDE DEF fills, S, c, T
      <4>3. QED
        BY <4>2, <1>5, <2>1
    <3>3. QED
      BY <3>1, <3>2, <1>5 DEF Group
  <2>5. \A e \in G : e \in S /\ e.side = f.side /\ s[e] = e.shares
    BY <2>4 DEF Group, key
  <2>6. IsFiniteSet(G)
    <3> HIDE DEF G, S
    <3>1. QED
      BY <1>1, <2>5, FS_Subset
  <2>7. t.size = SumFunctionOnSet(s, G)
    BY <2>2 DEF Shares
  <2>8. p[t] = SumFunctionOnSet(g, G) /\ h[t] = (IF t.side = "buy" THEN t.size ELSE -t.size)
    BY <2>4
  <2> HIDE DEF G, s, g, S, p, h, T, c, Part, fills
  <2>9. \A e \in G : s[e] \in Int /\ g[e] \in Int
    BY <1>3, <2>5
  <2>10. SumFunctionOnSet(s, G) \in Int
    BY <2>6, <2>9, SumType
  <2>11. CASE t.side = "buy"
    <3>1. \A e \in G : s[e] \in Int /\ g[e] = s[e]
      BY <1>3, <2>2, <2>5, <2>9, <2>11 DEF Signed
    <3>2. SumFunctionOnSet(g, G) = SumFunctionOnSet(s, G)
      BY <2>6, <3>1, SumOfEqual
    <3>3. QED
      BY <2>7, <2>8, <2>10, <2>11, <3>2
  <2>12. CASE t.side # "buy"
    <3>1. \A e \in G : s[e] \in Int /\ g[e] = -s[e]
      BY <1>3, <2>2, <2>5, <2>9, <2>12 DEF Signed
    <3>2. SumFunctionOnSet(g, G) = -SumFunctionOnSet(s, G)
      BY <2>6, <3>1, SumOfOpposites
    <3>3. QED
      BY <2>7, <2>8, <2>10, <2>12, <3>2
  <2>13. QED
    BY <2>11, <2>12
<1>8. SumFunctionOnSet(g, S) = SumFunctionOnSet(p, T)
  <2>1. \A f \in S : g[f] \in Int
    BY <1>3
  <2> HIDE DEF S, g, c, T
  <2>2. QED
    BY <2>1, <1>1, <1>2, <1>6, SumByParts
<1>9. SumFunctionOnSet(p, T) = SumFunctionOnSet(h, T)
  <2> HIDE DEF p, h, T
  <2>1. QED
    BY <1>2, <1>7, SumOfEqual
<1>10. QED
  BY <1>8, <1>9 DEF Held

(* A price rounds to the nearest unit.                                     *)
LEMMA PriceRounds ==
    ASSUME NEW u \in Nat, NEW s \in Nat
    PROVE  LET p == priceString(u, s) IN
           /\ p \in Nat
           /\ s = 0 => p = 0
           /\ s > 0 => /\ 2 * p * s <= 2 * Unit * u + s
                       /\ 2 * Unit * u + s < 2 * (p + 1) * s
<1>1. CASE s = 0
  BY <1>1 DEF priceString
<1>2. CASE s > 0
  <2>1. Unit \in Nat
    BY UnitAssumption
  <2>2. 2 * u * Unit + s \in Nat /\ 2 * s \in Nat \ {0}
    BY <1>2, <2>1
  <2>3. PICK a \in Nat, b \in Nat \ {0} : a = 2 * u * Unit + s /\ b = 2 * s
    BY <2>2
  <2>4. PICK p : p = a \div b
    OBVIOUS
  <2>5. p \in Int /\ b * p <= a /\ a < b * p + b /\ p >= 0
    BY <2>4, Quotient
  <2>6. a = 2 * Unit * u + s /\ b * p = 2 * p * s /\ b * p + b = 2 * (p + 1) * s
    BY <2>1, <2>3, <2>5
  <2>7. priceString(u, s) = p
    BY <1>2, <2>3, <2>4 DEF priceString
  <2> HIDE DEF priceString
  <2>8. QED
    BY <1>2, <2>5, <2>6, <2>7
<1>3. QED
  BY <1>1, <1>2

(* The price of a sum lies between the prices of its parts.                *)
LEMMA PriceIsBetween ==
    ASSUME NEW G, IsFiniteSet(G), G # {}, NEW u, NEW s,
           \A f \in G : u[f] \in Nat /\ s[f] \in Nat /\ (s[f] = 0 => u[f] = 0)
    PROVE  \E low, high \in G :
              /\ priceString(u[low], s[low])
                   <= priceString(SumFunctionOnSet(u, G), SumFunctionOnSet(s, G))
              /\ priceString(SumFunctionOnSet(u, G), SumFunctionOnSet(s, G))
                   <= priceString(u[high], s[high])
<1> DEFINE p == [f \in G |-> priceString(u[f], s[f])]
           U == SumFunctionOnSet(u, G)
           Z == SumFunctionOnSet(s, G)
           a == [f \in G |-> (2 * Unit) * u[f] + 1 * s[f]]
<1>1. \A f \in G : p[f] = priceString(u[f], s[f]) /\ p[f] \in Nat
  BY PriceRounds
<1>2. PICK low \in G : \A f \in G : p[low] <= p[f]
  <2> HIDE DEF p
  <2>1. \A f \in G : p[f] \in Int
    BY <1>1
  <2>2. QED
    BY <2>1, HasLeast
<1>3. PICK high \in G : \A f \in G : p[f] <= p[high]
  <2> HIDE DEF p
  <2>1. \A f \in G : p[f] \in Int
    BY <1>1
  <2>2. QED
    BY <2>1, HasGreatest
<1>4. U \in Nat /\ Z \in Nat
  BY SumType
<1>5. PICK P \in Nat : P = priceString(U, Z)
  BY <1>4, PriceRounds
<1>6. PICK lo \in Nat : lo = p[low]
  BY <1>1, <1>2
<1>7. PICK hi \in Nat : hi = p[high]
  BY <1>1, <1>3
<1>8. PICK above \in Nat : above = 2 * (hi + 1)
  OBVIOUS
<1> DEFINE b == [f \in G |-> (2 * lo) * s[f] + 0 * s[f]]
           c == [f \in G |-> above * s[f] + 0 * s[f]]
<1>9. Unit \in Nat /\ 2 * Unit \in Int /\ 2 * lo \in Int /\ above \in Int /\ 0 \in Int /\ 1 \in Int
  BY UnitAssumption
<1>10. ASSUME NEW f \in G
      PROVE  /\ a[f] \in Int /\ b[f] \in Int /\ c[f] \in Int
             /\ b[f] <= a[f] /\ a[f] <= c[f]
             /\ s[f] > 0 => a[f] < c[f]
             /\ s[f] = 0 => p[f] = 0
  <2>1. a[f] = (2 * Unit) * u[f] + 1 * s[f] /\ b[f] = (2 * lo) * s[f] + 0 * s[f]
        /\ c[f] = above * s[f] + 0 * s[f]
    OBVIOUS
  <2>2. lo <= p[f] /\ p[f] <= hi
    BY <1>2, <1>3, <1>6, <1>7
  <2> HIDE DEF a, b, c, p
  <2>3. PICK m \in Nat, n \in Nat, q \in Nat : m = u[f] /\ n = s[f] /\ q = p[f]
    BY <1>1
  <2>4. q = priceString(m, n) /\ (n = 0 => m = 0)
    BY <1>1, <2>3
  <2>5. a[f] = 2 * Unit * m + n /\ b[f] = 2 * lo * n /\ c[f] = 2 * (hi + 1) * n
    BY <1>8, <1>9, <2>1, <2>3
  <2>6. CASE n = 0
    <3>1. m = 0 /\ q = 0
      BY <2>4, <2>6, PriceRounds
    <3>2. 2 * Unit * m + n = 0 /\ 2 * lo * n = 0 /\ 2 * (hi + 1) * n = 0
      BY <2>6, <3>1, <1>9
    <3>3. QED
      BY <2>3, <2>5, <2>6, <3>1, <3>2
  <2>7. CASE n > 0
    <3>1. 2 * q * n <= 2 * Unit * m + n /\ 2 * Unit * m + n < 2 * (q + 1) * n
      BY <2>4, <2>7, PriceRounds
    <3>2. 2 * lo * n <= 2 * q * n /\ 2 * (q + 1) * n <= 2 * (hi + 1) * n
      BY <2>2, <2>3
    <3>3. 2 * Unit * m \in Nat /\ 2 * lo * n \in Nat /\ 2 * (hi + 1) * n \in Nat
          /\ 2 * q * n \in Nat /\ 2 * (q + 1) * n \in Nat
      BY <1>9
    <3>4. QED
      BY <2>3, <2>5, <2>7, <3>1, <3>2, <3>3
  <2>8. QED
    BY <2>6, <2>7
<1>11. SumFunctionOnSet(a, G) = (2 * Unit) * U + 1 * Z
  <2>1. \A f \in G : u[f] \in Int /\ s[f] \in Int /\ a[f] = (2 * Unit) * u[f] + 1 * s[f]
    OBVIOUS
  <2> HIDE DEF a
  <2>2. QED
    BY <1>9, <2>1, SumIsLinear
<1>12. SumFunctionOnSet(b, G) = (2 * lo) * Z + 0 * Z
  <2>1. \A f \in G : s[f] \in Int /\ b[f] = (2 * lo) * s[f] + 0 * s[f]
    OBVIOUS
  <2> HIDE DEF b
  <2>2. QED
    BY <1>9, <2>1, SumIsLinear
<1>13. SumFunctionOnSet(c, G) = above * Z + 0 * Z
  <2>1. \A f \in G : s[f] \in Int /\ c[f] = above * s[f] + 0 * s[f]
    OBVIOUS
  <2> HIDE DEF c
  <2>2. QED
    BY <1>9, <2>1, SumIsLinear
<1>14. SumFunctionOnSet(b, G) <= SumFunctionOnSet(a, G)
  <2> HIDE DEF a, b, c, p
  <2>1. QED
    BY <1>10, SumOfLess
<1>15. ASSUME NEW f \in G, s[f] > 0 PROVE SumFunctionOnSet(a, G) < SumFunctionOnSet(c, G)
  <2> HIDE DEF a, b, c, p
  <2>1. QED
    BY <1>10, <1>15, SumOfLess
<1>16. Z = 0 => \A f \in G : s[f] = 0
  <2>1. \A f \in G : s[f] <= Z /\ s[f] \in Nat
    BY SumCoversPart
  <2> HIDE DEF Z
  <2>2. QED
    BY <2>1
<1>17. Z > 0 => \E f \in G : s[f] > 0
  <2>1. SUFFICES ASSUME \A f \in G : ~(s[f] > 0) PROVE Z = 0
    BY <1>4
  <2>2. \A f \in G : s[f] = 0 /\ s[f] = 0 * s[f] + 0 * s[f]
    BY <2>1
  <2>3. Z = 0 * Z + 0 * Z
    <3>1. \A f \in G : s[f] \in Int
      OBVIOUS
    <3>2. QED
      BY <1>9, <2>2, <3>1, SumIsLinear
  <2>4. QED
    BY <1>4, <2>3
<1>18. lo <= P /\ P <= hi
  <2> HIDE DEF a, b, c, p, U, Z
  <2>1. CASE Z = 0
    <3>1. P = 0
      BY <1>4, <1>5, <2>1, PriceRounds
    <3>2. lo = 0
      BY <1>2, <1>6, <1>10, <1>16, <2>1
    <3>3. QED
      BY <3>1, <3>2
  <2>2. CASE Z > 0
    <3>1. 2 * P * Z <= 2 * Unit * U + Z /\ 2 * Unit * U + Z < 2 * (P + 1) * Z
      BY <1>4, <1>5, <2>2, PriceRounds
    <3>2. SumFunctionOnSet(a, G) = 2 * Unit * U + Z
      BY <1>4, <1>9, <1>11
    <3>3. SumFunctionOnSet(b, G) = 2 * lo * Z
      BY <1>4, <1>12
    <3>4. SumFunctionOnSet(c, G) = 2 * (hi + 1) * Z
      BY <1>8, <1>4, <1>13
    <3>5. 2 * lo * Z < 2 * (P + 1) * Z
      <4>1. 2 * lo * Z <= 2 * Unit * U + Z
        BY <1>14, <3>2, <3>3
      <4>2. 2 * lo * Z \in Nat /\ 2 * Unit * U + Z \in Nat /\ 2 * (P + 1) * Z \in Nat
        BY <1>4, <1>9
      <4>3. QED
        BY <3>1, <4>1, <4>2
    <3>6. 2 * P * Z < 2 * (hi + 1) * Z
      <4>1. 2 * Unit * U + Z < 2 * (hi + 1) * Z
        BY <1>15, <1>17, <2>2, <3>2, <3>4
      <4>2. 2 * P * Z \in Nat /\ 2 * Unit * U + Z \in Nat /\ 2 * (hi + 1) * Z \in Nat
        BY <1>4, <1>9
      <4>3. QED
        BY <3>1, <4>1, <4>2
    <3>7. \A m, n \in Nat, z \in Nat \ {0} : 2 * m * z < 2 * n * z => m < n
      OBVIOUS
    <3>8. lo < P + 1 /\ P < hi + 1
      BY <1>4, <2>2, <3>5, <3>6, <3>7
    <3>9. QED
      BY <3>8
  <2>3. QED
    BY <1>4, <2>1, <2>2
<1>19. QED
  BY <1>1, <1>2, <1>3, <1>5, <1>6, <1>7, <1>18

(* A trade is at the index of one of its fills.                            *)
LEMMA TradeIsAtFill ==
    ASSUME NEW logs \in Batches, NEW f \in WatchedFills(logs, Watched)
    PROVE  \E g \in Group(WatchedFills(logs, Watched), key(f)) :
              g.index = TradeOf(WatchedFills(logs, Watched), key(f)).index
<1> DEFINE G == Group(WatchedFills(logs, Watched), key(f))
           i == [g \in G |-> g.index]
<1>1. IsFiniteSet(G) /\ f \in G
  BY FillsOfBatch, FS_Subset DEF Group
<1>2. \A g \in G : i[g] = g.index /\ i[g] \in Int
  BY FillsOfBatch DEF Group
<1>3. TradeOf(WatchedFills(logs, Watched), key(f)).index = Min({g.index : g \in G})
  BY TradeHasKey
<1> HIDE DEF G, i
<1>4. PICK m \in G : \A g \in G : i[m] <= i[g]
  BY <1>1, <1>2, HasLeast
<1>5. \E x \in {g.index : g \in G} : \A y \in {g.index : g \in G} : x <= y
  BY <1>2, <1>4
<1>6. Min({g.index : g \in G}) \in {g.index : g \in G}
  BY <1>5 DEF Min
<1>7. QED
  BY <1>3, <1>6 DEF G

(* Two trades of a batch have two identities.                              *)
LEMMA TradesAreDistinct ==
    ASSUME LogsAreSound, NEW logs \in Batches
    PROVE  Cardinality({ProposalID(t) : t \in TradesOf(logs)}) = Cardinality(TradesOf(logs))
<1> DEFINE fills == WatchedFills(logs, Watched)
           T == TradesOf(logs)
           i == [t \in T |-> ProposalID(t)]
           I == {ProposalID(t) : t \in T}
<1>1. IsFiniteSet(T)
  BY TradesOfBatch
<1>2. ASSUME NEW t \in T
      PROVE  \E f \in fills : /\ t = TradeOf(fills, key(f)) /\ key(f) = key(t)
                              /\ t.tx = f.tx /\ t.wallet = f.wallet /\ t.index = f.index
  <2>1. PICK g \in fills : t = TradeOf(fills, key(g))
    <3> HIDE DEF fills
    <3>1. QED
      BY TradesAreOfGroups DEF TradesOf, fills
  <2>2. PICK f \in Group(fills, key(g)) : f.index = t.index
    BY <2>1, TradeIsAtFill
  <2> HIDE DEF fills
  <2>3. f \in fills /\ key(f) = key(g)
    BY DEF Group
  <2>4. f.tx = g.tx /\ f.wallet = g.wallet
    BY <2>3 DEF key
  <2>5. t.tx = g.tx /\ t.wallet = g.wallet /\ key(t) = key(g)
    BY <2>1, TradeHasKey
  <2>6. QED
    BY <2>1, <2>2, <2>3, <2>4, <2>5
<1>3. ASSUME NEW t \in T, NEW r \in T, ProposalID(t) = ProposalID(r) PROVE t = r
  <2>1. t.tx = r.tx /\ t.index = r.index /\ t.wallet = r.wallet
    BY <1>3 DEF ProposalID
  <2>2. PICK f \in fills : /\ t = TradeOf(fills, key(f))
                           /\ t.tx = f.tx /\ t.wallet = f.wallet /\ t.index = f.index
    BY <1>2
  <2>3. PICK g \in fills : /\ r = TradeOf(fills, key(g))
                           /\ r.tx = g.tx /\ r.wallet = g.wallet /\ r.index = g.index
    BY <1>2
  <2>4. f = g
    BY <2>1, <2>2, <2>3, FillsAreSound
  <2>5. QED
    BY <2>2, <2>3, <2>4
<1>4. i \in Surjection(T, I) /\ i \in Injection(T, I)
  <2>1. \A t \in T : i[t] = ProposalID(t)
    OBVIOUS
  <2>2. i \in [T -> I]
    OBVIOUS
  <2> HIDE DEF i, T
  <2>3. QED
    BY <1>3, <2>1, <2>2 DEF Surjection, Injection, IsInjective
<1>5. QED
  <2> HIDE DEF i, T, I
  <2>1. Cardinality(I) = Cardinality(T)
    BY <1>1, <1>4, FS_Surjection
  <2>2. QED
    BY <2>1 DEF I, T

(* The trades of a batch are its logs.                                     *)
LEMMA BatchAddsUp ==
    ASSUME LogsAreSound, NEW logs \in Batches
    PROVE  AddsUp(logs, TradesOf(logs))
<1> DEFINE fills == WatchedFills(logs, Watched)
           T == TradesOf(logs)
<1>1. ASSUME NEW w \in Watched, NEW token PROVE Held(T, w, token) = Gained(logs, w, token)
  BY FillsAreMoved, TradesAreFills
<1>2. ASSUME NEW t \in T
      PROVE  \E f, g \in {e \in fills : key(e) = key(t)} :
                priceString(f.usdc, f.shares) <= t.price /\ t.price <= priceString(g.usdc, g.shares)
  <2>1. PICK f \in fills : t = TradeOf(fills, key(f))
    <3> HIDE DEF fills
    <3>1. QED
      BY TradesAreOfGroups DEF TradesOf, fills
  <2>2. key(t) = key(f) /\ t.price = priceString(Money(fills, key(f)), Shares(fills, key(f)))
    <3> HIDE DEF fills
    <3>1. QED
      BY <2>1, TradeHasKey
  <2> DEFINE G == Group(fills, key(f))
             u == [e \in G |-> e.usdc]
             s == [e \in G |-> e.shares]
  <2>3. G # {} /\ IsFiniteSet(G)
    BY FillsOfBatch, FS_Subset DEF Group
  <2>4. \A e \in G : /\ u[e] = e.usdc /\ s[e] = e.shares /\ u[e] \in Nat /\ s[e] \in Nat
                     /\ s[e] = 0 => u[e] = 0
    BY FillsOfBatch, FillsAreSound DEF Group
  <2>5. Money(fills, key(f)) = SumFunctionOnSet(u, G) /\ Shares(fills, key(f)) = SumFunctionOnSet(s, G)
    BY DEF Money, Shares
  <2>6. G = {e \in fills : key(e) = key(t)}
    BY <2>2 DEF Group
  <2> HIDE DEF G, u, s, fills
  <2>7. PICK low, high \in G :
               /\ priceString(u[low], s[low])
                    <= priceString(SumFunctionOnSet(u, G), SumFunctionOnSet(s, G))
               /\ priceString(SumFunctionOnSet(u, G), SumFunctionOnSet(s, G))
                    <= priceString(u[high], s[high])
    BY <2>3, <2>4, PriceIsBetween
  <2>8. QED
    BY <2>2, <2>4, <2>5, <2>6, <2>7
<1>3. QED
  <2> HIDE DEF fills, T
  <2>1. ASSUME NEW t \in T
        PROVE  LET prices == {priceString(f.usdc, f.shares) : f \in {g \in fills : key(g) = key(t)}}
               IN \E low, high \in prices : low <= t.price /\ t.price <= high
    BY <1>2
  <2>2. Cardinality({ProposalID(t) : t \in T}) = Cardinality(T)
    BY TradesAreDistinct DEF T
  <2>3. AddsUp(logs, T)
    BY <1>1, <2>1, <2>2 DEF AddsUp, fills
  <2>4. QED
    BY <2>3 DEF T

(* What arrives in the queue are the trades of the batch.                  *)
LEMMA ArrivedAreTrades ==
    ASSUME NEW logs \in Batches, queue \in Seq(Detected), Detect(logs)
    PROVE  /\ {Arrived[i] : i \in DOMAIN Arrived} = TradesOf(logs)
           /\ Len(Arrived) = Cardinality(TradesOf(logs))
<1> DEFINE s == Sorted(TradesOf(logs))
<1>1. TradesOf(logs) \subseteq Detected
  BY DEF Detected
<1>2. /\ s \in Seq(TradesOf(logs)) /\ Len(s) = Cardinality(TradesOf(logs))
      /\ {s[i] : i \in DOMAIN s} = TradesOf(logs)
  BY SortedTrades
<1>3. queue' = queue \o s
  BY DEF Detect
<1>4. \A D, q, r : q \in Seq(D) /\ r \in Seq(D) => SubSeq(q \o r, Len(q) + 1, Len(q \o r)) = r
  <2> TAKE D, q, r
  <2> SUFFICES ASSUME q \in Seq(D), r \in Seq(D)
               PROVE  SubSeq(q \o r, Len(q) + 1, Len(q \o r)) = r
    OBVIOUS
  <2> DEFINE t == SubSeq(q \o r, Len(q) + 1, Len(q \o r))
  <2>1. Len(q \o r) = Len(q) + Len(r) /\ q \o r \in Seq(D) /\ Len(q) \in Nat /\ Len(r) \in Nat
    OBVIOUS
  <2>2. Len(t) = Len(r) /\ t \in Seq(D)
    BY <2>1
  <2>3. \A i \in 1 .. Len(r) : t[i] = r[i]
    BY <2>1
  <2> HIDE DEF t
  <2>4. t \in [1 .. Len(r) -> D] /\ r \in [1 .. Len(r) -> D]
    BY <2>1, <2>2
  <2>5. t = r
    BY <2>3, <2>4
  <2>6. QED
    BY <2>5 DEF t
<1>5. s \in Seq(Detected)
  <2> HIDE DEF s
  <2>1. \A A, B : A \subseteq B /\ s \in Seq(A) => s \in Seq(B)
    OBVIOUS
  <2>2. QED
    BY <1>1, <1>2, <2>1
<1> HIDE DEF s
<1>6. Arrived = s
  BY <1>3, <1>4, <1>5 DEF Arrived
<1>7. QED
  BY <1>2, <1>6

(* What arrives with a batch of sound logs is what they moved: no fill is  *)
(* lost or counted twice, no trade is priced outside its fills, and no two *)
(* trades share the identity by which they are decided once.               *)
THEOREM StrategyTradesAddUp == LogsAreSound => (Spec => TradesAddUp)
<1> SUFFICES ASSUME LogsAreSound PROVE Spec => TradesAddUp
  OBVIOUS
<1>1. ASSUME StrategyInv, NEW logs \in Batches, Detect(logs)
      PROVE  /\ AddsUp(logs, {Arrived[i] : i \in DOMAIN Arrived})
             /\ Len(Arrived) = Cardinality(TradesOf(logs))
  <2>1. queue \in Seq(Detected)
    BY <1>1 DEF StrategyInv, MemoryInv
  <2>2. /\ {Arrived[i] : i \in DOMAIN Arrived} = TradesOf(logs)
        /\ Len(Arrived) = Cardinality(TradesOf(logs))
    BY <1>1, <2>1, ArrivedAreTrades
  <2>3. QED
    BY <2>2, BatchAddsUp
<1>2. StrategyInv =>
        [\A logs \in Batches :
           Detect(logs) =>
             /\ AddsUp(logs, {Arrived[i] : i \in DOMAIN Arrived})
             /\ Len(Arrived) = Cardinality(TradesOf(logs))]_vars
  BY <1>1
<1>3. QED
  BY <1>2, StrategyKept, PTL DEF TradesAddUp
=============================================================================
