--------------------------- MODULE ConsensusProofs ---------------------------
(***************************************************************************)
(* Theorems about Consensus, for every finite set of wallets, all keys,    *)
(* every threshold of at least two, every window, and any failures.        *)
(***************************************************************************)
EXTENDS Consensus, FiniteSetTheorems, TLAPS

(***************************************************************************)
(* The inductive invariant.  The rows of the window are the latest trades  *)
(* of the live wallets, so that a cohort counted from the table is the one *)
(* the outside sees; the high-water is at least the largest live cohort    *)
(* since it was below the threshold; and of a cohort not more than one     *)
(* wallet short of the threshold it was published, is about to be, or its  *)
(* signal was lost.                                                        *)
(***************************************************************************)
RowsMatchLatest ==
  /\ \A e \in events : e.at <= latest[e.key][e.wallet]
  /\ \A k \in Keys, w \in Wallets :
       /\ latest[k][w] <= clock
       /\ latest[k][w] >= Cutoff =>
            \E e \in events : e.key = k /\ e.wallet = w /\ e.at = latest[k][w]

HighIsLive ==
  \A k \in Keys :
    /\ Cardinality(Live(k, clock)) < MinWallets => high[k] = 0
    /\ Cardinality(Live(k, clock)) >= MinWallets => high[k] >= Cardinality(Live(k, clock))

FiredCoversHigh == \A k \in Keys : fired[k] >= high[k]

SignalIsHighWater ==
  pc = "publish" => Cardinality(signal.wallets) = fired[signal.key]

HeardOrPending ==
  \A k \in Keys \ lost :
    Size(k, clock) >= MinWallets - 1 /\ fired[k] # 0 =>
      signalled[k] >= fired[k] \/ (pc = "publish" /\ signal.key = k)

ConsensusInv ==
  /\ TypeOK
  /\ RowsMatchLatest
  /\ RowsAreLive
  /\ SignalIsReal
  /\ HighIsLive
  /\ FiredCoversHigh
  /\ SignalIsHighWater
  /\ HeardOrPending
--------------------------------------------------------------------------------
(* Lemmas.                                                                 *)

(* The size of a set of wallets.                                           *)
LEMMA Sized ==
    /\ \A S \in SUBSET Wallets : /\ Cardinality(S) \in Nat
                                 /\ Cardinality(S) \in Sizes
                                 /\ Cardinality(S) = 0 <=> S = {}
    /\ \A T \in SUBSET Wallets : \A S \in SUBSET T : Cardinality(S) <= Cardinality(T)
    /\ \A w \in Wallets : Cardinality({w}) = 1
    /\ Sizes \subseteq Nat
<1>1. IsFiniteSet(Wallets)
  BY ConsensusAssumption
<1>2. Cardinality(Wallets) \in Nat
  BY <1>1, FS_CardinalityType
<1>3. ASSUME NEW S \in SUBSET Wallets
      PROVE  IsFiniteSet(S) /\ Cardinality(S) \in Nat /\ Cardinality(S) <= Cardinality(Wallets)
  BY <1>1, <1>3, FS_Subset, FS_CardinalityType
<1>4. ASSUME NEW S \in SUBSET Wallets PROVE Cardinality(S) = 0 <=> S = {}
  BY <1>3, FS_EmptySet
<1>5. ASSUME NEW T \in SUBSET Wallets, NEW S \in SUBSET T
      PROVE  Cardinality(S) <= Cardinality(T)
  BY <1>3, FS_Subset
<1>6. \A w \in Wallets : Cardinality({w}) = 1
  BY FS_Singleton
<1>7. QED
  BY <1>2, <1>3, <1>4, <1>5, <1>6 DEF Sizes

(* The high-water is a size that is zero or at least the threshold.        *)
LEMMA HighWaterSize ==
    ASSUME NEW m \in Sizes, NEW n \in Sizes \ 1 .. (MinWallets - 1)
    PROVE  /\ HighWater(m, n) \in Sizes \ 1 .. (MinWallets - 1)
           /\ Peak(m, n) = HighWater(m, n)
           /\ m < MinWallets => HighWater(m, n) = 0
           /\ m >= MinWallets => HighWater(m, n) >= m /\ HighWater(m, n) >= n
           /\ Fires(m, n) => HighWater(m, n) = m
           /\ ~Fires(m, n) /\ HighWater(m, n) # 0 => HighWater(m, n) = n
<1>1. Sizes \subseteq Nat /\ 0 \in Sizes /\ MinWallets \in Nat /\ MinWallets >= 2
  BY Sized, ConsensusAssumption, FS_CardinalityType DEF Sizes
<1>2. QED
  BY <1>1 DEF HighWater, Peak, Longest, Fires

(***************************************************************************)
(* What one transaction does: the cohort it counts is the live one, with   *)
(* the wallet it recorded, and no key with live trades loses its row.      *)
(***************************************************************************)
LEMMA RecordCounts ==
    ASSUME ConsensusInv, NEW k \in Keys, NEW w \in Wallets, Record(k, w),
           latest' = [latest EXCEPT ![k][w] = clock], clock' = clock
    PROVE  /\ RowsMatchLatest' /\ events' \subseteq Row /\ RowsAreLive'
           /\ Live(k, clock)' = Live(k, clock) \union {w}
           /\ \A j \in Keys : j # k => Live(j, clock)' = Live(j, clock)
           /\ fired'[k] = HighWater(Cardinality(Live(k, clock) \union {w}), fired[k])
           /\ \A j \in Keys : j # k =>
                /\ fired'[j] \in {fired[j], 0}
                /\ Live(j, clock) # {} => fired'[j] = fired[j]
           /\ IF Fires(Cardinality(Live(k, clock) \union {w}), fired[k])
              THEN /\ pc' = "publish"
                   /\ signal' = [key |-> k, wallets |-> Live(k, clock) \union {w}, at |-> clock]
              ELSE UNCHANGED <<pc, signal>>
           /\ fired' \in [Keys -> Sizes \ 1 .. (MinWallets - 1)]
<1> DEFINE new   == [key |-> k, wallet |-> w, at |-> clock]
           rows  == Prune(events \union {new})
           marks == Reap(fired, rows)
           live  == Live(k, clock) \union {w}
           count == Cardinality(Cohort(rows, k))
<1>1. /\ clock \in Nat /\ clock \in 0 .. MaxTime /\ Window \in Nat /\ Window > 0
      /\ Cutoff \in Int /\ Cutoff < clock
  BY ConsensusAssumption DEF ConsensusInv, TypeOK, Cutoff
<1>2. /\ events' = rows
      /\ fired' = [marks EXCEPT ![k] = HighWater(count, @)]
      /\ IF Fires(count, marks[k])
         THEN /\ pc' = "publish"
              /\ signal' = [key |-> k, wallets |-> Cohort(rows, k), at |-> clock]
         ELSE UNCHANGED <<pc, signal>>
  BY DEF Record
<1>3. new \in Row /\ new.key = k /\ new.wallet = w /\ new.at = clock
  BY <1>1 DEF Row
<1>4. latest \in [Keys -> [Wallets -> (-Window - 1)..MaxTime]] /\ events \subseteq Row
  BY DEF ConsensusInv, TypeOK
<1>5. /\ latest'[k][w] = clock
      /\ \A j \in Keys, v \in Wallets : j # k \/ v # w => latest'[j][v] = latest[j][v]
  BY <1>4
<1>6. \A e \in rows : (e \in events \/ e = new) /\ e.at >= Cutoff
  BY DEF Prune
<1>7. new \in rows /\ \A e \in events : e.at >= Cutoff => e \in rows
  BY <1>1, <1>3 DEF Prune
<1> HIDE DEF new, rows
<1>8. events' \subseteq Row
  BY <1>2, <1>3, <1>4, <1>6
<1>9. \A e \in events' : e.key \in Keys /\ e.wallet \in Wallets /\ e.at \in Nat
  BY <1>8 DEF Row
<1>10. \A j \in Keys, v \in Wallets : latest[j][v] \in Int /\ latest'[j][v] \in Int
  BY <1>1, <1>4, <1>5
<1>11. RowsMatchLatest'
  <2>1. ASSUME NEW e \in events' PROVE e.at <= latest'[e.key][e.wallet]
    <3>1. CASE e = new
      BY <1>1, <1>3, <1>5, <3>1
    <3>2. CASE e \in events
      <4>1. e.at <= latest[e.key][e.wallet] /\ latest[e.key][e.wallet] <= clock
        BY <1>9, <2>1, <3>2 DEF ConsensusInv, RowsMatchLatest
      <4>2. QED
        BY <1>1, <1>5, <1>9, <1>10, <2>1, <4>1
    <3>3. QED
      BY <1>2, <1>6, <2>1, <3>1, <3>2
  <2>2. ASSUME NEW j \in Keys, NEW v \in Wallets
        PROVE  /\ latest'[j][v] <= clock
               /\ latest'[j][v] >= Cutoff =>
                    \E e \in events' : e.key = j /\ e.wallet = v /\ e.at = latest'[j][v]
    <3>1. CASE j = k /\ v = w
      BY <1>1, <1>2, <1>3, <1>5, <1>7, <3>1
    <3>2. CASE j # k \/ v # w
      <4>1. latest'[j][v] = latest[j][v] /\ latest[j][v] <= clock
        BY <1>5, <3>2 DEF ConsensusInv, RowsMatchLatest
      <4>2. ASSUME latest[j][v] >= Cutoff
            PROVE  \E e \in events' : e.key = j /\ e.wallet = v /\ e.at = latest[j][v]
        <5>1. PICK e \in events : e.key = j /\ e.wallet = v /\ e.at = latest[j][v]
          BY <4>2 DEF ConsensusInv, RowsMatchLatest
        <5>2. e \in events'
          BY <1>2, <1>7, <4>2, <5>1
        <5>3. QED
          BY <5>1, <5>2
      <4>3. QED
        BY <4>1, <4>2
    <3>3. QED
      BY <3>1, <3>2
  <2>3. Cutoff' = Cutoff
    BY DEF Cutoff
  <2>4. QED
    BY <2>1, <2>2, <2>3 DEF RowsMatchLatest
<1>12. /\ Live(k, clock)' = live
       /\ \A j \in Keys : j # k => Live(j, clock)' = Live(j, clock)
  BY <1>1, <1>5, <1>10 DEF Live
<1>13. \A j \in Keys : \A v \in Wallets :
         (v \in Live(j, clock)') <=>
           \E e \in rows : e.key = j /\ e.wallet = v /\ e.at >= Cutoff
  <2> SUFFICES ASSUME NEW j \in Keys, NEW v \in Wallets
               PROVE  (latest'[j][v] >= Cutoff) <=>
                        \E e \in rows : e.key = j /\ e.wallet = v /\ e.at >= Cutoff
    BY DEF Live, Cutoff
  <2>1. ASSUME latest'[j][v] >= Cutoff
        PROVE  \E e \in rows : e.key = j /\ e.wallet = v /\ e.at >= Cutoff
    <3>1. Cutoff' = Cutoff
      BY DEF Cutoff
    <3>2. QED
      BY <1>2, <1>11, <2>1, <3>1 DEF RowsMatchLatest
  <2>2. ASSUME NEW e \in rows, e.key = j, e.wallet = v, e.at >= Cutoff
        PROVE  latest'[j][v] >= Cutoff
    BY <1>1, <1>2, <1>9, <1>10, <1>11, <2>2 DEF RowsMatchLatest
  <2>3. QED
    BY <2>1, <2>2
<1>14. Cohort(rows, k) = live
  <2>1. Cohort(rows, k) \subseteq Wallets
    BY <1>2, <1>9 DEF Cohort
  <2>2. Live(k, clock)' \subseteq Wallets
    BY DEF Live
  <2>3. \A v \in Wallets : v \in Cohort(rows, k) <=> v \in Live(k, clock)'
    BY <1>13 DEF Cohort
  <2>4. QED
    BY <1>12, <2>1, <2>2, <2>3
<1>15. \A j \in Keys : marks[j] = IF \E e \in rows : e.key = j /\ e.at >= Cutoff
                                  THEN fired[j] ELSE 0
  BY DEF Reap
<1>16. marks[k] = fired[k]
  BY <1>1, <1>3, <1>7, <1>15
<1>17. ASSUME NEW j \in Keys, Live(j, clock)' # {} PROVE marks[j] = fired[j]
  <2>1. PICK v \in Wallets : v \in Live(j, clock)'
    BY <1>17 DEF Live
  <2>2. QED
    BY <1>13, <1>15, <2>1
<1>18. marks \in [Keys -> Sizes \ 1 .. (MinWallets - 1)]
  <2>1. 0 \in Sizes \ 1 .. (MinWallets - 1)
    BY ConsensusAssumption, FS_CardinalityType DEF Sizes
  <2>2. \A j \in Keys : marks[j] \in Sizes \ 1 .. (MinWallets - 1)
    BY <1>15, <2>1 DEF ConsensusInv, TypeOK
  <2>3. QED
    BY <2>2 DEF Reap
<1> HIDE DEF marks
<1>19. count = Cardinality(live) /\ live \in SUBSET Wallets
  BY <1>14 DEF Live
<1>20. HighWater(count, marks[k]) \in Sizes \ 1 .. (MinWallets - 1)
  BY <1>18, <1>19, Sized, HighWaterSize
<1> HIDE DEF count, live
<1>21. /\ fired'[k] = HighWater(Cardinality(live), fired[k])
       /\ \A j \in Keys : j # k => fired'[j] = marks[j]
       /\ fired' \in [Keys -> Sizes \ 1 .. (MinWallets - 1)]
  BY <1>2, <1>16, <1>18, <1>19, <1>20
<1>22. \A j \in Keys : j # k => /\ fired'[j] \in {fired[j], 0}
                                /\ Live(j, clock) # {} => fired'[j] = fired[j]
  BY <1>12, <1>15, <1>17, <1>21
<1>23. RowsAreLive'
  <2> SUFFICES ASSUME NEW j \in Keys, fired'[j] > 0
               PROVE  \E e \in events' : e.key = j
    BY DEF RowsAreLive
  <2>1. CASE j = k
    BY <1>2, <1>3, <1>7, <2>1
  <2>2. CASE j # k
    <3>1. marks[j] # 0
      BY <1>21, <2>2
    <3>2. QED
      BY <1>2, <1>15, <3>1
  <2>3. QED
    BY <2>1, <2>2
<1>24. IF Fires(Cardinality(live), fired[k])
       THEN pc' = "publish" /\ signal' = [key |-> k, wallets |-> live, at |-> clock]
       ELSE UNCHANGED <<pc, signal>>
  BY <1>2, <1>14, <1>16, <1>19
<1>25. QED
  BY <1>8, <1>11, <1>12, <1>21, <1>22, <1>23, <1>24 DEF live
--------------------------------------------------------------------------------
(* The invariant holds on empty tables.                                     *)
LEMMA InitInv == Init => ConsensusInv
<1> SUFFICES ASSUME Init PROVE ConsensusInv
  OBVIOUS
<1>1. 0 \in Sizes /\ 0 \notin 1 .. (MinWallets - 1)
  BY ConsensusAssumption, FS_CardinalityType DEF Sizes
<1>2. clock \in 0 .. MaxTime /\ failures \in 0 .. MaxFailures
  BY ConsensusAssumption DEF Init
<1>3. latest \in [Keys -> [Wallets -> (-Window - 1) .. MaxTime]]
  BY ConsensusAssumption DEF Init
<1>4. TypeOK
  BY <1>1, <1>2, <1>3 DEF Init, TypeOK
<1>5. \A k \in Keys : Live(k, clock) = {}
  BY ConsensusAssumption DEF Init, Live
<1>6. RowsMatchLatest
  BY ConsensusAssumption DEF Init, RowsMatchLatest, Cutoff
<1>7. HighIsLive
  <2>1. \A k \in Keys : Cardinality(Live(k, clock)) = 0
    BY <1>5, FS_EmptySet
  <2>2. \A k \in Keys : high[k] = 0
    BY DEF Init
  <2>3. QED
    BY <2>1, <2>2, ConsensusAssumption DEF HighIsLive
<1>8. QED
  BY <1>4, <1>5, <1>6, <1>7
  DEF Init, ConsensusInv, RowsAreLive, SignalIsReal, FiredCoversHigh, SignalIsHighWater,
      HeardOrPending, Size

(* What the window lets go of when the clock moves.                        *)
LEMMA LiveShrinks ==
    ASSUME ConsensusInv, NEW k \in Keys
    PROVE  /\ Live(k, clock + 1) \subseteq Live(k, clock)
           /\ Live(k, clock) \in SUBSET Wallets
           /\ Cardinality(Live(k, clock + 1)) <= Cardinality(Live(k, clock))
           /\ Cardinality(Live(k, clock)) \in Nat
           /\ Cardinality(Live(k, clock + 1)) \in Nat
<1>1. clock \in Nat /\ Window \in Nat /\ \A w \in Wallets : latest[k][w] \in Int
  BY ConsensusAssumption DEF ConsensusInv, TypeOK
<1>2. Live(k, clock + 1) \subseteq Live(k, clock) /\ Live(k, clock) \in SUBSET Wallets
  BY <1>1 DEF Live
<1>3. QED
  BY <1>2, Sized

(* A trade that is counted.                                                *)
LEMMA TradeStep ==
    ASSUME ConsensusInv, NEW k \in Keys, NEW w \in Wallets, OnTradeDetected(k, w, FALSE)
    PROVE  /\ ConsensusInv'
           /\ pc' = "publish" => Cardinality(signal'.wallets) > high[signal'.key]
<1> DEFINE live == Live(k, clock) \union {w}
           size == Cardinality(live)
<1>1. /\ pc = "idle"
      /\ Record(k, w)
      /\ latest' = [latest EXCEPT ![k][w] = clock]
      /\ high' = [high EXCEPT ![k] = Peak(size, @)]
      /\ IF size < MinWallets
         THEN signalled' = [signalled EXCEPT ![k] = 0] /\ lost' = lost \ {k}
         ELSE UNCHANGED <<signalled, lost>>
      /\ UNCHANGED <<clock, failures>>
  BY DEF OnTradeDetected, Seen, heard
<1>2. /\ RowsMatchLatest' /\ events' \subseteq Row /\ RowsAreLive'
      /\ Live(k, clock)' = live
      /\ \A j \in Keys : j # k => Live(j, clock)' = Live(j, clock)
      /\ fired'[k] = HighWater(size, fired[k])
      /\ \A j \in Keys : j # k =>
           /\ fired'[j] \in {fired[j], 0}
           /\ Live(j, clock) # {} => fired'[j] = fired[j]
      /\ IF Fires(size, fired[k])
         THEN pc' = "publish" /\ signal' = [key |-> k, wallets |-> live, at |-> clock]
         ELSE UNCHANGED <<pc, signal>>
      /\ fired' \in [Keys -> Sizes \ 1 .. (MinWallets - 1)]
  BY <1>1, RecordCounts
<1>3. live \in SUBSET Wallets /\ w \in live
  BY DEF Live
<1>4. size \in Sizes /\ size \in Nat
  BY <1>3, Sized
<1>5. fired \in [Keys -> Sizes \ 1 .. (MinWallets - 1)] /\ high \in [Keys -> Sizes]
  BY DEF ConsensusInv, TypeOK
<1>6. Sizes \subseteq Nat /\ MinWallets \in Nat /\ MinWallets >= 2 /\ 0 \in Sizes
  BY Sized, ConsensusAssumption, FS_CardinalityType DEF Sizes
<1>7. /\ Size(k, clock) \in Nat /\ size <= Size(k, clock) + 1
      /\ \A j \in Keys : Size(j, clock) >= MinWallets - 1 => Live(j, clock) # {}
  <2>1. IsFiniteSet(Live(k, clock)) /\ Cardinality(Live(k, clock)) \in Nat
    BY ConsensusAssumption, FS_Subset, FS_CardinalityType DEF Live
  <2>2. size \in {Cardinality(Live(k, clock)), Cardinality(Live(k, clock)) + 1}
    BY <2>1, FS_AddElement
  <2>3. \A j \in Keys : Live(j, clock) = {} => Size(j, clock) = 0
    BY FS_EmptySet DEF Size
  <2>4. QED
    BY <2>1, <2>2, <2>3, <1>6 DEF Size
<1> HIDE DEF size
<1>8. /\ size < MinWallets => fired'[k] = 0
      /\ Fires(size, fired[k]) => fired'[k] = size
      /\ ~Fires(size, fired[k]) /\ fired'[k] # 0 => fired'[k] = fired[k]
  BY <1>2, <1>4, <1>5, HighWaterSize
<1>9. /\ high'[k] = Peak(size, high[k])
      /\ \A j \in Keys : j # k => high'[j] = high[j]
      /\ high' \in [Keys -> Sizes]
  <2>1. Peak(size, high[k]) \in Sizes
    BY <1>4, <1>5, <1>6 DEF Peak, Longest
  <2>2. QED
    BY <1>1, <1>5, <2>1
<1>10. Fires(size, fired[k]) => size >= MinWallets /\ size > fired[k] /\ fired[k] >= high[k]
  BY DEF Fires, ConsensusInv, FiredCoversHigh
<1> HIDE DEF live
<1>11. TypeOK'
  <2>1. latest' \in [Keys -> [Wallets -> (-Window - 1) .. MaxTime]]
    BY <1>1, ConsensusAssumption DEF ConsensusInv, TypeOK
  <2>2. \/ pc' = "idle" /\ signal' = NoSignal
        \/ /\ pc' = "publish"
           /\ signal' \in [key : Keys, wallets : SUBSET Wallets, at : 0 .. MaxTime]
    BY <1>1, <1>2, <1>3 DEF ConsensusInv, TypeOK
  <2>3. signalled' \in [Keys -> Sizes] /\ lost' \subseteq Keys
    BY <1>1, <1>6 DEF ConsensusInv, TypeOK
  <2>4. QED
    BY <1>1, <1>2, <1>9, <2>1, <2>2, <2>3 DEF ConsensusInv, TypeOK
<1>12. SignalIsReal'
  <2> SUFFICES ASSUME pc' = "publish"
               PROVE  /\ signal'.wallets = {v \in Wallets : latest'[signal'.key][v] \in
                                              (signal'.at - Window) .. signal'.at}
                      /\ Cardinality(signal'.wallets) >= MinWallets
    BY DEF SignalIsReal
  <2>1. Fires(size, fired[k]) /\ signal' = [key |-> k, wallets |-> live, at |-> clock]
    BY <1>1, <1>2
  <2>2. signal'.key = k /\ signal'.wallets = live /\ signal'.at = clock
    BY <2>1
  <2>3. \A v \in Wallets : latest'[k][v] \in Int /\ latest'[k][v] <= clock
    BY <1>1, <1>2, <1>11, ConsensusAssumption DEF RowsMatchLatest, TypeOK
  <2>4. live = {v \in Wallets : latest'[k][v] >= clock - Window}
    BY <1>1, <1>2 DEF Live
  <2>5. clock \in Int /\ Window \in Int
    BY ConsensusAssumption DEF ConsensusInv, TypeOK
  <2>6. live = {v \in Wallets : latest'[k][v] \in (clock - Window) .. clock}
    BY <2>3, <2>4, <2>5
  <2>7. Cardinality(live) >= MinWallets
    BY <1>10, <2>1 DEF size
  <2>8. QED
    BY <2>2, <2>6, <2>7
<1>13. HighIsLive'
  <2>1. \A j \in Keys : j # k =>
          Cardinality(Live(j, clock)') = Cardinality(Live(j, clock))
    BY <1>2
  <2>2. Cardinality(Live(k, clock)') = size
    BY <1>2 DEF size
  <2>3. /\ size < MinWallets => high'[k] = 0
        /\ size >= MinWallets => high'[k] >= size
    <3>1. high[k] \in Nat /\ high'[k] = Peak(size, high[k])
      BY <1>5, <1>6, <1>9
    <3>2. QED
      BY <1>4, <1>6, <3>1 DEF Peak, Longest
  <2>4. QED
    BY <1>9, <2>1, <2>2, <2>3 DEF ConsensusInv, HighIsLive
<1>14. FiredCoversHigh'
  <2> SUFFICES ASSUME NEW j \in Keys PROVE fired'[j] >= high'[j]
    BY DEF FiredCoversHigh
  <2>1. fired[j] >= high[j] /\ fired[j] \in Nat /\ high[j] \in Nat
    BY <1>5, <1>6 DEF ConsensusInv, FiredCoversHigh
  <2>2. CASE j = k
    BY <1>2, <1>4, <1>6, <1>9, <2>1, <2>2 DEF HighWater, Peak, Longest
  <2>3. CASE j # k /\ Live(j, clock) # {}
    BY <1>2, <1>9, <2>1, <2>3
  <2>4. CASE j # k /\ Live(j, clock) = {}
    <3>1. Cardinality(Live(j, clock)) = 0
      BY <2>4, FS_EmptySet
    <3>2. high[j] = 0
      BY <1>6, <3>1 DEF ConsensusInv, HighIsLive
    <3>3. QED
      BY <1>2, <1>9, <2>1, <2>4, <3>2
  <2>5. QED
    BY <2>2, <2>3, <2>4
<1>15. SignalIsHighWater'
  BY <1>1, <1>2, <1>8 DEF SignalIsHighWater, size
<1>16. HeardOrPending'
  <2> SUFFICES ASSUME NEW j \in Keys \ lost', Size(j, clock)' >= MinWallets - 1, fired'[j] # 0
               PROVE  signalled'[j] >= fired'[j] \/ (pc' = "publish" /\ signal'.key = j)
    BY DEF HeardOrPending
  <2>1. \A i \in Keys \ lost : Size(i, clock) >= MinWallets - 1 /\ fired[i] # 0
                              => signalled[i] >= fired[i]
    BY <1>1 DEF ConsensusInv, HeardOrPending
  <2>2. CASE j # k
    <3>1. Size(j, clock) >= MinWallets - 1 /\ Live(j, clock) # {}
      BY <1>2, <1>7, <2>2 DEF Size
    <3>2. j \notin lost /\ signalled'[j] = signalled[j]
      BY <1>1, <2>2 DEF ConsensusInv, TypeOK
    <3>3. QED
      BY <1>2, <2>1, <2>2, <3>1, <3>2
  <2>3. CASE j = k /\ Fires(size, fired[k])
    BY <1>2, <2>3
  <2>4. CASE j = k /\ ~Fires(size, fired[k])
    <3>1. ~(size < MinWallets) /\ fired'[k] = fired[k]
      BY <1>8, <2>4
    <3>2. Size(k, clock) >= MinWallets - 1
      BY <1>4, <1>6, <1>7, <3>1
    <3>3. k \notin lost /\ signalled' = signalled
      BY <1>1, <2>4, <3>1
    <3>4. QED
      BY <2>1, <2>4, <3>1, <3>2, <3>3
  <2>5. QED
    BY <2>2, <2>3, <2>4
<1>17. pc' = "publish" => Cardinality(signal'.wallets) > high[signal'.key]
  <2> SUFFICES ASSUME pc' = "publish" PROVE Cardinality(signal'.wallets) > high[signal'.key]
    OBVIOUS
  <2>1. Fires(size, fired[k]) /\ signal'.key = k /\ signal'.wallets = live
    BY <1>1, <1>2
  <2>2. fired[k] \in Nat /\ high[k] \in Nat
    BY <1>5, <1>6
  <2>3. QED
    BY <1>4, <1>10, <2>1, <2>2 DEF size
<1>18. QED
  BY <1>2, <1>11, <1>12, <1>13, <1>14, <1>15, <1>16, <1>17 DEF ConsensusInv

(* A tick only ages the rows: no row is younger than before, none is gone.  *)
LEMMA TickStep == ConsensusInv /\ Tick => ConsensusInv'
<1> SUFFICES ASSUME ConsensusInv, Tick PROVE ConsensusInv'
  OBVIOUS
<1>1. /\ clock < MaxTime /\ clock' = clock + 1
      /\ high' = [k \in Keys |->
                    IF Cardinality(Live(k, clock + 1)) < MinWallets THEN 0 ELSE high[k]]
      /\ signalled' = [k \in Keys |->
                         IF Size(k, clock + 1) < MinWallets - 1 THEN 0 ELSE signalled[k]]
      /\ lost' = {k \in lost : Size(k, clock + 1) >= MinWallets - 1}
      /\ UNCHANGED <<events, fired, pc, signal, failures, latest>>
  BY DEF Tick, store, Size
<1>2. \A k \in Keys : Live(k, clock)' = Live(k, clock + 1)
  BY <1>1 DEF Live
<1>3. clock \in Nat /\ MaxTime \in Nat /\ Window \in Nat /\ MinWallets \in Nat /\ MinWallets >= 2
  BY ConsensusAssumption DEF ConsensusInv, TypeOK
<1>4. 0 \in Sizes /\ Sizes \subseteq Nat
  BY ConsensusAssumption, FS_CardinalityType DEF Sizes
<1>5. TypeOK'
  <2>1. high' \in [Keys -> Sizes] /\ signalled' \in [Keys -> Sizes]
    BY <1>1, <1>4 DEF ConsensusInv, TypeOK
  <2>2. clock' \in 0 .. MaxTime
    BY <1>1, <1>3
  <2>3. QED
    BY <1>1, <2>1, <2>2 DEF ConsensusInv, TypeOK
<1>6. RowsMatchLatest'
  <2>1. Cutoff' = Cutoff + 1 /\ Cutoff \in Int
    BY <1>1, <1>3 DEF Cutoff
  <2>2. \A k \in Keys, w \in Wallets : latest[k][w] \in Int
    BY <1>3 DEF ConsensusInv, TypeOK
  <2>3. QED
    BY <1>1, <1>3, <2>1, <2>2 DEF ConsensusInv, RowsMatchLatest
<1>7. RowsAreLive' /\ SignalIsReal' /\ SignalIsHighWater'
  BY <1>1 DEF ConsensusInv, RowsAreLive, SignalIsReal, SignalIsHighWater
<1>8. ASSUME NEW k \in Keys
      PROVE  /\ Cardinality(Live(k, clock + 1)) <= Cardinality(Live(k, clock))
             /\ Cardinality(Live(k, clock)) \in Nat
             /\ Cardinality(Live(k, clock + 1)) \in Nat
  BY LiveShrinks
<1>9. high \in [Keys -> Sizes] /\ fired \in [Keys -> Sizes \ 1 .. (MinWallets - 1)]
  BY DEF ConsensusInv, TypeOK
<1>10. HighIsLive'
  <2> SUFFICES ASSUME NEW k \in Keys
               PROVE  LET size == Cardinality(Live(k, clock + 1))
                      IN  /\ size < MinWallets => high'[k] = 0
                          /\ size >= MinWallets => high'[k] >= size
    BY <1>2 DEF HighIsLive
  <2>1. Cardinality(Live(k, clock)) >= MinWallets => high[k] >= Cardinality(Live(k, clock))
    BY DEF ConsensusInv, HighIsLive
  <2>2. high[k] \in Nat
    BY <1>4, <1>9
  <2>3. QED
    BY <1>1, <1>3, <1>8, <2>1, <2>2
<1>11. FiredCoversHigh'
  <2> SUFFICES ASSUME NEW k \in Keys PROVE fired[k] >= high'[k]
    BY <1>1 DEF FiredCoversHigh
  <2>1. fired[k] >= high[k] /\ fired[k] \in Nat /\ high[k] \in Nat
    BY <1>4, <1>9 DEF ConsensusInv, FiredCoversHigh
  <2>2. high'[k] = high[k] \/ high'[k] = 0
    BY <1>1
  <2>3. QED
    BY <2>1, <2>2
<1>12. HeardOrPending'
  <2> SUFFICES ASSUME NEW k \in Keys \ lost', Size(k, clock + 1) >= MinWallets - 1, fired[k] # 0
               PROVE  signalled'[k] >= fired[k] \/ (pc = "publish" /\ signal.key = k)
    BY <1>1, <1>2 DEF HeardOrPending, Size
  <2>1. Size(k, clock) >= MinWallets - 1
    BY <1>3, <1>8 DEF Size
  <2>2. k \notin lost
    BY <1>1
  <2>3. Size(k, clock + 1) \in Nat
    BY <1>8 DEF Size
  <2>4. signalled'[k] = signalled[k]
    BY <1>1, <1>3, <2>3
  <2>5. QED
    BY <2>1, <2>2, <2>4 DEF ConsensusInv, HeardOrPending
<1>13. QED
  BY <1>5, <1>6, <1>7, <1>10, <1>11, <1>12 DEF ConsensusInv

(* Every step keeps the invariant.                                          *)
LEMMA NextInv == ConsensusInv /\ [Next]_vars => ConsensusInv'
<1> SUFFICES ASSUME ConsensusInv, [Next]_vars PROVE ConsensusInv'
  OBVIOUS
<1>1. ASSUME NEW k \in Keys, NEW w \in Wallets, OnTradeDetected(k, w, FALSE)
      PROVE  ConsensusInv'
  BY <1>1, TradeStep
<1>2. ASSUME UNCHANGED <<clock, store, pc, signal, latest, high, heard>>,
             failures' \in 0 .. MaxFailures
      PROVE  ConsensusInv'
  BY <1>2 DEF store, heard, ConsensusInv, TypeOK, RowsMatchLatest, Cutoff, RowsAreLive,
              SignalIsReal, HighIsLive, Live, FiredCoversHigh, SignalIsHighWater,
              HeardOrPending, Size
<1>3. ASSUME NEW k \in Keys, NEW w \in Wallets, OnTradeDetected(k, w, TRUE)
      PROVE  ConsensusInv'
  BY <1>2, <1>3 DEF OnTradeDetected, ConsensusInv, TypeOK
<1>4. CASE RecordFails
  <2>1. failures' \in 0 .. MaxFailures
    BY <1>4, ConsensusAssumption DEF RecordFails, Fail, ConsensusInv, TypeOK
  <2>2. QED
    BY <1>2, <1>4, <2>1 DEF RecordFails
<1>5. ASSUME pc = "publish", pc' = "idle", signal' = NoSignal,
             UNCHANGED <<clock, store, latest, high>>,
             failures' \in 0 .. MaxFailures,
             signalled' \in [Keys -> Sizes], lost' \subseteq Keys, HeardOrPending'
      PROVE  ConsensusInv'
  BY <1>5 DEF store, ConsensusInv, TypeOK, RowsMatchLatest, Cutoff, RowsAreLive,
              SignalIsReal, HighIsLive, Live, FiredCoversHigh, SignalIsHighWater
<1>6. pc = "publish" => signal.key \in Keys /\ signal.wallets \in SUBSET Wallets
  BY DEF ConsensusInv, TypeOK
<1>7. CASE Publish
  <2>1. /\ pc = "publish" /\ pc' = "idle" /\ signal' = NoSignal
        /\ signalled' = [signalled EXCEPT ![signal.key] = Cardinality(signal.wallets)]
        /\ UNCHANGED <<clock, store, failures, latest, high, lost>>
    BY <1>7 DEF Publish
  <2>2. Cardinality(signal.wallets) = fired[signal.key] /\ Cardinality(signal.wallets) \in Sizes
    BY <1>6, <2>1, Sized DEF ConsensusInv, SignalIsHighWater
  <2>3. signalled' \in [Keys -> Sizes]
    BY <2>1, <2>2 DEF ConsensusInv, TypeOK
  <2>4. fired \in [Keys -> Sizes \ 1 .. (MinWallets - 1)] /\ Sizes \subseteq Nat
    BY Sized DEF ConsensusInv, TypeOK
  <2>5. HeardOrPending'
    <3> SUFFICES ASSUME NEW k \in Keys \ lost, Size(k, clock) >= MinWallets - 1, fired[k] # 0
                 PROVE  signalled'[k] >= fired[k]
      BY <2>1 DEF HeardOrPending, store, Size, Live
    <3>1. fired[k] \in Nat
      BY <2>4
    <3>2. CASE k = signal.key
      BY <1>6, <2>1, <2>2, <3>1, <3>2 DEF ConsensusInv, TypeOK
    <3>3. CASE k # signal.key
      BY <2>1, <3>3 DEF ConsensusInv, TypeOK, HeardOrPending
    <3>4. QED
      BY <3>2, <3>3
  <2>6. QED
    BY <1>5, <2>1, <2>3, <2>5 DEF ConsensusInv, TypeOK
<1>8. CASE SignalLost
  <2>1. /\ pc = "publish" /\ pc' = "idle" /\ signal' = NoSignal
        /\ lost' = lost \union {signal.key}
        /\ UNCHANGED <<clock, store, latest, high, signalled>>
    BY <1>8 DEF SignalLost
  <2>2. failures' \in 0 .. MaxFailures
    BY <1>8, ConsensusAssumption DEF SignalLost, Fail, ConsensusInv, TypeOK
  <2>3. HeardOrPending'
    BY <2>1 DEF ConsensusInv, HeardOrPending, store, Size, Live
  <2>4. QED
    BY <1>5, <1>6, <2>1, <2>2, <2>3 DEF ConsensusInv, TypeOK
<1>9. CASE Tick
  BY <1>9, TickStep
<1>10. CASE UNCHANGED vars
  BY <1>2, <1>10 DEF vars, ConsensusInv, TypeOK
<1>11. QED
  BY <1>1, <1>3, <1>4, <1>7, <1>8, <1>9, <1>10 DEF Next

(* Only a trade that is counted makes a signal.                            *)
LEMMA StepNeverRepeats ==
    ConsensusInv /\ [Next]_vars =>
      [pc = "idle" /\ pc' = "publish" => Cardinality(signal'.wallets) > high[signal'.key]]_vars
<1> SUFFICES ASSUME ConsensusInv, Next, pc = "idle", pc' = "publish"
             PROVE  Cardinality(signal'.wallets) > high[signal'.key]
  BY DEF vars
<1>1. ASSUME NEW k \in Keys, NEW w \in Wallets, OnTradeDetected(k, w, FALSE)
      PROVE  Cardinality(signal'.wallets) > high[signal'.key]
  BY <1>1, TradeStep
<1>2. QED
  BY <1>1 DEF Next, OnTradeDetected, RecordFails, Publish, SignalLost, Tick

(* A cohort above the threshold was signalled: the row of fired is at its   *)
(* largest size.                                                            *)
LEMMA ConsensusInvImpliesHeard == ConsensusInv => CohortIsSignalled
<1> SUFFICES ASSUME ConsensusInv, pc = "idle", NEW k \in Keys \ lost,
                    Cardinality(Live(k, clock)) >= MinWallets
             PROVE  signalled[k] >= Cardinality(Live(k, clock))
  BY DEF CohortIsSignalled, Size
<1>1. Cardinality(Live(k, clock)) \in Nat /\ MinWallets \in Nat /\ MinWallets >= 2
  BY LiveShrinks, ConsensusAssumption
<1>2. Size(k, clock) >= MinWallets - 1
  BY <1>1 DEF Size
<1>3. fired[k] >= high[k] /\ high[k] >= Cardinality(Live(k, clock))
  BY DEF ConsensusInv, FiredCoversHigh, HighIsLive
<1>4. fired[k] \in Nat /\ high[k] \in Nat /\ signalled[k] \in Nat
  BY Sized DEF ConsensusInv, TypeOK
<1>5. signalled[k] >= fired[k]
  BY <1>1, <1>2, <1>3, <1>4 DEF ConsensusInv, HeardOrPending
<1>6. QED
  BY <1>1, <1>3, <1>4, <1>5
--------------------------------------------------------------------------------
(* The tables are well typed, and hold no high-water for a key without     *)
(* events: what Record writes, prunes and reaps in its transaction.        *)
THEOREM ConsensusKeepsInv == Spec => []Inv
<1>1. ConsensusInv => Inv
  BY DEF ConsensusInv, Inv
<1>2. QED
  BY <1>1, InitInv, NextInv, PTL DEF Spec

(* A signal names exactly the wallets with a live trade of the key in the  *)
(* window, and enough of them: Handle, up to its publication.              *)
THEOREM ConsensusSignalIsReal == Spec => []SignalIsReal
<1>1. ConsensusInv => SignalIsReal
  BY DEF ConsensusInv
<1>2. QED
  BY <1>1, InitInv, NextInv, PTL DEF Spec

(* decideFire never fires twice for a size, across expiry, pruning and     *)
(* reaping, while the cohort stays at or above the threshold.              *)
THEOREM ConsensusNeverRepeats == Spec => NeverRepeats
  BY InitInv, NextInv, StepNeverRepeats, PTL DEF Spec, NeverRepeats

(* A live cohort was signalled at its size since it was last seen to       *)
(* dissipate, unless a signal was lost: Record, its reset of the           *)
(* high-water and its reaping hold back the signal of no larger cohort.    *)
(* A cohort that falls one wallet short unseen and forms anew at a size    *)
(* already signalled is the one this leaves out.                           *)
THEOREM ConsensusSignalsTheCohort == Spec => []CohortIsSignalled
  BY InitInv, NextInv, ConsensusInvImpliesHeard, PTL DEF Spec
================================================================================
