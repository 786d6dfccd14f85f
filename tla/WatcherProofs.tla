---------------------------- MODULE WatcherProofs ----------------------------
(***************************************************************************)
(* Theorems about the watcher: about Watcher, for every chain, every set   *)
(* of logs and transactions, every size of a chunk and every combination   *)
(* of failures; and at the end about WatchsetFeed, which fills its set.    *)
(***************************************************************************)
EXTENDS Watcher, WatchsetFeed, SumTheorems

(* What the goroutine holds: the logs the subscription has yet to deliver, *)
(* those of the block being received, and both.                            *)
OnWire == {wire[i] : i \in DOMAIN wire}
InFlight == buf \cup OnWire

(* What was published, trade by trade taken together.                      *)
Emitted == UNION BagToSet(published)

(***************************************************************************)
(* The parts of the state.  Only a mined log is on the wire, in the buffer *)
(* or seen, and what was seen was published.  What is known of a           *)
(* transaction is how it is in the chain, unless its block was replaced.   *)
(***************************************************************************)
TogetherInChain == \A l, k \in Logs : Tx[l] = Tx[k] => mined[l] = mined[k]

ChainInv ==
    /\ mined \in [Logs -> Blocks] /\ head \in Blocks
    /\ current \in Numberings /\ replaced \subseteq Transactions
    /\ \A l \in Logs : mined[l] <= head
    /\ TogetherInChain

FailureInv ==
    IsABag(failures) /\ BagToSet(failures) \subseteq Conditions /\ Reorgs <= MaxReorgs

Touched(o) == Tx[o.log] \in replaced

Steady(o) == ~Touched(o) => o.log \in current[Tx[o.log]] /\ o.block = mined[o.log]

Placed(o) ==
    /\ mined[o.log] # 0 /\ o.block # 0 /\ o.block <= head
    /\ Steady(o)

FlightInv ==
    /\ wire \in Seq(Occurrence) /\ (~Subscribed => wire = <<>>)
    /\ buf \subseteq Occurrence /\ grew \in BOOLEAN
    /\ pendingBlock \in Blocks /\ pendingBlock <= head
    /\ pc # "live" => buf = {} /\ pendingBlock = 0
    /\ \A o \in buf : o.block = pendingBlock
    /\ \A o \in InFlight : Placed(o)

MemoryInv ==
    /\ seen \subseteq Occurrence
    /\ \A o, r \in seen : Key(o.log) = Key(r.log) => o.block = r.block
    /\ IsABag(published)
    /\ BagToSet(published) \subseteq
          (SUBSET {o \in Occurrence : o.log \in Watched}) \ {{}}
    /\ \A o \in seen : Placed(o)
    /\ \A o \in seen : Published(o.log)
    /\ \A T \in BagToSet(published) : \A o \in T : Placed(o)

(***************************************************************************)
(* The stages.  The cursor and the range to backfill are within the chain, *)
(* and between two chunks the range starts right after the cursor.         *)
(***************************************************************************)
CycleInv ==
    /\ pc \in Stages
    /\ from \in Blocks \cup {MaxBlock + 1} /\ upto \in Blocks
    /\ cursor \in {NoCursor} \cup Blocks /\ promised \in {NoCursor} \cup Blocks
    /\ torn \subseteq Transactions
    /\ cursor <= head /\ upto <= head /\ promised <= head
    /\ pc = "backfill" =>
          /\ from = IF cursor = NoCursor THEN promised ELSE cursor + 1
          /\ cursor = NoCursor => from = upto
          /\ from <= upto + 1
    /\ pc = "catchup" => from = cursor + 1 /\ from <= upto + 1
    /\ pc \in {"subscribe", "newhead"} => cursor = upto
    /\ pc \in {"subscribe", "newhead", "catchup", "live"} => cursor # NoCursor

BaseInv == ChainInv /\ FailureInv /\ FlightInv /\ MemoryInv /\ CycleInv

(***************************************************************************)
(* Nothing is missed of what no reorganisation touched.  Its blocks are in *)
(* order on the wire; once the stream is live, a log is published or still *)
(* to be received or buffered.                                             *)
(***************************************************************************)
Ordered ==
    /\ \A i, j \in DOMAIN wire :
          i <= j /\ ~Touched(wire[j]) => wire[i].block <= wire[j].block
    /\ \A i \in DOMAIN wire : ~Touched(wire[i]) => pendingBlock <= wire[i].block

FlightLogs == {o.log : o \in InFlight}

(* A watched log that is in the chain and stays there, in a block that the *)
(* first cursor counts from.                                               *)
Promised(l) ==
    /\ InChain(l) /\ Tx[l] \notin replaced
    /\ promised # NoCursor /\ mined[l] >= promised

NothingMissed ==
    /\ pc = "catchup" =>
          \A l \in Watched : Promised(l) /\ mined[l] > upto => l \in FlightLogs
    /\ pc = "live" =>
          \A l \in Watched : Promised(l) => Published(l) \/ l \in FlightLogs

Covered == \A l \in Watched : Promised(l) /\ mined[l] <= cursor => Published(l)

Calm == Ordered /\ NothingMissed /\ Covered

(***************************************************************************)
(* Transactions stay together: on the way, and among what was seen, unless *)
(* a flush at the end of a connection cut them or their block was replaced.*)
(***************************************************************************)
SeenLogs == {o.log : o \in seen}

Siblings(l) == Watched \cap current[Tx[l]]

TogetherInFlight ==
    \A o \in InFlight : ~Touched(o) => Siblings(o.log) \subseteq FlightLogs

TogetherInMemory ==
    /\ \A o \in seen : \/ Touched(o) \/ Tx[o.log] \in torn
                       \/ Siblings(o.log) \subseteq SeenLogs
    /\ \A T \in BagToSet(published) : \A o \in T :
          \/ Touched(o) \/ Tx[o.log] \in torn
          \/ Siblings(o.log) \subseteq {r.log : r \in T}

Together == TogetherInFlight /\ TogetherInMemory

(***************************************************************************)
(* No block is far from where it was: each reorganisation moves a          *)
(* transaction by one block at most and puts the wire out of order by one  *)
(* block at most.  So whatever was noted of a transaction that is on the   *)
(* wire is recent.                                                         *)
(***************************************************************************)
Places(l) ==
    {mined[l]} \cup {o.block : o \in {r \in seen \cup InFlight : Tx[r.log] = Tx[l]}}

DriftInv ==
    /\ \A l \in Logs : \A b \in Places(l) :
          mined[l] - Reorgs <= b /\ b <= mined[l] + Reorgs
    /\ \A i \in DOMAIN wire : wire[i].block >= head - StreamLag - 1
    /\ \A i, j \in DOMAIN wire : i <= j => wire[j].block >= wire[i].block - 1
    /\ \A l \in Logs : \A i, j \in DOMAIN wire : i <= j /\ Tx[wire[j].log] = Tx[l] =>
          \A b \in Places(l) :
             b >= wire[i].block - Reorgs /\ b >= head - StreamLag - Reorgs

(***************************************************************************)
(* Nothing is repeated.  The keys of what was published are still among    *)
(* those seen, or it is in a block that will neither be received nor       *)
(* fetched again.                                                          *)
(***************************************************************************)
LeftBehind(l) ==
    /\ mined[l] <= cursor
    /\ mined[l] <= head - 2
    /\ \A o \in OnWire : mined[l] <= o.block
    /\ buf # {} => mined[l] <= pendingBlock

Remembered == \A o \in Emitted : Key(o.log) \in SeenKeys \/ LeftBehind(o.log)

(* The published are known among the logs of B.                            *)
KnownIn(B) ==
    \A o \in B : \A r \in Emitted : Key(o.log) = Key(r.log) => Key(o.log) \in SeenKeys

FlightRemembered == KnownIn(InFlight)

Single ==
    \A T, U \in BagToSet(published) :
        /\ published[T] = 1
        /\ \A o \in T, r \in U : Key(o.log) = Key(r.log) => T = U

Once == Remembered /\ FlightRemembered /\ Single
Undisturbed == ~Suffered({"crash", "stop", "publish"})
OnceInv == Undisturbed => Once
-----------------------------------------------------------------------------
(* Batches are finite, and every batch can be put in the order of its      *)
(* blocks: take away a log of the last block, order the rest, append it.   *)
LEMMA OccurrencesAreFinite == \A B \in SUBSET Occurrence : IsFiniteSet(B)
<1> DEFINE Rest == Blocks \X (0 .. MaxReorgs)
           f == [x \in Logs \X Rest |-> [log |-> x[1], block |-> x[2][1], sent |-> x[2][2]]]
<1>1. IsFiniteSet(Logs) /\ MaxBlock \in Nat /\ MaxReorgs \in Nat
  BY WatcherAssumption
<1>2. IsFiniteSet(Blocks) /\ IsFiniteSet(0 .. MaxReorgs)
  BY <1>1, FS_Interval DEF Blocks
<1>3. IsFiniteSet(Logs \X Rest)
  <2>1. IsFiniteSet(Rest)
    BY <1>2, FS_Product
  <2>2. QED
    BY <1>1, <2>1, FS_Product
<1>4. f \in Surjection(Logs \X Rest, Occurrence)
  <2>1. \A x \in Logs \X Rest : f[x] \in Occurrence
    BY DEF Occurrence
  <2>2. ASSUME NEW o \in Occurrence PROVE \E x \in Logs \X Rest : f[x] = o
    <3>1. <<o.log, <<o.block, o.sent>>>> \in Logs \X Rest
      BY DEF Occurrence
    <3>2. f[<<o.log, <<o.block, o.sent>>>>] = o
      BY <3>1 DEF Occurrence
    <3>3. QED
      BY <3>1, <3>2
  <2>3. QED
    BY <2>1, <2>2 DEF Surjection
<1>5. IsFiniteSet(Occurrence)
  BY <1>3, <1>4, FS_Surjection
<1>6. QED
  BY <1>5, FS_Subset

(* A nonempty batch has a log of its last block.                           *)
LEMMA LastLog ==
    ASSUME NEW B \in SUBSET Occurrence, B # {}
    PROVE  \E o \in B : \A r \in B : r.block <= o.block
<1> DEFINE After(o) == {r \in B : r.block > o.block}
           T == {After(o) : o \in B}
<1>1. IsFiniteSet(B) /\ T \in SUBSET SUBSET B /\ T # {}
  BY OccurrencesAreFinite
<1> HIDE DEF T
<1>2. PICK s \in T : \A r \in T : r \subseteq s => r = s
  BY <1>1, SmallestSubset
<1>3. PICK o \in B : s = After(o)
  BY <1>2 DEF T
<1>4. \A r \in B : r.block \in Int
  BY DEF Occurrence, Blocks
<1>5. ASSUME NEW r \in B, r.block > o.block PROVE FALSE
  <2>1. After(r) \in T
    BY DEF T
  <2>2. After(r) \subseteq After(o) /\ r \in After(o) /\ r \notin After(r)
    BY <1>4, <1>5
  <2>3. QED
    BY <1>2, <1>3, <2>1, <2>2
<1>6. QED
  BY <1>4, <1>5

IsInOrder(s, B) ==
    /\ s \in [1 .. Cardinality(B) -> B]
    /\ \A o \in B : \E i \in 1 .. Cardinality(B) : s[i] = o
    /\ \A i, j \in 1 .. Cardinality(B) : i < j => s[i].block <= s[j].block

(* Every batch has an order.                                               *)
LEMMA OrderExists == \A B \in SUBSET Occurrence : \E s : IsInOrder(s, B)
<1> SUFFICES ASSUME NEW D \in SUBSET Occurrence PROVE \E s : IsInOrder(s, D)
  OBVIOUS
<1> DEFINE Bad == {B \in SUBSET D : ~ \E s : IsInOrder(s, B)}
<1>1. SUFFICES ASSUME Bad # {} PROVE FALSE
  OBVIOUS
<1>2. PICK B \in Bad : \A r \in Bad : r \subseteq B => r = B
  <2> HIDE DEF Bad
  <2>1. IsFiniteSet(D) /\ Bad \in SUBSET SUBSET D
    BY OccurrencesAreFinite DEF Bad
  <2>2. QED
    BY <1>1, <2>1, SmallestSubset
<1>3. B \in SUBSET Occurrence /\ IsFiniteSet(B)
  BY <1>2, OccurrencesAreFinite
<1>4. B # {}
  <2>1. ASSUME B = {} PROVE IsInOrder(<<>>, B)
    <3>1. Cardinality(B) = 0
      BY <2>1, FS_EmptySet
    <3>2. 1 .. Cardinality(B) = {} /\ <<>> \in [{} -> {}]
      BY <3>1
    <3>3. QED
      BY <2>1, <3>2 DEF IsInOrder
  <2>2. QED
    BY <1>2, <2>1
<1>5. PICK o \in B : \A r \in B : r.block <= o.block
  BY <1>3, <1>4, LastLog
<1> DEFINE n == Cardinality(B \ {o})
<1>6. n \in Nat /\ Cardinality(B) = n + 1
  <2>1. IsFiniteSet(B \ {o}) /\ Cardinality(B \ {o}) = Cardinality(B) - 1
    BY <1>3, <1>5, FS_RemoveElement
  <2>2. Cardinality(B) \in Nat /\ Cardinality(B \ {o}) \in Nat
    BY <1>3, <2>1, FS_CardinalityType
  <2>3. QED
    BY <2>1, <2>2
<1>7. PICK s : IsInOrder(s, B \ {o})
  BY <1>2, <1>5
<1> HIDE DEF n
<1> DEFINE t == [i \in 1 .. n + 1 |-> IF i = n + 1 THEN o ELSE s[i]]
<1>8. /\ s \in [1 .. n -> B \ {o}]
      /\ \A r \in B \ {o} : \E i \in 1 .. n : s[i] = r
      /\ \A i, j \in 1 .. n : i < j => s[i].block <= s[j].block
  BY <1>7 DEF IsInOrder, n
<1>9. t \in [1 .. n + 1 -> B]
  BY <1>6, <1>8
<1>10. \A r \in B : \E i \in 1 .. n + 1 : t[i] = r
  <2>1. t[n + 1] = o /\ n + 1 \in 1 .. n + 1
    BY <1>6
  <2>2. \A i \in 1 .. n : i \in 1 .. n + 1 /\ t[i] = s[i]
    BY <1>6
  <2>3. QED
    BY <1>8, <2>1, <2>2
<1>11. ASSUME NEW i \in 1 .. n + 1, NEW j \in 1 .. n + 1, i < j
       PROVE  t[i].block <= t[j].block
  <2>1. i \in 1 .. n /\ t[i] = s[i] /\ s[i] \in B
    BY <1>6, <1>8, <1>11
  <2>2. CASE j = n + 1
    BY <1>5, <2>1, <2>2
  <2>3. CASE j # n + 1
    <3>1. j \in 1 .. n /\ t[j] = s[j]
      BY <1>6, <2>3
    <3>2. QED
      BY <1>8, <1>11, <2>1, <3>1
  <2>4. QED
    BY <2>2, <2>3
<1>12. IsInOrder(t, B)
  BY <1>6, <1>9, <1>10, <1>11 DEF IsInOrder
<1>13. QED
  BY <1>2, <1>12

(* InOrder lists its occurrences once each, by block: the CHOOSE in it      *)
(* finds one.                                                               *)
LEMMA InOrderIsInOrder == \A B \in SUBSET Occurrence : IsInOrder(InOrder(B), B)
BY OrderExists DEF IsInOrder, InOrder

(* What Deliver does to the wire: the logs of the batch come after what is *)
(* there, in the order of their blocks.                                    *)
LEMMA DeliverAppends ==
    ASSUME wire \in Seq(Occurrence), NEW B \in SUBSET Occurrence, Deliver(B),
           Subscribed
    PROVE  /\ wire' \in Seq(Occurrence)
           /\ \A i \in DOMAIN wire : i \in DOMAIN wire' /\ wire'[i] = wire[i]
           /\ \A i \in DOMAIN wire, j \in DOMAIN wire' \ DOMAIN wire : i < j
           /\ \A j \in DOMAIN wire' \ DOMAIN wire : wire'[j] \in B
           /\ \A i, j \in DOMAIN wire' \ DOMAIN wire :
                 i <= j => wire'[i].block <= wire'[j].block
           /\ OnWire' = OnWire \cup B
<1> DEFINE n == Cardinality(B)
           s == InOrder(B)
           m == Len(wire)
<1>1. n \in Nat
  BY OccurrencesAreFinite, FS_CardinalityType
<1>2. /\ s \in [1 .. n -> B]
      /\ \A o \in B : \E i \in 1 .. n : s[i] = o
      /\ \A i, j \in 1 .. n : i < j => s[i].block <= s[j].block
  BY InOrderIsInOrder DEF IsInOrder
<1>3. s \in Seq(B) /\ s \in Seq(Occurrence) /\ Len(s) = n
  BY <1>1, <1>2
<1>4. wire' = wire \o s
  BY DEF Deliver
<1>5. m \in Nat /\ DOMAIN wire = 1 .. m
  OBVIOUS
<1> HIDE DEF n, s, m
<1>6. wire' \in Seq(Occurrence) /\ Len(wire') = m + n /\ DOMAIN wire' = 1 .. m + n
  <2>0. wire \o s \in Seq(Occurrence) /\ Len(wire \o s) = Len(wire) + Len(s)
    BY <1>3
  <2>1. wire' \in Seq(Occurrence) /\ Len(wire') = Len(wire) + Len(s)
    BY <1>4, <2>0
  <2>2. Len(wire') = m + n
    BY <1>3, <2>1 DEF m
  <2>3. DOMAIN wire' = 1 .. Len(wire')
    BY <2>1
  <2>4. QED
    BY <2>1, <2>2, <2>3
<1>7. /\ \A i \in 1 .. m : wire'[i] = wire[i]
      /\ \A i \in 1 .. m + n : i > m => wire'[i] = s[i - m]
  BY <1>1, <1>3, <1>4, <1>5 DEF m
<1>8. \A i \in DOMAIN wire : i \in DOMAIN wire' /\ wire'[i] = wire[i]
  BY <1>1, <1>5, <1>6, <1>7
<1>9. \A j \in DOMAIN wire' \ DOMAIN wire :
         j > m /\ j - m \in 1 .. n /\ wire'[j] = s[j - m]
  BY <1>1, <1>5, <1>6, <1>7
<1>10. \A j \in DOMAIN wire' \ DOMAIN wire : wire'[j] \in B
  BY <1>2, <1>9
<1>11. ASSUME NEW o \in B PROVE \E j \in DOMAIN wire' : wire'[j] = o
  <2>1. PICK i \in 1 .. n : s[i] = o
    BY <1>2
  <2>2. i + m \in 1 .. m + n /\ i + m > m /\ (i + m) - m = i
    BY <1>1, <1>5
  <2>3. wire'[i + m] = o
    BY <1>7, <2>1, <2>2
  <2>4. QED
    BY <1>6, <2>2, <2>3
<1>12. ASSUME NEW i \in DOMAIN wire' \ DOMAIN wire,
              NEW j \in DOMAIN wire' \ DOMAIN wire, i <= j
       PROVE  wire'[i].block <= wire'[j].block
  <2>1. wire'[i] \in Occurrence /\ wire'[i].block \in Int
    BY <1>10 DEF Occurrence, Blocks
  <2>2. CASE i = j
    BY <2>1, <2>2
  <2>3. CASE i < j
    <3>1. i - m < j - m
      BY <1>5, <1>6, <2>3
    <3>2. QED
      BY <1>2, <1>9, <3>1
  <2>4. QED
    BY <1>6, <1>12, <2>2, <2>3
<1>13. OnWire' = OnWire \cup B
  <2>1. OnWire' \subseteq OnWire \cup B
    BY <1>7, <1>5, <1>10 DEF OnWire
  <2>2. OnWire \cup B \subseteq OnWire'
    BY <1>8, <1>11 DEF OnWire
  <2>3. QED
    BY <2>1, <2>2
<1>14. QED
  BY <1>5, <1>6, <1>8, <1>9, <1>10, <1>12, <1>13

(* Receiving takes the first log off the wire.                             *)
LEMMA TailOfWire ==
    ASSUME wire \in Seq(Occurrence), wire # <<>>
    PROVE  /\ Head(wire) = wire[1] /\ 1 \in DOMAIN wire
           /\ Head(wire) \in Occurrence
           /\ Tail(wire) \in Seq(Occurrence)
           /\ \A i \in DOMAIN wire : i \in Nat /\ i >= 1
           /\ \A i \in DOMAIN Tail(wire) :
                 i + 1 \in DOMAIN wire /\ Tail(wire)[i] = wire[i + 1]
           /\ OnWire = {Head(wire)} \cup {Tail(wire)[i] : i \in DOMAIN Tail(wire)}
<1> DEFINE t == Tail(wire)
           n == Len(wire)
<1>1. n \in Nat /\ n >= 1 /\ DOMAIN wire = 1 .. n
  OBVIOUS
<1>2. t \in Seq(Occurrence) /\ Len(t) = n - 1 /\ Head(wire) = wire[1]
  BY <1>1
<1>3. DOMAIN t = 1 .. n - 1
  BY <1>2
<1>4. \A i \in 1 .. n - 1 : t[i] = wire[i + 1]
  BY <1>1
<1> HIDE DEF t, n
<1>5. ASSUME NEW i \in 1 .. n, i # 1 PROVE i - 1 \in 1 .. n - 1 /\ t[i - 1] = wire[i]
  <2>1. i - 1 \in 1 .. n - 1 /\ (i - 1) + 1 = i
    BY <1>1, <1>5
  <2>2. QED
    BY <1>4, <2>1
<1>6. \A i \in 1 .. n - 1 : i + 1 \in 1 .. n
  BY <1>1
<1>7. OnWire = {Head(wire)} \cup {t[i] : i \in DOMAIN t}
  <2>1. OnWire \subseteq {Head(wire)} \cup {t[i] : i \in DOMAIN t}
    <3> SUFFICES ASSUME NEW i \in DOMAIN wire
                 PROVE  wire[i] \in {Head(wire)} \cup {t[k] : k \in DOMAIN t}
      BY DEF OnWire
    <3>1. CASE i = 1
      BY <1>2, <3>1
    <3>2. CASE i # 1
      BY <1>1, <1>3, <1>5, <3>2
    <3>3. QED
      BY <3>1, <3>2
  <2>2. {t[i] : i \in DOMAIN t} \subseteq OnWire
    BY <1>1, <1>3, <1>4, <1>6 DEF OnWire
  <2>3. Head(wire) \in OnWire
    BY <1>1, <1>2 DEF OnWire
  <2>4. QED
    BY <2>1, <2>2, <2>3
<1>8. Head(wire) \in Occurrence
  BY <1>1, <1>2
<1>9. QED
  BY <1>1, <1>2, <1>3, <1>4, <1>6, <1>7, <1>8 DEF t

(* The logs that FilterLogs finds in a chain m, c after n reorganisations,  *)
(* so that one can speak of it before and after a step.                    *)
Answer(m, c, n, a, b) ==
    {[log |-> l, block |-> m[l], sent |-> n] :
        l \in {l \in Logs : m[l] # 0 /\ m[l] \in a .. b /\ l \in c[Tx[l]]}}

(* What the node returns, and what it sends of a new block, is a batch of  *)
(* the logs that the chain has there.                                      *)
LEMMA AnswerIsBatch ==
    ASSUME NEW m \in [Logs -> Blocks], NEW c, NEW n \in 0 .. MaxReorgs,
           NEW a \in Int, NEW b \in Int
    PROVE  /\ Answer(m, c, n, a, b) \in SUBSET Occurrence
           /\ \A o \in Answer(m, c, n, a, b) :
                 /\ o.log \in Logs /\ o.log \in c[Tx[o.log]]
                 /\ o.block = m[o.log] /\ m[o.log] # 0 /\ a <= o.block /\ o.block <= b
           /\ \A l \in Logs :
                 m[l] # 0 /\ a <= m[l] /\ m[l] <= b /\ l \in c[Tx[l]] =>
                    \E o \in Answer(m, c, n, a, b) : o.log = l
<1> DEFINE The(l) == [log |-> l, block |-> m[l], sent |-> n]
           L == {l \in Logs : m[l] # 0 /\ m[l] \in a .. b /\ l \in c[Tx[l]]}
<1>1. Answer(m, c, n, a, b) = {The(l) : l \in L}
  BY DEF Answer
<1>2. \A l \in L : The(l) \in Occurrence /\ The(l).log = l /\ The(l).block = m[l]
  BY DEF Occurrence
<1>3. /\ \A l \in L : /\ l \in Logs /\ l \in c[Tx[l]] /\ m[l] # 0
                      /\ a <= m[l] /\ m[l] <= b
      /\ \A l \in Logs : m[l] # 0 /\ a <= m[l] /\ m[l] <= b /\ l \in c[Tx[l]] => l \in L
  BY WatcherAssumption DEF Blocks
<1> HIDE DEF The, L
<1>4. QED
  BY <1>1, <1>2, <1>3

(* FilterLogs asks the chain as it is, and after a step as it is then.     *)
LEMMA FilterLogsAsks ==
    /\ \A a, b : FilterLogs(a, b) = Answer(mined, current, Reorgs, a, b)
    /\ FilterLogs(head, head)' = Answer(mined', current', Reorgs', head', head')
    /\ FilterLogs(head - 1, head)' = Answer(mined', current', Reorgs', head' - 1, head')
BY DEF FilterLogs, Answer

(* A transaction has its own logs, and no two with one key.                *)
LEMMA NumberedApart ==
    ASSUME NEW c \in Numberings
    PROVE  /\ \A t \in Transactions : c[t] \subseteq LogsOf(t)
           /\ \A l, k \in Logs :
                 l \in c[Tx[l]] /\ k \in c[Tx[k]] /\ Key(l) = Key(k) => l = k
<1>1. \A t \in Transactions : c[t] \in Inclusions[t]
  BY DEF Numberings
<1>2. \A l \in Logs : Tx[l] \in Transactions
  BY DEF Transactions
<1>3. \A t \in Transactions : c[t] \subseteq LogsOf(t)
  BY <1>1, WatcherAssumption
<1>4. ASSUME NEW l \in Logs, NEW k \in Logs, l \in c[Tx[l]], k \in c[Tx[k]], Key(l) = Key(k)
      PROVE  l = k
  <2>1. Tx[l] = Tx[k] /\ Index[l] = Index[k]
    BY <1>4 DEF Key
  <2>2. QED
    BY <1>1, <1>2, <1>4, <2>1, WatcherAssumption
<1>5. QED
  BY <1>3, <1>4
-----------------------------------------------------------------------------
(* Failures are counted, and trades added to what was published.           *)
LEMMA FailAdds ==
    ASSUME IsABag(failures), BagToSet(failures) \subseteq Conditions,
           NEW kinds, Fail(kinds)
    PROVE  /\ IsABag(failures') /\ BagToSet(failures') \subseteq Conditions
           /\ \A K : Suffered(K)' <=> Suffered(K) \/ kinds \cap K # {}
           /\ Reorgs \in Nat /\ Reorgs' \in Nat
           /\ Reorgs' = IF "reorg" \in kinds THEN Reorgs + 1 ELSE Reorgs
<1>1. DOMAIN failures' = DOMAIN failures \cup kinds /\ kinds \subseteq Conditions
  BY DEF Fail, SetToBag, (+), BagToSet
<1>2. \A e \in DOMAIN failures' :
         failures'[e] = (IF e \in DOMAIN failures THEN failures[e] ELSE 0)
                        + (IF e \in kinds THEN 1 ELSE 0)
  BY DEF Fail, SetToBag, (+)
<1>3. failures' = [e \in DOMAIN failures' |-> failures'[e]]
  BY DEF Fail, SetToBag, (+)
<1>4. \A e \in DOMAIN failures : failures[e] \in Nat /\ failures[e] > 0
  BY DEF IsABag
<1>5. \A e \in DOMAIN failures' : failures'[e] \in {n \in Nat : n > 0}
  BY <1>1, <1>2, <1>4
<1>6. IsABag(failures')
  BY <1>3, <1>5 DEF IsABag
<1>7. Reorgs \in Nat /\ Reorgs' = IF "reorg" \in kinds THEN Reorgs + 1 ELSE Reorgs
  BY <1>1, <1>2, <1>4 DEF Reorgs, BagIn, BagToSet
<1>8. Reorgs' \in Nat
  BY <1>7
<1>9. QED
  BY <1>1, <1>6, <1>7, <1>8 DEF Suffered, BagToSet

(* They are counted in naturals.                                            *)
LEMMA ReorgsCounted == IsABag(failures) => Reorgs \in Nat
BY DEF IsABag, Reorgs, BagIn, BagToSet

(* Publishing counts each trade of the set once more and no other.          *)
LEMMA PublishAdds ==
    ASSUME IsABag(published), NEW T, Publish(T)
    PROVE  /\ IsABag(published')
           /\ BagToSet(published') = BagToSet(published) \cup T
           /\ \A U \in BagToSet(published) \ T : published'[U] = published[U]
           /\ \A U \in T \ BagToSet(published) : published'[U] = 1
<1>1. DOMAIN published' = DOMAIN published \cup T
  BY DEF Publish, SetToBag, (+)
<1>2. \A e \in DOMAIN published' :
         published'[e] = (IF e \in DOMAIN published THEN published[e] ELSE 0)
                         + (IF e \in T THEN 1 ELSE 0)
  BY DEF Publish, SetToBag, (+)
<1>3. published' = [e \in DOMAIN published' |-> published'[e]]
  BY DEF Publish, SetToBag, (+)
<1>4. \A e \in DOMAIN published : published[e] \in Nat /\ published[e] > 0
  BY DEF IsABag
<1>5. \A e \in DOMAIN published' : published'[e] \in {n \in Nat : n > 0}
  BY <1>1, <1>2, <1>4
<1>6. IsABag(published')
  BY <1>3, <1>5 DEF IsABag
<1>7. \A U \in DOMAIN published \ T : published'[U] = published[U]
  BY <1>1, <1>2, <1>4
<1>8. \A U \in T \ DOMAIN published : published'[U] = 1
  BY <1>1, <1>2
<1>9. QED
  BY <1>1, <1>6, <1>7, <1>8 DEF BagToSet

(* The trades of a batch are what is fresh of it, grouped by transaction.  *)
LEMMA TradesGroup ==
    ASSUME NEW B
    PROVE  /\ Fresh(B) \subseteq B
           /\ \A o \in Fresh(B) : o.log \in Watched /\ Key(o.log) \notin SeenKeys
           /\ \A o \in B : o.log \in Watched => Key(o.log) \in SeenKeys \/ o \in Fresh(B)
           /\ \A T \in Trades(B) : T \subseteq Fresh(B) /\ T # {}
           /\ \A o \in Fresh(B) : \E T \in Trades(B) : o \in T
           /\ \A T \in Trades(B) : \A o \in T, r \in Fresh(B) :
                 r \in T <=> Tx[r.log] = Tx[o.log]
<1>1. /\ Fresh(B) \subseteq B
      /\ \A o \in Fresh(B) : o.log \in Watched /\ Key(o.log) \notin SeenKeys
      /\ \A o \in B : o.log \in Watched => Key(o.log) \in SeenKeys \/ o \in Fresh(B)
  BY DEF Fresh
<1> DEFINE Group(t) == {o \in Fresh(B) : Tx[o.log] = t}
<1>2. \A t : \A o : o \in Group(t) <=> o \in Fresh(B) /\ Tx[o.log] = t
  OBVIOUS
<1>3. Trades(B) = {Group(t) : t \in {Tx[o.log] : o \in Fresh(B)}}
  BY DEF Trades
<1> HIDE DEF Group
<1>4. \A T \in Trades(B) : \E o \in Fresh(B) : T = Group(Tx[o.log])
  BY <1>3
<1>5. \A o \in Fresh(B) : Group(Tx[o.log]) \in Trades(B) /\ o \in Group(Tx[o.log])
  BY <1>2, <1>3
<1>6. \A T \in Trades(B) : T \subseteq Fresh(B) /\ T # {}
  BY <1>2, <1>4, <1>5
<1>7. \A o \in Fresh(B) : \E T \in Trades(B) : o \in T
  BY <1>5
<1>8. ASSUME NEW T \in Trades(B), NEW o \in T, NEW r \in Fresh(B)
      PROVE  r \in T <=> Tx[r.log] = Tx[o.log]
  <2>1. PICK t : T = Group(t)
    BY <1>4
  <2>2. QED
    BY <1>2, <2>1
<1>9. QED
  BY <1>1, <1>6, <1>7, <1>8
-----------------------------------------------------------------------------
(* The memory of the process and the record of what it published.  A batch *)
(* is digested when all of its trades are published and its logs marked;   *)
(* when a publication fails some trades are out and nothing is marked.     *)
GoodBatch(B) ==
    /\ B \in SUBSET Occurrence
    /\ \A o, r \in B : Key(o.log) = Key(r.log) => o.block = r.block
    /\ \A o \in B : Placed(o)

Digests(B) ==
    \E out \in SUBSET Trades(B) :
        /\ Publish(out)
        /\ seen' \in SUBSET seen \/ (out = Trades(B) /\ seen' \in SUBSET Marked(B))

(* What FilterLogs returns is all that the chain has in the range.         *)
LEMMA FilterLogsIsBatch ==
    ASSUME BaseInv, NEW a \in Int, NEW b \in Int
    PROVE  /\ FilterLogs(a, b) \in SUBSET Occurrence
           /\ \A o \in FilterLogs(a, b) :
                 /\ o.log \in Logs /\ o.log \in current[Tx[o.log]]
                 /\ o.block = mined[o.log] /\ mined[o.log] # 0 /\ a <= o.block /\ o.block <= b
           /\ \A l \in Logs :
                 mined[l] # 0 /\ a <= mined[l] /\ mined[l] <= b /\ l \in current[Tx[l]] =>
                    \E o \in FilterLogs(a, b) : o.log = l
<1>1. Reorgs \in 0 .. MaxReorgs
  BY ReorgsCounted, WatcherAssumption DEF BaseInv, FailureInv
<1>2. mined \in [Logs -> Blocks]
  BY DEF BaseInv, ChainInv
<1> DEFINE B == Answer(mined, current, Reorgs, a, b)
<1>3. /\ B \in SUBSET Occurrence
      /\ \A o \in B :
            /\ o.log \in Logs /\ o.log \in current[Tx[o.log]]
            /\ o.block = mined[o.log] /\ mined[o.log] # 0 /\ a <= o.block /\ o.block <= b
      /\ \A l \in Logs :
            mined[l] # 0 /\ a <= mined[l] /\ mined[l] <= b /\ l \in current[Tx[l]] =>
               \E o \in B : o.log = l
  BY <1>1, <1>2, AnswerIsBatch
<1>4. FilterLogs(a, b) = B
  BY FilterLogsAsks
<1> HIDE DEF B
<1>5. QED
  BY <1>3, <1>4

(* The pending block and the answers to eth_getLogs are batches of logs as  *)
(* mined or as delivered.                                                   *)
LEMMA BatchesAreGood ==
    ASSUME BaseInv
    PROVE  /\ GoodBatch(buf)
           /\ \A a, b \in Int : GoodBatch(FilterLogs(a, b))
<1> USE DEF BaseInv, ChainInv, FlightInv
<1>1. GoodBatch(buf)
  BY DEF GoodBatch, InFlight
<1>2. ASSUME NEW a \in Int, NEW b \in Int, b <= head PROVE GoodBatch(FilterLogs(a, b))
  <2> DEFINE B == FilterLogs(a, b)
  <2>2. /\ B \in SUBSET Occurrence
        /\ \A o \in B : /\ o.log \in Logs /\ o.log \in current[Tx[o.log]]
                        /\ o.block = mined[o.log] /\ mined[o.log] # 0 /\ o.block <= b
    BY FilterLogsIsBatch
  <2> HIDE DEF B
  <2>3. \A o, r \in B : Key(o.log) = Key(r.log) => o.block = r.block
    BY <2>2, NumberedApart
  <2>4. \A o \in B : o.block \in Int /\ o.block <= head
    BY <1>2, <2>2 DEF Occurrence, Blocks
  <2>5. \A o \in B : Placed(o)
    BY <2>2, <2>4 DEF Placed, Steady
  <2>6. QED
    BY <2>2, <2>3, <2>5 DEF GoodBatch, B
<1>3. ASSUME NEW a \in Int, NEW b \in Int PROVE GoodBatch(FilterLogs(a, b))
  <2>1. \A l \in Logs : mined[l] \in Int /\ mined[l] <= head
    BY DEF Blocks
  <2>2. CASE b <= head
    BY <1>2, <2>2
  <2>3. CASE ~(b <= head)
    <3>1. head \in Int
      BY DEF Blocks
    <3>2. FilterLogs(a, b) = FilterLogs(a, head)
      BY <2>1, <2>3, <3>1 DEF FilterLogs
    <3>3. QED
      BY <1>2, <3>1, <3>2
  <2>4. QED
    BY <2>2, <2>3
<1>4. QED
  BY <1>1, <1>3

(* Whatever of a batch is published and marked, the seen set holds          *)
(* published logs at blocks of the chain.                                   *)
LEMMA DigestKeepsMemory ==
    ASSUME MemoryInv, NEW B, GoodBatch(B), Digests(B), UNCHANGED chain
    PROVE  MemoryInv'
<1>1. PICK out \in SUBSET Trades(B) :
         /\ Publish(out)
         /\ seen' \in SUBSET seen \/ (out = Trades(B) /\ seen' \in SUBSET Marked(B))
  BY DEF Digests
<1>2. /\ IsABag(published')
      /\ BagToSet(published') = BagToSet(published) \cup out
  BY <1>1, PublishAdds DEF MemoryInv
<1>3. B \in SUBSET Occurrence
  BY DEF GoodBatch
<1>4. /\ Fresh(B) \subseteq B
      /\ \A o \in Fresh(B) : o.log \in Watched /\ Key(o.log) \notin SeenKeys
      /\ \A T \in Trades(B) : T \subseteq Fresh(B) /\ T # {}
      /\ \A o \in Fresh(B) : \E T \in Trades(B) : o \in T
  BY TradesGroup
<1>5. \A o : Placed(o) => Placed(o)'
  BY DEF chain, Placed, Steady, Touched
<1>6. BagToSet(published') \subseteq (SUBSET {o \in Occurrence : o.log \in Watched}) \ {{}}
  <2>1. \A T \in out : T \in SUBSET {o \in Occurrence : o.log \in Watched} /\ T # {}
    BY <1>1, <1>3, <1>4
  <2>2. \A T \in BagToSet(published) :
           T \in SUBSET {o \in Occurrence : o.log \in Watched} /\ T # {}
    BY DEF MemoryInv
  <2>3. \A T \in BagToSet(published') :
           T \in SUBSET {o \in Occurrence : o.log \in Watched} /\ T # {}
    BY <1>2, <2>1, <2>2
  <2>4. QED
    BY <2>3
<1>7. \A T \in BagToSet(published') : \A o \in T : Placed(o)'
  <2>1. \A T \in out : \A o \in T : Placed(o)
    BY <1>1, <1>4 DEF GoodBatch
  <2>2. QED
    BY <1>2, <1>5, <2>1 DEF MemoryInv
<1>9. \A l : Published(l) => Published(l)'
  BY <1>2 DEF Published
<1>10. CASE seen' \in SUBSET seen
  <2>1. /\ seen' \subseteq Occurrence
        /\ \A o, r \in seen' : Key(o.log) = Key(r.log) => o.block = r.block
        /\ \A o \in seen' : Placed(o)' /\ Published(o.log)'
    BY <1>5, <1>9, <1>10 DEF MemoryInv
  <2>2. QED
    BY <1>2, <1>6, <1>7, <2>1 DEF MemoryInv
<1>11. CASE out = Trades(B) /\ seen' \in SUBSET Marked(B)
  <2>1. \A o \in seen' : o \in seen \/ o \in Fresh(B)
    BY <1>11 DEF Marked
  <2>2. \A o \in Fresh(B) : o \in B /\ Key(o.log) \notin SeenKeys
    BY <1>4
  <2>3. seen' \subseteq Occurrence
    BY <1>3, <2>1, <2>2 DEF MemoryInv
  <2>4. \A o, r \in seen' : Key(o.log) = Key(r.log) => o.block = r.block
    BY <2>1, <2>2 DEF MemoryInv, GoodBatch, SeenKeys
  <2>5. \A o \in seen' : Placed(o)'
    BY <1>5, <2>1, <2>2 DEF MemoryInv, GoodBatch
  <2>6. \A o \in Fresh(B) : Published(o.log)'
    BY <1>2, <1>4, <1>11, <2>2 DEF Published
  <2>7. \A o \in seen' : Published(o.log)'
    BY <1>9, <2>1, <2>6 DEF MemoryInv
  <2>8. QED
    BY <1>2, <1>6, <1>7, <2>3, <2>4, <2>5, <2>7 DEF MemoryInv
<1>12. QED
  BY <1>1, <1>10, <1>11

(* Everything the code does with a batch digests it.                       *)
LEMMA BatchesAreDigested ==
    ASSUME NEW B
    PROVE  /\ \A to, ok : ProcessBatch(B, to, TRUE, ok) => Digests(B)
           /\ \A to : ProcessBatch(B, to, TRUE, TRUE) =>
                 cursor' = to /\ UNCHANGED failures
           /\ \A to : ProcessBatch(B, to, TRUE, FALSE) =>
                 UNCHANGED cursor /\ (Fail({"save"}) \/ Fail({"publish"}))
<1>1. \A S, b : PruneBelow(S, b) \in SUBSET S
  BY DEF PruneBelow
<1>2. seen \in SUBSET Marked(B)
  BY DEF Marked
<1>3. ASSUME NEW to, NEW ok, ProcessBatch(B, to, TRUE, ok) PROVE Digests(B)
  BY <1>1, <1>3 DEF ProcessBatch, Digests
<1>4. QED
  BY <1>3 DEF ProcessBatch
-----------------------------------------------------------------------------
(* BaseInv holds: one step for each action.                                *)
LEMMA BaseIsTyped == BaseInv => TypeOK
BY DEF BaseInv, ChainInv, FailureInv, FlightInv, MemoryInv, CycleInv, TypeOK

(* What the parts do not mention does not disturb them.                    *)
LEMMA Unmoved ==
    /\ ChainInv /\ UNCHANGED chain => ChainInv'
    /\ FailureInv /\ UNCHANGED failures => FailureInv'
    /\ FlightInv /\ UNCHANGED <<chain, wire, pc, live>> => FlightInv'
    /\ MemoryInv /\ UNCHANGED <<chain, done>> => MemoryInv'
    /\ \A kinds : FailureInv /\ "reorg" \notin kinds /\ Fail(kinds) => FailureInv'
<1>1. ChainInv /\ UNCHANGED chain => ChainInv'
  BY DEF ChainInv, chain, TogetherInChain
<1>2. FailureInv /\ UNCHANGED failures => FailureInv'
  BY DEF FailureInv, Reorgs
<1>3. FlightInv /\ UNCHANGED <<chain, wire, pc, live>> => FlightInv'
  BY DEF FlightInv, chain, live, InFlight, OnWire, Subscribed, Placed, Steady, Touched
<1>4. MemoryInv /\ UNCHANGED <<chain, done>> => MemoryInv'
  BY DEF MemoryInv, chain, done, Published, Placed, Steady, Touched
<1>5. \A kinds : FailureInv /\ "reorg" \notin kinds /\ Fail(kinds) => FailureInv'
  BY FailAdds DEF FailureInv
<1>6. QED
  BY <1>1, <1>2, <1>3, <1>4, <1>5

(* The basic invariant holds at the start.                                  *)
LEMMA InitBase == Init => BaseInv
<1> SUFFICES ASSUME Init PROVE BaseInv
  OBVIOUS
<1>1. ChainInv
  <2>1. [t \in Transactions |-> First[t]] \in Numberings
    BY WatcherAssumption DEF Numberings
  <2>2. QED
    BY <2>1, WatcherAssumption DEF Init, ChainInv, TogetherInChain, Blocks
<1>2. FailureInv
  <2>2. BagToSet(failures) = {} /\ IsABag(failures)
    BY DEF Init, EmptyBag, SetToBag, IsABag, BagToSet
  <2>3. Reorgs = 0
    BY <2>2 DEF Reorgs, BagIn
  <2>4. QED
    BY <2>2, <2>3, WatcherAssumption DEF FailureInv
<1>3. FlightInv
  <2> DEFINE Empty == wire = <<>> /\ buf = {} /\ pendingBlock = 0
  <2>0. Empty
    BY DEF Init
  <2>1. InFlight = {} /\ 0 \in Blocks /\ 0 <= head
    BY <2>0, WatcherAssumption DEF Init, InFlight, OnWire, Blocks
  <2>2. ~Subscribed /\ grew \in BOOLEAN
    BY DEF Init, Subscribed
  <2>3. wire \in Seq(Occurrence)
    BY <2>0
  <2>4. QED
    BY <2>0, <2>1, <2>2, <2>3 DEF FlightInv
<1>4. MemoryInv
  BY DEF Init, MemoryInv, EmptyBag, SetToBag, IsABag, BagToSet
<1>5. CycleInv
  BY WatcherAssumption DEF Init, CycleInv, Stages, Blocks, NoCursor
<1>6. QED
  BY <1>1, <1>2, <1>3, <1>4, <1>5 DEF BaseInv
(* Where a log is does not change while the chain does not.                *)
LEMMA PlacedStays == UNCHANGED chain => \A o : Placed(o) <=> Placed(o)'
BY DEF chain, Placed, Steady, Touched

(* What the node says of the chain is how it is there.                     *)
LEMMA SentArePlaced ==
    ASSUME ChainInv', FailureInv', NEW a \in Int, NEW b \in Int, b <= head'
    PROVE  LET B == Answer(mined', current', Reorgs', a, b) IN
           /\ B \in SUBSET Occurrence
           /\ \A o \in B : /\ Placed(o)' /\ o.log \in Logs /\ o.block = mined'[o.log]
                           /\ a <= o.block /\ o.block <= b
           /\ \A l \in Logs :
                 /\ mined'[l] # 0 /\ a <= mined'[l] /\ mined'[l] <= b
                 /\ l \in current'[Tx[l]]
                 => \E o \in B : o.log = l
<1> DEFINE B == Answer(mined', current', Reorgs', a, b)
<1>1. mined' \in [Logs -> Blocks] /\ head' \in Int
  BY DEF ChainInv, Blocks
<1>2. Reorgs' \in 0 .. MaxReorgs
  <2>1. Reorgs' \in Nat
    BY DEF FailureInv, IsABag, Reorgs, BagIn, BagToSet
  <2>2. QED
    BY <2>1, WatcherAssumption DEF FailureInv
<1>3. /\ B \in SUBSET Occurrence
      /\ \A o \in B : /\ o.log \in Logs /\ o.log \in current'[Tx[o.log]]
                      /\ o.block = mined'[o.log] /\ mined'[o.log] # 0
                      /\ a <= o.block /\ o.block <= b
      /\ \A l \in Logs :
            mined'[l] # 0 /\ a <= mined'[l] /\ mined'[l] <= b /\ l \in current'[Tx[l]]
            => \E o \in B : o.log = l
  BY <1>1, <1>2, AnswerIsBatch
<1> HIDE DEF B
<1>4. \A o \in B : o.block \in Int /\ o.block <= head'
  BY <1>1, <1>3 DEF Occurrence, Blocks
<1>5. \A o \in B : Placed(o)'
  BY <1>3, <1>4 DEF Placed, Steady
<1>6. QED
  BY <1>3, <1>5 DEF B

(* The chain moves, and the node sends what it has to say of it.           *)
LEMMA ChainMoves ==
    ASSUME BaseInv, FailureInv', ChainInv', UNCHANGED <<pc, range, live, done, notes>>,
           head <= head', \A o \in Occurrence : Placed(o) => Placed(o)',
           NEW a \in Int, NEW b \in Int, b <= head',
           Deliver(Answer(mined', current', Reorgs', a, b))
    PROVE  BaseInv'
<1> DEFINE B == Answer(mined', current', Reorgs', a, b)
<1> USE DEF BaseInv
<1>0. /\ UNCHANGED pc /\ UNCHANGED from /\ UNCHANGED upto
      /\ UNCHANGED buf /\ UNCHANGED pendingBlock /\ UNCHANGED grew
      /\ UNCHANGED seen /\ UNCHANGED cursor /\ UNCHANGED published
      /\ UNCHANGED promised /\ UNCHANGED torn
  BY DEF range, live, done, notes
<1>1. B \in SUBSET Occurrence /\ \A o \in B : Placed(o)'
  BY SentArePlaced
<1> HIDE DEF B
<1>2. wire' \in Seq(Occurrence) /\ (~Subscribed' => wire' = <<>>) /\ OnWire' \subseteq OnWire \cup B
  <2>0. Deliver(B)
    BY DEF B
  <2>1. CASE Subscribed
    <3>1. wire' \in Seq(Occurrence) /\ OnWire' = OnWire \cup B
      BY <1>1, <2>0, <2>1, DeliverAppends DEF FlightInv
    <3>2. QED
      BY <1>0, <2>1, <3>1 DEF Subscribed
  <2>2. CASE ~Subscribed
    BY <1>0, <2>0, <2>2 DEF Deliver, FlightInv, OnWire, Subscribed
  <2>3. QED
    BY <2>1, <2>2
<1>4. head \in Int /\ head' \in Int
  BY DEF ChainInv, Blocks
<1>5. FlightInv'
  <2>1. ASSUME NEW o \in InFlight' PROVE Placed(o)'
    <3>1. CASE o \in B
      BY <1>1, <3>1
    <3>2. CASE o \in InFlight
      <4>1. o \in Occurrence
        BY <3>2 DEF FlightInv, InFlight, OnWire
      <4>2. QED
        BY <3>2, <4>1 DEF FlightInv
    <3>3. QED
      BY <1>0, <1>2, <2>1, <3>1, <3>2 DEF InFlight
  <2>2. pendingBlock <= head'
    BY <1>4 DEF FlightInv, Blocks
  <2>3. QED
    BY <1>0, <1>2, <2>1, <2>2 DEF FlightInv
<1>6. MemoryInv'
  <2>1. \A o \in seen : Placed(o)'
    BY DEF MemoryInv
  <2>2. \A T \in BagToSet(published) : \A o \in T : Placed(o)'
    BY DEF MemoryInv
  <2>3. QED
    BY <1>0, <2>1, <2>2 DEF MemoryInv, Published
<1>7. CycleInv'
  <2>1. cursor \in Int /\ upto \in Int /\ promised \in Int
    BY DEF CycleInv, Blocks, NoCursor
  <2>2. cursor <= head' /\ upto <= head' /\ promised <= head'
    BY <1>4, <2>1 DEF CycleInv
  <2>3. QED
    BY <1>0, <2>2 DEF CycleInv
<1>8. QED
  BY <1>5, <1>6, <1>7

(* A new block: whole transactions that were in none.                      *)
LEMMA MineMoves ==
    ASSUME BaseInv, Mine
    PROVE  /\ \E U \in SUBSET Transactions :
                 /\ \A l \in Logs : Tx[l] \in U => mined[l] = 0
                 /\ mined' = [l \in Logs |-> IF Tx[l] \in U THEN head + 1 ELSE mined[l]]
           /\ head' = head + 1 /\ head \in Nat /\ head' \in Blocks
           /\ UNCHANGED current /\ UNCHANGED replaced /\ UNCHANGED failures
           /\ UNCHANGED Reorgs
           /\ UNCHANGED <<pc, range, live, done, notes>>
           /\ Deliver(Answer(mined', current', Reorgs', head', head'))
<1>1. PICK U \in SUBSET {t \in Transactions : \A l \in LogsOf(t) : mined[l] = 0} :
         mined' = [l \in Logs |-> IF Tx[l] \in U THEN head + 1 ELSE mined[l]]
  BY DEF Mine
<1>2. \A l \in Logs : Tx[l] \in U => mined[l] = 0
  BY DEF LogsOf
<1>3. head' = head + 1 /\ head \in Nat /\ head' \in Blocks
  BY WatcherAssumption DEF BaseInv, ChainInv, Mine, Blocks
<1>4. Deliver(Answer(mined', current', Reorgs', head', head'))
  BY FilterLogsAsks DEF Mine
<1>5. /\ UNCHANGED current /\ UNCHANGED replaced /\ UNCHANGED failures
      /\ UNCHANGED <<pc, range, live, done, notes>>
  BY DEF Mine
<1>6. UNCHANGED Reorgs
  BY <1>5 DEF Reorgs
<1>7. QED
  BY <1>1, <1>2, <1>3, <1>4, <1>5, <1>6

(* A new block keeps the basic invariant.                                   *)
LEMMA MineBase == BaseInv /\ Mine => BaseInv'
<1> SUFFICES ASSUME BaseInv, Mine PROVE BaseInv'
  OBVIOUS
<1>1. /\ mined \in [Logs -> Blocks] /\ \A l \in Logs : mined[l] <= head
      /\ \A l \in Logs : mined[l] \in Nat
  BY WatcherAssumption DEF BaseInv, ChainInv, Blocks
<1>2. PICK U \in SUBSET Transactions :
         /\ \A l \in Logs : Tx[l] \in U => mined[l] = 0
         /\ mined' = [l \in Logs |-> IF Tx[l] \in U THEN head + 1 ELSE mined[l]]
  BY MineMoves
<1>3. /\ head' = head + 1 /\ head \in Nat /\ head' \in Blocks /\ head' \in Int
      /\ UNCHANGED current /\ UNCHANGED replaced /\ UNCHANGED failures
      /\ UNCHANGED <<pc, range, live, done, notes>>
      /\ Deliver(Answer(mined', current', Reorgs', head', head'))
  BY MineMoves
<1>4. ChainInv'
  <2>1. mined' \in [Logs -> Blocks]
    BY <1>1, <1>2, <1>3
  <2>2. \A l \in Logs : mined'[l] <= head'
    BY <1>1, <1>2, <1>3
  <2>3. TogetherInChain'
    BY <1>2 DEF BaseInv, ChainInv, TogetherInChain
  <2>4. QED
    BY <1>3, <2>1, <2>2, <2>3 DEF BaseInv, ChainInv
<1>5. ASSUME NEW o \in Occurrence, Placed(o) PROVE Placed(o)'
  <2>1. o.log \in Logs /\ o.block \in Nat
    BY DEF Occurrence, Blocks
  <2>2. mined'[o.log] = mined[o.log]
    BY <1>2, <1>5, <2>1 DEF Placed
  <2>3. o.block <= head'
    BY <1>3, <1>5, <2>1 DEF Placed
  <2>4. QED
    BY <1>3, <1>5, <2>2, <2>3 DEF Placed, Steady, Touched
<1>6. FailureInv'
  BY <1>3, Unmoved DEF BaseInv
<1>7. head <= head' /\ head' <= head'
  BY <1>3
<1>8. QED
  BY <1>3, <1>4, <1>5, <1>6, <1>7, ChainMoves

(* The transactions that a reorganisation touches, if it moves t.          *)
MovedWith(t) ==
    {u \in Transactions : u = t \/ \E l \in LogsOf(u) : mined[l] \in {head - 1, head}}

(* A reorganisation: the transactions of the last two blocks, and one that *)
(* may come in or move.                                                    *)
LEMMA ReorgMoves ==
    ASSUME BaseInv, Reorg
    PROVE  /\ \E t \in Transactions : \E b \in {head - 1, head} : \E c \in Numberings :
                 /\ \A l \in Logs : Tx[l] = t => mined[l] \in {0, head - 1, head}
                 /\ mined' = [l \in Logs |-> IF Tx[l] = t THEN b ELSE mined[l]]
                 /\ current' = [u \in Transactions |->
                                  IF u \in MovedWith(t) THEN c[u] ELSE current[u]]
                 /\ replaced' = replaced \cup MovedWith(t)
           /\ head \in Nat /\ head > 1 /\ UNCHANGED head
           /\ Fail({"reorg"}) /\ FailureInv'
           /\ Reorgs \in Nat /\ Reorgs' = Reorgs + 1 /\ Reorgs' <= MaxReorgs
           /\ UNCHANGED <<pc, range, live, done, notes>>
           /\ Deliver(Answer(mined', current', Reorgs', head' - 1, head'))
<1>1. \E t \in Transactions, b \in {head - 1, head}, c \in Numberings :
         /\ \A l \in LogsOf(t) : mined[l] = 0 \/ mined[l] \in {head - 1, head}
         /\ mined' = [l \in Logs |-> IF Tx[l] = t THEN b ELSE mined[l]]
         /\ current' = [u \in Transactions |->
                          IF u \in MovedWith(t) THEN c[u] ELSE current[u]]
         /\ replaced' = replaced \cup MovedWith(t)
  BY DEF Reorg, MovedWith
<1>2. \A t \in Transactions : \A l \in Logs : Tx[l] = t => l \in LogsOf(t)
  BY DEF LogsOf
<1>3. head \in Nat /\ head > 1 /\ UNCHANGED head
  BY WatcherAssumption DEF BaseInv, ChainInv, Reorg, Blocks
<1>4. Fail({"reorg"}) /\ Reorgs' <= MaxReorgs
  BY DEF Reorg
<1>5. Reorgs \in Nat /\ Reorgs' = Reorgs + 1 /\ FailureInv'
  BY <1>4, FailAdds DEF BaseInv, FailureInv
<1>6. Deliver(Answer(mined', current', Reorgs', head' - 1, head'))
  BY FilterLogsAsks DEF Reorg
<1>7. UNCHANGED <<pc, range, live, done, notes>>
  BY DEF Reorg
<1>8. QED
  BY <1>1, <1>2, <1>3, <1>4, <1>5, <1>6, <1>7

(* So does a reorganisation,                                                *)
LEMMA ReorgBase == BaseInv /\ Reorg => BaseInv'
<1> SUFFICES ASSUME BaseInv, Reorg PROVE BaseInv'
  OBVIOUS
<1>1. /\ mined \in [Logs -> Blocks] /\ \A l \in Logs : mined[l] <= head
      /\ head \in Blocks
  BY DEF BaseInv, ChainInv
<1>2. PICK t \in Transactions : \E b \in {head - 1, head} : \E c \in Numberings :
         /\ \A l \in Logs : Tx[l] = t => mined[l] \in {0, head - 1, head}
         /\ mined' = [l \in Logs |-> IF Tx[l] = t THEN b ELSE mined[l]]
         /\ current' = [u \in Transactions |->
                          IF u \in MovedWith(t) THEN c[u] ELSE current[u]]
         /\ replaced' = replaced \cup MovedWith(t)
  BY ReorgMoves
<1>3. PICK b \in {head - 1, head} : \E c \in Numberings :
         /\ mined' = [l \in Logs |-> IF Tx[l] = t THEN b ELSE mined[l]]
         /\ current' = [u \in Transactions |->
                          IF u \in MovedWith(t) THEN c[u] ELSE current[u]]
         /\ replaced' = replaced \cup MovedWith(t)
  BY <1>2
<1>4. PICK c \in Numberings :
         /\ current' = [u \in Transactions |->
                          IF u \in MovedWith(t) THEN c[u] ELSE current[u]]
         /\ replaced' = replaced \cup MovedWith(t)
  BY <1>3
<1>5. /\ head \in Nat /\ head > 1 /\ UNCHANGED head /\ FailureInv'
      /\ UNCHANGED <<pc, range, live, done, notes>>
      /\ Deliver(Answer(mined', current', Reorgs', head' - 1, head'))
  BY ReorgMoves
<1>6. b \in Blocks /\ b # 0 /\ b <= head
  BY <1>1, <1>5, WatcherAssumption DEF Blocks
<1>7. MovedWith(t) \subseteq Transactions /\ t \in MovedWith(t)
  BY DEF MovedWith
<1>8. ChainInv'
  <2>1. mined' \in [Logs -> Blocks] /\ \A l \in Logs : mined'[l] <= head'
    BY <1>1, <1>3, <1>5, <1>6
  <2>2. TogetherInChain'
    BY <1>3 DEF BaseInv, ChainInv, TogetherInChain
  <2>3. current' \in Numberings
    BY <1>4 DEF BaseInv, ChainInv, Numberings
  <2>4. replaced' \subseteq Transactions
    BY <1>4, <1>7 DEF BaseInv, ChainInv
  <2>5. QED
    BY <1>1, <1>5, <2>1, <2>2, <2>3, <2>4 DEF ChainInv
<1>9. ASSUME NEW o \in Occurrence, Placed(o) PROVE Placed(o)'
  <2>1. o.log \in Logs /\ o.block \in Nat /\ Tx[o.log] \in Transactions
    BY DEF Occurrence, Blocks, Transactions
  <2>2. mined'[o.log] # 0 /\ o.block <= head' /\ o.block # 0
    BY <1>3, <1>5, <1>6, <1>9, <2>1 DEF Placed
  <2>3. Steady(o)'
    <3>1. SUFFICES ASSUME Tx[o.log] \notin replaced'
                   PROVE  o.log \in current'[Tx[o.log]] /\ o.block = mined'[o.log]
      BY DEF Steady, Touched
    <3>2. Tx[o.log] \notin replaced /\ Tx[o.log] \notin MovedWith(t) /\ Tx[o.log] # t
      BY <1>4, <1>7, <3>1
    <3>3. mined'[o.log] = mined[o.log] /\ current'[Tx[o.log]] = current[Tx[o.log]]
      BY <1>3, <1>4, <2>1, <3>2
    <3>4. QED
      BY <1>9, <3>2, <3>3 DEF Placed, Steady, Touched
  <2>4. QED
    BY <2>2, <2>3 DEF Placed
<1>10. head <= head' /\ head' <= head' /\ head' - 1 \in Int /\ head' \in Int
  BY <1>5
<1>11. QED
  BY <1>5, <1>8, <1>9, <1>10, ChainMoves

(* A reorganisation moves nothing out of the last two blocks or in from    *)
(* below, and every transaction that it leaves there is a replaced one.    *)
LEMMA ReorgLeavesTheOthers ==
    ASSUME BaseInv, Reorg
    PROVE  /\ replaced \subseteq replaced'
           /\ \A l \in Logs : Tx[l] \notin replaced' =>
                 /\ mined'[l] = mined[l] /\ current'[Tx[l]] = current[Tx[l]]
                 /\ ~(mined'[l] >= head - 1)
           /\ \A l \in Logs : mined'[l] # mined[l] =>
                 mined'[l] \in {head - 1, head} /\ mined[l] \in {0, head - 1, head}
<1>1. PICK t \in Transactions : \E b \in {head - 1, head} : \E c \in Numberings :
         /\ \A l \in Logs : Tx[l] = t => mined[l] \in {0, head - 1, head}
         /\ mined' = [l \in Logs |-> IF Tx[l] = t THEN b ELSE mined[l]]
         /\ current' = [u \in Transactions |->
                          IF u \in MovedWith(t) THEN c[u] ELSE current[u]]
         /\ replaced' = replaced \cup MovedWith(t)
  BY ReorgMoves
<1>2. PICK b \in {head - 1, head} : \E c \in Numberings :
         /\ mined' = [l \in Logs |-> IF Tx[l] = t THEN b ELSE mined[l]]
         /\ current' = [u \in Transactions |->
                          IF u \in MovedWith(t) THEN c[u] ELSE current[u]]
         /\ replaced' = replaced \cup MovedWith(t)
  BY <1>1
<1>3. PICK c \in Numberings :
         current' = [u \in Transactions |->
                       IF u \in MovedWith(t) THEN c[u] ELSE current[u]]
  BY <1>2
<1>4. head \in Nat /\ mined \in [Logs -> Blocks] /\ \A l \in Logs : mined[l] <= head
  BY ReorgMoves DEF BaseInv, ChainInv
<1>5. ASSUME NEW l \in Logs, Tx[l] \notin replaced'
      PROVE  /\ mined'[l] = mined[l] /\ current'[Tx[l]] = current[Tx[l]]
             /\ ~(mined'[l] >= head - 1)
  <2>1. Tx[l] \in Transactions /\ l \in LogsOf(Tx[l])
    BY DEF Transactions, LogsOf
  <2>2. Tx[l] \notin MovedWith(t)
    BY <1>2, <1>5
  <2>3. Tx[l] # t /\ mined[l] \notin {head - 1, head}
    BY <2>1, <2>2 DEF MovedWith
  <2>4. mined'[l] = mined[l] /\ current'[Tx[l]] = current[Tx[l]]
    BY <1>2, <1>3, <2>1, <2>2, <2>3
  <2>5. mined[l] \in Int /\ mined[l] <= head
    BY <1>4 DEF Blocks
  <2>6. QED
    BY <1>4, <2>3, <2>4, <2>5
<1>6. \A l \in Logs : mined'[l] # mined[l] =>
         mined'[l] \in {head - 1, head} /\ mined[l] \in {0, head - 1, head}
  BY <1>1, <1>2
<1>7. QED
  BY <1>2, <1>5, <1>6

(* The end of a cycle keeps what is in memory and on disk.                 *)
LEMMA CycleEnds ==
    ASSUME BaseInv, EndCycle, FailureInv', MemoryInv', UNCHANGED <<chain, range>>,
           UNCHANGED <<cursor, promised>>, torn' \subseteq Transactions
    PROVE  BaseInv'
<1> USE DEF BaseInv
<1>1. ChainInv'
  BY Unmoved
<1>2. UNCHANGED head /\ UNCHANGED from /\ UNCHANGED upto
  BY DEF chain, range
<1>3. pc' = "start" /\ wire' = <<>> /\ buf' = {} /\ pendingBlock' = 0 /\ grew' = FALSE
  BY DEF EndCycle
<1>4. FlightInv'
  <2>1. InFlight' = {}
    BY <1>3 DEF InFlight, OnWire
  <2>2. 0 \in Blocks /\ 0 <= head'
    BY <1>2, WatcherAssumption DEF ChainInv, Blocks
  <2>3. wire' \in Seq(Occurrence)
    BY <1>3
  <2>4. QED
    BY <1>3, <2>1, <2>2, <2>3 DEF FlightInv, Subscribed
<1>5. CycleInv'
  BY <1>2, <1>3 DEF CycleInv, Stages
<1>6. QED
  BY <1>1, <1>4, <1>5

(* A digested batch leaves a good memory, whatever became of it.           *)
LEMMA BatchKeepsMemory ==
    ASSUME BaseInv, NEW B, GoodBatch(B), NEW to, NEW ok, ProcessBatch(B, to, TRUE, ok),
           ok \in BOOLEAN, UNCHANGED chain
    PROVE  MemoryInv' /\ FailureInv'
<1>1. MemoryInv'
  BY BatchesAreDigested, DigestKeepsMemory DEF BaseInv
<1>2. FailureInv'
  <2>1. ok = TRUE \/ ok = FALSE
    OBVIOUS
  <2>2. UNCHANGED failures \/ Fail({"save"}) \/ Fail({"publish"})
    BY <2>1, BatchesAreDigested
  <2>3. QED
    BY <2>2, Unmoved DEF BaseInv
<1>3. QED
  BY <1>1, <1>2

(* A cycle that ends because a batch could not be processed.               *)
LEMMA FailedBatchBase ==
    ASSUME BaseInv, NEW B, GoodBatch(B), NEW to, ProcessBatch(B, to, TRUE, FALSE),
           EndCycle, UNCHANGED <<chain, range, notes>>
    PROVE  BaseInv'
<1>1. UNCHANGED chain /\ UNCHANGED <<chain, range>> /\ torn' = torn
      /\ UNCHANGED promised
  BY DEF notes
<1>2. MemoryInv' /\ FailureInv'
  BY <1>1, BatchKeepsMemory
<1>3. UNCHANGED <<cursor, promised>>
  BY <1>1, BatchesAreDigested
<1>4. torn' \subseteq Transactions
  BY <1>1 DEF BaseInv, CycleInv
<1>5. QED
  BY <1>1, <1>2, <1>3, <1>4, CycleEnds

(* The block that a chunk ends with.                                       *)
ChunkEnd == IF from + Chunk - 1 > upto THEN upto ELSE from + Chunk - 1

(* The chunk a backfill asks for lies within the range it was given.        *)
LEMMA ChunkEnds ==
    ASSUME BaseInv, from <= upto
    PROVE  /\ ChunkEnd \in Blocks /\ from \in Blocks
           /\ from <= ChunkEnd /\ ChunkEnd <= upto /\ ChunkEnd <= head
           /\ GoodBatch(FilterLogs(from, ChunkEnd))
<1>1. /\ from \in Nat /\ upto \in Nat /\ head \in Nat /\ upto <= head /\ upto <= MaxBlock
      /\ MaxBlock \in Nat /\ Chunk \in Nat /\ Chunk > 0
  BY WatcherAssumption DEF BaseInv, ChainInv, CycleInv, Blocks
<1>2. ChunkEnd \in Nat /\ from <= ChunkEnd /\ ChunkEnd <= upto
  BY <1>1 DEF ChunkEnd
<1>3. ChunkEnd \in Int /\ from \in Int
  BY <1>1, <1>2
<1>4. GoodBatch(FilterLogs(from, ChunkEnd))
  BY <1>3, BatchesAreGood
<1>5. QED
  BY <1>1, <1>2, <1>4 DEF Blocks

(* A chunk processed, in any of its outcomes, keeps the basic invariant.    *)
LEMMA BackfillBase == BaseInv /\ Backfill => BaseInv'
<1> SUFFICES ASSUME BaseInv, Backfill PROVE BaseInv'
  OBVIOUS
<1>0. UNCHANGED chain /\ UNCHANGED mined /\ UNCHANGED head
      /\ UNCHANGED notes /\ UNCHANGED promised /\ UNCHANGED torn
  BY DEF Backfill, chain, notes
<1>1. ASSUME from > upto, pc' = IF pc = "backfill" THEN "subscribe" ELSE "live",
             UNCHANGED <<wire, failures, range, live, done>>
      PROVE  BaseInv'
  <2>1. pc = "backfill" \/ pc = "catchup"
    BY DEF Backfill
  <2>2. /\ UNCHANGED wire /\ UNCHANGED buf /\ UNCHANGED pendingBlock
        /\ UNCHANGED grew /\ UNCHANGED from /\ UNCHANGED upto /\ UNCHANGED cursor
        /\ UNCHANGED failures
    BY <1>1 DEF range, live, done
  <2>3. ChainInv' /\ FailureInv' /\ MemoryInv'
    <3>1. UNCHANGED <<chain, done>>
      BY <1>0, <1>1
    <3>2. QED
      BY <1>0, <2>2, <3>1, Unmoved DEF BaseInv
  <2>4. FlightInv'
    <3>1. InFlight' = InFlight
      BY <2>2 DEF InFlight, OnWire
    <3>2. buf = {} /\ pendingBlock = 0 /\ (pc = "backfill" => wire = <<>>)
      BY <2>1 DEF BaseInv, FlightInv, Subscribed
    <3>3. (~Subscribed)' => wire' = <<>>
      BY <1>1, <2>1, <2>2, <3>2 DEF Subscribed
    <3>4. QED
      BY <1>0, <2>2, <3>1, <3>2, <3>3, PlacedStays DEF BaseInv, FlightInv
  <2>5. CycleInv'
    <3>1. from \in Int /\ upto \in Int /\ cursor \in Int
      BY WatcherAssumption DEF BaseInv, CycleInv, Blocks, NoCursor
    <3>2. CASE pc = "backfill"
      <4>1. pc' = "subscribe" /\ from <= upto + 1
        BY <1>1, <3>2 DEF BaseInv, CycleInv
      <4>2. cursor # NoCursor
        BY <1>1, <3>1, <3>2 DEF BaseInv, CycleInv
      <4>3. from = cursor + 1
        BY <3>2, <4>2 DEF BaseInv, CycleInv
      <4>4. cursor = upto
        BY <1>1, <3>1, <4>1, <4>3
      <4>5. QED
        BY <1>0, <2>2, <4>1, <4>2, <4>4 DEF BaseInv, CycleInv, Stages
    <3>3. CASE pc = "catchup"
      <4>1. pc' = "live" /\ cursor # NoCursor
        BY <1>1, <3>3 DEF BaseInv, CycleInv
      <4>2. QED
        BY <1>0, <2>2, <4>1 DEF BaseInv, CycleInv, Stages
    <3>4. QED
      BY <2>1, <3>2, <3>3
  <2>6. QED
    BY <2>3, <2>4, <2>5 DEF BaseInv
<1>2. ASSUME from <= upto,
             ProcessBatch(FilterLogs(from, ChunkEnd), ChunkEnd, TRUE, TRUE),
             from' = ChunkEnd + 1, UNCHANGED <<wire, pc, upto, live>>
      PROVE  BaseInv'
  <2>1. /\ ChunkEnd \in Blocks /\ from \in Blocks
        /\ from <= ChunkEnd /\ ChunkEnd <= upto /\ ChunkEnd <= head
        /\ GoodBatch(FilterLogs(from, ChunkEnd))
    BY <1>2, ChunkEnds
  <2>2. MemoryInv' /\ FailureInv'
    BY <1>0, <1>2, <2>1, BatchKeepsMemory
  <2>3. cursor' = ChunkEnd
    BY <1>2, BatchesAreDigested
  <2>4. ChainInv' /\ FlightInv'
    <3>1. UNCHANGED <<chain, wire, pc, live>>
      BY <1>0, <1>2
    <3>2. QED
      BY <1>0, <3>1, Unmoved DEF BaseInv
  <2>5. CycleInv'
    <3>1. ChunkEnd \in Nat /\ MaxBlock \in Nat /\ upto \in Nat /\ ChunkEnd <= MaxBlock
      BY <2>1, WatcherAssumption DEF BaseInv, CycleInv, Blocks
    <3>2. from' \in Blocks \cup {MaxBlock + 1} /\ from' = cursor' + 1 /\ from' <= upto + 1
          /\ cursor' # NoCursor
      BY <1>2, <2>1, <2>3, <3>1 DEF Blocks, NoCursor
    <3>3. UNCHANGED upto /\ UNCHANGED pc /\ (pc = "backfill" \/ pc = "catchup")
      BY <1>2 DEF Backfill
    <3>4. QED
      BY <1>0, <2>1, <2>3, <3>2, <3>3 DEF BaseInv, CycleInv
  <2>6. QED
    BY <2>2, <2>4, <2>5 DEF BaseInv
<1>3. ASSUME from <= upto,
             ProcessBatch(FilterLogs(from, ChunkEnd), ChunkEnd, TRUE, FALSE),
             EndCycle, UNCHANGED range
      PROVE  BaseInv'
  <2>1. GoodBatch(FilterLogs(from, ChunkEnd))
    BY <1>3, ChunkEnds
  <2>2. UNCHANGED <<chain, range, notes>>
    BY <1>0, <1>3
  <2>3. QED
    BY <1>3, <2>1, <2>2, FailedBatchBase
<1>4. QED
  BY <1>1, <1>2, <1>3 DEF Backfill, ChunkEnd

(* The steps of the cycle that process nothing.                            *)
LEMMA CycleStepsBase == BaseInv /\ (ReadHead \/ Subscribe \/ NewHead) => BaseInv'
<1> SUFFICES ASSUME BaseInv, ReadHead \/ Subscribe \/ NewHead PROVE BaseInv'
  OBVIOUS
<1>1. /\ UNCHANGED chain /\ UNCHANGED wire /\ UNCHANGED failures
      /\ UNCHANGED live /\ UNCHANGED done /\ UNCHANGED torn /\ UNCHANGED cursor
      /\ UNCHANGED head
  BY DEF ReadHead, Subscribe, NewHead, notes, chain, done
<1>2. ChainInv' /\ FailureInv' /\ MemoryInv'
  <2>1. UNCHANGED <<chain, done>>
    BY <1>1
  <2>2. QED
    BY <1>1, <2>1, Unmoved DEF BaseInv
<1>3. FlightInv'
  <2>1. UNCHANGED buf /\ UNCHANGED pendingBlock /\ UNCHANGED grew /\ UNCHANGED mined
    BY <1>1 DEF live, chain
  <2>2. InFlight' = InFlight
    BY <1>1, <2>1 DEF InFlight, OnWire
  <2>3. pc # "live" /\ pc' # "live" /\ (~Subscribed' => ~Subscribed)
    BY DEF ReadHead, Subscribe, NewHead, Subscribed
  <2>4. QED
    BY <1>1, <2>1, <2>2, <2>3, PlacedStays DEF BaseInv, FlightInv
<1>4. /\ head \in Nat /\ head <= MaxBlock /\ upto \in Nat /\ MaxBlock \in Nat
      /\ upto <= head /\ cursor <= head /\ cursor \in {NoCursor} \cup Blocks
      /\ (cursor # NoCursor => cursor \in Nat)
  BY WatcherAssumption DEF BaseInv, ChainInv, CycleInv, Blocks
<1>5. CycleInv'
  <2>1. CASE ReadHead
    <3>1. pc' = "backfill" /\ upto' = head
      BY <2>1 DEF ReadHead
    <3>2. CASE cursor = NoCursor
      <4>1. from' = head /\ promised' = head
        BY <2>1, <3>2 DEF ReadHead
      <4>2. head \in Blocks /\ head <= head /\ head <= head + 1
        BY <1>4 DEF Blocks
      <4>3. QED
        BY <1>1, <3>1, <3>2, <4>1, <4>2 DEF BaseInv, CycleInv, Stages
    <3>3. CASE cursor # NoCursor
      <4>1. from' = cursor + 1 /\ promised' = promised
        BY <2>1, <3>3 DEF ReadHead
      <4>2. cursor + 1 \in Blocks \cup {MaxBlock + 1} /\ cursor + 1 <= head + 1
            /\ head \in Blocks
        BY <1>4, <3>3 DEF Blocks
      <4>3. QED
        BY <1>1, <1>4, <3>1, <3>3, <4>1, <4>2 DEF BaseInv, CycleInv, Stages
    <3>4. QED
      BY <3>2, <3>3
  <2>2. CASE Subscribe
    <3>1. pc = "subscribe" /\ pc' = "newhead" /\ UNCHANGED from /\ UNCHANGED upto
          /\ UNCHANGED promised
      BY <2>2 DEF Subscribe, range, notes
    <3>2. QED
      BY <1>1, <3>1 DEF BaseInv, CycleInv, Stages
  <2>3. CASE NewHead
    <3>1. /\ pc = "newhead" /\ pc' = "catchup" /\ from' = upto + 1 /\ upto' = head
          /\ UNCHANGED promised
      BY <2>3 DEF NewHead, notes
    <3>2. cursor = upto /\ cursor # NoCursor
      BY <3>1 DEF BaseInv, CycleInv
    <3>3. upto + 1 \in Blocks \cup {MaxBlock + 1} /\ head \in Blocks /\ upto + 1 <= head + 1
          /\ head <= head
      BY <1>4 DEF Blocks
    <3>4. QED
      BY <1>1, <3>1, <3>2, <3>3 DEF BaseInv, CycleInv, Stages
  <2>4. QED
    BY <2>1, <2>2, <2>3
<1>6. QED
  BY <1>2, <1>3, <1>5 DEF BaseInv

(* The process forgets; its record stays.                                  *)
LEMMA ForgettingIsSafe ==
    ASSUME MemoryInv, NEW out, Publish(out), seen' = {}, UNCHANGED chain,
           \A T \in out : /\ T \in SUBSET {o \in Occurrence : o.log \in Watched} /\ T # {}
                          /\ \A o \in T : Placed(o)
    PROVE  MemoryInv'
<1>1. IsABag(published') /\ BagToSet(published') = BagToSet(published) \cup out
  BY PublishAdds DEF MemoryInv
<1>2. BagToSet(published') \subseteq (SUBSET {o \in Occurrence : o.log \in Watched}) \ {{}}
  <2>1. \A T \in BagToSet(published) :
           T \in SUBSET {o \in Occurrence : o.log \in Watched} /\ T # {}
    BY DEF MemoryInv
  <2>2. \A T \in BagToSet(published') :
           T \in SUBSET {o \in Occurrence : o.log \in Watched} /\ T # {}
    BY <1>1, <2>1
  <2>3. QED
    BY <2>2
<1>3. \A o : Placed(o) => Placed(o)'
  BY PlacedStays
<1>4. \A T \in BagToSet(published') : \A o \in T : Placed(o)'
  BY <1>1, <1>3 DEF MemoryInv
<1>5. QED
  BY <1>1, <1>2, <1>4 DEF MemoryInv

(* What a batch publishes are non-empty sets of watched logs that are on    *)
(* the chain.                                                               *)
LEMMA TradesArePlaced ==
    ASSUME NEW B, GoodBatch(B), NEW out \in SUBSET Trades(B)
    PROVE  \A T \in out : /\ T \in SUBSET {o \in Occurrence : o.log \in Watched} /\ T # {}
                          /\ \A o \in T : Placed(o)
<1>1. /\ Fresh(B) \subseteq B /\ \A o \in Fresh(B) : o.log \in Watched
      /\ \A T \in Trades(B) : T \subseteq Fresh(B) /\ T # {}
  BY TradesGroup
<1>2. QED
  BY <1>1 DEF GoodBatch

(* What a disconnect tears are transactions.                                *)
LEMMA TearIsTyped ==
    BaseInv /\ Tear => torn' \subseteq Transactions
<1>1. BaseInv => \A o \in buf : Tx[o.log] \in Transactions
  BY DEF BaseInv, FlightInv, Occurrence, Transactions
<1>2. QED
  BY <1>1 DEF BaseInv, CycleInv, Tear

(* The ends of a cycle that no batch brings about.                         *)
LEMMA EndsBase == BaseInv /\ (RpcError \/ Disconnect \/ Stop \/ Crash) => BaseInv'
<1> SUFFICES ASSUME BaseInv, RpcError \/ Disconnect \/ Stop \/ Crash PROVE BaseInv'
  OBVIOUS
<1>1. /\ UNCHANGED chain /\ UNCHANGED <<chain, range>> /\ UNCHANGED <<cursor, promised>>
      /\ EndCycle
  BY DEF RpcError, Disconnect, Stop, Crash, done, notes
<1>2. torn' \subseteq Transactions
  <2>1. torn' = torn \/ Tear
    BY DEF RpcError, Disconnect, Stop, Crash, notes
  <2>2. QED
    BY <2>1, TearIsTyped DEF BaseInv, CycleInv
<1>3. FailureInv'
  <2>1. \E kinds : Fail(kinds) /\ "reorg" \notin kinds
    BY DEF RpcError, Disconnect, LastFlush, Stop, Crash
  <2>2. QED
    BY <2>1, Unmoved DEF BaseInv
<1>4. GoodBatch(buf)
  BY BatchesAreGood
<1>5. Trades(buf) \in SUBSET Trades(buf)
  OBVIOUS
<1>6. MemoryInv'
  <2>1. CASE RpcError
    <3>1. UNCHANGED <<chain, done>>
      BY <1>1, <2>1 DEF RpcError
    <3>2. QED
      BY <3>1, Unmoved DEF BaseInv
  <2>2. CASE Disconnect
    <3>1. Digests(buf)
      BY <2>2, <1>5 DEF Disconnect, LastFlush, Digests
    <3>2. QED
      BY <1>1, <1>4, <3>1, DigestKeepsMemory DEF BaseInv
  <2>3. CASE Stop
    <3>1. PICK out \in SUBSET Trades(buf) : Publish(out)
      BY <2>3, <1>5 DEF Stop
    <3>2. QED
      BY <1>1, <1>4, <2>3, <3>1, ForgettingIsSafe, TradesArePlaced DEF BaseInv, Stop
  <2>4. CASE Crash
    <3>1. UNCHANGED published /\ seen' = {} /\ UNCHANGED mined /\ UNCHANGED head
      BY <1>1, <2>4 DEF Crash, chain
    <3>2. QED
      BY <1>1, <3>1, PlacedStays DEF BaseInv, MemoryInv, Published
  <2>5. QED
    BY <2>1, <2>2, <2>3, <2>4
<1>7. QED
  BY <1>1, <1>2, <1>3, <1>6, CycleEnds

(* The block being received is a block of the chain.                       *)
LEMMA PendingIsMined ==
    BaseInv /\ buf # {} => pendingBlock \in Blocks \ {0} /\ pendingBlock <= head
BY DEF BaseInv, FlightInv, InFlight, Placed

(* The live stream is flushed, and goes on with the logs N.                *)
LEMMA FlushBase ==
    ASSUME BaseInv, pc = "live", buf # {}, ProcessBatch(buf, pendingBlock, TRUE, TRUE),
           UNCHANGED <<chain, pc, range, notes>>, FlightInv'
    PROVE  BaseInv'
<1>1. MemoryInv' /\ FailureInv'
  BY BatchesAreGood, BatchKeepsMemory
<1>2. ChainInv'
  BY Unmoved DEF BaseInv
<1>3. CycleInv'
  <2>1. cursor' = pendingBlock
    BY BatchesAreDigested
  <2>2. cursor' \in Blocks /\ cursor' <= head /\ cursor' # NoCursor
    BY <2>1, PendingIsMined DEF Blocks, NoCursor
  <2>3. /\ UNCHANGED head /\ UNCHANGED from /\ UNCHANGED upto /\ UNCHANGED promised
        /\ UNCHANGED torn /\ UNCHANGED pc
    BY DEF chain, range, notes
  <2>4. QED
    BY <2>2, <2>3 DEF BaseInv, CycleInv
<1>4. QED
  BY <1>1, <1>2, <1>3 DEF BaseInv

(* A log received keeps the basic invariant.                                *)
LEMMA ReceiveBase == BaseInv /\ Receive => BaseInv'
<1> SUFFICES ASSUME BaseInv, Receive PROVE BaseInv'
  OBVIOUS
<1> DEFINE o == Head(wire)
<1>0. /\ UNCHANGED <<chain, range, notes>> /\ UNCHANGED chain /\ UNCHANGED head
      /\ UNCHANGED mined /\ pc = "live" /\ wire # <<>>
  BY DEF Receive, chain
<1>1. /\ o \in Occurrence /\ o \in OnWire /\ Tail(wire) \in Seq(Occurrence)
      /\ {Tail(wire)[i] : i \in DOMAIN Tail(wire)} \subseteq OnWire
  BY <1>0, TailOfWire DEF BaseInv, FlightInv
<1>2. o.block \in Blocks /\ o.block # 0 /\ o.block <= head
  BY <1>1 DEF Occurrence, BaseInv, FlightInv, InFlight, Placed
<1> HIDE DEF o
<1>3. ASSUME UNCHANGED <<failures, cursor, seen, published>>, FlightInv', UNCHANGED pc
      PROVE  BaseInv'
  <2>1. /\ UNCHANGED <<chain, done>> /\ UNCHANGED failures /\ UNCHANGED cursor
        /\ UNCHANGED from /\ UNCHANGED upto /\ UNCHANGED promised /\ UNCHANGED torn
    BY <1>0, <1>3 DEF done, range, notes
  <2>2. CycleInv'
    BY <1>0, <1>3, <2>1 DEF BaseInv, CycleInv
  <2>3. QED
    BY <1>0, <1>3, <2>1, <2>2, Unmoved DEF BaseInv
<1>4. ASSUME o.block < pendingBlock, wire' = Tail(wire),
             UNCHANGED <<failures, pc, live, done>>
      PROVE  BaseInv'
  <2>1. UNCHANGED buf /\ UNCHANGED pendingBlock /\ UNCHANGED grew /\ UNCHANGED pc
    BY <1>4 DEF live
  <2>2. OnWire' \subseteq OnWire
    BY <1>1, <1>4 DEF OnWire
  <2>3. InFlight' \subseteq InFlight
    BY <2>1, <2>2 DEF InFlight
  <2>4. FlightInv'
    BY <1>0, <1>1, <1>4, <2>1, <2>3, PlacedStays DEF BaseInv, FlightInv, Subscribed
  <2>5. QED
    BY <1>3, <1>4, <2>1, <2>4 DEF done
<1>5. ASSUME NEW B \in {{}, buf}, B # {} => o.block = pendingBlock,
             wire' = Tail(wire), buf' = B \cup {o}, pendingBlock' = o.block,
             grew' = TRUE, UNCHANGED pc
      PROVE  FlightInv'
  <2>1. OnWire' \subseteq OnWire
    BY <1>1, <1>5 DEF OnWire
  <2>2. InFlight' \subseteq InFlight
    BY <1>1, <1>5, <2>1 DEF InFlight
  <2>3. \A r \in buf' : r \in Occurrence /\ r.block = pendingBlock'
    BY <1>1, <1>5 DEF BaseInv, FlightInv
  <2>4. Subscribed'
    BY <1>0, <1>5 DEF Subscribed
  <2>5. \A r \in InFlight' : Placed(r)'
    BY <1>0, <2>2, PlacedStays DEF BaseInv, FlightInv
  <2>6. wire' \in Seq(Occurrence) /\ pendingBlock' \in Blocks /\ grew' \in BOOLEAN
        /\ pc' = "live" /\ pendingBlock' <= head'
    BY <1>0, <1>1, <1>2, <1>5
  <2>7. QED
    BY <2>3, <2>4, <2>5, <2>6 DEF FlightInv
<1>6. ASSUME o.block >= pendingBlock, ~(buf # {} /\ o.block > pendingBlock),
             wire' = Tail(wire), buf' = buf \cup {o}, pendingBlock' = o.block,
             grew' = TRUE, UNCHANGED <<failures, pc, done>>
      PROVE  BaseInv'
  <2>1. pendingBlock \in Int /\ o.block \in Int
    BY <1>2 DEF BaseInv, FlightInv, Blocks
  <2>2. buf # {} => o.block = pendingBlock
    BY <1>6, <2>1
  <2>3. FlightInv'
    BY <1>5, <1>6, <2>2
  <2>4. QED
    BY <1>3, <1>6, <2>3 DEF done
<1>7. ASSUME buf # {}, o.block > pendingBlock,
             ProcessBatch(buf, pendingBlock, TRUE, TRUE),
             wire' = Tail(wire), buf' = {} \cup {o}, pendingBlock' = o.block,
             grew' = TRUE, UNCHANGED pc
      PROVE  BaseInv'
  <2>1. FlightInv'
    BY <1>5, <1>7
  <2>2. UNCHANGED <<chain, pc, range, notes>>
    BY <1>0, <1>7
  <2>3. QED
    BY <1>0, <1>7, <2>1, <2>2, FlushBase
<1>8. ASSUME ProcessBatch(buf, pendingBlock, TRUE, FALSE), EndCycle
      PROVE  BaseInv'
  BY <1>0, <1>8, BatchesAreGood, FailedBatchBase
<1>9. QED
  BY <1>4, <1>6, <1>7, <1>8 DEF Receive, o

(* So does a tick.                                                          *)
LEMMA TickBase == BaseInv /\ Tick => BaseInv'
<1> SUFFICES ASSUME BaseInv, Tick PROVE BaseInv'
  OBVIOUS
<1>0. /\ UNCHANGED <<chain, range, notes>> /\ UNCHANGED chain /\ UNCHANGED head
      /\ UNCHANGED mined /\ pc = "live"
  BY DEF Tick, chain
<1>1. ASSUME UNCHANGED <<wire, pc, pendingBlock>>, buf' \in {{}, buf}, grew' \in BOOLEAN
      PROVE  FlightInv'
  <2>1. InFlight' \subseteq InFlight
    BY <1>1 DEF InFlight, OnWire
  <2>2. QED
    BY <1>0, <1>1, <2>1, PlacedStays DEF BaseInv, FlightInv, Subscribed
<1>2. ASSUME grew' = FALSE, UNCHANGED <<wire, failures, pc, buf, pendingBlock, done>>
      PROVE  BaseInv'
  <2>1. FlightInv'
    BY <1>1, <1>2
  <2>2. /\ UNCHANGED <<chain, done>> /\ UNCHANGED failures /\ UNCHANGED cursor
        /\ UNCHANGED from /\ UNCHANGED upto /\ UNCHANGED promised /\ UNCHANGED torn
        /\ UNCHANGED pc
    BY <1>0, <1>2 DEF done, range, notes
  <2>3. CycleInv'
    BY <1>0, <2>2 DEF BaseInv, CycleInv
  <2>4. QED
    BY <1>0, <2>1, <2>2, <2>3, Unmoved DEF BaseInv
<1>3. ASSUME buf # {}, ProcessBatch(buf, pendingBlock, TRUE, TRUE), buf' = {},
             UNCHANGED <<wire, pc, pendingBlock, grew>>
      PROVE  BaseInv'
  <2>1. grew' \in BOOLEAN
    BY <1>3 DEF BaseInv, FlightInv
  <2>2. FlightInv' /\ UNCHANGED <<chain, pc, range, notes>>
    BY <1>0, <1>1, <1>3, <2>1
  <2>3. QED
    BY <1>0, <1>3, <2>2, FlushBase
<1>4. ASSUME ProcessBatch(buf, pendingBlock, TRUE, FALSE), EndCycle
      PROVE  BaseInv'
  BY <1>0, <1>4, BatchesAreGood, FailedBatchBase
<1>5. QED
  BY <1>2, <1>3, <1>4 DEF Tick

(* Every step keeps the basic invariant.                                    *)
LEMMA NextBase == BaseInv /\ [Next]_vars => BaseInv'
<1> SUFFICES ASSUME BaseInv, [Next]_vars PROVE BaseInv'
  OBVIOUS
<1>1. CASE UNCHANGED vars
  <2>1. /\ UNCHANGED <<chain, done>> /\ UNCHANGED chain /\ UNCHANGED failures
        /\ UNCHANGED <<chain, wire, pc, live>> /\ UNCHANGED head
        /\ UNCHANGED pc /\ UNCHANGED from /\ UNCHANGED upto /\ UNCHANGED cursor
        /\ UNCHANGED promised /\ UNCHANGED torn
    BY <1>1 DEF vars, chain, range, done, notes
  <2>2. CycleInv'
    BY <2>1 DEF BaseInv, CycleInv
  <2>3. QED
    BY <2>1, <2>2, Unmoved DEF BaseInv
<1>2. QED
  BY <1>1, MineBase, ReorgBase, CycleStepsBase, BackfillBase, ReceiveBase, TickBase,
     EndsBase DEF Next, Step
-----------------------------------------------------------------------------
(* Nothing is missed.  The subscription must not pause in the middle of a  *)
(* block: Tick would flush the half of it that has come.                   *)

(* What was suffered stays suffered, and what was published, published.    *)
LEMMA FailuresStay ==
    ASSUME BaseInv, [Next]_vars
    PROVE  /\ \A K : Suffered(K) => Suffered(K)'
           /\ Reorgs \in Nat
<1>1. UNCHANGED failures \/ \E kinds : Fail(kinds)
  <2>1. ASSUME NEW B, NEW to, NEW ok \in {TRUE, FALSE}, ProcessBatch(B, to, TRUE, ok)
        PROVE  UNCHANGED failures \/ \E kinds : Fail(kinds)
    BY <2>1 DEF ProcessBatch
  <2>2. CASE Backfill
    BY <2>1, <2>2 DEF Backfill
  <2>3. CASE Receive
    BY <2>1, <2>3 DEF Receive
  <2>4. CASE Tick
    BY <2>1, <2>4 DEF Tick
  <2>5. CASE ReadHead \/ Subscribe \/ NewHead \/ Mine
    BY <2>5 DEF ReadHead, Subscribe, NewHead, Mine
  <2>6. CASE RpcError \/ Disconnect \/ Stop \/ Crash \/ Reorg
    BY <2>6 DEF RpcError, Disconnect, LastFlush, Stop, Crash, Reorg
  <2>7. CASE UNCHANGED vars
    BY <2>7 DEF vars
  <2>8. QED
    BY <2>2, <2>3, <2>4, <2>5, <2>6, <2>7 DEF Next, Step
<1>2. CASE UNCHANGED failures
  <2>1. IsABag(failures)
    BY DEF BaseInv, FailureInv
  <2>2. Reorgs \in Nat
    BY <2>1 DEF Reorgs, IsABag, BagIn, BagToSet
  <2>3. QED
    BY <1>2, <2>2 DEF Suffered
<1>3. ASSUME NEW kinds, Fail(kinds)
      PROVE  (\A K : Suffered(K) => Suffered(K)') /\ Reorgs \in Nat
  BY <1>3, FailAdds DEF BaseInv, FailureInv
<1>4. QED
  BY <1>1, <1>2, <1>3

(* Nothing that was published is taken back.                                *)
LEMMA DigestPublishes ==
    ASSUME MemoryInv, NEW B, GoodBatch(B), Digests(B)
    PROVE  \A l : Published(l) => Published(l)'
<1>1. PICK out : Publish(out)
  BY DEF Digests
<1>2. BagToSet(published) \subseteq BagToSet(published')
  BY <1>1, PublishAdds DEF MemoryInv
<1>3. QED
  BY <1>2 DEF Published

(* Two logs with one key, neither of a replaced block, are one.            *)
LEMMA OneKeyOneLog ==
    ASSUME BaseInv, NEW o \in Occurrence, NEW r \in Occurrence, Placed(o), Placed(r),
           Key(o.log) = Key(r.log), ~Touched(o)
    PROVE  o.log = r.log /\ ~Touched(r) /\ o.block = r.block
<1>1. Tx[o.log] = Tx[r.log]
  BY DEF Key
<1>2. ~Touched(r)
  BY <1>1 DEF Touched
<1>3. o.log \in current[Tx[o.log]] /\ r.log \in current[Tx[r.log]]
      /\ o.block = mined[o.log] /\ r.block = mined[r.log]
  BY <1>2 DEF Placed, Steady
<1>4. o.log \in Logs /\ r.log \in Logs /\ current \in Numberings
  BY DEF Occurrence, BaseInv, ChainInv
<1>5. o.log = r.log
  BY <1>3, <1>4, NumberedApart
<1>6. QED
  BY <1>2, <1>3, <1>5

(* A batch that went through is published, this time or before.            *)
LEMMA WholeBatchPublished ==
    ASSUME BaseInv, NEW B, GoodBatch(B), NEW to, ProcessBatch(B, to, TRUE, TRUE)
    PROVE  \A o \in B : o.log \in Watched /\ ~Touched(o) => Published(o.log)'
<1>1. Publish(Trades(B))
  BY DEF ProcessBatch
<1>2. BagToSet(published') = BagToSet(published) \cup Trades(B)
  BY <1>1, PublishAdds DEF BaseInv, MemoryInv
<1>3. /\ \A o \in B : o.log \in Watched => Key(o.log) \in SeenKeys \/ o \in Fresh(B)
      /\ \A o \in Fresh(B) : \E T \in Trades(B) : o \in T
  BY TradesGroup
<1>4. ASSUME NEW o \in B, o.log \in Watched, ~Touched(o) PROVE Published(o.log)'
  <2>1. CASE o \in Fresh(B)
    BY <1>2, <1>3, <2>1 DEF Published
  <2>2. CASE Key(o.log) \in SeenKeys
    <3>1. PICK r \in seen : Key(r.log) = Key(o.log)
      BY <2>2 DEF SeenKeys
    <3>2. r \in Occurrence /\ Placed(r) /\ Published(r.log)
      BY DEF BaseInv, MemoryInv
    <3>3. o \in Occurrence /\ Placed(o)
      BY DEF GoodBatch
    <3>4. o.log = r.log
      BY <1>4, <3>1, <3>2, <3>3, OneKeyOneLog
    <3>5. QED
      BY <1>2, <3>2, <3>4 DEF Published
  <2>3. QED
    BY <1>3, <1>4, <2>1, <2>2
<1>5. QED
  BY <1>4

(* The types that the arithmetic below needs.                              *)
LEMMA Numbers ==
    ASSUME BaseInv
    PROVE  /\ head \in Nat /\ upto \in Nat /\ from \in Nat /\ pendingBlock \in Nat
           /\ upto <= head /\ cursor <= head /\ promised <= head /\ pendingBlock <= head
           /\ cursor \in Int /\ (cursor # NoCursor => cursor \in Nat)
           /\ promised \in Int /\ (promised # NoCursor => promised \in Nat)
           /\ Watched \subseteq Logs
           /\ \A l \in Logs : mined[l] \in Nat /\ mined[l] <= head
           /\ \A o \in Occurrence : o.log \in Logs /\ o.block \in Nat
           /\ \A o \in InFlight : o \in Occurrence
           /\ \A i \in DOMAIN wire : i \in Nat /\ wire[i] \in InFlight
           /\ \A o \in InFlight : o.block <= head
<1> USE DEF BaseInv
<1>1. MaxBlock \in Nat /\ Watched \subseteq Logs
  BY WatcherAssumption
<1>2. /\ head \in Nat /\ upto \in Nat /\ from \in Nat /\ pendingBlock \in Nat
      /\ upto <= head /\ cursor <= head /\ promised <= head /\ pendingBlock <= head
  BY <1>1 DEF ChainInv, FlightInv, CycleInv, Blocks
<1>3. /\ cursor \in Int /\ (cursor # NoCursor => cursor \in Nat)
      /\ promised \in Int /\ (promised # NoCursor => promised \in Nat)
  BY <1>1 DEF CycleInv, Blocks, NoCursor
<1>4. \A l \in Logs : mined[l] \in Nat /\ mined[l] <= head
  BY <1>1 DEF ChainInv, Blocks
<1>5. \A o \in Occurrence : o.log \in Logs /\ o.block \in Nat
  BY <1>1 DEF Occurrence, Blocks
<1>6. \A o \in InFlight : o \in Occurrence
  BY DEF FlightInv, InFlight, OnWire
<1>7. \A i \in DOMAIN wire : i \in Nat /\ wire[i] \in InFlight
  BY DEF FlightInv, InFlight, OnWire
<1>8. \A o \in InFlight : o.block <= head
  BY DEF FlightInv, Placed
<1>9. QED
  BY <1>1, <1>2, <1>3, <1>4, <1>5, <1>6, <1>7, <1>8

(* A new block adds its logs above every cursor and to an open              *)
(* subscription, so that none is missed.                                    *)
LEMMA MineCalm == BaseInv /\ Mine /\ Calm => Calm'
<1> SUFFICES ASSUME BaseInv, Mine, Calm PROVE Calm'
  OBVIOUS
<1> DEFINE B == Answer(mined', current', Reorgs', head', head')
<1>0. BaseInv'
  BY MineBase
<1>1. PICK U \in SUBSET Transactions :
         /\ \A l \in Logs : Tx[l] \in U => mined[l] = 0
         /\ mined' = [l \in Logs |-> IF Tx[l] \in U THEN head + 1 ELSE mined[l]]
  BY MineMoves
<1>2. /\ head' = head + 1 /\ UNCHANGED pc /\ UNCHANGED upto /\ UNCHANGED buf
      /\ UNCHANGED pendingBlock /\ UNCHANGED cursor /\ UNCHANGED promised
      /\ UNCHANGED published /\ UNCHANGED current /\ UNCHANGED replaced
      /\ Deliver(B)
  BY MineMoves DEF range, live, done, notes
<1>3. /\ head \in Nat /\ upto <= head /\ cursor <= head /\ pendingBlock <= head
      /\ upto \in Nat /\ cursor \in Int /\ pendingBlock \in Nat /\ Watched \subseteq Logs
      /\ \A l \in Logs : mined[l] \in Nat /\ mined[l] <= head
      /\ \A o \in Occurrence : o.log \in Logs /\ o.block \in Nat
      /\ \A o \in InFlight : o \in Occurrence
      /\ \A i \in DOMAIN wire : i \in Nat /\ wire[i] \in InFlight
      /\ \A o \in InFlight : o.block <= head
  BY Numbers
<1>4. /\ \A l \in Logs : mined[l] # 0 => mined'[l] = mined[l]
      /\ \A l \in Logs : mined'[l] # mined[l] => mined'[l] = head + 1
  BY <1>1
<1>5. /\ B \in SUBSET Occurrence
      /\ \A o \in B : o.block = head + 1
      /\ \A l \in Logs : mined'[l] = head + 1 /\ l \in current[Tx[l]]
                         => \E o \in B : o.log = l
  <2>1. head' \in Int /\ head' <= head' /\ ChainInv' /\ FailureInv'
    BY <1>0, <1>2, <1>3 DEF BaseInv
  <2>2. /\ B \in SUBSET Occurrence
        /\ \A o \in B : head' <= o.block /\ o.block <= head'
        /\ \A l \in Logs : /\ mined'[l] # 0 /\ head' <= mined'[l] /\ mined'[l] <= head'
                           /\ l \in current'[Tx[l]]
                           => \E o \in B : o.log = l
    BY <2>1, SentArePlaced
  <2> HIDE DEF B
  <2>3. \A o \in B : o.block = head + 1
    BY <1>2, <1>3, <2>2
  <2>4. QED
    BY <1>2, <1>3, <2>2, <2>3
<1>7. \A i \in DOMAIN wire : wire[i].block \in Nat /\ wire[i].block <= head
  BY <1>3
<1>8. \A l \in Logs : Promised(l)' => Promised(l) \/ mined'[l] = head + 1
  BY <1>2, <1>4 DEF Promised, InChain
<1> HIDE DEF B
<1>9. Covered'
  <2>1. SUFFICES ASSUME NEW l \in Watched, Promised(l)', mined'[l] <= cursor'
                 PROVE  Published(l)'
    BY DEF Covered
  <2>2. mined'[l] # head + 1 /\ mined[l] = mined'[l]
    BY <1>2, <1>3, <1>4, <2>1
  <2>3. Promised(l) /\ mined[l] <= cursor
    BY <1>2, <1>3, <1>8, <2>1, <2>2
  <2>4. QED
    BY <1>2, <2>3 DEF Calm, Covered, Published
<1>10. CASE Subscribed
  <2>1. /\ wire' \in Seq(Occurrence)
        /\ \A i \in DOMAIN wire : i \in DOMAIN wire' /\ wire'[i] = wire[i]
        /\ \A i \in DOMAIN wire, j \in DOMAIN wire' \ DOMAIN wire : i < j
        /\ \A j \in DOMAIN wire' \ DOMAIN wire : wire'[j] \in B
        /\ OnWire' = OnWire \cup B
    <3>1. wire \in Seq(Occurrence)
      BY DEF BaseInv, FlightInv
    <3>2. QED
      BY <1>2, <1>5, <1>10, <3>1, DeliverAppends
  <2>2. InFlight' = InFlight \cup B
    BY <1>2, <2>1 DEF InFlight
  <2>3. \A j \in DOMAIN wire' : j \in Nat
    BY <2>1
  <2>4. \A o : Touched(o)' <=> Touched(o)
    BY <1>2 DEF Touched
  <2>5. ASSUME NEW i \in DOMAIN wire', NEW j \in DOMAIN wire', i <= j, ~Touched(wire'[j])
        PROVE  wire'[i].block <= wire'[j].block
    <3>1. CASE i \in DOMAIN wire /\ j \in DOMAIN wire
      BY <2>1, <2>5, <3>1 DEF Calm, Ordered
    <3>2. CASE i \in DOMAIN wire /\ j \notin DOMAIN wire
      BY <1>3, <1>5, <1>7, <2>1, <3>2
    <3>3. CASE i \notin DOMAIN wire /\ j \in DOMAIN wire
      BY <2>1, <2>3, <2>5, <3>3
    <3>4. CASE i \notin DOMAIN wire /\ j \notin DOMAIN wire
      BY <1>3, <1>5, <2>1, <3>4
    <3>5. QED
      BY <3>1, <3>2, <3>3, <3>4
  <2>6. ASSUME NEW i \in DOMAIN wire', ~Touched(wire'[i]) PROVE pendingBlock' <= wire'[i].block
    <3>1. CASE i \in DOMAIN wire
      BY <1>2, <2>1, <2>6, <3>1 DEF Calm, Ordered
    <3>2. CASE i \notin DOMAIN wire
      BY <1>2, <1>3, <1>5, <2>1, <3>2
    <3>3. QED
      BY <3>1, <3>2
  <2>7. Ordered'
    BY <2>4, <2>5, <2>6 DEF Ordered
  <2>8. FlightLogs \subseteq FlightLogs' /\ \A o \in B : o.log \in FlightLogs'
    BY <2>2 DEF FlightLogs
  <2>9. \A l \in Watched : Promised(l)' => Promised(l) \/ l \in FlightLogs'
    BY <1>2, <1>3, <1>5, <1>8, <2>8 DEF Promised, InChain
  <2>10. \A l \in Watched : Promised(l) => mined'[l] = mined[l]
    BY <1>3, <1>4 DEF Promised, InChain
  <2>11. NothingMissed'
    <3>1. ASSUME pc' = "catchup", NEW l \in Watched, Promised(l)', mined'[l] > upto'
          PROVE  l \in FlightLogs'
      BY <1>2, <2>8, <2>9, <2>10, <3>1 DEF Calm, NothingMissed
    <3>2. ASSUME pc' = "live", NEW l \in Watched, Promised(l)'
          PROVE  Published(l)' \/ l \in FlightLogs'
      BY <1>2, <2>8, <2>9, <3>2 DEF Calm, NothingMissed, Published
    <3>3. QED
      BY <3>1, <3>2 DEF NothingMissed
  <2>12. QED
    BY <1>9, <2>7, <2>11 DEF Calm
<1>11. CASE ~Subscribed
  <2>1. wire' = wire
    BY <1>2, <1>11 DEF Deliver
  <2>2. Ordered'
    BY <1>2, <2>1 DEF Calm, Ordered, Touched
  <2>3. NothingMissed'
    BY <1>2, <1>11 DEF NothingMissed, Subscribed
  <2>4. QED
    BY <1>9, <2>2, <2>3 DEF Calm
<1>12. QED
  BY <1>10, <1>11

(* A reorganisation takes nothing from the blocks it leaves alone: what it *)
(* sends is all of transactions it replaced.                               *)
LEMMA ReorgCalm == BaseInv /\ Reorg /\ Calm => Calm'
<1> SUFFICES ASSUME BaseInv, Reorg, Calm PROVE Calm'
  OBVIOUS
<1> DEFINE B == Answer(mined', current', Reorgs', head' - 1, head')
<1>0. BaseInv'
  BY ReorgBase
<1>1. /\ head \in Nat /\ UNCHANGED head /\ UNCHANGED pc /\ UNCHANGED upto /\ UNCHANGED buf
      /\ UNCHANGED pendingBlock /\ UNCHANGED cursor /\ UNCHANGED promised
      /\ UNCHANGED published /\ Deliver(B)
  BY ReorgMoves DEF range, live, done, notes
<1>2. /\ replaced \subseteq replaced'
      /\ \A l \in Logs : Tx[l] \notin replaced' =>
            /\ mined'[l] = mined[l] /\ current'[Tx[l]] = current[Tx[l]]
            /\ ~(mined'[l] >= head - 1)
  BY ReorgLeavesTheOthers
<1>3. /\ B \in SUBSET Occurrence
      /\ \A o \in B : o.log \in Logs /\ mined'[o.log] \in Int /\ head - 1 <= mined'[o.log]
  <2>1. ChainInv' /\ FailureInv' /\ mined' \in [Logs -> Blocks]
    BY <1>0 DEF BaseInv, ChainInv
  <2>2. head' - 1 \in Int /\ head' \in Int /\ head' <= head'
    BY <1>1
  <2>3. B \in SUBSET Occurrence /\ \A o \in B : o.log \in Logs /\ o.block = mined'[o.log]
                                                /\ head' - 1 <= o.block
    BY <2>1, <2>2, SentArePlaced
  <2> HIDE DEF B
  <2>4. \A l \in Logs : mined'[l] \in Int
    BY <2>1 DEF Blocks
  <2>5. QED
    BY <1>1, <2>3, <2>4
<1> HIDE DEF B
<1>4. \A o \in B : Touched(o)'
  BY <1>1, <1>2, <1>3 DEF Touched
<1>5. \A o : Touched(o) => Touched(o)'
  BY <1>2 DEF Touched
<1>6. \A l \in Logs : Promised(l)' => Promised(l) /\ mined'[l] = mined[l]
  BY <1>1, <1>2 DEF Promised, InChain
<1>7. Watched \subseteq Logs
  BY Numbers
<1>8. Covered'
  BY <1>1, <1>6, <1>7 DEF Calm, Covered, Published
<1>9. /\ \A i \in DOMAIN wire' : i \in Nat
      /\ \A i \in DOMAIN wire : i \in DOMAIN wire' /\ wire'[i] = wire[i]
      /\ \A j \in DOMAIN wire' \ DOMAIN wire :
            wire'[j] \in B /\ \A i \in DOMAIN wire : i < j
      /\ FlightLogs \subseteq FlightLogs'
  <2>1. CASE Subscribed
    <3>1. wire \in Seq(Occurrence)
      BY DEF BaseInv, FlightInv
    <3>2. /\ wire' \in Seq(Occurrence)
          /\ \A i \in DOMAIN wire : i \in DOMAIN wire' /\ wire'[i] = wire[i]
          /\ \A i \in DOMAIN wire, j \in DOMAIN wire' \ DOMAIN wire : i < j
          /\ \A j \in DOMAIN wire' \ DOMAIN wire : wire'[j] \in B
          /\ OnWire' = OnWire \cup B
      BY <1>1, <1>3, <2>1, <3>1, DeliverAppends
    <3>3. FlightLogs \subseteq FlightLogs'
      BY <1>1, <3>2 DEF FlightLogs, InFlight
    <3>4. \A i \in DOMAIN wire' : i \in Nat
      BY <3>2
    <3>5. QED
      BY <3>2, <3>3, <3>4
  <2>2. CASE ~Subscribed
    <3>1. wire' = wire
      BY <1>1, <2>2 DEF Deliver
    <3>2. QED
      BY <1>1, <3>1, Numbers DEF FlightLogs, InFlight, OnWire
  <2>3. QED
    BY <2>1, <2>2
<1>10. Ordered'
  <2> DEFINE Stays(o) == Tx[o.log] \notin replaced'
  <2>1. ASSUME NEW j \in DOMAIN wire', Stays(wire'[j])
        PROVE  j \in DOMAIN wire /\ ~Touched(wire[j])
    <3>1. j \in DOMAIN wire
      BY <1>4, <1>9, <2>1 DEF Touched
    <3>2. QED
      BY <1>2, <1>9, <2>1, <3>1 DEF Touched
  <2>2. ASSUME NEW i \in DOMAIN wire', NEW j \in DOMAIN wire', i <= j, Stays(wire'[j])
        PROVE  wire'[i].block <= wire'[j].block
    <3>1. j \in DOMAIN wire /\ ~Touched(wire[j])
      BY <2>1, <2>2
    <3>2. i \in DOMAIN wire
      BY <1>9, <2>2, <3>1
    <3>3. QED
      BY <1>9, <2>2, <3>1, <3>2 DEF Calm, Ordered
  <2>3. ASSUME NEW i \in DOMAIN wire', Stays(wire'[i]) PROVE pendingBlock' <= wire'[i].block
    BY <1>1, <1>9, <2>1, <2>3 DEF Calm, Ordered
  <2>4. QED
    BY <2>2, <2>3 DEF Ordered, Touched
<1>11. NothingMissed'
  <2>1. ASSUME pc' = "catchup", NEW l \in Watched, Promised(l)', mined'[l] > upto'
        PROVE  l \in FlightLogs'
    BY <1>1, <1>6, <1>7, <1>9, <2>1 DEF Calm, NothingMissed
  <2>2. ASSUME pc' = "live", NEW l \in Watched, Promised(l)'
        PROVE  Published(l)' \/ l \in FlightLogs'
    BY <1>1, <1>6, <1>7, <1>9, <2>2 DEF Calm, NothingMissed, Published
  <2>3. QED
    BY <2>1, <2>2 DEF NothingMissed
<1>12. QED
  BY <1>8, <1>10, <1>11 DEF Calm

(* What is promised does not change while the chain does not.              *)
LEMMA PromiseStays ==
    ASSUME UNCHANGED chain, UNCHANGED promised
    PROVE  /\ \A l : Promised(l)' <=> Promised(l)
           /\ \A o : Touched(o)' <=> Touched(o)
           /\ UNCHANGED mined /\ UNCHANGED head
BY DEF chain, Promised, InChain, Touched

(* The end of a cycle loses nothing: the cursor stays.                     *)
LEMMA EndCalm ==
    ASSUME Calm, EndCycle, UNCHANGED chain, UNCHANGED cursor, UNCHANGED promised,
           \A l : Published(l) => Published(l)'
    PROVE  Calm'
<1>1. wire' = <<>> /\ pc' = "start"
  BY DEF EndCycle
<1>2. DOMAIN wire' = {}
  BY <1>1
<1>3. Ordered'
  BY <1>2 DEF Ordered
<1>4. NothingMissed'
  BY <1>1 DEF NothingMissed
<1>5. Covered'
  BY PromiseStays DEF Calm, Covered
<1>6. QED
  BY <1>3, <1>4, <1>5 DEF Calm

(* A cycle that ends in an error, a stop or a crash leaves no cursor above  *)
(* what was published.                                                      *)
LEMMA EndsCalm ==
    BaseInv /\ Calm /\ (RpcError \/ Disconnect \/ Stop \/ Crash) => Calm'
<1> SUFFICES ASSUME BaseInv, Calm, RpcError \/ Disconnect \/ Stop \/ Crash PROVE Calm'
  OBVIOUS
<1>1. EndCycle /\ UNCHANGED chain /\ UNCHANGED cursor /\ UNCHANGED promised
  BY DEF RpcError, Disconnect, Stop, Crash, done, notes
<1>2. UNCHANGED published \/ \E out : Publish(out)
  BY DEF RpcError, Disconnect, LastFlush, Stop, Crash, done
<1>3. BagToSet(published) \subseteq BagToSet(published')
  BY <1>2, PublishAdds DEF BaseInv, MemoryInv
<1>4. \A l : Published(l) => Published(l)'
  BY <1>3 DEF Published
<1>5. QED
  BY <1>1, <1>4, EndCalm

(* A cycle that ends on a batch that did not go through.                   *)
LEMMA FailedBatchCalm ==
    ASSUME BaseInv, Calm, NEW B, GoodBatch(B), NEW to, ProcessBatch(B, to, TRUE, FALSE),
           EndCycle, UNCHANGED chain, UNCHANGED promised
    PROVE  Calm'
<1>1. UNCHANGED cursor /\ Digests(B)
  BY BatchesAreDigested
<1>2. \A l : Published(l) => Published(l)'
  BY <1>1, DigestPublishes DEF BaseInv
<1>3. QED
  BY <1>1, <1>2, EndCalm

(* Reading the head, subscribing and the first head of a subscription miss  *)
(* nothing: what is below was asked for and what is above is in flight.     *)
LEMMA CycleStepsCalm ==
    BaseInv /\ Calm /\ (ReadHead \/ Subscribe \/ NewHead) => Calm'
<1> SUFFICES ASSUME BaseInv, Calm, ReadHead \/ Subscribe \/ NewHead PROVE Calm'
  OBVIOUS
<1>1. /\ UNCHANGED chain /\ UNCHANGED wire /\ UNCHANGED buf /\ UNCHANGED pendingBlock
      /\ UNCHANGED cursor /\ UNCHANGED published /\ UNCHANGED head /\ UNCHANGED mined
  BY DEF ReadHead, Subscribe, NewHead, chain, live, done
<1>3. Ordered'
  BY <1>1 DEF Calm, Ordered, Touched, chain
<1>4. /\ head \in Nat /\ cursor \in Int /\ promised \in Int
      /\ Watched \subseteq Logs /\ \A l \in Logs : mined[l] \in Nat /\ mined[l] <= head
  BY Numbers
<1>5. CASE ReadHead
  <2>1. pc' = "backfill" /\ (cursor # NoCursor => UNCHANGED promised)
        /\ (cursor = NoCursor => promised' = head)
    BY <1>5 DEF ReadHead
  <2>2. CASE cursor # NoCursor
    <3>1. Covered'
      BY <1>1, <2>1, <2>2, PromiseStays DEF Calm, Covered, Published
    <3>2. QED
      BY <1>3, <2>1, <3>1 DEF Calm, NothingMissed
  <2>3. CASE cursor = NoCursor
    <3>1. \A l \in Watched : ~(mined[l] <= cursor)
      BY <1>4, <2>3 DEF NoCursor
    <3>2. Covered'
      BY <1>1, <3>1 DEF Covered
    <3>3. QED
      BY <1>3, <2>1, <3>2 DEF Calm, NothingMissed
  <2>4. QED
    BY <2>2, <2>3
<1>6. CASE Subscribe
  <2>1. pc' = "newhead" /\ UNCHANGED promised
    BY <1>6 DEF Subscribe, notes
  <2>2. QED
    BY <1>1, <1>3, <2>1, PromiseStays DEF Calm, NothingMissed, Covered, Published
<1>7. CASE NewHead
  <2>1. pc' = "catchup" /\ UNCHANGED promised /\ upto' = head
    BY <1>7 DEF NewHead, notes
  <2>2. \A l \in Watched : ~(mined[l] > head)
    BY <1>4
  <2>3. NothingMissed'
    BY <1>1, <2>1, <2>2 DEF NothingMissed
  <2>4. QED
    BY <1>1, <1>3, <2>1, <2>3, PromiseStays DEF Calm, Covered, Published
<1>8. QED
  BY <1>5, <1>6, <1>7

(* The cursor moves to the end of a chunk after every log of the chunk was  *)
(* published.                                                               *)
LEMMA BackfillCalm == BaseInv /\ Calm /\ Backfill => Calm'
<1> SUFFICES ASSUME BaseInv, Calm, Backfill PROVE Calm'
  OBVIOUS
<1>0. /\ UNCHANGED chain /\ UNCHANGED mined /\ UNCHANGED promised
      /\ (pc = "backfill" \/ pc = "catchup")
      /\ \A l : Promised(l)' <=> Promised(l)
  BY PromiseStays DEF Backfill, chain, notes
<1>1. /\ cursor \in Int /\ promised \in Int /\ upto \in Nat /\ from \in Nat
      /\ Watched \subseteq Logs /\ \A l \in Logs : mined[l] \in Nat
  BY Numbers
<1>2. ASSUME from > upto, pc' = IF pc = "backfill" THEN "subscribe" ELSE "live",
             UNCHANGED <<wire, failures, range, live, done>>
      PROVE  Calm'
  <2>1. /\ UNCHANGED wire /\ UNCHANGED buf /\ UNCHANGED pendingBlock
        /\ UNCHANGED cursor /\ UNCHANGED published
    BY <1>2 DEF range, live, done
  <2>2. InFlight' = InFlight
    BY <2>1 DEF InFlight, OnWire
  <2>3. Ordered' /\ Covered'
    BY <1>0, <2>1, <2>2, PromiseStays DEF Calm, Ordered, Covered, Published
  <2>4. NothingMissed'
    <3>1. CASE pc = "backfill"
      BY <1>2, <3>1 DEF NothingMissed
    <3>2. CASE pc = "catchup"
      <4>1. from = cursor + 1
        BY <3>2 DEF BaseInv, CycleInv
      <4>2. upto <= cursor
        BY <1>1, <1>2, <4>1
      <4>3. ASSUME NEW l \in Watched, Promised(l)
            PROVE  Published(l) \/ l \in FlightLogs
        <5>1. CASE mined[l] > upto
          BY <3>2, <4>3, <5>1 DEF Calm, NothingMissed
        <5>2. CASE ~(mined[l] > upto)
          <6>1. mined[l] <= cursor
            BY <1>1, <4>2, <4>3, <5>2 DEF Promised
          <6>2. QED
            BY <4>3, <6>1 DEF Calm, Covered
        <5>3. QED
          BY <5>1, <5>2
      <4>4. pc' = "live"
        BY <1>2, <3>2
      <4>5. \A l \in Watched : Promised(l)' => Published(l)' \/ l \in FlightLogs'
        BY <1>0, <2>1, <2>2, <4>3 DEF Published, FlightLogs
      <4>6. QED
        BY <4>4, <4>5 DEF NothingMissed
    <3>3. QED
      BY <1>0, <3>1, <3>2
  <2>5. QED
    BY <2>3, <2>4 DEF Calm
<1>3. ASSUME from <= upto,
             ProcessBatch(FilterLogs(from, ChunkEnd), ChunkEnd, TRUE, TRUE),
             from' = ChunkEnd + 1, UNCHANGED <<wire, pc, upto, live>>
      PROVE  Calm'
  <2> DEFINE B == FilterLogs(from, ChunkEnd)
  <2>1. ChunkEnd \in Int /\ from <= ChunkEnd /\ GoodBatch(B)
    BY <1>3, ChunkEnds DEF Blocks
  <2>2. /\ UNCHANGED wire /\ UNCHANGED buf /\ UNCHANGED pendingBlock /\ UNCHANGED pc
        /\ UNCHANGED upto /\ cursor' = ChunkEnd
    BY <1>3, BatchesAreDigested DEF live
  <2>3. InFlight' = InFlight
    BY <2>2 DEF InFlight, OnWire
  <2>4. \A l : Published(l) => Published(l)'
    BY <1>3, <2>1, BatchesAreDigested, DigestPublishes DEF BaseInv
  <2>5. \A o \in B : o.log \in Watched /\ ~Touched(o) => Published(o.log)'
    BY <1>3, <2>1, WholeBatchPublished
  <2>6. \A l \in Logs : /\ mined[l] # 0 /\ from <= mined[l] /\ mined[l] <= ChunkEnd
                         /\ l \in current[Tx[l]]
                        => \E o \in B : o.log = l
    <3>1. from \in Int
      BY <1>1
    <3>2. QED
      BY <2>1, <3>1, FilterLogsIsBatch
  <2> HIDE DEF B
  <2>7. Covered'
    <3>1. SUFFICES ASSUME NEW l \in Watched, Promised(l), mined[l] <= ChunkEnd
                   PROVE  Published(l)'
      BY <1>0, <2>2 DEF Covered
    <3>2. CASE mined[l] <= cursor
      BY <2>4, <3>1, <3>2 DEF Calm, Covered
    <3>3. CASE ~(mined[l] <= cursor)
      <4>1. from <= mined[l]
        <5>1. from = cursor + 1 \/ from = promised
          BY <1>0 DEF BaseInv, CycleInv
        <5>2. QED
          BY <1>1, <3>1, <3>3, <5>1 DEF Promised
      <4>2. PICK o \in B : o.log = l
        BY <1>1, <2>6, <3>1, <4>1 DEF Promised, InChain
      <4>3. QED
        BY <2>5, <3>1, <4>2 DEF Promised, Touched
    <3>4. QED
      BY <3>2, <3>3
  <2>8. Ordered' /\ NothingMissed'
    BY <1>0, <2>2, <2>3, <2>4, PromiseStays DEF Calm, Ordered, NothingMissed, FlightLogs
  <2>9. QED
    BY <2>7, <2>8 DEF Calm
<1>4. ASSUME from <= upto,
             ProcessBatch(FilterLogs(from, ChunkEnd), ChunkEnd, TRUE, FALSE),
             EndCycle
      PROVE  Calm'
  BY <1>0, <1>4, ChunkEnds, FailedBatchCalm
<1>5. QED
  BY <1>2, <1>3, <1>4 DEF Backfill, ChunkEnd

(* A block is flushed when the rest of the stream is of later blocks.      *)
LEMMA FlushCalm ==
    ASSUME BaseInv, Calm, pc = "live", buf # {}, UNCHANGED <<chain, promised, pc>>,
           ProcessBatch(buf, pendingBlock, TRUE, TRUE),
           \A o \in OnWire : ~Touched(o) => pendingBlock < o.block, OnWire \subseteq InFlight'
    PROVE  Covered' /\ NothingMissed'
<1>1. GoodBatch(buf) /\ cursor' = pendingBlock
  BY BatchesAreGood, BatchesAreDigested
<1>2. \A l : Published(l) => Published(l)'
  BY <1>1, BatchesAreDigested, DigestPublishes DEF BaseInv
<1>3. \A o \in buf : o.log \in Watched /\ ~Touched(o) => Published(o.log)'
  BY <1>1, WholeBatchPublished
<1>4. ASSUME NEW l \in Watched, Promised(l)
      PROVE  Published(l)' \/ \E o \in OnWire : o.log = l
  <2>1. CASE Published(l)
    BY <1>2, <2>1
  <2>2. CASE \E o \in InFlight : o.log = l
    BY <1>3, <1>4, <2>2 DEF InFlight, Promised, Touched
  <2>3. QED
    BY <1>4, <2>1, <2>2 DEF Calm, NothingMissed, FlightLogs
<1>5. \A l : Promised(l)' <=> Promised(l)
  BY PromiseStays
<1>6. \A o \in OnWire : o.log \in FlightLogs'
  BY DEF FlightLogs
<1>7. NothingMissed'
  BY <1>4, <1>5, <1>6 DEF NothingMissed
<1>8. Covered'
  <2>1. SUFFICES ASSUME NEW l \in Watched, Promised(l), mined[l] <= pendingBlock
                 PROVE  Published(l)'
    BY <1>1, <1>5, PromiseStays DEF Covered
  <2>2. pendingBlock \in Nat /\ mined[l] \in Nat
    BY Numbers
  <2>4. ASSUME NEW o \in OnWire, o.log = l PROVE FALSE
    <3>1. mined[l] = o.block /\ ~Touched(o)
      BY <2>1, <2>4 DEF BaseInv, FlightInv, Placed, Steady, Promised, Touched, InFlight
    <3>2. QED
      BY <2>1, <2>2, <2>4, <3>1
  <2>5. QED
    BY <1>4, <2>1, <2>4
<1>9. QED
  BY <1>7, <1>8

(* A log of a later block completes the pending one, whose logs are all in  *)
(* the buffer since the wire keeps their order.                             *)
LEMMA ReceiveCalm == BaseInv /\ Calm /\ Receive => Calm'
<1> SUFFICES ASSUME BaseInv, Calm, Receive PROVE Calm'
  OBVIOUS
<1> DEFINE o == Head(wire)
           t == Tail(wire)
<1>0. /\ UNCHANGED chain /\ UNCHANGED promised /\ UNCHANGED mined
      /\ pc = "live" /\ wire # <<>>
      /\ \A l : Promised(l)' <=> Promised(l)
      /\ \A r : Touched(r)' <=> Touched(r)
  BY PromiseStays DEF Receive, chain, notes
<1>1. /\ o = wire[1] /\ 1 \in DOMAIN wire /\ o \in Occurrence
      /\ t \in Seq(Occurrence)
      /\ \A i \in DOMAIN wire : i \in Nat /\ i >= 1
      /\ \A i \in DOMAIN t : i + 1 \in DOMAIN wire /\ t[i] = wire[i + 1]
      /\ OnWire = {o} \cup {t[i] : i \in DOMAIN t}
  BY <1>0, TailOfWire DEF BaseInv, FlightInv
<1> HIDE DEF o, t
<1>2. /\ pendingBlock \in Nat /\ o.block \in Nat
      /\ \A i \in DOMAIN wire : wire[i].block \in Nat
  BY <1>1, Numbers
<1>3. /\ \A i \in DOMAIN wire : ~Touched(wire[i]) => o.block <= wire[i].block
      /\ ~Touched(o) => pendingBlock <= o.block
      /\ \A r \in OnWire : ~Touched(r) => o.block <= r.block
  BY <1>1 DEF Calm, Ordered, OnWire
<1>4. ASSUME NEW i \in DOMAIN t, NEW j \in DOMAIN t, i <= j, ~Touched(t[j])
      PROVE  t[i].block <= t[j].block
  <2>1. i \in Nat /\ j \in Nat
    BY <1>1
  <2>2. i + 1 \in DOMAIN wire /\ j + 1 \in DOMAIN wire /\ i + 1 <= j + 1
    BY <1>1, <1>4, <2>1
  <2>3. QED
    BY <1>1, <1>4, <2>2 DEF Calm, Ordered
<1>5. ASSUME wire' = t, NEW B \in {{}, buf}, buf' = B \cup {o}, pendingBlock' = o.block
      PROVE  Ordered' /\ InFlight' = B \cup OnWire
  <2>1. InFlight' = B \cup OnWire
    BY <1>1, <1>5 DEF InFlight, OnWire
  <2>2. \A i \in DOMAIN t : ~Touched(t[i]) => o.block <= t[i].block
    BY <1>1, <1>3
  <2>3. QED
    BY <1>0, <1>4, <1>5, <2>1, <2>2 DEF Ordered, Touched, chain
<1>10. ASSUME o.block < pendingBlock, wire' = t, UNCHANGED <<failures, pc, live, done>>
       PROVE  Calm'
  <2>1. /\ UNCHANGED buf /\ UNCHANGED pendingBlock /\ UNCHANGED pc
        /\ UNCHANGED cursor /\ UNCHANGED published
    BY <1>10 DEF live, done
  <2>2. Touched(o)
    BY <1>2, <1>3, <1>10
  <2>3. OnWire \ {o} \subseteq OnWire'
    BY <1>1, <1>10 DEF OnWire
  <2>4. \A r \in InFlight : ~Touched(r) => r \in InFlight'
    BY <2>1, <2>2, <2>3 DEF InFlight
  <2>5. \A l : Promised(l) /\ l \in FlightLogs => l \in FlightLogs'
    BY <2>4 DEF FlightLogs, Promised, Touched
  <2>6. Ordered'
    <3>1. \A i \in DOMAIN t : ~Touched(t[i]) => pendingBlock <= t[i].block
      BY <1>1 DEF Calm, Ordered
    <3>2. QED
      BY <1>0, <1>4, <1>10, <2>1, <3>1 DEF Ordered, Touched, chain
  <2>7. NothingMissed'
    BY <1>0, <2>1, <2>5 DEF Calm, NothingMissed, Published
  <2>8. Covered'
    BY <1>0, <2>1 DEF Calm, Covered, Published
  <2>9. QED
    BY <2>6, <2>7, <2>8 DEF Calm
<1>6. ASSUME wire' = t, buf' = buf \cup {o}, pendingBlock' = o.block,
             UNCHANGED <<failures, pc, done>>
      PROVE  Calm'
  <2>1. Ordered' /\ InFlight' = InFlight
    BY <1>5, <1>6 DEF InFlight
  <2>2. UNCHANGED cursor /\ UNCHANGED published /\ UNCHANGED pc
    BY <1>6 DEF done
  <2>3. NothingMissed'
    BY <1>0, <2>1, <2>2 DEF Calm, NothingMissed, Published, FlightLogs
  <2>4. Covered'
    BY <1>0, <2>2 DEF Calm, Covered, Published
  <2>5. QED
    BY <2>1, <2>3, <2>4 DEF Calm
<1>7. ASSUME buf # {}, o.block > pendingBlock,
             ProcessBatch(buf, pendingBlock, TRUE, TRUE), UNCHANGED pc,
             wire' = t, buf' = {} \cup {o}, pendingBlock' = o.block
      PROVE  Calm'
  <2>1. Ordered' /\ OnWire \subseteq InFlight'
    BY <1>5, <1>7
  <2>2. \A r \in OnWire : ~Touched(r) => pendingBlock < r.block
    <3>1. \A r \in OnWire : r.block \in Nat
      BY Numbers DEF InFlight
    <3>2. QED
      BY <1>2, <1>3, <1>7, <3>1
  <2>3. Covered' /\ NothingMissed'
    BY <1>0, <1>7, <2>1, <2>2, FlushCalm
  <2>4. QED
    BY <2>1, <2>3 DEF Calm
<1>8. ASSUME ProcessBatch(buf, pendingBlock, TRUE, FALSE), EndCycle PROVE Calm'
  BY <1>0, <1>8, BatchesAreGood, FailedBatchCalm
<1>9. QED
  BY <1>6, <1>7, <1>8, <1>10 DEF Receive, o, t

(* A quiet tick finds the pending block complete, because its logs arrive   *)
(* within a tick.                                                           *)
LEMMA TickCalm == "slow" \notin Conditions /\ BaseInv /\ Calm /\ Tick => Calm'
<1> SUFFICES ASSUME "slow" \notin Conditions, BaseInv, Calm, Tick PROVE Calm'
  OBVIOUS
<1>0. /\ UNCHANGED chain /\ UNCHANGED promised /\ pc = "live"
      /\ wire = <<>> /\ OnWire = {}
  BY DEF Tick, chain, notes, OnWire
<1>1. ASSUME UNCHANGED <<wire, failures, pc, buf, pendingBlock, done>> PROVE Calm'
  <2>1. /\ UNCHANGED wire /\ UNCHANGED buf /\ UNCHANGED pendingBlock /\ UNCHANGED pc
        /\ UNCHANGED cursor /\ UNCHANGED published
    BY <1>1 DEF done
  <2>2. InFlight' = InFlight
    BY <2>1 DEF InFlight, OnWire
  <2>3. QED
    BY <1>0, <2>1, <2>2, PromiseStays
       DEF Calm, Ordered, NothingMissed, Covered, Published, FlightLogs
<1>2. ASSUME buf # {}, ProcessBatch(buf, pendingBlock, TRUE, TRUE), buf' = {},
             UNCHANGED <<wire, pc, pendingBlock, grew>>
      PROVE  Calm'
  <2>1. UNCHANGED wire /\ DOMAIN wire' = {}
    BY <1>0, <1>2
  <2>2. InFlight' = {}
    BY <1>2, <2>1 DEF InFlight, OnWire
  <2>3. Ordered'
    BY <2>1, <2>2 DEF Ordered
  <2>4. Covered' /\ NothingMissed'
    <3>1. UNCHANGED <<chain, promised, pc>>
      BY <1>0, <1>2
    <3>2. QED
      BY <1>0, <1>2, <3>1, FlushCalm
  <2>5. QED
    BY <2>3, <2>4 DEF Calm
<1>3. ASSUME ProcessBatch(buf, pendingBlock, TRUE, FALSE), EndCycle PROVE Calm'
  BY <1>0, <1>3, BatchesAreGood, FailedBatchCalm
<1>4. QED
  BY <1>1, <1>2, <1>3 DEF Tick

(* Every step keeps that nothing is missed, while logs are not slow.       *)
LEMMA NextCalm ==
    "slow" \notin Conditions /\ BaseInv /\ Calm /\ [Next]_vars => Calm'
<1> SUFFICES ASSUME "slow" \notin Conditions, BaseInv, Calm, [Next]_vars
             PROVE  Calm'
  OBVIOUS
<1>1. CASE UNCHANGED vars
  <2>1. /\ UNCHANGED chain /\ UNCHANGED promised /\ UNCHANGED upto
        /\ UNCHANGED wire /\ UNCHANGED buf /\ UNCHANGED pendingBlock /\ UNCHANGED pc
        /\ UNCHANGED cursor /\ UNCHANGED published /\ UNCHANGED mined
    BY <1>1 DEF vars, chain, range, live, done, notes
  <2>2. InFlight' = InFlight
    BY <2>1 DEF InFlight, OnWire
  <2>3. QED
    BY <2>1, <2>2, PromiseStays
       DEF Calm, Ordered, NothingMissed, Covered, Published, FlightLogs
<1>2. QED
  BY <1>1, MineCalm, ReorgCalm, CycleStepsCalm, BackfillCalm, ReceiveCalm, TickCalm,
     EndsCalm DEF Next, Step

(* CursorCovers is what Covered says.                                      *)
LEMMA CoveredIsCursorCovers == BaseInv /\ Covered => CursorCovers
<1> SUFFICES ASSUME BaseInv, Covered, NEW l \in Watched, InChain(l), Tx[l] \notin replaced,
                    promised # NoCursor, mined[l] \in promised .. cursor
             PROVE  Published(l)
  BY DEF CursorCovers
<1>1. mined[l] >= promised /\ mined[l] <= cursor
  BY Numbers
<1>2. QED
  BY <1>1 DEF Covered, Promised
-----------------------------------------------------------------------------
(* As long as the subscription does not pause in the middle of a block,    *)
(* the state of the watcher is well typed and, whatever fails, crashes,    *)
(* reconnects or is reorganised, every watched log up to the cursor on     *)
(* disk, of a transaction whose block was never replaced, was published: a *)
(* restart, which resumes after the cursor, misses nothing of those.       *)
THEOREM WatcherKeepsInv == "slow" \notin Conditions => (Spec => []Inv)
<1> SUFFICES ASSUME "slow" \notin Conditions PROVE Spec => []Inv
  OBVIOUS
<1>1. Init => BaseInv /\ Calm
  <2> SUFFICES ASSUME Init PROVE Calm
    BY InitBase
  <2>1. DOMAIN wire = {} /\ pc = "start"
    BY DEF Init
  <2>2. \A l \in Watched : ~Promised(l)
    BY WatcherAssumption DEF Init, Promised, InChain
  <2>3. QED
    BY <2>1, <2>2 DEF Calm, Ordered, NothingMissed, Covered
<1>2. BaseInv /\ Calm /\ [Next]_vars => (BaseInv /\ Calm)'
  BY NextBase, NextCalm
<1>3. BaseInv /\ Calm => Inv
  BY BaseIsTyped, CoveredIsCursorCovers DEF Inv, Calm
<1>4. QED
  BY <1>1, <1>2, <1>3, PTL DEF Spec
-----------------------------------------------------------------------------
(* Trades are whole.  A batch is whole when it has all of a transaction's  *)
(* watched logs, or when the cut is on record.                             *)
WholeIn(o, B) ==
    \/ Touched(o) \/ Tx[o.log] \in torn'
    \/ \A k \in Siblings(o.log) : \E r \in B : r.log = k

(* Of a transaction that was seen before and has not been cut, nothing is  *)
(* fresh.                                                                  *)
LEMMA FreshTransactions ==
    ASSUME BaseInv, TogetherInMemory, NEW B, GoodBatch(B), NEW o \in Fresh(B),
           NEW r \in B, r.log \in Siblings(o.log), ~Touched(o), Tx[o.log] \notin torn
    PROVE  r \in Fresh(B)
<1>1. /\ o \in B /\ o.log \in Watched /\ Key(o.log) \notin SeenKeys
      /\ r.log \in Watched => Key(r.log) \in SeenKeys \/ r \in Fresh(B)
  BY TradesGroup
<1>2. o \in Occurrence /\ r \in Occurrence /\ Placed(o) /\ Placed(r)
  BY <1>1 DEF GoodBatch
<1>3. r.log \in Watched /\ Tx[r.log] = Tx[o.log]
  <2>1. Tx[o.log] \in Transactions /\ current \in Numberings
    BY <1>2 DEF Occurrence, Transactions, BaseInv, ChainInv
  <2>2. QED
    BY <2>1, NumberedApart DEF Siblings, LogsOf
<1>4. ASSUME Key(r.log) \in SeenKeys PROVE FALSE
  <2>1. PICK q \in seen : Key(q.log) = Key(r.log)
    BY <1>4 DEF SeenKeys
  <2>2. q \in Occurrence /\ Placed(q)
    BY DEF BaseInv, MemoryInv
  <2>3. ~Touched(r)
    BY <1>3 DEF Touched
  <2>4. q.log = r.log
    BY <1>2, <2>1, <2>2, <2>3, OneKeyOneLog
  <2>5. Siblings(q.log) \subseteq SeenLogs
    BY <1>3, <2>3, <2>4 DEF TogetherInMemory, Touched
  <2>6. o.log \in Siblings(q.log)
    BY <1>1, <1>2, <1>3, <2>4 DEF Siblings, Placed, Steady
  <2>7. QED
    BY <1>1, <2>5, <2>6 DEF SeenLogs, SeenKeys
<1>5. QED
  BY <1>1, <1>3, <1>4

(* A whole batch, published in part or in full, makes whole trades.        *)
LEMMA DigestTogether ==
    ASSUME BaseInv, TogetherInMemory, NEW B, GoodBatch(B),
           NEW out \in SUBSET Trades(B), Publish(out), UNCHANGED chain, torn \subseteq torn',
           \A o \in B : WholeIn(o, B),
           \/ seen' = {} \/ seen' = seen \/ seen' = Marked(B)
           \/ \E b : seen' = PruneBelow(Marked(B), b)
    PROVE  TogetherInMemory'
<1>0. /\ \A o : Touched(o)' <=> Touched(o)
      /\ \A l : Siblings(l)' = Siblings(l)
  BY DEF chain, Touched, Siblings
<1>1. /\ Fresh(B) \subseteq B
      /\ \A T \in Trades(B) : T \subseteq Fresh(B)
      /\ \A T \in Trades(B) : \A o \in T, r \in Fresh(B) :
            r \in T <=> Tx[r.log] = Tx[o.log]
  BY TradesGroup
<1>2. ASSUME NEW o \in Fresh(B), ~Touched(o), Tx[o.log] \notin torn', NEW k \in Siblings(o.log)
      PROVE  Tx[k] = Tx[o.log] /\ \E r \in Fresh(B) : r.log = k
  <2>1. PICK r \in B : r.log = k
    BY <1>1, <1>2 DEF WholeIn
  <2>2. r \in Fresh(B)
    BY <1>2, <2>1, FreshTransactions
  <2>3. Tx[o.log] \in Transactions /\ current \in Numberings
    BY <1>1 DEF GoodBatch, Occurrence, Transactions, BaseInv, ChainInv
  <2>4. Tx[k] = Tx[o.log]
    BY <1>2, <2>3, NumberedApart DEF Siblings, LogsOf
  <2>5. QED
    BY <2>1, <2>2, <2>4
<1>3. ASSUME NEW T \in BagToSet(published'), NEW o \in T
      PROVE  \/ Touched(o) \/ Tx[o.log] \in torn'
             \/ Siblings(o.log) \subseteq {r.log : r \in T}
  <2>1. BagToSet(published') = BagToSet(published) \cup out
    BY PublishAdds DEF BaseInv, MemoryInv
  <2>2. CASE T \in BagToSet(published)
    BY <2>2 DEF TogetherInMemory
  <2>3. CASE T \in Trades(B)
    <3>1. o \in Fresh(B)
      BY <1>1, <2>3
    <3>2. ASSUME ~Touched(o), Tx[o.log] \notin torn', NEW k \in Siblings(o.log)
          PROVE  \E r \in T : r.log = k
      <4>1. PICK r \in Fresh(B) : r.log = k
        BY <1>2, <3>1, <3>2
      <4>2. Tx[r.log] = Tx[o.log]
        BY <1>2, <3>1, <3>2, <4>1
      <4>3. QED
        BY <1>1, <2>3, <4>1, <4>2
    <3>3. QED
      BY <3>2
  <2>4. QED
    BY <2>1, <2>2, <2>3
<1>4. ASSUME NEW o \in Marked(B), ~Touched(o), Tx[o.log] \notin torn', NEW k \in Siblings(o.log)
      PROVE  \E r \in Marked(B) : r.log = k /\ r.block = o.block
  <2>1. PICK r \in Marked(B) : r.log = k
    <3>1. CASE o \in seen
      BY <1>4, <3>1 DEF TogetherInMemory, SeenLogs, Marked
    <3>2. CASE o \in Fresh(B)
      BY <1>2, <1>4, <3>2 DEF Marked
    <3>3. QED
      BY <1>4, <3>1, <3>2 DEF Marked
  <2>2. \A x \in Marked(B) : x \in Occurrence /\ Placed(x)
    BY <1>1 DEF Marked, GoodBatch, BaseInv, MemoryInv
  <2>3. k \in Logs /\ Tx[k] = Tx[o.log] /\ o.log \in Logs
    <3>1. Tx[o.log] \in Transactions /\ current \in Numberings /\ o.log \in Logs
      BY <2>2 DEF Occurrence, Transactions, BaseInv, ChainInv
    <3>2. QED
      BY <1>4, <3>1, NumberedApart DEF Siblings, LogsOf
  <2>4. mined[k] = mined[o.log]
    BY <2>3 DEF BaseInv, ChainInv, TogetherInChain
  <2>5. ~Touched(r)
    BY <1>4, <2>1, <2>3 DEF Touched
  <2>6. r.block = mined[k] /\ o.block = mined[o.log]
    BY <1>4, <2>1, <2>2, <2>5 DEF Placed, Steady
  <2>7. QED
    BY <2>1, <2>4, <2>6
<1>5. ASSUME NEW o \in seen', ~Touched(o), Tx[o.log] \notin torn'
      PROVE  \A k \in Siblings(o.log) : \E r \in seen' : r.log = k
  <2>1. CASE seen' = {}
    BY <1>5, <2>1
  <2>2. CASE seen' = seen
    BY <1>5, <2>2 DEF TogetherInMemory, SeenLogs
  <2>3. CASE seen' = Marked(B)
    BY <1>4, <1>5, <2>3
  <2>4. CASE \E b : seen' = PruneBelow(Marked(B), b)
    <3>1. PICK b : seen' = {r \in Marked(B) : r.block >= b}
      BY <2>4 DEF PruneBelow
    <3>2. QED
      BY <1>4, <1>5, <3>1
  <2>5. QED
    BY <2>1, <2>2, <2>3, <2>4
<1>6. QED
  BY <1>0, <1>3, <1>5 DEF TogetherInMemory, SeenLogs

(* What a batch that is processed, whole or in part, does to the memory.   *)
LEMMA BatchTogether ==
    ASSUME BaseInv, TogetherInMemory, NEW B, GoodBatch(B), NEW to,
           NEW ok \in BOOLEAN, ProcessBatch(B, to, TRUE, ok), UNCHANGED chain,
           torn' = torn, \A o \in B : WholeIn(o, B)
    PROVE  TogetherInMemory'
<1>1. PICK out \in SUBSET Trades(B) :
         /\ Publish(out)
         /\ \/ seen' = seen \/ seen' = Marked(B)
            \/ \E b : seen' = PruneBelow(Marked(B), b)
  BY DEF ProcessBatch
<1>2. QED
  BY <1>1, DigestTogether

(* The chain moves: of the transactions it leaves alone everything stays   *)
(* together, and what the node sends of others is whole.                   *)
LEMMA ChainTogether ==
    ASSUME BaseInv, BaseInv', Together, UNCHANGED <<buf, seen, published, torn, pc>>,
           replaced \subseteq replaced',
           \A l \in Logs : Tx[l] \notin replaced' => current'[Tx[l]] = current[Tx[l]],
           NEW a \in Int, NEW b \in Int, b <= head',
           Deliver(Answer(mined', current', Reorgs', a, b))
    PROVE  Together'
<1> DEFINE B == Answer(mined', current', Reorgs', a, b)
<1>1. /\ B \in SUBSET Occurrence
      /\ \A o \in B : /\ o.log \in Logs /\ o.block = mined'[o.log] /\ Placed(o)'
                      /\ a <= o.block /\ o.block <= b
      /\ \A l \in Logs :
            mined'[l] # 0 /\ a <= mined'[l] /\ mined'[l] <= b /\ l \in current'[Tx[l]]
            => \E o \in B : o.log = l
  BY SentArePlaced DEF BaseInv
<1> HIDE DEF B
<1>2. \A l \in Logs : Tx[l] \notin replaced' => Siblings(l)' = Siblings(l)
  BY DEF Siblings
<1>3. TogetherInMemory'
  <2>1. \A o \in seen : o.log \in Logs
    BY DEF BaseInv, MemoryInv, Occurrence
  <2>2. \A T \in BagToSet(published) : \A o \in T : o.log \in Logs
    BY DEF BaseInv, MemoryInv, Occurrence
  <2>3. UNCHANGED SeenLogs
    BY DEF SeenLogs
  <2>4. \A o \in seen' : \/ Tx[o.log] \in replaced' \/ Tx[o.log] \in torn'
                         \/ Siblings(o.log)' \subseteq SeenLogs'
    BY <1>2, <2>1, <2>3 DEF Together, TogetherInMemory, Touched
  <2>5. \A T \in BagToSet(published') : \A o \in T :
           \/ Tx[o.log] \in replaced' \/ Tx[o.log] \in torn'
           \/ Siblings(o.log)' \subseteq {r.log : r \in T}
    BY <1>2, <2>2 DEF Together, TogetherInMemory, Touched
  <2>6. QED
    BY <2>4, <2>5 DEF TogetherInMemory, Touched
<1>4. InFlight' \subseteq InFlight \cup B /\ FlightLogs \subseteq FlightLogs'
      /\ (Subscribed => B \subseteq InFlight') /\ (~Subscribed => InFlight' = InFlight)
  <2>1. CASE Subscribed
    <3>1. OnWire' = OnWire \cup B
      <4>1. Deliver(B) /\ wire \in Seq(Occurrence)
        BY DEF B, BaseInv, FlightInv
      <4>2. QED
        BY <1>1, <2>1, <4>1, DeliverAppends
    <3>2. InFlight' = InFlight \cup B
      BY <3>1 DEF InFlight
    <3>3. QED
      BY <2>1, <3>2 DEF FlightLogs
  <2>2. CASE ~Subscribed
    <3>1. wire' = wire
      BY <2>2 DEF Deliver
    <3>2. InFlight' = InFlight
      BY <3>1 DEF InFlight, OnWire
    <3>3. QED
      BY <2>2, <3>2 DEF FlightLogs
  <2>3. QED
    BY <2>1, <2>2
<1>5. ASSUME NEW o \in InFlight', Tx[o.log] \notin replaced'
      PROVE  Siblings(o.log)' \subseteq FlightLogs'
  <2>1. CASE o \in InFlight
    <3>1. o.log \in Logs
      BY <2>1, Numbers
    <3>2. ~Touched(o) /\ Siblings(o.log) \subseteq FlightLogs
      BY <1>5, <2>1 DEF Together, TogetherInFlight, Touched
    <3>3. QED
      BY <1>2, <1>4, <1>5, <3>1, <3>2
  <2>2. CASE o \in B /\ Subscribed
    <3>1. SUFFICES ASSUME NEW k \in Siblings(o.log)' PROVE \E r \in B : r.log = k
      BY <1>4, <2>2 DEF FlightLogs
    <3>2. k \in current'[Tx[o.log]] /\ o.log \in Logs
      BY <1>1, <2>2 DEF Siblings
    <3>3. k \in Logs /\ Tx[k] = Tx[o.log]
      <4>1. Tx[o.log] \in Transactions /\ current' \in Numberings
        BY <3>2 DEF Transactions, BaseInv, ChainInv
      <4>2. QED
        BY <3>2, <4>1, NumberedApart DEF LogsOf
    <3>4. mined'[k] = mined'[o.log] /\ mined'[o.log] # 0
      BY <1>1, <2>2, <3>2, <3>3 DEF BaseInv, ChainInv, TogetherInChain, Placed
    <3>5. QED
      BY <1>1, <2>2, <3>2, <3>3, <3>4
  <2>3. QED
    BY <1>4, <1>5, <2>1, <2>2
<1>6. TogetherInFlight'
  BY <1>5 DEF TogetherInFlight, Touched
<1>7. QED
  BY <1>3, <1>6 DEF Together

(* A block is mined whole, and sent whole.                                 *)
LEMMA MineTogether == BaseInv /\ Mine /\ Together => Together'
<1> SUFFICES ASSUME BaseInv, Mine, Together PROVE Together'
  OBVIOUS
<1>1. BaseInv'
  BY MineBase
<1>2. UNCHANGED <<buf, seen, published, torn, pc>>
  BY MineMoves DEF live, done, notes
<1>3. replaced \subseteq replaced' /\ UNCHANGED current
  BY MineMoves
<1>4. head' \in Int /\ head' <= head'
      /\ Deliver(Answer(mined', current', Reorgs', head', head'))
  BY MineMoves
<1>5. QED
  BY <1>1, <1>2, <1>3, <1>4, ChainTogether

(* So is what a reorganisation has to say.                                 *)
LEMMA ReorgTogether == BaseInv /\ Reorg /\ Together => Together'
<1> SUFFICES ASSUME BaseInv, Reorg, Together PROVE Together'
  OBVIOUS
<1>1. BaseInv'
  BY ReorgBase
<1>2. UNCHANGED <<buf, seen, published, torn, pc>>
  BY ReorgMoves DEF live, done, notes
<1>3. /\ replaced \subseteq replaced'
      /\ \A l \in Logs : Tx[l] \notin replaced' => current'[Tx[l]] = current[Tx[l]]
  BY ReorgLeavesTheOthers
<1>4. head' - 1 \in Int /\ head' \in Int /\ head' <= head'
      /\ Deliver(Answer(mined', current', Reorgs', head' - 1, head'))
  BY ReorgMoves
<1>5. QED
  BY <1>1, <1>2, <1>3, <1>4, ChainTogether

(* The end of a cycle: nothing is in flight any more.                      *)
LEMMA EndTogether ==
    ASSUME EndCycle, TogetherInMemory'
    PROVE  Together'
<1>1. InFlight' = {}
  BY DEF EndCycle, InFlight, OnWire
<1>2. TogetherInFlight'
  BY <1>1 DEF TogetherInFlight, FlightLogs
<1>3. QED
  BY <1>2 DEF Together

(* The end of a cycle tears only the transactions it records as torn.       *)
LEMMA EndsTogether ==
    BaseInv /\ Together /\ (RpcError \/ Disconnect \/ Stop \/ Crash) => Together'
<1> SUFFICES ASSUME BaseInv, Together, RpcError \/ Disconnect \/ Stop \/ Crash
             PROVE  Together'
  OBVIOUS
<1>1. EndCycle /\ UNCHANGED chain
  BY DEF RpcError, Disconnect, Stop, Crash
<1>2. CASE RpcError \/ Crash
  <2>1. UNCHANGED published /\ UNCHANGED torn /\ (seen' = {} \/ seen' = seen)
    BY <1>2 DEF RpcError, Crash, done, notes
  <2>2. TogetherInMemory'
    BY <1>1, <2>1 DEF Together, TogetherInMemory, SeenLogs, Touched, Siblings, chain
  <2>3. QED
    BY <1>1, <2>2, EndTogether
<1>3. CASE Disconnect \/ Stop
  <2>1. PICK out \in SUBSET Trades(buf) :
           Publish(out) /\ (seen' = {} \/ seen' = seen \/ seen' = Marked(buf))
    BY <1>3 DEF Disconnect, LastFlush, Stop
  <2>2. Tear
    BY <1>3 DEF Disconnect, Stop
  <2>3. \A o \in buf : WholeIn(o, buf)
    BY <2>2 DEF Tear, WholeIn
  <2>4. torn \subseteq torn' /\ GoodBatch(buf)
    BY <2>2, BatchesAreGood DEF Tear
  <2>5. TogetherInMemory'
    BY <1>1, <2>1, <2>3, <2>4, DigestTogether DEF Together
  <2>6. QED
    BY <1>1, <2>5, EndTogether
<1>4. QED
  BY <1>2, <1>3

(* The logs of a range of blocks are a whole batch.                        *)
LEMMA FilterLogsIsWhole ==
    ASSUME BaseInv, NEW a \in Int, NEW b \in Int, NEW o \in FilterLogs(a, b)
    PROVE  WholeIn(o, FilterLogs(a, b))
<1> DEFINE B == FilterLogs(a, b)
<1>1. /\ o.log \in Logs /\ o.block = mined[o.log] /\ mined[o.log] # 0
      /\ a <= o.block /\ o.block <= b
      /\ \A l \in Logs :
            mined[l] # 0 /\ a <= mined[l] /\ mined[l] <= b /\ l \in current[Tx[l]] =>
               \E r \in B : r.log = l
  BY FilterLogsIsBatch
<1> HIDE DEF B
<1>2. ASSUME NEW k \in Siblings(o.log) PROVE \E r \in B : r.log = k
  <2>1. Tx[o.log] \in Transactions /\ current \in Numberings
    BY <1>1 DEF Transactions, BaseInv, ChainInv
  <2>2. k \in Logs /\ Tx[k] = Tx[o.log] /\ k \in current[Tx[k]]
    BY <2>1, NumberedApart DEF Siblings, LogsOf
  <2>3. mined[k] = mined[o.log]
    BY <1>1, <2>2 DEF BaseInv, ChainInv, TogetherInChain
  <2>4. QED
    BY <1>1, <2>2, <2>3
<1>3. QED
  BY <1>2 DEF B, WholeIn

(* A step that leaves the chain, the flight and the memory alone.          *)
LEMMA StillTogether ==
    ASSUME Together, UNCHANGED <<chain, wire, buf, seen, published, torn>>
    PROVE  Together'
<1>1. FlightLogs' = FlightLogs /\ InFlight' = InFlight
  BY DEF FlightLogs, InFlight, OnWire
<1>2. QED
  BY <1>1 DEF Together, TogetherInFlight, TogetherInMemory, SeenLogs, Siblings, Touched,
              chain

(* A chunk ends at a block's end, so that it holds a transaction whole or   *)
(* not at all.                                                              *)
LEMMA BackfillTogether == BaseInv /\ Together /\ Backfill => Together'
<1> SUFFICES ASSUME BaseInv, Together, Backfill PROVE Together'
  OBVIOUS
<1>0. UNCHANGED chain /\ torn' = torn
  BY DEF Backfill, notes
<1>1. ASSUME UNCHANGED <<wire, live, done>> PROVE Together'
  <2>1. UNCHANGED <<chain, wire, buf, seen, published, torn>>
    BY <1>0, <1>1 DEF live, done
  <2>2. QED
    BY <2>1, StillTogether
<1>2. ASSUME from <= upto, NEW ok \in BOOLEAN,
             ProcessBatch(FilterLogs(from, ChunkEnd), ChunkEnd, TRUE, ok)
      PROVE  TogetherInMemory'
  <2> DEFINE B == FilterLogs(from, ChunkEnd)
  <2>1. ChunkEnd \in Int /\ from \in Int /\ GoodBatch(B)
    BY <1>2, ChunkEnds DEF Blocks
  <2>2. \A o \in B : WholeIn(o, B)
    BY <2>1, FilterLogsIsWhole
  <2>3. ProcessBatch(B, ChunkEnd, TRUE, ok)
    BY <1>2
  <2> HIDE DEF B
  <2>4. QED
    BY <1>0, <1>2, <2>1, <2>2, <2>3, BatchTogether DEF Together
<1>3. ASSUME from <= upto,
             ProcessBatch(FilterLogs(from, ChunkEnd), ChunkEnd, TRUE, TRUE),
             UNCHANGED <<wire, pc, upto, live>>
      PROVE  Together'
  <2>1. FlightLogs' = FlightLogs /\ InFlight' = InFlight
    BY <1>3 DEF FlightLogs, InFlight, OnWire, live
  <2>2. TogetherInMemory'
    BY <1>2, <1>3
  <2>3. TogetherInFlight'
    BY <1>0, <2>1 DEF Together, TogetherInFlight, Siblings, Touched, chain
  <2>4. QED
    BY <2>2, <2>3 DEF Together
<1>4. ASSUME from <= upto,
             ProcessBatch(FilterLogs(from, ChunkEnd), ChunkEnd, TRUE, FALSE),
             EndCycle
      PROVE  Together'
  BY <1>2, <1>4, EndTogether
<1>5. QED
  BY <1>1, <1>3, <1>4 DEF Backfill, ChunkEnd

(* A log that is in flight with one of another block has none of its       *)
(* siblings in the buffer.                                                 *)
LEMMA SiblingsShareABlock ==
    ASSUME BaseInv, NEW o \in InFlight, ~Touched(o), NEW r \in InFlight,
           r.log \in Siblings(o.log)
    PROVE  r.block = o.block /\ ~Touched(r)
<1>1. o \in Occurrence /\ r \in Occurrence /\ Placed(o) /\ Placed(r)
  BY Numbers DEF BaseInv, FlightInv
<1>2. Tx[o.log] \in Transactions /\ current \in Numberings
  BY <1>1 DEF Occurrence, Transactions, BaseInv, ChainInv
<1>3. Tx[r.log] = Tx[o.log] /\ r.log \in Logs /\ o.log \in Logs
  BY <1>1, <1>2, NumberedApart DEF Siblings, LogsOf, Occurrence
<1>4. mined[r.log] = mined[o.log]
  BY <1>3 DEF BaseInv, ChainInv, TogetherInChain
<1>5. ~Touched(r)
  BY <1>3 DEF Touched
<1>6. QED
  BY <1>1, <1>4, <1>5 DEF Placed, Steady

(* The block being received is whole when what follows is of later blocks. *)
LEMMA BufferIsWhole ==
    ASSUME BaseInv, Together, \A o \in OnWire : ~Touched(o) => pendingBlock < o.block,
           NEW ok \in BOOLEAN, ProcessBatch(buf, pendingBlock, TRUE, ok),
           UNCHANGED chain, torn' = torn
    PROVE  TogetherInMemory'
<1>1. \A o \in buf : o.block = pendingBlock /\ o \in InFlight
  BY DEF BaseInv, FlightInv, InFlight
<1>2. ASSUME NEW o \in buf, ~Touched(o), NEW k \in Siblings(o.log)
      PROVE  \E r \in buf : r.log = k
  <2>1. k \in FlightLogs
    BY <1>1, <1>2 DEF Together, TogetherInFlight
  <2>2. PICK r \in InFlight : r.log = k
    BY <2>1 DEF FlightLogs
  <2>3. r.block = pendingBlock /\ ~Touched(r)
    BY <1>1, <1>2, <2>2, SiblingsShareABlock
  <2>4. r \notin OnWire
    BY <2>3, Numbers
  <2>5. QED
    BY <2>2, <2>4 DEF InFlight
<1>3. GoodBatch(buf)
  BY BatchesAreGood
<1>4. \A o \in buf : WholeIn(o, buf)
  BY <1>2 DEF WholeIn
<1>5. QED
  BY <1>3, <1>4, BatchTogether DEF Together

(* A pending block is flushed when a later one begins, and then it is       *)
(* whole.                                                                   *)
LEMMA ReceiveTogether == BaseInv /\ Ordered /\ Together /\ Receive => Together'
<1> SUFFICES ASSUME BaseInv, Ordered, Together, Receive PROVE Together'
  OBVIOUS
<1> DEFINE o == Head(wire)
           t == Tail(wire)
<1>0. /\ UNCHANGED chain /\ torn' = torn /\ wire # <<>>
      /\ (\A r : Touched(r)' <=> Touched(r)) /\ (\A l : Siblings(l)' = Siblings(l))
  BY DEF Receive, chain, notes, Touched, Siblings
<1>1. /\ o = wire[1] /\ 1 \in DOMAIN wire /\ t \in Seq(Occurrence)
      /\ \A i \in DOMAIN wire : i \in Nat /\ i >= 1
      /\ OnWire = {o} \cup {t[i] : i \in DOMAIN t}
  BY <1>0, TailOfWire DEF BaseInv, FlightInv
<1> HIDE DEF o, t
<1>2. /\ pendingBlock \in Nat /\ o.block \in Nat /\ o \in InFlight
      /\ \A r \in InFlight : r.block \in Nat /\ r \in Occurrence /\ r.log \in Logs
  BY <1>1, Numbers
<1>3. /\ ~Touched(o) => pendingBlock <= o.block
      /\ \A r \in OnWire : ~Touched(r) => o.block <= r.block
  BY <1>1 DEF Ordered, OnWire
<1>4. ASSUME wire' = t, NEW B \in {{}, buf}, buf' = B \cup {o}
      PROVE  InFlight' = B \cup OnWire
  BY <1>1, <1>4 DEF InFlight, OnWire
<1>5. ASSUME o.block < pendingBlock, wire' = t, UNCHANGED <<live, done>> PROVE Together'
  <2>1. UNCHANGED buf /\ UNCHANGED seen /\ UNCHANGED published
    BY <1>5 DEF live, done
  <2>2. Touched(o)
    BY <1>2, <1>3, <1>5
  <2>3. InFlight' \subseteq InFlight /\ InFlight \ {o} \subseteq InFlight'
    BY <1>1, <1>5, <2>1 DEF InFlight, OnWire
  <2>4. ASSUME NEW r \in InFlight', ~Touched(r), NEW k \in Siblings(r.log)
        PROVE  \E q \in InFlight' : q.log = k
    <3>1. PICK q \in InFlight : q.log = k
      BY <2>3, <2>4 DEF Together, TogetherInFlight, FlightLogs
    <3>2. ~Touched(q)
      BY <2>3, <2>4, <3>1, SiblingsShareABlock
    <3>3. QED
      BY <2>2, <2>3, <3>1, <3>2
  <2>5. TogetherInFlight'
    BY <1>0, <2>4 DEF TogetherInFlight, FlightLogs
  <2>6. TogetherInMemory'
    BY <1>0, <2>1 DEF Together, TogetherInMemory, SeenLogs
  <2>7. QED
    BY <2>5, <2>6 DEF Together
<1>6. ASSUME wire' = t, buf' = buf \cup {o}, UNCHANGED done PROVE Together'
  <2>1. FlightLogs' = FlightLogs /\ InFlight' = InFlight
    BY <1>4, <1>6 DEF FlightLogs, InFlight
  <2>2. TogetherInFlight'
    BY <1>0, <2>1 DEF Together, TogetherInFlight
  <2>3. TogetherInMemory'
    BY <1>0, <1>6 DEF Together, TogetherInMemory, SeenLogs, done
  <2>4. QED
    BY <2>2, <2>3 DEF Together
<1>7. ASSUME buf # {}, o.block > pendingBlock,
             ProcessBatch(buf, pendingBlock, TRUE, TRUE), wire' = t, buf' = {} \cup {o}
      PROVE  Together'
  <2>1. InFlight' = OnWire
    BY <1>4, <1>7
  <2>2. \A r \in OnWire : ~Touched(r) => pendingBlock < r.block
    BY <1>2, <1>3, <1>7 DEF InFlight
  <2>3. TogetherInMemory'
    BY <1>0, <1>7, <2>2, BufferIsWhole
  <2>4. ASSUME NEW r \in OnWire, ~Touched(r), NEW k \in Siblings(r.log)
        PROVE  \E q \in OnWire : q.log = k
    <3>1. r \in InFlight
      BY DEF InFlight
    <3>2. PICK q \in InFlight : q.log = k
      BY <2>4, <3>1 DEF Together, TogetherInFlight, FlightLogs
    <3>3. q.block = r.block
      BY <2>4, <3>1, <3>2, SiblingsShareABlock
    <3>4. q \notin buf
      BY <1>2, <2>2, <2>4, <3>1, <3>3 DEF BaseInv, FlightInv
    <3>5. QED
      BY <3>2, <3>4 DEF InFlight
  <2>5. TogetherInFlight'
    BY <1>0, <2>1, <2>4 DEF TogetherInFlight, FlightLogs
  <2>6. QED
    BY <2>3, <2>5 DEF Together
<1>8. ASSUME buf # {}, o.block > pendingBlock,
             ProcessBatch(buf, pendingBlock, TRUE, FALSE), EndCycle
      PROVE  Together'
  <2>1. \A r \in OnWire : ~Touched(r) => pendingBlock < r.block
    BY <1>2, <1>3, <1>8 DEF InFlight
  <2>2. TogetherInMemory'
    BY <1>0, <1>8, <2>1, BufferIsWhole
  <2>3. QED
    BY <1>8, <2>2, EndTogether
<1>9. QED
  BY <1>5, <1>6, <1>7, <1>8 DEF Receive, o, t

(* A pending block that a tick flushes is whole, because its logs arrive    *)
(* within a tick.                                                           *)
LEMMA TickTogether ==
    "slow" \notin Conditions /\ BaseInv /\ Together /\ Tick => Together'
<1> SUFFICES ASSUME "slow" \notin Conditions, BaseInv, Together, Tick
             PROVE  Together'
  OBVIOUS
<1>0. UNCHANGED chain /\ torn' = torn /\ wire = <<>> /\ OnWire = {}
  BY DEF Tick, notes, OnWire
<1>1. ASSUME UNCHANGED <<wire, buf, done>> PROVE Together'
  <2>1. UNCHANGED <<chain, wire, buf, seen, published, torn>>
    BY <1>0, <1>1 DEF done
  <2>2. QED
    BY <2>1, StillTogether
<1>2. ASSUME NEW ok \in BOOLEAN, ProcessBatch(buf, pendingBlock, TRUE, ok)
      PROVE  TogetherInMemory'
  BY <1>0, <1>2, BufferIsWhole
<1>3. ASSUME ProcessBatch(buf, pendingBlock, TRUE, TRUE), buf' = {}, UNCHANGED wire
      PROVE  Together'
  <2>1. InFlight' = {}
    BY <1>0, <1>3 DEF InFlight, OnWire
  <2>2. QED
    BY <1>2, <1>3, <2>1 DEF Together, TogetherInFlight
<1>4. ASSUME ProcessBatch(buf, pendingBlock, TRUE, FALSE), EndCycle PROVE Together'
  BY <1>2, <1>4, EndTogether
<1>5. QED
  BY <1>1, <1>3, <1>4 DEF Tick

(* Every step keeps transactions together, while logs are not slow.         *)
LEMMA NextTogether ==
    "slow" \notin Conditions /\ BaseInv /\ Calm /\ Together /\ [Next]_vars => Together'
<1> SUFFICES ASSUME "slow" \notin Conditions, BaseInv, Calm, Together, [Next]_vars
             PROVE  Together'
  OBVIOUS
<1>1. Ordered
  BY DEF Calm
<1>2. CASE UNCHANGED vars \/ ReadHead \/ Subscribe \/ NewHead
  <2>1. UNCHANGED <<chain, wire, buf, seen, published, torn>>
    BY <1>2 DEF vars, ReadHead, Subscribe, NewHead, live, done, notes
  <2>2. QED
    BY <2>1, StillTogether
<1>3. QED
  BY <1>1, <1>2, MineTogether, ReorgTogether, BackfillTogether, ReceiveTogether,
     TickTogether, EndsTogether DEF Next, Step

(* As long as the subscription does not pause in the middle of a block, a  *)
(* trade is made of all the watched fills of its transaction, unless the   *)
(* end of a connection or of the process cut it or its block was replaced. *)
THEOREM WatcherMakesWholeTrades == "slow" \notin Conditions => (Spec => []WholeTrades)
<1> SUFFICES ASSUME "slow" \notin Conditions PROVE Spec => []WholeTrades
  OBVIOUS
<1>1. Init => BaseInv /\ Calm /\ Together
  <2> SUFFICES ASSUME Init PROVE Calm /\ Together
    BY InitBase
  <2>1. InFlight = {} /\ DOMAIN wire = {} /\ pc = "start"
    BY DEF Init, InFlight, OnWire
  <2>2. \A l \in Watched : ~Promised(l)
    BY WatcherAssumption DEF Init, Promised, InChain
  <2>3. seen = {} /\ BagToSet(published) = {}
    BY DEF Init, EmptyBag, SetToBag, BagToSet
  <2>4. QED
    BY <2>1, <2>2, <2>3 DEF Calm, Ordered, NothingMissed, Covered,
       Together, TogetherInFlight, TogetherInMemory
<1>2. BaseInv /\ Calm /\ Together /\ [Next]_vars => (BaseInv /\ Calm /\ Together)'
  BY NextBase, NextCalm, NextTogether
<1>3. Together => WholeTrades
  <2>1. \A l : current[Tx[l]] \cap Watched = Siblings(l)
    BY DEF Siblings
  <2>2. QED
    BY <2>1 DEF WholeTrades, Together, TogetherInMemory, Touched
<1>4. QED
  BY <1>1, <1>2, <1>3, PTL DEF Spec
-----------------------------------------------------------------------------
(* Blocks do not drift far.  Away from the chain's own steps nothing new   *)
(* is noted of a transaction but where it is, and the wire gets shorter.   *)
LEMMA DriftShrinks ==
    ASSUME BaseInv, DriftInv, UNCHANGED mined, UNCHANGED head, Reorgs' = Reorgs,
           \A o \in seen' \cup InFlight' :
              \/ o \in seen \cup InFlight
              \/ o.log \in Logs /\ o.block = mined[o.log],
           wire' = wire \/ wire' = <<>> \/ (wire # <<>> /\ wire' = Tail(wire))
    PROVE  DriftInv'
<1>1. ASSUME NEW l \in Logs, NEW b \in Places(l)' PROVE b \in Places(l)
  <2>1. CASE b = mined'[l]
    BY <2>1 DEF Places
  <2>2. CASE b # mined'[l]
    <3>1. PICK o \in seen' \cup InFlight' : Tx[o.log] = Tx[l] /\ o.block = b
      BY <1>1, <2>2 DEF Places
    <3>2. o.log \in Logs /\ Tx[o.log] = Tx[l] => mined[o.log] = mined[l]
      BY <1>1 DEF BaseInv, ChainInv, TogetherInChain
    <3>3. QED
      BY <2>2, <3>1, <3>2 DEF Places
  <2>3. QED
    BY <2>1, <2>2
<1>2. ASSUME NEW i \in DOMAIN wire', NEW j \in DOMAIN wire', i <= j
      PROVE  \E k, m \in DOMAIN wire : k <= m /\ wire'[i] = wire[k] /\ wire'[j] = wire[m]
  <2>1. CASE wire' = wire
    BY <1>2, <2>1
  <2>2. CASE wire' = <<>>
    BY <1>2, <2>2
  <2>3. CASE wire # <<>> /\ wire' = Tail(wire)
    <3>1. /\ \A k \in DOMAIN wire : k \in Nat
          /\ \A k \in DOMAIN Tail(wire) :
                k + 1 \in DOMAIN wire /\ Tail(wire)[k] = wire[k + 1]
          /\ Tail(wire) \in Seq(Occurrence)
      BY <2>3, TailOfWire DEF BaseInv, FlightInv
    <3>2. i \in Nat /\ j \in Nat
      BY <2>3, <3>1
    <3>3. i + 1 <= j + 1
      BY <1>2, <3>2
    <3>4. QED
      BY <2>3, <3>1, <3>3
  <2>4. QED
    BY <2>1, <2>2, <2>3
<1>3. ASSUME NEW i \in DOMAIN wire' PROVE \E k \in DOMAIN wire : wire'[i] = wire[k]
  <2>1. wire' \in Seq(Occurrence)
    <3>1. wire \in Seq(Occurrence)
      BY DEF BaseInv, FlightInv
    <3>2. CASE wire' = wire
      BY <3>1, <3>2
    <3>3. CASE wire' = <<>>
      BY <3>3
    <3>4. CASE wire # <<>> /\ wire' = Tail(wire)
      BY <3>1, <3>4, TailOfWire
    <3>5. QED
      BY <3>2, <3>3, <3>4
  <2>2. i \in Nat /\ i <= i
    BY <2>1
  <2>3. QED
    BY <1>2, <2>2
<1>4. \A i \in DOMAIN wire' : wire'[i].block >= head' - StreamLag - 1
  BY <1>3 DEF DriftInv
<1>5. \A i, j \in DOMAIN wire' : i <= j => wire'[j].block >= wire'[i].block - 1
  BY <1>2 DEF DriftInv
<1>6. ASSUME NEW l \in Logs, NEW i \in DOMAIN wire', NEW j \in DOMAIN wire', i <= j,
             NEW b \in Places(l)'
      PROVE  LET q == wire'[j] IN Tx[q.log] = Tx[l] =>
                b >= wire'[i].block - Reorgs' /\ b >= head' - StreamLag - Reorgs'
  <2>1. PICK k \in DOMAIN wire, m \in DOMAIN wire :
           k <= m /\ wire'[i] = wire[k] /\ wire'[j] = wire[m]
    BY <1>2, <1>6
  <2>2. b \in Places(l)
    BY <1>1, <1>6
  <2>3. Tx[wire[m].log] = Tx[l] =>
           b >= wire[k].block - Reorgs /\ b >= head - StreamLag - Reorgs
    BY <2>1, <2>2 DEF DriftInv
  <2>4. QED
    BY <2>1, <2>3
<1>7. \A l \in Logs : \A b \in Places(l)' :
         mined'[l] - Reorgs' <= b /\ b <= mined'[l] + Reorgs'
  BY <1>1 DEF DriftInv
<1>8. QED
  BY <1>4, <1>5, <1>6, <1>7 DEF DriftInv

(* The watcher's own steps leave the chain alone, and what they remember   *)
(* or have in flight was there before or is where the chain has it now.    *)
LEMMA StepShrinks ==
    ASSUME BaseInv, Step \/ RpcError \/ Disconnect \/ Stop \/ Crash
    PROVE  /\ UNCHANGED mined /\ UNCHANGED head /\ Reorgs' = Reorgs
           /\ \A o \in seen' \cup InFlight' :
                 \/ o \in seen \cup InFlight
                 \/ o.log \in Logs /\ o.block = mined[o.log]
           /\ wire' = wire \/ wire' = <<>> \/ (wire # <<>> /\ wire' = Tail(wire))
<1> DEFINE Goal ==
              /\ Reorgs' = Reorgs
              /\ \A o \in seen' \cup InFlight' :
                    \/ o \in seen \cup InFlight
                    \/ o.log \in Logs /\ o.block = mined[o.log]
              /\ wire' = wire \/ wire' = <<>> \/ (wire # <<>> /\ wire' = Tail(wire))
<1>1. UNCHANGED mined /\ UNCHANGED head
  BY DEF Step, ReadHead, Backfill, Subscribe, NewHead, Receive, Tick, RpcError,
         Disconnect, Stop, Crash, chain
<1>2. /\ \A kinds : Fail(kinds) /\ "reorg" \notin kinds => Reorgs' = Reorgs
      /\ UNCHANGED failures => Reorgs' = Reorgs
  BY FailAdds DEF BaseInv, FailureInv, Reorgs, BagIn, BagToSet
<1>3. ASSUME NEW B \in SUBSET Occurrence, NEW to, NEW ok, ProcessBatch(B, to, TRUE, ok)
      PROVE  /\ Reorgs' = Reorgs
             /\ \A o \in seen' : o \in seen \cup B
  <2>1. UNCHANGED failures \/ Fail({"save"}) \/ Fail({"publish"})
    BY <1>3 DEF ProcessBatch
  <2>2. "reorg" \notin {"save"} /\ "reorg" \notin {"publish"}
    OBVIOUS
  <2>3. Reorgs' = Reorgs
    BY <1>2, <2>1, <2>2
  <2>4. seen' \subseteq Marked(B) \/ seen' = seen
    BY <1>3 DEF ProcessBatch, PruneBelow
  <2>5. Marked(B) \subseteq seen \cup B
    BY TradesGroup DEF Marked
  <2>6. QED
    BY <2>3, <2>4, <2>5
<1>4. EndCycle => InFlight' = {} /\ wire' = <<>>
  BY DEF EndCycle, InFlight, OnWire
<1>5. ASSUME ReadHead \/ Subscribe \/ NewHead PROVE Goal
  <2>1. UNCHANGED wire /\ UNCHANGED buf /\ UNCHANGED seen /\ UNCHANGED failures
    BY <1>5 DEF ReadHead, Subscribe, NewHead, live, done
  <2>2. QED
    BY <1>2, <2>1 DEF InFlight, OnWire
<1>6. buf \in SUBSET Occurrence /\ buf \subseteq InFlight
  BY DEF BaseInv, FlightInv, InFlight
<1>7. ASSUME Backfill PROVE Goal
  <2> DEFINE B == FilterLogs(from, ChunkEnd)
  <2>1. CASE UNCHANGED <<wire, failures, range, live, done>>
    <3>1. UNCHANGED wire /\ UNCHANGED buf /\ UNCHANGED seen /\ UNCHANGED failures
      BY <2>1 DEF live, done
    <3>2. QED
      BY <1>2, <3>1 DEF InFlight, OnWire
  <2>2. ASSUME from <= upto, NEW ok, ProcessBatch(B, ChunkEnd, TRUE, ok),
               UNCHANGED <<wire, live>> \/ EndCycle
        PROVE  Goal
    <3>1. /\ B \in SUBSET Occurrence
          /\ \A o \in B : o.log \in Logs /\ o.block = mined[o.log]
      <4>1. from \in Int /\ ChunkEnd \in Int
        BY <2>2, ChunkEnds DEF Blocks
      <4>2. QED
        BY <4>1, FilterLogsIsBatch
    <3> HIDE DEF B
    <3>2. Reorgs' = Reorgs /\ \A o \in seen' : o \in seen \cup B
      BY <1>3, <2>2, <3>1
    <3>3. InFlight' \subseteq InFlight /\ (wire' = wire \/ wire' = <<>>)
      BY <1>4, <2>2 DEF InFlight, OnWire, live
    <3>4. QED
      BY <3>1, <3>2, <3>3
  <2>3. QED
    BY <1>7, <2>1, <2>2 DEF Backfill, ChunkEnd
<1>8. ASSUME Receive PROVE Goal
  <2>1. /\ Head(wire) \in OnWire
        /\ {Tail(wire)[i] : i \in DOMAIN Tail(wire)} \subseteq OnWire
        /\ wire # <<>>
    <3>1. wire \in Seq(Occurrence) /\ wire # <<>>
      BY <1>8 DEF Receive, BaseInv, FlightInv
    <3>2. QED
      BY <3>1, TailOfWire
  <2>2. /\ wire' = Tail(wire) \/ wire' = <<>>
        /\ \A r \in buf' : r \in buf \/ r = Head(wire)
    BY <1>8 DEF Receive, EndCycle, live
  <2>3. OnWire' \subseteq OnWire
    <3>1. CASE wire' = Tail(wire)
      BY <2>1, <3>1 DEF OnWire
    <3>2. CASE wire' = <<>>
      BY <3>2 DEF OnWire
    <3>3. QED
      BY <2>2, <3>1, <3>2
  <2>4. InFlight' \subseteq InFlight
    BY <2>1, <2>2, <2>3 DEF InFlight
  <2>5. Reorgs' = Reorgs /\ \A o \in seen' : o \in seen \cup InFlight
    <3>1. CASE UNCHANGED failures /\ UNCHANGED seen
      BY <1>2, <3>1
    <3>2. CASE \E ok : ProcessBatch(buf, pendingBlock, TRUE, ok)
      BY <1>3, <1>6, <3>2
    <3>3. QED
      BY <1>8, <3>1, <3>2 DEF Receive, done
  <2>6. QED
    BY <2>1, <2>2, <2>4, <2>5
<1>9. ASSUME Tick PROVE Goal
  <2>1. /\ wire' = wire \/ wire' = <<>>
        /\ buf' \subseteq buf
    BY <1>9 DEF Tick, EndCycle
  <2>2. InFlight' \subseteq InFlight
    BY <2>1 DEF InFlight, OnWire
  <2>3. Reorgs' = Reorgs /\ \A o \in seen' : o \in seen \cup InFlight
    <3>1. CASE UNCHANGED failures /\ UNCHANGED seen
      BY <1>2, <3>1
    <3>2. CASE \E ok : ProcessBatch(buf, pendingBlock, TRUE, ok)
      BY <1>3, <1>6, <3>2
    <3>3. QED
      BY <1>9, <3>1, <3>2 DEF Tick, done
  <2>4. QED
    BY <2>1, <2>2, <2>3
<1>10. ASSUME RpcError \/ Disconnect \/ Stop \/ Crash PROVE Goal
  <2>1. EndCycle
    BY <1>10 DEF RpcError, Disconnect, Stop, Crash
  <2>2. \E kinds : Fail(kinds) /\ "reorg" \notin kinds
    BY <1>10 DEF RpcError, Disconnect, LastFlush, Stop, Crash
  <2>3. seen' = {} \/ seen' = seen \/ seen' = Marked(buf)
    BY <1>10 DEF RpcError, Disconnect, LastFlush, Stop, Crash, done
  <2>4. \A o \in seen' : o \in seen \cup InFlight
    BY <1>6, <2>3, TradesGroup DEF Marked
  <2>5. QED
    BY <1>2, <1>4, <2>1, <2>2, <2>4
<1>11. QED
  BY <1>1, <1>5, <1>7, <1>8, <1>9, <1>10 DEF Step

(* What the arithmetic of the drift needs to know.                         *)
LEMMA DriftNumbers ==
    ASSUME BaseInv
    PROVE  /\ head \in Nat /\ StreamLag \in Nat /\ StreamLag >= 1 /\ Reorgs \in Nat
           /\ \A l \in Logs : mined[l] \in Nat /\ mined[l] <= head
           /\ \A l \in Logs : \A b \in Places(l) : b \in Nat /\ b <= head
           /\ \A l \in Logs : mined[l] = 0 =>
                 \A o \in seen \cup InFlight : Tx[o.log] # Tx[l]
           /\ \A i \in DOMAIN wire :
                 wire[i].block \in Nat /\ wire[i].block <= head /\ wire[i].log \in Logs
<1>1. ReorgDepth \in Nat /\ StreamLag \in Nat /\ StreamLag >= 1
  BY WatcherAssumption
<1>2. Reorgs \in Nat
  BY ReorgsCounted DEF BaseInv, FailureInv
<1>3. /\ head \in Nat
      /\ \A l \in Logs : mined[l] \in Nat /\ mined[l] <= head
      /\ \A o \in Occurrence : o.log \in Logs /\ o.block \in Nat
      /\ \A o \in InFlight : o \in Occurrence
      /\ \A i \in DOMAIN wire : i \in Nat /\ wire[i] \in InFlight
  BY Numbers
<1>4. \A o \in seen \cup InFlight :
         o \in Occurrence /\ mined[o.log] # 0 /\ o.block <= head
  BY <1>3 DEF BaseInv, FlightInv, MemoryInv, Placed
<1>5. \A l \in Logs : \A b \in Places(l) : b \in Nat /\ b <= head
  BY <1>3, <1>4 DEF Places
<1>6. \A l \in Logs : mined[l] = 0 => \A o \in seen \cup InFlight : Tx[o.log] # Tx[l]
  BY <1>3, <1>4 DEF BaseInv, ChainInv, TogetherInChain
<1>7. QED
  BY <1>1, <1>2, <1>3, <1>4, <1>5, <1>6

(* What is not far behind something that is not far behind the head.       *)
LEMMA Behind ==
    \A b, c, h, s, r \in Int : b >= c - r /\ c >= h - s => b >= h - s - r
  OBVIOUS

(* How the node's word of the last blocks comes onto the wire.             *)
LEMMA WireGrows ==
    ASSUME BaseInv, NEW B \in SUBSET Occurrence, Deliver(B)
    PROVE  /\ \A i \in DOMAIN wire' \ DOMAIN wire : wire'[i] \in B
           /\ \A i \in DOMAIN wire : i \in DOMAIN wire' /\ wire'[i] = wire[i]
           /\ \A i \in DOMAIN wire, j \in DOMAIN wire' \ DOMAIN wire : i < j
           /\ \A i, j \in DOMAIN wire' \ DOMAIN wire :
                 i <= j => wire'[i].block <= wire'[j].block
           /\ OnWire' \subseteq OnWire \cup B
           /\ \A i \in DOMAIN wire : i \in Nat /\ i >= 1 /\ 1 \in DOMAIN wire /\ wire # <<>>
           /\ \A i \in DOMAIN wire' : i \in Nat
<1>1. wire \in Seq(Occurrence)
  BY DEF BaseInv, FlightInv
<1>2. \A i \in DOMAIN wire : i \in Nat /\ i >= 1 /\ 1 \in DOMAIN wire /\ wire # <<>>
  BY <1>1
<1>3. CASE Subscribed
  <2>1. /\ wire' \in Seq(Occurrence)
        /\ \A i \in DOMAIN wire' \ DOMAIN wire : wire'[i] \in B
        /\ \A i \in DOMAIN wire : i \in DOMAIN wire' /\ wire'[i] = wire[i]
        /\ \A i \in DOMAIN wire, j \in DOMAIN wire' \ DOMAIN wire : i < j
        /\ \A i, j \in DOMAIN wire' \ DOMAIN wire :
              i <= j => wire'[i].block <= wire'[j].block
        /\ OnWire' \subseteq OnWire \cup B
    BY <1>1, <1>3, DeliverAppends
  <2>2. \A i \in DOMAIN wire' : i \in Nat
    BY <2>1
  <2>3. QED
    BY <1>2, <2>1, <2>2
<1>4. CASE ~Subscribed
  BY <1>1, <1>2, <1>4 DEF Deliver, OnWire
<1>5. QED
  BY <1>3, <1>4

(* A new block moves no transaction that was mined, and the head rises     *)
(* with it.                                                                *)
LEMMA MineDrift == BaseInv /\ DriftInv /\ Mine => DriftInv'
<1> SUFFICES ASSUME BaseInv, DriftInv, Mine PROVE DriftInv'
  OBVIOUS
<1>1. PICK U \in SUBSET Transactions :
         /\ \A l \in Logs : Tx[l] \in U => mined[l] = 0
         /\ mined' = [l \in Logs |-> IF Tx[l] \in U THEN head + 1 ELSE mined[l]]
  BY MineMoves
<1>2. /\ head' = head + 1 /\ UNCHANGED buf /\ UNCHANGED seen /\ Reorgs' = Reorgs
      /\ wire # <<>> => head - Head(wire).block < StreamLag
      /\ Deliver(Answer(mined', current', Reorgs', head', head'))
  BY MineMoves DEF Mine, live, done
<1>4. /\ head \in Nat /\ StreamLag \in Nat /\ StreamLag >= 1 /\ Reorgs \in Nat
      /\ \A l \in Logs : mined[l] \in Nat /\ mined[l] <= head
      /\ \A l \in Logs : \A b \in Places(l) : b \in Nat /\ b <= head
      /\ \A l \in Logs : mined[l] = 0 =>
            \A o \in seen \cup InFlight : Tx[o.log] # Tx[l]
      /\ \A i \in DOMAIN wire :
            wire[i].block \in Nat /\ wire[i].block <= head /\ wire[i].log \in Logs
  BY DriftNumbers
<1> DEFINE B == Answer(mined', current', Reorgs', head', head')
<1>5. /\ B \in SUBSET Occurrence
      /\ \A o \in B : o.log \in Logs /\ Tx[o.log] \in U /\ o.block = head + 1
  <2>1. ChainInv' /\ FailureInv' /\ head' \in Int /\ head' <= head'
    BY <1>2, <1>4, MineBase DEF BaseInv
  <2>2. /\ B \in SUBSET Occurrence
        /\ \A o \in B : o.log \in Logs /\ o.block = mined'[o.log] /\ head' <= o.block
                        /\ o.block <= head'
    BY <2>1, SentArePlaced
  <2> HIDE DEF B
  <2>3. ASSUME NEW o \in B PROVE Tx[o.log] \in U /\ o.block = head + 1
    <3>1. o.log \in Logs /\ mined'[o.log] >= head + 1
      BY <1>2, <2>2, <2>3
    <3>2. mined[o.log] \in Nat /\ mined[o.log] <= head
      BY <1>4, <3>1
    <3>3. mined'[o.log] # mined[o.log]
      BY <1>4, <3>1, <3>2
    <3>4. mined'[o.log] = IF Tx[o.log] \in U THEN head + 1 ELSE mined[o.log]
      BY <1>1, <3>1
    <3>5. QED
      BY <2>2, <2>3, <3>3, <3>4
  <2>4. QED
    BY <2>2, <2>3
<1> HIDE DEF B
<1>6. /\ \A i \in DOMAIN wire' \ DOMAIN wire : wire'[i] \in B
      /\ \A i \in DOMAIN wire : i \in DOMAIN wire' /\ wire'[i] = wire[i]
      /\ \A i \in DOMAIN wire, j \in DOMAIN wire' \ DOMAIN wire : i < j
      /\ OnWire' \subseteq OnWire \cup B
      /\ \A i \in DOMAIN wire : i \in Nat /\ i >= 1 /\ 1 \in DOMAIN wire /\ wire # <<>>
      /\ \A i \in DOMAIN wire' : i \in Nat
  <2>1. Deliver(B)
    BY <1>2 DEF B
  <2>2. QED
    BY <1>5, <2>1, WireGrows
<1>7. ASSUME NEW l \in Logs, NEW b \in Places(l)'
      PROVE  \/ Tx[l] \notin U /\ b \in Places(l) /\ mined'[l] = mined[l]
             \/ Tx[l] \in U /\ b = head + 1 /\ mined'[l] = head + 1
  <2>1. \/ b = mined'[l]
        \/ \E o \in seen \cup InFlight \cup B : Tx[o.log] = Tx[l] /\ o.block = b
    BY <1>2, <1>6, <1>7 DEF Places, InFlight
  <2>2. CASE Tx[l] \in U
    <3>1. \A o \in seen \cup InFlight : Tx[o.log] # Tx[l]
      BY <1>1, <1>4, <2>2
    <3>2. mined'[l] = head + 1
      BY <1>1, <2>2
    <3>3. QED
      BY <1>5, <2>1, <2>2, <3>1, <3>2
  <2>3. CASE Tx[l] \notin U
    <3>1. mined'[l] = mined[l]
      BY <1>1, <2>3
    <3>2. \A o \in B : Tx[o.log] # Tx[l]
      BY <1>5, <2>3
    <3>3. QED
      BY <2>1, <2>3, <3>1, <3>2 DEF Places
  <2>4. QED
    BY <2>2, <2>3
<1>8. \A l \in Logs : \A b \in Places(l)' :
         mined'[l] - Reorgs' <= b /\ b <= mined'[l] + Reorgs'
  BY <1>2, <1>4, <1>7 DEF DriftInv
<1>9. ASSUME NEW i \in DOMAIN wire PROVE wire[1].block >= head' - StreamLag
  <2>1. wire[1] = Head(wire) /\ wire[1].block \in Nat
    BY <1>4, <1>6, TailOfWire DEF BaseInv, FlightInv
  <2>2. QED
    BY <1>2, <1>4, <1>6, <2>1
<1>10. ASSUME NEW i \in DOMAIN wire' PROVE wire'[i].block >= head' - StreamLag - 1
  <2>1. CASE i \in DOMAIN wire
    <3>1. wire[i].block >= wire[1].block - 1
      BY <1>6, <2>1 DEF DriftInv
    <3>2. wire[1].block >= head' - StreamLag
      BY <1>9, <2>1
    <3>3. wire'[i] = wire[i] /\ wire[i].block \in Int /\ wire[1].block \in Int
      BY <1>4, <1>6, <2>1
    <3>4. head' \in Int /\ StreamLag \in Int
      BY <1>2, <1>4
    <3>5. QED
      BY <3>1, <3>2, <3>3, <3>4, Behind
  <2>2. CASE i \notin DOMAIN wire
    BY <1>2, <1>4, <1>5, <1>6, <2>2
  <2>3. QED
    BY <2>1, <2>2
<1>11. ASSUME NEW i \in DOMAIN wire', NEW j \in DOMAIN wire', i <= j
       PROVE  wire'[j].block >= wire'[i].block - 1
  <2>1. CASE j \in DOMAIN wire
    <3>1. i \in DOMAIN wire
      BY <1>6, <1>11, <2>1
    <3>2. QED
      BY <1>6, <1>11, <2>1, <3>1 DEF DriftInv
  <2>2. CASE j \notin DOMAIN wire
    <3>1. wire'[j].block = head + 1
      BY <1>5, <1>6, <2>2
    <3>2. wire'[i].block \in Nat /\ wire'[i].block <= head + 1
      BY <1>4, <1>5, <1>6
    <3>3. QED
      BY <1>4, <3>1, <3>2
  <2>3. QED
    BY <2>1, <2>2
<1>12. ASSUME NEW l \in Logs, NEW i \in DOMAIN wire', NEW j \in DOMAIN wire', i <= j,
              NEW q, q = wire'[j], Tx[q.log] = Tx[l], NEW b \in Places(l)'
       PROVE  b >= wire'[i].block - Reorgs' /\ b >= head' - StreamLag - Reorgs'
  <2>1. CASE j \in DOMAIN wire
    <3>1. i \in DOMAIN wire /\ Tx[wire[j].log] = Tx[l]
      BY <1>6, <1>12, <2>1
    <3>2. Tx[l] \notin U
      <4>1. wire[j] \in InFlight
        BY <2>1 DEF InFlight, OnWire
      <4>2. mined[l] # 0
        BY <1>4, <3>1, <4>1
      <4>3. QED
        BY <1>1, <4>2
    <3>3. b \in Places(l) /\ b \in Nat
      BY <1>4, <1>7, <1>12, <3>2
    <3>4. b >= wire[i].block - Reorgs
      BY <1>12, <2>1, <3>1, <3>3 DEF DriftInv
    <3>5. b >= wire[1].block - Reorgs
      <4>1. 1 \in DOMAIN wire /\ 1 <= j
        BY <1>6, <2>1
      <4>2. QED
        BY <2>1, <3>1, <3>3, <4>1 DEF DriftInv
    <3>6. wire[1].block \in Nat
      BY <1>4, <1>6, <2>1
    <3>7. wire[1].block >= head' - StreamLag
      BY <1>9, <2>1
    <3>8. wire'[i] = wire[i] /\ wire[i].block \in Nat
      BY <1>4, <1>6, <3>1
    <3>9. head' \in Nat /\ StreamLag \in Nat /\ Reorgs \in Nat /\ Reorgs' = Reorgs
      BY <1>2, <1>4
    <3>10. b >= wire'[i].block - Reorgs'
      BY <3>4, <3>8, <3>9
    <3>11. b >= head' - StreamLag - Reorgs'
      <4> DEFINE c == wire[1].block
      <4>1. b \in Int /\ c \in Int /\ head' \in Int /\ StreamLag \in Int /\ Reorgs \in Int
        BY <3>3, <3>6, <3>9
      <4>2. b >= c - Reorgs /\ c >= head' - StreamLag
        BY <3>5, <3>7
      <4> HIDE DEF c
      <4>3. b >= head' - StreamLag - Reorgs
        BY <4>1, <4>2, Behind
      <4>4. QED
        BY <4>3, <3>9
    <3>12. QED
      BY <3>10, <3>11
  <2>2. CASE j \notin DOMAIN wire
    <3>1. Tx[l] \in U
      BY <1>5, <1>6, <1>12, <2>2
    <3>2. b = head + 1
      BY <1>7, <1>12, <3>1
    <3>3. wire'[i].block \in Nat /\ wire'[i].block <= head + 1
      BY <1>4, <1>5, <1>6
    <3>4. QED
      BY <1>2, <1>4, <3>2, <3>3
  <2>3. QED
    BY <2>1, <2>2
<1>14. QED
  BY <1>8, <1>10, <1>11, <1>12 DEF DriftInv

(* A reorganisation moves a transaction by at most one block, and is       *)
(* counted.                                                                *)
LEMMA ReorgDrift == BaseInv /\ DriftInv /\ Reorg => DriftInv'
<1> SUFFICES ASSUME BaseInv, DriftInv, Reorg PROVE DriftInv'
  OBVIOUS
<1>1. BaseInv'
  BY ReorgBase
<1>2. /\ UNCHANGED head /\ UNCHANGED buf /\ UNCHANGED seen /\ head > 1
      /\ Deliver(Answer(mined', current', Reorgs', head' - 1, head'))
      /\ Reorgs' = Reorgs + 1
  BY ReorgMoves DEF live, done
<1>4. /\ head \in Nat /\ StreamLag \in Nat /\ StreamLag >= 1 /\ Reorgs \in Nat
      /\ \A l \in Logs : mined[l] \in Nat /\ mined[l] <= head
      /\ \A l \in Logs : \A p \in Places(l) : p \in Nat /\ p <= head
      /\ \A l \in Logs : mined[l] = 0 =>
            \A o \in seen \cup InFlight : Tx[o.log] # Tx[l]
      /\ \A i \in DOMAIN wire :
            wire[i].block \in Nat /\ wire[i].block <= head /\ wire[i].log \in Logs
  BY DriftNumbers
<1> DEFINE B == Answer(mined', current', Reorgs', head' - 1, head')
<1>5. /\ B \in SUBSET Occurrence
      /\ \A o \in B : /\ o.block = mined'[o.log] /\ o.log \in Logs
                      /\ head - 1 <= o.block /\ o.block <= head /\ o.block \in Nat
  <2>1. ChainInv' /\ FailureInv' /\ head' - 1 \in Int /\ head' \in Int /\ head' <= head'
    BY <1>1, <1>2, <1>4 DEF BaseInv
  <2>2. /\ B \in SUBSET Occurrence
        /\ \A o \in B : o.block = mined'[o.log] /\ o.log \in Logs
                        /\ head' - 1 <= o.block /\ o.block <= head'
    BY <2>1, SentArePlaced
  <2>3. \A o \in Occurrence : o.block \in Nat
    BY Numbers
  <2>4. QED
    BY <1>2, <2>2, <2>3
<1> HIDE DEF B
<1>6. /\ \A i \in DOMAIN wire' \ DOMAIN wire : wire'[i] \in B
      /\ \A i \in DOMAIN wire : i \in DOMAIN wire' /\ wire'[i] = wire[i]
      /\ \A i \in DOMAIN wire, j \in DOMAIN wire' \ DOMAIN wire : i < j
      /\ \A i, j \in DOMAIN wire' \ DOMAIN wire :
            i <= j => wire'[i].block <= wire'[j].block
      /\ OnWire' \subseteq OnWire \cup B
      /\ \A i \in DOMAIN wire' : i \in Nat
  <2>1. Deliver(B)
    BY <1>2 DEF B
  <2>2. QED
    BY <1>5, <2>1, WireGrows
<1>8. ASSUME NEW l \in Logs
      PROVE  /\ mined'[l] \in Nat
             /\ \/ mined'[l] = mined[l]
                \/ /\ mined[l] = 0 \/ mined[l] \in {head - 1, head}
                   /\ mined'[l] \in {head - 1, head}
  <2>1. mined'[l] # mined[l] =>
           mined'[l] \in {head - 1, head} /\ mined[l] \in {0, head - 1, head}
    BY ReorgLeavesTheOthers
  <2>2. QED
    BY <1>2, <1>4, <2>1
(* A transaction is where it was, or within the last two blocks; and so    *)
(* was it before if it was mined at all.                                   *)
<1>7. ASSUME NEW l \in Logs, NEW p \in Places(l)'
      PROVE  p \in Nat /\ (p \in Places(l) \/ (p >= head - 1 /\ p = mined'[l]))
  <2>1. \/ p = mined'[l]
        \/ \E o \in seen \cup InFlight \cup B : Tx[o.log] = Tx[l] /\ o.block = p
    BY <1>2, <1>6, <1>7 DEF Places, InFlight
  <2>2. CASE p = mined'[l]
    <3>1. mined[l] \in Places(l)
      BY DEF Places
    <3>2. QED
      BY <1>2, <1>4, <1>8, <2>2, <3>1
  <2>3. CASE \E o \in seen \cup InFlight : Tx[o.log] = Tx[l] /\ o.block = p
    BY <1>4, <2>3 DEF Places
  <2>4. CASE \E o \in B : Tx[o.log] = Tx[l] /\ o.block = p
    <3>1. \A k \in Logs : Tx[k] = Tx[l] => mined'[k] = mined'[l]
      BY <1>1 DEF BaseInv, ChainInv, TogetherInChain
    <3>2. QED
      BY <1>5, <2>4, <3>1
  <2>5. QED
    BY <2>1, <2>2, <2>3, <2>4
<1>9. ASSUME NEW l \in Logs, NEW p \in Places(l)'
      PROVE  mined'[l] - Reorgs' <= p /\ p <= mined'[l] + Reorgs'
  <2>1. p \in Nat /\ mined[l] \in Nat /\ mined'[l] \in Nat
    BY <1>4, <1>7, <1>8, <1>9
  <2>2. CASE p = mined'[l]
    BY <1>2, <1>4, <2>1, <2>2
  <2>3. CASE p # mined'[l]
    <3>1. p \in Places(l)
      BY <1>7, <1>9, <2>3
    <3>2. mined[l] - Reorgs <= p /\ p <= mined[l] + Reorgs
      BY <3>1 DEF DriftInv
    <3>3. CASE mined'[l] = mined[l]
      BY <1>2, <1>4, <2>1, <3>2, <3>3
    <3>4. CASE mined[l] \in {head - 1, head} /\ mined'[l] \in {head - 1, head}
      BY <1>2, <1>4, <2>1, <3>2, <3>4
    <3>5. CASE mined[l] = 0 /\ mined'[l] # mined[l]
      <4>1. \A o \in seen \cup InFlight : Tx[o.log] # Tx[l]
        BY <1>4, <3>5
      <4>2. \/ p = mined'[l]
            \/ \E o \in B : Tx[o.log] = Tx[l] /\ o.block = p
        BY <1>2, <1>6, <1>9, <4>1 DEF Places, InFlight
      <4>3. \A k \in Logs : Tx[k] = Tx[l] => mined'[k] = mined'[l]
        BY <1>1 DEF BaseInv, ChainInv, TogetherInChain
      <4>4. QED
        BY <1>5, <2>3, <4>2, <4>3
    <3>6. QED
      BY <1>8, <3>3, <3>4, <3>5
  <2>4. QED
    BY <2>2, <2>3
<1>10. \A i \in DOMAIN wire' : wire'[i].block \in Nat /\ wire'[i].block <= head
  BY <1>4, <1>5, <1>6
<1>11. ASSUME NEW i \in DOMAIN wire' PROVE wire'[i].block >= head' - StreamLag - 1
  <2>1. CASE i \in DOMAIN wire
    BY <1>2, <1>6, <2>1 DEF DriftInv
  <2>2. CASE i \notin DOMAIN wire
    BY <1>2, <1>4, <1>5, <1>6, <2>2
  <2>3. QED
    BY <2>1, <2>2
<1>12. ASSUME NEW i \in DOMAIN wire', NEW j \in DOMAIN wire', i <= j
       PROVE  wire'[j].block >= wire'[i].block - 1
  <2>1. CASE j \in DOMAIN wire
    <3>1. i \in DOMAIN wire
      BY <1>6, <1>12, <2>1
    <3>2. QED
      BY <1>6, <1>12, <2>1, <3>1 DEF DriftInv
  <2>2. CASE j \notin DOMAIN wire
    <3>1. wire'[j].block >= head - 1
      BY <1>5, <1>6, <2>2
    <3>2. QED
      BY <1>4, <1>10, <3>1
  <2>3. QED
    BY <2>1, <2>2
<1>13. ASSUME NEW l \in Logs, NEW i \in DOMAIN wire', NEW j \in DOMAIN wire', i <= j,
              NEW q, q = wire'[j], Tx[q.log] = Tx[l], NEW p \in Places(l)'
       PROVE  p >= wire'[i].block - Reorgs' /\ p >= head' - StreamLag - Reorgs'
  <2>1. p \in Nat /\ wire'[i].block \in Nat /\ wire'[i].block <= head
    BY <1>7, <1>10, <1>13
  <2>2. CASE p >= head - Reorgs'
    <3>1. Reorgs' \in Nat /\ StreamLag \in Nat /\ head \in Nat /\ head' = head
      BY <1>2, <1>4
    <3>2. ASSUME NEW r \in Nat, NEW h \in Nat, NEW s \in Nat, NEW w \in Nat,
                 NEW y \in Nat, y >= h - r, w <= h
          PROVE  y >= w - r /\ y >= h - s - r
      BY <3>2
    <3>3. p >= wire'[i].block - Reorgs' /\ p >= head - StreamLag - Reorgs'
      BY <2>1, <2>2, <3>1, <3>2
    <3>4. QED
      BY <3>1, <3>3
  <2>3. CASE ~(p >= head - Reorgs')
    <3>0. p < head - 1
      <4>1. Reorgs' \in Nat /\ Reorgs' >= 1
        BY <1>2, <1>4
      <4>2. head \in Nat /\ p \in Nat
        BY <1>4, <2>1
      <4>3. ASSUME NEW r \in Nat, NEW h \in Nat, NEW y \in Nat, r >= 1, ~(y >= h - r)
            PROVE  y < h - 1
        BY <4>3
      <4>4. QED
        BY <2>3, <4>1, <4>2, <4>3
    <3>1. p \in Places(l)
      BY <1>4, <1>7, <1>13, <2>1, <3>0
    <3>2. CASE j \in DOMAIN wire
      <4>1. i \in DOMAIN wire /\ Tx[wire[j].log] = Tx[l] /\ wire'[i] = wire[i]
        BY <1>6, <1>13, <3>2
      <4>2. p >= wire[i].block - Reorgs /\ p >= head - StreamLag - Reorgs
        BY <1>13, <3>1, <3>2, <4>1 DEF DriftInv
      <4>3. QED
        BY <1>2, <1>4, <2>1, <4>1, <4>2
    <3>3. CASE j \notin DOMAIN wire
      <4>1. mined'[l] \in Nat /\ mined'[l] >= head - 1
        <5>1. q \in B /\ q.log \in Logs /\ q.block = mined'[q.log] /\ q.block >= head - 1
          BY <1>4, <1>5, <1>6, <1>13, <3>3
        <5>2. \A k \in Logs : Tx[k] = Tx[l] => mined'[k] = mined'[l]
          BY <1>1 DEF BaseInv, ChainInv, TogetherInChain
        <5>3. QED
          BY <1>8, <1>13, <5>1, <5>2
      <4>2. CASE mined[l] = 0 /\ mined'[l] # mined[l]
        <5>1. p # mined'[l]
          BY <1>4, <2>1, <3>0, <4>1
        <5>2. \A o \in seen \cup InFlight : Tx[o.log] # Tx[l]
          BY <1>4, <4>2
        <5>3. \/ p = mined'[l]
              \/ \E o \in B : Tx[o.log] = Tx[l] /\ o.block = p
          BY <1>2, <1>6, <1>13, <5>2 DEF Places, InFlight
        <5>4. \A k \in Logs : Tx[k] = Tx[l] => mined'[k] = mined'[l]
          BY <1>1 DEF BaseInv, ChainInv, TogetherInChain
        <5>5. QED
          BY <1>5, <5>1, <5>3, <5>4
      <4>3. CASE mined[l] >= head - 1
        <5>1. p >= mined[l] - Reorgs
          BY <3>1 DEF DriftInv
        <5>2. mined[l] \in Nat
          BY <1>4
        <5>3. QED
          BY <1>2, <1>4, <2>1, <2>3, <4>3, <5>1, <5>2
      <4>4. mined'[l] = mined[l] \/ mined[l] = 0 \/ mined[l] >= head - 1
        BY <1>4, <1>8
      <4>5. QED
        BY <4>1, <4>2, <4>3, <4>4
    <3>4. QED
      BY <3>2, <3>3
  <2>4. QED
    BY <2>2, <2>3
<1>14. QED
  BY <1>9, <1>11, <1>12, <1>13 DEF DriftInv

(* Every step keeps a transaction's places within as many blocks of one    *)
(* another as there were reorganisations.                                  *)
LEMMA NextDrift == BaseInv /\ DriftInv /\ [Next]_vars => DriftInv'
<1> SUFFICES ASSUME BaseInv, DriftInv, [Next]_vars PROVE DriftInv'
  OBVIOUS
<1>1. CASE UNCHANGED vars
  <2>1. /\ UNCHANGED mined /\ UNCHANGED head /\ UNCHANGED wire /\ UNCHANGED buf
        /\ UNCHANGED seen /\ UNCHANGED failures
    BY <1>1 DEF vars, chain, live, done
  <2>2. InFlight' = InFlight /\ Reorgs' = Reorgs
    BY <2>1 DEF InFlight, OnWire, Reorgs
  <2>3. QED
    BY <2>1, <2>2, DriftShrinks
<1>2. CASE Step \/ RpcError \/ Disconnect \/ Stop \/ Crash
  BY <1>2, StepShrinks, DriftShrinks
<1>3. QED
  BY <1>1, <1>2, MineDrift, ReorgDrift DEF Next
-----------------------------------------------------------------------------
(* Nothing is repeated.  What was published are watched logs that were     *)
(* sent.                                                                   *)
LEMMA EmittedArePlaced ==
    ASSUME BaseInv
    PROVE  /\ \A o \in Emitted : o \in Occurrence /\ o.log \in Logs /\ Placed(o)
           /\ \A o \in seen : o \in Occurrence /\ o.log \in Logs
           /\ \A l, k \in Logs : Key(l) = Key(k) => mined[l] = mined[k] /\ Tx[l] = Tx[k]
<1>1. \A o \in Emitted : o \in Occurrence /\ Placed(o)
  BY DEF BaseInv, MemoryInv, Emitted
<1>2. \A o \in Occurrence : o.log \in Logs
  BY Numbers
<1>3. \A o \in seen : o \in Occurrence
  BY DEF BaseInv, MemoryInv
<1>4. \A l, k \in Logs : Key(l) = Key(k) => mined[l] = mined[k] /\ Tx[l] = Tx[k]
  BY DEF Key, BaseInv, ChainInv, TogetherInChain
<1>5. QED
  BY <1>1, <1>2, <1>3, <1>4

(* A batch adds trades of keys not yet published, when those of its keys   *)
(* that were published are known to be.                                    *)
LEMMA DigestOnce ==
    ASSUME BaseInv, Single, NEW B, Publish(Trades(B)), KnownIn(B)
    PROVE  Single' /\ Emitted' = Emitted \cup Fresh(B)
<1>1. /\ Fresh(B) \subseteq B
      /\ \A o \in Fresh(B) : o.log \in Watched /\ Key(o.log) \notin SeenKeys
      /\ \A T \in Trades(B) : T \subseteq Fresh(B) /\ T # {}
      /\ \A o \in Fresh(B) : \E T \in Trades(B) : o \in T
      /\ \A T \in Trades(B) : \A o \in T, r \in Fresh(B) :
            r \in T <=> Tx[r.log] = Tx[o.log]
  BY TradesGroup
<1>2. \A o \in Fresh(B) : \A r \in Emitted : Key(o.log) # Key(r.log)
  BY <1>1 DEF KnownIn
<1>3. /\ BagToSet(published') = BagToSet(published) \cup Trades(B)
      /\ \A U \in BagToSet(published) \ Trades(B) : published'[U] = published[U]
      /\ \A U \in Trades(B) \ BagToSet(published) : published'[U] = 1
  BY PublishAdds DEF BaseInv, MemoryInv
<1>4. \A T \in BagToSet(published) : T \subseteq Emitted
  BY DEF Emitted
<1>5. \A T \in Trades(B) : T \notin BagToSet(published)
  BY <1>1, <1>2, <1>4
<1>6. ASSUME NEW T \in BagToSet(published'), NEW U \in BagToSet(published'),
             NEW o \in T, NEW r \in U, Key(o.log) = Key(r.log)
      PROVE  T = U
  <2>1. CASE T \in BagToSet(published) /\ U \in BagToSet(published)
    BY <1>6, <2>1 DEF Single
  <2>2. CASE T \in Trades(B) /\ U \in Trades(B)
    <3>1. Tx[o.log] = Tx[r.log]
      BY <1>6 DEF Key
    <3>2. \A q \in Fresh(B) : q \in T <=> q \in U
      BY <1>1, <1>6, <2>2, <3>1
    <3>3. QED
      BY <1>1, <2>2, <3>2
  <2>3. CASE T \in Trades(B) /\ U \in BagToSet(published)
    BY <1>1, <1>2, <1>4, <1>6, <2>3
  <2>4. CASE T \in BagToSet(published) /\ U \in Trades(B)
    BY <1>1, <1>2, <1>4, <1>6, <2>4
  <2>5. QED
    BY <1>3, <2>1, <2>2, <2>3, <2>4
<1>7. ASSUME NEW T \in BagToSet(published') PROVE published'[T] = 1
  <2>1. CASE T \in BagToSet(published)
    BY <1>3, <1>5, <2>1 DEF Single
  <2>2. CASE T \in Trades(B)
    BY <1>3, <1>5, <2>2
  <2>3. QED
    BY <1>3, <2>1, <2>2
<1>8. Emitted' = Emitted \cup Fresh(B)
  <2>1. Emitted' = UNION BagToSet(published')
    BY DEF Emitted
  <2>2. UNION Trades(B) = Fresh(B)
    BY <1>1
  <2>3. QED
    BY <1>3, <2>1, <2>2 DEF Emitted
<1>9. QED
  BY <1>6, <1>7, <1>8 DEF Single

(* Pruning forgets only what is left behind.  The depth of the memory      *)
(* covers the lag of the subscription and the reorganisations together.    *)
LEMMA PruneForgetsNothingNear ==
    ASSUME BaseInv, DriftInv, MaxReorgs + StreamLag <= ReorgDepth, NEW o \in Occurrence,
           o.block \in Places(o.log), NEW to \in Nat, to <= head,
           ~(o.block >= to - ReorgDepth)
    PROVE  /\ mined[o.log] <= to /\ mined[o.log] <= head - 2
           /\ \A r \in OnWire : mined[o.log] <= r.block /\ Tx[r.log] # Tx[o.log]
<1>1. ReorgDepth \in Nat /\ MaxReorgs \in Nat
  BY WatcherAssumption
<1>2. /\ head \in Nat /\ StreamLag \in Nat /\ StreamLag >= 1 /\ Reorgs \in Nat
      /\ o.log \in Logs /\ mined[o.log] \in Nat /\ o.block \in Nat
      /\ \A i \in DOMAIN wire : wire[i].block \in Nat /\ i \in Nat
  BY DriftNumbers, Numbers
<1>3. mined[o.log] <= o.block + Reorgs /\ Reorgs <= MaxReorgs
  <2>1. mined[o.log] - Reorgs <= o.block
    BY <1>2 DEF DriftInv
  <2>2. Reorgs <= MaxReorgs
    BY DEF BaseInv, FailureInv
  <2>3. QED
    BY <1>2, <2>1, <2>2
<1>4. o.block + Reorgs < to - StreamLag
  BY <1>1, <1>2, <1>3
<1>5. mined[o.log] <= head - StreamLag - 1 /\ mined[o.log] <= to
      /\ mined[o.log] <= head - 2
  BY <1>2, <1>3, <1>4
<1>6. ASSUME NEW i \in DOMAIN wire PROVE mined[o.log] <= wire[i].block
  <2>1. wire[i].block >= head - StreamLag - 1
    BY DEF DriftInv
  <2>2. QED
    BY <1>2, <1>5, <2>1
<1>7. ASSUME NEW i \in DOMAIN wire, Tx[wire[i].log] = Tx[o.log] PROVE FALSE
  <2>1. i <= i
    BY <1>2
  <2>2. o.block >= head - StreamLag - Reorgs
    BY <1>2, <1>7, <2>1 DEF DriftInv
  <2>3. QED
    BY <1>2, <1>4, <2>2
<1>8. QED
  BY <1>5, <1>6, <1>7 DEF OnWire

(* A batch whose published keys are all remembered publishes nothing twice,*)
(* and forgets only what is too deep to come back.                         *)
LEMMA BatchOnce ==
    ASSUME BaseInv, DriftInv, MaxReorgs + StreamLag <= ReorgDepth, Once,
           NEW B, GoodBatch(B), NEW to \in Nat, to <= head,
           ProcessBatch(B, to, TRUE, TRUE), UNCHANGED mined, UNCHANGED head,
           \A o \in B : o.block \in Places(o.log),
           KnownIn(B),
           \A l \in Logs : LeftBehind(l) => mined[l] <= to,
           InFlight' \subseteq OnWire,
           buf' # {} => \E r \in OnWire : pendingBlock' = r.block
    PROVE  Once'
<1>1. /\ Publish(Trades(B)) /\ seen' = PruneBelow(Marked(B), to - ReorgDepth)
      /\ cursor' = to
  BY DEF ProcessBatch
<1>2. Single' /\ Emitted' = Emitted \cup Fresh(B)
  BY <1>1, DigestOnce DEF Once
<1>3. OnWire' \subseteq OnWire
  BY DEF InFlight
<1>4. /\ \A o \in Marked(B) : o.block >= to - ReorgDepth => o \in seen'
      /\ \A o \in Marked(B) : o \in Occurrence /\ o.log \in Logs /\ o.block \in Places(o.log)
  <2>1. \A o \in Marked(B) : o.block >= to - ReorgDepth => o \in seen'
    BY <1>1 DEF PruneBelow
  <2>2. \A o \in Marked(B) : o \in seen \/ o \in B
    BY TradesGroup DEF Marked
  <2>3. \A o \in seen : o \in Occurrence /\ o.block \in Places(o.log)
    BY DEF BaseInv, MemoryInv, Places
  <2>4. \A o \in Occurrence : o.log \in Logs
    BY Numbers
  <2>5. QED
    BY <2>1, <2>2, <2>3, <2>4 DEF GoodBatch
<1>5. ASSUME NEW l, mined[l] <= to, mined[l] <= head - 2,
             \A r \in OnWire : mined[l] <= r.block
      PROVE  LeftBehind(l)'
  BY <1>1, <1>3, <1>5 DEF LeftBehind
<1>6. ASSUME NEW o \in Marked(B)
      PROVE  \/ Key(o.log) \in SeenKeys'
             \/ LeftBehind(o.log)' /\ \A r \in OnWire : Tx[r.log] # Tx[o.log]
  <2>1. CASE o.block >= to - ReorgDepth
    BY <1>4, <2>1 DEF SeenKeys
  <2>2. CASE ~(o.block >= to - ReorgDepth)
    <3>1. /\ mined[o.log] <= to /\ mined[o.log] <= head - 2
          /\ \A r \in OnWire : mined[o.log] <= r.block /\ Tx[r.log] # Tx[o.log]
      BY <1>4, <2>2, PruneForgetsNothingNear
    <3>2. QED
      BY <1>5, <3>1
  <2>3. QED
    BY <2>1, <2>2
<1>7. ASSUME NEW r \in Emitted \cup Fresh(B)
      PROVE  /\ r.log \in Logs
             /\ \/ LeftBehind(r.log)
                \/ \E o \in Marked(B) : o.log \in Logs /\ Key(o.log) = Key(r.log)
             /\ Key(r.log) \in SeenKeys =>
                   \E o \in Marked(B) : o.log \in Logs /\ Key(o.log) = Key(r.log)
  <2>1. r \in Fresh(B) => r \in Marked(B)
    BY DEF Marked
  <2>2. r \in Emitted => Key(r.log) \in SeenKeys \/ LeftBehind(r.log)
    BY DEF Once, Remembered
  <2>3. Key(r.log) \in SeenKeys =>
           \E o \in Marked(B) : o.log \in Logs /\ Key(o.log) = Key(r.log)
    BY <1>4 DEF SeenKeys, Marked
  <2>4. r.log \in Logs
    BY <1>4, <1>7, <2>1, EmittedArePlaced
  <2>5. QED
    BY <1>7, <2>1, <2>2, <2>3, <2>4
<1>8. ASSUME NEW r \in Emitted \cup Fresh(B)
      PROVE  Key(r.log) \in SeenKeys' \/ LeftBehind(r.log)'
  <2>1. r.log \in Logs
    BY <1>7
  <2>2. CASE LeftBehind(r.log)
    <3>1. mined[r.log] <= to
      BY <2>1, <2>2
    <3>2. QED
      BY <1>5, <2>2, <3>1 DEF LeftBehind
  <2>3. CASE \E o \in Marked(B) : o.log \in Logs /\ Key(o.log) = Key(r.log)
    <3>1. PICK o \in Marked(B) : o.log \in Logs /\ Key(o.log) = Key(r.log)
      BY <2>3
    <3>2. mined[o.log] = mined[r.log]
      BY <2>1, <3>1, EmittedArePlaced
    <3>3. LeftBehind(o.log)' => LeftBehind(r.log)'
      BY <3>2 DEF LeftBehind
    <3>4. QED
      BY <1>6, <3>1, <3>3
  <2>4. QED
    BY <1>7, <2>2, <2>3
<1>9. Remembered'
  BY <1>2, <1>8 DEF Remembered
<1>10. ASSUME NEW o \in OnWire, NEW r \in Emitted \cup Fresh(B), Key(o.log) = Key(r.log)
       PROVE  Key(o.log) \in SeenKeys'
  <2>1. r \in Emitted => Key(r.log) \in SeenKeys
    BY <1>10 DEF Once, FlightRemembered, KnownIn, InFlight
  <2>2. PICK s \in Marked(B) : Key(s.log) = Key(r.log)
    BY <1>7, <2>1 DEF Marked
  <2>3. Tx[o.log] = Tx[s.log]
    BY <1>10, <2>2 DEF Key
  <2>4. QED
    BY <1>6, <1>10, <2>2, <2>3
<1>11. FlightRemembered'
  <2>1. FlightRemembered' <=>
           \A o \in InFlight' : \A r \in Emitted' :
              Key(o.log) = Key(r.log) => Key(o.log) \in SeenKeys'
    BY DEF FlightRemembered, KnownIn
  <2>2. QED
    BY <1>2, <1>10, <2>1
<1>12. QED
  BY <1>2, <1>9, <1>11 DEF Once

(* The end of a cycle that digested a batch, or none.                      *)
LEMMA EndOnce ==
    ASSUME BaseInv, Once, EndCycle, UNCHANGED mined, UNCHANGED head, UNCHANGED cursor,
           NEW B, KnownIn(B),
           \/ UNCHANGED published /\ UNCHANGED seen
           \/ Publish(Trades(B)) /\ seen' = Marked(B)
    PROVE  Once'
<1>1. InFlight' = {} /\ OnWire' = {} /\ buf' = {}
  BY DEF EndCycle, InFlight, OnWire
<1>2. FlightRemembered'
  BY <1>1 DEF FlightRemembered, KnownIn
<1>3. \A l : LeftBehind(l) => LeftBehind(l)'
  BY <1>1 DEF LeftBehind
<1>4. CASE UNCHANGED published /\ UNCHANGED seen
  BY <1>2, <1>3, <1>4 DEF Once, Remembered, Single, Emitted, SeenKeys
<1>5. CASE Publish(Trades(B)) /\ seen' = Marked(B)
  <2>1. Single' /\ Emitted' = Emitted \cup Fresh(B)
    BY <1>5, DigestOnce DEF Once
  <2>2. SeenKeys \subseteq SeenKeys' /\ \A o \in Fresh(B) : Key(o.log) \in SeenKeys'
    BY <1>5 DEF Marked, SeenKeys
  <2>3. \A o \in Emitted : Key(o.log) \in SeenKeys \/ LeftBehind(o.log)
    BY DEF Once, Remembered
  <2>4. Remembered'
    BY <1>3, <2>1, <2>2, <2>3 DEF Remembered
  <2>5. QED
    BY <1>2, <2>1, <2>4 DEF Once
<1>6. QED
  BY <1>4, <1>5

(* A batch that fails in an undisturbed behaviour fails to save the        *)
(* cursor: its trades are out and its logs marked.                         *)
LEMMA FailedBatchOnce ==
    ASSUME BaseInv, Once, Undisturbed', NEW B, NEW to,
           ProcessBatch(B, to, TRUE, FALSE), EndCycle, UNCHANGED mined, UNCHANGED head,
           KnownIn(B)
    PROVE  Once'
<1>1. ~Fail({"publish"})
  <2>1. {"publish"} \cap {"crash", "stop", "publish"} # {}
    OBVIOUS
  <2>2. QED
    BY <2>1, FailAdds DEF Undisturbed, BaseInv, FailureInv
<1>2. Publish(Trades(B)) /\ seen' = Marked(B) /\ UNCHANGED cursor
  BY <1>1 DEF ProcessBatch
<1>3. QED
  BY <1>2, EndOnce

(* A step that leaves the memory alone and adds nothing to what is in      *)
(* flight.                                                                 *)
LEMMA StillOnce ==
    ASSUME Once, UNCHANGED seen, UNCHANGED published, InFlight' \subseteq InFlight,
           \A l : LeftBehind(l) => LeftBehind(l)'
    PROVE  Once'
<1>1. SeenKeys' = SeenKeys /\ Emitted' = Emitted
  BY DEF SeenKeys, Emitted
<1>2. Remembered'
  BY <1>1 DEF Once, Remembered
<1>3. FlightRemembered'
  BY <1>1 DEF Once, FlightRemembered, KnownIn
<1>4. Single'
  BY DEF Once, Single
<1>5. QED
  BY <1>2, <1>3, <1>4 DEF Once

(* A chunk publishes nothing twice: what it finds again is within the      *)
(* depth the dedup remembers.                                              *)
LEMMA BackfillOnce ==
    ASSUME BaseInv, DriftInv, MaxReorgs + StreamLag <= ReorgDepth, Once, Undisturbed',
           Backfill
    PROVE  Once'
<1>0. UNCHANGED mined /\ UNCHANGED head /\ (pc = "backfill" \/ pc = "catchup")
  BY DEF Backfill, chain
<1>1. ASSUME UNCHANGED <<wire, live, done>> PROVE Once'
  <2>1. /\ UNCHANGED wire /\ UNCHANGED buf /\ UNCHANGED pendingBlock /\ UNCHANGED seen
        /\ UNCHANGED cursor /\ UNCHANGED published
    BY <1>1 DEF live, done
  <2>2. InFlight' = InFlight /\ OnWire' = OnWire
    BY <2>1 DEF InFlight, OnWire
  <2>3. \A l : LeftBehind(l) => LeftBehind(l)'
    BY <1>0, <2>1, <2>2 DEF LeftBehind
  <2>4. QED
    BY <2>1, <2>2, <2>3, StillOnce
<1> DEFINE B == FilterLogs(from, ChunkEnd)
<1>2. ASSUME from <= upto
      PROVE  /\ GoodBatch(B) /\ ChunkEnd \in Nat /\ ChunkEnd <= head
             /\ \A o \in B : o.block \in Places(o.log)
             /\ KnownIn(B)
             /\ \A l : LeftBehind(l) => mined[l] <= cursor
             /\ cursor < ChunkEnd /\ cursor \in Int
  <2>1. GoodBatch(B) /\ ChunkEnd \in Blocks /\ from <= ChunkEnd /\ ChunkEnd <= head
    BY <1>2, ChunkEnds
  <2>2. ChunkEnd \in Nat
    BY <2>1, WatcherAssumption DEF Blocks
  <2>3. cursor < from /\ cursor \in Int /\ from \in Nat
    <3>1. from \in Nat /\ cursor \in Int
      BY Numbers
    <3>2. cursor = NoCursor \/ from = cursor + 1
      BY <1>0 DEF BaseInv, CycleInv
    <3>3. QED
      BY <3>1, <3>2 DEF NoCursor
  <2>4. \A o \in B : o.log \in Logs /\ o.block = mined[o.log] /\ from <= mined[o.log]
                     /\ mined[o.log] \in Nat
    <3>1. from \in Int /\ ChunkEnd \in Int
      BY <2>2, <2>3
    <3>2. \A o \in B : o.log \in Logs /\ o.block = mined[o.log] /\ from <= o.block
      BY <3>1, FilterLogsIsBatch
    <3>3. \A l \in Logs : mined[l] \in Nat
      BY Numbers
    <3>4. QED
      BY <3>2, <3>3
  <2>5. \A o \in B : o.block \in Places(o.log)
    BY <2>4 DEF Places
  <2>6. ASSUME NEW o \in B, NEW r \in Emitted, Key(o.log) = Key(r.log)
        PROVE  Key(o.log) \in SeenKeys
    <3>1. mined[o.log] = mined[r.log]
      BY <2>4, <2>6, EmittedArePlaced
    <3>2. ~(mined[r.log] <= cursor)
      BY <2>3, <2>4, <3>1
    <3>3. QED
      BY <2>6, <3>2 DEF Once, Remembered, LeftBehind
  <2>7. KnownIn(B)
    BY <2>6 DEF KnownIn
  <2>8. QED
    BY <2>1, <2>2, <2>3, <2>5, <2>7 DEF LeftBehind
<1>3. buf = {} /\ InFlight = OnWire
  BY <1>0 DEF BaseInv, FlightInv, InFlight
<1> HIDE DEF B
<1>4. ASSUME from <= upto, ProcessBatch(B, ChunkEnd, TRUE, TRUE), UNCHANGED <<wire, live>>
      PROVE  Once'
  <2>1. buf' = {} /\ InFlight' \subseteq OnWire
    BY <1>3, <1>4 DEF live, InFlight, OnWire
  <2>2. \A l \in Logs : mined[l] \in Nat
    BY Numbers
  <2>3. ASSUME NEW l \in Logs, LeftBehind(l) PROVE mined[l] <= ChunkEnd
    BY <1>2, <1>4, <2>2, <2>3
  <2>4. QED
    BY <1>0, <1>2, <1>4, <2>1, <2>3, BatchOnce
<1>5. ASSUME from <= upto, ProcessBatch(B, ChunkEnd, TRUE, FALSE), EndCycle
      PROVE  Once'
  BY <1>0, <1>2, <1>5, FailedBatchOnce
<1>6. QED
  BY <1>1, <1>4, <1>5 DEF Backfill, ChunkEnd, B

(* The block being received is a batch of logs whose history is known.     *)
LEMMA BufferIsKnown ==
    ASSUME BaseInv, Once
    PROVE  /\ GoodBatch(buf)
           /\ \A o \in buf : o.block \in Places(o.log)
           /\ KnownIn(buf)
<1>1. GoodBatch(buf)
  BY BatchesAreGood
<1>2. \A o \in buf : o.block \in Places(o.log)
  BY DEF Places, InFlight
<1>3. QED
  BY <1>1, <1>2 DEF Once, FlightRemembered, KnownIn, InFlight

(* Nor does the pending block when it is flushed,                          *)
LEMMA FlushOnce ==
    ASSUME BaseInv, DriftInv, MaxReorgs + StreamLag <= ReorgDepth, Once,
           buf # {}, ProcessBatch(buf, pendingBlock, TRUE, TRUE),
           UNCHANGED mined, UNCHANGED head, InFlight' \subseteq OnWire,
           buf' # {} => \E r \in OnWire : pendingBlock' = r.block
    PROVE  Once'
<1>1. pendingBlock \in Nat /\ pendingBlock <= head
  BY Numbers
<1>2. \A l \in Logs : LeftBehind(l) => mined[l] <= pendingBlock
  BY DEF LeftBehind
<1>3. QED
  BY <1>1, <1>2, BufferIsKnown, BatchOnce

(* nor a log received,                                                     *)
LEMMA ReceiveOnce ==
    ASSUME BaseInv, DriftInv, MaxReorgs + StreamLag <= ReorgDepth, Once, Undisturbed',
           Receive
    PROVE  Once'
<1> DEFINE o == Head(wire)
           t == Tail(wire)
<1>0. UNCHANGED mined /\ UNCHANGED head /\ wire # <<>>
  BY DEF Receive, chain
<1>1. /\ OnWire = {o} \cup {t[i] : i \in DOMAIN t}
  BY <1>0, TailOfWire DEF BaseInv, FlightInv
<1> HIDE DEF o, t
<1>2. ASSUME wire' = t PROVE OnWire' \subseteq OnWire
  BY <1>1, <1>2 DEF OnWire
<1>3. ASSUME wire' = t, UNCHANGED done, InFlight' \subseteq InFlight,
             \/ UNCHANGED live
             \/ pendingBlock' = o.block
      PROVE  Once'
  <2>1. UNCHANGED seen /\ UNCHANGED cursor /\ UNCHANGED published
    BY <1>3 DEF done
  <2>2. OnWire' \subseteq OnWire /\ o \in OnWire
    BY <1>1, <1>2, <1>3
  <2>3. \A l : LeftBehind(l) => LeftBehind(l)'
    BY <1>0, <1>3, <2>1, <2>2 DEF LeftBehind, live
  <2>4. QED
    BY <1>3, <2>1, <2>3, StillOnce
<1>4. ASSUME wire' = t, UNCHANGED <<failures, pc, live, done>> PROVE Once'
  <2>1. InFlight' \subseteq InFlight
    BY <1>2, <1>4 DEF InFlight, live
  <2>2. QED
    BY <1>3, <1>4, <2>1
<1>5. ASSUME wire' = t, buf' = buf \cup {o}, pendingBlock' = o.block,
             UNCHANGED <<failures, pc, done>>
      PROVE  Once'
  <2>1. InFlight' \subseteq InFlight
    BY <1>1, <1>2, <1>5 DEF InFlight
  <2>2. QED
    BY <1>3, <1>5, <2>1
<1>6. ASSUME buf # {}, ProcessBatch(buf, pendingBlock, TRUE, TRUE),
             wire' = t, buf' = {} \cup {o}, pendingBlock' = o.block
      PROVE  Once'
  <2>1. InFlight' \subseteq OnWire /\ o \in OnWire
    BY <1>1, <1>2, <1>6 DEF InFlight
  <2>2. QED
    BY <1>0, <1>6, <2>1, FlushOnce
<1>7. ASSUME ProcessBatch(buf, pendingBlock, TRUE, FALSE), EndCycle PROVE Once'
  BY <1>0, <1>7, BufferIsKnown, FailedBatchOnce
<1>8. QED
  BY <1>4, <1>5, <1>6, <1>7 DEF Receive, o, t

(* nor a tick.                                                             *)
LEMMA TickOnce ==
    ASSUME BaseInv, DriftInv, MaxReorgs + StreamLag <= ReorgDepth, Once, Undisturbed',
           Tick
    PROVE  Once'
<1>0. UNCHANGED mined /\ UNCHANGED head
  BY DEF Tick, chain
<1>1. ASSUME UNCHANGED <<wire, failures, pc, buf, pendingBlock, done>> PROVE Once'
  <2>1. /\ UNCHANGED wire /\ UNCHANGED buf /\ UNCHANGED pendingBlock /\ UNCHANGED seen
        /\ UNCHANGED cursor /\ UNCHANGED published
    BY <1>1 DEF done
  <2>2. InFlight' = InFlight /\ OnWire' = OnWire
    BY <2>1 DEF InFlight, OnWire
  <2>3. \A l : LeftBehind(l) => LeftBehind(l)'
    BY <1>0, <2>1, <2>2 DEF LeftBehind
  <2>4. QED
    BY <2>1, <2>2, <2>3, StillOnce
<1>2. ASSUME buf # {}, ProcessBatch(buf, pendingBlock, TRUE, TRUE), buf' = {},
             UNCHANGED wire
      PROVE  Once'
  <2>1. InFlight' \subseteq OnWire
    BY <1>2 DEF InFlight, OnWire
  <2>2. QED
    BY <1>0, <1>2, <2>1, FlushOnce
<1>3. ASSUME ProcessBatch(buf, pendingBlock, TRUE, FALSE), EndCycle PROVE Once'
  BY <1>0, <1>3, BufferIsKnown, FailedBatchOnce
<1>4. QED
  BY <1>1, <1>2, <1>3 DEF Tick

(* The end of a cycle publishes what is buffered at most.                  *)
LEMMA EndsOnce ==
    ASSUME BaseInv, Once, Undisturbed', RpcError \/ Disconnect \/ Stop \/ Crash
    PROVE  Once'
<1>1. \A kinds : Fail(kinds) => kinds \cap {"crash", "stop", "publish"} = {}
  BY FailAdds DEF Undisturbed, BaseInv, FailureInv
<1>2. EndCycle /\ UNCHANGED mined /\ UNCHANGED head /\ UNCHANGED cursor
  BY DEF RpcError, Disconnect, Stop, Crash, chain, done
<1>3. /\ ~Fail({"crash"}) /\ ~Fail({"stop"}) /\ ~Fail({"stop", "publish"})
      /\ ~Fail({"disconnect", "publish"})
  BY <1>1
<1>4. \/ UNCHANGED published /\ UNCHANGED seen
      \/ Publish(Trades(buf)) /\ seen' = Marked(buf)
  BY <1>3 DEF RpcError, Disconnect, LastFlush, Stop, Crash, done
<1>5. QED
  BY <1>2, <1>4, BufferIsKnown, EndOnce

(* The chain moves: what was published stays where it was, or was within   *)
(* the last two blocks and its key is still in memory.                     *)
LEMMA ChainOnce ==
    ASSUME BaseInv, Once, Mine \/ Reorg
    PROVE  Once'
<1>0. /\ UNCHANGED buf /\ UNCHANGED pendingBlock /\ UNCHANGED seen
      /\ UNCHANGED cursor /\ UNCHANGED published
  BY MineMoves, ReorgMoves DEF live, done
<1>1. /\ head \in Nat
      /\ \A l \in Logs : mined[l] \in Nat
      /\ \A o \in Occurrence : o.log \in Logs /\ o.block \in Nat
  BY Numbers
<1>2. BaseInv' /\ head' \in Nat /\ head' >= head
  BY <1>1, MineBase, ReorgBase, MineMoves, ReorgMoves
<1>3. \A l \in Logs : mined[l] # 0 /\ mined[l] <= head - 2 => mined'[l] = mined[l]
  <2>1. CASE Mine
    BY <2>1, MineMoves
  <2>2. CASE Reorg
    <3>1. \A l \in Logs : mined'[l] # mined[l] => mined[l] \in {0, head - 1, head}
      BY <2>2, ReorgLeavesTheOthers
    <3>2. QED
      BY <1>1, <3>1
  <2>3. QED
    BY <2>1, <2>2
<1>4. PICK a \in Int : a >= head - 1 /\ Deliver(Answer(mined', current', Reorgs', a, head'))
  BY <1>1, <1>2, MineMoves, ReorgMoves
<1> DEFINE B == Answer(mined', current', Reorgs', a, head')
<1>5. /\ B \in SUBSET Occurrence
      /\ \A o \in B : o.log \in Logs /\ o.block = mined'[o.log] /\ a <= o.block
                      /\ o.block \in Nat
  <2>1. ChainInv' /\ FailureInv' /\ head' \in Int /\ head' <= head'
    BY <1>2 DEF BaseInv
  <2>2. /\ B \in SUBSET Occurrence
        /\ \A o \in B : o.log \in Logs /\ o.block = mined'[o.log] /\ a <= o.block
    BY <1>4, <2>1, SentArePlaced
  <2>3. QED
    BY <1>1, <2>2
<1>6. Deliver(B)
  BY <1>4
<1> HIDE DEF B
<1>7. OnWire' \subseteq OnWire \cup B
  BY <1>5, <1>6, WireGrows
<1>8. SeenKeys' = SeenKeys /\ Emitted' = Emitted
  BY <1>0 DEF SeenKeys, Emitted
<1>9. \A r \in Emitted : r.log \in Logs /\ mined[r.log] # 0
  BY EmittedArePlaced DEF Placed
<1>10. ASSUME NEW r \in Emitted, LeftBehind(r.log)
       PROVE  LeftBehind(r.log)' /\ mined'[r.log] <= head - 2
  <2>1. /\ mined[r.log] \in Nat /\ mined[r.log] <= head - 2
        /\ mined'[r.log] = mined[r.log]
    BY <1>1, <1>3, <1>9, <1>10 DEF LeftBehind
  <2>2. mined'[r.log] <= head' - 2
    BY <1>1, <1>2, <2>1
  <2>3. \A o \in B : mined'[r.log] <= o.block
    <3>1. ASSUME NEW o \in B PROVE mined'[r.log] <= o.block
      <4>1. o.block \in Nat /\ a <= o.block
        BY <1>5
      <4>2. o.block >= head - 1
        BY <1>1, <1>4, <4>1
      <4>3. QED
        BY <1>1, <2>1, <4>1, <4>2
    <3>2. QED
      BY <3>1
  <2>4. \A o \in OnWire' : mined'[r.log] <= o.block
    BY <1>7, <1>10, <2>1, <2>3 DEF LeftBehind
  <2>5. QED
    BY <1>0, <1>10, <2>1, <2>2, <2>4 DEF LeftBehind
<1>11. Remembered'
  BY <1>8, <1>10 DEF Once, Remembered
<1>12. ASSUME NEW o \in B, NEW r \in Emitted, Key(o.log) = Key(r.log)
       PROVE  Key(o.log) \in SeenKeys
  <2>1. mined'[o.log] = mined'[r.log]
    <3>1. o.log \in Logs /\ r.log \in Logs /\ Tx[o.log] = Tx[r.log]
      BY <1>5, <1>9, <1>12 DEF Key
    <3>2. QED
      BY <1>2, <3>1 DEF BaseInv, ChainInv, TogetherInChain
  <2>2. o.block \in Nat /\ o.block >= head - 1 /\ o.block = mined'[r.log]
    BY <1>1, <1>4, <1>5, <2>1
  <2>3. ~LeftBehind(r.log)
    BY <1>1, <1>10, <2>2
  <2>4. QED
    BY <1>12, <2>3 DEF Once, Remembered
<1>13. FlightRemembered'
  <2>1. InFlight' \subseteq InFlight \cup B
    BY <1>0, <1>7 DEF InFlight
  <2>2. FlightRemembered' <=>
           \A o \in InFlight' : \A r \in Emitted' :
              Key(o.log) = Key(r.log) => Key(o.log) \in SeenKeys'
    BY DEF FlightRemembered, KnownIn
  <2>3. QED
    BY <1>8, <1>12, <2>1, <2>2 DEF Once, FlightRemembered, KnownIn
<1>14. Single'
  BY <1>0 DEF Once, Single
<1>15. QED
  BY <1>11, <1>13, <1>14 DEF Once

(* Every step keeps that published keys are remembered while they can come *)
(* back.                                                                   *)
LEMMA NextOnce ==
    ASSUME MaxReorgs + StreamLag <= ReorgDepth, BaseInv, DriftInv, OnceInv, [Next]_vars
    PROVE  OnceInv'
<1> SUFFICES ASSUME Undisturbed' PROVE Once'
  BY DEF OnceInv
<1>1. Once
  BY FailuresStay DEF OnceInv, Undisturbed
<1>2. CASE UNCHANGED vars \/ ReadHead \/ Subscribe \/ NewHead
  <2>1. /\ UNCHANGED wire /\ UNCHANGED buf /\ UNCHANGED pendingBlock /\ UNCHANGED seen
        /\ UNCHANGED cursor /\ UNCHANGED published /\ UNCHANGED mined /\ UNCHANGED head
    BY <1>2 DEF vars, ReadHead, Subscribe, NewHead, chain, live, done
  <2>2. InFlight' = InFlight /\ OnWire' = OnWire
    BY <2>1 DEF InFlight, OnWire
  <2>3. \A l : LeftBehind(l) => LeftBehind(l)'
    BY <2>1, <2>2 DEF LeftBehind
  <2>4. QED
    BY <1>1, <2>1, <2>2, <2>3, StillOnce
<1>3. QED
  BY <1>1, <1>2, ChainOnce, BackfillOnce, ReceiveOnce, TickOnce, EndsOnce
     DEF Next, Step

(* When the depth of the memory covers the lag of the subscription and the *)
(* reorganisations of the behaviour together, and as long as the process   *)
(* lives and no publication fails half-way, what has one transaction and   *)
(* one index is published in one trade and once: backfill, catch-up, the   *)
(* live stream, reconnections and the blocks that a reorganisation sends   *)
(* again included.  It is about keys, not fills: a transaction that is     *)
(* included again at another index has another key (FillEmittedOnce).      *)
THEOREM WatcherEmitsOnce ==
    MaxReorgs + StreamLag <= ReorgDepth => (Spec => []EmittedOnce)
<1> SUFFICES ASSUME MaxReorgs + StreamLag <= ReorgDepth PROVE Spec => []EmittedOnce
  OBVIOUS
<1>1. Init => BaseInv /\ DriftInv /\ OnceInv
  <2> SUFFICES ASSUME Init PROVE DriftInv /\ OnceInv
    BY InitBase
  <2>1. InFlight = {} /\ DOMAIN wire = {} /\ seen = {} /\ BagToSet(published) = {}
    BY DEF Init, InFlight, OnWire, EmptyBag, SetToBag, BagToSet
  <2>2. Reorgs = 0
    BY DEF Init, Reorgs, EmptyBag, SetToBag, BagIn, BagToSet
  <2>3. \A l \in Logs : mined[l] = 0
    BY DEF Init
  <2>4. DriftInv
    BY <2>1, <2>2, <2>3, WatcherAssumption DEF DriftInv, Places
  <2>5. OnceInv
    BY <2>1 DEF OnceInv, Once, Remembered, FlightRemembered, KnownIn, Single, Emitted
  <2>6. QED
    BY <2>4, <2>5
<1>2. BaseInv /\ DriftInv /\ OnceInv /\ [Next]_vars => (BaseInv /\ DriftInv /\ OnceInv)'
  BY NextBase, NextDrift, NextOnce
<1>3. OnceInv => EmittedOnce
  BY DEF OnceInv, Undisturbed, Once, Single, EmittedOnce
<1>4. QED
  BY <1>1, <1>2, <1>3, PTL DEF Spec
-----------------------------------------------------------------------------
(* The feed (WatchsetFeed): for every set of wallets, every initial table, *)
(* every size of the channel and any number of changes and failures.       *)

(***************************************************************************)
(* The inductive invariant.  The updates between the table and the watcher *)
(* are, in the order they will be applied, those on the wire, those in the *)
(* channel and the one not yet broadcast.  A wallet of the table is in the *)
(* set of the watcher once they are all applied: the last of them that     *)
(* names it adds it, or none of them removes it and it is there already.   *)
(***************************************************************************)

(* Applied in order, the updates leave w where it is if it is there ...    *)
Keeps(updates, w) == \A i \in 1 .. Len(updates) : w \notin updates[i].removed

(* ... and bring it there if it is not.                                    *)
Brings(updates, w) ==
    \E i \in 1 .. Len(updates) :
        /\ w \in updates[i].added
        /\ \A j \in i .. Len(updates) : w \notin updates[j].removed

(* What is behind the wire does not take w away.                           *)
QueueKeeps(w) == w \in unsent.added \/ Brings(ch, w) \/ Keeps(ch, w)

(* What is on the way leaves w watched.                                    *)
OnItsWay(w) ==
    \/ w \in unsent.added
    \/ Brings(ch, w)
    \/ Keeps(ch, w) /\ (Brings(sent, w) \/ (Keeps(sent, w) /\ w \in watch))

HasSubscriber == handler # "none" /\ ~lost

FeedInv ==
    /\ FeedTypeOK
    /\ unsent.removed \cap table = {}
    /\ handler = "subscribed" => sent = <<>>
    /\ HasSubscriber => \A w \in table : QueueKeeps(w)
    /\ HasSubscriber /\ handler = "streaming" => \A w \in table : OnItsWay(w)
-----------------------------------------------------------------------------
(* Lemmas about Keeps and Brings.                                          *)

(* What one more update at the end changes.                                *)
LEMMA AppendUpdate ==
    ASSUME NEW s \in Seq(Update), NEW u \in Update, NEW w
    PROVE  /\ Keeps(Append(s, u), w) <=> Keeps(s, w) /\ w \notin u.removed
           /\ Brings(Append(s, u), w) <=>
                /\ w \notin u.removed
                /\ w \in u.added \/ Brings(s, w)
<1> DEFINE t == Append(s, u)
<1>1. /\ Len(s) \in Nat /\ Len(t) = Len(s) + 1
      /\ \A i \in 1 .. Len(s) : t[i] = s[i]
      /\ t[Len(s) + 1] = u
  OBVIOUS
<1> HIDE DEF t
<1>2. Keeps(t, w) <=> Keeps(s, w) /\ w \notin u.removed
  BY <1>1 DEF Keeps
<1>3. ASSUME Brings(t, w)
      PROVE  w \notin u.removed /\ (w \in u.added \/ Brings(s, w))
  <2>1. PICK i \in 1 .. Len(t) :
          w \in t[i].added /\ \A j \in i .. Len(t) : w \notin t[j].removed
    BY <1>3 DEF Brings
  <2>2. w \notin u.removed
    BY <1>1, <2>1
  <2>3. CASE i = Len(t)
    BY <1>1, <2>1, <2>2, <2>3
  <2>4. CASE i \in 1 .. Len(s)
    <3>1. w \in s[i].added
      BY <1>1, <2>1, <2>4
    <3>2. \A j \in i .. Len(s) : w \notin s[j].removed
      BY <1>1, <2>1, <2>4
    <3>3. QED
      BY <2>2, <2>4, <3>1, <3>2 DEF Brings
  <2>5. QED
    BY <1>1, <2>1, <2>3, <2>4
<1>4. ASSUME w \notin u.removed, w \in u.added \/ Brings(s, w)
      PROVE  Brings(t, w)
  <2>1. CASE w \in u.added
    <3>1. Len(t) \in 1 .. Len(t) /\ w \in t[Len(t)].added
      BY <1>1, <2>1
    <3>2. \A j \in Len(t) .. Len(t) : w \notin t[j].removed
      BY <1>1, <1>4
    <3>3. QED
      BY <3>1, <3>2 DEF Brings
  <2>2. CASE Brings(s, w)
    <3>1. PICK i \in 1 .. Len(s) :
            w \in s[i].added /\ \A j \in i .. Len(s) : w \notin s[j].removed
      BY <2>2 DEF Brings
    <3>2. i \in 1 .. Len(t) /\ w \in t[i].added
      BY <1>1, <3>1
    <3>3. \A j \in i .. Len(t) : w \notin t[j].removed
      BY <1>1, <1>4, <3>1
    <3>4. QED
      BY <3>2, <3>3 DEF Brings
  <2>3. QED
    BY <1>4, <2>1, <2>2
<1>5. QED
  BY <1>2, <1>3, <1>4 DEF t

(* What taking the first update changes.                                   *)
LEMMA TakeUpdate ==
    ASSUME NEW s \in Seq(Update), s # <<>>, NEW w
    PROVE  /\ Keeps(s, w) <=> w \notin Head(s).removed /\ Keeps(Tail(s), w)
           /\ Brings(s, w) <=>
                \/ Brings(Tail(s), w)
                \/ /\ w \in Head(s).added \ Head(s).removed
                   /\ Keeps(Tail(s), w)
<1> DEFINE t == Tail(s)
<1>1. /\ Len(t) \in Nat /\ Len(s) = Len(t) + 1
      /\ \A i \in 1 .. Len(t) : t[i] = s[i + 1]
      /\ Head(s) = s[1]
  OBVIOUS
<1> HIDE DEF t
<1>2. \A i \in 2 .. Len(s) : i - 1 \in 1 .. Len(t) /\ s[i] = t[i - 1]
  BY <1>1
<1>3. Keeps(s, w) <=> w \notin Head(s).removed /\ Keeps(t, w)
  <2>1. ASSUME Keeps(s, w) PROVE w \notin Head(s).removed /\ Keeps(t, w)
    BY <1>1, <2>1 DEF Keeps
  <2>2. ASSUME w \notin Head(s).removed, Keeps(t, w) PROVE Keeps(s, w)
    <3>1. ASSUME NEW i \in 1 .. Len(s) PROVE w \notin s[i].removed
      <4>1. CASE i = 1
        BY <1>1, <2>2, <4>1
      <4>2. CASE i \in 2 .. Len(s)
        BY <1>2, <2>2, <4>2 DEF Keeps
      <4>3. QED
        BY <1>1, <3>1, <4>1, <4>2
    <3>2. QED
      BY <3>1 DEF Keeps
  <2>3. QED
    BY <2>1, <2>2
<1>4. ASSUME Brings(s, w)
      PROVE  Brings(t, w) \/ (w \in Head(s).added \ Head(s).removed /\ Keeps(t, w))
  <2>1. PICK i \in 1 .. Len(s) :
          w \in s[i].added /\ \A j \in i .. Len(s) : w \notin s[j].removed
    BY <1>4 DEF Brings
  <2>2. CASE i = 1
    <3>1. Keeps(s, w)
      BY <2>1, <2>2 DEF Keeps
    <3>2. QED
      BY <1>1, <1>3, <2>1, <2>2, <3>1
  <2>3. CASE i \in 2 .. Len(s)
    <3>1. i - 1 \in 1 .. Len(t) /\ w \in t[i - 1].added
      BY <1>2, <2>1, <2>3
    <3>2. \A j \in i - 1 .. Len(t) : w \notin t[j].removed
      BY <1>1, <2>1, <2>3
    <3>3. QED
      BY <3>1, <3>2 DEF Brings
  <2>4. QED
    BY <1>1, <2>1, <2>2, <2>3
<1>5. ASSUME Brings(t, w) PROVE Brings(s, w)
  <2>1. PICK i \in 1 .. Len(t) :
          w \in t[i].added /\ \A j \in i .. Len(t) : w \notin t[j].removed
    BY <1>5 DEF Brings
  <2>2. i + 1 \in 1 .. Len(s) /\ w \in s[i + 1].added
    BY <1>1, <2>1
  <2>3. ASSUME NEW j \in i + 1 .. Len(s) PROVE w \notin s[j].removed
    <3>1. j \in 2 .. Len(s) /\ j - 1 \in i .. Len(t)
      BY <1>1, <2>1, <2>3
    <3>2. QED
      BY <1>2, <2>1, <3>1
  <2>4. QED
    BY <2>2, <2>3 DEF Brings
<1>6. ASSUME w \in Head(s).added \ Head(s).removed, Keeps(t, w) PROVE Brings(s, w)
  <2>1. Keeps(s, w)
    BY <1>3, <1>6
  <2>2. 1 \in 1 .. Len(s) /\ w \in s[1].added
    BY <1>1, <1>6
  <2>3. QED
    BY <2>1, <2>2 DEF Keeps, Brings
<1>7. QED
  BY <1>3, <1>4, <1>5, <1>6 DEF t

(* Nothing in the channel removes nothing and brings nothing.              *)
LEMMA NoUpdate == ASSUME NEW w PROVE Keeps(<<>>, w) /\ ~Brings(<<>>, w)
  BY DEF Keeps, Brings
-----------------------------------------------------------------------------
(* The empty queue.                                                        *)
LEMMA EmptyQueue == <<>> \in Seq(Update) /\ Len(<<>>) <= SubBuffer
  BY FeedAssumption

(* The invariant of the feed holds at the start.                            *)
LEMMA FeedStarts == FeedInit => FeedInv
<1> SUFFICES ASSUME FeedInit PROVE FeedInv
  OBVIOUS
<1>1. FeedTypeOK
  <2>1. unsent \in Update
    BY DEF FeedInit, Nothing, Update
  <2>2. refreshes \in 0 .. MaxRefreshes /\ breaks \in 0 .. MaxBreaks
    BY FeedAssumption DEF FeedInit
  <2>3. ch \in Seq(Update) /\ Len(ch) <= SubBuffer /\ sent \in Seq(Update)
    BY EmptyQueue DEF FeedInit
  <2>4. QED
    BY <2>1, <2>2, <2>3, FeedAssumption DEF FeedInit, FeedTypeOK
<1>2. QED
  BY <1>1 DEF FeedInit, FeedInv, Nothing, HasSubscriber

(* Every step keeps the feed well typed.                                    *)
LEMMA FeedStaysTyped == FeedTypeOK /\ [FeedNext]_feedVars => FeedTypeOK'
<1> SUFFICES ASSUME FeedTypeOK, [FeedNext]_feedVars PROVE FeedTypeOK'
  OBVIOUS
<1> USE FeedAssumption DEF FeedTypeOK, syncer, stream, client, NoStream, Break
<1>1. Nothing \in Update
  BY DEF Nothing, Update
<1>2. ASSUME NEW W \in SUBSET Wallets, Replace(W) PROVE FeedTypeOK'
  <2>1. Change(table, W) \in Update
    BY DEF Change, Update
  <2>2. QED
    BY <1>2, <2>1 DEF Replace
<1>3. CASE Broadcast
  <2>1. CASE handler # "none" /\ ~lost /\ Len(ch) < SubBuffer
    <3>1. ch' = Append(ch, unsent)
      BY <1>3, <2>1 DEF Broadcast
    <3>2. ch' \in Seq(Update) /\ Len(ch') = Len(ch) + 1
      BY <3>1
    <3>3. lost' = lost
      BY <1>3, <2>1 DEF Broadcast
    <3>4. QED
      BY <1>1, <1>3, <2>1, <3>2, <3>3 DEF Broadcast
  <2>2. CASE ~(handler # "none" /\ ~lost /\ Len(ch) < SubBuffer)
    <3>1. ch' = ch
      BY <1>3, <2>2 DEF Broadcast
    <3>2. lost' \in BOOLEAN /\ (handler = "none" => ~lost')
      BY <1>3 DEF Broadcast
    <3>3. QED
      BY <1>1, <1>3, <3>1, <3>2 DEF Broadcast
  <2>3. QED
    BY <2>1, <2>2
<1>4. CASE SendTable
  <2>1. Change({}, table) \in Update
    BY DEF Change, Update
  <2>2. QED
    BY <1>4, <2>1 DEF SendTable
<1>5. CASE Forward
  <2>1. ch \in Seq(Update) /\ ch # <<>>
    BY <1>5 DEF Forward
  <2>2. Tail(ch) \in Seq(Update) /\ Len(Tail(ch)) <= Len(ch) /\ Head(ch) \in Update
    BY <2>1
  <2>3. QED
    BY <1>5, <2>2 DEF Forward
<1>6. CASE GiveUp
  BY <1>6, EmptyQueue DEF GiveUp
<1>7. CASE GetWatchset
  BY <1>7 DEF GetWatchset
<1>8. CASE ApplySnapshot
  BY <1>8 DEF ApplySnapshot
<1>9. CASE OpenStream
  BY <1>9 DEF OpenStream
<1>10. CASE Recv
  <2>1. sent \in Seq(Update) /\ sent # <<>>
    BY <1>10 DEF Recv
  <2>2. Tail(sent) \in Seq(Update) /\ Head(sent) \in Update
    BY <2>1
  <2>3. Head(sent).added \subseteq Wallets
    BY <2>2 DEF Update
  <2>4. QED
    BY <1>10, <2>2, <2>3 DEF Recv
<1>11. CASE StreamEnds
  BY <1>11, EmptyQueue DEF StreamEnds
<1>12. CASE StreamBreaks
  <2>1. breaks' \in 0 .. MaxBreaks
    BY <1>12 DEF StreamBreaks
  <2>2. ch' \in Seq(Update) /\ Len(ch') <= SubBuffer /\ sent' \in Seq(Update)
    BY <1>12, EmptyQueue DEF StreamBreaks
  <2>3. QED
    BY <1>12, <2>1, <2>2 DEF StreamBreaks
<1>13. CASE LeaderboardRestarts
  <2>1. breaks' \in 0 .. MaxBreaks
    BY <1>13 DEF LeaderboardRestarts
  <2>2. ch' \in Seq(Update) /\ Len(ch') <= SubBuffer /\ sent' \in Seq(Update)
    BY <1>13, EmptyQueue DEF LeaderboardRestarts
  <2>3. QED
    BY <1>1, <1>13, <2>1, <2>2 DEF LeaderboardRestarts
<1>14. CASE WatcherRestarts
  <2>1. breaks' \in 0 .. MaxBreaks
    BY <1>14 DEF WatcherRestarts
  <2>2. ch' \in Seq(Update) /\ Len(ch') <= SubBuffer /\ sent' \in Seq(Update)
    BY <1>14, EmptyQueue DEF WatcherRestarts
  <2>3. QED
    BY <1>14, <2>1, <2>2 DEF WatcherRestarts
<1>15. CASE UNCHANGED feedVars
  BY <1>15 DEF feedVars
<1>16. QED
  BY <1>2, <1>3, <1>4, <1>5, <1>6, <1>7, <1>8, <1>9, <1>10, <1>11, <1>12,
     <1>13, <1>14, <1>15 DEF FeedNext, Server, Feeder

(* Every step keeps the invariant.                                          *)
LEMMA FeedGoesOn == FeedInv /\ [FeedNext]_feedVars => FeedInv'
<1> SUFFICES ASSUME FeedInv, [FeedNext]_feedVars PROVE FeedInv'
  OBVIOUS
<1>0. FeedTypeOK /\ FeedTypeOK'
  BY FeedStaysTyped DEF FeedInv
<1> DEFINE Rest == /\ unsent.removed \cap table = {}
                   /\ handler = "subscribed" => sent = <<>>
                   /\ HasSubscriber => \A w \in table : QueueKeeps(w)
                   /\ HasSubscriber /\ handler = "streaming" => \A w \in table : OnItsWay(w)
<1> SUFFICES Rest'
  BY <1>0 DEF FeedInv
<1>1. Nothing.added = {} /\ Nothing.removed = {}
  BY DEF Nothing
<1>2. ASSUME NEW W \in SUBSET Wallets, Replace(W) PROVE Rest'
  <2>1. /\ table' = W /\ unsent = Nothing
        /\ unsent'.added = W \ table /\ unsent'.removed = table \ W
        /\ UNCHANGED <<handler, lost, ch, sent, watch>>
    BY <1>2 DEF Replace, Change, stream, client
  <2>2. ASSUME NEW w \in table', HasSubscriber PROVE QueueKeeps(w)'
    BY <1>1, <2>1, <2>2 DEF FeedInv, QueueKeeps, Brings, Keeps
  <2>3. ASSUME NEW w \in table', HasSubscriber, handler = "streaming" PROVE OnItsWay(w)'
    BY <1>1, <2>1, <2>3 DEF FeedInv, OnItsWay, Brings, Keeps
  <2>4. QED
    BY <2>1, <2>2, <2>3 DEF FeedInv, HasSubscriber
<1>3. CASE Broadcast
  <2>1. /\ unsent' = Nothing
        /\ UNCHANGED <<table, handler, sent, watch>>
    BY <1>3 DEF Broadcast, client
  <2>2. CASE HasSubscriber'
    <3>1. HasSubscriber /\ ch' = Append(ch, unsent)
      BY <1>3, <2>1, <2>2 DEF Broadcast, HasSubscriber
    <3>2. ch \in Seq(Update) /\ unsent \in Update
      BY <1>0 DEF FeedTypeOK
    <3>3. ASSUME NEW w \in table
          PROVE  /\ Keeps(ch, w) => Keeps(ch', w)
                 /\ Brings(ch, w) \/ w \in unsent.added => Brings(ch', w)
      BY <3>1, <3>2, AppendUpdate DEF FeedInv
    <3>4. ASSUME NEW w \in table PROVE QueueKeeps(w)'
      BY <3>1, <3>3 DEF FeedInv, QueueKeeps
    <3>5. ASSUME NEW w \in table, handler = "streaming" PROVE OnItsWay(w)'
      BY <2>1, <3>1, <3>3, <3>5 DEF FeedInv, OnItsWay
    <3>6. QED
      BY <1>1, <2>1, <3>4, <3>5 DEF FeedInv
  <2>3. CASE ~HasSubscriber'
    BY <1>1, <2>1, <2>3 DEF FeedInv
  <2>4. QED
    BY <2>2, <2>3
<1>4. CASE SendTable
  <2>1. /\ handler = "subscribed" /\ handler' = "streaming" /\ sent = <<>>
        /\ UNCHANGED <<table, unsent, lost, ch, watch>>
    BY <1>4 DEF SendTable, syncer, client, FeedInv
  <2>2. ASSUME NEW w \in table PROVE Brings(sent', w)
    <3>1. sent' = Append(sent, Change({}, table))
      BY <1>4, <2>2 DEF SendTable
    <3>2. Change({}, table) \in Update
      BY <1>0 DEF Change, Update, FeedTypeOK
    <3>3. w \in Change({}, table).added /\ w \notin Change({}, table).removed
      BY <2>2 DEF Change
    <3>4. QED
      BY <1>0, <3>1, <3>2, <3>3, AppendUpdate DEF FeedTypeOK
  <2>3. ASSUME HasSubscriber', NEW w \in table PROVE QueueKeeps(w)' /\ OnItsWay(w)'
    BY <2>1, <2>2, <2>3 DEF FeedInv, QueueKeeps, OnItsWay, HasSubscriber
  <2>4. QED
    BY <2>1, <2>3 DEF FeedInv
<1>5. CASE Forward
  <2>1. /\ handler = "streaming" /\ ch # <<>>
        /\ sent' = Append(sent, Head(ch)) /\ ch' = Tail(ch)
        /\ UNCHANGED <<table, unsent, handler, lost, watch>>
    BY <1>5 DEF Forward, syncer, client
  <2>2. ch \in Seq(Update) /\ sent \in Seq(Update) /\ Head(ch) \in Update
    BY <1>0, <2>1 DEF FeedTypeOK
  <2>3. ASSUME NEW w
        PROVE  /\ Keeps(ch, w) <=> w \notin Head(ch).removed /\ Keeps(ch', w)
               /\ Brings(ch, w) <=>
                    \/ Brings(ch', w)
                    \/ w \in Head(ch).added \ Head(ch).removed /\ Keeps(ch', w)
               /\ Keeps(sent', w) <=> Keeps(sent, w) /\ w \notin Head(ch).removed
               /\ Brings(sent', w) <=>
                    w \notin Head(ch).removed /\ (w \in Head(ch).added \/ Brings(sent, w))
    BY <2>1, <2>2, TakeUpdate, AppendUpdate
  <2>4. ASSUME HasSubscriber, NEW w \in table PROVE QueueKeeps(w)' /\ OnItsWay(w)'
    <3>1. QueueKeeps(w) /\ OnItsWay(w)
      BY <2>1, <2>4 DEF FeedInv
    <3>2. QED
      BY <2>1, <2>3, <3>1 DEF QueueKeeps, OnItsWay
  <2>5. QED
    BY <2>1, <2>4 DEF FeedInv, HasSubscriber
<1>6. CASE GiveUp
  BY <1>6 DEF GiveUp, FeedInv, HasSubscriber, syncer
<1>7. CASE GetWatchset
  BY <1>7 DEF GetWatchset, FeedInv, HasSubscriber, QueueKeeps, OnItsWay, Keeps, Brings,
              syncer, stream
<1>8. CASE ApplySnapshot
  <2>1. handler = "none" /\ UNCHANGED <<syncer, stream>>
    BY <1>0, <1>8 DEF ApplySnapshot, FeedTypeOK
  <2>2. QED
    BY <2>1 DEF FeedInv, HasSubscriber, syncer, stream
<1>9. CASE OpenStream
  <2>1. /\ ch = <<>> /\ sent = <<>> /\ handler' = "subscribed"
        /\ UNCHANGED <<table, unsent, ch, sent>>
    BY <1>0, <1>9 DEF OpenStream, FeedTypeOK, syncer
  <2>2. ASSUME NEW w \in table PROVE QueueKeeps(w)'
    BY <2>1, NoUpdate DEF QueueKeeps
  <2>3. QED
    BY <2>1, <2>2 DEF FeedInv
<1>10. CASE Recv
  <2>1. /\ sent # <<>> /\ sent' = Tail(sent)
        /\ watch' = (watch \cup Head(sent).added) \ Head(sent).removed
        /\ UNCHANGED <<table, unsent, handler, lost, ch>>
    BY <1>10 DEF Recv, syncer
  <2>2. sent \in Seq(Update)
    BY <1>0 DEF FeedTypeOK
  <2>3. ASSUME NEW w
        PROVE  /\ Keeps(sent, w) <=> w \notin Head(sent).removed /\ Keeps(sent', w)
               /\ Brings(sent, w) <=>
                    \/ Brings(sent', w)
                    \/ w \in Head(sent).added \ Head(sent).removed /\ Keeps(sent', w)
    BY <2>1, <2>2, TakeUpdate
  <2>4. ASSUME HasSubscriber, NEW w \in table PROVE QueueKeeps(w)'
    BY <2>1, <2>4 DEF FeedInv, QueueKeeps
  <2>5. ASSUME HasSubscriber, handler = "streaming", NEW w \in table PROVE OnItsWay(w)'
    <3>1. OnItsWay(w)
      BY <2>5 DEF FeedInv
    <3>2. QED
      BY <2>1, <2>3, <3>1 DEF OnItsWay
  <2>6. QED
    BY <2>1, <2>4, <2>5 DEF FeedInv, HasSubscriber
<1>11. CASE StreamEnds
  BY <1>11 DEF StreamEnds, NoStream, FeedInv, HasSubscriber, syncer
<1>12. CASE StreamBreaks
  BY <1>12 DEF StreamBreaks, NoStream, FeedInv, HasSubscriber, syncer
<1>13. CASE LeaderboardRestarts
  BY <1>1, <1>13 DEF LeaderboardRestarts, NoStream, FeedInv, HasSubscriber
<1>14. CASE WatcherRestarts
  BY <1>14 DEF WatcherRestarts, NoStream, FeedInv, HasSubscriber, syncer
<1>15. CASE UNCHANGED feedVars
  BY <1>15 DEF feedVars, syncer, stream, client, FeedInv, HasSubscriber, QueueKeeps,
               OnItsWay, Keeps, Brings
<1>16. QED
  BY <1>2, <1>3, <1>4, <1>5, <1>6, <1>7, <1>8, <1>9, <1>10, <1>11, <1>12,
     <1>13, <1>14, <1>15 DEF FeedNext, Server, Feeder

(* Where channel and stream are empty, what may be missing is nothing.     *)
LEMMA FeedInvImpliesInv == FeedInv => FeedIsSound
<1> SUFFICES ASSUME FeedInv, Settled, NEW w \in table PROVE w \in watch
  BY DEF FeedInv, FeedIsSound, NothingMissing
<1>1. OnItsWay(w) /\ unsent.added = {} /\ ch = <<>> /\ sent = <<>>
  BY DEF FeedInv, Settled, HasSubscriber, Nothing
<1>2. QED
  BY <1>1, NoUpdate DEF OnItsWay
-----------------------------------------------------------------------------
(* The channel keeps its bound, and a settled stream misses no wallet of   *)
(* the table: what Broadcast, StreamWatchset and the feeder do between     *)
(* them, with evictions, disconnections and restarts.                      *)
THEOREM FeedKeepsInv == FeedSpec => []FeedIsSound
  BY FeedStarts, FeedGoesOn, FeedInvImpliesInv, PTL DEF FeedSpec
=============================================================================
