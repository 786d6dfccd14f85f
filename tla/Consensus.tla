------------------------------- MODULE Consensus -------------------------------
(***************************************************************************)
(* The consensus service: it keeps the live trades of a rolling window in  *)
(* SQLite and signals when enough distinct wallets trade the same side of  *)
(* the same token.  One NATS callback at a time runs Handle; its two       *)
(* effects, the transaction of Record and the publication, are two steps,  *)
(* with the clock and a crash between them.                                *)
(*                                                                         *)
(* A key stands for a (token, side) pair.  Amounts are left out: a row is  *)
(* its key, its wallet and the second it was observed.                     *)
(***************************************************************************)
EXTENDS Integers, FiniteSets

CONSTANTS
  Wallets,
  Keys,
  MinWallets,   \* distinct wallets that make a consensus; config refuses < 2
  Window,       \* length of the rolling window, in ticks
  MaxTime,      \* bound: the clock stops here
  MaxFailures,  \* bound: failed transactions, failed publications and crashes
  Conditions    \* what may go wrong in this instance

ASSUME ConsensusAssumption ==
  /\ IsFiniteSet(Wallets)
  /\ MinWallets \in Nat /\ MinWallets >= 2
  /\ Window \in Nat \ {0}
  /\ MaxTime \in Nat /\ MaxFailures \in Nat
  /\ Conditions \subseteq {"record", "publish", "crash"}

VARIABLES
  clock,
  events,     \* table trade_events
  fired,      \* table fired: the high-water of a key, 0 without a row
  pc,         \* "idle", or "publish" between the commit and the publication
  signal,     \* the signal Handle is about to publish
  failures,
  (* What the outside sees, kept for the properties. *)
  latest,     \* when a wallet's last recorded trade of a key was made
  high,       \* the largest cohort since the live one was last below MinWallets
  signalled,  \* the last size published since the cohort was seen to dissipate
  lost        \* the keys of which a signal was lost since then

store == <<events, fired>>
heard == <<signalled, lost>>
vars == <<clock, store, pc, signal, failures, latest, high, heard>>

Longest(m, n) == IF m >= n THEN m ELSE n

NoSignal == [key |-> "none", wallets |-> {}, at |-> 0]

(***************************************************************************)
(* Record: one transaction inserts the event, prunes the table, reaps the  *)
(* high-waters of keys without events, and counts the cohort.              *)
(***************************************************************************)
Cutoff == clock - Window

Prune(rows) == {e \in rows : e.at >= Cutoff}

\* Mutants of Reap: a leaked row; a row kept only by the current trade.
ReapNothing(marks, rows) == marks
ReapOthers(marks, rows) ==
  [k \in Keys |-> IF \E e \in rows : e.key = k /\ e.at = clock
                  THEN marks[k] ELSE 0]

Reap(marks, rows) ==
  [k \in Keys |-> IF \E e \in rows : e.key = k /\ e.at >= Cutoff
                  THEN marks[k] ELSE 0]

Cohort(rows, k) == {e.wallet : e \in {r \in rows : r.key = k /\ r.at >= Cutoff}}

\* Mutant of HighWater: it is never reset.
HighWaterKept(count, prev) == Longest(count, prev)

(* decideFire: reset below the threshold, fire on growth, keep otherwise.  *)
Fires(count, prev) == count >= MinWallets /\ count > prev

HighWater(count, prev) ==
  IF count < MinWallets THEN 0 ELSE Longest(count, prev)

Record(k, w) ==
  LET rows  == Prune(events \union {[key |-> k, wallet |-> w, at |-> clock]})
      marks == Reap(fired, rows)
      count == Cardinality(Cohort(rows, k))
  IN /\ events' = rows
     /\ fired' = [marks EXCEPT ![k] = HighWater(count, @)]
     /\ IF Fires(count, marks[k])
        THEN /\ pc' = "publish"
             /\ signal' = [key |-> k, wallets |-> Cohort(rows, k), at |-> clock]
        ELSE UNCHANGED <<pc, signal>>

--------------------------------------------------------------------------------
(* The wallets whose last recorded trade of k is in the window ending at t. *)
Live(k, t) == {w \in Wallets : latest[k][w] >= t - Window}

Size(k, t) == Cardinality(Live(k, t))

(* The largest size since the live cohort was last below the threshold.    *)
Peak(size, before) == IF size < MinWallets THEN 0 ELSE Longest(size, before)

(* The trade of w recorded now: the cohort as the outside sees it.  Short   *)
(* of the threshold it has dissipated, and what was heard of it counts no   *)
(* more.                                                                    *)
Seen(k, w) ==
  LET size == Cardinality(Live(k, clock) \union {w})
  IN /\ latest' = [latest EXCEPT ![k][w] = clock]
     /\ high' = [high EXCEPT ![k] = Peak(size, @)]
     /\ IF size < MinWallets
        THEN signalled' = [signalled EXCEPT ![k] = 0] /\ lost' = lost \ {k}
        ELSE UNCHANGED heard

\* Mutant of OnTradeDetected: replayed trades are counted too.
OnTradeCountsReplays(k, w, backfilled) ==
  /\ pc = "idle"
  /\ Record(k, w)
  /\ IF backfilled
     THEN UNCHANGED <<latest, high, heard>>
     ELSE Seen(k, w)
  /\ UNCHANGED <<clock, failures>>

(***************************************************************************)
(* Handle.  A replayed trade is ignored: its time is not the time it was   *)
(* made.                                                                   *)
(***************************************************************************)
OnTradeDetected(k, w, backfilled) ==
  /\ pc = "idle"
  /\ IF backfilled
     THEN UNCHANGED <<store, pc, signal, latest, high, heard>>
     ELSE Record(k, w) /\ Seen(k, w)
  /\ UNCHANGED <<clock, failures>>

Fail(what) ==
  /\ what \in Conditions
  /\ failures < MaxFailures
  /\ failures' = failures + 1

(* The transaction fails and rolls back: Handle logs and the trade is gone. *)
RecordFails ==
  /\ pc = "idle"
  /\ Fail("record")
  /\ UNCHANGED <<clock, store, pc, signal, latest, high, heard>>

Publish ==
  /\ pc = "publish"
  /\ pc' = "idle" /\ signal' = NoSignal
  /\ signalled' = [signalled EXCEPT ![signal.key] = Cardinality(signal.wallets)]
  /\ UNCHANGED <<clock, store, failures, latest, high, lost>>

(* NATS refuses the signal, or the process is killed before it is sent.    *)
(* The tables survive; the signal does not.                                *)
SignalLost ==
  /\ pc = "publish"
  /\ \E what \in {"publish", "crash"} : Fail(what)
  /\ pc' = "idle" /\ signal' = NoSignal
  /\ lost' = lost \union {signal.key}
  /\ UNCHANGED <<clock, store, latest, high, signalled>>

(* A trade brings a cohort one wallet at most, so that one which fell more *)
(* than one short of the threshold is seen short of it by the next trade.  *)
Tick ==
  /\ clock < MaxTime
  /\ clock' = clock + 1
  /\ high' = [k \in Keys |-> IF Size(k, clock + 1) < MinWallets THEN 0 ELSE high[k]]
  /\ signalled' = [k \in Keys |->
                     IF Size(k, clock + 1) < MinWallets - 1 THEN 0 ELSE signalled[k]]
  /\ lost' = {k \in lost : Size(k, clock + 1) >= MinWallets - 1}
  /\ UNCHANGED <<store, pc, signal, failures, latest>>

Init ==
  /\ clock = 0
  /\ events = {} /\ fired = [k \in Keys |-> 0]
  /\ pc = "idle" /\ signal = NoSignal
  /\ failures = 0
  /\ latest = [k \in Keys |-> [w \in Wallets |-> -Window - 1]]
  /\ high = [k \in Keys |-> 0]
  /\ signalled = [k \in Keys |-> 0]
  /\ lost = {}

Next ==
  \/ \E k \in Keys, w \in Wallets, backfilled \in BOOLEAN :
       OnTradeDetected(k, w, backfilled)
  \/ RecordFails
  \/ Publish
  \/ SignalLost
  \/ Tick

Spec == Init /\ [][Next]_vars

--------------------------------------------------------------------------------
Row == [key : Keys, wallet : Wallets, at : 0..MaxTime]

Sizes == 0..Cardinality(Wallets)

(* Every variable keeps its type; a pending signal names a whole cohort.   *)
TypeOK ==
  /\ clock \in 0..MaxTime
  /\ events \subseteq Row
  /\ fired \in [Keys -> Sizes \ 1..(MinWallets - 1)]
  /\ \/ pc = "idle" /\ signal = NoSignal
     \/ /\ pc = "publish"
        /\ signal \in [key : Keys, wallets : SUBSET Wallets, at : 0..MaxTime]
  /\ failures \in 0..MaxFailures
  /\ latest \in [Keys -> [Wallets -> (-Window - 1)..MaxTime]]
  /\ high \in [Keys -> Sizes]
  /\ signalled \in [Keys -> Sizes]
  /\ lost \subseteq Keys

(* A signal names exactly the wallets that traded the key live within the  *)
(* window, and at least MinWallets of them: no replay, no expired trade    *)
(* and no trade of another key is counted.                                 *)
SignalIsReal ==
  pc = "publish" =>
    /\ signal.wallets = {w \in Wallets : latest[signal.key][w] \in
                                         (signal.at - Window)..signal.at}
    /\ Cardinality(signal.wallets) >= MinWallets

(* A size is not signalled twice while the live cohort stays at or above   *)
(* the threshold, whatever expires, is pruned or reaped in between.        *)
NeverRepeats ==
  [][pc = "idle" /\ pc' = "publish"
       => Cardinality(signal'.wallets) > high[signal'.key]]_vars

(* A row of fired is there only while its key has rows in the window the   *)
(* last transaction looked at: keys that stop trading leak nothing.        *)
RowsAreLive ==
  \A k \in Keys : fired[k] > 0 => \E e \in events : e.key = k

(* The tables are well typed, and hold no row for nothing.                 *)
Inv == TypeOK /\ RowsAreLive

(* When Handle is done, a live cohort of MinWallets or more was signalled  *)
(* at its size or a larger one since it was last seen to dissipate: since  *)
(* a recorded trade left it short of the threshold, or it fell more than   *)
(* one wallet short of it; unless one of those signals was lost.           *)
CohortIsSignalled ==
  pc = "idle" =>
    \A k \in Keys \ lost :
      Size(k, clock) >= MinWallets => signalled[k] >= Size(k, clock)

(* What window.go says of decideFire, "when the live cohort falls BELOW    *)
(* minWallets the high-water is reset": the trade that makes a cohort out  *)
(* of one that was short of the threshold signals it.  Not so where only   *)
(* time took it there.                                                     *)
ReformedIsSignalled ==
  [][\A k \in Keys :
       Size(k, clock) < MinWallets /\ Size(k, clock)' >= MinWallets
         => pc' = "publish" /\ signal'.key = k]_vars

================================================================================
