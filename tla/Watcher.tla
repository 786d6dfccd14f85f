------------------------------- MODULE Watcher -------------------------------
(***************************************************************************)
(* The chain watcher (services/watcher, package chainwatch): one goroutine *)
(* that follows the OrderFilled logs of the exchange contracts and         *)
(* publishes the trades of watched wallets.  A cycle is                    *)
(*                                                                         *)
(*    read the head -> backfill from the cursor -> subscribe               *)
(*      -> read the head again -> catch up -> live                         *)
(*                                                                         *)
(* and any error ends it and starts the next.  The cursor is on disk; what *)
(* was seen, and the buffer of the block being received, are in memory.    *)
(* The node serves whole blocks to FilterLogs, but sends the logs of a     *)
(* block to a subscriber one after the other.  A log carries its block and *)
(* its index, its place in that block: a transaction that a reorganisation *)
(* includes again may have other logs for the same fills.                  *)
(***************************************************************************)
EXTENDS Integers, FiniteSets, Sequences, Bags

CONSTANTS
    Logs,          \* OrderFilled logs that may come to be in the chain
    Tx, Index,     \* the transaction of each log, and its index in its block
    Fill,          \* the fill it reports
    Inclusions,    \* the sets of logs that each transaction may have
    First,         \* the ones they have unless they are included again
    Watched,       \* the logs with a watched maker or taker
    MaxBlock,      \* the chain's height in this run
    Chunk,         \* Watcher.chunk
    ReorgDepth,    \* reorgDepth
    StreamLag,     \* how many blocks the subscription is late at most
    MaxFailures,   \* failures of all kinds in a behaviour
    MaxReorgs,     \* reorganisations among them
    Conditions     \* what the environment does in this run

(* Failures of a call, of the connection and of the process; a subscription*)
(* that pauses in the middle of a block for more than two ticks ("slow");  *)
(* blocks replaced by others ("reorg"); a database without a cursor        *)
(* ("fresh").                                                              *)
ConditionKinds == {"rpc", "publish", "save", "disconnect", "crash", "stop",
                   "slow", "reorg", "fresh"}

Transactions == {Tx[l] : l \in Logs}
LogsOf(t) == {l \in Logs : Tx[l] = t}

ASSUME WatcherAssumption ==
    /\ IsFiniteSet(Logs)
    /\ \A t \in Transactions :
         /\ Inclusions[t] \subseteq SUBSET LogsOf(t)
         /\ \A S \in Inclusions[t] :
              /\ \A l, k \in S : Index[l] = Index[k] => l = k
              /\ {Fill[l] : l \in S} = {Fill[l] : l \in LogsOf(t)}
    /\ \A t \in Transactions : First[t] \in Inclusions[t]
    /\ Watched \subseteq Logs
    /\ MaxBlock \in Nat /\ MaxFailures \in Nat /\ MaxReorgs \in Nat
    /\ Chunk \in Nat \ {0}
    /\ ReorgDepth \in Nat /\ StreamLag \in 1 .. ReorgDepth - 1
    /\ Conditions \subseteq ConditionKinds

NoCursor == -1
Blocks == 0 .. MaxBlock

(* A log as the node sent it.  One that is sent again after as many more   *)
(* reorganisations is another one: a slice would hold both.                *)
Occurrence == [log : Logs, block : Blocks, sent : 0 .. MaxReorgs]

(* What dedup.Seen tells logs apart by.                                    *)
Key(l) == <<Tx[l], Index[l]>>

(* Which of its sets of logs each transaction has.                         *)
Numberings ==
    {c \in [Transactions -> UNION {Inclusions[t] : t \in Transactions}] :
        \A t \in Transactions : c[t] \in Inclusions[t]}

Stages == {"start", "backfill", "subscribe", "newhead", "catchup", "live"}

VARIABLES
    mined,       \* the block the transaction of each log is in, 0 if in none
    current,     \* the logs that each transaction has there
    head,        \* the last block of the chain
    replaced,    \* history: the transactions of blocks that were replaced
    wire,        \* what the subscription has yet to deliver
    failures,    \* the failures so far, a bag of kinds
    pc,          \* stage of the cycle
    from, upto,  \* what is left to backfill
    buf, pendingBlock, grew,  \* the variables of runLive
    seen,        \* dedup.Seen
    cursor,      \* last_processed_block, on disk
    promised,    \* history: the block the first cursor counts from
    torn,        \* history: the transactions a flush at the end of a cycle cut
    published    \* history: the trades published, each a set of logs as sent

chain == <<mined, current, head, replaced>>
range == <<from, upto>>
live == <<buf, pendingBlock, grew>>
done == <<seen, cursor, published>>
notes == <<promised, torn>>
vars == <<chain, wire, failures, pc, range, live, done, notes>>

TypeOK ==
    /\ mined \in [Logs -> Blocks] /\ current \in Numberings
    /\ head \in Blocks
    /\ wire \in Seq(Occurrence)
    /\ IsABag(failures) /\ BagToSet(failures) \subseteq Conditions
    /\ pc \in Stages
    /\ from \in Blocks \cup {MaxBlock + 1} /\ upto \in Blocks
    /\ buf \subseteq Occurrence /\ (pc # "live" => buf = {})
    /\ \A o \in buf : o.block = pendingBlock
    /\ pendingBlock \in Blocks /\ grew \in BOOLEAN
    /\ seen \subseteq Occurrence
    /\ \A o, r \in seen : Key(o.log) = Key(r.log) => o.block = r.block
    /\ cursor \in {NoCursor} \cup Blocks
    /\ promised \in {NoCursor} \cup Blocks
    /\ torn \subseteq Transactions /\ replaced \subseteq Transactions
    /\ IsABag(published)
    /\ BagToSet(published) \subseteq (SUBSET {o \in Occurrence : o.log \in Watched}) \ {{}}

Init ==
    /\ mined = [l \in Logs |-> 0] /\ current = [t \in Transactions |-> First[t]]
    /\ head = 0
    /\ wire = <<>>
    /\ failures = EmptyBag
    /\ pc = "start"
    /\ from = 0 /\ upto = 0
    /\ buf = {} /\ pendingBlock = 0 /\ grew = FALSE
    /\ seen = {}
    /\ cursor \in {0} \cup (IF "fresh" \in Conditions THEN {NoCursor} ELSE {})
    /\ promised = cursor
    /\ torn = {} /\ replaced = {}
    /\ published = EmptyBag

-----------------------------------------------------------------------------
(* The chain and its node.                                                 *)

Reorgs == IF BagIn("reorg", failures) THEN failures["reorg"] ELSE 0

(* The logs of blocks from..to, as FilterLogs returns them.                *)
FilterLogs(a, b) ==
    {[log |-> l, block |-> mined[l], sent |-> Reorgs] :
        l \in {l \in Logs : mined[l] # 0 /\ mined[l] \in a .. b /\ l \in current[Tx[l]]}}

(* The logs of B as a sequence, block after block.                         *)
InOrder(B) ==
    LET places == 1 .. Cardinality(B) IN
    CHOOSE s \in [places -> B] :
        /\ \A o \in B : \E i \in places : s[i] = o
        /\ \A i, j \in places : i < j => s[i].block <= s[j].block

Subscribed == pc \in {"newhead", "catchup", "live"}

Deliver(B) == wire' = IF Subscribed THEN wire \o InOrder(B) ELSE wire

Fail(kinds) ==
    /\ kinds \subseteq Conditions
    /\ BagCardinality(failures) + Cardinality(kinds) <= MaxFailures
    /\ failures' = failures (+) SetToBag(kinds)

(* A new block.  128 blocks are four minutes: the subscription is never so *)
(* far behind.                                                             *)
Mine ==
    /\ head < MaxBlock
    /\ wire # <<>> => head - Head(wire).block < StreamLag
    /\ head' = head + 1
    /\ \E U \in SUBSET {t \in Transactions : \A l \in LogsOf(t) : mined[l] = 0} :
          mined' = [l \in Logs |-> IF Tx[l] \in U THEN head + 1 ELSE mined[l]]
    /\ UNCHANGED <<current, replaced, failures, pc, range, live, done, notes>>
    /\ Deliver(FilterLogs(head, head)')

(* The last two blocks are replaced; a transaction may move to another of  *)
(* them or in from outside, and each that is in them may be at another     *)
(* place.  The node sends the logs of the old blocks again, marked Removed,*)
(* which the watcher ignores, and then those of the new ones.              *)
Reorg ==
    /\ Fail({"reorg"}) /\ Reorgs' <= MaxReorgs
    /\ head > 1
    /\ LET old == {head - 1, head} IN
       \E t \in Transactions, b \in old, c \in Numberings :
          LET moved == {u \in Transactions : u = t \/ \E l \in LogsOf(u) : mined[l] \in old} IN
          /\ \A l \in LogsOf(t) : mined[l] = 0 \/ mined[l] \in old
          /\ mined' = [l \in Logs |-> IF Tx[l] = t THEN b ELSE mined[l]]
          /\ current' = [u \in Transactions |-> IF u \in moved THEN c[u] ELSE current[u]]
          /\ replaced' = replaced \cup moved
    /\ UNCHANGED <<head, pc, range, live, done, notes>>
    /\ Deliver(FilterLogs(head - 1, head)')

-----------------------------------------------------------------------------
(* processBatch.                                                           *)

(* The keys in memory.                                                     *)
SeenKeys == {Key(o.log) : o \in seen}

(* Mutant of Fresh: the logs seen are not looked at.                       *)
AllWatched(B) == {o \in B : o.log \in Watched}

(* What engine.ProcessBatch consumes, and the trades it makes of it: one   *)
(* for each transaction, of all that the batch has of it.                  *)
Fresh(B) == {o \in B : o.log \in Watched /\ Key(o.log) \notin SeenKeys}
Trades(B) ==
    {{o \in Fresh(B) : Tx[o.log] = t} : t \in {Tx[o.log] : o \in Fresh(B)}}

Marked(B) == seen \cup Fresh(B)
PruneBelow(S, block) == {o \in S : o.block >= block}

Publish(T) == published' = published (+) SetToBag(T)

(* Mutant of ProcessBatch: the cursor moves before the trades are out.     *)
AdvanceFirst(B, to, advance, ok) ==
    /\ cursor' = IF advance THEN to ELSE cursor
    /\ \/ ok /\ Publish(Trades(B)) /\ seen' = Marked(B) /\ UNCHANGED failures
       \/ ~ok /\ Fail({"publish"}) /\ UNCHANGED <<seen, published>>

(* Publishes every trade, then marks its logs, then moves the cursor when  *)
(* asked to.  ok says whether it returns nil.  When a publish fails some   *)
(* trades may be out (those whose hashes sort first) and nothing is marked.*)
ProcessBatch(B, to, advance, ok) ==
    \/ /\ ok
       /\ Publish(Trades(B))
       /\ seen' = IF advance THEN PruneBelow(Marked(B), to - ReorgDepth) ELSE Marked(B)
       /\ cursor' = IF advance THEN to ELSE cursor
       /\ UNCHANGED failures
    \/ /\ ~ok /\ advance /\ Fail({"save"})
       /\ Publish(Trades(B))
       /\ seen' = Marked(B)
       /\ UNCHANGED cursor
    \/ /\ ~ok /\ Fail({"publish"})
       /\ \E out \in (SUBSET Trades(B)) \ {Trades(B)} : Publish(out)
       /\ UNCHANGED <<seen, cursor>>

(* The cycle returns: the subscription and the variables of runLive go.    *)
EndCycle ==
    /\ pc' = "start"
    /\ wire' = <<>>
    /\ buf' = {} /\ pendingBlock' = 0 /\ grew' = FALSE

-----------------------------------------------------------------------------
(* cycle.                                                                  *)

(* BlockNumber and startBlock: resume after the cursor, or at the head if  *)
(* there is none.                                                          *)
ReadHead ==
    /\ pc = "start"
    /\ upto' = head
    /\ from' = IF cursor = NoCursor THEN head ELSE cursor + 1
    /\ promised' = IF cursor = NoCursor THEN head ELSE promised
    /\ pc' = "backfill"
    /\ UNCHANGED <<chain, wire, failures, live, done, torn>>

(* One turn of the loop of backfill, before and after the subscription.    *)
Backfill ==
    LET end == IF from + Chunk - 1 > upto THEN upto ELSE from + Chunk - 1 IN
    /\ pc \in {"backfill", "catchup"}
    /\ \/ /\ from > upto
          /\ pc' = IF pc = "backfill" THEN "subscribe" ELSE "live"
          /\ UNCHANGED <<wire, failures, range, live, done>>
       \/ /\ from <= upto
          /\ ProcessBatch(FilterLogs(from, end), end, TRUE, TRUE)
          /\ from' = end + 1
          /\ UNCHANGED <<wire, pc, upto, live>>
       \/ /\ from <= upto
          /\ ProcessBatch(FilterLogs(from, end), end, TRUE, FALSE)
          /\ EndCycle
          /\ UNCHANGED range
    /\ UNCHANGED <<chain, notes>>

Subscribe ==
    /\ pc = "subscribe"
    /\ pc' = "newhead"
    /\ UNCHANGED <<chain, wire, failures, range, live, done, notes>>

(* Mutant of NewHead: no catch-up.                                         *)
NewHeadIgnored ==
    /\ pc = "newhead"
    /\ pc' = "live"
    /\ UNCHANGED <<chain, wire, failures, range, live, done, notes>>

NewHead ==
    /\ pc = "newhead"
    /\ from' = upto + 1
    /\ upto' = head
    /\ pc' = "catchup"
    /\ UNCHANGED <<chain, wire, failures, live, done, notes>>

(* A call to the node fails.                                               *)
RpcError ==
    /\ pc # "live"
    /\ Fail({"rpc"})
    /\ EndCycle
    /\ UNCHANGED <<chain, range, done, notes>>

-----------------------------------------------------------------------------
(* runLive.                                                                *)

(* A log arrives: below the pending block it is skipped; above it, it      *)
(* completes the pending block, which is flushed first.                    *)
Receive ==
    LET o == Head(wire)
        buffer(B) == buf' = B \cup {o} /\ pendingBlock' = o.block /\ grew' = TRUE
        boundary == buf # {} /\ o.block > pendingBlock
    IN
    /\ pc = "live" /\ wire # <<>>
    /\ \/ /\ o.block < pendingBlock
          /\ wire' = Tail(wire)
          /\ UNCHANGED <<failures, pc, live, done>>
       \/ /\ o.block >= pendingBlock /\ ~boundary
          /\ wire' = Tail(wire)
          /\ buffer(buf)
          /\ UNCHANGED <<failures, pc, done>>
       \/ /\ boundary
          /\ ProcessBatch(buf, pendingBlock, TRUE, TRUE)
          /\ wire' = Tail(wire)
          /\ buffer({})
          /\ UNCHANGED pc
       \/ /\ boundary
          /\ ProcessBatch(buf, pendingBlock, TRUE, FALSE)
          /\ EndCycle
    /\ UNCHANGED <<chain, range, notes>>

(* Mutant of Tick: no second tick is waited for, logs on the way or not.   *)
TickEager ==
    /\ pc = "live" /\ buf # {}
    /\ ProcessBatch(buf, pendingBlock, TRUE, TRUE)
    /\ buf' = {}
    /\ UNCHANGED <<chain, wire, pc, range, pendingBlock, grew, notes>>

(* A tick of the flush ticker.  Unless the subscription is slow it has     *)
(* delivered everything it was going to by the time two ticks pass.        *)
Tick ==
    /\ pc = "live"
    /\ "slow" \in Conditions \/ wire = <<>>
    /\ \/ /\ grew
          /\ grew' = FALSE
          /\ UNCHANGED <<wire, failures, pc, buf, pendingBlock, done>>
       \/ /\ ~grew /\ buf # {}
          /\ ProcessBatch(buf, pendingBlock, TRUE, TRUE)
          /\ buf' = {}
          /\ UNCHANGED <<wire, pc, pendingBlock, grew>>
       \/ /\ ~grew /\ buf # {}
          /\ ProcessBatch(buf, pendingBlock, TRUE, FALSE)
          /\ EndCycle
    /\ UNCHANGED <<chain, range, notes>>

(* What is buffered is published at the end of a connection or of the      *)
(* process; an error is ignored.                                           *)
LastFlush(condition) ==
    \/ Fail({condition}) /\ Publish(Trades(buf)) /\ seen' = Marked(buf)
    \/ /\ Fail({condition, "publish"})
       /\ \E out \in (SUBSET Trades(buf)) \ {Trades(buf)} : Publish(out)
       /\ UNCHANGED seen

Tear == torn' = torn \cup {Tx[o.log] : o \in buf}

(* sub.Err(): the cursor stays.                                            *)
Disconnect ==
    /\ pc = "live"
    /\ LastFlush("disconnect")
    /\ Tear
    /\ EndCycle
    /\ UNCHANGED <<chain, range, cursor, promised>>

(* ctx.Done(): the same, and the process comes back later.                 *)
Stop ==
    /\ \/ Fail({"stop"}) /\ Publish(Trades(buf))
       \/ /\ Fail({"stop", "publish"})
          /\ \E out \in (SUBSET Trades(buf)) \ {Trades(buf)} : Publish(out)
    /\ seen' = {}
    /\ Tear
    /\ EndCycle
    /\ UNCHANGED <<chain, range, cursor, promised>>

Crash ==
    /\ Fail({"crash"})
    /\ seen' = {}
    /\ EndCycle
    /\ UNCHANGED <<chain, range, cursor, published, notes>>

Step == ReadHead \/ Backfill \/ Subscribe \/ NewHead \/ Receive \/ Tick

Next == Mine \/ Reorg \/ Step \/ RpcError \/ Disconnect \/ Stop \/ Crash

Spec == Init /\ [][Next]_vars

(* The goroutine runs on, its retries included: calls return, the ticker   *)
(* ticks and the node delivers what it has.                                *)
FairSpec == Spec /\ WF_vars(Step)
-----------------------------------------------------------------------------
(* Properties.                                                             *)

Published(l) == \E T \in BagToSet(published) : \E o \in T : o.log = l

InChain(l) == mined[l] # 0 /\ l \in current[Tx[l]]

Suffered(kinds) == BagToSet(failures) \cap kinds # {}

(* "a publish failure leaves nothing marked or advanced" and the cursor    *)
(* "never advances ... into a partially-streamed block" (chainwatch.go:    *)
(* 211-215, 277-280): every watched log up to the cursor has been          *)
(* published, so that a restart, which resumes after it, misses nothing.   *)
(* A reorganisation may put what is in the blocks it replaces below the    *)
(* cursor; it takes nothing from the others.                               *)
CursorCovers ==
    \A l \in Watched :
        /\ InChain(l) /\ Tx[l] \notin replaced
        /\ promised # NoCursor /\ mined[l] \in promised .. cursor
        => Published(l)

(* The connection and the buffer are well typed, and the cursor covers.    *)
Inv == TypeOK /\ CursorCovers

(* "dedup makes the overlap safe" (chainwatch.go:99-100): backfill, catch- *)
(* up and the live stream together, across reconnects and the blocks that  *)
(* a reorganisation sends again, publish what has one transaction and index*)
(* in one trade and once, as long as the process lives and no publication  *)
(* fails half-way.                                                         *)
EmittedOnce ==
    ~Suffered({"crash", "stop", "publish"}) =>
        \A T \in BagToSet(published) :
            /\ published[T] = 1
            /\ \A U \in BagToSet(published) : \A o \in T, r \in U :
                 Key(o.log) = Key(r.log) => T = U

(* "so the backfill and live subscription never emit a trade twice"        *)
(* (dedup.go:1-2): so no fill is in two trades, nor twice in one. Not so   *)
(* when its block is replaced.                                             *)
FillEmittedOnce ==
    ~Suffered({"crash", "stop", "publish"}) =>
        \A T, U \in BagToSet(published) : \A o \in T, r \in U :
            Fill[o.log] = Fill[r.log] => T = U /\ o = r

(* "keeps a tx's logs together for VWAP aggregation" (chainwatch.go:213):  *)
(* a trade is made of all the fills of its transaction, unless the flush   *)
(* at the end of a connection or of the process came in its middle, or its *)
(* block was replaced.                                                     *)
WholeTrades ==
    \A T \in BagToSet(published) : \A o \in T :
        \/ Tx[o.log] \in torn \cup replaced
        \/ current[Tx[o.log]] \cap Watched \subseteq {r.log : r \in T}

(* The transaction is in a block the cursor counts from.                   *)
Due(t) ==
    promised # NoCursor /\ \E l \in LogsOf(t) : mined[l] # 0 /\ mined[l] >= promised

(* "no missed ... trades across restarts/reconnects" (PLAN.md:219): the    *)
(* watched fills of a transaction that is in the chain are published, if   *)
(* its block stays.                                                        *)
EveryTradePublished ==
    \A t \in Transactions :
        Due(t) ~> \/ \A l \in current[t] \cap Watched : Published(l)
                 \/ ~Due(t) \/ t \in replaced
=============================================================================
