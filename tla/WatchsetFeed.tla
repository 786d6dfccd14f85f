---------------------------- MODULE WatchsetFeed ----------------------------
(***************************************************************************)
(* How the watchset travels from the leaderboard, which selects it, to the *)
(* watcher, which uses it (services/leaderboard, packages store and server;*)
(* services/watcher, packages feeder and watchset).                        *)
(*                                                                         *)
(*   syncer:  Replace the table -> Broadcast the difference                *)
(*   server:  StreamWatchset: subscribe -> send the table -> forward       *)
(*   feeder:  GetWatchset -> apply -> StreamWatchset -> apply, apply, ...  *)
(*                                                                         *)
(* Broadcast puts the difference into the bounded channel of every         *)
(* subscriber and evicts the one whose channel is full.  Subscribers do    *)
(* not affect each other; there is one here.  The table is on disk, the    *)
(* set of the watcher in memory.                                           *)
(***************************************************************************)
EXTENDS Naturals, Sequences, FiniteSets

CONSTANTS
    Wallets,
    InitialTable,   \* the watchset table at the start
    SubBuffer,      \* subBuffer
    MaxRefreshes,   \* changes of the watchset in a behaviour
    MaxBreaks       \* failures in a behaviour

ASSUME FeedAssumption ==
    /\ InitialTable \subseteq Wallets
    /\ SubBuffer \in Nat \ {0}
    /\ MaxRefreshes \in Nat /\ MaxBreaks \in Nat

Update == [added : SUBSET Wallets, removed : SUBSET Wallets]
Change(old, new) == [added |-> new \ old, removed |-> old \ new]
Nothing == [added |-> {}, removed |-> {}]

VARIABLES
    table,       \* the watchset table
    unsent,      \* the difference Replace returned, not yet broadcast
    refreshes,   \* number of changes so far
    handler,     \* the StreamWatchset call: none, subscribed or streaming
    lost,        \* its subscriber was evicted
    ch,          \* the channel of its subscriber
    sent,        \* updates sent on the stream, not yet received
    ended,       \* the stream ends after what is on the wire
    feeder,      \* stage of Feeder.Run
    reply,       \* the answer to GetWatchset
    watch,       \* watchset.Set
    ready,       \* the chain watcher has been let go
    breaks       \* number of failures so far

syncer == <<table, unsent, refreshes>>
stream == <<handler, lost, ch, sent, ended>>
client == <<feeder, reply, watch, ready>>
feedVars == <<syncer, stream, client, breaks>>

FeedTypeOK ==
    /\ table \subseteq Wallets
    /\ unsent \in Update
    /\ refreshes \in 0 .. MaxRefreshes
    /\ handler \in {"none", "subscribed", "streaming"}
    /\ lost \in BOOLEAN /\ ended \in BOOLEAN
    /\ ch \in Seq(Update) /\ Len(ch) <= SubBuffer
    /\ sent \in Seq(Update)
    /\ (handler = "none" => ch = <<>> /\ ~lost)
    /\ feeder \in {"snapshot", "apply", "open", "recv"}
    /\ (feeder # "recv" => handler = "none" /\ sent = <<>> /\ ~ended)
    /\ reply \subseteq Wallets
    /\ watch \subseteq Wallets
    /\ ready \in BOOLEAN
    /\ breaks \in 0 .. MaxBreaks

FeedInit ==
    /\ table = InitialTable
    /\ unsent = Nothing
    /\ refreshes = 0
    /\ handler = "none" /\ lost = FALSE /\ ch = <<>> /\ sent = <<>> /\ ended = FALSE
    /\ feeder = "snapshot" /\ reply = {} /\ watch = {} /\ ready = FALSE
    /\ breaks = 0

-----------------------------------------------------------------------------
(* The syncer.                                                             *)

(* Store.Replace, in one transaction; an empty selection is refused.       *)
Replace(wallets) ==
    /\ unsent = Nothing
    /\ refreshes < MaxRefreshes
    /\ wallets # {} /\ wallets # table
    /\ table' = wallets
    /\ unsent' = Change(table, wallets)
    /\ refreshes' = refreshes + 1
    /\ UNCHANGED <<stream, client, breaks>>

(* Mutant of Broadcast: a full channel drops the difference.               *)
BroadcastDrops ==
    /\ unsent # Nothing
    /\ ch' = IF handler # "none" /\ Len(ch) < SubBuffer THEN Append(ch, unsent) ELSE ch
    /\ unsent' = Nothing
    /\ UNCHANGED <<table, refreshes, handler, lost, sent, ended, client, breaks>>

(* Server.Broadcast never blocks: a subscriber without room is evicted.    *)
Broadcast ==
    LET subscribed == handler # "none" /\ ~lost
        room == Len(ch) < SubBuffer
    IN
    /\ unsent # Nothing
    /\ ch' = IF subscribed /\ room THEN Append(ch, unsent) ELSE ch
    /\ lost' = (lost \/ (subscribed /\ ~room))
    /\ unsent' = Nothing
    /\ UNCHANGED <<table, refreshes, handler, sent, ended, client, breaks>>

-----------------------------------------------------------------------------
(* The server's side of StreamWatchset.                                    *)

(* Mutant of SendTable: not sent.                                          *)
SendNoTable ==
    /\ handler = "subscribed"
    /\ handler' = "streaming"
    /\ UNCHANGED <<syncer, lost, ch, sent, ended, client, breaks>>

(* The table as it is now, unless it is empty, is the first update.        *)
SendTable ==
    /\ handler = "subscribed"
    /\ handler' = "streaming"
    /\ sent' = IF table = {} THEN sent ELSE Append(sent, Change({}, table))
    /\ UNCHANGED <<syncer, lost, ch, ended, client, breaks>>

(* The loop of StreamWatchset: forward, or give up when evicted; when both *)
(* are possible either may come first.                                     *)
Forward ==
    /\ handler = "streaming"
    /\ ch # <<>>
    /\ sent' = Append(sent, Head(ch))
    /\ ch' = Tail(ch)
    /\ UNCHANGED <<syncer, handler, lost, ended, client, breaks>>

GiveUp ==
    /\ handler = "streaming"
    /\ lost
    /\ handler' = "none" /\ lost' = FALSE /\ ch' = <<>>
    /\ ended' = TRUE
    /\ UNCHANGED <<syncer, sent, client, breaks>>

-----------------------------------------------------------------------------
(* The watcher's feeder.                                                   *)

NoStream == handler' = "none" /\ lost' = FALSE /\ ch' = <<>> /\ sent' = <<>> /\ ended' = FALSE

(* Feeder.Snapshot: GetWatchset is answered ...                            *)
GetWatchset ==
    /\ feeder = "snapshot"
    /\ reply' = table
    /\ feeder' = "apply"
    /\ UNCHANGED <<syncer, stream, watch, ready, breaks>>

(* ... and the answer applied as additions.  The first one lets the chain  *)
(* watcher start.                                                          *)
ApplySnapshot ==
    /\ feeder = "apply"
    /\ watch' = watch \cup reply
    /\ reply' = {}
    /\ ready' = TRUE
    /\ feeder' = "open"
    /\ UNCHANGED <<syncer, stream, breaks>>

OpenStream ==
    /\ feeder = "open"
    /\ handler' = "subscribed"
    /\ feeder' = "recv"
    /\ UNCHANGED <<syncer, lost, ch, sent, ended, reply, watch, ready, breaks>>

(* Feeder.Stream applies what it receives ...                              *)
Recv ==
    /\ feeder = "recv"
    /\ sent # <<>>
    /\ watch' = (watch \cup Head(sent).added) \ Head(sent).removed
    /\ sent' = Tail(sent)
    /\ UNCHANGED <<syncer, handler, lost, ch, ended, feeder, reply, ready, breaks>>

(* ... and starts over with a snapshot at the end of the stream.           *)
StreamEnds ==
    /\ feeder = "recv"
    /\ sent = <<>> /\ ended
    /\ NoStream
    /\ feeder' = "snapshot"
    /\ UNCHANGED <<syncer, reply, watch, ready, breaks>>

-----------------------------------------------------------------------------
(* Failures.                                                               *)

Break == breaks < MaxBreaks /\ breaks' = breaks + 1

(* The connection breaks, in the stream or in a call.                      *)
StreamBreaks ==
    /\ Break
    /\ NoStream
    /\ feeder' = "snapshot" /\ reply' = {}
    /\ UNCHANGED <<syncer, watch, ready>>

(* The leaderboard restarts: a difference not yet broadcast is forgotten.  *)
LeaderboardRestarts ==
    /\ Break
    /\ unsent' = Nothing
    /\ NoStream
    /\ feeder' = "snapshot" /\ reply' = {}
    /\ UNCHANGED <<table, refreshes, watch, ready>>

WatcherRestarts ==
    /\ Break
    /\ NoStream
    /\ feeder' = "snapshot" /\ reply' = {} /\ watch' = {} /\ ready' = FALSE
    /\ UNCHANGED syncer

Server == SendTable \/ Forward \/ GiveUp
Feeder == GetWatchset \/ ApplySnapshot \/ OpenStream \/ Recv \/ StreamEnds

FeedNext ==
    \/ \E W \in SUBSET Wallets : Replace(W)
    \/ Broadcast
    \/ Server
    \/ Feeder
    \/ StreamBreaks
    \/ LeaderboardRestarts
    \/ WatcherRestarts

FeedSpec == FeedInit /\ [][FeedNext]_feedVars

(* Goroutines run on and the feeder keeps reconnecting; nothing makes the  *)
(* syncer change the watchset.                                             *)
FairFeedSpec == FeedSpec /\ WF_feedVars(Broadcast) /\ WF_feedVars(Server) /\ WF_feedVars(Feeder)
-----------------------------------------------------------------------------
(* Properties.                                                             *)

(* A stream in which nothing is under way.                                 *)
Settled == handler = "streaming" /\ ~lost /\ ch = <<>> /\ sent = <<>> /\ unsent = Nothing

(* "subscribes first (to avoid a TOCTOU gap where a change between         *)
(* snapshot and subscribe is missed)" (server.go:108-110): a settled       *)
(* stream misses no wallet of the table, whatever happened on the way to   *)
(* it and however full the channel was.                                    *)
NothingMissing == Settled => table \subseteq watch

(* The channel keeps its bound, and a settled stream misses nothing.       *)
FeedIsSound == FeedTypeOK /\ NothingMissing

(* A wallet that stays in the table is watched for good in the end.        *)
EventuallyWatched == \A w \in Wallets : <>[](w \in table) => <>[](w \in watch)

(* And one that stays out of it is no longer watched: the stream signals   *)
(* "the client to reconnect and re-sync rather than silently falling out   *)
(* of date" (server.go:146-148).                                           *)
EventuallyForgotten == \A w \in Wallets : <>[](w \notin table) => <>[](w \notin watch)
=============================================================================
