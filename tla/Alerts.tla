------------------------------- MODULE Alerts -------------------------------
(***************************************************************************)
(* The alerts of the notifier (services/notifier, packages handler and     *)
(* dispatch).  The callback of trades.detected submits a job for every     *)
(* trade to a pool with a bounded queue; a worker runs it:                 *)
(*                                                                         *)
(*    fill seen? -> group cooling down? -> Send                            *)
(*      -> does it touch a position held? -> position seen? -> Send        *)
(*                                                                         *)
(* Trades of one wallet on the same token and side form a group, and the   *)
(* trades of a group within the cooldown a burst, that is worth one alert. *)
(* The three memories are TTL sets; a key is present while the clock is    *)
(* before its expiry.  Workers interleave between any two of the arrows.   *)
(***************************************************************************)
EXTENDS Integers, Sequences, FiniteSets

CONSTANTS
    Fills,           \* trades detected, each with a key of its own
    Group,           \* the group of each fill
    Workers, NoFill,
    QueueSize,       \* alertQueueSize
    DedupTTL,        \* AlertDedupTTL
    Cooldown,        \* AlertCooldown
    MaxTime,         \* the horizon of the clock
    MaxDeliveries,   \* how often the bus hands over the same trade
    MaxFailures,     \* failed sends in a behaviour
    Conditions       \* what the environment does in this run

(* An error of Send although the message was delivered ("reply"), games    *)
(* that are over ("ended"), a change of the user's positions ("positions"),*)
(* a shutdown ("drain").                                                   *)
ConditionKinds == {"reply", "ended", "positions", "drain"}

ASSUME AlertsAssumption ==
    /\ NoFill \notin Fills
    /\ DOMAIN Group = Fills
    /\ {QueueSize, Cooldown, DedupTTL, MaxTime} \subseteq Nat \ {0} /\ Cooldown < DedupTTL
    /\ {MaxDeliveries, MaxFailures} \subseteq Nat
    /\ Conditions \subseteq ConditionKinds

Groups == {Group[f] : f \in Fills}
Stages == {"idle", "dedup", "cooldown", "send", "undo", "undoCooldown",
           "match", "remember", "sendPosition"}

VARIABLES
    clock,
    deliveries,   \* how often each trade was handed over
    queue,        \* Pool.jobs
    closed,       \* Pool.closed
    dropped,      \* history: the trades whose job was dropped
    stage, job,   \* what each worker does, and for which trade
    claimed,      \* when its job passed the cooldown, or was taken
    fillUntil,    \* expiries of the keys of fills,
    coolUntil,    \* of groups,
    positionUntil,\* and of position alerts; 0 for none
    holding,      \* groups that touch a position of the user, as last polled
    failures,     \* failed sends so far
    steady,       \* history: the groups held ever since the start
    told,         \* history: the trades an alert reached the user for
    alerts,       \* history: when the alerts Send acknowledged were claimed
    positions,    \* history: the trades a position alert was delivered for
    over          \* history: the groups whose game was found to be over

pool == <<queue, closed, dropped>>
worker == <<stage, job, claimed>>
memory == <<fillUntil, coolUntil, positionUntil>>
history == <<told, alerts, positions, over>>
portfolio == <<holding, steady>>
vars == <<clock, deliveries, pool, worker, memory, portfolio, failures, history>>

TypeOK ==
    /\ clock \in 1 .. MaxTime
    /\ deliveries \in [Fills -> 0 .. MaxDeliveries]
    /\ queue \in Seq(Fills) /\ Len(queue) <= QueueSize
    /\ closed \in BOOLEAN
    /\ dropped \subseteq Fills
    /\ stage \in [Workers -> Stages]
    /\ job \in [Workers -> Fills \cup {NoFill}]
    /\ \A w \in Workers : stage[w] = "idle" <=> job[w] = NoFill
    /\ claimed \in [Workers -> 0 .. MaxTime]
    /\ fillUntil \in [Fills -> Nat] /\ coolUntil \in [Groups -> Nat]
    /\ positionUntil \in [Fills -> Nat]
    /\ steady \subseteq holding /\ holding \subseteq Groups
    /\ failures \in 0 .. MaxFailures
    /\ alerts \in [Fills -> Seq(1 .. MaxTime)]
    /\ told \subseteq Fills /\ positions \subseteq told /\ over \subseteq Groups

Init ==
    /\ clock = 1
    /\ deliveries = [f \in Fills |-> 0]
    /\ queue = <<>> /\ closed = FALSE /\ dropped = {}
    /\ stage = [w \in Workers |-> "idle"]
    /\ job = [w \in Workers |-> NoFill]
    /\ claimed = [w \in Workers |-> 0]
    /\ fillUntil = [f \in Fills |-> 0]
    /\ coolUntil = [g \in Groups |-> 0]
    /\ positionUntil = [f \in Fills |-> 0]
    /\ holding \in SUBSET Groups /\ steady = holding
    /\ failures = 0
    /\ alerts = [f \in Fills |-> <<>>]
    /\ told = {} /\ positions = {} /\ over = {}

-----------------------------------------------------------------------------
(* TTLSet.                                                                 *)

Present(until, key) == clock < until[key]
Add(until, key, ttl) == [until EXCEPT ![key] = clock + ttl]
Remove(until, key) == [until EXCEPT ![key] = 0]

(* dispatch.Pool.                                                          *)

(* The bus hands over a trade, anew or again, and its job is submitted. It *)
(* is dropped if the queue is full or the pool is draining.                *)
Submit(f) ==
    /\ deliveries[f] < MaxDeliveries
    /\ deliveries' = [deliveries EXCEPT ![f] = @ + 1]
    /\ IF ~closed /\ Len(queue) < QueueSize
       THEN queue' = Append(queue, f) /\ UNCHANGED dropped
       ELSE dropped' = dropped \cup {f} /\ UNCHANGED queue
    /\ UNCHANGED <<closed, clock, worker, memory, portfolio, failures, history>>

Drain ==
    /\ "drain" \in Conditions
    /\ ~closed
    /\ closed' = TRUE
    /\ UNCHANGED <<clock, deliveries, queue, dropped, worker, memory, portfolio, failures, history>>

(* Workers take jobs in order, those queued before the pool was closed too.*)
Take(w) ==
    /\ stage[w] = "idle" /\ queue # <<>>
    /\ stage' = [stage EXCEPT ![w] = "dedup"]
    /\ job' = [job EXCEPT ![w] = Head(queue)]
    /\ claimed' = [claimed EXCEPT ![w] = clock]
    /\ queue' = Tail(queue)
    /\ UNCHANGED <<closed, dropped, clock, deliveries, memory, portfolio, failures, history>>

-----------------------------------------------------------------------------
(* Handler.Handle.                                                         *)

Goto(w, s) == stage' = [stage EXCEPT ![w] = s] /\ UNCHANGED job
Finish(w) == stage' = [stage EXCEPT ![w] = "idle"] /\ job' = [job EXCEPT ![w] = NoFill]

(* Mutant of CheckFill: the key is read, not claimed.                      *)
CheckFillReads(w) ==
    /\ stage[w] = "dedup"
    /\ IF Present(fillUntil, job[w]) THEN Finish(w) ELSE Goto(w, "cooldown")
    /\ UNCHANGED <<clock, deliveries, pool, claimed, memory, portfolio, failures, history>>

CheckFill(w) ==
    LET f == job[w] IN
    /\ stage[w] = "dedup"
    /\ \/ Present(fillUntil, f) /\ Finish(w) /\ UNCHANGED fillUntil
       \/ ~Present(fillUntil, f) /\ Goto(w, "cooldown") /\ fillUntil' = Add(fillUntil, f, DedupTTL)
    /\ UNCHANGED <<clock, deliveries, pool, claimed, coolUntil, positionUntil, portfolio, failures, history>>

(* Mutant of CheckCooldown: the key is read, not claimed.                  *)
CheckCooldownReads(w) ==
    LET g == Group[job[w]] IN
    /\ stage[w] = "cooldown"
    /\ IF Present(coolUntil, g) THEN Finish(w) ELSE Goto(w, "send")
    /\ UNCHANGED <<clock, deliveries, pool, claimed, memory, portfolio, failures, history>>

(* A trade of a group that cools down is done with; its key stays.         *)
CheckCooldown(w) ==
    LET g == Group[job[w]] IN
    /\ stage[w] = "cooldown"
    /\ \/ Present(coolUntil, g) /\ Finish(w) /\ UNCHANGED <<claimed, coolUntil>>
       \/ /\ ~Present(coolUntil, g)
          /\ Goto(w, "send")
          /\ claimed' = [claimed EXCEPT ![w] = clock]
          /\ coolUntil' = Add(coolUntil, g, Cooldown)
    /\ UNCHANGED <<clock, deliveries, pool, fillUntil, positionUntil, portfolio, failures, history>>

Acknowledged(w) == alerts' = [alerts EXCEPT ![job[w]] = Append(@, claimed[w])]
Reached(w) == told' = told \cup {job[w]}

SendFails == failures < MaxFailures /\ failures' = failures + 1

(* The lookups, which can only show that the game is over, and Send.       *)
SendAlert(w) ==
    /\ stage[w] = "send"
    /\ \/ /\ "ended" \in Conditions
          /\ Finish(w)
          /\ over' = over \cup {Group[job[w]]}
          /\ UNCHANGED <<failures, told, alerts>>
       \/ Goto(w, "match") /\ Reached(w) /\ Acknowledged(w) /\ UNCHANGED <<failures, over>>
       \/ /\ SendFails
          /\ Goto(w, "undo")
          /\ UNCHANGED told \/ ("reply" \in Conditions /\ Reached(w))
          /\ UNCHANGED <<alerts, over>>
    /\ UNCHANGED <<clock, deliveries, pool, claimed, memory, portfolio, positions>>

UndoFill(w) ==
    /\ stage[w] = "undo"
    /\ Goto(w, "undoCooldown")
    /\ fillUntil' = Remove(fillUntil, job[w])
    /\ UNCHANGED <<clock, deliveries, pool, claimed, coolUntil, positionUntil, portfolio, failures, history>>

(* Mutant of UndoCooldown: only the fill may be tried again.               *)
UndoCooldownNot(w) ==
    /\ stage[w] = "undoCooldown"
    /\ Finish(w)
    /\ UNCHANGED <<clock, deliveries, pool, claimed, memory, portfolio, failures, history>>

UndoCooldown(w) ==
    /\ stage[w] = "undoCooldown"
    /\ Finish(w)
    /\ coolUntil' = Remove(coolUntil, Group[job[w]])
    /\ UNCHANGED <<clock, deliveries, pool, claimed, fillUntil, positionUntil, portfolio, failures, history>>

(* maybePositionAlert: positions.Cache.Match, then a key of its own.       *)
MatchPosition(w) ==
    /\ stage[w] = "match"
    /\ IF Group[job[w]] \in holding THEN Goto(w, "remember") ELSE Finish(w)
    /\ UNCHANGED <<clock, deliveries, pool, claimed, memory, portfolio, failures, history>>

(* Mutant of RememberPosition: it shares the key of the fill.              *)
RememberPositionAsFill(w) ==
    /\ stage[w] = "remember"
    /\ IF Present(fillUntil, job[w]) THEN Finish(w) ELSE Goto(w, "sendPosition")
    /\ UNCHANGED <<clock, deliveries, pool, claimed, memory, portfolio, failures, history>>

RememberPosition(w) ==
    LET f == job[w] IN
    /\ stage[w] = "remember"
    /\ \/ Present(positionUntil, f) /\ Finish(w) /\ UNCHANGED positionUntil
       \/ /\ ~Present(positionUntil, f)
          /\ Goto(w, "sendPosition")
          /\ positionUntil' = Add(positionUntil, f, DedupTTL)
    /\ UNCHANGED <<clock, deliveries, pool, claimed, fillUntil, coolUntil, portfolio, failures, history>>

SendPosition(w) ==
    /\ stage[w] = "sendPosition"
    /\ \/ positions' = positions \cup {job[w]} /\ UNCHANGED <<failures, positionUntil>>
       \/ SendFails /\ positionUntil' = Remove(positionUntil, job[w]) /\ UNCHANGED positions
    /\ Finish(w)
    /\ UNCHANGED <<clock, deliveries, pool, claimed, fillUntil, coolUntil, portfolio, told, alerts, over>>

-----------------------------------------------------------------------------
(* pollPositions replaces what the user holds.                             *)
PollPositions ==
    /\ "positions" \in Conditions
    /\ holding' \in SUBSET Groups
    /\ steady' = steady \cap holding'
    /\ UNCHANGED <<clock, deliveries, pool, worker, memory, failures, history>>

(* A job has a deadline (svc.Detached), shorter than the cooldown.         *)
Tick ==
    /\ clock < MaxTime
    /\ \A w \in Workers : stage[w] # "idle" => clock - claimed[w] < Cooldown - 1
    /\ clock' = clock + 1
    /\ UNCHANGED <<deliveries, pool, worker, memory, portfolio, failures, history>>

Work(w) ==
    \/ Take(w) \/ CheckFill(w) \/ CheckCooldown(w)
    \/ SendAlert(w) \/ UndoFill(w) \/ UndoCooldown(w)
    \/ MatchPosition(w) \/ RememberPosition(w) \/ SendPosition(w)

Next ==
    \/ \E f \in Fills : Submit(f)
    \/ Drain
    \/ \E w \in Workers : Work(w)
    \/ PollPositions
    \/ Tick

Spec == Init /\ [][Next]_vars
-----------------------------------------------------------------------------
(* Properties.                                                             *)

Apart(m, n, time) == m - n >= time \/ n - m >= time

(* "repeated wallet+market+side trades within the cooldown are collapsed"  *)
(* (handler.go:93): whatever the workers do at the same time, two alerts   *)
(* of one group that Telegram acknowledged are a cooldown apart.           *)
OneAlertPerBurst ==
    \A f, e \in Fills : Group[f] = Group[e] =>
        \A i \in DOMAIN alerts[f], k \in DOMAIN alerts[e] :
            <<f, i>> # <<e, k>> => Apart(alerts[f][i], alerts[e][k], Cooldown)

(* "Exact re-emits are dropped" (handler.go:92): a fill that was alerted   *)
(* and acknowledged is not alerted again before its key expires.           *)
AlertedOnce ==
    \A f \in Fills : \A i, k \in DOMAIN alerts[f] :
        i # k => Apart(alerts[f][i], alerts[f][k], DedupTTL - Cooldown + 1)

(* The queue and the keys are well typed, and re-emits are dropped.        *)
Inv == TypeOK /\ AlertedOnce

Quiet == queue = <<>> /\ \A w \in Workers : stage[w] = "idle"

GroupAlerted(g) == \E f \in told : Group[f] = g

(* After a failed send "the cooldown key MUST also be cleared or it would  *)
(* block that very retry" (handler.go:123-125): a group cools down only for*)
(* an alert that reached the user or is under way, or when its game is over*)
CooldownIsEarned ==
    \A g \in Groups : Present(coolUntil, g) =>
        \/ GroupAlerted(g) \/ g \in over
        \/ \E w \in Workers :
              job[w] # NoFill /\ Group[job[w]] = g /\ stage[w] \in {"send", "undo", "undoCooldown"}

(* "no position alert is lost: ... the burst's FIRST trade always passes   *)
(* the cooldown and delivers the alert once" (handler.go:147-151): where   *)
(* the sends succeed, an alert on a market held all along is followed by a *)
(* position alert for its group.                                           *)
PositionIsAlerted ==
    Quiet /\ failures = 0 => \A g \in steady :
        GroupAlerted(g) => \E f \in positions : Group[f] = g
=============================================================================
