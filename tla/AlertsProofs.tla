---------------------------- MODULE AlertsProofs ----------------------------
(***************************************************************************)
(* Proofs about Alerts: whatever the workers do at the same time, for any  *)
(* number of trades, workers and groups and any times to live.             *)
(*                                                                         *)
(* A key is a claim.  The worker that set a group's key owns the right to  *)
(* alert of the group until the alert is sent or undone, and a job is over *)
(* before the key expires; so the key a worker removes is its own, and the *)
(* time it records is a cooldown later than every time recorded before.    *)
(***************************************************************************)
EXTENDS Alerts, TLAPS

(* A worker between claiming a group and having sent or undone its alert.  *)
Claims(w, g) ==
    /\ job[w] # NoFill /\ Group[job[w]] = g
    /\ stage[w] \in {"send", "undo", "undoCooldown"}

(* A worker between claiming a fill and having sent or undone its alert.   *)
Holds(w, f) == job[w] = f /\ stage[w] \in {"cooldown", "send", "undo"}

(* A worker that alerted of a fill and may yet send its position alert.    *)
Posts(w, f) == job[w] = f /\ stage[w] \in {"match", "remember", "sendPosition"}

(* A job ends before the cooldown that it may have claimed.                *)
JobsAreShort ==
    \A w \in Workers : stage[w] # "idle" =>
        claimed[w] \in 1 .. clock /\ clock - claimed[w] <= Cooldown - 1

PostsAreTold == \A w \in Workers, f \in Fills : Posts(w, f) => f \in told

BaseInv == TypeOK /\ JobsAreShort /\ PostsAreTold

(* The key of a group is the one its claimant set, and there is only one.  *)
ClaimIsKept ==
    \A g \in Groups, w \in Workers : Claims(w, g) => coolUntil[g] = claimed[w] + Cooldown

OneClaim ==
    \A g \in Groups, v, w \in Workers : Claims(v, g) /\ Claims(w, g) => v = w

(* An alert of a group is a cooldown ago, or the group's key still says so.*)
AlertCools ==
    \A f \in Fills : \A i \in DOMAIN alerts[f] :
        LET again == alerts[f][i] + Cooldown IN
        /\ again <= clock \/ again <= coolUntil[Group[f]]
        /\ \A w \in Workers : Claims(w, Group[f]) => again <= claimed[w]

CoolInv == ClaimIsKept /\ OneClaim /\ AlertCools /\ OneAlertPerBurst

(* The same of a fill, when its key outlives the cooldown of its claimant; *)
(* else two alerts that are a cooldown apart are far enough apart.         *)
Long == DedupTTL >= 2 * Cooldown
Gap == DedupTTL - Cooldown + 1

HoldIsKept ==
    \A f \in Fills, w \in Workers : Holds(w, f) =>
        IF stage[w] = "cooldown" THEN fillUntil[f] >= claimed[w] + DedupTTL
                                 ELSE fillUntil[f] >= claimed[w] + Gap

OneHold ==
    \A f \in Fills, v, w \in Workers : Holds(v, f) /\ Holds(w, f) => v = w

AlertDedups ==
    \A f \in Fills : \A i \in DOMAIN alerts[f] :
        LET again == alerts[f][i] + Gap IN
        /\ again <= clock \/ again <= fillUntil[f]
        /\ \A w \in Workers : Holds(w, f) =>
              again <= (IF stage[w] = "cooldown" THEN clock ELSE claimed[w])

FillInv == Long => HoldIsKept /\ OneHold /\ AlertDedups /\ AlertedOnce

(* While every send succeeds, a position alert that is remembered was sent *)
(* or is about to be, and one is on its way for each group held and alerted*)
Sending(f) == \E w \in Workers : stage[w] = "sendPosition" /\ job[w] = f
Delivered(g) == \E e \in positions : Group[e] = g
OnTheWay(g) == \E w \in Workers, e \in Fills : Posts(w, e) /\ Group[e] = g

PositionInv ==
    failures = 0 =>
        /\ \A f \in Fills : positionUntil[f] > 0 => f \in positions \/ Sending(f)
        /\ \A f \in told :
              Group[f] \in steady => Delivered(Group[f]) \/ OnTheWay(Group[f])
-----------------------------------------------------------------------------
(* Lemmas.                                                                 *)

(* What the constants are.                                                 *)
LEMMA Constants ==
    /\ DedupTTL \in Nat /\ Cooldown \in Nat /\ MaxTime \in Nat /\ QueueSize \in Nat
    /\ DedupTTL >= 1 /\ Cooldown >= 1 /\ MaxTime >= 1 /\ QueueSize >= 1
    /\ Cooldown < DedupTTL
    /\ NoFill \notin Fills
    /\ \A f \in Fills : Group[f] \in Groups
  BY AlertsAssumption DEF Groups

(* Appending to a sequence.                                                *)
LEMMA Appended ==
    ASSUME NEW S, NEW s \in Seq(S), NEW x \in S
    PROVE  /\ Append(s, x) \in Seq(S)
           /\ \A i \in DOMAIN Append(s, x) :
                \/ i \in DOMAIN s /\ Append(s, x)[i] = s[i]
                \/ i = Len(s) + 1 /\ i \notin DOMAIN s /\ Append(s, x)[i] = x
  OBVIOUS

(* What a worker's step leaves to the others.                              *)
LEMMA OthersWait ==
    ASSUME TypeOK, NEW w \in Workers, Work(w)
    PROVE  /\ clock' = clock
           /\ \A v \in Workers \ {w} :
                /\ stage'[v] = stage[v] /\ job'[v] = job[v] /\ claimed'[v] = claimed[v]
                /\ \A g \in Groups : Claims(v, g)' <=> Claims(v, g)
                /\ \A f \in Fills : Holds(v, f)' <=> Holds(v, f)
                /\ \A f \in Fills : Posts(v, f)' <=> Posts(v, f)
<1>1. /\ clock' = clock
      /\ \A v \in Workers \ {w} :
           stage'[v] = stage[v] /\ job'[v] = job[v] /\ claimed'[v] = claimed[v]
  BY DEF TypeOK, Work, Take, CheckFill, CheckCooldown, SendAlert, UndoFill, UndoCooldown,
         MatchPosition, RememberPosition, SendPosition, Goto, Finish
<1>2. QED
  BY <1>1 DEF Claims, Holds, Posts

(* Where a step takes a worker: to another stage of its job, or to none.   *)
LEMMA Moves ==
    ASSUME TypeOK, NEW w \in Workers, NEW s \in Stages \ {"idle"}
    PROVE  /\ Goto(w, s) => /\ stage'[w] = s /\ job'[w] = job[w]
                            /\ stage' \in [Workers -> Stages]
                            /\ job' \in [Workers -> Fills \cup {NoFill}]
           /\ Finish(w) => /\ stage'[w] = "idle" /\ job'[w] = NoFill
                           /\ stage' \in [Workers -> Stages]
                           /\ job' \in [Workers -> Fills \cup {NoFill}]
           /\ stage[w] # "idle" => job[w] \in Fills
<1>1. "idle" \in Stages
  BY DEF Stages
<1>2. QED
  BY <1>1 DEF TypeOK, Goto, Finish
-----------------------------------------------------------------------------
(* Types, jobs and what is told.                                           *)

(* The basic invariant holds at the start.                                  *)
LEMMA BaseInit == Init => BaseInv
<1> SUFFICES ASSUME Init PROVE BaseInv
  OBVIOUS
<1>1. TypeOK
  <2>1. clock \in 1 .. MaxTime /\ claimed \in [Workers -> 0 .. MaxTime]
    BY Constants DEF Init
  <2>2. failures \in 0 .. MaxFailures /\ deliveries \in [Fills -> 0 .. MaxDeliveries]
    BY AlertsAssumption DEF Init
  <2>3. Len(queue) <= QueueSize /\ queue \in Seq(Fills)
    BY Constants DEF Init
  <2>4. steady \subseteq holding /\ holding \subseteq Groups
    BY DEF Init
  <2>5. alerts \in [Fills -> Seq(1 .. MaxTime)]
    BY DEF Init
  <2>6. stage \in [Workers -> Stages] /\ job \in [Workers -> Fills \cup {NoFill}]
    BY DEF Init, Stages
  <2>7. /\ fillUntil \in [Fills -> Nat] /\ coolUntil \in [Groups -> Nat]
        /\ positionUntil \in [Fills -> Nat]
    BY DEF Init
  <2>8. QED
    BY <2>1, <2>2, <2>3, <2>4, <2>5, <2>6, <2>7 DEF Init, TypeOK
<1>2. QED
  BY <1>1 DEF Init, BaseInv, JobsAreShort, PostsAreTold, Posts

(* A worker is idle exactly when it has no job, after any move.            *)
LEMMA MovesType ==
    ASSUME TypeOK, NEW w \in Workers, stage[w] # "idle",
           Finish(w) \/ \E s \in Stages \ {"idle"} : Goto(w, s)
    PROVE  /\ stage' \in [Workers -> Stages]
           /\ job' \in [Workers -> Fills \cup {NoFill}]
           /\ \A v \in Workers : stage'[v] = "idle" <=> job'[v] = NoFill
<1>1. CASE Finish(w)
  BY <1>1, Moves DEF TypeOK, Finish, Stages
<1>2. CASE \E s \in Stages \ {"idle"} : Goto(w, s)
  BY <1>2 DEF TypeOK, Goto
<1>3. QED
  BY <1>1, <1>2

(* The expiry that a step sets.                                            *)
LEMMA ExpiryType ==
    ASSUME clock \in 1 .. MaxTime, NEW K, NEW until \in [K -> Nat], NEW k \in K,
           NEW ttl \in Nat
    PROVE  Add(until, k, ttl) \in [K -> Nat] /\ Remove(until, k) \in [K -> Nat]
<1>1. clock + ttl \in Nat
  BY Constants
<1>2. QED
  BY <1>1 DEF Add, Remove

(* A worker's step keeps queue, keys and stages well typed.                 *)
LEMMA WorkerType ==
    ASSUME BaseInv, NEW w \in Workers, Work(w)
    PROVE  TypeOK'
<1>1. TypeOK
  BY DEF BaseInv
<1>2. /\ clock \in 1 .. MaxTime /\ clock \in 0 .. MaxTime
      /\ DedupTTL \in Nat /\ Cooldown \in Nat
  BY <1>1, Constants DEF TypeOK
<1>3. stage[w] # "idle" => job[w] \in Fills /\ Group[job[w]] \in Groups
  BY <1>1, Moves, Constants DEF Stages, TypeOK
<1> USE DEF TypeOK, memory, pool, worker, portfolio, history
<1>4. CASE Take(w)
  <2>1. /\ queue \in Seq(Fills) /\ queue # <<>>
        /\ Head(queue) \in Fills /\ Tail(queue) \in Seq(Fills)
        /\ Len(Tail(queue)) <= QueueSize
    BY <1>1, <1>4, Constants DEF Take
  <2>2. stage' \in [Workers -> Stages] /\ job' \in [Workers -> Fills \cup {NoFill}]
    BY <1>1, <1>4, <2>1 DEF Take, Stages
  <2>3. \A v \in Workers : stage'[v] = "idle" <=> job'[v] = NoFill
    BY <1>1, <1>4, <2>1, Constants DEF Take
  <2>4. claimed' \in [Workers -> 0 .. MaxTime]
    BY <1>1, <1>2, <1>4 DEF Take
  <2>5. queue' \in Seq(Fills) /\ Len(queue') <= QueueSize
    BY <1>4, <2>1 DEF Take
  <2>6. QED
    BY <1>1, <1>4, <2>2, <2>3, <2>4, <2>5 DEF Take
<1>5. CASE CheckFill(w)
  <2>1. stage[w] # "idle" /\ (Finish(w) \/ \E s \in Stages \ {"idle"} : Goto(w, s))
    BY <1>5 DEF CheckFill, Stages
  <2>2. fillUntil' \in [Fills -> Nat]
    <3>1. Add(fillUntil, job[w], DedupTTL) \in [Fills -> Nat]
      BY <1>1, <1>2, <1>3, <2>1, ExpiryType
    <3>2. QED
      BY <1>1, <1>2, <1>5, <3>1 DEF CheckFill
  <2>3. QED
    BY <1>1, <1>5, <2>1, <2>2, MovesType DEF CheckFill
<1>6. CASE CheckCooldown(w)
  <2>1. stage[w] # "idle" /\ (Finish(w) \/ \E s \in Stages \ {"idle"} : Goto(w, s))
    BY <1>6 DEF CheckCooldown, Stages
  <2>2. coolUntil' \in [Groups -> Nat] /\ claimed' \in [Workers -> 0 .. MaxTime]
    <3>1. Add(coolUntil, Group[job[w]], Cooldown) \in [Groups -> Nat]
      BY <1>1, <1>2, <1>3, <2>1, ExpiryType
    <3>2. QED
      BY <1>1, <1>2, <1>6, <3>1 DEF CheckCooldown
  <2>3. QED
    BY <1>1, <1>6, <2>1, <2>2, MovesType DEF CheckCooldown
<1>7. CASE SendAlert(w)
  <2>1. stage[w] # "idle" /\ (Finish(w) \/ \E s \in Stages \ {"idle"} : Goto(w, s))
    BY <1>7 DEF SendAlert, Stages
  <2>2. told' \subseteq Fills /\ over' \subseteq Groups /\ positions' \subseteq told'
    BY <1>1, <1>3, <1>7, <2>1 DEF SendAlert, Reached
  <2>3. failures' \in 0 .. MaxFailures
    BY <1>1, <1>7, AlertsAssumption DEF SendAlert, SendFails
  <2>4. alerts' \in [Fills -> Seq(1 .. MaxTime)]
    <3>1. claimed[w] \in 1 .. MaxTime
      BY <1>1, <1>2, <2>1, Constants DEF BaseInv, JobsAreShort
    <3>2. Append(alerts[job[w]], claimed[w]) \in Seq(1 .. MaxTime)
      BY <1>1, <1>3, <2>1, <3>1
    <3>3. QED
      BY <1>1, <1>7, <3>2 DEF SendAlert, Acknowledged
  <2>5. QED
    BY <1>1, <1>7, <2>1, <2>2, <2>3, <2>4, MovesType DEF SendAlert
<1>8. CASE UndoFill(w)
  <2>1. stage[w] # "idle" /\ (Finish(w) \/ \E s \in Stages \ {"idle"} : Goto(w, s))
    BY <1>8 DEF UndoFill, Stages
  <2>2. fillUntil' \in [Fills -> Nat]
    BY <1>1, <1>2, <1>3, <1>8, <2>1, ExpiryType DEF UndoFill
  <2>3. QED
    BY <1>1, <1>8, <2>1, <2>2, MovesType DEF UndoFill
<1>9. CASE UndoCooldown(w)
  <2>1. stage[w] # "idle" /\ (Finish(w) \/ \E s \in Stages \ {"idle"} : Goto(w, s))
    BY <1>9 DEF UndoCooldown
  <2>2. coolUntil' \in [Groups -> Nat]
    BY <1>1, <1>2, <1>3, <1>9, <2>1, ExpiryType DEF UndoCooldown
  <2>3. QED
    BY <1>1, <1>9, <2>1, <2>2, MovesType DEF UndoCooldown
<1>10. CASE MatchPosition(w)
  <2>1. stage[w] # "idle" /\ (Finish(w) \/ \E s \in Stages \ {"idle"} : Goto(w, s))
    BY <1>10 DEF MatchPosition, Stages
  <2>2. QED
    BY <1>1, <1>10, <2>1, MovesType DEF MatchPosition
<1>11. CASE RememberPosition(w)
  <2>1. stage[w] # "idle" /\ (Finish(w) \/ \E s \in Stages \ {"idle"} : Goto(w, s))
    BY <1>11 DEF RememberPosition, Stages
  <2>2. positionUntil' \in [Fills -> Nat]
    <3>1. Add(positionUntil, job[w], DedupTTL) \in [Fills -> Nat]
      BY <1>1, <1>2, <1>3, <2>1, ExpiryType
    <3>2. QED
      BY <1>1, <1>2, <1>11, <3>1 DEF RememberPosition
  <2>3. QED
    BY <1>1, <1>11, <2>1, <2>2, MovesType DEF RememberPosition
<1>12. CASE SendPosition(w)
  <2>1. stage[w] # "idle" /\ Finish(w)
    BY <1>12 DEF SendPosition
  <2>2. positionUntil' \in [Fills -> Nat]
    <3>1. Remove(positionUntil, job[w]) \in [Fills -> Nat]
      BY <1>1, <1>2, <1>3, <2>1, ExpiryType
    <3>2. QED
      BY <1>1, <1>2, <1>12, <3>1 DEF SendPosition
  <2>3. positions' \subseteq told
    BY <1>1, <1>3, <1>12 DEF SendPosition, BaseInv, PostsAreTold, Posts
  <2>4. failures' \in 0 .. MaxFailures
    BY <1>1, <1>12, AlertsAssumption DEF SendPosition, SendFails
  <2>5. QED
    BY <1>1, <1>12, <2>1, <2>2, <2>3, <2>4, MovesType DEF SendPosition
<1>13. QED
  BY <1>4, <1>5, <1>6, <1>7, <1>8, <1>9, <1>10, <1>11, <1>12 DEF Work

(* A job that goes on is as old as it was, or has just claimed its group.  *)
LEMMA WorkerIsShort ==
    ASSUME BaseInv, NEW w \in Workers, Work(w)
    PROVE  JobsAreShort'
<1>1. \A v \in Workers \ {w} : stage'[v] = stage[v] /\ claimed'[v] = claimed[v]
  BY OthersWait DEF BaseInv
<1>2. clock' = clock /\ clock \in 1 .. MaxTime /\ Cooldown \in Nat /\ Cooldown >= 1
  BY OthersWait, Constants DEF BaseInv, TypeOK
<1>3. \/ claimed'[w] = clock
      \/ claimed'[w] = claimed[w] /\ stage[w] # "idle"
  BY DEF BaseInv, TypeOK, worker, Work, Take, CheckFill, CheckCooldown, SendAlert, UndoFill,
         UndoCooldown, MatchPosition, RememberPosition, SendPosition
<1>4. QED
  BY <1>1, <1>2, <1>3, Constants DEF BaseInv, JobsAreShort

(* A worker's step posts a position only of a fill it was told of.          *)
LEMMA WorkerTold ==
    ASSUME BaseInv, NEW w \in Workers, Work(w)
    PROVE  PostsAreTold'
<1>1. told \subseteq told'
  BY DEF Work, Take, CheckFill, CheckCooldown, SendAlert, UndoFill, UndoCooldown,
         MatchPosition, RememberPosition, SendPosition, history, Reached
<1>2. ASSUME NEW f \in Fills, Posts(w, f)' PROVE Posts(w, f) \/ f \in told'
  BY <1>2, Moves DEF Posts, BaseInv, TypeOK, Work, Take, CheckFill, CheckCooldown, SendAlert,
         UndoFill, UndoCooldown, MatchPosition, RememberPosition, SendPosition, Goto, Finish,
         Reached
<1>3. QED
  BY <1>1, <1>2, OthersWait DEF BaseInv, PostsAreTold

(* Every step keeps the basic invariant.                                    *)
LEMMA BaseNext ==
    ASSUME BaseInv, [Next]_vars
    PROVE  BaseInv'
<1>1. ASSUME NEW f \in Fills, Submit(f) PROVE BaseInv'
  <2>1. deliveries' \in [Fills -> 0 .. MaxDeliveries]
    <3>1. /\ deliveries \in [Fills -> 0 .. MaxDeliveries] /\ deliveries[f] < MaxDeliveries
          /\ deliveries' = [deliveries EXCEPT ![f] = @ + 1]
      BY <1>1 DEF Submit, BaseInv, TypeOK
    <3>2. deliveries[f] + 1 \in 0 .. MaxDeliveries
      BY <3>1, AlertsAssumption
    <3>3. QED
      BY <3>1, <3>2
  <2>2. queue' \in Seq(Fills) /\ Len(queue') <= QueueSize
    <3>1. queue \in Seq(Fills) /\ Len(queue) <= QueueSize /\ QueueSize \in Nat
      BY Constants DEF BaseInv, TypeOK
    <3>2. Append(queue, f) \in Seq(Fills) /\ Len(Append(queue, f)) = Len(queue) + 1
      BY <3>1
    <3>3. \/ queue' = queue
          \/ queue' = Append(queue, f) /\ Len(queue) < QueueSize
      BY <1>1 DEF Submit
    <3>4. QED
      BY <3>1, <3>2, <3>3
  <2>3. dropped' \subseteq Fills
    BY <1>1 DEF Submit, BaseInv, TypeOK
  <2>4. QED
    BY <1>1, <2>1, <2>2, <2>3
    DEF Submit, BaseInv, TypeOK, worker, memory, portfolio, history, JobsAreShort,
        PostsAreTold, Posts
<1>2. CASE Drain
  BY <1>2 DEF Drain, BaseInv, TypeOK, worker, memory, portfolio, history, JobsAreShort,
              PostsAreTold, Posts
<1>3. ASSUME NEW w \in Workers, Work(w) PROVE BaseInv'
  BY <1>3, WorkerType, WorkerIsShort, WorkerTold DEF BaseInv
<1>4. CASE PollPositions
  BY <1>4 DEF PollPositions, BaseInv, TypeOK, pool, worker, memory, history, JobsAreShort,
              PostsAreTold, Posts
<1>5. CASE Tick
  <2>1. clock \in 1 .. MaxTime /\ clock' \in 1 .. MaxTime /\ clock' = clock + 1
    BY <1>5, Constants DEF Tick, BaseInv, TypeOK
  <2>2. TypeOK'
    BY <1>5, <2>1 DEF Tick, BaseInv, TypeOK, pool, worker, memory, portfolio, history
  <2>3. JobsAreShort'
    <3>1. UNCHANGED <<stage, claimed>>
      BY <1>5 DEF Tick, pool, worker, memory, portfolio, history
    <3>2. ASSUME NEW w \in Workers, stage[w] # "idle"
          PROVE  claimed[w] \in 1 .. clock' /\ clock' - claimed[w] <= Cooldown - 1
      <4>1. clock - claimed[w] < Cooldown - 1 /\ claimed[w] \in 1 .. clock
        BY <1>5, <3>2 DEF Tick, BaseInv, JobsAreShort
      <4>2. QED
        BY <2>1, <4>1, Constants
    <3>3. QED
      BY <3>1, <3>2 DEF JobsAreShort
  <2>4. QED
    BY <1>5, <2>2, <2>3 DEF Tick, BaseInv, worker, history, PostsAreTold, Posts
<1>6. CASE UNCHANGED vars
  BY <1>6 DEF vars, BaseInv, TypeOK, pool, worker, memory, portfolio, history, JobsAreShort,
              PostsAreTold, Posts
<1>7. QED
  BY <1>1, <1>2, <1>3, <1>4, <1>5, <1>6 DEF Next
-----------------------------------------------------------------------------
(* The cooldown.                                                           *)

(* When an alert was claimed.                                              *)
LEMMA AlertTimes ==
    ASSUME TypeOK
    PROVE  \A f \in Fills : \A i \in DOMAIN alerts[f] : alerts[f][i] \in Nat
<1> SUFFICES ASSUME NEW f \in Fills, NEW i \in DOMAIN alerts[f]
             PROVE  alerts[f][i] \in Nat
  OBVIOUS
<1>1. alerts[f] \in Seq(1 .. MaxTime)
  BY DEF TypeOK
<1>2. QED
  BY <1>1, Constants

(* What claims no group, records no alert and sets no key keeps it all.    *)
LEMMA CoolUnmoved ==
    ASSUME BaseInv, CoolInv, BaseInv',
           UNCHANGED <<coolUntil, alerts>>, clock' >= clock,
           \A w \in Workers, g \in Groups :
               Claims(w, g)' => Claims(w, g) /\ claimed'[w] = claimed[w]
    PROVE  CoolInv'
<1>1. ClaimIsKept' /\ OneClaim' /\ OneAlertPerBurst'
  BY DEF CoolInv, ClaimIsKept, OneClaim, OneAlertPerBurst
<1>2. AlertCools'
  <2> SUFFICES ASSUME NEW f \in Fills, NEW i \in DOMAIN alerts[f]
               PROVE  LET again == alerts[f][i] + Cooldown IN
                      /\ again <= clock' \/ again <= coolUntil[Group[f]]
                      /\ \A w \in Workers : Claims(w, Group[f])' => again <= claimed'[w]
    BY DEF AlertCools
  <2>1. alerts[f][i] + Cooldown \in Nat /\ clock \in Nat /\ clock' \in Nat
    <3>1. alerts[f][i] \in Nat
      BY AlertTimes DEF BaseInv
    <3>2. clock \in 1 .. MaxTime /\ clock' \in 1 .. MaxTime
      BY DEF BaseInv, TypeOK
    <3>3. QED
      BY <3>1, <3>2, Constants
  <2>2. Group[f] \in Groups
    BY Constants
  <2>3. QED
    BY <2>1, <2>2 DEF CoolInv, AlertCools
<1>3. QED
  BY <1>1, <1>2 DEF CoolInv

(* Taking the cooldown key: it is free, so that no alert of the group and   *)
(* no other holder is within a cooldown of now.                             *)
LEMMA CoolCheck ==
    ASSUME BaseInv, CoolInv, BaseInv', NEW w \in Workers, CheckCooldown(w)
    PROVE  CoolInv'
<1> DEFINE g == Group[job[w]]
<1>1. /\ TypeOK /\ Work(w) /\ clock' = clock /\ UNCHANGED alerts
      /\ stage[w] = "cooldown" /\ job[w] \in Fills /\ g \in Groups
  BY OthersWait, Moves, Constants
  DEF BaseInv, Work, CheckCooldown, history, Stages
<1>2. \A v \in Workers \ {w} : /\ claimed'[v] = claimed[v]
                               /\ \A h \in Groups : Claims(v, h)' <=> Claims(v, h)
  BY <1>1, OthersWait
<1>3. CASE Finish(w) /\ UNCHANGED <<claimed, coolUntil>>
  <2>1. \A h \in Groups : ~Claims(w, h)'
    BY <1>3 DEF Claims, Finish, BaseInv, TypeOK
  <2>2. clock' >= clock /\ UNCHANGED <<coolUntil, alerts>>
    BY <1>1, <1>3, Constants DEF TypeOK
  <2>3. \A v \in Workers, h \in Groups :
          Claims(v, h)' => Claims(v, h) /\ claimed'[v] = claimed[v]
    BY <1>2, <2>1
  <2>4. QED
    BY <2>2, <2>3, CoolUnmoved
<1>4. CASE /\ ~Present(coolUntil, g) /\ Goto(w, "send")
           /\ claimed' = [claimed EXCEPT ![w] = clock]
           /\ coolUntil' = Add(coolUntil, g, Cooldown)
  <2>1. /\ clock \in Nat /\ Cooldown \in Nat /\ Cooldown >= 1 /\ coolUntil[g] <= clock
        /\ claimed'[w] = clock /\ coolUntil'[g] = clock + Cooldown
        /\ \A h \in Groups : h # g => coolUntil'[h] = coolUntil[h]
    <3>1. /\ coolUntil \in [Groups -> Nat] /\ claimed \in [Workers -> Nat]
          /\ clock \in Nat /\ Cooldown \in Nat /\ Cooldown >= 1
      BY <1>1, Constants DEF TypeOK
    <3>2. claimed'[w] = clock
      BY <1>4, <3>1
    <3>3. coolUntil'[g] = clock + Cooldown
          /\ \A h \in Groups : h # g => coolUntil'[h] = coolUntil[h]
      BY <1>1, <1>4, <3>1 DEF Add
    <3>4. coolUntil[g] <= clock
      <4>1. coolUntil[g] \in Nat /\ ~(clock < coolUntil[g])
        BY <1>1, <1>4, <3>1 DEF Present
      <4>2. QED
        BY <3>1, <4>1
    <3>5. QED
      BY <3>1, <3>2, <3>3, <3>4
  <2>2. \A h \in Groups : Claims(w, h)' => h = g
    BY <1>1, <1>4 DEF Goto, Claims
  <2>3. \A v \in Workers : ~Claims(v, g)
    <3> SUFFICES ASSUME NEW v \in Workers, Claims(v, g) PROVE FALSE
      OBVIOUS
    <3>1. coolUntil[g] = claimed[v] + Cooldown /\ stage[v] # "idle"
      BY <1>1 DEF CoolInv, ClaimIsKept, Claims
    <3>2. claimed[v] \in Nat /\ clock - claimed[v] <= Cooldown - 1
      BY <3>1 DEF BaseInv, JobsAreShort
    <3>3. QED
      BY <2>1, <3>1, <3>2
  <2> HIDE DEF g
  <2>4. ClaimIsKept'
    BY <1>1, <1>2, <2>1, <2>2, <2>3 DEF CoolInv, ClaimIsKept
  <2>5. OneClaim'
    BY <1>1, <1>2, <2>2, <2>3 DEF CoolInv, OneClaim
  <2>6. AlertCools'
    <3> SUFFICES ASSUME NEW f \in Fills, NEW i \in DOMAIN alerts[f]
                 PROVE  LET again == alerts[f][i] + Cooldown IN
                        /\ again <= clock \/ again <= coolUntil'[Group[f]]
                        /\ \A v \in Workers : Claims(v, Group[f])' => again <= claimed'[v]
      BY <1>1 DEF AlertCools
    <3>1. alerts[f][i] + Cooldown \in Nat /\ Group[f] \in Groups /\ coolUntil[Group[f]] \in Nat
      <4>1. alerts[f][i] \in Nat
        BY AlertTimes DEF BaseInv
      <4>2. Group[f] \in Groups /\ coolUntil \in [Groups -> Nat]
        BY Constants DEF BaseInv, TypeOK
      <4>3. QED
        BY <4>1, <4>2, Constants
    <3>2. /\ alerts[f][i] + Cooldown <= clock \/ alerts[f][i] + Cooldown <= coolUntil[Group[f]]
          /\ \A v \in Workers : Claims(v, Group[f]) => alerts[f][i] + Cooldown <= claimed[v]
      BY DEF CoolInv, AlertCools
    <3>3. CASE Group[f] = g
      BY <1>2, <2>1, <2>3, <3>1, <3>2, <3>3
    <3>4. CASE Group[f] # g
      BY <1>2, <2>1, <2>2, <3>1, <3>2, <3>4
    <3>5. QED
      BY <3>3, <3>4
  <2>7. OneAlertPerBurst'
    BY <1>1 DEF CoolInv, OneAlertPerBurst
  <2>8. QED
    BY <2>4, <2>5, <2>6, <2>7 DEF CoolInv
<1>5. QED
  BY <1>3, <1>4 DEF CheckCooldown

(* The claimant's alert is acknowledged: it is the latest of its group.    *)
LEMMA CoolSend ==
    ASSUME BaseInv, CoolInv, BaseInv', NEW w \in Workers, SendAlert(w)
    PROVE  CoolInv'
<1> DEFINE g == Group[job[w]]
<1>1. /\ TypeOK /\ Work(w) /\ clock' = clock /\ UNCHANGED <<claimed, coolUntil>>
      /\ stage[w] = "send" /\ job[w] \in Fills /\ g \in Groups /\ Claims(w, g)
  BY OthersWait, Moves, Constants
  DEF BaseInv, Work, SendAlert, memory, Stages, Claims
<1>2. \A v \in Workers \ {w}, h \in Groups : Claims(v, h)' <=> Claims(v, h)
  BY <1>1, OthersWait
<1>3. CASE UNCHANGED alerts
  <2>1. \A h \in Groups : Claims(w, h)' => Claims(w, h)
    BY <1>1, Moves DEF SendAlert, Claims, Stages
  <2>2. clock' >= clock /\ UNCHANGED <<coolUntil, alerts>>
    BY <1>1, <1>3, Constants DEF TypeOK
  <2>3. \A v \in Workers, h \in Groups :
          Claims(v, h)' => Claims(v, h) /\ claimed'[v] = claimed[v]
    BY <1>1, <1>2, <2>1
  <2>4. QED
    BY <2>2, <2>3, CoolUnmoved
<1>4. CASE Goto(w, "match") /\ Acknowledged(w)
  <2>1. \A h \in Groups : ~Claims(w, h)'
    BY <1>1, <1>4, Moves DEF Claims, Stages
  <2>2. \A v \in Workers, h \in Groups : Claims(v, h)' => v # w /\ Claims(v, h)
    BY <1>2, <2>1
  <2>3. \A v \in Workers, h \in Groups : h = g => ~Claims(v, h)'
    BY <1>1, <2>2 DEF CoolInv, OneClaim
  <2>4. /\ claimed[w] \in Nat /\ coolUntil[g] = claimed[w] + Cooldown /\ Cooldown \in Nat
        /\ Cooldown >= 1
    BY <1>1, Constants DEF TypeOK, CoolInv, ClaimIsKept
  <2>5. ASSUME NEW f \in Fills, NEW i \in DOMAIN alerts'[f]
        PROVE  \/ i \in DOMAIN alerts[f] /\ alerts'[f][i] = alerts[f][i]
               \/ /\ f = job[w] /\ i = Len(alerts[f]) + 1 /\ i \notin DOMAIN alerts[f]
                  /\ alerts'[f][i] = claimed[w]
    <3>1. CASE f = job[w]
      <4>1. alerts'[f] = Append(alerts[f], claimed[w])
        BY <1>1, <1>4, <3>1 DEF Acknowledged, TypeOK
      <4>2. alerts[f] \in Seq(1 .. MaxTime) /\ claimed[w] \in 1 .. MaxTime
        BY <1>1, Constants DEF BaseInv, TypeOK, JobsAreShort
      <4>3. QED
        BY <3>1, <4>1, <4>2, Appended
    <3>2. CASE f # job[w]
      BY <1>1, <1>4, <3>2 DEF Acknowledged, TypeOK
    <3>3. QED
      BY <3>1, <3>2
  <2>6. \A f \in Fills : \A i \in DOMAIN alerts[f] :
          /\ alerts[f][i] \in Nat
          /\ Group[f] = g => alerts[f][i] + Cooldown <= claimed[w]
    BY <1>1, AlertTimes DEF CoolInv, AlertCools
  <2> HIDE DEF g
  <2>7. ClaimIsKept' /\ OneClaim'
    BY <1>1, <2>2 DEF CoolInv, ClaimIsKept, OneClaim
  <2>8. AlertCools'
    <3> SUFFICES ASSUME NEW f \in Fills, NEW i \in DOMAIN alerts'[f]
                 PROVE  LET again == alerts'[f][i] + Cooldown IN
                        /\ again <= clock \/ again <= coolUntil[Group[f]]
                        /\ \A v \in Workers : Claims(v, Group[f])' => again <= claimed[v]
      BY <1>1 DEF AlertCools
    <3>1. CASE i \in DOMAIN alerts[f] /\ alerts'[f][i] = alerts[f][i]
      BY <2>2, <3>1, Constants DEF CoolInv, AlertCools
    <3>2. CASE f = job[w] /\ alerts'[f][i] = claimed[w]
      <4>1. Group[f] = g
        BY <3>2 DEF g
      <4>2. \A v \in Workers : ~Claims(v, Group[f])'
        BY <1>1, <2>3, <4>1
      <4>3. QED
        BY <2>4, <3>2, <4>1, <4>2
    <3>3. QED
      BY <2>5, <3>1, <3>2
  <2>9. OneAlertPerBurst'
    <3> SUFFICES ASSUME NEW f \in Fills, NEW e \in Fills, Group[f] = Group[e],
                        NEW i \in DOMAIN alerts'[f], NEW k \in DOMAIN alerts'[e],
                        <<f, i>> # <<e, k>>
                 PROVE  Apart(alerts'[f][i], alerts'[e][k], Cooldown)
      BY DEF OneAlertPerBurst
    <3>1. CASE /\ i \in DOMAIN alerts[f] /\ alerts'[f][i] = alerts[f][i]
               /\ k \in DOMAIN alerts[e] /\ alerts'[e][k] = alerts[e][k]
      BY <3>1 DEF CoolInv, OneAlertPerBurst
    <3>2. CASE /\ i \in DOMAIN alerts[f] /\ alerts'[f][i] = alerts[f][i]
               /\ e = job[w] /\ alerts'[e][k] = claimed[w]
      <4>1. alerts[f][i] \in Nat /\ alerts[f][i] + Cooldown <= claimed[w]
        BY <2>6, <3>2 DEF g
      <4>2. QED
        BY <2>4, <3>2, <4>1 DEF Apart
    <3>3. CASE /\ k \in DOMAIN alerts[e] /\ alerts'[e][k] = alerts[e][k]
               /\ f = job[w] /\ alerts'[f][i] = claimed[w]
      <4>1. alerts[e][k] \in Nat /\ alerts[e][k] + Cooldown <= claimed[w]
        BY <2>6, <3>3 DEF g
      <4>2. QED
        BY <2>4, <3>3, <4>1 DEF Apart
    <3>4. CASE /\ f = job[w] /\ i = Len(alerts[f]) + 1
               /\ e = job[w] /\ k = Len(alerts[e]) + 1
      BY <3>4
    <3>5. QED
      BY <2>5, <3>1, <3>2, <3>3, <3>4
  <2>10. QED
    BY <2>7, <2>8, <2>9 DEF CoolInv
<1>5. QED
  BY <1>3, <1>4 DEF SendAlert

(* The claimant clears the key, that is its own: nobody else claims it.    *)
LEMMA CoolUndo ==
    ASSUME BaseInv, CoolInv, BaseInv', NEW w \in Workers, UndoCooldown(w)
    PROVE  CoolInv'
<1> DEFINE g == Group[job[w]]
<1>1. /\ TypeOK /\ Work(w) /\ clock' = clock /\ UNCHANGED <<claimed, alerts>>
      /\ job[w] \in Fills /\ g \in Groups /\ Claims(w, g)
      /\ coolUntil' = Remove(coolUntil, g) /\ Finish(w)
  BY OthersWait, Moves, Constants
  DEF BaseInv, Work, UndoCooldown, history, Stages, Claims
<1>2. \A v \in Workers \ {w}, h \in Groups : Claims(v, h)' <=> Claims(v, h)
  BY <1>1, OthersWait
<1>3. \A h \in Groups : ~Claims(w, h)'
  BY <1>1 DEF Claims, Finish, TypeOK
<1>4. \A v \in Workers, h \in Groups : Claims(v, h)' => v # w /\ h # g /\ Claims(v, h)
  BY <1>1, <1>2, <1>3 DEF CoolInv, OneClaim
<1>5. \A h \in Groups : h # g => coolUntil'[h] = coolUntil[h]
  BY <1>1 DEF Remove, TypeOK
<1>6. claimed[w] \in Nat /\ clock \in Nat /\ claimed[w] <= clock
  <2>1. stage[w] # "idle"
    BY <1>1 DEF Claims
  <2>2. claimed[w] \in 1 .. clock /\ clock \in Nat
    BY <1>1, <2>1, Constants DEF BaseInv, TypeOK, JobsAreShort
  <2>3. QED
    BY <2>2
<1> HIDE DEF g
<1>7. ClaimIsKept' /\ OneClaim' /\ OneAlertPerBurst'
  BY <1>1, <1>4, <1>5 DEF CoolInv, ClaimIsKept, OneClaim, OneAlertPerBurst
<1>8. AlertCools'
  <2> SUFFICES ASSUME NEW f \in Fills, NEW i \in DOMAIN alerts[f]
               PROVE  LET again == alerts[f][i] + Cooldown IN
                      /\ again <= clock \/ again <= coolUntil'[Group[f]]
                      /\ \A v \in Workers : Claims(v, Group[f])' => again <= claimed[v]
    BY <1>1 DEF AlertCools
  <2>1. alerts[f][i] + Cooldown \in Nat /\ Group[f] \in Groups
    <3>1. alerts[f][i] \in Nat
      BY <1>1, AlertTimes
    <3>2. QED
      BY <3>1, Constants
  <2>2. /\ alerts[f][i] + Cooldown <= clock \/ alerts[f][i] + Cooldown <= coolUntil[Group[f]]
        /\ \A v \in Workers : Claims(v, Group[f]) => alerts[f][i] + Cooldown <= claimed[v]
    BY DEF CoolInv, AlertCools
  <2>3. CASE Group[f] = g
    BY <1>1, <1>4, <1>6, <2>1, <2>2, <2>3
  <2>4. CASE Group[f] # g
    BY <1>4, <1>5, <2>1, <2>2, <2>4
  <2>5. QED
    BY <2>3, <2>4
<1>9. QED
  BY <1>7, <1>8 DEF CoolInv

(* Every step keeps what the cooldown keys stand for.                       *)
LEMMA CoolNext ==
    ASSUME BaseInv, CoolInv, BaseInv', [Next]_vars
    PROVE  CoolInv'
<1> USE DEF pool, worker, memory, portfolio, history
<1>1. CASE \/ \E f \in Fills : Submit(f)
           \/ Drain \/ PollPositions \/ Tick \/ UNCHANGED vars
  <2>1. UNCHANGED <<coolUntil, alerts, stage, job, claimed>>
    BY <1>1 DEF Submit, Drain, PollPositions, Tick, vars
  <2>2. clock' = clock \/ clock' = clock + 1
    BY <1>1 DEF Submit, Drain, PollPositions, Tick, vars
  <2>3. clock' >= clock
    BY <2>2, Constants DEF BaseInv, TypeOK
  <2>4. \A w \in Workers, g \in Groups :
          Claims(w, g)' => Claims(w, g) /\ claimed'[w] = claimed[w]
    BY <2>1 DEF Claims
  <2>5. QED
    BY <2>1, <2>3, <2>4, CoolUnmoved
<1>2. ASSUME NEW w \in Workers,
             \/ Take(w) \/ CheckFill(w) \/ UndoFill(w)
             \/ MatchPosition(w) \/ RememberPosition(w) \/ SendPosition(w)
      PROVE  CoolInv'
  <2>1. TypeOK /\ Work(w)
    BY <1>2 DEF BaseInv, Work
  <2>2. UNCHANGED <<coolUntil, alerts>> /\ clock' >= clock
    BY <1>2, Constants DEF BaseInv, TypeOK, Take, CheckFill, UndoFill, MatchPosition,
                           RememberPosition, SendPosition
  <2>3. ASSUME NEW g \in Groups, Claims(w, g)'
        PROVE  Claims(w, g) /\ claimed'[w] = claimed[w]
    BY <1>2, <2>1, <2>3
    DEF TypeOK, Take, CheckFill, UndoFill, MatchPosition, RememberPosition, SendPosition,
        Goto, Finish, Claims
  <2>4. \A v \in Workers, g \in Groups :
          Claims(v, g)' => Claims(v, g) /\ claimed'[v] = claimed[v]
    BY <2>1, <2>3, OthersWait
  <2>5. QED
    BY <2>2, <2>4, CoolUnmoved
<1>3. QED
  BY <1>1, <1>2, CoolCheck, CoolSend, CoolUndo DEF Next, Work
-----------------------------------------------------------------------------
(* The keys of fills, when they outlive the cooldown of their claimants.   *)

(* What the times to live are to each other then.                          *)
LEMMA LongTimes ==
    ASSUME Long
    PROVE  /\ Gap \in Nat /\ Gap >= Cooldown + 1
           /\ DedupTTL = Gap + Cooldown - 1 /\ DedupTTL >= Cooldown + 1
  BY Constants DEF Long, Gap

(* The times that the arguments below compare.                             *)
LEMMA FillTimes ==
    ASSUME BaseInv, NEW f \in Fills
    PROVE  /\ fillUntil[f] \in Nat /\ clock \in Nat
           /\ \A i \in DOMAIN alerts[f] : alerts[f][i] \in Nat
           /\ \A w \in Workers : Holds(w, f) =>
                claimed[w] \in Nat /\ claimed[w] <= clock /\ clock - claimed[w] <= Cooldown - 1
<1>1. fillUntil[f] \in Nat /\ clock \in Nat
  BY Constants DEF BaseInv, TypeOK
<1>2. \A w \in Workers : Holds(w, f) => claimed[w] \in 1 .. clock /\ clock - claimed[w] <= Cooldown - 1
  BY DEF BaseInv, JobsAreShort, Holds
<1>3. QED
  BY <1>1, <1>2, AlertTimes DEF BaseInv

(* The key a worker holds is alive, so nobody else passes the check.       *)
LEMMA HeldIsAlive ==
    ASSUME BaseInv, FillInv, Long, NEW f \in Fills, NEW w \in Workers, Holds(w, f)
    PROVE  fillUntil[f] > clock
<1>1. IF stage[w] = "cooldown" THEN fillUntil[f] >= claimed[w] + DedupTTL
                               ELSE fillUntil[f] >= claimed[w] + Gap
  BY DEF FillInv, HoldIsKept
<1>2. QED
  BY <1>1, FillTimes, LongTimes, Constants

(* A step that moves neither the fills' keys nor the alerts, and lets no    *)
(* worker hold more, keeps what the fills' keys stand for.                  *)
LEMMA FillUnmoved ==
    ASSUME BaseInv, FillInv, BaseInv',
           UNCHANGED <<fillUntil, alerts>>, clock' >= clock,
           \A w \in Workers, f \in Fills :
               Holds(w, f)' => /\ Holds(w, f) /\ claimed'[w] = claimed[w]
                               /\ stage'[w] = "cooldown" <=> stage[w] = "cooldown"
    PROVE  FillInv'
<1> SUFFICES ASSUME Long PROVE (HoldIsKept /\ OneHold /\ AlertDedups /\ AlertedOnce)'
  BY DEF FillInv, Long
<1>1. HoldIsKept' /\ OneHold'
  BY DEF FillInv, HoldIsKept, OneHold, Gap
<1>2. AlertedOnce'
  BY DEF FillInv, AlertedOnce
<1>3. AlertDedups'
  <2> SUFFICES ASSUME NEW f \in Fills, NEW i \in DOMAIN alerts[f]
               PROVE  LET again == alerts[f][i] + Gap IN
                      /\ again <= clock' \/ again <= fillUntil[f]
                      /\ \A w \in Workers : Holds(w, f)' =>
                            again <= (IF stage'[w] = "cooldown" THEN clock' ELSE claimed'[w])
    BY DEF AlertDedups, Gap
  <2>1. clock \in Nat /\ clock' \in Nat /\ alerts[f][i] + Gap \in Nat
    <3>1. clock \in 1 .. MaxTime /\ clock' \in 1 .. MaxTime
      BY DEF BaseInv, TypeOK
    <3>2. QED
      BY <3>1, FillTimes, LongTimes, Constants
  <2>2. LET again == alerts[f][i] + Gap IN
        /\ again <= clock \/ again <= fillUntil[f]
        /\ \A w \in Workers : Holds(w, f) =>
              again <= (IF stage[w] = "cooldown" THEN clock ELSE claimed[w])
    BY DEF FillInv, AlertDedups
  <2>3. QED
    BY <2>1, <2>2, FillTimes
<1>4. QED
  BY <1>1, <1>2, <1>3

(* Taking the key of a fill: it is free, so that no alert of the fill is    *)
(* as young as the key would be.                                            *)
LEMMA FillCheck ==
    ASSUME BaseInv, FillInv, BaseInv', NEW w \in Workers, CheckFill(w)
    PROVE  FillInv'
<1> DEFINE f == job[w]
<1>1. /\ TypeOK /\ Work(w) /\ clock' = clock /\ UNCHANGED <<claimed, alerts>>
      /\ stage[w] = "dedup" /\ f \in Fills
  BY OthersWait, Moves DEF BaseInv, Work, CheckFill, history, Stages
<1>2. \A v \in Workers \ {w} : /\ stage'[v] = stage[v]
                               /\ \A e \in Fills : Holds(v, e)' <=> Holds(v, e)
  BY <1>1, OthersWait
<1>3. CASE Finish(w) /\ UNCHANGED fillUntil
  <2>1. \A e \in Fills : ~Holds(w, e)'
    BY <1>1, <1>3 DEF Holds, Finish, TypeOK
  <2>2. clock' >= clock
    BY <1>1, Constants DEF TypeOK
  <2>3. QED
    BY <1>1, <1>2, <1>3, <2>1, <2>2, FillUnmoved
<1>4. CASE ~Present(fillUntil, f) /\ Goto(w, "cooldown") /\ fillUntil' = Add(fillUntil, f, DedupTTL)
  <2> SUFFICES ASSUME Long PROVE (HoldIsKept /\ OneHold /\ AlertDedups /\ AlertedOnce)'
    BY DEF FillInv, Long
  <2>1. /\ fillUntil[f] <= clock /\ fillUntil'[f] = clock + DedupTTL
        /\ \A e \in Fills : e # f => fillUntil'[e] = fillUntil[e]
        /\ clock \in Nat /\ stage'[w] = "cooldown"
    BY <1>1, <1>4, Constants DEF TypeOK, Present, Add, Goto
  <2>2. \A e \in Fills : Holds(w, e)' => e = f
    BY <1>4 DEF Goto, Holds
  <2>3. ASSUME NEW v \in Workers PROVE ~Holds(v, f)
    BY <1>1, <2>1, HeldIsAlive, FillTimes
  <2>4. claimed[w] \in Nat /\ claimed[w] <= clock
    BY <1>1, Constants DEF BaseInv, JobsAreShort
  <2> HIDE DEF f
  <2>5. HoldIsKept'
    BY <1>1, <1>2, <2>1, <2>2, <2>3, <2>4, Constants DEF FillInv, HoldIsKept, Gap
  <2>6. OneHold'
    BY <1>1, <1>2, <2>2, <2>3 DEF FillInv, OneHold
  <2>7. AlertedOnce'
    BY <1>1 DEF FillInv, AlertedOnce
  <2>8. AlertDedups'
    <3> SUFFICES ASSUME NEW e \in Fills, NEW i \in DOMAIN alerts[e]
                 PROVE  LET again == alerts[e][i] + Gap IN
                        /\ again <= clock \/ again <= fillUntil'[e]
                        /\ \A v \in Workers : Holds(v, e)' =>
                              again <= (IF stage'[v] = "cooldown" THEN clock ELSE claimed[v])
      BY <1>1 DEF AlertDedups, Gap
    <3>1. LET again == alerts[e][i] + Gap IN
          /\ again \in Nat /\ fillUntil[e] \in Nat
          /\ again <= clock \/ again <= fillUntil[e]
          /\ \A v \in Workers : Holds(v, e) =>
                again <= (IF stage[v] = "cooldown" THEN clock ELSE claimed[v])
      BY FillTimes, LongTimes DEF FillInv, AlertDedups
    <3>2. CASE e = f
      BY <1>2, <2>1, <2>3, <3>1, <3>2
    <3>3. CASE e # f
      BY <1>2, <2>1, <2>2, <3>1, <3>3
    <3>4. QED
      BY <3>2, <3>3
  <2>9. QED
    BY <2>5, <2>6, <2>7, <2>8
<1>5. QED
  BY <1>3, <1>4 DEF CheckFill

(* The holder claims the group: what the key has left is enough still.     *)
LEMMA FillClaim ==
    ASSUME BaseInv, FillInv, BaseInv', NEW w \in Workers, CheckCooldown(w)
    PROVE  FillInv'
<1> DEFINE f == job[w]
<1>1. /\ TypeOK /\ Work(w) /\ clock' = clock /\ UNCHANGED <<fillUntil, alerts>>
      /\ stage[w] = "cooldown" /\ f \in Fills /\ Holds(w, f)
  BY OthersWait, Moves DEF BaseInv, Work, CheckCooldown, history, Stages, Holds
<1>2. \A v \in Workers \ {w} : /\ stage'[v] = stage[v] /\ claimed'[v] = claimed[v]
                               /\ \A e \in Fills : Holds(v, e)' <=> Holds(v, e)
  BY <1>1, OthersWait
<1>3. CASE Finish(w)
  <2>1. \A e \in Fills : ~Holds(w, e)'
    BY <1>1, <1>3 DEF Holds, Finish, TypeOK
  <2>2. clock' >= clock
    BY <1>1, Constants DEF TypeOK
  <2>3. QED
    BY <1>1, <1>2, <2>1, <2>2, FillUnmoved
<1>4. CASE Goto(w, "send") /\ claimed' = [claimed EXCEPT ![w] = clock]
  <2> SUFFICES ASSUME Long PROVE (HoldIsKept /\ OneHold /\ AlertDedups /\ AlertedOnce)'
    BY DEF FillInv, Long
  <2>1. stage'[w] = "send" /\ claimed'[w] = clock /\ \A e \in Fills : Holds(w, e)' => e = f
    BY <1>1, <1>4 DEF Goto, Holds, TypeOK
  <2>2. /\ fillUntil[f] >= claimed[w] + DedupTTL /\ clock - claimed[w] <= Cooldown - 1
        /\ claimed[w] \in Nat /\ clock \in Nat
    BY <1>1, FillTimes DEF FillInv, HoldIsKept
  <2>3. fillUntil[f] >= clock + Gap
    BY <1>1, <2>2, LongTimes, FillTimes, Constants
  <2> HIDE DEF f
  <2>4. HoldIsKept'
    BY <1>1, <1>2, <2>1, <2>3 DEF FillInv, HoldIsKept, Gap
  <2>5. OneHold'
    BY <1>1, <1>2, <2>1 DEF FillInv, OneHold
  <2>6. AlertedOnce'
    BY <1>1 DEF FillInv, AlertedOnce
  <2>7. AlertDedups'
    <3> SUFFICES ASSUME NEW e \in Fills, NEW i \in DOMAIN alerts[e]
                 PROVE  LET again == alerts[e][i] + Gap IN
                        /\ again <= clock \/ again <= fillUntil[e]
                        /\ \A v \in Workers : Holds(v, e)' =>
                              again <= (IF stage'[v] = "cooldown" THEN clock ELSE claimed'[v])
      BY <1>1 DEF AlertDedups, Gap
    <3>1. LET again == alerts[e][i] + Gap IN
          /\ again <= clock \/ again <= fillUntil[e]
          /\ \A v \in Workers : Holds(v, e) =>
                again <= (IF stage[v] = "cooldown" THEN clock ELSE claimed[v])
      BY DEF FillInv, AlertDedups
    <3>2. QED
      BY <1>1, <1>2, <2>1, <3>1
  <2>8. QED
    BY <2>4, <2>5, <2>6, <2>7
<1>5. QED
  BY <1>3, <1>4 DEF CheckCooldown

(* The holder's alert is acknowledged: it is the latest of its fill.       *)
LEMMA FillSend ==
    ASSUME BaseInv, FillInv, BaseInv', NEW w \in Workers, SendAlert(w)
    PROVE  FillInv'
<1> DEFINE f == job[w]
<1>1. /\ TypeOK /\ Work(w) /\ clock' = clock /\ UNCHANGED <<claimed, fillUntil>>
      /\ stage[w] = "send" /\ f \in Fills /\ Holds(w, f)
  BY OthersWait, Moves DEF BaseInv, Work, SendAlert, memory, Stages, Holds
<1>2. \A v \in Workers \ {w} : /\ stage'[v] = stage[v]
                               /\ \A e \in Fills : Holds(v, e)' <=> Holds(v, e)
  BY <1>1, OthersWait
<1>3. CASE UNCHANGED alerts
  <2>1. \A e \in Fills : Holds(w, e)' => Holds(w, e) /\ stage'[w] # "cooldown"
    BY <1>1 DEF SendAlert, Holds, Goto, Finish, TypeOK
  <2>2. clock' >= clock
    BY <1>1, Constants DEF TypeOK
  <2>3. QED
    BY <1>1, <1>2, <1>3, <2>1, <2>2, FillUnmoved
<1>4. CASE Goto(w, "match") /\ Acknowledged(w)
  <2> SUFFICES ASSUME Long PROVE (HoldIsKept /\ OneHold /\ AlertDedups /\ AlertedOnce)'
    BY DEF FillInv, Long
  <2>1. \A e \in Fills : ~Holds(w, e)'
    BY <1>1, <1>4 DEF Goto, Holds, TypeOK
  <2>2. \A v \in Workers, e \in Fills :
          Holds(v, e)' => v # w /\ e # f /\ Holds(v, e) /\ stage'[v] = stage[v]
    BY <1>1, <1>2, <2>1 DEF FillInv, OneHold
  <2>3. claimed[w] \in Nat /\ fillUntil[f] >= claimed[w] + Gap /\ Gap \in Nat
    BY <1>1, FillTimes, LongTimes DEF FillInv, HoldIsKept
  <2>4. \A e \in Fills : e # f => alerts'[e] = alerts[e]
    BY <1>1, <1>4 DEF Acknowledged, TypeOK
  <2>5. ASSUME NEW i \in DOMAIN alerts'[f]
        PROVE  \/ i \in DOMAIN alerts[f] /\ alerts'[f][i] = alerts[f][i]
               \/ i = Len(alerts[f]) + 1 /\ alerts'[f][i] = claimed[w]
    <3>1. alerts'[f] = Append(alerts[f], claimed[w])
      BY <1>1, <1>4 DEF Acknowledged, TypeOK
    <3>2. alerts[f] \in Seq(1 .. MaxTime) /\ claimed[w] \in 1 .. MaxTime
      BY <1>1, Constants DEF BaseInv, TypeOK, JobsAreShort
    <3>3. QED
      BY <3>1, <3>2, Appended
  <2>6. \A i \in DOMAIN alerts[f] :
          alerts[f][i] \in Nat /\ alerts[f][i] + Gap <= claimed[w]
    BY <1>1, FillTimes DEF FillInv, AlertDedups
  <2> HIDE DEF f
  <2>7. HoldIsKept' /\ OneHold'
    BY <1>1, <2>2 DEF FillInv, HoldIsKept, OneHold, Gap
  <2>8. AlertDedups'
    <3> SUFFICES ASSUME NEW e \in Fills, NEW i \in DOMAIN alerts'[e]
                 PROVE  LET again == alerts'[e][i] + Gap IN
                        /\ again <= clock \/ again <= fillUntil[e]
                        /\ \A v \in Workers : Holds(v, e)' =>
                              again <= (IF stage'[v] = "cooldown" THEN clock ELSE claimed[v])
      BY <1>1 DEF AlertDedups, Gap
    <3>1. CASE i \in DOMAIN alerts[e] /\ alerts'[e][i] = alerts[e][i]
      BY <2>2, <3>1 DEF FillInv, AlertDedups
    <3>2. CASE e = f /\ alerts'[e][i] = claimed[w]
      BY <2>2, <2>3, <3>2
    <3>3. QED
      BY <2>4, <2>5, <3>1, <3>2
  <2>9. AlertedOnce'
    <3> SUFFICES ASSUME NEW e \in Fills,
                        NEW i \in DOMAIN alerts'[e], NEW k \in DOMAIN alerts'[e], i # k
                 PROVE  Apart(alerts'[e][i], alerts'[e][k], Gap)
      BY DEF AlertedOnce, Gap
    <3>1. CASE e # f
      BY <2>4, <3>1 DEF FillInv, AlertedOnce, Gap
    <3>2. CASE e = f
      <4>1. CASE /\ i \in DOMAIN alerts[f] /\ alerts'[f][i] = alerts[f][i]
                 /\ k \in DOMAIN alerts[f] /\ alerts'[f][k] = alerts[f][k]
        BY <1>1, <3>2, <4>1 DEF FillInv, AlertedOnce, Gap, f
      <4>2. CASE i \in DOMAIN alerts[f] /\ alerts'[f][i] = alerts[f][i] /\ alerts'[f][k] = claimed[w]
        BY <2>3, <2>6, <3>2, <4>2 DEF Apart
      <4>3. CASE k \in DOMAIN alerts[f] /\ alerts'[f][k] = alerts[f][k] /\ alerts'[f][i] = claimed[w]
        BY <2>3, <2>6, <3>2, <4>3 DEF Apart
      <4>4. QED
        BY <2>5, <3>2, <4>1, <4>2, <4>3
    <3>3. QED
      BY <3>1, <3>2
  <2>10. QED
    BY <2>7, <2>8, <2>9
<1>5. QED
  BY <1>3, <1>4 DEF SendAlert

(* The holder clears the key, that is its own.                             *)
LEMMA FillUndo ==
    ASSUME BaseInv, FillInv, BaseInv', NEW w \in Workers, UndoFill(w)
    PROVE  FillInv'
<1> SUFFICES ASSUME Long PROVE (HoldIsKept /\ OneHold /\ AlertDedups /\ AlertedOnce)'
  BY DEF FillInv, Long
<1> DEFINE f == job[w]
<1>1. /\ TypeOK /\ Work(w) /\ clock' = clock /\ UNCHANGED <<claimed, alerts>>
      /\ stage[w] = "undo" /\ f \in Fills /\ Holds(w, f)
      /\ Goto(w, "undoCooldown") /\ fillUntil' = Remove(fillUntil, f)
  BY OthersWait, Moves DEF BaseInv, Work, UndoFill, history, Stages, Holds
<1>2. \A v \in Workers \ {w} : /\ stage'[v] = stage[v]
                               /\ \A e \in Fills : Holds(v, e)' <=> Holds(v, e)
  BY <1>1, OthersWait
<1>3. \A e \in Fills : ~Holds(w, e)'
  BY <1>1 DEF Holds, Goto, TypeOK
<1>4. \A v \in Workers, e \in Fills :
        Holds(v, e)' => e # f /\ Holds(v, e) /\ stage'[v] = stage[v]
  BY <1>1, <1>2, <1>3 DEF FillInv, OneHold
<1>5. \A e \in Fills : e # f => fillUntil'[e] = fillUntil[e]
  BY <1>1 DEF Remove, TypeOK
<1> HIDE DEF f
<1>6. HoldIsKept' /\ OneHold' /\ AlertedOnce'
  BY <1>1, <1>4, <1>5 DEF FillInv, HoldIsKept, OneHold, AlertedOnce, Gap
<1>7. AlertDedups'
  <2> SUFFICES ASSUME NEW e \in Fills, NEW i \in DOMAIN alerts[e]
               PROVE  LET again == alerts[e][i] + Gap IN
                      /\ again <= clock \/ again <= fillUntil'[e]
                      /\ \A v \in Workers : Holds(v, e)' =>
                            again <= (IF stage'[v] = "cooldown" THEN clock ELSE claimed[v])
    BY <1>1 DEF AlertDedups, Gap
  <2>1. LET again == alerts[e][i] + Gap IN
        /\ again \in Nat
        /\ again <= clock \/ again <= fillUntil[e]
        /\ \A v \in Workers : Holds(v, e) =>
              again <= (IF stage[v] = "cooldown" THEN clock ELSE claimed[v])
    BY FillTimes, LongTimes DEF FillInv, AlertDedups
  <2>2. CASE e = f
    <3>1. alerts[e][i] + Gap <= claimed[w] /\ alerts[e][i] + Gap \in Nat
      BY <1>1, <2>1, <2>2, FillTimes, LongTimes
    <3>2. claimed[w] \in Nat /\ claimed[w] <= clock /\ clock \in Nat
      BY <1>1, FillTimes DEF f
    <3>3. QED
      BY <1>4, <2>2, <3>1, <3>2
  <2>3. CASE e # f
    BY <1>4, <1>5, <2>1, <2>3
  <2>4. QED
    BY <2>2, <2>3
<1>8. QED
  BY <1>6, <1>7

(* Every step keeps what the fills' keys stand for.                         *)
LEMMA FillNext ==
    ASSUME BaseInv, FillInv, BaseInv', [Next]_vars
    PROVE  FillInv'
<1> USE DEF pool, worker, memory, portfolio, history
<1>1. CASE \/ \E f \in Fills : Submit(f)
           \/ Drain \/ PollPositions \/ Tick \/ UNCHANGED vars
  <2>1. UNCHANGED <<fillUntil, alerts, stage, job, claimed>>
    BY <1>1 DEF Submit, Drain, PollPositions, Tick, vars
  <2>2. clock' = clock \/ clock' = clock + 1
    BY <1>1 DEF Submit, Drain, PollPositions, Tick, vars
  <2>3. clock' >= clock
    BY <2>2, Constants DEF BaseInv, TypeOK
  <2>4. \A w \in Workers, f \in Fills :
          Holds(w, f)' => /\ Holds(w, f) /\ claimed'[w] = claimed[w]
                          /\ stage'[w] = "cooldown" <=> stage[w] = "cooldown"
    BY <2>1 DEF Holds
  <2>5. QED
    BY <2>1, <2>3, <2>4, FillUnmoved
<1>2. ASSUME NEW w \in Workers,
             \/ Take(w) \/ UndoCooldown(w)
             \/ MatchPosition(w) \/ RememberPosition(w) \/ SendPosition(w)
      PROVE  FillInv'
  <2>1. TypeOK /\ Work(w)
    BY <1>2 DEF BaseInv, Work
  <2>2. UNCHANGED <<fillUntil, alerts>> /\ clock' >= clock
    BY <1>2, Constants DEF BaseInv, TypeOK, Take, UndoCooldown, MatchPosition,
                           RememberPosition, SendPosition
  <2>3. \A f \in Fills : ~Holds(w, f)'
    BY <1>2, <2>1
    DEF TypeOK, Take, UndoCooldown, MatchPosition, RememberPosition, SendPosition,
        Goto, Finish, Holds
  <2>4. \A v \in Workers, f \in Fills :
          Holds(v, f)' => /\ Holds(v, f) /\ claimed'[v] = claimed[v]
                          /\ stage'[v] = "cooldown" <=> stage[v] = "cooldown"
    BY <2>1, <2>3, OthersWait
  <2>5. QED
    BY <2>2, <2>4, FillUnmoved
<1>3. QED
  BY <1>1, <1>2, FillCheck, FillClaim, FillSend, FillUndo DEF Next, Work
-----------------------------------------------------------------------------
(* What a group cools down for.                                            *)

(* Every step keeps cooldowns earned: the worker that took a key is still   *)
(* there, or delivered, or removed it.                                      *)
LEMMA EarnedNext ==
    ASSUME BaseInv, CooldownIsEarned, BaseInv', [Next]_vars
    PROVE  CooldownIsEarned'
<1> SUFFICES ASSUME NEW g \in Groups, Present(coolUntil, g)'
             PROVE  GroupAlerted(g)' \/ g \in over' \/ \E v \in Workers : Claims(v, g)'
  BY DEF CooldownIsEarned, Claims
<1> USE DEF pool, worker, memory, portfolio, history
<1>1. /\ Present(coolUntil, g) => GroupAlerted(g) \/ g \in over \/ \E v \in Workers : Claims(v, g)
      /\ clock \in Nat /\ clock' \in Nat /\ coolUntil[g] \in Nat
  BY Constants DEF BaseInv, TypeOK, CooldownIsEarned, Claims
<1>2. told \subseteq told' /\ over \subseteq over' /\ clock' >= clock
  <2>1. clock' = clock \/ clock' = clock + 1
    BY DEF Next, Work, vars, Submit, Drain, PollPositions, Tick, Take, CheckFill, CheckCooldown,
           SendAlert, UndoFill, UndoCooldown, MatchPosition, RememberPosition, SendPosition
  <2>2. told \subseteq told' /\ over \subseteq over'
    BY DEF Next, Work, vars, Submit, Drain, PollPositions, Tick, Take, CheckFill, CheckCooldown,
           SendAlert, UndoFill, UndoCooldown, MatchPosition, RememberPosition, SendPosition,
           Reached
  <2>3. QED
    BY <1>1, <2>1, <2>2
<1>3. GroupAlerted(g) \/ g \in over => GroupAlerted(g)' \/ g \in over'
  BY <1>2 DEF GroupAlerted
<1>4. CASE UNCHANGED <<coolUntil, stage, job>>
  <2>1. Present(coolUntil, g)
    BY <1>1, <1>2, <1>4 DEF Present
  <2>2. \A v \in Workers : Claims(v, g) => Claims(v, g)'
    BY <1>4 DEF Claims
  <2>3. QED
    BY <1>1, <1>3, <2>1, <2>2
<1>5. ASSUME NEW w \in Workers, Work(w)
      PROVE  GroupAlerted(g)' \/ g \in over' \/ \E v \in Workers : Claims(v, g)'
  <2>1. TypeOK /\ clock' = clock /\ \A v \in Workers \ {w} : Claims(v, g)' <=> Claims(v, g)
    BY <1>5, OthersWait DEF BaseInv
  <2>2. CASE UNCHANGED coolUntil /\ (Claims(w, g) => Claims(w, g)' \/ GroupAlerted(g)' \/ g \in over')
    <3>1. Present(coolUntil, g)
      BY <2>1, <2>2 DEF Present
    <3>2. QED
      BY <1>1, <1>3, <2>1, <2>2, <3>1
  <2>3. CASE Take(w) \/ CheckFill(w) \/ MatchPosition(w) \/ RememberPosition(w) \/ SendPosition(w)
    <3>1. ~Claims(w, g)
      BY <2>3 DEF Claims, Take, CheckFill, MatchPosition, RememberPosition, SendPosition
    <3>2. UNCHANGED coolUntil
      BY <2>3 DEF Take, CheckFill, MatchPosition, RememberPosition, SendPosition
    <3>3. QED
      BY <2>2, <3>1, <3>2
  <2>4. CASE CheckCooldown(w)
    <3>1. stage[w] = "cooldown" /\ job[w] \in Fills /\ ~Claims(w, g)
      BY <2>1, <2>4, Moves DEF CheckCooldown, Claims, Stages
    <3>2. CASE UNCHANGED coolUntil
      BY <2>2, <3>1, <3>2
    <3>3. CASE Goto(w, "send") /\ coolUntil' = Add(coolUntil, Group[job[w]], Cooldown)
      <4>1. CASE g = Group[job[w]]
        <5>1. Claims(w, g)'
          BY <2>1, <3>1, <3>3, <4>1, Constants DEF Goto, Claims, TypeOK
        <5>2. QED
          BY <5>1
      <4>2. CASE g # Group[job[w]]
        <5>1. coolUntil'[g] = coolUntil[g]
          BY <2>1, <3>3, <4>2 DEF Add, TypeOK
        <5>2. Present(coolUntil, g)
          BY <2>1, <5>1 DEF Present
        <5>3. QED
          BY <1>1, <1>3, <2>1, <3>1, <5>2
      <4>3. QED
        BY <4>1, <4>2
    <3>4. QED
      BY <2>4, <3>2, <3>3 DEF CheckCooldown
  <2>5. CASE SendAlert(w)
    <3>1. UNCHANGED coolUntil
      BY <2>5 DEF SendAlert
    <3>2. ASSUME Claims(w, g) PROVE Claims(w, g)' \/ GroupAlerted(g)' \/ g \in over'
      <4>1. job[w] \in Fills /\ Group[job[w]] = g
        BY <2>1, <2>5, <3>2, Moves DEF Claims, SendAlert, Stages
      <4>2. CASE over' = over \cup {Group[job[w]]}
        BY <4>1, <4>2
      <4>3. CASE Reached(w)
        BY <4>1, <4>3 DEF Reached, GroupAlerted
      <4>4. CASE Goto(w, "undo")
        BY <2>1, <3>2, <4>4 DEF Goto, Claims, TypeOK
      <4>5. QED
        BY <2>5, <4>2, <4>3, <4>4 DEF SendAlert
    <3>3. QED
      BY <2>2, <3>1, <3>2
  <2>6. CASE UndoFill(w)
    <3>1. Claims(w, g) => Claims(w, g)'
      BY <2>1, <2>6 DEF UndoFill, Goto, Claims, TypeOK
    <3>2. QED
      BY <2>2, <2>6, <3>1 DEF UndoFill
  <2>7. CASE UndoCooldown(w)
    <3>1. job[w] \in Fills
      BY <2>1, <2>7, Moves DEF UndoCooldown, Stages
    <3>2. CASE g = Group[job[w]]
      <4>1. coolUntil'[g] = 0
        BY <2>1, <2>7, <3>2 DEF UndoCooldown, Remove, TypeOK
      <4>2. QED
        BY <1>1, <2>1, <4>1 DEF Present
    <3>3. CASE g # Group[job[w]]
      <4>1. coolUntil'[g] = coolUntil[g] /\ ~Claims(w, g)
        BY <2>1, <2>7, <3>3 DEF UndoCooldown, Remove, Claims, TypeOK
      <4>2. Present(coolUntil, g)
        BY <2>1, <4>1 DEF Present
      <4>3. QED
        BY <1>1, <1>3, <2>1, <4>1, <4>2
    <3>4. QED
      BY <3>2, <3>3
  <2>8. QED
    BY <1>5, <2>3, <2>4, <2>5, <2>6, <2>7 DEF Work
<1>6. CASE (\E f \in Fills : Submit(f)) \/ Drain \/ PollPositions \/ Tick \/ UNCHANGED vars
  BY <1>4, <1>6 DEF Submit, Drain, PollPositions, Tick, vars
<1>7. QED
  BY <1>5, <1>6 DEF Next
-----------------------------------------------------------------------------
(* Position alerts, while every send succeeds.                             *)

(* A step of a worker that posts nothing changes nothing here.             *)
LEMMA PositionUnmoved ==
    ASSUME BaseInv, PositionInv, NEW W \in SUBSET Workers,
           UNCHANGED <<positionUntil, positions, told, failures>>, steady' \subseteq steady,
           \A v \in Workers \ W : stage'[v] = stage[v] /\ job'[v] = job[v],
           \A v \in W, f \in Fills : ~Posts(v, f)
    PROVE  PositionInv'
<1>1. \A f \in Fills : Sending(f) => Sending(f)'
  BY DEF Sending, Posts
<1>2. \A v \in Workers, f \in Fills : Posts(v, f) => Posts(v, f)'
  BY DEF Posts
<1>3. \A g \in Groups : OnTheWay(g) => OnTheWay(g)'
  BY <1>2 DEF OnTheWay
<1>4. \A f \in told : f \in Fills /\ Group[f] \in Groups
  BY Constants DEF BaseInv, TypeOK
<1>5. \A g \in Groups : Delivered(g) => Delivered(g)'
  BY DEF Delivered
<1>6. QED
  BY <1>1, <1>3, <1>4, <1>5 DEF PositionInv

(* A worker that alerts, or that posts, of fill f in group g.              *)
LEMMA PositionStep ==
    ASSUME BaseInv, PositionInv, BaseInv', failures' = 0,
           NEW w \in Workers, NEW f \in Fills, NEW g \in Groups, job[w] = f, Group[f] = g,
           SendAlert(w) \/ MatchPosition(w) \/ RememberPosition(w) \/ SendPosition(w)
    PROVE  PositionInv'
<1> USE DEF pool, worker, memory, portfolio, history
<1>1. /\ TypeOK /\ Work(w)
      /\ clock \in Nat /\ failures \in Nat /\ steady' = steady
  <2>1. TypeOK /\ Work(w)
    BY DEF BaseInv, Work
  <2>2. clock \in 1 .. MaxTime /\ failures \in 0 .. MaxFailures
    BY <2>1 DEF TypeOK
  <2>3. steady' = steady
    BY DEF SendAlert, MatchPosition, RememberPosition, SendPosition
  <2>4. QED
    BY <2>1, <2>2, <2>3, Constants, AlertsAssumption
<1>2. \A v \in Workers \ {w} :
        /\ stage'[v] = stage[v] /\ job'[v] = job[v]
        /\ \A e \in Fills : Posts(v, e) <=> Posts(v, e)'
  BY <1>1, OthersWait
<1>3. failures = 0
  BY <1>1 DEF SendAlert, MatchPosition, RememberPosition, SendPosition, SendFails
<1>4. /\ \A e \in Fills : positionUntil[e] > 0 => e \in positions \/ Sending(e)
      /\ \A e \in told : Group[e] \in steady => Delivered(Group[e]) \/ OnTheWay(Group[e])
  BY <1>3 DEF PositionInv
<1>5. \A e \in told : e \in Fills /\ Group[e] \in Groups
  BY <1>1, Constants DEF TypeOK
<1>6. \A h \in Groups : OnTheWay(h) => OnTheWay(h)' \/ (h = g /\ Posts(w, f))
  BY <1>1, <1>2 DEF OnTheWay, Posts
<1>7. \A e \in Fills : Sending(e) => Sending(e)' \/ (e = f /\ stage[w] = "sendPosition")
  BY <1>1, <1>2 DEF Sending
<1>8. ASSUME NEW v \in Workers, job'[v] = f, stage'[v] \in {"match", "remember", "sendPosition"}
      PROVE  OnTheWay(g)'
  BY <1>8 DEF OnTheWay, Posts
<1>9. CASE SendAlert(w)
  <2>1. UNCHANGED <<positionUntil, positions>> /\ stage[w] = "send" /\ ~Posts(w, f)
    BY <1>9 DEF SendAlert, Posts
  <2>2. \A e \in told' : e \in told \/ (e = f /\ OnTheWay(g)')
    <3>1. told' = told \/ (Goto(w, "match") /\ Reached(w))
      <4>1. ~SendFails
        BY <1>1 DEF SendFails
      <4>2. QED
        BY <1>9, <4>1 DEF SendAlert
    <3>2. ASSUME Goto(w, "match") PROVE stage'[w] = "match" /\ job'[w] = f
      BY <1>1, <3>2 DEF Goto, TypeOK
    <3>3. QED
      BY <1>8, <3>1, <3>2 DEF Reached, Posts
  <2>3. \A h \in Groups : Delivered(h) <=> Delivered(h)'
    BY <2>1 DEF Delivered
  <2>4. \A e \in Fills : positionUntil'[e] > 0 => e \in positions' \/ Sending(e)'
    BY <1>4, <1>7, <2>1
  <2>5. \A e \in told' : Group[e] \in steady' => Delivered(Group[e])' \/ OnTheWay(Group[e])'
    BY <1>1, <1>4, <1>5, <1>6, <2>1, <2>2, <2>3
  <2>6. QED
    BY <2>4, <2>5 DEF PositionInv
<1>10. CASE MatchPosition(w)
  <2>1. UNCHANGED <<positionUntil, positions, told>> /\ stage[w] = "match"
    BY <1>10 DEF MatchPosition
  <2>2. g \in steady => OnTheWay(g)'
    <3> SUFFICES ASSUME g \in steady PROVE OnTheWay(g)'
      OBVIOUS
    <3>1. Goto(w, "remember")
      BY <1>1, <1>10 DEF MatchPosition, TypeOK
    <3>2. stage'[w] = "remember" /\ job'[w] = f
      BY <1>1, <3>1 DEF Goto, TypeOK
    <3>3. QED
      BY <1>8, <3>2 DEF Posts
  <2>3. \A h \in Groups : Delivered(h) <=> Delivered(h)'
    BY <2>1 DEF Delivered
  <2>4. \A e \in Fills : positionUntil'[e] > 0 => e \in positions' \/ Sending(e)'
    BY <1>4, <1>7, <2>1
  <2>5. \A e \in told' : Group[e] \in steady' => Delivered(Group[e])' \/ OnTheWay(Group[e])'
    BY <1>1, <1>4, <1>5, <1>6, <2>1, <2>2, <2>3
  <2>6. QED
    BY <2>4, <2>5 DEF PositionInv
<1>11. CASE RememberPosition(w)
  <2>1. UNCHANGED <<positions, told>> /\ stage[w] = "remember"
    BY <1>11 DEF RememberPosition
  <2>2. \A h \in Groups : Delivered(h) <=> Delivered(h)'
    BY <2>1 DEF Delivered
  <2>3. CASE Present(positionUntil, f) /\ UNCHANGED positionUntil
    <3>1. f \in positions \/ Sending(f)
      BY <1>1, <1>4, <2>3 DEF Present, TypeOK
    <3>2. Delivered(g)' \/ OnTheWay(g)'
      <4>1. CASE f \in positions
        BY <2>1, <4>1 DEF Delivered
      <4>2. CASE Sending(f)
        <5>1. PICK v \in Workers : stage[v] = "sendPosition" /\ job[v] = f
          BY <4>2 DEF Sending
        <5>2. v # w /\ Posts(v, f)
          BY <2>1, <5>1 DEF Posts
        <5>3. stage'[v] = "sendPosition" /\ job'[v] = f
          BY <1>2, <5>1, <5>2
        <5>4. QED
          BY <1>8, <5>3
      <4>3. QED
        BY <3>1, <4>1, <4>2
    <3>3. \A e \in Fills : positionUntil'[e] > 0 => e \in positions' \/ Sending(e)'
      BY <1>4, <1>7, <2>1, <2>3
    <3>4. \A e \in told' : Group[e] \in steady' => Delivered(Group[e])' \/ OnTheWay(Group[e])'
      BY <1>1, <1>4, <1>5, <1>6, <2>1, <2>2, <3>2
    <3>5. QED
      BY <3>3, <3>4 DEF PositionInv
  <2>4. CASE Goto(w, "sendPosition") /\ positionUntil' = Add(positionUntil, f, DedupTTL)
    <3>1. stage'[w] = "sendPosition" /\ job'[w] = f
      BY <1>1, <2>4 DEF Goto, TypeOK
    <3>2. OnTheWay(g)'
      BY <1>8, <3>1 DEF Posts
    <3>3. \A e \in Fills : e = f => Sending(e)'
      BY <3>1 DEF Sending
    <3>4. \A e \in Fills : e # f => positionUntil'[e] = positionUntil[e]
      BY <1>1, <2>4 DEF Add, TypeOK
    <3>5. \A e \in Fills : positionUntil'[e] > 0 => e \in positions' \/ Sending(e)'
      BY <1>4, <1>7, <2>1, <3>3, <3>4
    <3>6. \A e \in told' : Group[e] \in steady' => Delivered(Group[e])' \/ OnTheWay(Group[e])'
      BY <1>1, <1>4, <1>5, <1>6, <2>1, <2>2, <3>2
    <3>7. QED
      BY <3>5, <3>6 DEF PositionInv
  <2>5. QED
    BY <1>11, <2>3, <2>4 DEF RememberPosition
<1>12. CASE SendPosition(w)
  <2>1. /\ UNCHANGED <<positionUntil, told>> /\ positions' = positions \cup {f}
        /\ stage[w] = "sendPosition"
    BY <1>1, <1>3, <1>12 DEF SendPosition, SendFails
  <2>2. \A h \in Groups : Delivered(h) \/ h = g => Delivered(h)'
    BY <2>1 DEF Delivered
  <2>3. \A e \in Fills : positionUntil'[e] > 0 => e \in positions' \/ Sending(e)'
    BY <1>4, <1>7, <2>1
  <2>4. \A e \in told' : Group[e] \in steady' => Delivered(Group[e])' \/ OnTheWay(Group[e])'
    BY <1>1, <1>4, <1>5, <1>6, <2>1, <2>2
  <2>5. QED
    BY <2>3, <2>4 DEF PositionInv
<1>13. QED
  BY <1>9, <1>10, <1>11, <1>12

(* Every step keeps the follow-ups: a fill that was alerted on a market     *)
(* held all along is posted or in a worker's hand.                          *)
LEMMA PositionNext ==
    ASSUME BaseInv, PositionInv, BaseInv', [Next]_vars
    PROVE  PositionInv'
<1> USE DEF pool, worker, memory, portfolio, history
<1>1. CASE \/ \E f \in Fills : Submit(f)
           \/ Drain \/ PollPositions \/ Tick \/ UNCHANGED vars
  <2>1. UNCHANGED <<positionUntil, positions, told, failures, stage, job>>
    BY <1>1 DEF Submit, Drain, PollPositions, Tick, vars
  <2>2. steady' \subseteq steady
    BY <1>1 DEF Submit, Drain, PollPositions, Tick, vars
  <2>3. /\ {} \in SUBSET Workers /\ \A v \in {}, f \in Fills : ~Posts(v, f)
        /\ \A v \in Workers \ {} : stage'[v] = stage[v] /\ job'[v] = job[v]
    BY <2>1
  <2> HIDE DEF pool, worker, memory, portfolio, history
  <2>4. QED
    BY <2>1, <2>2, <2>3, PositionUnmoved
<1>2. ASSUME NEW w \in Workers,
             \/ Take(w) \/ CheckFill(w) \/ CheckCooldown(w) \/ UndoFill(w) \/ UndoCooldown(w)
      PROVE  PositionInv'
  <2>1. UNCHANGED <<positionUntil, positions, told, failures>> /\ steady' \subseteq steady
    BY <1>2 DEF Take, CheckFill, CheckCooldown, UndoFill, UndoCooldown
  <2>2. \A f \in Fills : ~Posts(w, f)
    BY <1>2 DEF Take, CheckFill, CheckCooldown, UndoFill, UndoCooldown, Posts
  <2>3. \A v \in Workers \ {w} : stage'[v] = stage[v] /\ job'[v] = job[v]
    BY <1>2, OthersWait DEF BaseInv, Work
  <2>4. {w} \in SUBSET Workers /\ \A v \in {w}, f \in Fills : ~Posts(v, f)
    BY <2>2
  <2>5. QED
    BY <2>1, <2>3, <2>4, PositionUnmoved
<1>3. ASSUME NEW w \in Workers,
             SendAlert(w) \/ MatchPosition(w) \/ RememberPosition(w) \/ SendPosition(w),
             failures' = 0
      PROVE  PositionInv'
  <2>1. job[w] \in Fills /\ Group[job[w]] \in Groups
    BY <1>3, Moves, Constants
    DEF BaseInv, SendAlert, MatchPosition, RememberPosition, SendPosition, Stages
  <2>2. QED
    BY <1>3, <2>1, PositionStep
<1>4. CASE failures' # 0
  BY <1>4 DEF PositionInv
<1>5. QED
  BY <1>1, <1>2, <1>3, <1>4 DEF Next, Work
-----------------------------------------------------------------------------
(* The theorems.                                                           *)

AlertsInv == BaseInv /\ CoolInv /\ FillInv /\ CooldownIsEarned /\ PositionInv

(* The whole invariant holds at the start.                                  *)
LEMMA AlertsInit == Init => AlertsInv
<1> SUFFICES ASSUME Init PROVE AlertsInv
  OBVIOUS
<1>1. BaseInv
  BY BaseInit
<1>2. \A w \in Workers : /\ \A g \in Groups : ~Claims(w, g)
                         /\ \A f \in Fills : ~Holds(w, f)
  BY DEF Init, Claims, Holds
<1>3. \A f \in Fills : DOMAIN alerts[f] = {}
  BY DEF Init
<1>4. CoolInv
  BY <1>2, <1>3 DEF CoolInv, ClaimIsKept, OneClaim, AlertCools, OneAlertPerBurst
<1>5. FillInv
  BY <1>2, <1>3 DEF FillInv, HoldIsKept, OneHold, AlertDedups, AlertedOnce
<1>6. CooldownIsEarned
  BY DEF Init, CooldownIsEarned, Present
<1>7. PositionInv
  BY DEF Init, PositionInv
<1>8. QED
  BY <1>1, <1>4, <1>5, <1>6, <1>7 DEF AlertsInv

(* Every step keeps the whole invariant.                                    *)
LEMMA AlertsNext == AlertsInv /\ [Next]_vars => AlertsInv'
  BY BaseNext, CoolNext, FillNext, EarnedNext, PositionNext DEF AlertsInv

(* The whole invariant holds throughout.                                    *)
LEMMA AlertsKept == Spec => []AlertsInv
<1>1. Init => AlertsInv
  BY AlertsInit
<1>2. AlertsInv /\ [Next]_vars => AlertsInv'
  BY AlertsNext
<1>3. QED
  BY <1>1, <1>2, PTL DEF Spec

(* The trades of a burst are worth one alert: whatever the workers do at   *)
(* the same time, two acknowledged alerts of a group are a cooldown apart. *)
THEOREM AlertsOncePerBurst == Spec => []OneAlertPerBurst
<1>1. AlertsInv => OneAlertPerBurst
  BY DEF AlertsInv, CoolInv
<1>2. QED
  BY <1>1, AlertsKept, PTL

(* State and queue are well typed, and a fill that was alerted is not      *)
(* alerted again before its key expires.  Where the keys of fills outlive  *)
(* two cooldowns it is they that see to it, else the cooldown does.        *)
THEOREM AlertsDropReemits == Spec => []Inv
<1>1. AlertsInv => Inv
  <2> SUFFICES ASSUME AlertsInv PROVE TypeOK /\ AlertedOnce
    BY DEF Inv
  <2>1. TypeOK /\ OneAlertPerBurst /\ (Long => AlertedOnce)
    BY DEF AlertsInv, BaseInv, CoolInv, FillInv
  <2>2. ASSUME ~Long PROVE AlertedOnce
    <3> SUFFICES ASSUME NEW f \in Fills, NEW i \in DOMAIN alerts[f],
                        NEW k \in DOMAIN alerts[f], i # k
                 PROVE  Apart(alerts[f][i], alerts[f][k], DedupTTL - Cooldown + 1)
      BY DEF AlertedOnce
    <3>1. Apart(alerts[f][i], alerts[f][k], Cooldown)
      BY <2>1 DEF OneAlertPerBurst
    <3>2. alerts[f][i] \in Nat /\ alerts[f][k] \in Nat
      BY <2>1, AlertTimes
    <3>3. DedupTTL - Cooldown + 1 <= Cooldown
      BY <2>2, Constants DEF Long
    <3>4. QED
      BY <3>1, <3>2, <3>3, Constants DEF Apart
  <2>3. QED
    BY <2>1, <2>2
<1>2. QED
  BY <1>1, AlertsKept, PTL

(* A cooldown is earned: a failed send leaves no key that would silence    *)
(* the retry, whichever of the group's trades another worker runs.         *)
THEOREM AlertsEarnTheCooldown == Spec => []CooldownIsEarned
<1>1. AlertsInv => CooldownIsEarned
  BY DEF AlertsInv
<1>2. QED
  BY <1>1, AlertsKept, PTL

(* No position alert is lost to the cooldown: while the sends succeed, an  *)
(* alert on a market held all along is followed by one for its group.      *)
THEOREM AlertsFollowUp == Spec => []PositionIsAlerted
<1>1. AlertsInv => PositionIsAlerted
  <2> SUFFICES ASSUME AlertsInv, Quiet, failures = 0, NEW g \in steady, GroupAlerted(g)
               PROVE  \E f \in positions : Group[f] = g
    BY DEF PositionIsAlerted
  <2>1. PICK f \in told : Group[f] = g
    BY DEF GroupAlerted
  <2>2. Delivered(g) \/ OnTheWay(g)
    BY <2>1 DEF AlertsInv, PositionInv
  <2>3. ~OnTheWay(g)
    BY DEF Quiet, OnTheWay, Posts
  <2>4. QED
    BY <2>2, <2>3 DEF Delivered
<1>2. QED
  BY <1>1, AlertsKept, PTL
=============================================================================
