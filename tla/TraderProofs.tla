---------------------------- MODULE TraderProofs ----------------------------
(***************************************************************************)
(* Theorems about Trader, for every set of proposals, every size and cap,  *)
(* every execution mode and every combination of faults.                   *)
(***************************************************************************)
EXTENDS Trader, SumTheorems

(***************************************************************************)
(* The inductive invariant behind "at most one order".  A callback holds   *)
(* its claim from the insert to the record of the result; two callbacks    *)
(* never hold the claim of one proposal; until it has posted, the holder   *)
(* knows that nobody has; and what is posted stays claimed.                *)
(***************************************************************************)
Unsent == {"reserve", "sign", "recheck", "unclaim", "post"}
Holding == Unsent \cup {"reply", "mark"}
Reserved == {"sign", "recheck", "post", "reply"}

Exclusive ==
    \A s, t \in Subscriptions :
        s # t /\ pc[s] \in Holding /\ pc[t] \in Holding => job[s] # job[t]

HolderIsClaimed ==
    \A s \in Subscriptions : pc[s] \in Holding => claims[job[s]] # "none"

HolderHasNotSent ==
    \A s \in Subscriptions : pc[s] \in Unsent => posts[job[s]] = 0

ReservedIsHeld ==
    \A s \in Subscriptions : pc[s] \in Reserved => heldOn[job[s]] # 0

PostedIsAtExchange ==
    \A p \in Proposals : posts[p] = 0 <=> exchange[p] = "none"

PlacementInv ==
    /\ TypeOK
    /\ Exclusive
    /\ HolderIsClaimed
    /\ HolderHasNotSent
    /\ ReservedIsHeld
    /\ PostedIsAtExchange
    /\ AtMostOnce
    /\ SentIsClaimed
    /\ AtRiskIsReserved

(* What a callback is going to record and publish is true of the exchange. *)
OutcomeIsTrue ==
    \A s \in Subscriptions : pc[s] \in {"mark", "report"} =>
        /\ outcome[s] \in {"matched", "live"} => exchange[job[s]] = "accepted"
        /\ outcome[s] = "rejected" =>
              exchange[job[s]] = "refused" /\ heldOn[job[s]] = 0

(***************************************************************************)
(* The inductive invariant behind the sums.  A reservation is made only    *)
(* for a proposal that has none and taken back only from one that has, so  *)
(* that the exposure of a ledger moves with the set of reservations held.  *)
(* Memory goes astray only when a stale or missing row is loaded, the row  *)
(* when a save fails.                                                      *)
(***************************************************************************)
LedgerIsKept == {"save", "load"} \cap Faults = {}
MemoryIsKept == LedgerIsKept \/ "crash" \notin Faults

Held == {p \in Proposals : heldOn[p] # 0}
Net(S) == Money(S \cap Buys) - Money(S \ Buys)

UnclaimedIsUnheld ==
    /\ \A p \in Proposals : claims[p] = "none" => heldOn[p] = 0
    /\ \A s \in Subscriptions :
          pc[s] \in {"reserve", "unclaim"} => heldOn[job[s]] = 0

ExposureInv ==
    /\ UnclaimedIsUnheld
    /\ MemoryIsKept => caps.openExposure = Net(Held)
    /\ LedgerIsKept => saved.openExposure = Net(Held)

(* Within one day the daily spend is the sum of the reservations as well,  *)
(* and a ledger that was never rolled is empty.                            *)
DayIsExact(l) ==
    /\ l.daySpent = Money(Held)
    /\ l.dayKey = 0 => l.daySpent = 0

DayInv ==
    /\ MemoryIsKept => DayIsExact(caps)
    /\ LedgerIsKept => DayIsExact(saved)

(* With buys alone the exposure in memory is within its cap.               *)
ExposureKept == caps.openExposure <= MaxOpenExposure
-----------------------------------------------------------------------------
(* Lemmas about the ledger operations.                                     *)

(* Rolling, committing an allowed amount and releasing an amount keep a    *)
(* ledger a ledger, and keep the day within its cap.                       *)
LEMMA LedgerOperations ==
    ASSUME NEW l \in Ledger, NEW size \in Nat \ {0}, NEW buy \in BOOLEAN,
           NEW day \in Nat
    PROVE  /\ rollDay(l, day) \in Ledger
           /\ rollDay(l, day).dayKey >= day
           /\ Committed(l, size, buy) \in Ledger
           /\ Released(l, size, buy) \in Ledger
           /\ l.daySpent <= MaxPerDay => rollDay(l, day).daySpent <= MaxPerDay
           /\ l.daySpent <= MaxPerDay => Released(l, size, buy).daySpent <= MaxPerDay
           /\ Allowed(l, size, buy) => Committed(l, size, buy).daySpent <= MaxPerDay
<1>1. signed(size, buy) \in Int
  BY DEF signed
<1>2. /\ rollDay(l, day) \in Ledger
      /\ rollDay(l, day).dayKey >= day
      /\ l.daySpent <= MaxPerDay => rollDay(l, day).daySpent <= MaxPerDay
  BY CapsAssumption DEF Ledger, rollDay
<1>3. /\ Committed(l, size, buy) \in Ledger
      /\ Allowed(l, size, buy) => Committed(l, size, buy).daySpent <= MaxPerDay
  BY <1>1, CapsAssumption DEF Ledger, Committed, Allowed
<1>4. /\ Released(l, size, buy) \in Ledger
      /\ l.daySpent <= MaxPerDay => Released(l, size, buy).daySpent <= MaxPerDay
  BY <1>1, CapsAssumption DEF Ledger, Released
<1>5. QED
  BY <1>2, <1>3, <1>4

(* On one and the same day Release takes back exactly what Reserve         *)
(* committed, which is what the comment on Release claims for every day.   *)
LEMMA ReleaseUndoesReserve ==
    ASSUME NEW l \in Ledger, NEW size \in Nat \ {0}, NEW buy \in BOOLEAN
    PROVE  Released(Committed(l, size, buy), size, buy) = l
<1>1. signed(size, buy) \in Int
  BY DEF signed
<1>2. l = [dayKey |-> l.dayKey, daySpent |-> l.daySpent, openExposure |-> l.openExposure]
  BY DEF Ledger
<1>3. QED
  BY <1>1, <1>2 DEF Ledger, Committed, Released

-----------------------------------------------------------------------------
(* The trader starts well typed.                                            *)
LEMMA InitTypeOK == Init => TypeOK
<1> SUFFICES ASSUME Init PROVE TypeOK
  OBVIOUS
<1>1. EmptyLedger \in Ledger
  BY DEF EmptyLedger, Ledger
<1>2. 1 \in 1 .. MaxDay
  BY TraderAssumption
<1>3. QED
  BY <1>1, <1>2, TraderAssumption DEF Init, TypeOK, Stages, Outcomes

(* What a release, made by a callback that works on a proposal, does.      *)
LEMMA ReleaseTypeOK ==
    ASSUME TypeOK, NEW p \in Proposals, ReleaseCaps(p)
    PROVE  /\ caps' \in Ledger
           /\ saved' \in Ledger
           /\ heldOn' = [heldOn EXCEPT ![p] = 0]
           /\ heldOn' \in [Proposals -> Nat]
<1>1. Size[p] \in Nat \ {0} /\ (p \in Buys) \in BOOLEAN
  BY TraderAssumption
<1>2. Released(caps, Size[p], p \in Buys) \in Ledger
  BY <1>1, LedgerOperations DEF TypeOK
<1>3. QED
  BY <1>2 DEF TypeOK, ReleaseCaps, Persist

(* Every step keeps it well typed.                                          *)
LEMMA NextTypeOK == TypeOK /\ [Next]_vars => TypeOK'
<1> SUFFICES ASSUME TypeOK, [Next]_vars PROVE TypeOK'
  OBVIOUS
<1> USE DEF TypeOK, Stages, Recorded, Outcomes, GoTo, Return, FinishWith,
            InsertClaim, DeleteClaim, RecordResult, Answers, LoadedCaps,
            memory, ledgers, outside
<1>1. ASSUME NEW s \in Subscriptions, NEW p \in Proposals, Deliver(s, p)
      PROVE  TypeOK'
  BY <1>1, TraderAssumption DEF Deliver
<1>2. ASSUME NEW s \in Subscriptions, Claim(s)
      PROVE  TypeOK'
  BY <1>2, TraderAssumption DEF Claim
<1>3. ASSUME NEW s \in Subscriptions, Reserve(s)
      PROVE  TypeOK'
  <2> DEFINE p == job[s]
             l == rollDay(caps, today)
  <2>1. p \in Proposals /\ Size[p] \in Nat \ {0} /\ (p \in Buys) \in BOOLEAN
    BY <1>3, TraderAssumption DEF Reserve
  <2>2. today \in Nat
    BY TraderAssumption
  <2>3. l \in Ledger
    BY <2>2, LedgerOperations, <2>1
  <2>4. Committed(l, Size[p], p \in Buys) \in Ledger
    BY <2>1, <2>2, <2>3, LedgerOperations
  <2>5. l.dayKey \in Nat
    BY <2>3 DEF Ledger
  <2> HIDE DEF l
  <2>6. CASE Allowed(l, Size[p], p \in Buys)
    BY <1>3, <2>1, <2>4, <2>5, <2>6 DEF Reserve, Persist, l
  <2>7. CASE ~Allowed(l, Size[p], p \in Buys)
    BY <1>3, <2>1, <2>3, <2>7 DEF Reserve, l
  <2>8. QED
    BY <2>6, <2>7
<1>4. ASSUME NEW s \in Subscriptions, Sign(s)
      PROVE  TypeOK'
  <2>1. job[s] \in Proposals
    BY <1>4 DEF Sign
  <2>2. ReleaseCaps(job[s]) => caps' \in Ledger /\ saved' \in Ledger
                               /\ heldOn' \in [Proposals -> Nat]
    BY <2>1, ReleaseTypeOK
  <2>3. QED
    BY <1>4, <2>1, <2>2 DEF Sign
<1>5. ASSUME NEW s \in Subscriptions, Recheck(s)
      PROVE  TypeOK'
  <2>1. job[s] \in Proposals
    BY <1>5 DEF Recheck
  <2>2. ReleaseCaps(job[s]) => caps' \in Ledger /\ saved' \in Ledger
                               /\ heldOn' \in [Proposals -> Nat]
    BY <2>1, ReleaseTypeOK
  <2>3. QED
    BY <1>5, <2>1, <2>2 DEF Recheck
<1>6. ASSUME NEW s \in Subscriptions, Unclaim(s)
      PROVE  TypeOK'
  BY <1>6 DEF Unclaim
<1>7. ASSUME NEW s \in Subscriptions, Post(s)
      PROVE  TypeOK'
  BY <1>7 DEF Post
<1>8. ASSUME NEW s \in Subscriptions, Reply(s)
      PROVE  TypeOK'
  <2>1. job[s] \in Proposals
    BY <1>8 DEF Reply
  <2>2. ReleaseCaps(job[s]) => caps' \in Ledger /\ saved' \in Ledger
                               /\ heldOn' \in [Proposals -> Nat]
    BY <2>1, ReleaseTypeOK
  <2>3. /\ pc' = [pc EXCEPT ![s] = "mark"]
        /\ \E o \in Recorded : outcome' = [outcome EXCEPT ![s] = o]
        /\ caps' \in Ledger /\ saved' \in Ledger
        /\ heldOn' \in [Proposals -> Nat]
        /\ UNCHANGED <<job, halted, claims, exchange, posts, results, today>>
    BY <1>8, <2>1, <2>2 DEF Reply
  <2>4. pc[s] = "reply"
    BY <1>8 DEF Reply
  <2>5. QED
    BY <2>1, <2>3, <2>4
<1>9. ASSUME NEW s \in Subscriptions, MarkResult(s)
      PROVE  TypeOK'
  BY <1>9 DEF MarkResult
<1>10. ASSUME NEW s \in Subscriptions, Report(s)
       PROVE  TypeOK'
  BY <1>10 DEF Report
<1>11. ASSUME NEW h \in BOOLEAN, Control(h)
       PROVE  TypeOK'
  BY <1>11 DEF Control
<1>12. CASE Restart
  <2>1. EmptyLedger \in Ledger
    BY DEF EmptyLedger, Ledger
  <2>2. caps' \in Ledger
    BY <1>12, <2>1 DEF Restart
  <2>3. QED
    BY <1>12, <2>2 DEF Restart
<1>13. ASSUME NEW p \in Proposals, ExchangeDecides(p)
       PROVE  TypeOK'
  BY <1>13 DEF ExchangeDecides
<1>14. CASE Tick
  BY <1>14, TraderAssumption DEF Tick
<1>15. CASE ClockStepsBack
  BY <1>15, TraderAssumption DEF ClockStepsBack
<1>16. CASE UNCHANGED vars
  BY <1>16 DEF vars
<1>17. QED
  BY <1>1, <1>2, <1>3, <1>4, <1>5, <1>6, <1>7, <1>8, <1>9, <1>10, <1>11,
     <1>12, <1>13, <1>14, <1>15, <1>16 DEF Next, Step

(* In every state the trader can reach, every variable has its type.       *)
THEOREM TypeCorrect == Spec => []TypeOK
<1>1. Init => TypeOK
  BY InitTypeOK
<1>2. TypeOK /\ [Next]_vars => TypeOK'
  BY NextTypeOK
<1>3. QED
  BY <1>1, <1>2, PTL DEF Spec

(* The placement invariant is inductive.                                   *)
LEMMA InitPlacementInv == Init => PlacementInv
BY InitTypeOK DEF Init, PlacementInv, Exclusive, HolderIsClaimed,
   HolderHasNotSent, ReservedIsHeld, PostedIsAtExchange, AtMostOnce,
   SentIsClaimed, AtRiskIsReserved, AtRisk, Holding, Unsent, Reserved

(* Every step keeps the discipline of claims and posts.                     *)
LEMMA NextPlacementInv == PlacementInv /\ [Next]_vars => PlacementInv'
<1> SUFFICES ASSUME PlacementInv, [Next]_vars PROVE PlacementInv'
  OBVIOUS
<1>0. TypeOK /\ TypeOK'
  BY NextTypeOK DEF PlacementInv
<1> USE <1>0 DEF PlacementInv, Exclusive, HolderIsClaimed, HolderHasNotSent,
            ReservedIsHeld, PostedIsAtExchange, AtMostOnce, SentIsClaimed,
            AtRiskIsReserved, AtRisk, Holding, Unsent, Reserved, TypeOK,
            Stages, Recorded, Outcomes, GoTo, Return, FinishWith,
            InsertClaim, DeleteClaim, RecordResult, Answers, LoadedCaps,
            memory, ledgers, outside
<1>1. ASSUME NEW s \in Subscriptions, NEW p \in Proposals, Deliver(s, p)
      PROVE  PlacementInv'
  BY <1>1 DEF Deliver
<1>2. ASSUME NEW s \in Subscriptions, Claim(s)
      PROVE  PlacementInv'
  BY <1>2 DEF Claim
<1>3. ASSUME NEW s \in Subscriptions, Reserve(s)
      PROVE  PlacementInv'
  <2> DEFINE p == job[s]
             l == rollDay(caps, today)
  <2>1. p \in Proposals /\ Size[p] \in Nat \ {0} /\ (p \in Buys) \in BOOLEAN
    BY <1>3, TraderAssumption DEF Reserve
  <2>2. today \in Nat /\ today >= 1
    BY TraderAssumption
  <2>3. l \in Ledger /\ l.dayKey >= today
    BY <2>1, <2>2, LedgerOperations
  <2>4. l.dayKey # 0
    BY <2>2, <2>3 DEF Ledger
  <2> HIDE DEF l
  <2>5. CASE Allowed(l, Size[p], p \in Buys)
    <3>1. /\ heldOn' = [heldOn EXCEPT ![p] = l.dayKey]
          /\ pc' = [pc EXCEPT ![s] = "sign"]
          /\ pc[s] = "reserve"
          /\ UNCHANGED <<job, claims, exchange, posts>>
      BY <1>3, <2>5 DEF Reserve, l
    <3>2. QED
      BY <2>1, <2>4, <3>1
  <2>6. CASE ~Allowed(l, Size[p], p \in Buys)
    BY <1>3, <2>1, <2>6 DEF Reserve, l
  <2>7. QED
    BY <2>5, <2>6
<1>4. ASSUME NEW s \in Subscriptions, Sign(s)
      PROVE  PlacementInv'
  BY <1>4 DEF Sign, ReleaseCaps
<1>5. ASSUME NEW s \in Subscriptions, Recheck(s)
      PROVE  PlacementInv'
  BY <1>5 DEF Recheck, ReleaseCaps
<1>6. ASSUME NEW s \in Subscriptions, Unclaim(s)
      PROVE  PlacementInv'
  BY <1>6 DEF Unclaim
<1>7. ASSUME NEW s \in Subscriptions, Post(s)
      PROVE  PlacementInv'
  BY <1>7 DEF Post
<1>8. ASSUME NEW s \in Subscriptions, Reply(s)
      PROVE  PlacementInv'
  BY <1>8 DEF Reply, ReleaseCaps
<1>9. ASSUME NEW s \in Subscriptions, MarkResult(s)
      PROVE  PlacementInv'
  BY <1>9 DEF MarkResult
<1>10. ASSUME NEW s \in Subscriptions, Report(s)
      PROVE  PlacementInv'
  BY <1>10 DEF Report
<1>11. ASSUME NEW h \in BOOLEAN, Control(h)
      PROVE  PlacementInv'
  BY <1>11 DEF Control
<1>12. CASE Restart
  BY <1>12 DEF Restart
<1>13. ASSUME NEW p \in Proposals, ExchangeDecides(p)
      PROVE  PlacementInv'
  BY <1>13 DEF ExchangeDecides
<1>14. CASE Tick
  BY <1>14 DEF Tick
<1>15. CASE ClockStepsBack
  BY <1>15 DEF ClockStepsBack
<1>16. CASE UNCHANGED vars
  BY <1>16 DEF vars
<1> HIDE DEF PlacementInv, Exclusive, HolderIsClaimed, HolderHasNotSent,
            ReservedIsHeld, PostedIsAtExchange, AtMostOnce, SentIsClaimed,
            AtRiskIsReserved, AtRisk, Holding, Unsent, Reserved, TypeOK,
            Stages, Recorded, Outcomes, GoTo, Return, FinishWith,
            InsertClaim, DeleteClaim, RecordResult, Answers, LoadedCaps,
            memory, ledgers, outside
<1>17. QED
  BY <1>1, <1>2, <1>3, <1>4, <1>5, <1>6, <1>7, <1>8, <1>9, <1>10, <1>11,
     <1>12, <1>13, <1>14, <1>15, <1>16 DEF Next, Step

(* The discipline holds throughout.                                         *)
LEMMA PlacementInvariant == Spec => []PlacementInv
<1>1. Init => PlacementInv
  BY InitPlacementInv
<1>2. PlacementInv /\ [Next]_vars => PlacementInv'
  BY NextPlacementInv
<1>3. QED
  BY <1>1, <1>2, PTL DEF Spec

(* No proposal is ever placed twice, whatever is delivered to whichever    *)
(* subscription, whatever fails, and across any number of restarts.        *)
THEOREM PlacedAtMostOnce == Spec => []AtMostOnce
<1>1. PlacementInv => AtMostOnce
  BY DEF PlacementInv
<1>2. QED
  BY <1>1, PlacementInvariant, PTL

(* The placements table has a row for every order ever sent.               *)
THEOREM SentStaysClaimed == Spec => []SentIsClaimed
<1>1. PlacementInv => SentIsClaimed
  BY DEF PlacementInv
<1>2. QED
  BY <1>1, PlacementInvariant, PTL

(* Release never gives back the reservation of an order that is, or may    *)
(* come to be, at the exchange.                                            *)
THEOREM AtRiskStaysReserved == Spec => []AtRiskIsReserved
<1>1. PlacementInv => AtRiskIsReserved
  BY DEF PlacementInv
<1>2. QED
  BY <1>1, PlacementInvariant, PTL

-----------------------------------------------------------------------------
(* From the moment the switch is set until it is cleared no callback comes *)
(* newly to the point of sending.                                          *)
THEOREM HaltIsRespected == Spec => HaltHoldsBack
<1> DEFINE Step1 == halted /\ halted' =>
               \A s \in Subscriptions : pc'[s] = "post" => pc[s] = "post"
<1>1. TypeOK /\ [Next]_vars => [Step1]_vars
  <2> SUFFICES ASSUME TypeOK, [Next]_vars, halted, halted',
                      NEW t \in Subscriptions, pc'[t] = "post"
               PROVE  pc[t] = "post"
    OBVIOUS
  <2> USE DEF TypeOK, GoTo, Return, FinishWith, memory
  <2>1. ASSUME NEW s \in Subscriptions, NEW p \in Proposals, Deliver(s, p)
        PROVE  pc[t] = "post"
    BY <2>1 DEF Deliver
  <2>2. ASSUME NEW s \in Subscriptions, Step(s)
        PROVE  pc[t] = "post"
    BY <2>2 DEF Step, Claim, Reserve, Sign, Recheck, Unclaim, Post, Reply,
                MarkResult, Report
  <2>3. ASSUME NEW h \in BOOLEAN, Control(h)
        PROVE  pc[t] = "post"
    BY <2>3 DEF Control
  <2>4. CASE Restart
    BY <2>4 DEF Restart
  <2>5. ASSUME NEW p \in Proposals, ExchangeDecides(p)
        PROVE  pc[t] = "post"
    BY <2>5 DEF ExchangeDecides
  <2>6. CASE Tick \/ ClockStepsBack \/ UNCHANGED vars
    BY <2>6 DEF Tick, ClockStepsBack, vars
  <2>7. QED
    BY <2>1, <2>2, <2>3, <2>4, <2>5, <2>6 DEF Next
<1>2. QED
  BY <1>1, TypeCorrect, PTL DEF Spec, HaltHoldsBack

-----------------------------------------------------------------------------
(* The ledger in memory and the one on disk stay within the daily cap,     *)
(* also when saves and loads fail and when the clock steps back.           *)
THEOREM BudgetIsKept == Spec => []BudgetKept
<1>1. Init => BudgetKept
  BY CapsAssumption DEF Init, EmptyLedger, BudgetKept
<1>2. TypeOK /\ BudgetKept /\ [Next]_vars => BudgetKept'
  <2> SUFFICES ASSUME TypeOK, BudgetKept, [Next]_vars PROVE BudgetKept'
    OBVIOUS
  <2>1. ASSUME NEW p \in Proposals, ReleaseCaps(p)
        PROVE  BudgetKept'
    <3>1. Size[p] \in Nat \ {0} /\ (p \in Buys) \in BOOLEAN
      BY TraderAssumption
    <3>2. Released(caps, Size[p], p \in Buys).daySpent <= MaxPerDay
      BY <3>1, LedgerOperations DEF TypeOK, BudgetKept
    <3>3. QED
      BY <2>1, <3>2 DEF ReleaseCaps, Persist, BudgetKept
  <2>2. ASSUME NEW s \in Subscriptions, Reserve(s)
        PROVE  BudgetKept'
    <3> DEFINE p == job[s]
               l == rollDay(caps, today)
    <3>1. p \in Proposals /\ Size[p] \in Nat \ {0} /\ (p \in Buys) \in BOOLEAN
      BY <2>2, TraderAssumption DEF Reserve, TypeOK
    <3>2. l \in Ledger /\ l.daySpent <= MaxPerDay
      BY <3>1, LedgerOperations, TraderAssumption DEF TypeOK, BudgetKept
    <3>3. Allowed(l, Size[p], p \in Buys) =>
             Committed(l, Size[p], p \in Buys).daySpent <= MaxPerDay
      BY <3>1, <3>2, LedgerOperations
    <3> HIDE DEF l
    <3>4. CASE Allowed(l, Size[p], p \in Buys)
      BY <2>2, <3>3, <3>4 DEF Reserve, Persist, BudgetKept, l
    <3>5. CASE ~Allowed(l, Size[p], p \in Buys)
      BY <2>2, <3>2, <3>5 DEF Reserve, BudgetKept, l
    <3>6. QED
      BY <3>4, <3>5
  <2>3. ASSUME NEW s \in Subscriptions, Sign(s) \/ Recheck(s) \/ Reply(s)
        PROVE  BudgetKept'
    <3>1. job[s] \in Proposals
      BY <2>3 DEF Sign, Recheck, Reply, TypeOK
    <3>2. ReleaseCaps(job[s]) \/ UNCHANGED <<caps, saved>>
      BY <2>3 DEF Sign, Recheck, Reply, ledgers
    <3>3. QED
      BY <2>1, <3>1, <3>2 DEF BudgetKept
  <2>4. CASE Restart
    BY <2>4, CapsAssumption DEF Restart, LoadedCaps, EmptyLedger, BudgetKept
  <2>5. CASE UNCHANGED <<caps, saved>>
    BY <2>5 DEF BudgetKept
  <2>6. QED
    BY <2>2, <2>3, <2>4, <2>5 DEF Next, Step, Deliver, Claim, Unclaim, Post,
       MarkResult, Report, Control, ExchangeDecides, Tick, ClockStepsBack,
       vars, memory, ledgers
<1>3. QED
  BY <1>1, <1>2, TypeCorrect, PTL DEF Spec

(* So the two hold together, whatever the proposals, the caps and the      *)
(* faults.                                                                 *)
THEOREM TraderKeepsInv == Spec => []Inv
<1>1. TypeOK /\ BudgetKept => Inv
  BY DEF Inv
<1>2. QED
  BY <1>1, TypeCorrect, BudgetIsKept, PTL

-----------------------------------------------------------------------------
(* The refinement: every step of the pipeline is a step of the abstract    *)
(* placement of one proposal, or leaves it as it is.                       *)
LEMMA StepRefines ==
    ASSUME PlacementInv, [Next]_vars
    PROVE  [Once!Next]_Placement
<1> DEFINE AbsStep == Once!Next \/ Placement' = Placement
<1>0. SUFFICES AbsStep
  OBVIOUS
<1> USE DEF PlacementInv, TypeOK, memory, ledgers, outside, InsertClaim,
            DeleteClaim, RecordResult
<1>1. ASSUME UNCHANGED <<claims, exchange, posts>>
      PROVE  AbsStep
  BY <1>1 DEF Placement
<1>2. ASSUME NEW p \in Proposals, claims[p] = "none", UNCHANGED outside,
             claims' = [claims EXCEPT ![p] = "claimed"]
      PROVE  AbsStep
  <2>1. posts[p] = 0
    BY <1>2 DEF SentIsClaimed
  <2>2. Once!Claim(p)
    BY <1>2, <2>1 DEF Once!Claim, Once!Move, Placement
  <2>3. QED
    BY <2>2 DEF Once!Next
<1>3. ASSUME NEW s \in Subscriptions, Claim(s)
      PROVE  AbsStep
  <2>1. job[s] \in Proposals
    BY <1>3 DEF Claim
  <2>2. CASE UNCHANGED claims
    BY <1>1, <1>3, <2>2 DEF Claim
  <2>3. CASE claims[job[s]] = "none" /\ claims' = [claims EXCEPT ![job[s]] = "claimed"]
    BY <1>2, <1>3, <2>1, <2>3 DEF Claim
  <2>4. QED
    BY <1>3, <2>2, <2>3 DEF Claim
<1>4. ASSUME NEW s \in Subscriptions, Unclaim(s)
      PROVE  AbsStep
  <2> DEFINE p == job[s]
  <2>1. p \in Proposals /\ posts[p] = 0 /\ claims[p] # "none"
    BY <1>4 DEF Unclaim, HolderHasNotSent, HolderIsClaimed, Unsent, Holding
  <2>2. CASE claims[p] = "claimed" /\ claims' = [claims EXCEPT ![p] = "none"]
    <3>1. Once!Drop(p)
      BY <1>4, <2>1, <2>2 DEF Unclaim, Once!Drop, Once!Move, Placement
    <3>2. QED
      BY <2>1, <3>1 DEF Once!Next
  <2>3. CASE claims' = claims
    BY <1>1, <1>4, <2>3 DEF Unclaim
  <2>4. QED
    BY <1>4, <2>1, <2>2, <2>3 DEF Unclaim
<1>5. ASSUME NEW s \in Subscriptions, Post(s)
      PROVE  AbsStep
  <2> DEFINE p == job[s]
  <2>1. p \in Proposals /\ posts[p] = 0 /\ claims[p] # "none"
    BY <1>5 DEF Post, HolderHasNotSent, HolderIsClaimed, Unsent, Holding
  <2>2. /\ exchange' = [exchange EXCEPT ![p] = "inflight"]
        /\ posts' = [posts EXCEPT ![p] = posts[p] + 1]
        /\ UNCHANGED claims
    BY <1>5 DEF Post
  <2>3. Placement' = [Placement EXCEPT ![p] = "sent"]
    <3>1. posts'[p] = 1 /\ exchange'[p] = "inflight"
      BY <2>1, <2>2
    <3>2. \A q \in Proposals \ {p} : posts'[q] = posts[q] /\ exchange'[q] = exchange[q]
      BY <2>1, <2>2
    <3>3. Placement'[p] = "sent"
      BY <2>1, <3>1 DEF Placement
    <3>4. ASSUME NEW q \in Proposals \ {p} PROVE Placement'[q] = Placement[q]
      BY <2>2, <3>2 DEF Placement
    <3>5. /\ Placement = [q \in Proposals |-> Placement[q]]
          /\ Placement' = [q \in Proposals |-> Placement'[q]]
      BY DEF Placement
    <3>6. QED
      BY <2>1, <3>3, <3>4, <3>5
  <2>4. Placement[p] = "claimed"
    BY <2>1 DEF Placement
  <2>5. Once!Send(p)
    BY <2>3, <2>4 DEF Once!Send, Once!Move
  <2>6. QED
    BY <2>1, <2>5 DEF Once!Next
<1>6. ASSUME NEW s \in Subscriptions, MarkResult(s)
      PROVE  AbsStep
  <2>1. UNCHANGED outside
        /\ \A p \in Proposals : claims'[p] = "none" <=> claims[p] = "none"
    BY <1>6 DEF MarkResult, Recorded, Outcomes
  <2>2. Placement' = Placement
    BY <2>1 DEF Placement
  <2>3. QED
    BY <2>2
<1>7. ASSUME NEW p \in Proposals, ExchangeDecides(p)
      PROVE  AbsStep
  <2>1. posts[p] # 0 /\ exchange[p] = "inflight" /\ UNCHANGED <<claims, posts>>
    BY <1>7 DEF ExchangeDecides, PostedIsAtExchange
  <2>2. PICK d \in {"accepted", "refused"} : exchange' = [exchange EXCEPT ![p] = d]
    BY <1>7 DEF ExchangeDecides
  <2>3. Placement' = [Placement EXCEPT ![p] = d] /\ Placement[p] = "sent"
    BY <2>1, <2>2 DEF Placement
  <2>4. Once!Accept(p) \/ Once!Refuse(p)
    BY <2>2, <2>3 DEF Once!Accept, Once!Refuse, Once!Move
  <2>5. QED
    BY <2>4 DEF Once!Next
<1>8. QED
  BY <1>1, <1>3, <1>4, <1>5, <1>6, <1>7 DEF Next, Step, Deliver, Reserve, Sign,
     Recheck, Reply, Report, Control, Restart, Tick, ClockStepsBack, vars

(* The trader, with all its failures and restarts, implements the abstract *)
(* placement.                                                              *)
THEOREM Refinement == Spec => ImplementsOncePlacement
<1>1. Init => Once!Init
  BY DEF Init, Once!Init, Placement
<1>2. PlacementInv /\ [Next]_vars => [Once!Next]_Placement
  BY StepRefines
<1>3. QED
  BY <1>1, <1>2, PlacementInvariant, PTL
     DEF Spec, ImplementsOncePlacement, Once!Spec
-----------------------------------------------------------------------------
(* What is announced on the bus is true: an outcome is taken from an       *)
(* answer of the exchange, the order is not sent again, and a refused      *)
(* proposal is never reserved for again.                                   *)
LEMMA NextTruth ==
    PlacementInv /\ OutcomeIsTrue /\ ResultsAreTrue /\ [Next]_vars
        => OutcomeIsTrue' /\ ResultsAreTrue'
<1> DEFINE True == OutcomeIsTrue /\ ResultsAreTrue
<1> SUFFICES ASSUME PlacementInv, True, [Next]_vars PROVE True'
  OBVIOUS
<1> USE DEF PlacementInv, TypeOK, OutcomeIsTrue, ResultsAreTrue, memory,
            ledgers, outside, GoTo, Return, FinishWith
<1>1. ASSUME \A p \in Proposals :
                /\ exchange[p] \in {"accepted", "refused"} => exchange'[p] = exchange[p]
                /\ exchange[p] = "refused" /\ heldOn[p] = 0 => heldOn'[p] = 0,
             \A s \in Subscriptions : pc'[s] \in {"mark", "report"} =>
                \/ outcome'[s] \notin {"matched", "live", "rejected"}
                \/ /\ pc[s] \in {"mark", "report"}
                   /\ job'[s] = job[s]
                   /\ outcome'[s] = outcome[s],
             results' = results
      PROVE  True'
  BY <1>1
<1>2. ASSUME NEW s \in Subscriptions, NEW p \in Proposals, Deliver(s, p)
      PROVE  True'
  BY <1>1, <1>2 DEF Deliver
<1>3. ASSUME NEW s \in Subscriptions, Claim(s)
      PROVE  True'
  BY <1>1, <1>3 DEF Claim
<1>4. ASSUME NEW s \in Subscriptions, Reserve(s)
      PROVE  True'
  <2>1. job[s] \in Proposals /\ exchange[job[s]] = "none"
    BY <1>4 DEF Reserve, HolderHasNotSent, PostedIsAtExchange, Unsent
  <2>2. \A p \in Proposals : p # job[s] => heldOn'[p] = heldOn[p]
    BY <1>4, <2>1 DEF Reserve
  <2>3. QED
    BY <1>1, <1>4, <2>1, <2>2 DEF Reserve
<1>5. ASSUME NEW s \in Subscriptions, Sign(s) \/ Recheck(s)
      PROVE  True'
  BY <1>1, <1>5 DEF Sign, Recheck, ReleaseCaps
<1>6. ASSUME NEW s \in Subscriptions, Unclaim(s)
      PROVE  True'
  BY <1>1, <1>6 DEF Unclaim
<1>7. ASSUME NEW s \in Subscriptions, Post(s)
      PROVE  True'
  <2>1. job[s] \in Proposals /\ exchange[job[s]] = "none"
    BY <1>7 DEF Post, HolderHasNotSent, PostedIsAtExchange, Unsent
  <2>2. QED
    BY <1>1, <1>7, <2>1 DEF Post
<1>8. ASSUME NEW s \in Subscriptions, Reply(s)
      PROVE  True'
  <2>1. PICK o \in Answers(job[s]) :
           /\ outcome' = [outcome EXCEPT ![s] = o]
           /\ IF o = "rejected" THEN ReleaseCaps(job[s]) ELSE UNCHANGED ledgers
    BY <1>8 DEF Reply
  <2>2. /\ job[s] \in Proposals
        /\ pc' = [pc EXCEPT ![s] = "mark"]
        /\ UNCHANGED <<job, exchange, results>>
    BY <1>8 DEF Reply
  <2>3. /\ o \in {"matched", "live"} => exchange[job[s]] = "accepted"
        /\ o = "rejected" => exchange[job[s]] = "refused"
    BY <2>1 DEF Answers
  <2>4. /\ heldOn' \in [Proposals -> Nat]
        /\ \A p \in Proposals : heldOn[p] = 0 => heldOn'[p] = 0
        /\ o = "rejected" => heldOn'[job[s]] = 0
    BY <2>1, <2>2 DEF ReleaseCaps
  <2>5. OutcomeIsTrue'
    BY <2>1, <2>2, <2>3, <2>4
  <2>6. QED
    BY <2>2, <2>4, <2>5
<1>9. ASSUME NEW s \in Subscriptions, MarkResult(s)
      PROVE  True'
  BY <1>1, <1>9 DEF MarkResult
<1>10. ASSUME NEW s \in Subscriptions, Report(s)
       PROVE  True'
  BY <1>10 DEF Report
<1>11. ASSUME NEW p \in Proposals, ExchangeDecides(p)
       PROVE  True'
  BY <1>1, <1>11 DEF ExchangeDecides
<1>12. CASE Restart
  BY <1>1, <1>12 DEF Restart
<1>13. CASE Tick \/ ClockStepsBack \/ (\E h \in BOOLEAN : Control(h)) \/ UNCHANGED vars
  BY <1>1, <1>13 DEF Tick, ClockStepsBack, Control, vars
<1>14. QED
  BY <1>2, <1>3, <1>4, <1>5, <1>6, <1>7, <1>8, <1>9, <1>10, <1>11, <1>12, <1>13
     DEF Next, Step

(* A proposal announced as filled or resting is at the exchange; one       *)
(* announced as rejected never will be, and has no reservation left.       *)
THEOREM ResultsTellTheTruth == Spec => []ResultsAreTrue
<1>1. Init => OutcomeIsTrue /\ ResultsAreTrue
  BY DEF Init, OutcomeIsTrue, ResultsAreTrue
<1>2. PlacementInv /\ OutcomeIsTrue /\ ResultsAreTrue /\ [Next]_vars
         => OutcomeIsTrue' /\ ResultsAreTrue'
  BY NextTruth
<1>3. QED
  BY <1>1, <1>2, PlacementInvariant, PTL DEF Spec
-----------------------------------------------------------------------------
(* Money is a natural number, and moves by the size of a proposal that     *)
(* joins or leaves.                                                        *)
LEMMA MoneyMoves ==
    ASSUME NEW S \in SUBSET Proposals
    PROVE  /\ Money(S) \in Nat
           /\ \A T \in SUBSET S : Money(T) <= Money(S)
           /\ \A p \in Proposals \ S : Money(S \cup {p}) = Size[p] + Money(S)
<1>1. /\ IsFiniteSet(S)
      /\ \A p \in Proposals : Size[p] \in Nat /\ Size[p] \in Int
  <2>1. IsFiniteSet(S)
    <3>1. IsFiniteSet(Proposals)
      BY TraderAssumption
    <3>2. \A T \in SUBSET Proposals : IsFiniteSet(T)
      BY <3>1, FS_Subset
    <3>3. QED
      BY <3>2
  <2>2. \A p \in Proposals : Size[p] \in Nat /\ Size[p] \in Int
    BY TraderAssumption
  <2>3. QED
    BY <2>1, <2>2
<1>2. \A p \in S : Size[p] \in Nat
  BY <1>1
<1>3. Money(S) \in Nat
  BY <1>1, <1>2, SumType DEF Money
<1>4. \A T \in SUBSET S : Money(T) <= Money(S)
  BY <1>1, <1>2, SumIsMonotone DEF Money
<1>5. ASSUME NEW p \in Proposals \ S
      PROVE  Money(S \cup {p}) = Size[p] + Money(S)
  <2>1. \A q \in S \cup {p} : Size[q] \in Int
    BY <1>1
  <2>2. QED
    BY <1>1, <2>1, SumAdds DEF Money
<1>6. QED
  BY <1>3, <1>4, <1>5

(* A proposal that joins the reservations moves their net by its signed     *)
(* size.                                                                    *)
LEMMA NetMoves ==
    ASSUME NEW S \in SUBSET Proposals, NEW p \in Proposals \ S
    PROVE  /\ Net(S) \in Int
           /\ Net(S \cup {p}) = Net(S) + signed(Size[p], p \in Buys)
<1>1. /\ S \cap Buys \in SUBSET Proposals
      /\ S \ Buys \in SUBSET Proposals
      /\ Size[p] \in Int
  BY TraderAssumption
<1>2. Money(S \cap Buys) \in Int /\ Money(S \ Buys) \in Int
  BY <1>1, MoneyMoves
<1>3. CASE p \in Buys
  <2>1. (S \cup {p}) \cap Buys = (S \cap Buys) \cup {p} /\ (S \cup {p}) \ Buys = S \ Buys
    BY <1>3
  <2>2. Money((S \cap Buys) \cup {p}) = Size[p] + Money(S \cap Buys)
    BY <1>1, MoneyMoves
  <2>3. signed(Size[p], p \in Buys) = Size[p]
    BY <1>3 DEF signed
  <2>4. Net(S \cup {p}) = Money((S \cap Buys) \cup {p}) - Money(S \ Buys)
    BY <2>1, Zenon DEF Net
  <2>5. Net(S) = Money(S \cap Buys) - Money(S \ Buys)
    BY DEF Net
  <2>6. QED
    BY <1>1, <1>2, <2>2, <2>3, <2>4, <2>5
<1>4. CASE p \notin Buys
  <2>1. (S \cup {p}) \cap Buys = S \cap Buys /\ (S \cup {p}) \ Buys = (S \ Buys) \cup {p}
    BY <1>4
  <2>2. Money((S \ Buys) \cup {p}) = Size[p] + Money(S \ Buys)
    BY <1>1, MoneyMoves
  <2>3. signed(Size[p], p \in Buys) = -Size[p]
    BY <1>4 DEF signed
  <2>4. Net(S \cup {p}) = Money(S \cap Buys) - Money((S \ Buys) \cup {p})
    BY <2>1, Zenon DEF Net
  <2>5. Net(S) = Money(S \cap Buys) - Money(S \ Buys)
    BY DEF Net
  <2>6. QED
    BY <1>1, <1>2, <2>2, <2>3, <2>4, <2>5
<1>5. QED
  BY <1>3, <1>4

(* The steps by what they do to the reservations: one reserves, the others *)
(* give back a reservation that is there, load the ledger, or touch        *)
(* neither ledger nor reservation.                                         *)
Reserves(s) ==
    LET p == job[s]
        l == rollDay(caps, today)
    IN
    /\ pc[s] = "reserve"
    /\ p \in Proposals
    /\ heldOn[p] = 0
    /\ \/ /\ Allowed(l, Size[p], p \in Buys)
          /\ caps' = Committed(l, Size[p], p \in Buys)
          /\ Held' = Held \cup {p}
          /\ Persist
       \/ /\ caps' = l
          /\ Held' = Held
          /\ saved' = saved

GivesBack(p) ==
    /\ p \in Proposals
    /\ heldOn[p] # 0
    /\ caps' = Released(caps, Size[p], p \in Buys)
    /\ Held' = Held \ {p}
    /\ Persist

Reloads ==
    /\ "crash" \in Faults
    /\ caps' \in LoadedCaps
    /\ Held' = Held
    /\ saved' = saved

(* What a step can do to the ledgers: one reservation, one release, a       *)
(* reload, or nothing.                                                      *)
LEMMA LedgerSteps ==
    ASSUME PlacementInv, UnclaimedIsUnheld, [Next]_vars
    PROVE  \/ \E s \in Subscriptions : Reserves(s)
           \/ \E p \in Proposals : GivesBack(p)
           \/ Reloads
           \/ UNCHANGED <<caps, saved, Held>>
<1> USE DEF PlacementInv, TypeOK, memory, ledgers, outside
<1>1. ASSUME NEW s \in Subscriptions, Reserve(s)
      PROVE  Reserves(s)
  <2> DEFINE p == job[s]
             l == rollDay(caps, today)
  <2>1. pc[s] = "reserve" /\ p \in Proposals /\ heldOn[p] = 0
    BY <1>1 DEF Reserve, UnclaimedIsUnheld
  <2>2. l.dayKey \in Nat /\ l.dayKey # 0
    <3>1. today \in Nat /\ today >= 1 /\ Size[p] \in Nat \ {0}
      BY <2>1, TraderAssumption
    <3>2. l \in Ledger /\ l.dayKey >= today
      BY <3>1, LedgerOperations
    <3>3. l.dayKey \in Nat
      BY <3>2 DEF Ledger
    <3>4. QED
      BY <3>1, <3>2, <3>3
  <2> HIDE DEF l
  <2>3. CASE heldOn' = [heldOn EXCEPT ![p] = l.dayKey]
    <3>1. Held' = Held \cup {p}
      BY <2>1, <2>2, <2>3 DEF Held
    <3>2. QED
      BY <1>1, <2>1, <2>3, <3>1 DEF Reserve, Reserves, Held, l
  <2>4. CASE heldOn' = heldOn
    <3>1. heldOn[p] # l.dayKey
      BY <2>1, <2>2
    <3>2. heldOn # [heldOn EXCEPT ![p] = l.dayKey]
      BY <2>1, <3>1
    <3>3. caps' = l /\ saved' = saved
      BY <1>1, <2>4, <3>2 DEF Reserve, l
    <3>4. QED
      BY <2>1, <2>4, <3>3 DEF Reserves, Held, l
  <2>5. QED
    BY <1>1, <2>3, <2>4 DEF Reserve, l
<1>2. ASSUME NEW s \in Subscriptions, Sign(s) \/ Recheck(s) \/ Reply(s)
      PROVE  (\E p \in Proposals : GivesBack(p)) \/ UNCHANGED <<caps, saved, Held>>
  <2>1. job[s] \in Proposals /\ heldOn[job[s]] # 0
    BY <1>2 DEF Sign, Recheck, Reply, ReservedIsHeld, Reserved
  <2>2. ReleaseCaps(job[s]) \/ UNCHANGED ledgers
    BY <1>2 DEF Sign, Recheck, Reply
  <2>3. CASE ReleaseCaps(job[s])
    <3>1. Held' = Held \ {job[s]}
      BY <2>1, <2>3 DEF ReleaseCaps, Held
    <3>2. QED
      BY <2>1, <2>3, <3>1 DEF GivesBack, ReleaseCaps
  <2>4. CASE UNCHANGED ledgers
    BY <2>4 DEF Held
  <2>5. QED
    BY <2>2, <2>3, <2>4
<1>3. CASE Restart
  BY <1>3 DEF Restart, Reloads, Held
<1>4. CASE UNCHANGED <<caps, saved, heldOn>>
  BY <1>4 DEF Held
<1>5. QED
  BY <1>1, <1>2, <1>3, <1>4 DEF Next, Step, Deliver, Claim, Unclaim, Post,
     MarkResult, Report, Control, ExchangeDecides, Tick, ClockStepsBack, vars

(* A callback that comes to reserve has just written the claim, and one    *)
(* that drops the claim has just released.                                 *)
LEMMA NextUnclaimedIsUnheld ==
    PlacementInv /\ UnclaimedIsUnheld /\ [Next]_vars => UnclaimedIsUnheld'
<1> SUFFICES ASSUME PlacementInv, UnclaimedIsUnheld, [Next]_vars
             PROVE  UnclaimedIsUnheld'
  OBVIOUS
<1> USE DEF PlacementInv, TypeOK, UnclaimedIsUnheld, memory, ledgers, outside,
            GoTo, Return, FinishWith, Exclusive, HolderIsClaimed, Holding, Unsent
<1>1. ASSUME NEW s \in Subscriptions, NEW p \in Proposals, Deliver(s, p)
      PROVE  UnclaimedIsUnheld'
  BY <1>1 DEF Deliver
<1>2. ASSUME NEW s \in Subscriptions, Claim(s)
      PROVE  UnclaimedIsUnheld'
  BY <1>2 DEF Claim, InsertClaim
<1>3. ASSUME NEW s \in Subscriptions, Reserve(s)
      PROVE  UnclaimedIsUnheld'
  <2>1. /\ job[s] \in Proposals
        /\ pc[s] = "reserve"
        /\ pc'[s] \in {"sign", "report"}
        /\ \A t \in Subscriptions : t # s => pc'[t] = pc[t]
        /\ \A p \in Proposals : p # job[s] => heldOn'[p] = heldOn[p]
        /\ UNCHANGED <<claims, job>>
    BY <1>3 DEF Reserve
  <2>2. QED
    BY <2>1
<1>4. ASSUME NEW s \in Subscriptions, Sign(s)
      PROVE  UnclaimedIsUnheld'
  BY <1>4 DEF Sign, ReleaseCaps
<1>5. ASSUME NEW s \in Subscriptions, Recheck(s)
      PROVE  UnclaimedIsUnheld'
  BY <1>5 DEF Recheck, ReleaseCaps
<1>6. ASSUME NEW s \in Subscriptions, Unclaim(s)
      PROVE  UnclaimedIsUnheld'
  BY <1>6 DEF Unclaim, DeleteClaim
<1>7. ASSUME NEW s \in Subscriptions, Post(s)
      PROVE  UnclaimedIsUnheld'
  BY <1>7 DEF Post
<1>8. ASSUME NEW s \in Subscriptions, Reply(s)
      PROVE  UnclaimedIsUnheld'
  <2>1. /\ job[s] \in Proposals
        /\ pc' = [pc EXCEPT ![s] = "mark"]
        /\ \A p \in Proposals : heldOn[p] = 0 => heldOn'[p] = 0
        /\ UNCHANGED <<claims, job>>
    BY <1>8 DEF Reply, ReleaseCaps
  <2>2. QED
    BY <2>1
<1>9. ASSUME NEW s \in Subscriptions, MarkResult(s)
      PROVE  UnclaimedIsUnheld'
  BY <1>9 DEF MarkResult, RecordResult, Recorded, Outcomes
<1>10. ASSUME NEW s \in Subscriptions, Report(s)
       PROVE  UnclaimedIsUnheld'
  BY <1>10 DEF Report
<1>11. ASSUME NEW p \in Proposals, ExchangeDecides(p)
       PROVE  UnclaimedIsUnheld'
  BY <1>11 DEF ExchangeDecides
<1>12. CASE Restart
  BY <1>12 DEF Restart
<1>13. CASE Tick \/ ClockStepsBack \/ (\E h \in BOOLEAN : Control(h)) \/ UNCHANGED vars
  BY <1>13 DEF Tick, ClockStepsBack, Control, vars
<1>14. QED
  BY <1>1, <1>2, <1>3, <1>4, <1>5, <1>6, <1>7, <1>8, <1>9, <1>10, <1>11, <1>12, <1>13
     DEF Next, Step

(* The ledgers move with the set of reservations.                          *)
LEMMA NextExposureInv ==
    PlacementInv /\ ExposureInv /\ [Next]_vars => ExposureInv'
<1> SUFFICES ASSUME PlacementInv, ExposureInv, [Next]_vars PROVE ExposureInv'
  OBVIOUS
<1>1. UnclaimedIsUnheld'
  BY NextUnclaimedIsUnheld DEF ExposureInv
<1>2. TypeOK /\ Held \in SUBSET Proposals
  BY DEF PlacementInv, Held
<1> DEFINE Exact(l) == l.openExposure = Net(Held)
           Goal == (MemoryIsKept => Exact(caps)') /\ (LedgerIsKept => Exact(saved)')
<1>3. (MemoryIsKept => Exact(caps)) /\ (LedgerIsKept => Exact(saved))
  BY DEF ExposureInv
<1>4. ASSUME Persist, MemoryIsKept => Exact(caps)' PROVE Goal
  BY <1>4 DEF Persist, LedgerIsKept, MemoryIsKept
<1>5. ASSUME NEW s \in Subscriptions, Reserves(s) PROVE Goal
  <2> DEFINE p == job[s]
             l == rollDay(caps, today)
  <2>1. p \in Proposals \ Held
    BY <1>5 DEF Reserves, Held
  <2>2. l.openExposure = caps.openExposure
    BY DEF rollDay
  <2>3. CASE caps' = Committed(l, Size[p], p \in Buys) /\ Held' = Held \cup {p} /\ Persist
    <3>1. Net(Held \cup {p}) = Net(Held) + signed(Size[p], p \in Buys)
      BY <1>2, <2>1, NetMoves
    <3>2. caps'.openExposure = caps.openExposure + signed(Size[p], p \in Buys)
      BY <2>2, <2>3 DEF Committed
    <3>3. MemoryIsKept => Exact(caps)'
      <4>1. Net(Held)' = Net(Held \cup {p})
        BY <2>3, Zenon DEF Net, Money
      <4>2. QED
        BY <1>3, <3>1, <3>2, <4>1
    <3>4. QED
      BY <1>4, <2>3, <3>3
  <2>4. CASE caps' = l /\ Held' = Held /\ saved' = saved
    <3>1. Net(Held)' = Net(Held)
      BY <2>4 DEF Net, Money
    <3>2. QED
      BY <1>3, <2>2, <2>4, <3>1
  <2>5. QED
    BY <1>5, <2>3, <2>4 DEF Reserves
<1>6. ASSUME NEW p \in Proposals, GivesBack(p) PROVE Goal
  <2>1. p \in Held /\ Held \ {p} \in SUBSET Proposals /\ p \in Proposals \ (Held \ {p})
    BY <1>2, <1>6 DEF GivesBack, Held
  <2>2. /\ Net(Held \ {p}) \in Int
        /\ Net((Held \ {p}) \cup {p}) = Net(Held \ {p}) + signed(Size[p], p \in Buys)
    BY <2>1, NetMoves
  <2>3. (Held \ {p}) \cup {p} = Held
    BY <2>1
  <2>4. Net(Held) = Net(Held \ {p}) + signed(Size[p], p \in Buys)
    BY <2>2, <2>3, Zenon
  <2>5. caps'.openExposure = caps.openExposure - signed(Size[p], p \in Buys)
    BY <1>6 DEF GivesBack, Released
  <2>6. signed(Size[p], p \in Buys) \in Int
    BY TraderAssumption DEF signed
  <2>7. Net(Held)' = Net(Held \ {p})
    BY <1>6, Zenon DEF GivesBack, Net, Money
  <2>8. MemoryIsKept => Exact(caps)'
    BY <1>3, <2>2, <2>4, <2>5, <2>6, <2>7
  <2>9. QED
    BY <1>4, <1>6, <2>8 DEF GivesBack
<1>7. ASSUME Reloads PROVE Goal
  <2>1. Net(Held)' = Net(Held) /\ saved' = saved
    BY <1>7 DEF Reloads, Net, Money
  <2>2. MemoryIsKept => LedgerIsKept /\ caps' = saved
    BY <1>7 DEF Reloads, MemoryIsKept, LedgerIsKept, LoadedCaps
  <2>3. QED
    BY <1>3, <2>1, <2>2
<1>8. ASSUME UNCHANGED <<caps, saved, Held>> PROVE Goal
  <2>1. Net(Held)' = Net(Held)
    BY <1>8 DEF Net, Money
  <2>2. QED
    BY <1>3, <1>8, <2>1
<1>9. Goal
  BY <1>5, <1>6, <1>7, <1>8, LedgerSteps DEF ExposureInv
<1>10. QED
  BY <1>1, <1>9 DEF ExposureInv

(* At the start nothing is held and both ledgers are empty.                 *)
LEMMA InitLedgers ==
    Init => /\ Held = {}
            /\ Money(Held) = 0
            /\ ExposureInv
<1> SUFFICES ASSUME Init PROVE Held = {} /\ Money(Held) = 0 /\ ExposureInv
  OBVIOUS
<1>1. Held = {}
  BY DEF Init, Held
<1>2. Money({}) = 0
  BY SumOfNone DEF Money
<1>3. Money(Held) = 0
  BY <1>1, <1>2, Zenon
<1>4. Held \cap Buys = {} /\ Held \ Buys = {}
  BY <1>1
<1>5. Net(Held) = Money({}) - Money({})
  BY <1>4, Zenon DEF Net
<1>6. UnclaimedIsUnheld
  BY DEF Init, UnclaimedIsUnheld
<1>7. caps.openExposure = 0 /\ saved.openExposure = 0
  BY DEF Init, EmptyLedger
<1>8. QED
  BY <1>1, <1>2, <1>3, <1>5, <1>6, <1>7 DEF ExposureInv

(* An unclaimed proposal holds no reservation, and both ledgers say what    *)
(* the faults allow, throughout.                                            *)
LEMMA ExposureInvariant == Spec => []ExposureInv
<1>1. Init => ExposureInv
  BY InitLedgers
<1>2. PlacementInv /\ ExposureInv /\ [Next]_vars => ExposureInv'
  BY NextExposureInv
<1>3. QED
  BY <1>1, <1>2, PlacementInvariant, PTL DEF Spec

(* Unless a save or a load fails, the exposure in memory and on disk is    *)
(* the net sum of the reservations held, through refusals, ambiguous       *)
(* answers, midnights, a clock that steps back and restarts at any point.  *)
THEOREM LedgerStaysExact == LedgerIsKept => (Spec => []LedgerIsExact)
<1> SUFFICES ASSUME LedgerIsKept PROVE Spec => []LedgerIsExact
  OBVIOUS
<1>1. ExposureInv => LedgerIsExact
  BY DEF LedgerIsKept, MemoryIsKept, ExposureInv, LedgerIsExact, Net, Held
<1>2. QED
  BY <1>1, ExposureInvariant, PTL

(* With buys alone, no order of steps takes the exposure above its cap.    *)
LEMMA NextExposureKept ==
    ASSUME Buys = Proposals, MemoryIsKept,
           PlacementInv, ExposureInv, ExposureKept, [Next]_vars
    PROVE  ExposureKept'
<1>1. caps.openExposure \in Int
  BY DEF PlacementInv, TypeOK, Ledger
<1>2. ASSUME NEW s \in Subscriptions, Reserves(s) PROVE ExposureKept'
  <2> DEFINE p == job[s]
             l == rollDay(caps, today)
  <2>1. l.openExposure = caps.openExposure
    BY DEF rollDay
  <2>2. p \in Buys /\ Size[p] \in Int
    BY <1>2, TraderAssumption DEF Reserves
  <2>3. signed(Size[p], p \in Buys) = Size[p]
    BY <2>2 DEF signed
  <2> HIDE DEF l
  <2>4. CASE Allowed(l, Size[p], p \in Buys) /\ caps' = Committed(l, Size[p], p \in Buys)
    <3>1. l.openExposure + Size[p] <= MaxOpenExposure
      BY <2>2, <2>4 DEF Allowed
    <3>2. caps'.openExposure = l.openExposure + Size[p]
      BY <2>3, <2>4 DEF Committed
    <3>3. QED
      BY <3>1, <3>2 DEF ExposureKept
  <2>5. CASE caps' = l
    BY <2>1, <2>5 DEF ExposureKept
  <2>6. QED
    BY <1>2, <2>4, <2>5 DEF Reserves, l
<1>3. ASSUME NEW p \in Proposals, GivesBack(p) PROVE ExposureKept'
  <2>1. p \in Buys /\ Size[p] \in Nat
    BY TraderAssumption
  <2>2. signed(Size[p], p \in Buys) = Size[p]
    BY <2>1 DEF signed
  <2>3. caps'.openExposure = caps.openExposure - Size[p]
    BY <1>3, <2>2 DEF GivesBack, Released
  <2>4. QED
    BY <1>1, <2>1, <2>3, CapsAssumption DEF ExposureKept
<1>4. ASSUME Reloads PROVE ExposureKept'
  <2>1. LedgerIsKept /\ caps' = saved
    BY <1>4 DEF Reloads, MemoryIsKept, LedgerIsKept, LoadedCaps
  <2>2. saved.openExposure = caps.openExposure
    BY <2>1 DEF ExposureInv, MemoryIsKept
  <2>3. QED
    BY <2>1, <2>2 DEF ExposureKept
<1>5. CASE UNCHANGED caps
  BY <1>5 DEF ExposureKept
<1>6. QED
  BY <1>2, <1>3, <1>4, <1>5, LedgerSteps DEF ExposureInv

(* With buys alone, and unless the process is restarted on a ledger that   *)
(* was not saved or not read, the orders that are or may come to be at the *)
(* exchange are together within the exposure cap, on whatever days they    *)
(* were made and whatever the clock does.                                  *)
THEOREM ExposureStaysCapped ==
    Buys = Proposals /\ MemoryIsKept => (Spec => []ExposureCap)
<1> SUFFICES ASSUME Buys = Proposals, MemoryIsKept PROVE Spec => []ExposureCap
  OBVIOUS
<1>1. Init => ExposureKept
  BY CapsAssumption DEF Init, EmptyLedger, ExposureKept
<1>2. PlacementInv /\ ExposureInv /\ ExposureKept /\ [Next]_vars => ExposureKept'
  BY NextExposureKept
<1>3. PlacementInv /\ ExposureInv /\ ExposureKept => ExposureCap
  <2> SUFFICES ASSUME PlacementInv, ExposureInv, ExposureKept PROVE ExposureCap
    OBVIOUS
  <2>1. /\ Held \in SUBSET Proposals
        /\ AtRisk \in SUBSET Held
        /\ AtRisk \cap Buys = AtRisk
        /\ Held \cap Buys = Held
        /\ Held \ Buys = {}
    BY DEF PlacementInv, AtRiskIsReserved, AtRisk, Held
  <2>2. /\ Money(AtRisk) <= Money(Held)
        /\ Money(AtRisk) \in Nat
        /\ Money(Held) \in Nat
    BY <2>1, MoneyMoves
  <2>3. Money(Held \ Buys) = 0
    BY <2>1, SumOfNone, Zenon DEF Money
  <2>4. Money(Held \cap Buys) = Money(Held) /\ Money(AtRisk \cap Buys) = Money(AtRisk)
    BY <2>1, Zenon
  <2>5. caps.openExposure = Money(Held)
    BY <2>2, <2>3, <2>4 DEF ExposureInv, Net
  <2>6. QED
    BY <2>2, <2>4, <2>5, CapsAssumption DEF ExposureKept, ExposureCap
<1>4. QED
  BY <1>1, <1>2, <1>3, PlacementInvariant, ExposureInvariant, PTL DEF Spec

(* Within one day the daily spend moves with the reservations as well, so  *)
(* that Release never stops at zero and takes back what Reserve put in.    *)
LEMMA NextDayInv ==
    ASSUME MaxDay = 1, PlacementInv, ExposureInv, DayInv, [Next]_vars
    PROVE  DayInv'
<1>1. TypeOK /\ Held \in SUBSET Proposals
  BY DEF PlacementInv, Held
<1>2. /\ today = 1
      /\ caps.dayKey \in Nat /\ caps.daySpent \in Nat
      /\ Money(Held) \in Nat
  BY <1>1, MoneyMoves DEF TypeOK, Ledger
<1>3. ASSUME Persist, MemoryIsKept => DayIsExact(caps)' PROVE DayInv'
  BY <1>3 DEF Persist, LedgerIsKept, MemoryIsKept, DayInv, DayIsExact
<1>4. ASSUME NEW s \in Subscriptions, Reserves(s) PROVE DayInv'
  <2> DEFINE p == job[s]
             l == rollDay(caps, today)
  <2>1. p \in Proposals \ Held /\ Size[p] \in Nat
    BY <1>4, TraderAssumption DEF Reserves, Held
  <2>2. l.dayKey \in Nat /\ l.dayKey # 0 /\ l.daySpent \in Nat
    BY <1>2 DEF rollDay
  <2>3. MemoryIsKept => l.daySpent = Money(Held)
    BY <1>2 DEF rollDay, DayInv, DayIsExact
  <2> HIDE DEF l
  <2>4. CASE caps' = Committed(l, Size[p], p \in Buys) /\ Held' = Held \cup {p} /\ Persist
    <3>1. Money(Held \cup {p}) = Size[p] + Money(Held)
      BY <1>1, <2>1, MoneyMoves
    <3>2. Money(Held)' = Money(Held \cup {p})
      BY <2>4, Zenon DEF Money
    <3>3. caps'.daySpent = l.daySpent + Size[p] /\ caps'.dayKey = l.dayKey
      BY <2>4 DEF Committed
    <3>4. MemoryIsKept => DayIsExact(caps)'
      BY <1>2, <2>1, <2>2, <2>3, <3>1, <3>2, <3>3 DEF DayIsExact
    <3>5. QED
      BY <1>3, <2>4, <3>4
  <2>5. CASE caps' = l /\ Held' = Held /\ saved' = saved
    <3>1. Money(Held)' = Money(Held)
      BY <2>5 DEF Money
    <3>2. QED
      BY <2>2, <2>3, <2>5, <3>1 DEF DayInv, DayIsExact
  <2>6. QED
    BY <1>4, <2>4, <2>5 DEF Reserves, l
<1>5. ASSUME NEW p \in Proposals, GivesBack(p) PROVE DayInv'
  <2>1. /\ Held \ {p} \in SUBSET Proposals
        /\ p \in Proposals \ (Held \ {p})
        /\ (Held \ {p}) \cup {p} = Held
    BY <1>1, <1>5 DEF GivesBack, Held
  <2>2. /\ Money(Held \ {p}) \in Nat
        /\ Money((Held \ {p}) \cup {p}) = Size[p] + Money(Held \ {p})
    BY <2>1, MoneyMoves
  <2>3. Money(Held) = Size[p] + Money(Held \ {p})
    BY <2>1, <2>2, Zenon
  <2>4. Money(Held)' = Money(Held \ {p})
    BY <1>5, Zenon DEF GivesBack, Money
  <2>5. Size[p] \in Nat \ {0}
    BY TraderAssumption
  <2>6. /\ caps'.daySpent = IF caps.daySpent < Size[p] THEN 0 ELSE caps.daySpent - Size[p]
        /\ caps'.dayKey = caps.dayKey
    BY <1>5 DEF GivesBack, Released
  <2>7. MemoryIsKept => DayIsExact(caps)'
    BY <1>2, <2>2, <2>3, <2>4, <2>5, <2>6 DEF DayInv, DayIsExact
  <2>8. QED
    BY <1>3, <1>5, <2>7 DEF GivesBack
<1>6. ASSUME Reloads PROVE DayInv'
  <2>1. Money(Held)' = Money(Held) /\ saved' = saved
    BY <1>6 DEF Reloads, Money
  <2>2. MemoryIsKept => LedgerIsKept /\ caps' = saved
    BY <1>6 DEF Reloads, MemoryIsKept, LedgerIsKept, LoadedCaps
  <2>3. QED
    BY <2>1, <2>2 DEF DayInv, DayIsExact
<1>7. ASSUME UNCHANGED <<caps, saved, Held>> PROVE DayInv'
  <2>1. Money(Held)' = Money(Held)
    BY <1>7 DEF Money
  <2>2. QED
    BY <1>7, <2>1 DEF DayInv, DayIsExact
<1>8. QED
  BY <1>4, <1>5, <1>6, <1>7, LedgerSteps DEF ExposureInv

(* As long as no midnight falls, the orders that are or may come to be at  *)
(* the exchange are together within the daily cap.                         *)
THEOREM DayStaysCapped == MaxDay = 1 /\ MemoryIsKept => (Spec => []DayCap)
<1> SUFFICES ASSUME MaxDay = 1, MemoryIsKept PROVE Spec => []DayCap
  OBVIOUS
<1>1. Init => DayInv
  <2> SUFFICES ASSUME Init PROVE DayInv
    OBVIOUS
  <2>1. Money(Held) = 0
    BY InitLedgers
  <2>2. QED
    BY <2>1 DEF Init, EmptyLedger, DayInv, DayIsExact
<1>2. PlacementInv /\ ExposureInv /\ DayInv /\ [Next]_vars => DayInv'
  BY NextDayInv
<1>3. PlacementInv /\ DayInv /\ BudgetKept => DayCap
  <2> SUFFICES ASSUME PlacementInv, DayInv, BudgetKept, NEW d \in 1 .. MaxDay
               PROVE  Money({p \in AtRisk : heldOn[p] = d}) <= MaxPerDay
    BY DEF DayCap
  <2> DEFINE S == {p \in AtRisk : heldOn[p] = d}
  <2>1. Held \in SUBSET Proposals /\ S \in SUBSET Held
    BY DEF PlacementInv, AtRiskIsReserved, AtRisk, Held
  <2>2. S \in SUBSET Proposals
    BY <2>1
  <2> HIDE DEF S
  <2>3. Money(S) <= Money(Held) /\ Money(S) \in Nat /\ Money(Held) \in Nat
    BY <2>1, <2>2, MoneyMoves
  <2>4. Money(Held) <= MaxPerDay
    BY DEF DayInv, DayIsExact, BudgetKept
  <2>5. QED
    BY <2>3, <2>4, CapsAssumption DEF S
<1>4. QED
  BY <1>1, <1>2, <1>3, PlacementInvariant, ExposureInvariant, BudgetIsKept, PTL
     DEF Spec
=============================================================================
