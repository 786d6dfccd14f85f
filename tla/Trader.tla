------------------------------- MODULE Trader -------------------------------
(***************************************************************************)
(* The trader (services/trader), the only process that holds the signing   *)
(* key.  Two NATS subscriptions, orders.approved and orders.proposed, each *)
(* run their callback on a goroutine of their own, so at most two          *)
(* placements are under way at a time.  A placement is the pipeline of     *)
(* handler.place:                                                          *)
(*                                                                         *)
(*    halt? -> Claim -> Reserve -> Sign -> halt? -> PlaceOrder             *)
(*          -> MarkResult -> publish the result                            *)
(*                                                                         *)
(* pc[s] names the next step of the callback of subscription s, and job[s] *)
(* the proposal it works on.  The claims table and the row of the caps     *)
(* ledger are on disk (SQLite) and survive a restart; the halt flag, the   *)
(* caps in memory and the goroutines do not.  The exchange decides on an   *)
(* order it received whether or not the trader is still there to hear it.  *)
(***************************************************************************)
EXTENDS CapsLedger, FiniteSets, Functions

CONSTANTS
    Proposals,       \* proposal ids
    NoProposal,      \* what a callback that is not running works on
    Size,            \* SizeUSD of each proposal
    Buys,            \* the proposals whose side is "buy"
    ExecutionMode,   \* "approval", "auto" or "auto_below"
    CeilingUSD,      \* the ceiling of auto_below
    MaxDay,          \* the horizon of the calendar
    Faults           \* what the environment may do wrong in this run

FaultKinds == {"claim", "unclaim", "mark", "publish", "save", "load",
               "sign", "refuse", "network", "crash", "clock"}

ASSUME TraderAssumption ==
    /\ IsFiniteSet(Proposals)
    /\ NoProposal \notin Proposals
    /\ Size \in [Proposals -> Nat \ {0}]
    /\ Buys \subseteq Proposals
    /\ ExecutionMode \in {"approval", "auto", "auto_below"}
    /\ CeilingUSD \in Nat
    /\ MaxDay \in Nat \ {0}
    /\ Faults \subseteq FaultKinds

Subscriptions == {"approved", "proposed"}

Stages == {"idle", "claim", "reserve", "sign", "recheck", "post", "reply",
           "mark", "unclaim", "report"}

(* What MarkResult records, and what a result on the bus says.             *)
Recorded == {"matched", "live", "rejected", "unknown"}
Outcomes == Recorded \cup {"unsent"}

VARIABLES
    pc,          \* stage of the callback of each subscription
    job,         \* the proposal each running callback was called with
    outcome,     \* what each callback is going to record and publish
    halted,      \* halt.State, in memory only
    caps,        \* caps.Caps, in memory
    saved,       \* the caps_ledger row
    claims,      \* the placements table: status of each claimed proposal
    exchange,    \* what became of the order of each proposal at the CLOB
    posts,       \* history: how often an order was sent for each proposal
    heldOn,      \* history: the day its reservation was made, 0 if it has none
    results,     \* history: the results published on orders.filled/failed
    today        \* the UTC day

vars == <<pc, job, outcome, halted, caps, saved, claims, exchange, posts,
          heldOn, results, today>>

memory == <<pc, job, outcome, halted, caps>>
ledgers == <<caps, saved, heldOn>>
outside == <<exchange, posts>>

TypeOK ==
    /\ pc \in [Subscriptions -> Stages]
    /\ job \in [Subscriptions -> Proposals \cup {NoProposal}]
    /\ outcome \in [Subscriptions -> Outcomes]
    /\ \A s \in Subscriptions :
        /\ pc[s] = "idle" <=> job[s] = NoProposal
        /\ pc[s] = "mark" => outcome[s] # "unsent"
    /\ halted \in BOOLEAN
    /\ caps \in Ledger
    /\ saved \in Ledger
    /\ claims \in [Proposals -> {"none", "claimed"} \cup Recorded]
    /\ exchange \in [Proposals -> {"none", "inflight", "accepted", "refused"}]
    /\ posts \in [Proposals -> Nat]
    /\ heldOn \in [Proposals -> Nat]
    /\ results \subseteq Proposals \X Outcomes
    /\ today \in 1 .. MaxDay

Init ==
    /\ pc = [s \in Subscriptions |-> "idle"]
    /\ job = [s \in Subscriptions |-> NoProposal]
    /\ outcome = [s \in Subscriptions |-> "unsent"]
    /\ halted = FALSE
    /\ caps = EmptyLedger
    /\ saved = EmptyLedger
    /\ claims = [p \in Proposals |-> "none"]
    /\ exchange = [p \in Proposals |-> "none"]
    /\ posts = [p \in Proposals |-> 0]
    /\ heldOn = [p \in Proposals |-> 0]
    /\ results = {}
    /\ today = 1

-----------------------------------------------------------------------------
(* Helpers shared by the stages of place.                                  *)

RequiresApproval(size) ==
    CASE ExecutionMode = "auto" -> FALSE
      [] ExecutionMode = "auto_below" -> size >= CeilingUSD
      [] OTHER -> TRUE

GoTo(s, stage) == pc' = [pc EXCEPT ![s] = stage]

(* The callback returns and its local variables are gone.                  *)
Return(s) ==
    /\ GoTo(s, "idle")
    /\ job' = [job EXCEPT ![s] = NoProposal]
    /\ outcome' = [outcome EXCEPT ![s] = "unsent"]

(* fail and the final publish both end in the report stage.                *)
FinishWith(s, o) == outcome' = [outcome EXCEPT ![s] = o] /\ GoTo(s, "report")

(* persist writes the ledger row inside the critical section of Reserve    *)
(* and Release; an error of SaveCaps is logged and otherwise ignored.      *)
Persist == saved' = caps' \/ ("save" \in Faults /\ saved' = saved)

ReleaseCaps(p) ==
    /\ caps' = Released(caps, Size[p], p \in Buys)
    /\ heldOn' = [heldOn EXCEPT ![p] = 0]
    /\ Persist

(* The statements on the placements table: INSERT ... ON CONFLICT DO       *)
(* NOTHING, DELETE ... WHERE status = 'claimed', and UPDATE.               *)
InsertClaim(p) ==
    /\ claims[p] = "none"
    /\ claims' = [claims EXCEPT ![p] = "claimed"]

DeleteClaim(p) == claims' = [claims EXCEPT ![p] = IF @ = "claimed" THEN "none" ELSE @]

RecordResult(p, o) == claims' = [claims EXCEPT ![p] = IF @ = "none" THEN @ ELSE o]

(* Mutant of Answers: silence of the exchange is read as a refusal.        *)
AnswersSilenceIsNo(p) ==
    {o \in Recorded :
        \/ o \in {"matched", "live"} /\ exchange[p] = "accepted"
        \/ o = "rejected" /\ (exchange[p] = "refused" \/ "network" \in Faults)}

(* The answers PlaceOrder can give for an order: an accepted order is      *)
(* matched or rests on the book; a 4xx or success:false is a refusal; a    *)
(* timeout, a lost connection, a 5xx or an unreadable body say nothing.    *)
Answers(p) ==
    {o \in Recorded :
        \/ o \in {"matched", "live"} /\ exchange[p] = "accepted"
        \/ o = "rejected" /\ exchange[p] = "refused"
        \/ o = "unknown" /\ "network" \in Faults}

(* Mutant of LoadedCaps: the ledger is not read back.                      *)
NothingLoaded == {EmptyLedger}

(* What New finds in the database; an error leaves the caps at zero.       *)
LoadedCaps == {saved} \cup (IF "load" \in Faults THEN {EmptyLedger} ELSE {})

-----------------------------------------------------------------------------
(* OnApproved for a decision with Approved set, and OnProposed.  A         *)
(* rejected decision, and a proposal whose size needs approval, return at  *)
(* once and change nothing.  The bus may hand over the same proposal any   *)
(* number of times, on either subscription.                                *)
Deliver(s, p) ==
    /\ pc[s] = "idle"
    /\ s = "proposed" => ~RequiresApproval(Size[p])
    /\ job' = [job EXCEPT ![s] = p]
    /\ \/ halted /\ FinishWith(s, "unsent")
       \/ ~halted /\ GoTo(s, "claim") /\ UNCHANGED outcome
    /\ UNCHANGED <<halted, ledgers, claims, outside, results, today>>

(* Mutant of Claim: the conflict is not looked at.                         *)
ClaimUnconditionally(s) ==
    /\ pc[s] = "claim"
    /\ claims' = [claims EXCEPT ![job[s]] = "claimed"]
    /\ GoTo(s, "reserve")
    /\ UNCHANGED <<job, outcome, halted, ledgers, outside, results, today>>

(* The first caller gets the row; any other returns without a word.  When  *)
(* the statement reports an error the row may or may not have been written.*)
Claim(s) ==
    /\ pc[s] = "claim"
    /\ \/ /\ InsertClaim(job[s])
          /\ GoTo(s, "reserve")
          /\ UNCHANGED <<job, outcome>>
       \/ /\ claims[job[s]] # "none"
          /\ Return(s)
          /\ UNCHANGED claims
       \/ /\ "claim" \in Faults
          /\ UNCHANGED claims \/ InsertClaim(job[s])
          /\ FinishWith(s, "unsent")
          /\ UNCHANGED job
    /\ UNCHANGED <<halted, ledgers, outside, results, today>>

(* Mutant of Reserve: a denial returns without a result.                   *)
ReserveDeniesSilently(s) ==
    LET p == job[s]
        l == rollDay(caps, today)
    IN
    /\ pc[s] = "reserve"
    /\ \/ /\ Allowed(l, Size[p], p \in Buys)
          /\ caps' = Committed(l, Size[p], p \in Buys)
          /\ heldOn' = [heldOn EXCEPT ![p] = l.dayKey]
          /\ Persist
          /\ GoTo(s, "sign")
          /\ UNCHANGED <<job, outcome>>
       \/ /\ ~Allowed(l, Size[p], p \in Buys)
          /\ caps' = l
          /\ Return(s)
          /\ UNCHANGED <<saved, heldOn>>
    /\ UNCHANGED <<halted, claims, outside, results, today>>

(* Reserve rolls the day first, also when it then denies; a denied         *)
(* proposal keeps its claim.                                               *)
Reserve(s) ==
    LET p == job[s]
        l == rollDay(caps, today)
    IN
    /\ pc[s] = "reserve"
    /\ \/ /\ Allowed(l, Size[p], p \in Buys)
          /\ caps' = Committed(l, Size[p], p \in Buys)
          /\ heldOn' = [heldOn EXCEPT ![p] = l.dayKey]
          /\ Persist
          /\ GoTo(s, "sign")
          /\ UNCHANGED outcome
       \/ /\ ~Allowed(l, Size[p], p \in Buys)
          /\ caps' = l
          /\ FinishWith(s, "unsent")
          /\ UNCHANGED <<saved, heldOn>>
    /\ UNCHANGED <<job, halted, claims, outside, results, today>>

Sign(s) ==
    /\ pc[s] = "sign"
    /\ \/ GoTo(s, "recheck") /\ UNCHANGED ledgers
       \/ "sign" \in Faults /\ ReleaseCaps(job[s]) /\ GoTo(s, "unclaim")
    /\ UNCHANGED <<job, outcome, halted, claims, outside, results, today>>

(* Mutant of Recheck: the switch is not read a second time.                *)
RecheckSkipped(s) ==
    /\ pc[s] = "recheck"
    /\ GoTo(s, "post")
    /\ UNCHANGED <<job, outcome, halted, ledgers, claims, outside, results, today>>

(* The kill switch is read again just before the order is sent.            *)
Recheck(s) ==
    /\ pc[s] = "recheck"
    /\ \/ ~halted /\ GoTo(s, "post") /\ UNCHANGED ledgers
       \/ halted /\ ReleaseCaps(job[s]) /\ GoTo(s, "unclaim")
    /\ UNCHANGED <<job, outcome, halted, claims, outside, results, today>>

Unclaim(s) ==
    /\ pc[s] = "unclaim"
    /\ \/ DeleteClaim(job[s])
       \/ "unclaim" \in Faults /\ UNCHANGED claims
    /\ FinishWith(s, "unsent")
    /\ UNCHANGED <<job, halted, ledgers, outside, results, today>>

(* PlaceOrder sends the request ...                                        *)
Post(s) ==
    /\ pc[s] = "post"
    /\ exchange' = [exchange EXCEPT ![job[s]] = "inflight"]
    /\ posts' = [posts EXCEPT ![job[s]] = @ + 1]
    /\ GoTo(s, "reply")
    /\ UNCHANGED <<job, outcome, halted, ledgers, claims, results, today>>

(* Mutants of Reply: a refused, or an unanswered, order is unclaimed for a *)
(* retry; the reservation is released whenever the order was not taken.    *)
ReplyUnclaims(s, wrong) ==
    /\ pc[s] = "reply"
    /\ \E o \in Answers(job[s]) :
          IF o = wrong
          THEN ReleaseCaps(job[s]) /\ GoTo(s, "unclaim") /\ UNCHANGED outcome
          ELSE /\ outcome' = [outcome EXCEPT ![s] = o]
               /\ GoTo(s, "mark")
               /\ UNCHANGED ledgers
    /\ UNCHANGED <<job, halted, claims, outside, results, today>>
ReplyRetriesRefused(s) == ReplyUnclaims(s, "rejected")
ReplyRetriesUnknown(s) == ReplyUnclaims(s, "unknown")
ReplyReleasesUnknown(s) ==
    /\ pc[s] = "reply"
    /\ \E o \in Answers(job[s]) :
          /\ outcome' = [outcome EXCEPT ![s] = o]
          /\ IF o \in {"rejected", "unknown"} THEN ReleaseCaps(job[s]) ELSE UNCHANGED ledgers
    /\ GoTo(s, "mark")
    /\ UNCHANGED <<job, halted, claims, outside, results, today>>

(* ... and returns once it has an answer, or none.  Only an explicit       *)
(* refusal gives the reservation back.                                     *)
Reply(s) ==
    /\ pc[s] = "reply"
    /\ \E o \in Answers(job[s]) :
          /\ outcome' = [outcome EXCEPT ![s] = o]
          /\ IF o = "rejected" THEN ReleaseCaps(job[s]) ELSE UNCHANGED ledgers
    /\ GoTo(s, "mark")
    /\ UNCHANGED <<job, halted, claims, outside, results, today>>

(* Mutant of MarkResult: an ambiguous placement is not recorded.           *)
MarkResultIfKnown(s) ==
    /\ pc[s] = "mark"
    /\ claims' = IF outcome[s] = "unknown" THEN claims
                 ELSE [claims EXCEPT ![job[s]] = outcome[s]]
    /\ GoTo(s, "report")
    /\ UNCHANGED <<job, outcome, halted, ledgers, outside, results, today>>

MarkResult(s) ==
    /\ pc[s] = "mark"
    /\ \/ RecordResult(job[s], outcome[s])
       \/ "mark" \in Faults /\ UNCHANGED claims
    /\ GoTo(s, "report")
    /\ UNCHANGED <<job, outcome, halted, ledgers, outside, results, today>>

(* PublishResult; a failed publish is logged.                              *)
Report(s) ==
    /\ pc[s] = "report"
    /\ \/ results' = results \cup {<<job[s], outcome[s]>>}
       \/ "publish" \in Faults /\ UNCHANGED results
    /\ Return(s)
    /\ UNCHANGED <<halted, ledgers, claims, outside, today>>

-----------------------------------------------------------------------------
(* The rest of the process and its environment.                            *)

(* The control.halt subscription.                                          *)
Control(h) ==
    /\ halted' = h
    /\ UNCHANGED <<pc, job, outcome, ledgers, claims, outside, results, today>>

(* The process dies at any point and is started again: the goroutines and  *)
(* the flag are gone, the caps are read back.  Messages sent while it is   *)
(* down are lost, which is the same as their not being delivered.          *)
Restart ==
    /\ "crash" \in Faults
    /\ pc' = [s \in Subscriptions |-> "idle"]
    /\ job' = [s \in Subscriptions |-> NoProposal]
    /\ outcome' = [s \in Subscriptions |-> "unsent"]
    /\ halted' = FALSE
    /\ caps' \in LoadedCaps
    /\ UNCHANGED <<saved, heldOn, claims, outside, results, today>>

(* The exchange takes the order or turns it down, however late.            *)
ExchangeDecides(p) ==
    /\ exchange[p] = "inflight"
    /\ \E d \in {"accepted"} \cup (IF "refuse" \in Faults THEN {"refused"} ELSE {}) :
          exchange' = [exchange EXCEPT ![p] = d]
    /\ UNCHANGED <<memory, saved, claims, posts, heldOn, results, today>>

Tick ==
    /\ today < MaxDay
    /\ today' = today + 1
    /\ UNCHANGED <<memory, saved, claims, outside, heldOn, results>>

ClockStepsBack ==
    /\ "clock" \in Faults
    /\ today > 1
    /\ today' = today - 1
    /\ UNCHANGED <<memory, saved, claims, outside, heldOn, results>>

-----------------------------------------------------------------------------
Step(s) ==
    \/ Claim(s)
    \/ Reserve(s)
    \/ Sign(s)
    \/ Recheck(s)
    \/ Unclaim(s)
    \/ Post(s)
    \/ Reply(s)
    \/ MarkResult(s)
    \/ Report(s)

Next ==
    \/ \E s \in Subscriptions, p \in Proposals : Deliver(s, p)
    \/ \E s \in Subscriptions : Step(s)
    \/ \E h \in BOOLEAN : Control(h)
    \/ Restart
    \/ \E p \in Proposals : ExchangeDecides(p)
    \/ Tick
    \/ ClockStepsBack

Spec == Init /\ [][Next]_vars

(* A callback that has been entered runs to its end: nothing it calls      *)
(* blocks for ever (SQLite has a busy timeout, the HTTP client a timeout   *)
(* of 15 s, the callback's context one of 30 s).                           *)
FairSpec == Spec /\ \A s \in Subscriptions : WF_vars(Step(s))
-----------------------------------------------------------------------------
(* Properties.                                                             *)

(* An order the exchange holds, or may yet come to hold.                   *)
AtRisk == {p \in Proposals : exchange[p] \in {"inflight", "accepted"}}

Money(S) == SumFunctionOnSet(Size, S)

(* "so it can never be placed twice (at-most-once execution), surviving    *)
(* restarts" (store.go:1-3): over the life of the database the trader      *)
(* sends at most one order for a proposal, whichever subscriptions deliver *)
(* it, however often, and whatever fails in between.                       *)
AtMostOnce == \A p \in Proposals : posts[p] <= 1

(* The placements table and the exchange together behave as the abstract   *)
(* placement: claimed before sent, never dropped after, sent once.         *)
Placement ==
    [p \in Proposals |->
        IF posts[p] = 0
        THEN IF claims[p] = "none" THEN "free" ELSE "claimed"
        ELSE IF exchange[p] = "inflight" THEN "sent" ELSE exchange[p]]

Once == INSTANCE OncePlacement WITH placement <- Placement

ImplementsOncePlacement == Once!Spec

(* While the trader is halted no placement comes newly to the point of     *)
(* being sent: the only orders that still leave after /halt are those      *)
(* whose second look at the switch came before it.                         *)
HaltHoldsBack ==
    [][halted /\ halted' =>
          \A s \in Subscriptions : pc'[s] = "post" => pc[s] = "post"]_vars

(* A reservation is given back only for an order that is not, and will     *)
(* never be, at the exchange: whatever may rest on the book is counted,    *)
(* through ambiguous answers, late acceptance and restarts.                *)
AtRiskIsReserved == \A p \in AtRisk : heldOn[p] # 0

(* The ledger is the sum of the reservations held, in memory and on disk:  *)
(* "a restart cannot reset the cumulative caps to zero" (caps.go:6-8).     *)
LedgerIsExact ==
    LET held == {p \in Proposals : heldOn[p] # 0}
        net == Money(held \cap Buys) - Money(held \ Buys)
    IN caps.openExposure = net /\ saved.openExposure = net

(* "under concurrency the committed total can never exceed a cap"          *)
(* (caps.go:4-5), for the day: the orders of one day that are or may be at *)
(* the exchange are together within the daily cap.                         *)
DayCap ==
    \A d \in 1 .. MaxDay :
        Money({p \in AtRisk : heldOn[p] = d}) <= MaxPerDay

(* The same for the open exposure, when there is nothing to net against:   *)
(* the buys that are or may be at the exchange are together within the     *)
(* exposure cap, on every day, through ambiguous answers and a clock that  *)
(* steps back.                                                             *)
ExposureCap == Money(AtRisk \cap Buys) <= MaxOpenExposure

(* Each ledger, in memory and on disk, stays within the daily cap whatever *)
(* fails: two callbacks that reserve at once cannot both use the last of   *)
(* the budget.                                                             *)
BudgetKept == caps.daySpent <= MaxPerDay /\ saved.daySpent <= MaxPerDay

Inv == TypeOK /\ BudgetKept

(* A published result is true of the exchange: filled or resting orders    *)
(* are there, and an order reported as rejected never will be.             *)
ResultsAreTrue ==
    \A p \in Proposals :
        /\ {<<p, "matched">>, <<p, "live">>} \cap results # {} => exchange[p] = "accepted"
        /\ <<p, "rejected">> \in results => exchange[p] = "refused" /\ heldOn[p] = 0

(* A claim is never dropped once an order was sent for it, so that the     *)
(* table answers for every order at the exchange.                          *)
SentIsClaimed == \A p \in Proposals : posts[p] > 0 => claims[p] # "none"

(* Every proposal the trader takes on is answered: a claim is followed by  *)
(* a result on the bus.                                                    *)
ClaimIsAnswered ==
    \A p \in Proposals :
        claims[p] # "none" ~> \E o \in Outcomes : <<p, o>> \in results

(* Every order sent is settled in the table for reconciliation.            *)
PostIsSettled ==
    \A p \in Proposals :
        exchange[p] # "none" ~> claims[p] \in Recorded
=============================================================================
