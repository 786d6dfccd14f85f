------------------------------ MODULE Approval ------------------------------
(***************************************************************************)
(* The approval gate of the notifier (services/notifier, package approval) *)
(* and the chat it talks to.  Three kinds of goroutine run through the     *)
(* Manager:                                                                *)
(*                                                                         *)
(*   - the poster, the callback of orders.proposed, one proposal at a time:*)
(*       halted? -> register in pend -> SendKeyboard -> note the message   *)
(*   - a goroutine for every tap on a button:                              *)
(*       take from pend -> PublishDecision -> edit the message             *)
(*   - a goroutine for every /halt and /resume:                            *)
(*       set halted -> PublishControl -> confirm in the chat               *)
(*                                                                         *)
(* The mutex covers single accesses to pend and halted, never a call to    *)
(* Telegram or to the bus, so the goroutines interleave between the arrows.*)
(* A message is in the chat, with buttons to tap, before SendKeyboard      *)
(* returns, and perhaps although it returns an error.  Everything the      *)
(* Manager knows is in memory; the chat survives it.                       *)
(*                                                                         *)
(* The same proposal may arrive again: strategy forgets the trades it has  *)
(* seen when it restarts or rotates its set, and the watcher may publish a *)
(* trade twice.  OnProposal registers and posts every arrival, under the   *)
(* key of the proposal, which all its messages then share.                 *)
(***************************************************************************)
EXTENDS Naturals, FiniteSets

CONSTANTS
    Proposals,     \* proposals by their id, of which the callback key is a hash
    Arrivals,      \* deliveries on orders.proposed, each posting one message
    ProposalOf,    \* the proposal that arrives
    NoProposal,    \* no proposal
    NoArrival,     \* no delivery: the zero value of bus.OrderProposal, or of messageID
    NoEntry,       \* the key is not in pend
    Taps,          \* taps the operator makes
    Commands,      \* commands the operator types
    MaxRestarts,   \* restarts in a behaviour
    Conditions     \* what the environment does in this run

(* Kinds of failure, and a habit of the operator: to type a command before *)
(* the one before it was confirmed ("hasty").                              *)
ConditionKinds == {"send", "reply", "publish", "edit", "control", "crash", "hasty"}

(* The values of pend: the arrival whose proposal it holds, and the        *)
(* arrival of which messageID is the message.                              *)
Entry(a, m) == [arrival |-> a, message |-> m]
Entries == [arrival : Arrivals \cup {NoArrival}, message : Arrivals \cup {NoArrival}]

ArrivalsOf(p) == {a \in Arrivals : ProposalOf[a] = p}

ASSUME ApprovalAssumption ==
    /\ NoProposal \notin Proposals
    /\ NoArrival \notin Arrivals
    /\ ProposalOf \in [Arrivals -> Proposals]
    /\ NoEntry \notin Entries
    /\ MaxRestarts \in Nat
    /\ Conditions \subseteq ConditionKinds

VARIABLES
    proposed,   \* arrivals not yet handed to OnProposal
    poster,     \* stage of OnProposal
    posting,    \* the arrival it works on
    pend,       \* Manager.pend
    halted,     \* Manager.halted
    chat,       \* what the message of each arrival shows
    taps,       \* each tap and the goroutine that handles it
    commands,   \* each command and the goroutine that handles it
    restarts,   \* number of restarts so far
    last,       \* history: the last command, if typed when none was under way,
                \*   unless it could not be published
    decisions,  \* history: decisions published, with the tap they are of
    crossed,    \* history: proposals taken from pend while OnProposal posted them
    closed,     \* history: messages whose proposal was decided after they showed
                \*   their buttons, or forgotten for a repeat that was not posted
    control     \* history: Halted of the last control message published

vars == <<proposed, poster, posting, pend, halted, chat, taps, commands, restarts,
          last, decisions, crossed, closed, control>>

gate == <<proposed, poster, posting, pend, chat, taps, decisions, crossed, closed>>
switch == <<halted, commands, restarts, last, control>>

NoTap == [stage |-> "unused", key |-> NoProposal, approve |-> FALSE, held |-> NoEntry]
NoCommand == [stage |-> "unused", halt |-> FALSE]

TapStages == {"unused", "new", "publish", "restore", "edit", "done"}
TapStates ==
    [stage : TapStages,
     key : Proposals \cup {NoProposal}, approve : BOOLEAN,
     held : Entries \cup {NoEntry}]

GateType ==
    /\ proposed \subseteq Arrivals
    /\ poster \in {"idle", "register", "send", "note", "forget"}
    /\ posting \in Arrivals \cup {NoArrival}
    /\ (poster = "idle") <=> (posting = NoArrival)
    /\ pend \in [Proposals -> Entries \cup {NoEntry}]
    /\ chat \in [Arrivals -> {"none", "buttons", "stray", "approved", "rejected"}]
    /\ taps \in [Taps -> TapStates]
    /\ \A t \in Taps :
         (taps[t].held = NoEntry) <=> (taps[t].stage \in {"unused", "new", "done"})
    /\ decisions \subseteq [tap : Taps, of : Entries, approved : BOOLEAN]
    /\ crossed \subseteq Proposals
    /\ closed \subseteq Arrivals

SwitchType ==
    /\ halted \in BOOLEAN
    /\ commands \in [Commands -> [stage : {"unused", "new", "publish", "confirm", "done"},
                                  halt : BOOLEAN]]
    /\ restarts \in 0 .. MaxRestarts
    /\ last \in SUBSET Commands /\ Cardinality(last) <= 1
    /\ control \in BOOLEAN

TypeOK == GateType /\ SwitchType

Init ==
    /\ proposed = Arrivals
    /\ poster = "idle"
    /\ posting = NoArrival
    /\ pend = [p \in Proposals |-> NoEntry]
    /\ halted = FALSE
    /\ chat = [a \in Arrivals |-> "none"]
    /\ taps = [t \in Taps |-> NoTap]
    /\ commands = [c \in Commands |-> NoCommand]
    /\ restarts = 0
    /\ last = {}
    /\ decisions = {}
    /\ crossed = {}
    /\ closed = {}
    /\ control = FALSE

-----------------------------------------------------------------------------
(* The poster: OnProposal.                                                 *)

Key == ProposalOf[posting]

(* The messages of a proposal in the chat.                                 *)
Showing(p) == {a \in ArrivalsOf(p) : chat[a] # "none"}

(* Every arrival is posted, unless halted, whatever became of its proposal *)
(* before.                                                                 *)
OnProposal(a) ==
    /\ poster = "idle"
    /\ a \in proposed
    /\ proposed' = proposed \ {a}
    /\ \/ halted /\ UNCHANGED <<poster, posting>>
       \/ ~halted /\ poster' = "register" /\ posting' = a
    /\ UNCHANGED <<pend, chat, taps, decisions, crossed, closed, switch>>

Register ==
    /\ poster = "register"
    /\ pend' = [pend EXCEPT ![Key] = Entry(posting, NoArrival)]
    /\ poster' = "send"
    /\ UNCHANGED <<proposed, posting, chat, taps, decisions, crossed, closed, switch>>

(* SendKeyboard.  The error it returns may come of a reply that was lost:  *)
(* the message is in the chat, a stray.                                    *)
SendKeyboard ==
    /\ poster = "send"
    /\ \/ /\ chat' = [chat EXCEPT ![posting] = "buttons"]
          /\ poster' = "note"
       \/ /\ "reply" \in Conditions
          /\ chat' = [chat EXCEPT ![posting] = "stray"]
          /\ poster' = "forget"
       \/ /\ "send" \in Conditions
          /\ poster' = "forget"
          /\ UNCHANGED chat
    /\ UNCHANGED <<proposed, posting, pend, taps, decisions, crossed, closed, switch>>

(* pend[key] is read again and written back with the message id.  A key    *)
(* that is gone reads as the zero value of pending.                        *)
NoteMessage ==
    /\ poster = "note"
    /\ LET a == IF pend[Key] = NoEntry THEN NoArrival ELSE pend[Key].arrival
       IN pend' = [pend EXCEPT ![Key] = Entry(a, posting)]
    /\ poster' = "idle"
    /\ posting' = NoArrival
    /\ UNCHANGED <<proposed, chat, taps, decisions, crossed, closed, switch>>

(* The entry goes, and with it what an older message of the proposal was   *)
(* waiting for.                                                            *)
ForgetProposal ==
    /\ poster = "forget"
    /\ pend' = [pend EXCEPT ![Key] = NoEntry]
    /\ closed' = closed \cup Showing(Key)
    /\ poster' = "idle"
    /\ posting' = NoArrival
    /\ UNCHANGED <<proposed, chat, taps, decisions, crossed, switch>>

-----------------------------------------------------------------------------
(* The taps: HandleCallback, for a tap from the operator's chat with       *)
(* well-formed data.  Any other tap is answered and changes nothing.       *)

MoveTap(t, stage, held) == taps' = [taps EXCEPT ![t].stage = stage, ![t].held = held]

(* The operator taps a button of a message.  It stays there, to be tapped  *)
(* again, until the message is edited.  It says the key and no more.       *)
Tap(t, a, approve) ==
    /\ taps[t].stage = "unused"
    /\ chat[a] \in {"buttons", "stray"}
    /\ taps' = [taps EXCEPT ![t] =
                  [stage |-> "new", key |-> ProposalOf[a], approve |-> approve,
                   held |-> NoEntry]]
    /\ UNCHANGED <<proposed, poster, posting, pend, chat, decisions, crossed, closed, switch>>

(* Mutant of TakeProposal: looked up, not claimed.                         *)
TakeProposalKeeps(t) ==
    /\ taps[t].stage = "new"
    /\ IF pend[taps[t].key] = NoEntry
       THEN MoveTap(t, "done", NoEntry)
       ELSE MoveTap(t, "publish", pend[taps[t].key])
    /\ UNCHANGED <<proposed, poster, posting, pend, chat, decisions, crossed, closed, switch>>

(* "Atomically claim the proposal by removing it": a tap that finds        *)
(* nothing is answered "Already decided or expired".                       *)
TakeProposal(t) ==
    LET key == taps[t].key IN
    /\ taps[t].stage = "new"
    /\ \/ /\ pend[key] = NoEntry
          /\ MoveTap(t, "done", NoEntry)
          /\ UNCHANGED <<pend, crossed>>
       \/ /\ pend[key] # NoEntry
          /\ MoveTap(t, "publish", pend[key])
          /\ pend' = [pend EXCEPT ![key] = NoEntry]
          /\ crossed' = IF posting \in ArrivalsOf(key) THEN crossed \cup {key} ELSE crossed
    /\ UNCHANGED <<proposed, poster, posting, chat, decisions, closed, switch>>

Published(t) == [tap |-> t, of |-> taps[t].held, approved |-> taps[t].approve]

(* Mutant of PublishDecision: its error is not looked at.                  *)
PublishDecisionUnchecked(t) ==
    /\ taps[t].stage = "publish"
    /\ decisions' \in {decisions, decisions \cup {Published(t)}}
    /\ MoveTap(t, "edit", taps[t].held)
    /\ UNCHANGED <<proposed, poster, posting, pend, chat, crossed, closed, switch>>

PublishDecision(t) ==
    /\ taps[t].stage = "publish"
    /\ \/ /\ decisions' = decisions \cup {Published(t)}
          /\ closed' = closed \cup Showing(taps[t].key)
          /\ MoveTap(t, "edit", taps[t].held)
       \/ /\ "publish" \in Conditions
          /\ MoveTap(t, "restore", taps[t].held)
          /\ UNCHANGED <<decisions, closed>>
    /\ UNCHANGED <<proposed, poster, posting, pend, chat, crossed, switch>>

(* Mutant of RestoreProposal: the tap is answered, the proposal is gone.   *)
RestoreNothing(t) ==
    /\ taps[t].stage = "restore"
    /\ MoveTap(t, "done", NoEntry)
    /\ UNCHANGED <<proposed, poster, posting, pend, chat, decisions, crossed, closed, switch>>

(* Over whatever was registered under the key meanwhile.                   *)
RestoreProposal(t) ==
    /\ taps[t].stage = "restore"
    /\ pend' = [pend EXCEPT ![taps[t].key] = taps[t].held]
    /\ MoveTap(t, "done", NoEntry)
    /\ UNCHANGED <<proposed, poster, posting, chat, decisions, crossed, closed, switch>>

(* EditMessageText removes the buttons of the message the entry knew, and  *)
(* shows the verdict.                                                      *)
EditMessage(t) ==
    /\ taps[t].stage = "edit"
    /\ LET message == taps[t].held.message IN
       \/ /\ message # NoArrival
          /\ chat' = [chat EXCEPT ![message] =
                        IF taps[t].approve THEN "approved" ELSE "rejected"]
       \/ /\ "edit" \in Conditions \/ message = NoArrival
          /\ UNCHANGED chat
    /\ MoveTap(t, "done", NoEntry)
    /\ UNCHANGED <<proposed, poster, posting, pend, decisions, crossed, closed, switch>>

-----------------------------------------------------------------------------
(* The commands: HandleCommand for /halt and /resume.                      *)

Quiet == \A c \in Commands : commands[c].stage \in {"unused", "done"}

MoveCommand(c, stage) == commands' = [commands EXCEPT ![c].stage = stage]

(* The operator types a command.                                           *)
Command(c, halt) ==
    /\ commands[c].stage = "unused"
    /\ "hasty" \in Conditions \/ Quiet
    /\ commands' = [commands EXCEPT ![c] = [stage |-> "new", halt |-> halt]]
    /\ last' = IF Quiet THEN {c} ELSE {}
    /\ UNCHANGED <<halted, restarts, control, gate>>

(* Mutant of SetHalted: the flag of the notifier is forgotten.             *)
SetNothing(c) ==
    /\ commands[c].stage = "new"
    /\ MoveCommand(c, "publish")
    /\ UNCHANGED <<halted, restarts, last, control, gate>>

SetHalted(c) ==
    /\ commands[c].stage = "new"
    /\ halted' = commands[c].halt
    /\ MoveCommand(c, "publish")
    /\ UNCHANGED <<restarts, last, control, gate>>

PublishControl(c) ==
    /\ commands[c].stage = "publish"
    /\ MoveCommand(c, "confirm")
    /\ \/ control' = commands[c].halt /\ UNCHANGED last
       \/ "control" \in Conditions /\ last' = last \ {c} /\ UNCHANGED control
    /\ UNCHANGED <<halted, restarts, gate>>

(* "HALT sent on control.halt - trader will refuse new orders" goes to the *)
(* chat whatever PublishControl returned.                                  *)
Confirm(c) ==
    /\ commands[c].stage = "confirm"
    /\ MoveCommand(c, "done")
    /\ UNCHANGED <<halted, restarts, last, control, gate>>

-----------------------------------------------------------------------------
(* The notifier dies and starts again: all it knew is gone, and updates it *)
(* had not yet confirmed to Telegram, with the request for the next batch, *)
(* come again.                                                             *)
Restart ==
    /\ "crash" \in Conditions
    /\ restarts < MaxRestarts
    /\ restarts' = restarts + 1
    /\ poster' = "idle"
    /\ posting' = NoArrival
    /\ pend' = [p \in Proposals |-> NoEntry]
    /\ halted' = FALSE
    /\ \E again \in SUBSET {t \in Taps : taps[t].stage \notin {"unused", "done"}} :
          taps' = [t \in Taps |->
                    IF taps[t].stage = "unused" THEN taps[t]
                    ELSE [taps[t] EXCEPT !.stage = IF t \in again THEN "new" ELSE "done",
                                         !.held = NoEntry]]
    /\ \E again \in SUBSET {c \in Commands : commands[c].stage \notin {"unused", "done"}} :
          commands' = [c \in Commands |->
                        IF commands[c].stage = "unused" THEN commands[c]
                        ELSE [commands[c] EXCEPT !.stage = IF c \in again THEN "new" ELSE "done"]]
    /\ UNCHANGED <<proposed, chat, last, decisions, crossed, closed, control>>

Poster == Register \/ SendKeyboard \/ NoteMessage \/ ForgetProposal
Handle(t) == TakeProposal(t) \/ PublishDecision(t) \/ RestoreProposal(t) \/ EditMessage(t)
Execute(c) == SetHalted(c) \/ PublishControl(c) \/ Confirm(c)

Next ==
    \/ \E a \in Arrivals : OnProposal(a)
    \/ Poster
    \/ \E t \in Taps, a \in Arrivals, approve \in BOOLEAN : Tap(t, a, approve)
    \/ \E t \in Taps : Handle(t)
    \/ \E c \in Commands, h \in BOOLEAN : Command(c, h)
    \/ \E c \in Commands : Execute(c)
    \/ Restart

Spec == Init /\ [][Next]_vars
-----------------------------------------------------------------------------
(* Properties.                                                             *)

(* "Atomically claim the proposal by removing it: a second tap finds       *)
(* nothing (idempotent)" (approval.go:124-125): what one arrival registered*)
(* is decided at most once, by however many taps at once, on whichever of  *)
(* the proposal's messages, although a publish may fail and be tried again,*)
(* the entry be put back over a newer one, and the notifier die half-way.  *)
DecidedOnce ==
    \A d, e \in decisions : d.of.arrival = e.of.arrival /\ d.of.arrival # NoArrival => d = e

(* "a proposal can be decided at most once" (approval.go:4-5). Not so of a *)
(* proposal that arrives twice: its second message is decided too.         *)
ProposalDecidedOnce ==
    \A d, e \in decisions :
        NoArrival \notin {d.of.arrival, e.of.arrival}
            /\ ProposalOf[d.of.arrival] = ProposalOf[e.of.arrival] => d = e

(* A tap decides what it names: the decision carries an arrival of the     *)
(* proposal under whose button it was made.  No tap took the entry while   *)
(* OnProposal posted the proposal: the note that follows would make an     *)
(* empty entry for the next tap to take.                                   *)
DecisionsAreWhole ==
    \A d \in decisions :
        taps[d.tap].key \notin crossed => d.of.arrival \in ArrivalsOf(taps[d.tap].key)

(* The gate is well typed, decides each arrival once, and what was tapped. *)
Inv == TypeOK /\ DecidedOnce /\ DecisionsAreWhole

(* "Restore so the operator can retry the tap" (approval.go:141): as long  *)
(* as a message known to be posted shows its buttons, the next tap finds   *)
(* an arrival of the proposal, or a tap before it is still being handled,  *)
(* unless the proposal was decided since the message was posted.  Only a   *)
(* restart, or a repeat that could not be posted, forgets a proposal.      *)
StaysDecidable ==
    \A a \in Arrivals :
        LET p == ProposalOf[a] IN
        restarts = 0 /\ p \notin crossed /\ chat[a] = "buttons" /\ a \notin closed =>
            \/ pend[p] # NoEntry /\ pend[p].arrival \in ArrivalsOf(p)
            \/ \E t \in Taps : taps[t].key = p /\ taps[t].stage \in {"publish", "restore"}

(* The message tells the operator what the trader was told: its verdict is *)
(* that of the one decision published from an entry that knew the message, *)
(* across repeats, early taps and restarts too.                            *)
ShownVerdictIsTrue ==
    \A a \in Arrivals :
        chat[a] \in {"approved", "rejected"} =>
            \E d \in decisions : /\ {e \in decisions : e.of.message = a} = {d}
                                 /\ d.approved = (chat[a] = "approved")

(* "`/halt` blocks downstream" (PLAN.md:148): a command given once those   *)
(* before it were confirmed, and published, stands when it has been        *)
(* handled, here and with whoever listens on control.halt.  A restart      *)
(* forgets it here.                                                        *)
LastCommandStands ==
    restarts = 0 /\ Quiet =>
        \A c \in last : halted = commands[c].halt /\ control = commands[c].halt
=============================================================================
