--------------------------- MODULE ApprovalProofs ---------------------------
(***************************************************************************)
(* Theorems about Approval, for every set of proposals, arrivals, taps and *)
(* commands, any number of restarts and every combination of conditions.   *)
(***************************************************************************)
EXTENDS Approval, FiniteSetTheorems, TLAPS

(***************************************************************************)
(* The inductive invariant of the gate.  An arrival is waiting to be       *)
(* posted and untouched, or its proposal is in pend, or one tap holds it,  *)
(* or it is decided, or it is gone: never two of these at once.  The same  *)
(* goes for the entry that knows its message.  As long as no tap crossed   *)
(* OnProposal, what is under the key is an arrival of the proposal.        *)
(***************************************************************************)
Live(t) == taps[t].stage \in {"publish", "restore"}

InPend(a) == pend[ProposalOf[a]] # NoEntry /\ pend[ProposalOf[a]].arrival = a
Holds(t, a) == Live(t) /\ taps[t].held.arrival = a
Decided(a) == \E d \in decisions : d.of.arrival = a

PendKnows(a) == pend[ProposalOf[a]] # NoEntry /\ pend[ProposalOf[a]].message = a
TapKnows(t, a) == Live(t) /\ taps[t].held.message = a
DecisionKnows(a) == \E d \in decisions : d.of.message = a

Waiting(a) == a \in proposed \/ (poster = "register" /\ posting = a)
Unregistered(a) == ~InPend(a) /\ ~Decided(a) /\ \A t \in Taps : ~Holds(t, a)
Unknown(a) == ~PendKnows(a) /\ ~DecisionKnows(a) /\ \A t \in Taps : ~TapKnows(t, a)

WaitingIsUntouched ==
    \A a \in Arrivals : Waiting(a) => Unregistered(a) /\ Unknown(a) /\ chat[a] = "none"

(* What OnProposal may rely on while it posts.                             *)
PostingIsSound ==
    /\ posting \notin proposed
    /\ poster = "send" => Unknown(posting) /\ chat[posting] = "none"
    /\ poster = "note" => Unknown(posting)
    /\ poster = "forget" => Unknown(posting) /\ chat[posting] # "buttons"
    /\ poster \in {"send", "note", "forget"} /\ Key \notin crossed => pend[Key] # NoEntry

(* Entries under a key, in the hands of a tap, or decided by it, are of    *)
(* the proposal.                                                           *)
Of(e, p) == {e.arrival, e.message} \subseteq ArrivalsOf(p) \cup {NoArrival}

KeysMatch ==
    /\ \A t \in Taps : taps[t].stage = "unused" <=> taps[t].key = NoProposal
    /\ \A p \in Proposals : pend[p] # NoEntry => Of(pend[p], p)
    /\ \A t \in Taps : taps[t].held # NoEntry => Of(taps[t].held, taps[t].key)
    /\ \A d \in decisions : taps[d.tap].stage # "unused" /\ Of(d.of, taps[d.tap].key)

Whole ==
    /\ \A p \in Proposals \ crossed : pend[p] # NoEntry => pend[p].arrival # NoArrival
    /\ \A t \in Taps : taps[t].key \notin crossed /\ taps[t].held # NoEntry =>
                          taps[t].held.arrival # NoArrival
    /\ \A d \in decisions : taps[d.tap].key \notin crossed => d.of.arrival # NoArrival

OnePlace ==
    \A a \in Arrivals :
        /\ InPend(a) => ~Decided(a) /\ \A t \in Taps : ~Holds(t, a)
        /\ \A t \in Taps : Holds(t, a) => ~Decided(a) /\ \A u \in Taps : Holds(u, a) => u = t
        /\ \A d, e \in decisions : d.of.arrival = a /\ e.of.arrival = a => d = e

OneKnows ==
    \A a \in Arrivals :
        /\ PendKnows(a) => ~DecisionKnows(a) /\ \A t \in Taps : ~TapKnows(t, a)
        /\ \A t \in Taps : TapKnows(t, a) => ~DecisionKnows(a)
                                             /\ \A u \in Taps : TapKnows(u, a) => u = t
        /\ \A d, e \in decisions : d.of.message = a /\ e.of.message = a => d = e

EditIsOfDecision ==
    \A t \in Taps : taps[t].stage = "edit" =>
        \E d \in decisions : d.of = taps[t].held /\ d.approved = taps[t].approve

VerdictIsDecided ==
    \A a \in Arrivals :
        chat[a] \in {"approved", "rejected"} =>
            \E d \in decisions : d.of.message = a /\ d.approved = (chat[a] = "approved")

NotForgotten ==
    \A a \in Arrivals :
        restarts = 0 /\ ProposalOf[a] \notin crossed /\ chat[a] = "buttons" /\ a \notin closed =>
            \/ pend[ProposalOf[a]] # NoEntry
            \/ \E t \in Taps : Live(t) /\ taps[t].key = ProposalOf[a]

GateRest ==
    /\ WaitingIsUntouched
    /\ PostingIsSound
    /\ KeysMatch
    /\ Whole
    /\ OnePlace
    /\ OneKnows
    /\ EditIsOfDecision
    /\ VerdictIsDecided
    /\ NotForgotten

GateInv == GateType /\ GateRest

(***************************************************************************)
(* The inductive invariant of the switch: the last command is the only one *)
(* that may still be under way, and what it has done so far stands.        *)
(***************************************************************************)
LastIsAlone ==
    \A c \in last :
        /\ last = {c}
        /\ restarts = 0 => \A b \in Commands \ {c} : commands[b].stage \in {"unused", "done"}

LastIsObeyed ==
    restarts = 0 => \A c \in last :
        /\ commands[c].stage \in {"publish", "confirm", "done"} => halted = commands[c].halt
        /\ commands[c].stage \in {"confirm", "done"} => control = commands[c].halt
        /\ commands[c].stage # "unused"

SwitchInv == SwitchType /\ LastIsAlone /\ LastIsObeyed
-----------------------------------------------------------------------------
(* Lemmas.                                                                 *)

(* An entry is not the absence of one, and holds what was put into it.     *)
LEMMA EntryIsEntry ==
    ASSUME NEW a \in Arrivals \cup {NoArrival}, NEW m \in Arrivals \cup {NoArrival}
    PROVE  /\ Entry(a, m) \in Entries
           /\ Entry(a, m) # NoEntry
           /\ Entry(a, m).arrival = a
           /\ Entry(a, m).message = m
  BY ApprovalAssumption DEF Entry, Entries

(* The stages of a tap.                                                    *)
LEMMA StageNames ==
    /\ "unused" \in TapStages /\ "new" \in TapStages /\ "publish" \in TapStages
    /\ "restore" \in TapStages /\ "edit" \in TapStages /\ "done" \in TapStages
  BY DEF TapStages

(* A tap with another stage and another entry is a tap.                    *)
Changed(r, s, h) == [r EXCEPT !.stage = s, !.held = h]

(* What Changed does to a tap: the stage and the entry in its hand, and     *)
(* nothing else.                                                            *)
LEMMA ChangedTap ==
    \A r \in TapStates, h \in Entries \cup {NoEntry},
       s \in TapStages :
        /\ Changed(r, s, h) \in TapStates
        /\ Changed(r, s, h).stage = s
        /\ Changed(r, s, h).held = h
        /\ Changed(r, s, h).key = r.key
        /\ Changed(r, s, h).approve = r.approve
<1> TAKE r \in TapStates, h \in Entries \cup {NoEntry},
         s \in TapStages
<1> DEFINE m == [r EXCEPT !.stage = s]
<1>1. /\ m \in TapStates /\ m.stage = s
      /\ m.key = r.key /\ m.approve = r.approve
  BY DEF TapStates
<1>2. Changed(r, s, h) = [m EXCEPT !.held = h]
  BY DEF Changed
<1> HIDE DEF m
<1>3. QED
  BY <1>1, <1>2 DEF TapStates

(* What MoveTap does to the tap, and to the others.                        *)
LEMMA MovedTap ==
    ASSUME GateType, NEW t \in Taps, NEW h \in Entries \cup {NoEntry},
           NEW s \in TapStages,
           MoveTap(t, s, h)
    PROVE  /\ taps' \in [Taps -> TapStates]
           /\ taps'[t].stage = s /\ taps'[t].held = h
           /\ \A u \in Taps : u # t => taps'[u] = taps[u]
           /\ \A u \in Taps : /\ taps'[u].key = taps[u].key
                              /\ taps'[u].approve = taps[u].approve
<1>1. /\ taps \in [Taps -> TapStates]
      /\ taps' = [taps EXCEPT ![t] = Changed(taps[t], s, h)]
  BY DEF MoveTap, GateType, Changed
<1>2. taps[t] \in TapStates
  BY <1>1
<1>3. QED
  BY <1>1, <1>2, ChangedTap

(* MoveTap keeps a tap holding an entry where it must.                     *)
LEMMA MovedTapType ==
    ASSUME GateType, NEW t \in Taps, NEW h \in Entries \cup {NoEntry},
           NEW s \in TapStages, (h = NoEntry) <=> (s \in {"unused", "new", "done"}),
           MoveTap(t, s, h)
    PROVE  /\ taps' \in [Taps -> TapStates]
           /\ \A u \in Taps :
                (taps'[u].held = NoEntry) <=> (taps'[u].stage \in {"unused", "new", "done"})
<1>1. /\ taps' \in [Taps -> TapStates]
      /\ taps'[t].stage = s /\ taps'[t].held = h
      /\ \A u \in Taps : u # t => taps'[u] = taps[u]
  BY MovedTap
<1>2. QED
  BY <1>1 DEF GateType

(* What a restart does to the taps: those that were under way come again   *)
(* or are over, and hold nothing.                                          *)
LEMMA RestartedTaps ==
    ASSUME GateType, Restart
    PROVE  /\ taps' \in [Taps -> TapStates]
           /\ \A t \in Taps :
                /\ taps'[t].held = NoEntry
                /\ IF taps[t].stage = "unused"
                   THEN taps'[t].stage = "unused"
                   ELSE taps'[t].stage \in {"new", "done"}
                /\ taps'[t].key = taps[t].key
                /\ taps'[t].approve = taps[t].approve
<1>1. PICK again \in SUBSET {t \in Taps : taps[t].stage \notin {"unused", "done"}} :
          taps' = [t \in Taps |->
                    IF taps[t].stage = "unused" THEN taps[t]
                    ELSE [taps[t] EXCEPT !.stage = IF t \in again THEN "new" ELSE "done",
                                         !.held = NoEntry]]
  BY DEF Restart
<1>2. ASSUME NEW t \in Taps
      PROVE  /\ taps'[t] \in TapStates
             /\ taps'[t].held = NoEntry
             /\ IF taps[t].stage = "unused"
                THEN taps'[t].stage = "unused"
                ELSE taps'[t].stage \in {"new", "done"}
             /\ taps'[t].key = taps[t].key
             /\ taps'[t].approve = taps[t].approve
  <2>1. taps[t] \in TapStates
    BY DEF GateType
  <2>2. CASE taps[t].stage = "unused"
    BY <1>1, <2>1, <2>2 DEF GateType
  <2>3. CASE taps[t].stage # "unused"
    <3> DEFINE stage == IF t \in again THEN "new" ELSE "done"
    <3>1. stage \in {"new", "done"}
      OBVIOUS
    <3>2. taps'[t] = Changed(taps[t], stage, NoEntry)
      BY <1>1, <2>3 DEF Changed
    <3> HIDE DEF stage
    <3>3. QED
      BY <2>1, <2>3, <3>1, <3>2, StageNames, ChangedTap
  <2>4. QED
    BY <2>2, <2>3
<1>3. taps' \in [Taps -> TapStates]
  <2>1. taps' = [t \in Taps |-> taps'[t]]
    BY <1>1
  <2>2. QED
    BY <1>2, <2>1
<1>4. QED
  BY <1>2, <1>3

(* A set whose members are all equal has at most one.                      *)
LEMMA AtMostOneMember ==
    ASSUME NEW S, \A d, e \in S : d = e
    PROVE  Cardinality(S) <= 1
<1>1. CASE S = {}
  BY <1>1, FS_EmptySet
<1>2. ASSUME NEW d \in S PROVE Cardinality(S) <= 1
  <2>1. S = {d}
    BY <1>2
  <2>2. Cardinality(S) = 1
    BY <2>1, FS_Singleton
  <2>3. QED
    BY <2>2
<1>3. QED
  BY <1>1, <1>2
(* The proposal of an arrival, and the arrivals of a proposal.             *)
LEMMA ArrivalFacts ==
    /\ \A a \in Arrivals : ProposalOf[a] \in Proposals
    /\ \A p, a : a \in ArrivalsOf(p) <=> a \in Arrivals /\ ProposalOf[a] = p
    /\ \A p : ArrivalsOf(p) \subseteq Arrivals
  BY ApprovalAssumption DEF ArrivalsOf

-----------------------------------------------------------------------------
(* The gate.                                                               *)

(* The invariant of the gate holds at the start.                            *)
LEMMA GateInit == Init => GateInv
<1> SUFFICES ASSUME Init PROVE GateInv
  OBVIOUS
<1>1. GateType
  BY ApprovalAssumption, StageNames DEF Init, GateType, TapStates, NoTap
<1>2. \A t \in Taps : taps[t].stage = "unused" /\ taps[t].key = NoProposal
                      /\ taps[t].held = NoEntry
  BY DEF Init, NoTap
<1>3. \A p \in Proposals : pend[p] = NoEntry
  BY DEF Init
<1>4. /\ decisions = {} /\ poster = "idle" /\ posting = NoArrival /\ proposed = Arrivals
      /\ \A a \in Arrivals : chat[a] = "none"
  BY DEF Init
<1>5. \A a \in Arrivals : Unregistered(a) /\ Unknown(a)
  BY <1>2, <1>3, <1>4, ArrivalFacts
  DEF Unregistered, Unknown, InPend, Decided, Holds, Live, PendKnows, DecisionKnows, TapKnows
<1>6. WaitingIsUntouched
  BY <1>4, <1>5 DEF WaitingIsUntouched
<1>7. PostingIsSound
  BY <1>4, ApprovalAssumption DEF PostingIsSound
<1>8. KeysMatch /\ Whole
  BY <1>2, <1>3, <1>4 DEF KeysMatch, Whole
<1>9. OnePlace /\ OneKnows
  BY <1>4, <1>5 DEF OnePlace, OneKnows, Unregistered, Unknown
<1>10. EditIsOfDecision /\ VerdictIsDecided /\ NotForgotten
  BY <1>2, <1>4 DEF EditIsOfDecision, VerdictIsDecided, NotForgotten
<1>11. QED
  BY <1>1, <1>6, <1>7, <1>8, <1>9, <1>10 DEF GateInv, GateRest

(* Every step keeps the gate well typed.                                    *)
LEMMA GateNextType == GateType /\ KeysMatch /\ [Next]_vars => GateType'
<1> SUFFICES ASSUME GateType, KeysMatch, [Next]_vars PROVE GateType'
  OBVIOUS
<1>1. ASSUME NEW a \in Arrivals, OnProposal(a) PROVE GateType'
  BY <1>1, ApprovalAssumption DEF OnProposal, GateType
<1>2. CASE Register
  <2>1. posting \in Arrivals /\ Key \in Proposals
    BY <1>2, ArrivalFacts DEF Register, GateType, Key
  <2>2. Entry(posting, NoArrival) \in Entries
    BY EntryIsEntry, <2>1
  <2>3. QED
    BY <1>2, <2>1, <2>2 DEF Register, GateType
<1>3. CASE SendKeyboard
  BY <1>3 DEF SendKeyboard, GateType
<1>4. CASE NoteMessage
  <2>1. posting \in Arrivals /\ Key \in Proposals
    BY <1>4, ArrivalFacts DEF NoteMessage, GateType, Key
  <2>2. (IF pend[Key] = NoEntry THEN NoArrival ELSE pend[Key].arrival)
            \in Arrivals \cup {NoArrival}
    BY <2>1 DEF GateType, Entries
  <2>3. Entry(IF pend[Key] = NoEntry THEN NoArrival ELSE pend[Key].arrival, posting) \in Entries
    BY <2>1, <2>2, EntryIsEntry
  <2>4. pend' \in [Proposals -> Entries \cup {NoEntry}]
    BY <1>4, <2>1, <2>3 DEF NoteMessage, GateType
  <2>5. QED
    BY <1>4, <2>4 DEF NoteMessage, GateType
<1>5. CASE ForgetProposal
  <2>1. closed' \subseteq Arrivals
    BY <1>5, ArrivalFacts DEF ForgetProposal, GateType, Showing
  <2>2. QED
    BY <1>5, <2>1 DEF ForgetProposal, GateType
<1>6. ASSUME NEW t \in Taps, NEW a \in Arrivals, NEW approve \in BOOLEAN, Tap(t, a, approve)
      PROVE  GateType'
  <2> DEFINE new == [stage |-> "new", key |-> ProposalOf[a], approve |-> approve,
                     held |-> NoEntry]
  <2>1. taps' = [taps EXCEPT ![t] = new]
    BY <1>6 DEF Tap
  <2>2. new \in TapStates
    BY StageNames, ArrivalFacts DEF TapStates
  <2>3. new.held = NoEntry /\ new.stage = "new"
    OBVIOUS
  <2> HIDE DEF new
  <2>4. QED
    BY <1>6, <2>1, <2>2, <2>3 DEF Tap, GateType
<1>7. ASSUME NEW t \in Taps, TakeProposal(t) PROVE GateType'
  <2>1. taps[t].key \in Proposals
    BY <1>7 DEF TakeProposal, GateType, KeysMatch, TapStates
  <2>2. pend[taps[t].key] \in Entries \cup {NoEntry}
    BY <2>1 DEF GateType
  <2>3. /\ taps' \in [Taps -> TapStates]
        /\ \A u \in Taps :
             (taps'[u].held = NoEntry) <=> (taps'[u].stage \in {"unused", "new", "done"})
    <3>1. CASE pend[taps[t].key] = NoEntry /\ MoveTap(t, "done", NoEntry)
      BY <3>1, StageNames, MovedTapType
    <3>2. CASE pend[taps[t].key] # NoEntry /\ MoveTap(t, "publish", pend[taps[t].key])
      BY <2>2, <3>2, StageNames, MovedTapType
    <3>3. QED
      BY <1>7, <3>1, <3>2 DEF TakeProposal
  <2>4. pend' \in [Proposals -> Entries \cup {NoEntry}] /\ crossed' \subseteq Proposals
    BY <1>7, <2>1 DEF TakeProposal, GateType
  <2>5. UNCHANGED <<proposed, poster, posting, chat, decisions, closed>>
    BY <1>7 DEF TakeProposal
  <2>6. QED
    BY <2>3, <2>4, <2>5 DEF GateType
<1>8. ASSUME NEW t \in Taps, PublishDecision(t) PROVE GateType'
  <2>1. /\ taps[t].held \in Entries /\ taps[t].held # NoEntry
        /\ taps[t].approve \in BOOLEAN
    BY <1>8 DEF PublishDecision, GateType, TapStates
  <2>2. Published(t) \in [tap : Taps, of : Entries, approved : BOOLEAN]
    BY <2>1 DEF Published
  <2>3. decisions' \subseteq [tap : Taps, of : Entries, approved : BOOLEAN]
    BY <1>8, <2>2 DEF PublishDecision, GateType
  <2>4. MoveTap(t, "edit", taps[t].held) \/ MoveTap(t, "restore", taps[t].held)
    BY <1>8 DEF PublishDecision
  <2>5. /\ taps' \in [Taps -> TapStates]
        /\ \A u \in Taps :
             (taps'[u].held = NoEntry) <=> (taps'[u].stage \in {"unused", "new", "done"})
    BY <2>1, <2>4, StageNames, MovedTapType
  <2>6. UNCHANGED <<proposed, poster, posting, pend, chat, crossed>>
    BY <1>8 DEF PublishDecision
  <2>7. closed' \subseteq Arrivals
    BY <1>8, ArrivalFacts DEF PublishDecision, GateType, Showing
  <2>8. QED
    BY <2>3, <2>5, <2>6, <2>7 DEF GateType
<1>9. ASSUME NEW t \in Taps, RestoreProposal(t) PROVE GateType'
  <2>1. pend' \in [Proposals -> Entries \cup {NoEntry}]
    BY <1>9 DEF RestoreProposal, GateType, TapStates
  <2>2. /\ taps' \in [Taps -> TapStates]
        /\ \A u \in Taps :
             (taps'[u].held = NoEntry) <=> (taps'[u].stage \in {"unused", "new", "done"})
    BY <1>9, StageNames, MovedTapType DEF RestoreProposal
  <2>3. UNCHANGED <<proposed, poster, posting, chat, decisions, crossed, closed>>
    BY <1>9 DEF RestoreProposal
  <2>4. QED
    BY <2>1, <2>2, <2>3 DEF GateType
<1>10. ASSUME NEW t \in Taps, EditMessage(t) PROVE GateType'
  <2>1. chat' \in [Arrivals -> {"none", "buttons", "stray", "approved", "rejected"}]
    BY <1>10 DEF EditMessage, GateType
  <2>2. /\ taps' \in [Taps -> TapStates]
        /\ \A u \in Taps :
             (taps'[u].held = NoEntry) <=> (taps'[u].stage \in {"unused", "new", "done"})
    BY <1>10, StageNames, MovedTapType DEF EditMessage
  <2>3. UNCHANGED <<proposed, poster, posting, pend, decisions, crossed, closed>>
    BY <1>10 DEF EditMessage
  <2>4. QED
    BY <2>1, <2>2, <2>3 DEF GateType
<1>11. CASE Restart
  BY <1>11, RestartedTaps DEF Restart, GateType
<1>12. ASSUME UNCHANGED gate PROVE GateType'
  BY <1>12 DEF gate, GateType
<1>13. QED
  BY <1>1, <1>2, <1>3, <1>4, <1>5, <1>6, <1>7, <1>8, <1>9, <1>10, <1>11, <1>12
  DEF Next, Poster, Handle, Execute, Command, SetHalted, PublishControl, Confirm,
      vars, gate

(* Where neither the map, nor the taps, nor the decisions change, every    *)
(* arrival and every message is where it was.                              *)
LEMMA SamePlaces ==
    ASSUME UNCHANGED <<pend, taps, decisions>>
    PROVE  \A a \in Arrivals :
             /\ Unregistered(a)' <=> Unregistered(a)
             /\ Unknown(a)' <=> Unknown(a)
  BY DEF Unregistered, Unknown, InPend, Decided, Holds, Live, PendKnows, DecisionKnows, TapKnows

(* What says nothing of the poster nor of the chat then stays as it is.    *)
LEMMA SameRest ==
    ASSUME UNCHANGED <<pend, taps, decisions, crossed>>, GateRest
    PROVE  KeysMatch' /\ Whole' /\ OnePlace' /\ OneKnows' /\ EditIsOfDecision'
  BY DEF GateRest, KeysMatch, Whole, OnePlace, OneKnows, EditIsOfDecision, InPend, Decided,
         Holds, Live, PendKnows, DecisionKnows, TapKnows

(* Each step keeps what the invariant says beyond the types.               *)
LEMMA GateNextRest == GateInv /\ GateType' /\ SwitchType /\ [Next]_vars => GateRest'
<1> SUFFICES ASSUME GateInv, GateType', SwitchType, [Next]_vars PROVE GateRest'
  OBVIOUS
<1> USE DEF GateInv, GateRest
<1>0. poster # "idle" => posting \in Arrivals /\ Key \in Proposals
  BY ArrivalFacts DEF GateType, Key
<1>1. ASSUME NEW a \in Arrivals, OnProposal(a) PROVE GateRest'
  <2>1. /\ poster = "idle" /\ a \in proposed /\ proposed' = proposed \ {a}
        /\ \/ UNCHANGED <<poster, posting>>
           \/ poster' = "register" /\ posting' = a
        /\ UNCHANGED <<pend, chat, taps, decisions, crossed, closed, restarts>>
    BY <1>1 DEF OnProposal, switch
  <2>2. posting = NoArrival /\ a # NoArrival
    BY <2>1, ApprovalAssumption DEF GateType
  <2>3. \A b \in Arrivals : Waiting(b)' => Waiting(b)
    BY <2>1, <2>2 DEF Waiting
  <2>4. WaitingIsUntouched'
    BY <2>1, <2>3, SamePlaces DEF WaitingIsUntouched
  <2>5. PostingIsSound'
    BY <2>1, <2>2 DEF PostingIsSound
  <2>6. VerdictIsDecided' /\ NotForgotten'
    BY <2>1 DEF VerdictIsDecided, NotForgotten, Live
  <2>7. QED
    BY <2>1, <2>4, <2>5, <2>6, SameRest
<1>2. CASE Register
  <2>1. /\ poster = "register" /\ posting \in Arrivals /\ Key \in Proposals
        /\ poster' = "send" /\ Key' = Key
        /\ UNCHANGED <<proposed, posting, chat, taps, decisions, crossed, closed, restarts>>
    BY <1>0, <1>2 DEF Register, switch, Key
  <2>2. pend' = [pend EXCEPT ![Key] = Entry(posting, NoArrival)]
    BY <1>2 DEF Register
  <2>3. /\ Entry(posting, NoArrival) # NoEntry
        /\ Entry(posting, NoArrival).arrival = posting
        /\ Entry(posting, NoArrival).message = NoArrival
    BY <2>1, EntryIsEntry
  <2>4. /\ pend'[Key] # NoEntry /\ pend'[Key].arrival = posting /\ pend'[Key].message = NoArrival
        /\ \A p \in Proposals : p # Key => pend'[p] = pend[p]
    BY <2>1, <2>2, <2>3 DEF GateType
  <2>5. /\ Unregistered(posting) /\ Unknown(posting) /\ chat[posting] = "none"
        /\ posting \notin proposed
    BY <2>1 DEF WaitingIsUntouched, Waiting, PostingIsSound
  <2>6. NoArrival \notin Arrivals /\ ProposalOf[posting] = Key
    BY ApprovalAssumption DEF Key
  <2>7. \A a \in Arrivals : /\ InPend(a)' => a = posting \/ InPend(a)
                            /\ PendKnows(a)' => PendKnows(a)
    BY <2>4, <2>6, ArrivalFacts DEF InPend, PendKnows
  <2>8. \A a \in Arrivals : /\ Decided(a)' <=> Decided(a)
                            /\ DecisionKnows(a)' <=> DecisionKnows(a)
                            /\ \A t \in Taps : /\ Holds(t, a)' <=> Holds(t, a)
                                               /\ TapKnows(t, a)' <=> TapKnows(t, a)
    BY <2>1 DEF Decided, DecisionKnows, Holds, TapKnows, Live
  <2>9. \A a \in Arrivals : Unknown(a) => Unknown(a)'
    BY <2>7, <2>8 DEF Unknown
  <2>10. \A a \in Arrivals : Unregistered(a) /\ a # posting => Unregistered(a)'
    BY <2>7, <2>8 DEF Unregistered
  <2>11. WaitingIsUntouched'
    BY <2>1, <2>5, <2>9, <2>10 DEF WaitingIsUntouched, Waiting
  <2>12. PostingIsSound'
    BY <2>1, <2>4, <2>5, <2>9 DEF PostingIsSound
  <2>13. KeysMatch'
    <3>1. Of(pend'[Key], Key)
      BY <2>1, <2>4, <2>6, ArrivalFacts DEF Of
    <3>2. QED
      BY <2>1, <2>4, <3>1 DEF KeysMatch
  <2>14. Whole'
    BY <2>1, <2>4, <2>6 DEF Whole
  <2>15. OnePlace'
    BY <2>1, <2>5, <2>7, <2>8 DEF OnePlace, Unregistered
  <2>16. OneKnows'
    BY <2>1, <2>7, <2>8 DEF OneKnows
  <2>17. EditIsOfDecision' /\ VerdictIsDecided'
    BY <2>1 DEF EditIsOfDecision, VerdictIsDecided
  <2>18. NotForgotten'
    BY <2>1, <2>4, ArrivalFacts DEF NotForgotten, Live
  <2>19. QED
    BY <2>11, <2>12, <2>13, <2>14, <2>15, <2>16, <2>17, <2>18
<1>3. CASE SendKeyboard
  <2>1. /\ poster = "send" /\ posting \in Arrivals /\ Key \in Proposals /\ Key' = Key
        /\ \A a \in Arrivals : a # posting => chat'[a] = chat[a]
        /\ UNCHANGED <<proposed, posting, pend, taps, decisions, crossed, closed, restarts>>
    BY <1>0, <1>3 DEF SendKeyboard, switch, GateType, Key
  <2>2. /\ Unknown(posting) /\ chat[posting] = "none" /\ posting \notin proposed
        /\ Key \notin crossed => pend[Key] # NoEntry
    BY <2>1 DEF PostingIsSound
  <2>3. \/ poster' = "note" /\ chat'[posting] = "buttons"
        \/ poster' = "forget" /\ chat'[posting] \in {"stray", "none"}
    BY <1>3, <2>1, <2>2 DEF SendKeyboard, GateType
  <2>4. WaitingIsUntouched'
    BY <2>1, <2>2, <2>3, SamePlaces DEF WaitingIsUntouched, Waiting
  <2>5. PostingIsSound'
    BY <2>1, <2>2, <2>3, SamePlaces DEF PostingIsSound
  <2>6. VerdictIsDecided'
    BY <2>1, <2>2, <2>3 DEF VerdictIsDecided
  <2>7. NotForgotten'
    BY <2>1, <2>2, <2>3 DEF NotForgotten, Live, Key
  <2>8. QED
    BY <2>1, <2>4, <2>5, <2>6, <2>7, SameRest
<1>4. CASE NoteMessage
  <2> DEFINE old == IF pend[Key] = NoEntry THEN NoArrival ELSE pend[Key].arrival
  <2>1. /\ poster = "note" /\ posting \in Arrivals /\ Key \in Proposals
        /\ poster' = "idle" /\ posting' = NoArrival
        /\ UNCHANGED <<proposed, chat, taps, decisions, crossed, closed, restarts>>
    BY <1>0, <1>4 DEF NoteMessage, switch
  <2>2. NoArrival \notin Arrivals /\ NoArrival \notin proposed /\ ProposalOf[posting] = Key
    BY ApprovalAssumption DEF GateType, Key
  <2>3. pend' = [pend EXCEPT ![Key] = Entry(old, posting)]
    BY <1>4 DEF NoteMessage
  <2>4. old \in Arrivals \cup {NoArrival}
    BY <2>1 DEF GateType, Entries
  <2>5. /\ pend'[Key] # NoEntry /\ pend'[Key].arrival = old /\ pend'[Key].message = posting
        /\ \A p \in Proposals : p # Key => pend'[p] = pend[p]
    <3> HIDE DEF old
    <3>1. /\ Entry(old, posting) # NoEntry /\ Entry(old, posting).arrival = old
          /\ Entry(old, posting).message = posting
      BY <2>1, <2>4, EntryIsEntry
    <3>2. pend'[Key] = Entry(old, posting) /\ \A p \in Proposals : p # Key => pend'[p] = pend[p]
      BY <2>1, <2>3 DEF GateType
    <3>3. QED
      BY <3>1, <3>2
  <2>6. Unknown(posting) /\ (Key \notin crossed => pend[Key] # NoEntry)
    BY <2>1 DEF PostingIsSound
  <2>7. \A a \in Arrivals : /\ InPend(a)' <=> InPend(a)
                            /\ PendKnows(a)' => a = posting \/ PendKnows(a)
    BY <2>1, <2>2, <2>5, ArrivalFacts DEF InPend, PendKnows
  <2>8. \A a \in Arrivals : /\ Decided(a)' <=> Decided(a)
                            /\ DecisionKnows(a)' <=> DecisionKnows(a)
                            /\ \A t \in Taps : /\ Holds(t, a)' <=> Holds(t, a)
                                               /\ TapKnows(t, a)' <=> TapKnows(t, a)
    BY <2>1 DEF Decided, DecisionKnows, Holds, TapKnows, Live
  <2>9. WaitingIsUntouched'
    <3>1. \A a \in Arrivals : Waiting(a)' => Waiting(a) /\ a # posting
      BY <2>1, <2>2 DEF Waiting, PostingIsSound
    <3>2. QED
      BY <2>1, <2>7, <2>8, <3>1 DEF WaitingIsUntouched, Unregistered, Unknown
  <2>10. PostingIsSound'
    BY <2>1, <2>2 DEF PostingIsSound
  <2>11. KeysMatch'
    <3>1. old \in ArrivalsOf(Key) \cup {NoArrival}
      BY <2>1 DEF KeysMatch, Of
    <3>2. Of(pend'[Key], Key)
      BY <2>1, <2>2, <2>5, <3>1, ArrivalFacts DEF Of
    <3>3. QED
      BY <2>1, <2>5, <3>2 DEF KeysMatch
  <2>12. Whole'
    BY <2>1, <2>5, <2>6 DEF Whole
  <2>13. OnePlace'
    BY <2>1, <2>7, <2>8 DEF OnePlace
  <2>14. OneKnows'
    BY <2>1, <2>6, <2>7, <2>8 DEF OneKnows, Unknown
  <2>15. EditIsOfDecision' /\ VerdictIsDecided'
    BY <2>1 DEF EditIsOfDecision, VerdictIsDecided
  <2>16. NotForgotten'
    BY <2>1, <2>5, ArrivalFacts DEF NotForgotten, Live
  <2>17. QED
    BY <2>9, <2>10, <2>11, <2>12, <2>13, <2>14, <2>15, <2>16
<1>5. CASE ForgetProposal
  <2>1. /\ poster = "forget" /\ posting \in Arrivals /\ Key \in Proposals
        /\ poster' = "idle" /\ posting' = NoArrival
        /\ UNCHANGED <<proposed, chat, taps, decisions, crossed, restarts>>
        /\ closed' = closed \cup Showing(Key)
    BY <1>0, <1>5 DEF ForgetProposal, switch
  <2>2. NoArrival \notin Arrivals /\ NoArrival \notin proposed /\ posting \notin proposed
    BY ApprovalAssumption DEF GateType, PostingIsSound
  <2>3. /\ pend'[Key] = NoEntry
        /\ \A p \in Proposals : p # Key => pend'[p] = pend[p]
    BY <1>5, <2>1 DEF ForgetProposal, GateType
  <2>4. \A a \in Arrivals : /\ InPend(a)' => InPend(a)
                            /\ PendKnows(a)' => PendKnows(a)
    BY <2>3, ArrivalFacts DEF InPend, PendKnows
  <2>5. \A a \in Arrivals : /\ Decided(a)' <=> Decided(a)
                            /\ DecisionKnows(a)' <=> DecisionKnows(a)
                            /\ \A t \in Taps : /\ Holds(t, a)' <=> Holds(t, a)
                                               /\ TapKnows(t, a)' <=> TapKnows(t, a)
    BY <2>1 DEF Decided, DecisionKnows, Holds, TapKnows, Live
  <2>6. WaitingIsUntouched'
    BY <2>1, <2>2, <2>4, <2>5 DEF WaitingIsUntouched, Waiting, Unregistered, Unknown
  <2>7. PostingIsSound'
    BY <2>1, <2>2 DEF PostingIsSound
  <2>8. KeysMatch' /\ Whole'
    BY <2>1, <2>3 DEF KeysMatch, Whole
  <2>9. OnePlace' /\ OneKnows'
    BY <2>1, <2>4, <2>5 DEF OnePlace, OneKnows
  <2>10. EditIsOfDecision' /\ VerdictIsDecided'
    BY <2>1 DEF EditIsOfDecision, VerdictIsDecided
  <2>11. NotForgotten'
    BY <2>1, <2>3, ArrivalFacts DEF NotForgotten, Live, Showing
  <2>12. QED
    BY <2>6, <2>7, <2>8, <2>9, <2>10, <2>11
<1>6. ASSUME NEW t \in Taps, NEW a \in Arrivals, NEW approve \in BOOLEAN, Tap(t, a, approve)
      PROVE  GateRest'
  <2>1. /\ taps[t].stage = "unused"
        /\ UNCHANGED <<proposed, poster, posting, pend, chat, decisions, crossed, closed, restarts>>
    BY <1>6 DEF Tap, switch
  <2>2. /\ taps'[t].stage = "new" /\ taps'[t].key = ProposalOf[a] /\ taps'[t].held = NoEntry
        /\ \A u \in Taps : u # t => taps'[u] = taps[u]
    BY <1>6 DEF Tap, GateType
  <2>3. ProposalOf[a] # NoProposal
    BY ArrivalFacts, ApprovalAssumption
  <2>4. \A u \in Taps : Live(u)' <=> Live(u)
    BY <2>1, <2>2 DEF Live
  <2>5. \A u \in Taps : Live(u) => taps'[u] = taps[u]
    BY <2>1, <2>2 DEF Live
  <2>6. \A d \in decisions : d.tap \in Taps /\ d.tap # t
    BY <2>1 DEF GateType, KeysMatch
  <2>7. \A b \in Arrivals : /\ InPend(b)' <=> InPend(b)
                            /\ PendKnows(b)' <=> PendKnows(b)
                            /\ Decided(b)' <=> Decided(b)
                            /\ DecisionKnows(b)' <=> DecisionKnows(b)
    BY <2>1 DEF InPend, PendKnows, Decided, DecisionKnows
  <2>8. \A b \in Arrivals, u \in Taps : /\ Holds(u, b)' <=> Holds(u, b)
                                        /\ TapKnows(u, b)' <=> TapKnows(u, b)
    BY <2>4, <2>5 DEF Holds, TapKnows
  <2>9. \A b \in Arrivals : /\ Unregistered(b)' <=> Unregistered(b)
                            /\ Unknown(b)' <=> Unknown(b)
    BY <2>7, <2>8 DEF Unregistered, Unknown
  <2>10. WaitingIsUntouched'
    BY <2>1, <2>9 DEF WaitingIsUntouched, Waiting
  <2>11. PostingIsSound'
    BY <1>0, <2>1, <2>9 DEF PostingIsSound, Key
  <2>12. KeysMatch'
    BY <2>1, <2>2, <2>3, <2>6 DEF KeysMatch
  <2>13. Whole'
    BY <2>1, <2>2, <2>6 DEF Whole
  <2>14. OnePlace' /\ OneKnows'
    BY <2>1, <2>7, <2>8 DEF OnePlace, OneKnows
  <2>15. EditIsOfDecision' /\ VerdictIsDecided'
    BY <2>1, <2>2 DEF EditIsOfDecision, VerdictIsDecided
  <2>16. NotForgotten'
    BY <2>1, <2>4, <2>5 DEF NotForgotten
  <2>17. QED
    BY <2>10, <2>11, <2>12, <2>13, <2>14, <2>15, <2>16
<1>7. ASSUME NEW t \in Taps, TakeProposal(t) PROVE GateRest'
  <2>1. /\ taps[t].stage = "new"
        /\ UNCHANGED <<proposed, poster, posting, chat, decisions, closed, restarts>>
    BY <1>7 DEF TakeProposal, switch
  <2>2. taps[t].key \in Proposals /\ taps[t].held = NoEntry
    BY <2>1 DEF GateType, KeysMatch, TapStates
  <2>3. PICK h \in Entries \cup {NoEntry}, s \in {"publish", "done"} :
          h = pend[taps[t].key] /\ (s = "done" <=> h = NoEntry) /\ MoveTap(t, s, h)
    BY <1>7, <2>2 DEF TakeProposal, GateType
  <2>4. s \in TapStages
    BY <2>3, StageNames
  <2>5. /\ taps'[t].stage = s /\ taps'[t].held = h
        /\ \A u \in Taps : u # t => taps'[u] = taps[u]
        /\ \A u \in Taps : /\ taps'[u].key = taps[u].key
                           /\ taps'[u].approve = taps[u].approve
    BY <2>3, <2>4, MovedTap
  <2>6. /\ pend'[taps[t].key] = NoEntry
        /\ \A p \in Proposals : p # taps[t].key => pend'[p] = pend[p]
    BY <1>7, <2>2 DEF TakeProposal, GateType
  <2>7. /\ crossed \subseteq crossed'
        /\ pend[taps[t].key] # NoEntry /\ posting \in ArrivalsOf(taps[t].key)
             => taps[t].key \in crossed'
    BY <1>7 DEF TakeProposal
  <2>8. \A d \in decisions : d.tap \in Taps
    BY DEF GateType
  <2>9. \A u \in Taps : Live(u)' <=> Live(u) \/ (u = t /\ h # NoEntry)
    BY <2>1, <2>3, <2>5 DEF Live
  <2>10. h # NoEntry => Of(h, taps[t].key)
    BY <2>2, <2>3 DEF KeysMatch
  <2>11. \A a \in Arrivals :
            /\ InPend(a)' <=> InPend(a) /\ ProposalOf[a] # taps[t].key
            /\ PendKnows(a)' <=> PendKnows(a) /\ ProposalOf[a] # taps[t].key
    BY <2>6, ArrivalFacts DEF InPend, PendKnows
  <2>12. ASSUME NEW a \in Arrivals, NEW u \in Taps
         PROVE  /\ Holds(u, a)' <=> Holds(u, a) \/ (u = t /\ ProposalOf[a] = taps[t].key /\ InPend(a))
                /\ TapKnows(u, a)' <=> TapKnows(u, a)
                                       \/ (u = t /\ ProposalOf[a] = taps[t].key /\ PendKnows(a))
    <3>1. CASE u # t
      BY <2>5, <2>9, <3>1 DEF Holds, TapKnows
    <3>2. CASE u = t
      <4>1. ~Live(t) /\ (Live(t)' <=> h # NoEntry) /\ taps'[t].held = h
        BY <2>1, <2>5, <2>9 DEF Live
      <4>2. h # NoEntry /\ a \in {h.arrival, h.message} => ProposalOf[a] = taps[t].key
        BY <2>10, ArrivalFacts, ApprovalAssumption DEF Of
      <4>3. QED
        BY <2>3, <3>2, <4>1, <4>2 DEF Holds, TapKnows, InPend, PendKnows
    <3>3. QED
      BY <3>1, <3>2
  <2>13. \A a \in Arrivals : /\ Decided(a)' <=> Decided(a)
                             /\ DecisionKnows(a)' <=> DecisionKnows(a)
    BY <2>1 DEF Decided, DecisionKnows
  <2>14. \A a \in Arrivals : /\ Unregistered(a) => Unregistered(a)'
                             /\ Unknown(a) => Unknown(a)'
    BY <2>11, <2>12, <2>13 DEF Unregistered, Unknown
  <2>15. WaitingIsUntouched'
    BY <2>1, <2>14 DEF WaitingIsUntouched, Waiting
  <2>16. PostingIsSound'
    <3>1. ASSUME poster \in {"send", "note", "forget"}, Key \notin crossed'
          PROVE  pend'[Key] # NoEntry
      <4>1. pend[Key] # NoEntry
        BY <2>7, <3>1 DEF PostingIsSound
      <4>2. Key = taps[t].key => posting \in ArrivalsOf(taps[t].key)
        BY <1>0, <3>1, ArrivalFacts DEF Key
      <4>3. Key # taps[t].key
        BY <2>7, <3>1, <4>1, <4>2
      <4>4. QED
        BY <1>0, <2>6, <3>1, <4>1, <4>3
    <3>2. QED
      BY <1>0, <2>1, <2>14, <3>1 DEF PostingIsSound, Key
  <2>17. KeysMatch'
    BY <2>1, <2>2, <2>3, <2>5, <2>6, <2>8, <2>10 DEF KeysMatch
  <2>18. Whole'
    BY <2>1, <2>2, <2>3, <2>5, <2>6, <2>7, <2>8 DEF Whole
  <2>19. OnePlace'
    BY <2>1, <2>11, <2>12, <2>13 DEF OnePlace
  <2>20. OneKnows'
    BY <2>1, <2>11, <2>12, <2>13 DEF OneKnows
  <2>21. EditIsOfDecision' /\ VerdictIsDecided'
    BY <2>1, <2>3, <2>5 DEF EditIsOfDecision, VerdictIsDecided
  <2>22. NotForgotten'
    <3> SUFFICES ASSUME NEW a \in Arrivals, restarts = 0, ProposalOf[a] \notin crossed',
                        chat[a] = "buttons", a \notin closed
                 PROVE  \/ pend'[ProposalOf[a]] # NoEntry
                        \/ \E u \in Taps : Live(u)' /\ taps'[u].key = ProposalOf[a]
      BY <2>1 DEF NotForgotten
    <3>1. \/ pend[ProposalOf[a]] # NoEntry
          \/ \E u \in Taps : Live(u) /\ taps[u].key = ProposalOf[a]
      BY <2>7 DEF NotForgotten
    <3>2. CASE pend[ProposalOf[a]] # NoEntry /\ ProposalOf[a] = taps[t].key
      BY <2>3, <2>5, <2>9, <3>2
    <3>3. QED
      BY <2>5, <2>6, <2>9, <3>1, <3>2, ArrivalFacts
  <2>23. QED
    BY <2>15, <2>16, <2>17, <2>18, <2>19, <2>20, <2>21, <2>22
<1>8. ASSUME NEW t \in Taps, PublishDecision(t) PROVE GateRest'
  <2>1. /\ taps[t].stage = "publish"
        /\ UNCHANGED <<proposed, poster, posting, pend, chat, crossed, restarts>>
    BY <1>8 DEF PublishDecision, switch
  <2>2. taps[t].key \in Proposals /\ taps[t].held # NoEntry /\ taps[t].held \in Entries
    BY <2>1 DEF GateType, KeysMatch, TapStates
  <2>3. /\ Published(t).tap = t /\ Published(t).of = taps[t].held
        /\ Published(t).approved = taps[t].approve
    BY DEF Published
  <2>4. PICK s \in {"edit", "restore"} :
          /\ MoveTap(t, s, taps[t].held)
          /\ s = "edit" => /\ decisions' = decisions \cup {Published(t)}
                           /\ closed' = closed \cup Showing(taps[t].key)
          /\ s = "restore" => UNCHANGED <<decisions, closed>>
    BY <1>8 DEF PublishDecision
  <2>5. s \in TapStages
    BY <2>4, StageNames
  <2>6. /\ taps'[t].stage = s /\ taps'[t].held = taps[t].held
        /\ \A u \in Taps : u # t => taps'[u] = taps[u]
        /\ \A u \in Taps : /\ taps'[u].key = taps[u].key
                           /\ taps'[u].approve = taps[u].approve
    BY <2>2, <2>4, <2>5, MovedTap
  <2>7. /\ \A d \in decisions' : d \in decisions \/ (s = "edit" /\ d = Published(t))
        /\ s = "edit" => Published(t) \in decisions'
        /\ decisions \subseteq decisions'
    BY <2>4
  <2>8. \A d \in decisions : d.tap \in Taps
    BY DEF GateType
  <2>9. \A u \in Taps : /\ Live(u)' <=> Live(u) /\ (u = t => s = "restore")
                        /\ taps'[u].held = taps[u].held
    BY <2>1, <2>4, <2>6 DEF Live
  <2>10. Live(t)
    BY <2>1 DEF Live
  <2>11. \A a \in Arrivals : /\ InPend(a)' <=> InPend(a)
                             /\ PendKnows(a)' <=> PendKnows(a)
    BY <2>1 DEF InPend, PendKnows
  <2>12. \A a \in Arrivals, u \in Taps :
            /\ Holds(u, a)' <=> Holds(u, a) /\ (u = t => s = "restore")
            /\ TapKnows(u, a)' <=> TapKnows(u, a) /\ (u = t => s = "restore")
    BY <2>9 DEF Holds, TapKnows
  <2>13. \A a \in Arrivals :
            /\ Decided(a)' <=> Decided(a) \/ (s = "edit" /\ Holds(t, a))
            /\ DecisionKnows(a)' <=> DecisionKnows(a) \/ (s = "edit" /\ TapKnows(t, a))
    BY <2>3, <2>7, <2>10 DEF Decided, DecisionKnows, Holds, TapKnows
  <2>14. \A a \in Arrivals : /\ Unregistered(a) => Unregistered(a)'
                             /\ Unknown(a) => Unknown(a)'
    BY <2>11, <2>12, <2>13 DEF Unregistered, Unknown
  <2>15. WaitingIsUntouched'
    BY <2>1, <2>14 DEF WaitingIsUntouched, Waiting
  <2>16. PostingIsSound'
    BY <1>0, <2>1, <2>14 DEF PostingIsSound, Key
  <2>17. KeysMatch'
    <3>1. \A d \in decisions' : taps'[d.tap].stage # "unused" /\ Of(d.of, taps'[d.tap].key)
      BY <2>1, <2>2, <2>3, <2>4, <2>6, <2>7, <2>8 DEF KeysMatch
    <3>2. QED
      BY <2>1, <2>2, <2>4, <2>6, <2>9, <3>1 DEF KeysMatch
  <2>18. Whole'
    <3>1. \A d \in decisions' : taps'[d.tap].key \notin crossed => d.of.arrival # NoArrival
      BY <2>2, <2>3, <2>6, <2>7, <2>8 DEF Whole
    <3>2. QED
      BY <2>1, <2>6, <2>9, <3>1 DEF Whole
  <2>19. OnePlace'
    <3> SUFFICES ASSUME NEW a \in Arrivals
                 PROVE  /\ InPend(a)' => ~Decided(a)' /\ \A u \in Taps : ~Holds(u, a)'
                        /\ \A u \in Taps : Holds(u, a)' =>
                               ~Decided(a)' /\ \A v \in Taps : Holds(v, a)' => v = u
                        /\ \A d, e \in decisions' :
                               d.of.arrival = a /\ e.of.arrival = a => d = e
      BY DEF OnePlace
    <3>1. \A d, e \in decisions' : d.of.arrival = a /\ e.of.arrival = a => d = e
      <4>1. \A d \in decisions : d.of.arrival = a => ~Holds(t, a)
        BY DEF OnePlace, Decided
      <4>2. Published(t).of.arrival = a => Holds(t, a)
        BY <2>3, <2>10 DEF Holds
      <4>3. \A d, e \in decisions : d.of.arrival = a /\ e.of.arrival = a => d = e
        BY DEF OnePlace
      <4>4. QED
        BY <2>7, <4>1, <4>2, <4>3
    <3>2. QED
      BY <2>4, <2>11, <2>12, <2>13, <3>1 DEF OnePlace
  <2>20. OneKnows'
    <3> SUFFICES ASSUME NEW a \in Arrivals
                 PROVE  /\ PendKnows(a)' => ~DecisionKnows(a)' /\ \A u \in Taps : ~TapKnows(u, a)'
                        /\ \A u \in Taps : TapKnows(u, a)' =>
                               ~DecisionKnows(a)' /\ \A v \in Taps : TapKnows(v, a)' => v = u
                        /\ \A d, e \in decisions' :
                               d.of.message = a /\ e.of.message = a => d = e
      BY DEF OneKnows
    <3>1. \A d, e \in decisions' : d.of.message = a /\ e.of.message = a => d = e
      <4>1. \A d \in decisions : d.of.message = a => ~TapKnows(t, a)
        BY DEF OneKnows, DecisionKnows
      <4>2. Published(t).of.message = a => TapKnows(t, a)
        BY <2>3, <2>10 DEF TapKnows
      <4>3. \A d, e \in decisions : d.of.message = a /\ e.of.message = a => d = e
        BY DEF OneKnows
      <4>4. QED
        BY <2>7, <4>1, <4>2, <4>3
    <3>2. QED
      BY <2>4, <2>11, <2>12, <2>13, <3>1 DEF OneKnows
  <2>21. EditIsOfDecision'
    BY <2>3, <2>4, <2>6, <2>7 DEF EditIsOfDecision
  <2>22. VerdictIsDecided'
    BY <2>1, <2>7 DEF VerdictIsDecided
  <2>23. NotForgotten'
    <3> SUFFICES ASSUME NEW a \in Arrivals, restarts = 0, ProposalOf[a] \notin crossed,
                        chat[a] = "buttons", a \notin closed'
                 PROVE  \/ pend[ProposalOf[a]] # NoEntry
                        \/ \E u \in Taps : Live(u)' /\ taps'[u].key = ProposalOf[a]
      BY <2>1 DEF NotForgotten
    <3>1. s = "edit" => ProposalOf[a] # taps[t].key
      BY <2>4, ArrivalFacts DEF Showing
    <3>2. \/ pend[ProposalOf[a]] # NoEntry
          \/ \E u \in Taps : Live(u) /\ taps[u].key = ProposalOf[a]
      BY <2>4 DEF NotForgotten
    <3>3. QED
      BY <2>4, <2>6, <2>9, <3>1, <3>2
  <2>24. QED
    BY <2>15, <2>16, <2>17, <2>18, <2>19, <2>20, <2>21, <2>22, <2>23
<1>9. ASSUME NEW t \in Taps, RestoreProposal(t) PROVE GateRest'
  <2>1. /\ taps[t].stage = "restore"
        /\ UNCHANGED <<proposed, poster, posting, chat, decisions, crossed, closed, restarts>>
    BY <1>9 DEF RestoreProposal, switch
  <2>2. taps[t].key \in Proposals /\ taps[t].held # NoEntry
    BY <2>1, ApprovalAssumption DEF GateType, KeysMatch, TapStates
  <2>3. /\ taps'[t].stage = "done" /\ taps'[t].held = NoEntry
        /\ \A u \in Taps : u # t => taps'[u] = taps[u]
        /\ \A u \in Taps : /\ taps'[u].key = taps[u].key
                           /\ taps'[u].approve = taps[u].approve
    BY <1>9, StageNames, MovedTap DEF RestoreProposal
  <2>4. /\ pend'[taps[t].key] = taps[t].held
        /\ \A p \in Proposals : p # taps[t].key => pend'[p] = pend[p]
    BY <1>9, <2>2 DEF RestoreProposal, GateType
  <2>5. Of(taps[t].held, taps[t].key)
    BY <2>2 DEF KeysMatch
  <2>6. \A d \in decisions : d.tap \in Taps
    BY DEF GateType
  <2>7. /\ \A u \in Taps : Live(u)' <=> Live(u) /\ u # t
        /\ Live(t)
    BY <2>1, <2>3 DEF Live
  <2>8. \A a \in Arrivals, u \in Taps : /\ Holds(u, a)' <=> Holds(u, a) /\ u # t
                                        /\ TapKnows(u, a)' <=> TapKnows(u, a) /\ u # t
    BY <2>3, <2>7 DEF Holds, TapKnows
  <2>9. \A a \in Arrivals : /\ InPend(a)' => Holds(t, a) \/ InPend(a)
                            /\ PendKnows(a)' => TapKnows(t, a) \/ PendKnows(a)
    BY <2>2, <2>4, <2>7, ArrivalFacts DEF InPend, PendKnows, Holds, TapKnows
  <2>10. \A a \in Arrivals : /\ Decided(a)' <=> Decided(a)
                             /\ DecisionKnows(a)' <=> DecisionKnows(a)
    BY <2>1 DEF Decided, DecisionKnows
  <2>11. \A a \in Arrivals : /\ Unregistered(a) => Unregistered(a)'
                             /\ Unknown(a) => Unknown(a)'
    BY <2>8, <2>9, <2>10 DEF Unregistered, Unknown
  <2>12. WaitingIsUntouched'
    BY <2>1, <2>11 DEF WaitingIsUntouched, Waiting
  <2>13. PostingIsSound'
    BY <1>0, <2>1, <2>2, <2>4, <2>11 DEF PostingIsSound, Key
  <2>14. KeysMatch'
    BY <2>1, <2>2, <2>3, <2>4, <2>5, <2>6 DEF KeysMatch
  <2>15. Whole'
    BY <2>1, <2>2, <2>3, <2>4, <2>6 DEF Whole
  <2>16. OnePlace'
    BY <2>1, <2>8, <2>9, <2>10 DEF OnePlace
  <2>17. OneKnows'
    BY <2>1, <2>8, <2>9, <2>10 DEF OneKnows
  <2>18. EditIsOfDecision' /\ VerdictIsDecided'
    BY <2>1, <2>3 DEF EditIsOfDecision, VerdictIsDecided
  <2>19. NotForgotten'
    BY <2>1, <2>2, <2>3, <2>4, <2>7, ArrivalFacts DEF NotForgotten
  <2>20. QED
    BY <2>12, <2>13, <2>14, <2>15, <2>16, <2>17, <2>18, <2>19
<1>10. ASSUME NEW t \in Taps, EditMessage(t) PROVE GateRest'
  <2>1. /\ taps[t].stage = "edit"
        /\ UNCHANGED <<proposed, poster, posting, pend, decisions, crossed, closed, restarts>>
    BY <1>10 DEF EditMessage, switch
  <2>2. taps[t].key \in Proposals /\ taps[t].held # NoEntry /\ taps[t].approve \in BOOLEAN
    BY <2>1 DEF GateType, KeysMatch, TapStates
  <2>3. /\ taps'[t].stage = "done" /\ taps'[t].held = NoEntry
        /\ \A u \in Taps : u # t => taps'[u] = taps[u]
        /\ \A u \in Taps : /\ taps'[u].key = taps[u].key
                           /\ taps'[u].approve = taps[u].approve
    <3>1. MoveTap(t, "done", NoEntry) /\ GateType
      BY <1>10 DEF EditMessage
    <3>2. QED
      BY <3>1, StageNames, MovedTap
  <2>4. \A a \in Arrivals :
            \/ chat'[a] = chat[a]
            \/ /\ a = taps[t].held.message
               /\ chat'[a] = IF taps[t].approve THEN "approved" ELSE "rejected"
    BY <1>10 DEF EditMessage, GateType
  <2>5. PICK d \in decisions : d.of = taps[t].held /\ d.approved = taps[t].approve
    BY <2>1 DEF EditIsOfDecision
  <2>6. \A e \in decisions : e.tap \in Taps
    BY DEF GateType
  <2>7. \A u \in Taps : (Live(u)' <=> Live(u)) /\ (Live(u) => taps'[u] = taps[u])
    BY <2>1, <2>3 DEF Live
  <2>8. \A a \in Arrivals : /\ InPend(a)' <=> InPend(a)
                            /\ PendKnows(a)' <=> PendKnows(a)
                            /\ Decided(a)' <=> Decided(a)
                            /\ DecisionKnows(a)' <=> DecisionKnows(a)
    BY <2>1 DEF InPend, PendKnows, Decided, DecisionKnows
  <2>9. \A a \in Arrivals, u \in Taps : /\ Holds(u, a)' <=> Holds(u, a)
                                        /\ TapKnows(u, a)' <=> TapKnows(u, a)
    BY <2>7 DEF Holds, TapKnows
  <2>10. \A a \in Arrivals : /\ Unregistered(a)' <=> Unregistered(a)
                             /\ Unknown(a)' <=> Unknown(a)
    BY <2>8, <2>9 DEF Unregistered, Unknown
  <2>11. \A a \in Arrivals : Unknown(a) => chat'[a] = chat[a]
    BY <2>4, <2>5 DEF Unknown, DecisionKnows
  <2>12. WaitingIsUntouched'
    BY <2>1, <2>10, <2>11 DEF WaitingIsUntouched, Waiting
  <2>13. PostingIsSound'
    BY <1>0, <2>1, <2>10, <2>11 DEF PostingIsSound, Key
  <2>14. KeysMatch' /\ Whole'
    BY <2>1, <2>2, <2>3, <2>6 DEF KeysMatch, Whole
  <2>15. OnePlace' /\ OneKnows'
    BY <2>1, <2>8, <2>9 DEF OnePlace, OneKnows
  <2>16. EditIsOfDecision'
    BY <2>1, <2>3 DEF EditIsOfDecision
  <2>17. VerdictIsDecided'
    BY <2>1, <2>2, <2>4, <2>5 DEF VerdictIsDecided
  <2>18. NotForgotten'
    BY <2>1, <2>3, <2>4, <2>7 DEF NotForgotten
  <2>19. QED
    BY <2>12, <2>13, <2>14, <2>15, <2>16, <2>17, <2>18
<1>11. CASE Restart
  <2>1. /\ poster' = "idle" /\ posting' = NoArrival
        /\ \A p \in Proposals : pend'[p] = NoEntry
        /\ UNCHANGED <<proposed, chat, decisions, crossed, closed>>
    BY <1>11 DEF Restart
  <2>2. \A t \in Taps :
             /\ taps'[t].held = NoEntry
             /\ taps'[t].stage = "unused" <=> taps[t].stage = "unused"
             /\ taps'[t].stage \in {"unused", "new", "done"}
             /\ taps'[t].key = taps[t].key
    BY <1>11, RestartedTaps
  <2>3. NoArrival \notin Arrivals /\ proposed \subseteq Arrivals
    BY ApprovalAssumption DEF GateType
  <2>4. \A d \in decisions : d.tap \in Taps
    BY DEF GateType
  <2>5. restarts' # 0
    <3>1. restarts' = restarts + 1
      BY <1>11 DEF Restart
    <3>2. restarts \in Nat
      BY ApprovalAssumption DEF SwitchType
    <3>3. QED
      BY <3>1, <3>2
  <2>6. \A a \in Arrivals : /\ ~InPend(a)' /\ ~PendKnows(a)'
                            /\ \A t \in Taps : ~Holds(t, a)' /\ ~TapKnows(t, a)'
                            /\ Decided(a)' <=> Decided(a)
                            /\ DecisionKnows(a)' <=> DecisionKnows(a)
    BY <2>1, <2>2, ArrivalFacts
    DEF InPend, PendKnows, Holds, TapKnows, Live, Decided, DecisionKnows
  <2>7. WaitingIsUntouched'
    BY <2>1, <2>3, <2>6 DEF WaitingIsUntouched, Waiting, Unregistered, Unknown
  <2>8. PostingIsSound'
    BY <2>1, <2>3 DEF PostingIsSound
  <2>9. KeysMatch' /\ Whole'
    BY <2>1, <2>2, <2>4 DEF KeysMatch, Whole
  <2>10. OnePlace' /\ OneKnows'
    BY <2>1, <2>6 DEF OnePlace, OneKnows
  <2>11. EditIsOfDecision' /\ VerdictIsDecided'
    BY <2>1, <2>2 DEF EditIsOfDecision, VerdictIsDecided
  <2>12. NotForgotten'
    BY <2>5 DEF NotForgotten
  <2>13. QED
    BY <2>7, <2>8, <2>9, <2>10, <2>11, <2>12
<1>12. ASSUME UNCHANGED gate, UNCHANGED restarts PROVE GateRest'
  <2>1. UNCHANGED <<proposed, poster, posting, pend, chat, taps, decisions, crossed, closed,
                    restarts>>
    BY <1>12 DEF gate
  <2>2. WaitingIsUntouched'
    BY <2>1, SamePlaces DEF WaitingIsUntouched, Waiting
  <2>3. PostingIsSound'
    BY <1>0, <2>1, SamePlaces DEF PostingIsSound, Key
  <2>4. VerdictIsDecided' /\ NotForgotten'
    BY <2>1 DEF VerdictIsDecided, NotForgotten, Live
  <2>5. QED
    BY <2>1, <2>2, <2>3, <2>4, SameRest
<1>13. QED
  BY <1>1, <1>2, <1>3, <1>4, <1>5, <1>6, <1>7, <1>8, <1>9, <1>10, <1>11, <1>12
  DEF Next, Poster, Handle, Execute, Command, SetHalted, PublishControl, Confirm, vars, gate
-----------------------------------------------------------------------------
(* The switch.                                                             *)

(* The invariant of the switch holds at the start.                          *)
LEMMA SwitchInit == Init => SwitchInv
<1> SUFFICES ASSUME Init PROVE SwitchInv
  OBVIOUS
<1>1. Cardinality(last) <= 1
  BY AtMostOneMember DEF Init
<1>2. SwitchType
  <2>1. commands \in [Commands -> [stage : {"unused", "new", "publish", "confirm", "done"},
                                   halt : BOOLEAN]]
    BY DEF Init, NoCommand
  <2>2. restarts \in 0 .. MaxRestarts
    BY ApprovalAssumption DEF Init
  <2>3. QED
    BY <1>1, <2>1, <2>2 DEF Init, SwitchType
<1>3. QED
  BY <1>2 DEF Init, SwitchInv, LastIsAlone, LastIsObeyed

(* What MoveCommand does to the command, and to the others.                *)
LEMMA MovedCommand ==
    ASSUME SwitchType, NEW c \in Commands,
           NEW s \in {"unused", "new", "publish", "confirm", "done"}, MoveCommand(c, s)
    PROVE  /\ commands' \in [Commands -> [stage : {"unused", "new", "publish", "confirm", "done"},
                                          halt : BOOLEAN]]
           /\ commands'[c].stage = s
           /\ commands'[c].halt = commands[c].halt
           /\ \A b \in Commands : b # c => commands'[b] = commands[b]
  BY DEF MoveCommand, SwitchType

(* Every step keeps the invariant of the switch.                            *)
LEMMA SwitchNext == SwitchInv /\ [Next]_vars => SwitchInv'
<1> SUFFICES ASSUME SwitchInv, [Next]_vars PROVE SwitchInv'
  OBVIOUS
<1> USE DEF SwitchInv
<1>1. ASSUME NEW c \in Commands, NEW h \in BOOLEAN, Command(c, h) PROVE SwitchInv'
  <2>1. /\ commands[c].stage = "unused"
        /\ UNCHANGED <<halted, restarts, control>>
    BY <1>1 DEF Command
  <2>2. /\ commands' \in [Commands -> [stage : {"unused", "new", "publish", "confirm", "done"},
                                       halt : BOOLEAN]]
        /\ commands'[c].stage = "new"
        /\ \A b \in Commands : b # c => commands'[b] = commands[b]
    BY <1>1 DEF Command, SwitchType
  <2>3. last' = {} \/ (last' = {c} /\ Quiet)
    BY <1>1 DEF Command
  <2>4. Cardinality(last') <= 1
    BY <2>3, AtMostOneMember
  <2>5. SwitchType'
    BY <2>1, <2>2, <2>3, <2>4 DEF SwitchType
  <2>6. LastIsAlone'
    BY <2>2, <2>3 DEF LastIsAlone, Quiet
  <2>7. LastIsObeyed'
    BY <2>2, <2>3 DEF LastIsObeyed
  <2>8. QED
    BY <2>5, <2>6, <2>7
<1>2. ASSUME NEW c \in Commands, SetHalted(c) PROVE SwitchInv'
  <2>1. /\ commands[c].stage = "new" /\ halted' = commands[c].halt
        /\ UNCHANGED <<restarts, last, control>>
    BY <1>2 DEF SetHalted
  <2>2. /\ commands' \in [Commands -> [stage : {"unused", "new", "publish", "confirm", "done"},
                                       halt : BOOLEAN]]
        /\ commands'[c].stage = "publish" /\ commands'[c].halt = commands[c].halt
        /\ \A b \in Commands : b # c => commands'[b] = commands[b]
    BY <1>2, MovedCommand DEF SetHalted
  <2>3. commands[c].halt \in BOOLEAN
    BY DEF SwitchType
  <2>4. restarts = 0 => \A b \in last : b = c
    BY <2>1 DEF LastIsAlone
  <2>5. SwitchType'
    BY <2>1, <2>2, <2>3 DEF SwitchType
  <2>6. LastIsAlone'
    BY <2>1, <2>2, <2>4 DEF LastIsAlone
  <2>7. LastIsObeyed'
    BY <2>1, <2>2, <2>4 DEF LastIsObeyed
  <2>8. QED
    BY <2>5, <2>6, <2>7
<1>3. ASSUME NEW c \in Commands, PublishControl(c) PROVE SwitchInv'
  <2>1. /\ commands[c].stage = "publish"
        /\ \/ control' = commands[c].halt /\ last' = last
           \/ control' = control /\ last' = last \ {c}
        /\ UNCHANGED <<halted, restarts>>
    BY <1>3 DEF PublishControl
  <2>2. /\ commands' \in [Commands -> [stage : {"unused", "new", "publish", "confirm", "done"},
                                       halt : BOOLEAN]]
        /\ commands'[c].stage = "confirm" /\ commands'[c].halt = commands[c].halt
        /\ \A b \in Commands : b # c => commands'[b] = commands[b]
    BY <1>3, MovedCommand DEF PublishControl
  <2>3. commands[c].halt \in BOOLEAN
    BY DEF SwitchType
  <2>4. restarts = 0 => \A b \in last : b = c
    BY <2>1 DEF LastIsAlone
  <2>5. \A b, d \in last' : b = d
    BY <2>1 DEF LastIsAlone
  <2>6. Cardinality(last') <= 1
    BY <2>5, AtMostOneMember
  <2>7. SwitchType'
    BY <2>1, <2>2, <2>3, <2>6 DEF SwitchType
  <2>8. LastIsAlone'
    BY <2>1, <2>2, <2>4 DEF LastIsAlone
  <2>9. LastIsObeyed'
    BY <2>1, <2>2, <2>4 DEF LastIsObeyed
  <2>10. QED
    BY <2>7, <2>8, <2>9
<1>4. ASSUME NEW c \in Commands, Confirm(c) PROVE SwitchInv'
  <2>1. /\ commands[c].stage = "confirm"
        /\ UNCHANGED <<halted, restarts, last, control>>
    BY <1>4 DEF Confirm
  <2>2. /\ commands' \in [Commands -> [stage : {"unused", "new", "publish", "confirm", "done"},
                                       halt : BOOLEAN]]
        /\ commands'[c].stage = "done" /\ commands'[c].halt = commands[c].halt
        /\ \A b \in Commands : b # c => commands'[b] = commands[b]
    BY <1>4, MovedCommand DEF Confirm
  <2>3. SwitchType'
    BY <2>1, <2>2 DEF SwitchType
  <2>4. LastIsAlone'
    BY <2>1, <2>2 DEF LastIsAlone
  <2>5. LastIsObeyed'
    <3> SUFFICES ASSUME restarts = 0, NEW b \in last
                 PROVE  /\ halted = commands'[b].halt /\ control = commands'[b].halt
                        /\ commands'[b].stage # "unused"
      BY <2>1 DEF LastIsObeyed
    <3>1. b \in Commands
      BY DEF SwitchType
    <3>2. CASE b = c
      BY <2>1, <2>2, <3>2 DEF LastIsObeyed
    <3>3. CASE b # c
      BY <2>1, <2>2, <3>1, <3>3 DEF LastIsAlone, LastIsObeyed
    <3>4. QED
      BY <3>2, <3>3
  <2>6. QED
    BY <2>3, <2>4, <2>5
<1>5. CASE Restart
  <2>1. /\ restarts < MaxRestarts /\ restarts' = restarts + 1 /\ halted' = FALSE
        /\ UNCHANGED <<last, control>>
    BY <1>5 DEF Restart
  <2>2. PICK again \in SUBSET {c \in Commands : commands[c].stage \notin {"unused", "done"}} :
          commands' = [c \in Commands |->
                        IF commands[c].stage = "unused" THEN commands[c]
                        ELSE [commands[c] EXCEPT !.stage = IF c \in again THEN "new" ELSE "done"]]
    BY <1>5 DEF Restart
  <2>3. commands' \in [Commands -> [stage : {"unused", "new", "publish", "confirm", "done"},
                                    halt : BOOLEAN]]
    BY <2>2 DEF SwitchType
  <2>4. restarts' \in 0 .. MaxRestarts /\ restarts' # 0
    BY <2>1, ApprovalAssumption DEF SwitchType
  <2>5. SwitchType'
    BY <2>1, <2>3, <2>4 DEF SwitchType
  <2>6. QED
    BY <2>1, <2>4, <2>5 DEF LastIsAlone, LastIsObeyed
<1>6. ASSUME UNCHANGED switch PROVE SwitchInv'
  BY <1>6 DEF switch, SwitchType, LastIsAlone, LastIsObeyed
<1>7. QED
  BY <1>1, <1>2, <1>3, <1>4, <1>5, <1>6
  DEF Next, Poster, Handle, Execute, OnProposal, Register, SendKeyboard, NoteMessage,
      ForgetProposal, Tap, TakeProposal, PublishDecision, RestoreProposal, EditMessage,
      vars, switch
-----------------------------------------------------------------------------
(* What the invariants imply.                                              *)

(* Every step keeps the invariant of the gate.                              *)
LEMMA GateNext == GateInv /\ SwitchInv /\ [Next]_vars => GateInv'
  BY GateNextType, GateNextRest DEF GateInv, GateRest, SwitchInv

(* What Inv says of decisions follows: an entry is in the map, in one hand  *)
(* or gone.                                                                 *)
LEMMA GateInvImpliesInv == GateInv /\ SwitchInv => Inv
<1> SUFFICES ASSUME GateInv, SwitchInv PROVE Inv
  OBVIOUS
<1>1. \A d \in decisions : /\ d.of.arrival \in Arrivals \cup {NoArrival}
                          /\ d.tap \in Taps
  BY DEF GateInv, GateType, Entries
<1>2. DecidedOnce
  BY <1>1 DEF GateInv, GateRest, OnePlace, DecidedOnce
<1>3. DecisionsAreWhole
  BY <1>1 DEF GateInv, GateRest, KeysMatch, Of, Whole, DecisionsAreWhole
<1>4. QED
  BY <1>2, <1>3 DEF Inv, TypeOK, GateInv, SwitchInv

(* So does that an undecided proposal can still be decided,                 *)
LEMMA GateInvImpliesStaysDecidable == GateInv => StaysDecidable
<1> SUFFICES ASSUME GateInv, NEW a \in Arrivals, restarts = 0, ProposalOf[a] \notin crossed,
                    chat[a] = "buttons", a \notin closed
             PROVE  LET p == ProposalOf[a] IN
                    \/ pend[p] # NoEntry /\ pend[p].arrival \in ArrivalsOf(p)
                    \/ \E t \in Taps : taps[t].key = p /\ taps[t].stage \in {"publish", "restore"}
  BY DEF StaysDecidable
<1>1. \/ pend[ProposalOf[a]] # NoEntry
      \/ \E t \in Taps : Live(t) /\ taps[t].key = ProposalOf[a]
  BY DEF GateInv, GateRest, NotForgotten
<1>2. pend[ProposalOf[a]] # NoEntry =>
          pend[ProposalOf[a]].arrival \in ArrivalsOf(ProposalOf[a])
  BY ArrivalFacts DEF GateInv, GateRest, KeysMatch, Of, Whole
<1>3. QED
  BY <1>1, <1>2 DEF Live

(* and that a verdict on show was published.                                *)
LEMMA GateInvImpliesVerdict == GateInv => ShownVerdictIsTrue
<1> SUFFICES ASSUME GateInv, NEW a \in Arrivals, chat[a] \in {"approved", "rejected"}
             PROVE  \E d \in decisions : /\ {e \in decisions : e.of.message = a} = {d}
                                         /\ d.approved = (chat[a] = "approved")
  BY DEF ShownVerdictIsTrue
<1>1. PICK d \in decisions : d.of.message = a /\ d.approved = (chat[a] = "approved")
  BY DEF GateInv, GateRest, VerdictIsDecided
<1>2. {e \in decisions : e.of.message = a} = {d}
  BY <1>1 DEF GateInv, GateRest, OneKnows
<1>3. QED
  BY <1>1, <1>2

(* Where no command is on its way, the last one confirmed is in force.      *)
LEMMA SwitchInvImpliesLast == SwitchInv => LastCommandStands
<1> SUFFICES ASSUME SwitchInv, restarts = 0, Quiet, NEW c \in last
             PROVE  halted = commands[c].halt /\ control = commands[c].halt
  BY DEF LastCommandStands
<1>1. c \in Commands
  BY DEF SwitchInv, SwitchType
<1>2. commands[c].stage = "done"
  BY <1>1 DEF SwitchInv, LastIsObeyed, Quiet
<1>3. QED
  BY <1>2 DEF SwitchInv, LastIsObeyed
-----------------------------------------------------------------------------
(* The gate is well typed, what an arrival registered is decided at most   *)
(* once, and a decision carries the proposal that was tapped unless a tap  *)
(* took it while it was being posted: however the poster, the taps and     *)
(* restarts interleave in OnProposal and HandleCallback, and however often *)
(* a proposal arrives.                                                     *)
THEOREM ApprovalKeepsInv == Spec => []Inv
  BY GateInit, GateNext, SwitchInit, SwitchNext, GateInvImpliesInv, PTL DEF Spec

(* A message that shows its buttons can be decided until its proposal was, *)
(* or a repeat of it could not be posted, although HandleCallback takes    *)
(* the entry before it publishes and may put it back over a newer one.     *)
THEOREM ApprovalStaysDecidable == Spec => []StaysDecidable
  BY GateInit, GateNext, SwitchInit, SwitchNext, GateInvImpliesStaysDecidable, PTL
  DEF Spec

(* What a message shows is the one decision published for it, early taps   *)
(* and repeats included.                                                   *)
THEOREM ApprovalShowsTheVerdict == Spec => []ShownVerdictIsTrue
  BY GateInit, GateNext, SwitchInit, SwitchNext, GateInvImpliesVerdict, PTL DEF Spec

(* The last of the commands given one after the other stands, in           *)
(* HandleCommand and on control.halt.                                      *)
THEOREM ApprovalObeysTheLastCommand == Spec => []LastCommandStands
  BY SwitchInit, SwitchNext, SwitchInvImpliesLast, PTL DEF Spec
=============================================================================
