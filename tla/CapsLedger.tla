----------------------------- MODULE CapsLedger -----------------------------
(***************************************************************************)
(* The trader's hard caps (services/trader/internal/caps): a ledger of     *)
(* what has been committed, and the operations Reserve and Release, each   *)
(* run under the mutex of Caps and therefore one step.  Amounts are whole  *)
(* units of money and days are numbered from 1; day 0 is the empty dayKey  *)
(* of a ledger that was never rolled.                                      *)
(***************************************************************************)
EXTENDS Integers

CONSTANTS
    MaxPerTrade,       \* caps.maxPerTrade
    MaxPerDay,         \* caps.maxPerDay
    MaxOpenExposure    \* caps.maxOpenExposure

(* The loader of the configuration refuses a cap that is not positive.     *)
ASSUME CapsAssumption ==
    /\ MaxPerTrade \in Nat \ {0}
    /\ MaxPerDay \in Nat \ {0}
    /\ MaxOpenExposure \in Nat \ {0}

Ledger == [dayKey : Nat, daySpent : Nat, openExposure : Int]

EmptyLedger == [dayKey |-> 0, daySpent |-> 0, openExposure |-> 0]

(* Buys add to the net exposure, sells subtract from it.                   *)
signed(size, buy) == IF buy THEN size ELSE -size

(* The daily spend restarts only when the clock shows a later day than the *)
(* ledger's: a clock that steps back does not reopen the budget.           *)
rollDay(l, today) ==
    IF today > l.dayKey
    THEN [dayKey |-> today, daySpent |-> 0, openExposure |-> l.openExposure]
    ELSE l

(* Mutants of Allowed: the daily check made on what was spent before the   *)
(* order; the exposure check forgotten.                                    *)
AllowedOffByOne(l, size, buy) ==
    size <= MaxPerTrade /\ l.daySpent <= MaxPerDay
AllowedAnyExposure(l, size, buy) ==
    size <= MaxPerTrade /\ l.daySpent + size <= MaxPerDay

(* The check of Reserve on a ledger already rolled to the current day.     *)
Allowed(l, size, buy) ==
    /\ size <= MaxPerTrade
    /\ l.daySpent + size <= MaxPerDay
    /\ buy => l.openExposure + size <= MaxOpenExposure

(* The ledger Reserve commits once the check has passed.                   *)
Committed(l, size, buy) ==
    [dayKey |-> l.dayKey,
     daySpent |-> l.daySpent + size,
     openExposure |-> l.openExposure + signed(size, buy)]

(* Release does not roll the day: it takes the amount off whatever day the *)
(* ledger is on, and stops at zero.                                        *)
Released(l, size, buy) ==
    [dayKey |-> l.dayKey,
     daySpent |-> IF l.daySpent < size THEN 0 ELSE l.daySpent - size,
     openExposure |-> l.openExposure - signed(size, buy)]
=============================================================================
