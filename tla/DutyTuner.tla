------------------------------ MODULE DutyTuner ------------------------------
(***************************************************************************)
(* The search of a core's activity thread for the smallest duty that keeps *)
(* the core out of its powered-down idle states                            *)
(* (engine/src/control/machine_keeper/tuner.rs).  Each tuning window the   *)
(* thread reports how often the core powered down.  How much duty the core *)
(* needs is external and may change, and so may a counter read fail, which *)
(* the thread reports as a very large count (mod.rs:297).                  *)
(***************************************************************************)
EXTENDS Integers

CONSTANTS
    Step,           \* DUTY_STEP
    Maximum,        \* maximum duty
    Initial,        \* initial duty
    Needs,          \* the duties the core may need
    MaxDisturbances \* bound on changes of the need and on failed reads

ASSUME TunerAssumption ==
    /\ Step \in Nat \ {0}
    /\ Maximum \in Nat
    /\ Initial \in 0..Maximum
    /\ Needs \subseteq Nat
    /\ MaxDisturbances \in Nat

VARIABLES
    current, lowest_zero, settled,  \* DutyTuner
    duty,                           \* SharedState.duty, the duty applied
    need,                           \* least duty with no powered-down entry
    steady,                         \* no disturbance since the search began
    disturbances

vars == <<current, lowest_zero, settled, duty, need, steady, disturbances>>

None == -1

Minimum == IF Step < Maximum THEN Step ELSE Maximum

Lowered(d) == IF d - Step > Minimum THEN d - Step ELSE Minimum

(* Seeded defect: the maximum does not bound a raise.                      *)
RaisedFreely(d) == d + Step

Raised(d) == IF d + Step < Maximum THEN d + Step ELSE Maximum

Init ==
    /\ current = (IF Initial < Minimum THEN Minimum ELSE Initial)
    /\ lowest_zero = None /\ settled = FALSE
    /\ duty = Initial
    /\ need \in Needs
    /\ steady = TRUE /\ disturbances = 0

-----------------------------------------------------------------------------
(* The branches of observe, for a window without a powered-down entry ...  *)

KeepSettled == UNCHANGED <<current, lowest_zero, settled>>

(* Seeded defect: the search ends at the first duty that was enough.       *)
SettleAtOnce ==
    /\ lowest_zero' = current
    /\ settled' = TRUE
    /\ UNCHANGED current

LowerOrSettle ==
    /\ lowest_zero' = current
    /\ IF current > Minimum
       THEN current' = Lowered(current) /\ UNCHANGED settled
       ELSE settled' = TRUE /\ UNCHANGED current

(* ... and for one with some.                                              *)

(* Seeded defect: the search is reopened with the old bound still there.   *)
ReopenKeepingBound ==
    /\ settled' = FALSE
    /\ current' = Raised(current)
    /\ UNCHANGED lowest_zero

Reopen ==
    /\ lowest_zero' = None /\ settled' = FALSE
    /\ current' = Raised(current)

ReturnToLowest ==
    /\ current' = lowest_zero
    /\ settled' = TRUE
    /\ UNCHANGED lowest_zero

RaiseOrSettle ==
    /\ IF current < Maximum
       THEN current' = Raised(current) /\ UNCHANGED settled
       ELSE settled' = TRUE /\ UNCHANGED current
    /\ UNCHANGED lowest_zero

Quiet ==
    IF settled THEN KeepSettled ELSE LowerOrSettle

Busy ==
    IF settled THEN Reopen
    ELSE IF lowest_zero # None THEN ReturnToLowest
    ELSE RaiseOrSettle

(* A tuning window of the activity thread: the counters answer for the     *)
(* duty it ran with.  The thread then applies what the tuner returned.     *)
Window ==
    /\ IF duty >= need THEN Quiet ELSE Busy
    /\ duty' = current'
    /\ steady' = (steady \/ (settled /\ ~settled'))
    /\ UNCHANGED <<need, disturbances>>

(* A window whose counters cannot be read.                                 *)
FailedRead ==
    /\ disturbances < MaxDisturbances
    /\ Busy
    /\ duty' = current'
    /\ steady' = (settled /\ ~settled')
    /\ disturbances' = disturbances + 1
    /\ UNCHANGED need

NeedChanges ==
    /\ disturbances < MaxDisturbances
    /\ need' \in Needs \ {need}
    /\ steady' = FALSE
    /\ disturbances' = disturbances + 1
    /\ UNCHANGED <<current, lowest_zero, settled, duty>>

Next == Window \/ FailedRead \/ NeedChanges

Spec == Init /\ [][Next]_vars

-----------------------------------------------------------------------------
TypeOK ==
    /\ current \in Minimum..Maximum
    /\ lowest_zero \in {None} \cup (Minimum..Maximum)
    /\ settled \in BOOLEAN
    /\ duty \in 0..Maximum
    /\ need \in Needs
    /\ steady \in BOOLEAN
    /\ disturbances \in 0..MaxDisturbances

(* "Bounded minimum-duty search" (tuner.rs:1): a search that nothing       *)
(* disturbed settles on a duty one step below which the core would power   *)
(* down, however high the search before it had climbed.                    *)
MinimalDuty ==
    settled /\ steady => current = Minimum \/ Lowered(current) < need
==============================================================================
