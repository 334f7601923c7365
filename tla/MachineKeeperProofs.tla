------------------------- MODULE MachineKeeperProofs -------------------------
(***************************************************************************)
(* Machine-checked proofs that an undisturbed duty search settles on a     *)
(* minimal duty, for every step, maximum, initial duty and need, and that  *)
(* the activity thread runs its search by the tuner's own steps only,      *)
(* whatever calls the consumer makes meanwhile.                            *)
(***************************************************************************)
EXTENDS MachineKeeper, TLAPS


(* What the settled search relies on: the duty applied is the tuner's, and *)
(* while a bound is known the search stands one step below it.             *)
SearchOrder ==
    /\ duty = current \/ (current = Minimum /\ lowest_zero = None)
    /\ lowest_zero # None /\ ~settled => current = Lowered(lowest_zero)

TunerInv == TypeOK /\ SearchOrder /\ MinimalDuty

(* A step down or up stays between the bounds of the search.               *)
LEMMA MovesBounded ==
    /\ Minimum \in 0..Maximum
    /\ \A d \in Minimum..Maximum :
          Lowered(d) \in Minimum..Maximum /\ Raised(d) \in Minimum..Maximum
  BY TunerAssumption DEF Minimum, Lowered, Raised

LEMMA TunerInit == Init => TunerInv
<1> SUFFICES ASSUME Init PROVE TunerInv
  OBVIOUS
<1>1. TypeOK
  <2>1. current \in Minimum..Maximum
    BY TunerAssumption, MovesBounded DEF Init
  <2>2. lowest_zero \in {None} \cup (Minimum..Maximum)
    BY DEF Init
  <2>3. settled \in BOOLEAN /\ steady \in BOOLEAN
    BY DEF Init
  <2>4. duty \in 0..Maximum /\ need \in Needs
    BY TunerAssumption DEF Init
  <2>5. disturbances \in 0..MaxDisturbances
    BY TunerAssumption DEF Init
  <2> QED
    BY <2>1, <2>2, <2>3, <2>4, <2>5 DEF TypeOK
<1>2. SearchOrder
  BY TunerAssumption DEF Init, SearchOrder, None
<1> QED
  BY <1>1, <1>2 DEF Init, TunerInv, MinimalDuty

(* Whatever the window showed, the tuner stays inside its bounds.          *)
LEMMA ObserveKeepsTypes ==
    ASSUME TypeOK, Quiet \/ Busy
    PROVE  /\ current' \in Minimum..Maximum
           /\ lowest_zero' \in {None} \cup (Minimum..Maximum)
           /\ settled' \in BOOLEAN
  BY TunerAssumption, MovesBounded
  DEF TypeOK, Quiet, Busy, KeepSettled, LowerOrSettle, Reopen,
      ReturnToLowest, RaiseOrSettle, None

LEMMA ObserveKeepsOrder ==
    ASSUME TunerInv, Quiet \/ Busy, duty' = current'
    PROVE  SearchOrder'
  BY TunerAssumption, MovesBounded
  DEF TunerInv, TypeOK, SearchOrder, Quiet, Busy, KeepSettled,
      LowerOrSettle, Reopen, ReturnToLowest, RaiseOrSettle, None

LEMMA TunerStep == TunerInv /\ [Next]_vars => TunerInv'
<1> SUFFICES ASSUME TunerInv, [Next]_vars PROVE TunerInv'
  OBVIOUS
<1> USE TunerAssumption
<1>1. CASE Window
  <2>1. TypeOK'
    BY <1>1, ObserveKeepsTypes, MovesBounded DEF Window, TypeOK, TunerInv
  <2>2. SearchOrder'
    BY <1>1, ObserveKeepsOrder DEF Window
  <2>3. CASE duty >= need
    <3>1. CASE settled
      <4>1. steady' = steady /\ UNCHANGED <<settled, current, need>>
        BY <1>1, <2>3, <3>1 DEF Window, Quiet, KeepSettled, TunerInv, TypeOK
      <4> QED
        BY <2>1, <2>2, <4>1 DEF TunerInv, MinimalDuty, Lowered
    <3>2. CASE ~settled /\ current > Minimum
      BY <1>1, <2>1, <2>2, <2>3, <3>2
      DEF Window, Quiet, LowerOrSettle, TunerInv, MinimalDuty
    <3>3. CASE ~settled /\ ~(current > Minimum)
      <4>1. current' = Minimum
        BY <1>1, <2>3, <3>3, MovesBounded
        DEF Window, Quiet, LowerOrSettle, TunerInv, TypeOK
      <4> QED
        BY <2>1, <2>2, <4>1 DEF TunerInv, MinimalDuty, Minimum
    <3> QED
      BY <3>1, <3>2, <3>3
  <2>4. CASE ~(duty >= need) /\ settled
    BY <1>1, <2>1, <2>2, <2>4
    DEF Window, Busy, Reopen, MinimalDuty, TunerInv
  <2>5. CASE ~(duty >= need) /\ ~settled /\ lowest_zero # None
    BY <1>1, <2>1, <2>2, <2>5
    DEF Window, Busy, ReturnToLowest, MinimalDuty, SearchOrder, TunerInv,
        TypeOK
  <2>6. CASE ~(duty >= need) /\ ~settled /\ lowest_zero = None
    <3>1. CASE current < Maximum
      BY <1>1, <2>1, <2>2, <2>6, <3>1
      DEF Window, Busy, RaiseOrSettle, TunerInv, MinimalDuty
    <3>2. CASE ~(current < Maximum)
      <4>1. current = Maximum /\ UNCHANGED <<current, need>>
        BY <1>1, <2>6, <3>2, MovesBounded
        DEF Window, Busy, RaiseOrSettle, TunerInv, TypeOK
      <4>2. current = Minimum \/ Lowered(current) < need
        BY <2>6, <4>1, MovesBounded
        DEF TunerInv, TypeOK, SearchOrder, Lowered
      <4> QED
        BY <2>1, <2>2, <4>1, <4>2 DEF TunerInv, MinimalDuty, Lowered
    <3> QED
      BY <3>1, <3>2
  <2> QED
    BY <2>1, <2>2, <2>3, <2>4, <2>5, <2>6 DEF TunerInv
<1>2. CASE FailedRead
  <2>1. TypeOK'
    BY <1>2, ObserveKeepsTypes, MovesBounded
    DEF FailedRead, TypeOK, TunerInv
  <2>2. SearchOrder'
    BY <1>2, ObserveKeepsOrder DEF FailedRead
  <2> QED
    BY <1>2, <2>1, <2>2 DEF FailedRead, MinimalDuty, TunerInv
<1>3. CASE NeedChanges
  <2>1. TypeOK'
    <3>1. need' \in Needs /\ steady' \in BOOLEAN
      BY <1>3 DEF NeedChanges
    <3>2. disturbances' \in 0..MaxDisturbances
      BY <1>3 DEF NeedChanges, TunerInv, TypeOK
    <3>3. UNCHANGED <<current, lowest_zero, settled, duty>>
      BY <1>3 DEF NeedChanges
    <3> QED
      BY <3>1, <3>2, <3>3 DEF TunerInv, TypeOK
  <2>2. SearchOrder'
    BY <1>3 DEF NeedChanges, TunerInv, SearchOrder, Lowered
  <2> QED
    BY <1>3, <2>1, <2>2 DEF NeedChanges, TunerInv, MinimalDuty
<1>4. CASE UNCHANGED vars
  BY <1>4 DEF vars, TunerInv, TypeOK, SearchOrder, MinimalDuty, Lowered
<1> QED
  BY <1>1, <1>2, <1>3, <1>4 DEF Next

(* "Bounded minimum-duty search" (tuner.rs:1): MinimalDuty holds in every  *)
(* behaviour, whatever the step, the bounds and the needs are.             *)
THEOREM SearchIsMinimal == Spec => []MinimalDuty
<1>1. TunerInv => MinimalDuty
  BY DEF TunerInv
<1> QED
  BY <1>1, TunerInit, TunerStep, PTL DEF Spec

-----------------------------------------------------------------------------

LEMMA AccessLeavesSearch == Access => UNCHANGED vars
  BY DEF Access, DeadlineOff, ProbeOff, ActiveOff, ProbeOn, Unpark, StopOn,
         IfInactive, ArmIfActive, Arm, Join, Store

LEMMA ThreadDrivesSearch == Keeper => [Next]_vars
<1> SUFFICES ASSUME Keeper PROVE [Next]_vars
  OBVIOUS
<1>1. CASE CloseWindow
  BY <1>1 DEF CloseWindow, Next
<1>2. CASE \/ LoadStop \/ LoadDeadline \/ ClearDeadline \/ Deactivate
           \/ LoadActive \/ Round \/ WakeUp \/ LoadStopAgain \/ SwapProbe
           \/ Measure \/ Activate
  BY <1>2 DEF LoadStop, LoadDeadline, ClearDeadline, Deactivate, LoadActive,
              Round, WakeUp, LoadStopAgain, SwapProbe, Measure, Activate, Goes
<1> QED
  BY <1>1, <1>2 DEF Keeper

LEMMA KeeperDrivesSearch == [KeeperNext]_system => [Next]_vars
<1> SUFFICES ASSUME [KeeperNext]_system PROVE [Next]_vars
  OBVIOUS
<1>1. ASSUME NEW c \in Calls, Call(c) PROVE UNCHANGED vars
  BY <1>1 DEF Call
<1>2. CASE Environment
  BY <1>2 DEF Environment, Due, Next
<1>3. CASE UNCHANGED system
  BY <1>3 DEF system
<1> QED
  BY <1>1, <1>2, <1>3, AccessLeavesSearch, ThreadDrivesSearch DEF KeeperNext

(* While the consumer calls as it likes and the thread is activated and    *)
(* parked, a search that nothing disturbed settles on a duty one step      *)
(* below which the core would power down (run_loop, DutyTuner::observe).   *)
THEOREM KeeperSearchIsMinimal == KeeperSpec => []MinimalDuty
<1>1. KeeperInit => Init
  BY DEF KeeperInit
<1>2. KeeperSpec => Spec
  BY <1>1, KeeperDrivesSearch, PTL DEF KeeperSpec, Spec
<1> QED
  BY <1>2, SearchIsMinimal
==============================================================================
