---------------------------- MODULE MachineKeeper ----------------------------
(***************************************************************************)
(* One core's activity thread (engine/src/control/machine_keeper) and the  *)
(* consumer thread that directs it.  They share a few atomic words and the *)
(* park permit of the thread; every access of one is a step.  The thread's *)
(* duty search is the module DutyTuner, whose windows close in the thread's*)
(* active rounds.  The length of a gap, the idle counters and the clock    *)
(* are external.                                                           *)
(***************************************************************************)
EXTENDS DutyTuner, Sequences

CONSTANTS
    Counters,       \* the system exposes idle-entry counters
    MaxCalls        \* bound on the consumer's calls

ASSUME KeeperAssumption == Counters \in BOOLEAN /\ MaxCalls \in Nat

VARIABLES
    active, probe, stop,    \* SharedState, with duty
    deadline,               \* park_deadline_ns: "none", "armed" or "due"
    permit,                 \* the unpark token of the thread
    primed,                 \* ActivityProbe.primed
    kpc,                    \* where the activity thread is
    todo,                   \* accesses the consumer's call has still to make
    call,                   \* that call, or the last one
    calls

shared == <<active, probe, stop, deadline, permit>>
consumer == <<todo, call, calls>>
keeper == <<shared, primed, kpc, consumer>>
system == <<vars, keeper>>

KeeperInit ==
    /\ Init
    /\ active = FALSE /\ probe = FALSE /\ stop = FALSE
    /\ deadline = "none" /\ permit = FALSE /\ primed = FALSE
    /\ kpc = "top" /\ todo = << >> /\ call = "none" /\ calls = 0

-----------------------------------------------------------------------------
(* The consumer's calls, as the accesses they make in order.               *)

Park == <<"deadline off", "probe off", "active off">>

(* Seeded defect: the thread is woken before the request is stored.        *)
RequestAfterWake == <<"unpark", "probe on">>

(* The end of observe_gap for a gap in the calibrated regime.              *)
Request == <<"probe on", "unpark">>

(* Seeded defect: the thread is not woken.                                 *)
CloseUnwoken == <<"stop">> \o Park \o <<"join">>

CloseAccesses == <<"stop">> \o Park \o <<"unpark", "join">>

Accesses(c) ==
    CASE c = "short gap" -> Park
      [] c = "long gap"  -> <<"deadline off", "if inactive">>
      [] c = "defer"     -> <<"arm if active">>
      [] c = "park"      -> Park
      [] c = "close"     -> CloseAccesses

Call(c) ==
    /\ todo = << >> /\ call # "close" /\ calls < MaxCalls
    /\ call' = c /\ calls' = calls + 1
    /\ todo' = Accesses(c)
    /\ UNCHANGED <<vars, shared, primed, kpc>>

Done == todo' = Tail(todo)

Store(access) ==
    /\ todo # << >> /\ Head(todo) = access
    /\ UNCHANGED <<vars, primed, kpc, call, calls>>

DeadlineOff ==
    /\ Store("deadline off") /\ Done
    /\ deadline' = "none"
    /\ UNCHANGED <<active, probe, stop, permit>>

ProbeOff ==
    /\ Store("probe off") /\ Done
    /\ probe' = FALSE
    /\ UNCHANGED <<active, stop, deadline, permit>>

ActiveOff ==
    /\ Store("active off") /\ Done
    /\ active' = FALSE
    /\ UNCHANGED <<probe, stop, deadline, permit>>

ProbeOn ==
    /\ Store("probe on") /\ Done
    /\ probe' = TRUE
    /\ UNCHANGED <<active, stop, deadline, permit>>

Unpark ==
    /\ Store("unpark") /\ Done
    /\ permit' = TRUE
    /\ UNCHANGED <<active, probe, stop, deadline>>

StopOn ==
    /\ Store("stop") /\ Done
    /\ stop' = TRUE
    /\ UNCHANGED <<active, probe, deadline, permit>>

IfInactive ==
    /\ Store("if inactive")
    /\ todo' = IF active THEN << >> ELSE Request
    /\ UNCHANGED shared

(* defer_park: load active, then store the deadline, or park.              *)
ArmIfActive ==
    /\ Store("arm if active")
    /\ todo' = IF active THEN <<"arm">> ELSE Park
    /\ UNCHANGED shared

Arm ==
    /\ Store("arm") /\ Done
    /\ deadline' = "armed"
    /\ UNCHANGED <<active, probe, stop, permit>>

Join ==
    /\ Store("join") /\ kpc = "ended" /\ Done
    /\ UNCHANGED shared

Calls == {"short gap", "long gap", "defer", "park", "close"}

Access ==
    \/ DeadlineOff \/ ProbeOff \/ ActiveOff \/ ProbeOn \/ Unpark
    \/ StopOn \/ IfInactive \/ ArmIfActive \/ Arm \/ Join

-----------------------------------------------------------------------------
(* The activity thread: run_loop.                                          *)

Goes(from, to) ==
    kpc = from /\ kpc' = to /\ UNCHANGED <<vars, consumer>>

LoadStop ==
    /\ Goes("top", IF stop THEN "ended" ELSE "deadline")
    /\ UNCHANGED shared /\ UNCHANGED primed

LoadDeadline ==
    /\ Goes("deadline", IF deadline = "due" THEN "expire" ELSE "active")
    /\ UNCHANGED shared /\ UNCHANGED primed

ClearDeadline ==
    /\ Goes("expire", "expired")
    /\ deadline' = "none"
    /\ UNCHANGED <<active, probe, stop, permit, primed>>

Deactivate ==
    /\ Goes("expired", "top")
    /\ active' = FALSE
    /\ UNCHANGED <<probe, stop, deadline, permit, primed>>

LoadActive ==
    /\ Goes("active", IF active THEN "round" ELSE "park")
    /\ UNCHANGED shared /\ UNCHANGED primed

(* An active round pulses and sleeps, and closes a tuning window once that *)
(* is old enough.                                                          *)
CloseWindow ==
    /\ kpc = "round" /\ kpc' = "top" /\ UNCHANGED <<shared, primed, consumer>>
    /\ Counters /\ (Window \/ FailedRead)

Round ==
    /\ Goes("round", "top")
    /\ UNCHANGED shared /\ UNCHANGED primed

WakeUp ==
    /\ Goes("park", "woken")
    /\ permit /\ permit' = FALSE
    /\ UNCHANGED <<active, probe, stop, deadline, primed>>

LoadStopAgain ==
    /\ Goes("woken", IF stop THEN "ended" ELSE "swap")
    /\ UNCHANGED shared /\ UNCHANGED primed

SwapProbe ==
    /\ Goes("swap", IF probe THEN "measure" ELSE "top")
    /\ probe' = FALSE
    /\ UNCHANGED <<active, stop, deadline, permit, primed>>

(* ActivityProbe.observe: active at once without counters, or if they      *)
(* cannot be read; else the first window only primes, and a later one      *)
(* activates if the core powered down in it.                               *)
Measure ==
    \/ /\ Goes("measure", "activate")
       /\ UNCHANGED <<shared, primed>>
    \/ /\ Counters
       /\ Goes("measure", "top")
       /\ primed' = TRUE /\ UNCHANGED shared

Activate ==
    /\ Goes("activate", "top")
    /\ active' = TRUE
    /\ UNCHANGED <<probe, stop, deadline, permit, primed>>

Keeper ==
    \/ LoadStop \/ LoadDeadline \/ ClearDeadline \/ Deactivate \/ LoadActive
    \/ CloseWindow \/ Round
    \/ WakeUp \/ LoadStopAgain \/ SwapProbe \/ Measure \/ Activate

(* The clock passes the deadline.                                          *)
Due ==
    /\ deadline = "armed"
    /\ deadline' = "due"
    /\ UNCHANGED <<vars, active, probe, stop, permit, primed, kpc, consumer>>

Environment == Due \/ (NeedChanges /\ UNCHANGED keeper)

KeeperNext ==
    (\E c \in Calls : Call(c)) \/ Access \/ Keeper \/ Environment

KeeperSpec == KeeperInit /\ [][KeeperNext]_system

(* Both threads run and time passes, so that an active thread closes a     *)
(* window every 500 ms; the consumer may stop calling.                     *)
FairKeeper ==
    /\ KeeperSpec
    /\ WF_system(Access) /\ WF_system(Keeper) /\ WF_system(Due)
    /\ SF_system(CloseWindow)

-----------------------------------------------------------------------------

(* A request to look at the counters is not lost: the thread takes it, the *)
(* consumer withdraws it, or the thread is active already (observe_gap and *)
(* the wait in run_loop).                                                  *)
RequestsSeen == probe ~> (~probe \/ active)

(* close returns: the thread cannot miss the stop flag and stay parked.    *)
CloseReturns == call = "close" ~> todo = << >>

(* No call of observe_gap or close is lost on a thread about to park.      *)
CallsSeen == RequestsSeen /\ CloseReturns

(* Whatever the need did on the way, once it stays and the thread stays    *)
(* active, the duty applied ends at one that keeps the core awake, or at   *)
(* the maximum: a settled search is reopened, and no bound left from an    *)
(* earlier need holds it down (run_loop, DutyTuner::observe).              *)
EnoughDuty ==
    <>[](active /\ Counters /\ ~stop) => <>[](duty >= need \/ duty = Maximum)

(* "Park activity immediately at exhaustion or invalidation." (park): once *)
(* the call has returned the thread stays inactive.                        *)
ParkHolds == call = "park" /\ todo = << >> => ~active

(* "Keep activity across a likely rollover, then park if consumption does  *)
(* not resume." (defer_park): after a deadline that passed, with no call   *)
(* since, activity ends.                                                   *)
DeferExpires ==
    /\ <>(call = "defer" /\ deadline = "due")
    /\ <>[](call = "defer")
    => <>[](~active)
==============================================================================
