---------------------------- MODULE ProcessControl ----------------------------
(***************************************************************************)
(* What surrounds process delivery (ProcessDelivery), one at a time: the   *)
(* worker processes and their transport, the hand-over of the first        *)
(* sample, the width of the pool, the ranks of a job, the route of the     *)
(* machine keeper and the calibration both rest on.  Each keeps a state of *)
(* its own and meets the others through values that are inputs here.       *)
(***************************************************************************)
EXTENDS Integers, Sequences, FiniteSets

CONSTANTS
    FleetConfigs, FleetWorkers, Commands, Room, MaxDeaths,
    HandoffConfigs, HandoffWorkers, HandoffLength, MaxHandoffEvents,
    WidthConfigs, WidthWorkers, WidthLength, CadenceBatches, CadenceTicks,
    StepClip, Hysteresis,
    RankConfigs, Worlds, MaxResumes,
    RouteConfigs, Cpus, GaplessLimit, RouteCadence,
    Machines, PriorMachines, Savers, Whole, MaxWidth, MaxSaves

(* controller.py:38-41, of the factors of machine_keeping.py:27-34 too,    *)
(* map.py:26, constructor.py:57, and a pool has workers and a frontier     *)
(* room for a command.                                                     *)
ASSUME ControlAssumption ==
    /\ {CadenceBatches, CadenceTicks, StepClip, Hysteresis} \subseteq Nat \ {0}
    /\ GaplessLimit \in Nat \ {0} /\ RouteCadence \in Nat
    /\ WidthLength \in Nat /\ HandoffLength \in Nat
    /\ HandoffWorkers \in Nat \ {0}
    /\ \A config \in HandoffConfigs : config.depth \in Nat \ {0}
    /\ \A config \in WidthConfigs : config.cores \in Nat \ {0}
    /\ Worlds \subseteq Nat \ {0}
    /\ \A config \in RankConfigs : config.n \in Nat /\ config.bg \in Nat \ {0}

(* The losses 1, 2 and 3 of CalibrationStore are below a loss of 1.0.      *)
ASSUME LossAssumption == Whole \in Nat /\ Whole > 3 /\ MaxWidth \in Nat

VARIABLES fleet, handoff, control, ranks, route, store

controlVars == <<fleet, handoff, control, ranks, route, store>>

Fleet == INSTANCE WorkerFleet
Probe == INSTANCE ProbeHandoff
Width == INSTANCE WidthControl
Ranks == INSTANCE RankPlacement
Keeping == INSTANCE MachineRoute
Calibration == INSTANCE CalibrationStore

None == [none |-> TRUE]

Others(name) ==
    /\ name # "fleet" => Fleet!FleetUnused
    /\ name # "handoff" => Probe!HandoffUnused
    /\ name # "control" => Width!WidthUnused
    /\ name # "ranks" => Ranks!PlacementUnused
    /\ name # "route" => Keeping!RouteUnused
    /\ name # "store" => Calibration!StoreUnused

ControlInit ==
    \/ (\E c \in FleetConfigs : Fleet!FleetInit(c)) /\ Others("fleet")
    \/ (\E c \in HandoffConfigs : Probe!HandoffInit(c)) /\ Others("handoff")
    \/ (\E c \in WidthConfigs : Width!WidthInit(c)) /\ Others("control")
    \/ (\E c \in RankConfigs : Ranks!PlacementInit(c)) /\ Others("ranks")
    \/ (\E c \in RouteConfigs : Keeping!RouteInit(c)) /\ Others("route")
    \/ Calibration!StoreInit /\ Others("store")

Only(name) ==
    /\ name # "fleet" => UNCHANGED fleet
    /\ name # "handoff" => UNCHANGED handoff
    /\ name # "control" => UNCHANGED control
    /\ name # "ranks" => UNCHANGED ranks
    /\ name # "route" => UNCHANGED route
    /\ name # "store" => UNCHANGED store

ControlNext ==
    \/ fleet # None /\ Fleet!FleetNext /\ Only("fleet")
    \/ handoff # None /\ Probe!HandoffNext /\ Only("handoff")
    \/ control # None /\ Width!WidthNext /\ Only("control")
    \/ ranks # None /\ Ranks!PlacementNext /\ Only("ranks")
    \/ route # None /\ Keeping!RouteNext /\ Only("route")
    \/ store # None /\ Calibration!StoreNext /\ Only("store")

OwnerStep ==
    \/ fleet # None /\ Fleet!FleetOwnerStep /\ Only("fleet")
    \/ control # None /\ Width!WidthConsumerStep /\ Only("control")

WorkerStep(w) ==
    \/ fleet # None /\ w < FleetWorkers /\ Fleet!WorkerStep(w) /\ Only("fleet")
    \/ control # None /\ w < WidthWorkers /\ Width!Evaluate(w) /\ Only("control")

(* A caller that is in a call goes on, and so does every worker process.   *)
ControlSpec ==
    /\ ControlInit /\ [][ControlNext]_controlVars
    /\ WF_controlVars(OwnerStep)
    /\ \A w \in 0 .. FleetWorkers + WidthWorkers : WF_controlVars(WorkerStep(w))

-----------------------------------------------------------------------------

(* See CommandsKept and SignalsPublished in WorkerFleet: process/pool.py's *)
(* internal errors about unknown and unpublished completions do not occur. *)
FleetConsistent ==
    fleet # None => Fleet!CommandsKept /\ Fleet!SignalsPublished

(* See StopHonoured in WorkerFleet.                                        *)
StopHonoured == fleet # None => Fleet!StopHonoured

(* See ValuesOwnEpoch and HandoffAccepted in ProbeHandoff: the retained    *)
(* probe of process/pool.py is delivered for its own command only.         *)
ProbeDelivered ==
    handoff # None => Probe!ValuesOwnEpoch /\ Probe!HandoffAccepted

(* control/controller.py:23, "Keep starvation at zero, then release        *)
(* unnecessary worker routes": a route is parked only after hysteresis     *)
(* whole cadences in which no delivery waited, over however many iterators *)
(* they spread.                                                            *)
ParkingEarned == Width!ParkingEarned

(* The other half of that sentence, for commands that are samples, and     *)
(* below for whole batches: a consumer that did not wait for hysteresis    *)
(* cadences has at most one route left or has just been given one less.    *)
RoutesReleased ==
    control # None /\ control.config.batch = 1 => Width!RoutesReleased

(* The same for every loader, those whose commands are whole batches       *)
(* included (control/controller.py).                                       *)
BatchRoutesReleased == control # None => Width!RoutesReleased

(* distributed/map.py:13: when every rank has come to its end, each        *)
(* position of the global stream was delivered as often as the stream has  *)
(* it, over restarts of the job with other numbers of ranks.               *)
StreamCovered == ranks # None => Ranks!StreamCovered

(* README.md:67: a state saved on one world size is accepted on another    *)
(* one that divides the global batch.                                      *)
ResumeAccepted == ranks # None => Ranks!ResumeAccepted

(* control/machine_keeping.py:189: a keeper that nobody feeds has been     *)
(* asked to park, through every change of its route, and the loader never  *)
(* has two.                                                                *)
KeeperRests == route # None => Keeping!KeeperRests

(* The same with iterators that are dropped unfinished and keepers that    *)
(* fail to start.                                                          *)
KeeperAlwaysRests == route # None => Keeping!KeeperAlwaysRests

(* control/interrupts.py:31, "retaining the last live route": while the    *)
(* loader is open, interrupts that were routed to are not forgotten.       *)
RouteRetained == Keeping!RouteRetained

(* See CurvesUsable and MeasuredKept in CalibrationStore: what             *)
(* control/cache.py and control/record.py give a loader.                   *)
CalibrationKept ==
    store # None => Calibration!CurvesUsable /\ Calibration!MeasuredKept

(* control/runtime.py:18: a loader is not refused for what is in the       *)
(* calibration cache.                                                      *)
ResolveAnswers == store # None => Calibration!ResolveAnswers

InCall ==
    \/ fleet # None /\ fleet.phase = "joining"
    \/ control # None /\ control.it # None /\ control.it.calling

(* worker_set.py:71 and iterator.py:220, _next_completion: closing a pool  *)
(* ends, a worker that went on after its stop included, and a call of next *)
(* on a pool whose workers live returns, the commands of parked routes     *)
(* included.  It needs every worker to go on.                              *)
CallsEnd == InCall ~> ~InCall
===============================================================================
