----------------------------- MODULE WidthControl -----------------------------
(***************************************************************************)
(* The width of a process pool over its epochs: control/controller.py,     *)
(* built by control/runtime.py, fed by ProcessIterator._adapt_controller   *)
(* and applied to the routes of FrontierRuntime (process/frontier.py).     *)
(* The controller belongs to the loader, the frontier to one iterator.     *)
(***************************************************************************)
EXTENDS Integers, FiniteSets, FiniteSetsExt

CONSTANTS
    WidthWorkers,       \* spawned workers
    WidthLength,        \* transport commands of an epoch
    CadenceBatches,     \* f_cad_b
    CadenceTicks,       \* f_cad_s, in ticks of the clock
    StepClip,           \* factors.step_clip
    Hysteresis          \* factors.hysteresis

VARIABLE control

None == [none |-> TRUE]

Workers == 0 .. WidthWorkers - 1

Positions == 0 .. WidthLength - 1

(* ProcessPool and FrontierRuntime.__init__: a new schedule routes to      *)
(* every worker until it is told the width.                                *)
NewFrontier(config, width) ==
    [base |-> 0, depth |-> config.depth, ordinal |-> 0, routes |-> width,
     stalled |-> FALSE, calling |-> FALSE,
     sent |-> [p \in Positions |-> -1], done |-> {}, ready |-> {}]

(* build_controller: the width starts at the ceiling the user leaves.      *)
(* elapsed is the time since _last_decision_ns, -1 before the first        *)
(* observation.  Nothing reads beyond the cadence, or the hysteresis.      *)
BuiltController(config) ==
    [width |-> config.cores, elapsed |-> -1, batches |-> 0,
     stalled |-> FALSE, quiet |-> 0]

(* calm: deliveries since the last one that had waited.  fed: decisions in *)
(* a row that no wait and a full batch of samples in flight preceded.      *)
WidthInit(config) ==
    control = [config |-> config, controller |-> BuiltController(config),
               it |-> None, calm |-> 0, fed |-> 0, cause |-> "none"]

WidthUnused == control = None

-----------------------------------------------------------------------------
(* FrontierRuntime.                                                        *)

Occupied(it) == {p \in Positions : it.sent[p] # -1 /\ p >= it.base}

(* _fill_frontier, for equal costs: every open position in its order, the  *)
(* routes by turns.                                                        *)
FilledFrom(it) ==
    LET open == {p \in it.base .. it.base + it.depth - 1 :
                     p \in Positions /\ it.sent[p] = -1}
        turn(p) == it.ordinal + Cardinality({q \in open : q < p})
    IN  [it EXCEPT !.sent = [p \in Positions |->
                       IF p \in open THEN turn(p) % it.routes ELSE @[p]],
                   !.ordinal = @ + Cardinality(open)]

(* set_worker_count.                                                       *)
Routed(it, width) ==
    [it EXCEPT !.routes = width, !.ordinal = @ % width]

(* record_wait: a saturated frontier grows within its ceiling.             *)
Grown(config, it) ==
    IF it.depth < config.ceiling /\ Cardinality(Occupied(it)) >= it.depth
    THEN Min({config.ceiling, it.depth * 2}) ELSE it.depth

-----------------------------------------------------------------------------
(* AdaptiveController.observe.                                             *)

AtMost(n, bound) == IF n < bound THEN n ELSE bound

(* Seeded defect: the last delivery of a cadence decides.                  *)
LastStall(was, stalled) == stalled

AnyStall(was, stalled) == was \/ stalled

Counted(c, dt, stalled) ==
    [c EXCEPT !.elapsed = IF @ = -1 THEN 0 ELSE AtMost(@ + dt, CadenceTicks),
              !.batches = AtMost(@ + 1, CadenceBatches),
              !.stalled = AnyStall(@, stalled)]

AtCadence(c) == c.batches >= CadenceBatches /\ c.elapsed >= CadenceTicks

Shrunk(width) == IF width > StepClip THEN width - StepClip ELSE 1

(* Seeded defect: the quiet cadences outlive a starved one.                *)
KeptQuiet(config, c) ==
    [c EXCEPT !.width = AtMost(@ + StepClip, config.cores)]

Widened(config, c) ==
    [c EXCEPT !.width = AtMost(@ + StepClip, config.cores), !.quiet = 0]

(* Seeded defect: one more quiet cadence than the hysteresis.              *)
ReleasedLate(c) ==
    IF c.quiet >= Hysteresis /\ c.width > 1
    THEN [c EXCEPT !.width = Shrunk(@), !.quiet = 0]
    ELSE [c EXCEPT !.quiet = AtMost(@ + 1, Hysteresis)]

Released(c) ==
    IF c.quiet + 1 >= Hysteresis /\ c.width > 1
    THEN [c EXCEPT !.width = Shrunk(@), !.quiet = 0]
    ELSE [c EXCEPT !.quiet = AtMost(@ + 1, Hysteresis)]

Decided(config, c, over, starvation) ==
    LET next == IF over THEN [c EXCEPT !.width = Shrunk(@), !.quiet = 0]
                ELSE IF starvation THEN Widened(config, c)
                ELSE Released(c)
    IN  [next EXCEPT !.elapsed = 0, !.batches = 0, !.stalled = FALSE]

-----------------------------------------------------------------------------
(* ProcessIterator.                                                        *)

(* __iter__: whatever iterator there was is left, with its stall flag.  A  *)
(* pool that still has its commands is built again, its controller kept.   *)
Iterate ==
    LET width == control.controller.width
    IN  /\ control.it # None => ~control.it.calling
        /\ control' = [control EXCEPT
               !.it = FilledFrom(NewFrontier(control.config, width)),
               !.cause = "none"]

CallNext ==
    /\ control.it # None /\ ~control.it.calling
    /\ control.it.base < WidthLength
    /\ control' = [control EXCEPT !.it.calling = TRUE, !.cause = "none"]

(* A worker evaluates its commands in the order they were sent.            *)
Evaluate(w) ==
    LET it == control.it
        mine == {p \in Positions : it.sent[p] = w} \ (it.done \cup it.ready)
    IN  /\ it # None /\ mine # {}
        /\ control' = [control EXCEPT !.it.done = @ \cup {Min(mine)},
                                      !.cause = "none"]

(* Seeded defect: only the live routes are looked at.                      *)
LiveRoutes(it) == 0 .. it.routes - 1

(* _poll_completions: every spawned worker, one completion each.           *)
PolledWorkers(it) == Workers

Received(it) ==
    {Min({p \in it.done : it.sent[p] = w}) :
        w \in {v \in PolledWorkers(it) : \E p \in it.done : it.sent[p] = v}}

Poll ==
    LET it == control.it
        received == Received(it)
    IN  /\ it # None /\ it.calling /\ it.base \notin it.ready /\ received # {}
        /\ control' = [control EXCEPT !.it.done = @ \ received,
                                      !.it.ready = @ \cup received,
                                      !.cause = "none"]

(* wait_for_completion, then record_wait.                                  *)
Wait ==
    LET it == control.it
    IN  /\ it # None /\ it.calling /\ it.base \notin it.ready /\ Received(it) = {}
        /\ control' = [control EXCEPT !.it.stalled = TRUE,
                                      !.it.depth = Grown(control.config, it),
                                      !.cause = "none"]

(* A value leaves, the frontier is filled, and _adapt_controller observes: *)
(* not at the end of the epoch, whose stall nobody reads.  In flight are   *)
(* commands, which are samples or whole batches.                           *)
Deliver(dt, over) ==
    LET config == control.config
        base == control.it.base + 1
        it == FilledFrom([control.it EXCEPT !.base = base, !.calling = FALSE])
        flight == Cardinality(Occupied(it))
        seen == Counted(control.controller, dt, it.stalled)
        starvation == seen.stalled \/ flight < config.batch
        next == Decided(config, seen, over, starvation)
        full == flight * config.batch >= config.batch
    IN  /\ control.it # None /\ control.it.calling
        /\ control.it.base \in control.it.ready
        /\ over => config.limited
        /\ IF base = WidthLength
           THEN control' = [control EXCEPT
                    !.it = [it EXCEPT !.stalled = FALSE], !.cause = "none"]
           ELSE LET calm == IF it.stalled THEN 0
                            ELSE AtMost(control.calm + 1,
                                        Hysteresis * CadenceBatches)
                    steady == ~over /\ ~seen.stalled /\ full
                                /\ next.width = seen.width
                IN  IF ~AtCadence(seen)
                    THEN control' = [control EXCEPT
                             !.controller = seen, !.calm = calm, !.cause = "none",
                             !.it = [it EXCEPT !.stalled = FALSE]]
                    ELSE control' = [control EXCEPT
                             !.controller = next, !.calm = calm,
                             !.fed = IF steady THEN AtMost(@ + 1, Hysteresis) ELSE 0,
                             !.cause = IF over THEN "bandwidth" ELSE "decision",
                             !.it = Routed([it EXCEPT !.stalled = FALSE],
                                           next.width)]

(* The epoch is over: the next iterator starts on the same pool.           *)
Finish ==
    /\ control.it # None /\ ~control.it.calling /\ control.it.base = WidthLength
    /\ control' = [control EXCEPT !.it = None, !.cause = "none"]

WidthWorkerStep(w) == Evaluate(w)

WidthConsumerStep ==
    \/ CallNext \/ Poll \/ Wait \/ Finish
    \/ \E dt \in {0, 1}, over \in BOOLEAN : Deliver(dt, over)

WidthNext ==
    \/ Iterate \/ WidthConsumerStep
    \/ \E w \in Workers : WidthWorkerStep(w)

-----------------------------------------------------------------------------

(* control/controller.py:23, "Keep starvation at zero, then release        *)
(* unnecessary worker routes": without a bandwidth ceiling a route is      *)
(* parked only after hysteresis whole cadences in which no delivery        *)
(* waited, over however many iterators and decisions they spread; and the  *)
(* live schedule routes to the controller's width.                         *)
ParkingEarned ==
    [][control # None =>
        /\ control'.it # None => control'.it.routes = control'.controller.width
        /\ control'.controller.width < control.controller.width =>
               \/ control'.cause = "bandwidth"
               \/ control'.calm >= Hysteresis * CadenceBatches]_control

(* The other half of that sentence: a consumer that did not wait, with at  *)
(* least a batch of samples in flight, for hysteresis cadences in a row    *)
(* has no more than one route left or has just been given one less.        *)
RoutesReleased == control.controller.width = 1 \/ control.fed < Hysteresis
===============================================================================
