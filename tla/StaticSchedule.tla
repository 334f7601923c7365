---------------------------- MODULE StaticSchedule ----------------------------
(***************************************************************************)
(* The bounded frontier of engine/src/sched/static_frontier.rs together    *)
(* with the growth rule FrontierRuntime puts on it                         *)
(* (python/hyperloader/process/frontier.py).  One owner thread calls the   *)
(* operations; the order of the calls is what the workers, the cost        *)
(* estimates and the width controller make it, so every interleaving is    *)
(* allowed here.  A call the code refuses (ScheduleError, None) changes no *)
(* state and is a stuttering step.                                         *)
(***************************************************************************)
EXTENDS Integers, FiniteSets, Sequences

CONSTANTS
    Start, End,         \* the half-open position range [Start, End)
    InitialDepth,       \* frontier depth at construction
    Ceiling,            \* depth record_wait may grow to
    GrowthMultiplier,   \* factors.growth_mult
    WorkerCeiling,      \* number of spawned workers
    Restored,           \* positions seeded from a delivered bitmap
    InOrder             \* strict delivery (TRUE) or on-completion (FALSE)

(***************************************************************************)
(* ProcessIterator.__init__ widens the depth to the span of the restored   *)
(* positions, and seeds none of them in strict delivery.                   *)
(***************************************************************************)
ASSUME ScheduleAssumption ==
    /\ Start \in Nat /\ End \in Nat /\ Start <= End
    /\ InitialDepth \in Nat \ {0} /\ Ceiling \in Nat
    /\ GrowthMultiplier \in Nat \ {0}
    /\ WorkerCeiling \in Nat \ {0}
    /\ InOrder \in BOOLEAN
    /\ Restored \subseteq (Start + 1)..(End - 1)
    /\ \A p \in Restored : p < Start + InitialDepth
    /\ InOrder => Restored = {}

VARIABLES
    next_commit,        \* lowest position not yet delivered
    positions,          \* the HashMap: position -> its state and its route
    delivered,          \* delivered positions beyond the contiguous prefix
    depth,              \* live frontier depth
    worker_count,       \* live routing width
    dispatch_ordinal,   \* round-robin counter
    output              \* observation: the positions try_commit returned

vars == <<next_commit, positions, delivered, depth, worker_count,
          dispatch_ordinal, output>>

Position == Start..(End - 1)
Worker == 0..(WorkerCeiling - 1)

(* A position the map does not hold.                                       *)
Absent == [state |-> "absent", worker |-> 0]
PositionState == [state : {"dispatched", "ready"}, worker : Worker]

Occupied == {p \in Position : positions[p] # Absent}

Init ==
    /\ next_commit = Start
    /\ positions = [p \in Position |-> Absent]
    /\ delivered = Restored
    /\ depth = InitialDepth
    /\ worker_count = WorkerCeiling
    /\ dispatch_ordinal = 0
    /\ output = << >>

(* Seeded defect: a position delivered ahead of the base is sent again.    *)
CandidatesIgnoringDelivered ==
    {p \in Position : /\ next_commit <= p
                      /\ p < next_commit + depth
                      /\ positions[p] = Absent}

(* Seeded defect: the window is one position too wide.                     *)
CandidatesOffByOne ==
    {p \in Position : /\ next_commit <= p
                      /\ p <= next_commit + depth
                      /\ positions[p] = Absent
                      /\ p \notin delivered}

(* Unsubmitted positions the frontier admits: dispatch_candidates, and the *)
(* eligibility test of dispatch_at.                                        *)
DispatchCandidates ==
    {p \in Position : /\ next_commit <= p
                      /\ p < next_commit + depth
                      /\ positions[p] = Absent
                      /\ p \notin delivered}

(* The worker the next dispatch goes to, round robin over the live width.  *)
Route == dispatch_ordinal % worker_count

(* dispatch_at followed by mark_dispatched, for a position the cost order  *)
(* selected and the transport accepted.                                    *)
MarkDispatched(p) ==
    /\ p \in DispatchCandidates
    /\ positions' = [positions EXCEPT
                        ![p] = [state |-> "dispatched", worker |-> Route]]
    /\ dispatch_ordinal' = dispatch_ordinal + 1
    /\ UNCHANGED <<next_commit, delivered, depth, worker_count, output>>

(* A completion is accepted once and only from the routed worker.          *)
MarkCompleted(p, w) ==
    /\ positions[p] = [state |-> "dispatched", worker |-> w]
    /\ positions' = [positions EXCEPT ![p] = [state |-> "ready", worker |-> w]]
    /\ UNCHANGED <<next_commit, delivered, depth, worker_count,
                   dispatch_ordinal, output>>

(* The base moves past the committed position and past every delivered     *)
(* position that follows it without a gap.                                 *)
AdvanceBase(p) ==
    \E n \in (p + 1)..End :
        /\ n \notin delivered
        /\ \A q \in (p + 1)..(n - 1) : q \in delivered
        /\ next_commit' = n
        /\ delivered' = delivered \ ((p + 1)..(n - 1))

KeepBase(p) ==
    /\ delivered' = delivered \cup {p}
    /\ UNCHANGED next_commit

TryCommitReady(p) ==
    /\ positions[p].state = "ready"
    /\ positions' = [positions EXCEPT ![p] = Absent]
    /\ \/ p = next_commit /\ AdvanceBase(p)
       \/ p # next_commit /\ KeepBase(p)
    /\ output' = Append(output, p)
    /\ UNCHANGED <<depth, worker_count, dispatch_ordinal>>

(* Seeded defect: strict delivery commits whatever is ready.               *)
CommitAnyReady(p) == TryCommitReady(p)

(* Strict delivery commits the next position only (try_commit).            *)
Commit(p) == (InOrder => p = next_commit) /\ TryCommitReady(p)

(* set_depth refuses a depth that would exclude an active position.        *)
SetDepth(d) ==
    /\ d > 0
    /\ \A p \in Occupied : p < next_commit + d
    /\ depth' = d
    /\ UNCHANGED <<next_commit, positions, delivered, worker_count,
                   dispatch_ordinal, output>>

(* Seeded defect: growth is not clipped to the ceiling.                    *)
GrownPastCeiling == depth * GrowthMultiplier

(* min(ceiling, depth * multiplier)                                        *)
Grown == IF depth * GrowthMultiplier < Ceiling
         THEN depth * GrowthMultiplier ELSE Ceiling

(* A delivery wait grows a saturated frontier.                             *)
Saturated == depth < Ceiling /\ Cardinality(Occupied) >= depth

RecordWait == Saturated /\ Grown # depth /\ SetDepth(Grown)

(* Seeded defect: the last route may be parked too.                        *)
ParkOneMore(n) ==
    /\ n \in 1..WorkerCeiling
    /\ worker_count' = n - 1
    /\ dispatch_ordinal' = dispatch_ordinal % n
    /\ UNCHANGED <<next_commit, positions, delivered, depth, output>>

(* The controller parks or unparks routes.                                 *)
SetWorkerCount(n) ==
    /\ n \in 1..WorkerCeiling
    /\ worker_count' = n
    /\ dispatch_ordinal' = dispatch_ordinal % n
    /\ UNCHANGED <<next_commit, positions, delivered, depth, output>>

IsComplete ==
    /\ next_commit = End
    /\ Occupied = {}
    /\ delivered = {}

Next ==
    \/ \E p \in Position : MarkDispatched(p)
    \/ \E p \in Position, w \in Worker : MarkCompleted(p, w)
    \/ \E p \in Position : Commit(p)
    \/ RecordWait
    \/ \E n \in 1..WorkerCeiling : SetWorkerCount(n)

Spec == Init /\ [][Next]_vars

-----------------------------------------------------------------------------

(* The variables keep their types: routes below the spawned ceiling, a     *)
(* positive depth and width (static_frontier.rs, StaticSchedule).          *)
TypeOK ==
    /\ next_commit \in Start..End
    /\ positions \in [Position -> PositionState \cup {Absent}]
    /\ delivered \subseteq Position
    /\ depth \in Nat \ {0}
    /\ worker_count \in 1..WorkerCeiling
    /\ dispatch_ordinal \in Nat
    /\ output \in Seq(Position)

(* The frontier's representation: everything in flight, ready or delivered *)
(* ahead of the base lies inside the window, nothing is both active and    *)
(* delivered, and the base itself is never among the delivered positions   *)
(* (static_frontier.rs try_commit_ready: the loop that moves the base).    *)
FrontierWindow ==
    /\ \A p \in Occupied \cup delivered :
            next_commit <= p /\ p < next_commit + depth
    /\ next_commit \notin delivered
    /\ Occupied \cap delivered = {}

(* Memory bound: however commits, growth and width changes interleave, the *)
(* positions whose results the loader may hold never outnumber the live    *)
(* depth, and the depth never passes the plan's ceiling (record_wait).     *)
OccupancyBound ==
    /\ Cardinality(Occupied) <= depth
    /\ depth <= IF InitialDepth < Ceiling THEN Ceiling ELSE InitialDepth

(* Exactly-once, in-order delivery: the pair of a base and a set of        *)
(* positions beyond it implements the abstract stream, in which every step *)
(* hands out one fresh position (try_commit, try_commit_ready).            *)
Stream == INSTANCE OrderedStream
              WITH taken <- (Start..(next_commit - 1)) \cup delivered

ImplementsStream == Stream!StreamSpec
==============================================================================
