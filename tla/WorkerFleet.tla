----------------------------- MODULE WorkerFleet -----------------------------
(***************************************************************************)
(* The worker processes of a pool: python/hyperloader/process/pool.py,     *)
(* worker_set.py and worker.py over the queues and slots of                *)
(* fallback/transport, or over the native rings.  Every step of a worker   *)
(* may be its last.                                                        *)
(***************************************************************************)
EXTENDS Integers, Sequences, FiniteSets, Functions, SequencesExt

CONSTANTS
    FleetWorkers,       \* worker_count
    Commands,           \* commands of the run, one position each
    Room,               \* queue_capacity
    MaxDeaths           \* bound on processes killed

VARIABLE fleet

None == [none |-> TRUE]

Workers == 0 .. FleetWorkers - 1

Slots == 0 .. Room - 1

Command(position, slot) == [position |-> position, slot |-> slot]

NoCommand == Command(-1, -1)

Completion(command, status) == [command |-> command, status |-> status]

-----------------------------------------------------------------------------
(* A process: what it is doing, its control pipe in both directions, its   *)
(* dispatch and completion queues, and what became of a stop.              *)

Launched == [stage |-> "starting", inbound |-> <<>>, outbound |-> <<>>,
             dispatches |-> <<>>, completions |-> <<>>, job |-> NoCommand,
             status |-> 0, failed |-> FALSE, told |-> FALSE]

Alive(worker) == worker.stage \notin {"ended", "dead"}

(* ProcessResources._make_channels: every slot is free.                    *)
AllFree == [i \in 1 .. Room |-> i - 1]

(* A batch command fills its completion ring and signals every completion, *)
(* factory.py keeps batches for the pools that close on a death.           *)
FleetInit(config) ==
    fleet = [config |-> config, phase |-> "probing",
             workers |-> [w \in Workers |-> Launched],
             free |-> [w \in Workers |-> AllFree],
             pending |-> {}, arena |-> [w \in Workers |-> [s \in Slots |-> -1]],
             signals |-> [w \in Workers |-> 0],
             next |-> 0, received |-> [p \in 0 .. Commands - 1 |-> 0],
             own |-> TRUE, deaths |-> 0]

FleetUnused == fleet = None

Fallback(f) == f.config.engine = "fallback"

Put(f, w, worker) == [f EXCEPT !.workers[w] = worker]

PendingOf(f, w) == {c \in f.pending : c.worker = w}

-----------------------------------------------------------------------------
(* fallback/transport/owner.py.  The native transport has no slots here:   *)
(* its arena is ArenaAllocator's, and its rings hold Room frames each way. *)

Submittable(f, w) ==
    IF Fallback(f) THEN f.free[w] # <<>>
    ELSE Len(f.workers[w].dispatches) < Room

SlotFor(f, w) == IF Fallback(f) THEN Head(f.free[w]) ELSE 0

(* _submit: the owner keeps its own copy of the worker's end of the pipe,  *)
(* so that a send to a dead worker succeeds.                               *)
Sent(f, w, position) ==
    LET command == Command(position, SlotFor(f, w))
    IN  [f EXCEPT !.workers[w].dispatches = Append(@, command),
                  !.free[w] = IF Fallback(f) THEN Tail(@) ELSE @,
                  !.pending = @ \cup {[worker |-> w, position |-> position,
                                       slot |-> command.slot]}]

Freed(free, slot) == Append(free, slot)

(* try_receive: the payload is copied out of the slot, and the slot freed. *)
Taken(f, w) ==
    LET completion == Head(f.workers[w].completions)
        command == completion.command
    IN  [f EXCEPT !.workers[w].completions = Tail(@),
                  !.pending = {c \in @ : c.worker # w \/ c.position # command.position},
                  !.free[w] = IF Fallback(f) THEN Freed(@, command.slot) ELSE @,
                  !.received[command.position] = @ + 1,
                  !.own = @ /\ (Fallback(f) =>
                            f.arena[w][command.slot] = command.position)]

(* Seeded defect: the channels of a dead worker are used again.            *)
KeptChannels(worker) == [Launched EXCEPT !.dispatches = worker.dispatches,
                                         !.completions = worker.completions]

(* _replace_channels: what was in the queues of the dead worker is gone.   *)
ReplacedChannels(worker) == Launched

(* reclaim_dead_worker: in order of position.                              *)
Reclaimed(f, w) ==
    LET lost == PendingOf(f, w)
        order == SetToSortSeq(lost, LAMBDA a, b : a.position < b.position)
    IN  [f EXCEPT !.pending = @ \ lost,
                  !.free[w] = IF Fallback(f)
                              THEN @ \o [i \in DOMAIN order |-> order[i].slot] ELSE @,
                  !.workers[w] = ReplacedChannels(@)]

-----------------------------------------------------------------------------
(* worker_main and run_commands.                                           *)

(* The user's worker_init_fn may raise: the error answers every command.   *)
StartUp(w) ==
    LET f == fleet
        worker == f.workers[w]
    IN  /\ worker.stage = "starting"
        /\ \E failed \in BOOLEAN :
               /\ failed => w \in f.config.initFails
               /\ fleet' = Put(f, w, [worker EXCEPT
                      !.stage = "attaching", !.failed = failed,
                      !.outbound = IF w = 0 /\ f.phase = "probing"
                                   THEN Append(@, "probe") ELSE @])

Attach(w) ==
    LET worker == fleet.workers[w]
    IN  /\ worker.stage = "attaching" /\ worker.inbound # <<>>
        /\ fleet' = Put(fleet, w, [worker EXCEPT
               !.inbound = Tail(@), !.told = Head(worker.inbound) = "stop",
               !.stage = IF Head(worker.inbound) = "stop" THEN "ended" ELSE "polling"])

Stop(w) ==
    LET worker == fleet.workers[w]
    IN  /\ worker.stage = "polling" /\ worker.inbound # <<>>
        /\ fleet' = Put(fleet, w, [worker EXCEPT
               !.inbound = Tail(@), !.told = TRUE, !.stage = "ended"])

TryRecv(w) ==
    LET worker == fleet.workers[w]
    IN  /\ worker.stage = "polling" /\ worker.inbound = <<>> /\ worker.dispatches # <<>>
        /\ fleet' = Put(fleet, w, [worker EXCEPT
               !.dispatches = Tail(@), !.job = Head(worker.dispatches),
               !.stage = "evaluating"])

(* A command ends with a value or with its exception.                      *)
Evaluate(w) ==
    LET worker == fleet.workers[w]
    IN  /\ worker.stage = "evaluating"
        /\ \E status \in {0, 1} :
               /\ worker.failed => status = 1
               /\ fleet' = Put(fleet, w, [worker EXCEPT !.status = status,
                                                        !.stage = "publishing"])

Publishable(f, w) == Fallback(f) \/ Len(f.workers[w].completions) < Room

(* try_complete_*: the slot is written, then the completion is queued.     *)
Publish(w) ==
    LET f == fleet
        worker == f.workers[w]
    IN  /\ worker.stage = "publishing" /\ Publishable(f, w)
        /\ fleet' = [f EXCEPT
               !.workers[w] = [worker EXCEPT
                    !.completions = Append(@, Completion(worker.job, worker.status)),
                    !.stage = IF f.config.batches THEN "signalling" ELSE "polling",
                    !.job = IF f.config.batches THEN @ ELSE NoCommand],
               !.arena[w][worker.job.slot] = worker.job.position]

(* Seeded defect: the signal goes out before its completion.               *)
SignalFirst(worker) == worker.stage \in {"publishing", "signalling"}

Signalling(worker) == worker.stage = "signalling"

Signal(w) ==
    LET worker == fleet.workers[w]
    IN  /\ Signalling(worker)
        /\ fleet' = Put(fleet, w, [worker EXCEPT
               !.outbound = Append(@, "ready"), !.job = NoCommand, !.stage = "polling"])

(* worker.py:317-320: with no room to publish, a stop is read, and the     *)
(* loop of commands goes on without it.                                    *)
StopWhilePublishing(w) ==
    LET worker == fleet.workers[w]
    IN  /\ worker.stage = "publishing" /\ ~Publishable(fleet, w)
        /\ worker.inbound # <<>>
        /\ fleet' = Put(fleet, w, [worker EXCEPT
               !.inbound = Tail(@), !.told = TRUE, !.job = NoCommand,
               !.stage = "polling"])

Die(w) ==
    /\ fleet.deaths < MaxDeaths /\ fleet.phase # "closed"
    /\ Alive(fleet.workers[w])
    /\ fleet' = [fleet EXCEPT !.workers[w].stage = "dead", !.deaths = @ + 1]

-----------------------------------------------------------------------------
(* The owner.                                                              *)

(* WorkerSet.close: a stop for everyone that can still be told.            *)
Stopped(f) ==
    [f EXCEPT !.phase = "joining", !.pending = {},
              !.workers = [w \in Workers |->
                  IF Alive(@[w]) THEN [@[w] EXCEPT !.inbound = Append(@, "stop")]
                  ELSE @[w]]]

(* WorkerSet.abort: every live worker is terminated.                       *)
Aborted(f) ==
    [f EXCEPT !.phase = "closed", !.pending = {},
              !.workers = [w \in Workers |->
                  IF Alive(@[w]) THEN [@[w] EXCEPT !.stage = "dead"] ELSE @[w]]]

(* _receive_probe and attach_all: a worker that died before it was         *)
(* attached breaks the pipe, and the constructor closes what it has.       *)
ReceiveProbe ==
    LET f == fleet
        reached == {w \in Workers : \A v \in 0 .. w : Alive(f.workers[v])}
        attached == [f EXCEPT !.workers = [w \in Workers |-> [@[w] EXCEPT
                        !.inbound = IF w \in reached THEN Append(@, "attach") ELSE @,
                        !.outbound = <<>>]]]
    IN  /\ f.phase = "probing" /\ f.workers[0].outbound # <<>>
        /\ fleet' = IF reached = Workers THEN [attached EXCEPT !.phase = "open"]
                    ELSE Stopped(attached)

ProbeLost ==
    /\ fleet.phase = "probing" /\ fleet.workers[0].stage = "dead"
    /\ fleet.workers[0].outbound = <<>>
    /\ fleet' = Aborted(fleet)

(* try_submit: the schedule turns over its live routes, which may be fewer *)
(* than the workers.                                                       *)
Submit ==
    LET f == fleet
        w == f.next % f.config.routes
    IN  /\ f.phase = "open" /\ f.next < Commands /\ Submittable(f, w)
        /\ fleet' = [Sent(f, w, f.next) EXCEPT !.next = @ + 1]

(* try_receive: with batches only what was signalled is looked for.        *)
Receive(w) ==
    LET f == fleet
    IN  /\ f.phase = "open" /\ f.workers[w].completions # <<>>
        /\ f.config.batches => f.signals[w] > 0
        /\ fleet' = [Taken(f, w) EXCEPT
               !.signals[w] = IF f.config.batches THEN @ - 1 ELSE @]

(* wait_for_completion: the pipes are drained.                             *)
WaitForCompletion ==
    LET f == fleet
    IN  /\ f.phase = "open"
        /\ \E w \in Workers : f.workers[w].outbound # <<>>
        /\ fleet' = [f EXCEPT
               !.signals = [w \in Workers |-> @[w] +
                   (IF f.config.batches THEN Len(f.workers[w].outbound) ELSE 0)],
               !.workers = [w \in Workers |-> [@[w] EXCEPT !.outbound = <<>>]]]

Sends(f, w, positions) == FoldLeft(LAMBDA g, p : Sent(g, w, p), f, positions)

Lost(f, w) == SetToSortSeq({c.position : c \in PendingOf(f, w)}, <)

(* restart_worker: the process is replaced and its commands sent again.    *)
Restart(w) ==
    LET f == fleet
        replaced == Reclaimed(f, w)
        attached == [replaced EXCEPT !.workers[w].inbound = <<"attach">>,
                                     !.signals[w] = 0]
    IN  /\ f.phase = "open" /\ f.config.restarts /\ f.workers[w].stage = "dead"
        /\ fleet' = IF Fallback(f) \/ Len(Lost(f, w)) <= Room
                    THEN Sends(attached, w, Lost(f, w))
                    ELSE Stopped(attached)

(* check_worker: the pool ends with its worker.                            *)
CloseOnDeath ==
    LET f == fleet
    IN  /\ f.phase = "open" /\ ~f.config.restarts
        /\ \E w \in Workers : f.workers[w].stage = "dead"
        /\ fleet' = Aborted(f)

Close ==
    /\ fleet.phase = "open"
    /\ fleet' = Stopped(fleet)

(* join, terminate after SHUTDOWN_SECONDS.  The bound is for a process     *)
(* that does not answer: here, one that read its stop and went on.         *)
Terminate(w) ==
    LET worker == fleet.workers[w]
    IN  /\ fleet.phase = "joining" /\ Alive(worker) /\ worker.told
        /\ fleet' = Put(fleet, w, [worker EXCEPT !.stage = "dead"])

Joined ==
    /\ fleet.phase = "joining"
    /\ \A w \in Workers : ~Alive(fleet.workers[w])
    /\ fleet' = [fleet EXCEPT !.phase = "closed"]

WorkerStep(w) ==
    \/ StartUp(w) \/ Attach(w) \/ Stop(w) \/ TryRecv(w) \/ Evaluate(w)
    \/ Publish(w) \/ Signal(w) \/ StopWhilePublishing(w)

FleetOwnerStep ==
    \/ ReceiveProbe \/ ProbeLost \/ WaitForCompletion \/ CloseOnDeath \/ Joined
    \/ \E w \in Workers : Receive(w) \/ Restart(w) \/ Terminate(w)

FleetNext ==
    \/ FleetOwnerStep \/ Submit \/ Close
    \/ \E w \in Workers : WorkerStep(w) \/ Die(w)

-----------------------------------------------------------------------------

Holds(worker, position) ==
    LET mine(command) == command.position = position
    IN  Len(SelectSeq(worker.dispatches, mine))
        + (IF worker.job.position = position /\ worker.stage # "signalling"
           THEN 1 ELSE 0)
        + Len(SelectSeq(worker.completions, LAMBDA c : mine(c.command)))

(* process/pool.py:292 "worker completed an unknown command coordinate":   *)
(* a command that was accepted is in exactly one place of its worker until *)
(* it is received, once, whatever died and was replaced in between; a slot *)
(* is free or lent to one of them, and what is read from it is the result  *)
(* of the command it was lent to.                                          *)
CommandsKept ==
    fleet.phase = "open" =>
        /\ fleet.own
        /\ \A p \in 0 .. fleet.next - 1 :
               fleet.received[p]
               + Cardinality({c \in fleet.pending : c.position = p}) = 1
        /\ \A c \in fleet.pending :
               Alive(fleet.workers[c.worker]) =>
                   Holds(fleet.workers[c.worker], c.position) = 1
        /\ Fallback(fleet) => \A w \in Workers :
               LET lent == {c.slot : c \in PendingOf(fleet, w)}
               IN  /\ IsInjective(fleet.free[w])
                   /\ ToSet(fleet.free[w]) \cap lent = {}
                   /\ ToSet(fleet.free[w]) \cup lent = Slots
                   /\ Cardinality(PendingOf(fleet, w)) = Cardinality(lent)

(* process/pool.py:287 "worker signaled a completion before publishing     *)
(* it": the signals counted and on their way are the completions, so that  *)
(* none is looked for too early and none is left behind.                   *)
SignalsPublished ==
    fleet.phase = "open" /\ fleet.config.batches => \A w \in Workers :
        LET worker == fleet.workers[w]
        IN  Alive(worker) =>
            fleet.signals[w] + Len(SelectSeq(worker.outbound, LAMBDA m : m = "ready"))
            + (IF worker.stage = "signalling" THEN 1 ELSE 0) = Len(worker.completions)

(* process/worker.py:297, "Retry bounded completion publication while      *)
(* preserving shutdown": a worker that has read its stop does nothing      *)
(* more.                                                                   *)
StopHonoured ==
    \A w \in Workers : fleet.workers[w].told => ~Alive(fleet.workers[w])
===============================================================================
