---------------------------- MODULE ProcessDelivery ----------------------------
(***************************************************************************)
(* One process iterator over its pool (python/hyperloader/process): the    *)
(* consumer's loop of filling, committing, polling, checking and waiting,  *)
(* the worker processes behind one dispatch and one completion ring each,  *)
(* their death, and the two policies for it.  The frontier is the module   *)
(* StaticSchedule; a ring is the bounded queue RingQueue implements; the   *)
(* slots behind a command are the fresh reservations of ArenaAllocator.    *)
(*                                                                         *)
(* A position is a sample, or a whole batch where the transport carries    *)
(* batches (then BatchSize is 1).                                          *)
(***************************************************************************)
EXTENDS StaticSchedule, SequencesExt

CONSTANTS
    BatchSize,          \* samples per delivered batch
    Capacity,           \* queue_capacity of each ring
    CostOrdered,        \* a cost profile chooses the dispatch order
    UserCollation,      \* commands carry a user collation
    Policies,           \* on_worker_death: a loader has one of these
    Timed,              \* the loader has a timeout
    MaxDeaths           \* bound on worker deaths

ASSUME DeliveryAssumption ==
    /\ BatchSize \in Nat \ {0} /\ Capacity \in Nat \ {0} /\ MaxDeaths \in Nat
    /\ Start % BatchSize = 0
    /\ BatchSize <= InitialDepth            \* sizing.py, frontier_minimum
    /\ {CostOrdered, UserCollation, Timed} \subseteq BOOLEAN
    /\ Policies \subseteq {"restart", "close"}

VARIABLES
    step,           \* where the iterator's thread is
    position,       \* _position: samples handed out, counted from 0
    batch,          \* samples of the batch being assembled
    ready_batches,  \* on-completion: batches queued as whole
    served,         \* observation: the batches __next__ returned
    sweep,          \* next worker _poll_completions asks
    progressed,     \* whether this sweep received anything
    replay,         \* commands a restart has still to submit, per worker
    pending,        \* commands the pool waits for: <<worker, position>>
    ready,          \* _ready: position -> stage its result came from
    dispatches, completions,    \* the rings
    job,            \* the command each worker is executing
    alive,
    deaths,
    outcome,        \* "open", or why the loader was closed
    policy          \* the loader's on_worker_death

pool == <<pending, ready, dispatches, completions, job, alive, deaths>>
consumer == <<step, position, batch, ready_batches, served, sweep, progressed,
              replay, outcome>>
system == <<vars, pool, consumer, policy>>

Asked == IF UserCollation THEN "collate" ELSE "sample"
Command == [position : Position, stage : {"sample", "collate"}]
Idle == [position |-> End, stage |-> "none"]

Steps == {"open", "prime", "user", "fill", "commit", "poll", "check", "wait",
          "replay", "refill", "done"}

(* ProcessIterator.__init__ up to its first fill.                          *)
DeliveryInit ==
    /\ Init
    /\ step = "open"
    /\ position = Start + Cardinality(Restored)
    /\ batch = << >> /\ ready_batches = << >> /\ served = << >>
    /\ sweep = 0 /\ progressed = FALSE
    /\ replay = [w \in Worker |-> {}]
    /\ pending = {}
    /\ ready = [p \in Position |-> "missing"]
    /\ dispatches = [w \in Worker |-> << >>]
    /\ completions = [w \in Worker |-> << >>]
    /\ job = [w \in Worker |-> Idle]
    /\ alive = [w \in Worker |-> TRUE]
    /\ deaths = 0
    /\ outcome = "open"
    /\ policy \in Policies

Goto(s) == step' = s
Close(why) == Goto("done") /\ outcome' = why

OpenIterator ==
    /\ step = "open"
    /\ \E n \in 1..WorkerCeiling : SetWorkerCount(n)
    /\ Goto("prime")
    /\ UNCHANGED <<pool, position, batch, ready_batches, served, sweep,
                   progressed, replay, outcome>>

-----------------------------------------------------------------------------
(* The fill loop: one submission per step, so workers may run in between.  *)

Filling == step \in {"prime", "fill", "refill"}

NextDispatch(p) ==
    /\ p \in DispatchCandidates
    /\ ~CostOrdered => \A q \in DispatchCandidates : p <= q

FillOne(p) ==
    /\ Filling
    /\ NextDispatch(p)
    /\ Len(dispatches[Route]) < Capacity
    /\ dispatches' = [dispatches EXCEPT ![Route] =
                         Append(@, [position |-> p, stage |-> Asked])]
    /\ pending' = pending \cup {<<Route, p>>}
    /\ MarkDispatched(p)
    /\ UNCHANGED <<consumer, ready, completions, job, alive, deaths>>

(* The samples of the batch that starts at p.                              *)
BatchFrom(p) == p..((IF p + BatchSize < End THEN p + BatchSize ELSE End) - 1)

(* After the fill that follows a commit, the rest of the batch.            *)
Assembled == batch # << >> /\ Cardinality(BatchFrom(batch[1])) = Len(batch)

Deliver ==
    /\ served' = Append(served, batch)
    /\ position' = position + Len(batch)
    /\ batch' = << >>
    /\ Goto("user")
    /\ IF position' < End           \* _adapt_controller
       THEN UNCHANGED vars \/ \E n \in 1..WorkerCeiling : SetWorkerCount(n)
       ELSE UNCHANGED vars

(* Every admitted position was sent, or the first ring in turn was full.   *)
FillEnds ==
    /\ Filling
    /\ DispatchCandidates = {} \/ Len(dispatches[Route]) >= Capacity
    /\ \/ /\ step = "refill" /\ Assembled
          /\ Deliver
       \/ /\ ~(step = "refill" /\ Assembled)
          /\ Goto(CASE step = "prime" -> "user"
                    [] step = "fill" -> "commit"
                    [] step = "refill" -> "fill")
          /\ UNCHANGED <<vars, served, position, batch>>
    /\ UNCHANGED <<pool, ready_batches, sweep, progressed, replay, outcome>>

(* The user asks for a value.                                              *)
CallNext ==
    /\ step = "user"
    /\ Goto(IF position >= End THEN "done" ELSE "fill")
    /\ UNCHANGED <<vars, pool, position, batch, ready_batches, served, sweep,
                   progressed, replay, outcome>>

-----------------------------------------------------------------------------
(* Committing *)

Expected == position + Len(batch)

(* Strict: the scheduler must hand out the position __next__ is at.        *)
CommitNext ==
    /\ InOrder
    /\ \E p \in Position :
        /\ Commit(p)
        /\ ready[p] # "missing"
        /\ ready' = [ready EXCEPT ![p] = "missing"]
        /\ IF p = Expected
           THEN Goto("refill") /\ batch' = Append(batch, p)
                /\ UNCHANGED outcome
           ELSE Close("noncontiguous") /\ UNCHANGED batch
    /\ UNCHANGED ready_batches

(* Seeded defect: a queued batch is filled with whatever is ready.         *)
TakeAnyReady ==
    /\ ~InOrder
    /\ ready_batches # << >>
    /\ \E p \in Position :
        /\ ready[p] # "missing"
        /\ Commit(p)
        /\ ready' = [ready EXCEPT ![p] = "missing"]
        /\ batch' = Append(batch, p)
        /\ LET full == Len(batch') = BatchSize
           IN  /\ ready_batches' = IF full THEN Tail(ready_batches)
                                           ELSE ready_batches
               /\ Goto(IF full THEN "refill" ELSE "commit")
    /\ UNCHANGED outcome

(* On completion: the samples of the batch queued first, one by one.       *)
TakeReady ==
    /\ ~InOrder
    /\ ready_batches # << >>
    /\ \E p \in Position :
        /\ p = Head(ready_batches) * BatchSize + Len(batch)
        /\ ready[p] # "missing"
        /\ Commit(p)
        /\ ready' = [ready EXCEPT ![p] = "missing"]
        /\ batch' = Append(batch, p)
        /\ IF Len(batch') = Cardinality(BatchFrom(Head(ready_batches) * BatchSize))
           THEN ready_batches' = Tail(ready_batches) /\ Goto("refill")
           ELSE UNCHANGED <<ready_batches, step>>
    /\ UNCHANGED outcome

Take ==
    /\ step = "commit"
    /\ CommitNext \/ TakeReady
    /\ UNCHANGED <<position, served, sweep, progressed, replay, pending,
                   dispatches, completions, job, alive, deaths>>

NothingReady ==
    /\ step = "commit"
    /\ IF InOrder THEN \A p \in Position : p = next_commit =>
                                              positions[p].state # "ready"
                  ELSE ready_batches = << >>
    /\ Goto("poll") /\ sweep' = 0 /\ progressed' = FALSE
    /\ UNCHANGED <<vars, pool, position, batch, ready_batches, served, replay,
                   outcome>>

-----------------------------------------------------------------------------
(* _poll_completions: one completion at most from each worker in turn.     *)

(* Seeded defect: only the last sample of a batch can complete it.         *)
ObserveLast(p) ==
    LET ordinal == p \div BatchSize
    IN  ready_batches' =
            IF InOrder \/ p + 1 \in BatchFrom(ordinal * BatchSize)
                       \/ \E q \in BatchFrom(ordinal * BatchSize) :
                              q # p /\ ready[q] = "missing"
            THEN ready_batches ELSE Append(ready_batches, ordinal)

(* CompletionBatchDelivery.observe: a whole batch is queued once.          *)
Observe(p) ==
    LET ordinal == p \div BatchSize
        whole == \A q \in BatchFrom(ordinal * BatchSize) :
                     q = p \/ ready[q] # "missing"
    IN  ready_batches' =
            IF InOrder \/ ordinal \in ToSet(ready_batches) \/ ~whole
            THEN ready_batches ELSE Append(ready_batches, ordinal)

Receive(w) ==
    /\ completions[w] # << >>
    /\ completions' = [completions EXCEPT ![w] = Tail(@)]
    /\ \E p \in Position :
        /\ p = Head(completions[w]).position
        /\ \/ /\ <<w, p>> \in pending
              /\ MarkCompleted(p, w)
              /\ pending' = pending \ {<<w, p>>}
              /\ ready' = [ready EXCEPT ![p] = Head(completions[w]).stage]
              /\ Observe(p)
              /\ sweep' = sweep + 1 /\ progressed' = TRUE
              /\ UNCHANGED <<step, outcome>>
           \/ /\ \/ <<w, p>> \notin pending
                 \/ positions[p] # [state |-> "dispatched", worker |-> w]
              /\ Close("unknown")
              /\ UNCHANGED <<vars, pending, ready, ready_batches, sweep,
                             progressed>>

PollWorker(w) ==
    /\ step = "poll" /\ sweep = w
    /\ \/ Receive(w)
       \/ /\ completions[w] = << >>
          /\ sweep' = sweep + 1
          /\ UNCHANGED <<vars, pending, ready, completions, ready_batches, step,
                         progressed, outcome>>
    /\ UNCHANGED <<position, batch, served, replay, dispatches, job, alive,
                   deaths>>

PollEnds ==
    /\ step = "poll" /\ sweep = WorkerCeiling
    /\ Goto(IF progressed THEN "fill" ELSE "check")
    /\ UNCHANGED <<vars, pool, position, batch, ready_batches, served, sweep,
                   progressed, replay, outcome>>

-----------------------------------------------------------------------------
(* check_workers and wait_for_completion *)

AllAlive ==
    /\ step = "check"
    /\ \A w \in Worker : alive[w]
    /\ Goto("wait")
    /\ UNCHANGED <<vars, pool, position, batch, ready_batches, served, sweep,
                   progressed, replay, outcome>>

(* The deadline is tested after the first worker was found alive.          *)
Timeout ==
    /\ Timed
    /\ step = "check" /\ alive[0]
    /\ Close("timeout")
    /\ UNCHANGED <<vars, pool, position, batch, ready_batches, served, sweep,
                   progressed, replay>>

PendingOf(w) == {p \in Position : <<w, p>> \in pending}

(* Seeded defect: the replacement is attached to the dead worker's rings.  *)
ReplaceKeepingRings(w) ==
    /\ alive' = [alive EXCEPT ![w] = TRUE]
    /\ pending' = {c \in pending : c[1] # w}
    /\ replay' = [replay EXCEPT ![w] = PendingOf(w)]
    /\ UNCHANGED <<dispatches, completions>>

(* Seeded defect: the reclaimed commands are forgotten.                    *)
ReplaceWithoutReplay(w) ==
    /\ alive' = [alive EXCEPT ![w] = TRUE]
    /\ pending' = {c \in pending : c[1] # w}
    /\ dispatches' = [dispatches EXCEPT ![w] = << >>]
    /\ completions' = [completions EXCEPT ![w] = << >>]
    /\ UNCHANGED replay

(* restart_worker: reclaim what the worker held, replace rings and process.*)
Replace(w) ==
    /\ alive' = [alive EXCEPT ![w] = TRUE]
    /\ pending' = {c \in pending : c[1] # w}
    /\ replay' = [replay EXCEPT ![w] = PendingOf(w)]
    /\ dispatches' = [dispatches EXCEPT ![w] = << >>]
    /\ completions' = [completions EXCEPT ![w] = << >>]

(* A dead process: found by is_alive, or while waiting by the closed pipe. *)
DeathNoticed(w) ==
    /\ step \in {"check", "wait"} /\ ~alive[w]
    /\ \/ policy = "restart" /\ Replace(w) /\ Goto("replay") /\ UNCHANGED outcome
       \/ /\ policy = "close" /\ Close("died")
          /\ UNCHANGED <<alive, pending, replay, dispatches, completions>>
    /\ UNCHANGED <<vars, ready, job, deaths, position, batch, ready_batches,
                   served, sweep, progressed>>

(* The commands of a dead worker go out again in position order, as        *)
(* black-box commands, to a replacement that may already take them.        *)
ReplayOne(w) ==
    /\ step = "replay"
    /\ \E p \in replay[w] :
        /\ \A q \in replay[w] : p <= q
        /\ \/ /\ Len(dispatches[w]) < Capacity
              /\ dispatches' = [dispatches EXCEPT ![w] = Append(@,
                                    [position |-> p, stage |-> "sample"])]
              /\ pending' = pending \cup {<<w, p>>}
              /\ replay' = [replay EXCEPT ![w] = @ \ {p}]
              /\ UNCHANGED <<step, outcome>>
           \/ /\ Len(dispatches[w]) >= Capacity
              /\ Close("rejected")
              /\ UNCHANGED <<dispatches, pending, replay>>
    /\ UNCHANGED <<vars, ready, completions, job, alive, deaths, position, batch,
                   ready_batches, served, sweep, progressed>>

(* WorkerDied leaves __next__, and with it the batch being assembled.      *)
WorkerDied ==
    /\ step = "replay" /\ \A w \in Worker : replay[w] = {}
    /\ Goto("user") /\ batch' = << >>
    /\ UNCHANGED <<vars, pool, position, ready_batches, served, sweep,
                   progressed, replay, outcome>>

(* wait_for_completion returns; record_wait grows a saturated frontier.    *)
Wait ==
    /\ step = "wait"
    /\ Goto("fill")
    /\ RecordWait \/ (~(Saturated /\ Grown # depth) /\ UNCHANGED vars)
    /\ UNCHANGED <<pool, position, batch, ready_batches, served, sweep,
                   progressed, replay, outcome>>

-----------------------------------------------------------------------------
(* Worker processes (run_commands) *)

(* Seeded defect: a command is read without being taken off the ring.      *)
TryRecvKeeping(w) ==
    /\ alive[w] /\ job[w] = Idle /\ dispatches[w] # << >>
    /\ job' = [job EXCEPT ![w] = Head(dispatches[w])]
    /\ UNCHANGED <<vars, consumer, pending, ready, dispatches, completions,
                   alive, deaths>>

(* try_recv: the oldest command becomes the worker's job.                  *)
TryRecv(w) ==
    /\ alive[w] /\ job[w] = Idle /\ dispatches[w] # << >>
    /\ job' = [job EXCEPT ![w] = Head(dispatches[w])]
    /\ dispatches' = [dispatches EXCEPT ![w] = Tail(@)]
    /\ UNCHANGED <<vars, consumer, pending, ready, completions, alive, deaths>>

(* Seeded defect: the job is cleared before its record is written.         *)
PublishCleared(w) ==
    /\ alive[w] /\ job[w] # Idle
    /\ Len(completions[w]) < Capacity
    /\ completions' = [completions EXCEPT ![w] = Append(@, Idle)]
    /\ job' = [job EXCEPT ![w] = Idle]
    /\ UNCHANGED <<vars, consumer, pending, ready, dispatches, alive, deaths>>

(* Evaluated, and published once the completion ring has room.             *)
PublishCompletion(w) ==
    /\ alive[w] /\ job[w] # Idle
    /\ Len(completions[w]) < Capacity
    /\ completions' = [completions EXCEPT ![w] = Append(@, job[w])]
    /\ job' = [job EXCEPT ![w] = Idle]
    /\ UNCHANGED <<vars, consumer, pending, ready, dispatches, alive, deaths>>

Die(w) ==
    /\ alive[w] /\ deaths < MaxDeaths
    /\ alive' = [alive EXCEPT ![w] = FALSE]
    /\ job' = [job EXCEPT ![w] = Idle]
    /\ deaths' = deaths + 1
    /\ UNCHANGED <<vars, consumer, pending, ready, dispatches, completions>>

OwnerStep ==
    \/ OpenIterator
    \/ \E p \in Position : FillOne(p)
    \/ FillEnds \/ CallNext \/ Take \/ NothingReady
    \/ (\E w \in Worker : PollWorker(w)) \/ PollEnds
    \/ AllAlive \/ Timeout \/ Wait
    \/ \E w \in Worker : DeathNoticed(w) \/ ReplayOne(w)
    \/ WorkerDied

Owner == OwnerStep /\ UNCHANGED policy

Process(w) ==
    /\ outcome = "open"
    /\ TryRecv(w) \/ PublishCompletion(w)
    /\ UNCHANGED policy

ProcessDies(w) == outcome = "open" /\ Die(w) /\ UNCHANGED policy

Finished == step = "done" /\ UNCHANGED system

DeliveryNext ==
    \/ Owner
    \/ \E w \in Worker : Process(w) \/ ProcessDies(w)
    \/ Finished

DeliverySpec == DeliveryInit /\ [][DeliveryNext]_system

(***************************************************************************)
(* The consumer keeps calling next() and its thread runs; a live worker    *)
(* runs, every sample function returns.  No process has to die.            *)
(***************************************************************************)
FairDelivery ==
    /\ DeliverySpec
    /\ WF_system(Owner)
    /\ \A w \in Worker : WF_system(Process(w))

-----------------------------------------------------------------------------

(* Rings stay within their capacity and every record keeps its type        *)
(* (pool.py, iterator.py); the frontier's types are StaticSchedule's.      *)
DeliveryTypeOK ==
    /\ step \in Steps
    /\ position \in Start..End
    /\ batch \in BoundedSeq(Position, BatchSize)
    /\ ready_batches \in BoundedSeq(0..(End \div BatchSize), End)
    /\ sweep \in 0..WorkerCeiling /\ progressed \in BOOLEAN
    /\ pending \subseteq Worker \X Position
    /\ ready \in [Position -> {"missing", "sample", "collate"}]
    /\ \A w \in Worker :
        /\ {Len(dispatches[w]), Len(completions[w])} \subseteq 0..Capacity
        /\ ToSet(dispatches[w]) \cup ToSet(completions[w]) \subseteq Command
        /\ job[w] \in Command \cup {Idle}
        /\ replay[w] \subseteq Position

CommandsFor(ring, p) == Cardinality({i \in DOMAIN ring : ring[i].position = p})

Copies(w, p) ==
    CommandsFor(dispatches[w], p) + CommandsFor(completions[w], p)
        + CommandsFor(<<job[w]>>, p)

(* No work is lost and none is done twice: a position the scheduler has    *)
(* sent out is one the pool waits for or is about to replay; exactly one   *)
(* copy of its command is in the rings or in the hands of its live worker, *)
(* whatever deaths, restarts and width changes came before; and exactly    *)
(* the ready positions have a result (recovery.py, restart_worker).        *)
WorkConserved ==
    outcome = "open" =>
        \A p \in Position :
            /\ positions[p].state = "ready" <=> ready[p] # "missing"
            /\ \A w \in Worker :
                /\ positions[p] = [state |-> "dispatched", worker |-> w]
                    <=> <<w, p>> \in pending \/ p \in replay[w]
                /\ IF <<w, p>> \notin pending THEN Copies(w, p) = 0
                   ELSE /\ Copies(w, p) <= 1
                        /\ alive[w] => Copies(w, p) = 1

(* The loader is closed by its policies only, never by one of its own      *)
(* consistency checks (try_receive, mark_completed, _next_completion).     *)
NoInternalError == outcome \in {"open", "died", "timeout"}

(* The books of the pool, the schedule and the rings agree through deaths  *)
(* and replays (WorkConserved), and so no check of them fires.             *)
WorkKept == WorkConserved /\ NoInternalError

(* "without changing batch composition" (completion.py): whatever order    *)
(* samples complete in, a batch is the whole run of consecutive samples    *)
(* the sampler put in it.                                                  *)
BatchesWhole ==
    \A i \in DOMAIN served :
        /\ served[i][1] % BatchSize = 0
        /\ Len(served[i]) = Cardinality(BatchFrom(served[i][1]))
        /\ \A j \in DOMAIN served[i] : served[i][j] = served[i][1] + j - 1

Ordinals == [i \in DOMAIN served |-> served[i][1] \div BatchSize]
RestoredBatches == {p \div BatchSize : p \in Restored}

(* Workers, rings, deaths and replays are invisible: the user of the       *)
(* iterator sees the abstract stream of batches, each handed out once, and *)
(* in sampler order unless delivery is on completion (__next__).           *)
BatchStream == INSTANCE OrderedStream
    WITH Start <- Start \div BatchSize,
         End <- (End + BatchSize - 1) \div BatchSize,
         Restored <- RestoredBatches \cup (0..(Start \div BatchSize - 1)),
         taken <- RestoredBatches \cup (0..(Start \div BatchSize - 1))
                      \cup ToSet(Ordinals),
         output <- Ordinals

ServesStream == BatchStream!StreamSpec

(* The loop never livelocks on full rings, a parked worker or a dead one:  *)
(* an epoch ends, with everything delivered unless a policy closed the     *)
(* loader (_next_completion).                                              *)
EpochEnds == <>(step = "done" /\ (outcome = "open" => IsComplete))

(* "Signal one surfaced death after native reclamation and restart"        *)
(* (exceptions.py): a death the restart policy survives leaves an iterator *)
(* whose next calls go on where the last one stopped.                      *)
RestartContinues == outcome # "noncontiguous"

(* "replay every reclaimed reservation" (recovery.py): the replacement's   *)
(* fresh ring has room for all the commands of the dead worker.            *)
ReplayAccepted == outcome # "rejected"

(* A result comes from the command the iterator submitted, also when it    *)
(* was replayed (recovery.py, restart_worker).                             *)
ResultsAsAsked == \A p \in Position : ready[p] \in {"missing", Asked}
==============================================================================
