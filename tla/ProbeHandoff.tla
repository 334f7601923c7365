----------------------------- MODULE ProbeHandoff -----------------------------
(***************************************************************************)
(* python/hyperloader/process: the first sample of a plan is evaluated by  *)
(* worker zero while the pool is built, to size the transport, and is then *)
(* delivered instead of evaluating it again: by the owner when commands    *)
(* are samples, by worker zero when they are batches.  The pool outlives   *)
(* its iterators, so what was probed may meet any later epoch.             *)
(***************************************************************************)
EXTENDS Integers, Sequences, FiniteSets

CONSTANTS
    HandoffWorkers,     \* worker_count
    HandoffLength,      \* commands of an epoch
    MaxHandoffEvents    \* bound on iterators, epochs set and states loaded

VARIABLE handoff

None == [none |-> TRUE]

Workers == 0 .. HandoffWorkers - 1

Positions == 0 .. HandoffLength - 1

(* The epochs whose random streams evaluated the first sample of a command *)
(* and its others.                                                         *)
Value(position, first, rest) ==
    [position |-> position, first |-> first, rest |-> rest]

Fresh(position, epoch) == Value(position, epoch, epoch)

(* EpochState.                                                             *)
StartingEpoch == [current |-> 0, active |-> -1, delivered |-> FALSE,
                  override |-> FALSE]

BeginIteration(e) ==
    LET current == IF ~e.override /\ e.delivered THEN e.current + 1 ELSE e.current
    IN  [current |-> current, active |-> current, delivered |-> FALSE,
         override |-> FALSE]

CompleteEpoch(e, epoch) ==
    IF e.active # epoch THEN e
    ELSE [e EXCEPT !.current = IF ~e.override /\ @ = epoch THEN @ + 1 ELSE @,
                   !.active = -1, !.delivered = FALSE]

MarkDelivered(e, epoch) == [e EXCEPT !.delivered = @ \/ e.active = epoch]

(* ProcessPool.__init__: the probe is of the loader's epoch, at the first  *)
(* position of the plan or at the first one a sampler will give.           *)
NewPool(epoch, at) ==
    [key |-> epoch, at |-> at, retained |-> TRUE, kept |-> TRUE, immediate |-> <<>>,
     queues |-> [w \in Workers |-> <<>>], results |-> [w \in Workers |-> <<>>],
     turn |-> 0]

(* has_pending: what was submitted to a worker and not received.           *)
HasPending(pool) ==
    \E w \in Workers : pool.queues[w] # <<>> \/ pool.results[w] # <<>>

(* Seeded defect: a pool with pending commands is used again.              *)
KeptWhilePending(pool, epoch, at) ==
    IF pool = None THEN NewPool(epoch, at) ELSE pool

(* prepare_process_pool.                                                   *)
Prepared(pool, epoch, at) ==
    IF pool = None \/ HasPending(pool) THEN NewPool(epoch, at) ELSE pool

(* The constructor prepares the pool, except for a user's sampler.         *)
HandoffInit(config) ==
    handoff = [config |-> config,
               pool |-> IF config.kind = "execute" THEN None ELSE NewPool(0, 0),
               epochs |-> StartingEpoch, cursor |-> 0, it |-> None,
               calling |-> FALSE, own |-> TRUE, error |-> "none", spent |-> 0]

HandoffUnused == handoff = None

-----------------------------------------------------------------------------
(* Commands.                                                               *)

(* Seeded defect: any epoch's first command takes what was probed.         *)
AnyEpoch(pool, epoch, position) == pool.retained /\ position = pool.at

(* The key of the probe: its epoch, its coordinate and its index.          *)
IsProbed(pool, epoch, position) ==
    pool.retained /\ epoch = pool.key /\ position = pool.at

Failed(h, error) == [h EXCEPT !.error = error, !.it = None, !.pool = None, !.calling = FALSE]

(* ProcessPool.try_submit: nothing is sent for a sample that was probed.   *)
Submitted(h, epoch, position, worker) ==
    LET probed == IsProbed(h.pool, epoch, position)
        command == [epoch |-> epoch, position |-> position]
    IN  IF probed /\ h.config.kind # "batches"
        THEN IF worker # 0 THEN Failed(h, "routing")
             ELSE [h EXCEPT
                     !.pool.immediate = Append(@, Fresh(position, h.pool.key)),
                     !.pool.retained = FALSE]
        ELSE [h EXCEPT !.pool.queues[worker] = Append(@, command),
                       !.pool.retained = @ /\ ~probed]

Open(h) ==
    {p \in h.it.base .. h.it.base + h.config.depth - 1 :
         p \in Positions /\ p \notin DOMAIN h.it.sent}

(* One round of the loop; retained_probe_command goes first, while the     *)
(* turn is worker zero's.                                                  *)
FillRound(h) ==
    LET position == CHOOSE p \in Open(h) : \A q \in Open(h) : p <= q
        worker == h.it.ordinal % HandoffWorkers
        sent == Submitted(h, h.it.epoch, position, worker)
    IN  IF h.it = None THEN h
        ELSE IF Open(h) = {} THEN h
        ELSE IF sent.it = None THEN sent
        ELSE [sent EXCEPT
                !.it.ordinal = @ + 1,
                !.it.sent = [p \in DOMAIN @ \cup {position} |->
                                IF p = position THEN worker ELSE @[p]]]

(* _fill_frontier: no more rounds than there are positions.                *)
Filled(h) ==
    LET round[i \in 0 .. HandoffLength] ==
            IF i = 0 THEN h ELSE FillRound(round[i - 1])
    IN  round[HandoffLength]

(* worker.py, evaluate_dispatch: a batch with the first sample takes the   *)
(* value of the probe, if this is the worker that has it.                  *)
Evaluated(pool, worker, command) ==
    IF command.position = 0 /\ worker = 0 /\ pool.kept
    THEN Value(0, pool.key, command.epoch)
    ELSE Fresh(command.position, command.epoch)

Evaluate(w) ==
    LET h == handoff
        command == Head(h.pool.queues[w])
    IN  /\ h.pool # None /\ h.pool.queues[w] # <<>>
        /\ handoff' = [h EXCEPT
               !.pool.queues[w] = Tail(@),
               !.pool.results[w] = Append(@,
                   IF h.config.kind = "batches" THEN Evaluated(h.pool, w, command)
                   ELSE Fresh(command.position, command.epoch)),
               !.pool.kept = @ /\ ~(h.config.kind = "batches" /\ w = 0
                                    /\ command.position = 0)]

-----------------------------------------------------------------------------
(* The iterators.                                                          *)

NewIterator(epoch, cursor) ==
    [epoch |-> epoch, base |-> cursor, ordinal |-> 0, sent |-> <<>>,
     ready |-> {}]

(* DataLoader.__iter__: a live iterator that is not complete closes the    *)
(* loader, one that was dropped leaves the pool to prepare_process_pool.   *)
Iterate(dropped) ==
    LET h == handoff
        epochs == BeginIteration(h.epochs)
        left == IF h.it = None \/ dropped THEN h.pool ELSE None
        at == IF h.config.kind = "execute" THEN h.cursor ELSE 0
        begun == [h EXCEPT !.epochs = epochs, !.cursor = 0, !.spent = @ + 1,
                           !.pool = Prepared(left, epochs.current, at),
                           !.it = NewIterator(epochs.current, h.cursor)]
    IN  /\ ~h.calling /\ h.spent < MaxHandoffEvents
        /\ handoff' = IF h.config.kind = "execute" THEN begun ELSE Filled(begun)

CallNext ==
    /\ handoff.it # None /\ ~handoff.calling /\ handoff.it.base < HandoffLength
    /\ handoff' = [handoff EXCEPT !.calling = TRUE]

(* The schedule refuses a completion that it does not wait for.            *)
Completed(h, value, worker) ==
    LET position == value.position
    IN  IF position \notin DOMAIN h.it.sent
            \/ (\E v \in h.it.ready : v.position = position)
            \/ h.it.sent[position] # worker
        THEN Failed(h, "frontier")
        ELSE [h EXCEPT !.it.ready = @ \cup {value}]

(* try_receive: what the owner holds for worker zero comes first.          *)
Received(h, w) ==
    IF h.it = None THEN h
    ELSE IF w = 0 /\ h.pool.immediate # <<>>
    THEN Completed([h EXCEPT !.pool.immediate = Tail(@)],
                   Head(h.pool.immediate), 0)
    ELSE IF h.pool.results[w] # <<>>
    THEN Completed([h EXCEPT !.pool.results[w] = Tail(@)],
                   Head(h.pool.results[w]), w)
    ELSE h

IsReady(h) == \E value \in h.it.ready : value.position = h.it.base

(* _poll_completions: at most one of every worker, in their order.         *)
Poll ==
    LET h == handoff
        polled[n \in 0 .. HandoffWorkers] ==
            IF n = 0 THEN h ELSE Received(polled[n - 1], n - 1)
    IN  /\ h.calling /\ h.config.kind # "execute" /\ ~IsReady(h)
        /\ handoff' = polled[HandoffWorkers]

Given(h, value) ==
    [h EXCEPT !.it.base = @ + 1, !.calling = FALSE,
              !.epochs = MarkDelivered(@, h.it.epoch),
              !.own = @ /\ value = Fresh(h.it.base, h.it.epoch)]

(* In the order of the positions: try_commit, then the frontier moves.     *)
Deliver ==
    LET h == handoff
    IN  /\ h.calling /\ h.config.kind # "execute"
        /\ \E value \in h.it.ready :
               /\ value.position = h.it.base
               /\ handoff' = Filled([Given(h, value) EXCEPT
                      !.it.ready = @ \ {value},
                      !.it.sent = [p \in DOMAIN @ \ {value.position} |-> @[p]]])

(* ProcessPool.execute, for a user's sampler: the workers take turns, and  *)
(* the owner waits for the answer.                                         *)
Execute ==
    LET h == handoff
        position == h.it.base
        sent == Submitted(h, h.it.epoch, position, h.pool.turn)
        value == IF sent.pool.immediate # <<>> THEN Head(sent.pool.immediate)
                 ELSE Fresh(position, h.it.epoch)
    IN  /\ h.calling /\ h.config.kind = "execute"
        /\ handoff' =
               IF sent.it = None THEN sent
               ELSE [Given(sent, value) EXCEPT
                        !.pool.turn = (@ + 1) % HandoffWorkers,
                        !.pool.immediate = <<>>, !.pool.queues = h.pool.queues]

Finish ==
    /\ handoff.it # None /\ handoff.it.base = HandoffLength
    /\ handoff' = [handoff EXCEPT
           !.epochs = CompleteEpoch(@, handoff.it.epoch), !.it = None]

SetEpoch ==
    /\ handoff.config.moves /\ ~handoff.calling
    /\ handoff.spent < MaxHandoffEvents
    /\ \E epoch \in 0 .. 1 :
           handoff' = [handoff EXCEPT !.epochs.current = epoch, !.cursor = 0,
                                      !.epochs.override = TRUE, !.spent = @ + 1]

(* load_state_dict closes the loader, then restores the coordinate.        *)
Load ==
    /\ handoff.config.loads /\ ~handoff.calling
    /\ handoff.spent < MaxHandoffEvents
    /\ handoff' = [handoff EXCEPT
           !.it = None, !.pool = None, !.cursor = 1, !.spent = @ + 1,
           !.epochs.current = 0, !.epochs.override = TRUE]

HandoffNext ==
    \/ \E dropped \in BOOLEAN : Iterate(dropped)
    \/ CallNext \/ Poll \/ Deliver \/ Execute \/ Finish \/ SetEpoch \/ Load
    \/ \E w \in Workers : Evaluate(w)

-----------------------------------------------------------------------------

(* process/worker.py:267, "Run one black-box sample under its exact RNG    *)
(* and worker view": every value delivered was evaluated for the epoch and *)
(* the position it is delivered at, the one of the probe too.              *)
ValuesOwnEpoch == handoff.own

(* process/pool.py:221 and fallback/schedule.py:62: a probed command is    *)
(* never routed away from worker zero, and no completion comes that the    *)
(* frontier does not wait for; either would close the loader.              *)
HandoffAccepted == handoff.error = "none"
===============================================================================
