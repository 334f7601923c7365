---------------------------- MODULE BatchPipeline ----------------------------
(***************************************************************************)
(* python/hyperloader/structured: whole batches made by native threads     *)
(* ahead of the consumer and delivered in order, the first of them kept    *)
(* from the probe of the construction.  With pinned delivery a batch is    *)
(* written into a buffer that is used again once no one refers to it.      *)
(***************************************************************************)
EXTENDS Integers, Sequences, FiniteSets

CONSTANTS
    PipeBatches,        \* batches of an epoch
    Makers,             \* worker_count
    Prefetch,           \* batches ahead, from frontier_depth
    MaxPipeEvents       \* bound on iterators and failures

PipeAssumption == PipeBatches \in Nat /\ Prefetch \in Nat

VARIABLE pipe

None == [none |-> TRUE]

Torn == -1              \* a buffer being written

Host == 0               \* memory that is not of the pinned pool

Made == 0 .. PipeBatches - 1

-----------------------------------------------------------------------------
(* The pinned pool: the owner of each buffer's tensor and what it holds.   *)
(* A "view" keeps the memory in use and not the tensor: the reference      *)
(* count of the tensor does not see it.                                    *)

Buffer(owner, value) == [owner |-> owner, value |-> value]

(* Seeded defect: a result that waits to be delivered counts as free.      *)
FreeOnceMade(buffer) == buffer.owner \in {"none", "view", "result"}

Free(buffer) == buffer.owner \in {"none", "view"}

Acquirable(buffers) == {i \in DOMAIN buffers : Free(buffers[i])}

(* PinnedTensorPool.acquire: the first free one, or one more.              *)
Acquired(buffers) ==
    LET free == Acquirable(buffers)
    IN  IF free = {} THEN Len(buffers) + 1
        ELSE CHOOSE i \in free : \A j \in free : i <= j

Placed(buffers, slot, buffer) ==
    IF slot = Host THEN buffers
    ELSE IF slot > Len(buffers) THEN Append(buffers, buffer)
    ELSE [buffers EXCEPT ![slot] = buffer]

Released(buffers, slots) ==
    [i \in DOMAIN buffers |->
        IF i \in slots THEN Buffer("none", buffers[i].value) ELSE buffers[i]]

-----------------------------------------------------------------------------
(* Tasks of the batch executor; an old one belongs to an iterator that the *)
(* program let go of, and no one waits for it.                             *)

Task(batch, old) == [batch |-> batch, old |-> old]

Running(task, slot) == [task |-> task, slot |-> slot]

Result(batch, slot, ok) == [batch |-> batch, slot |-> slot, ok |-> ok]

NoTasks == [queue |-> <<>>, running |-> {}, results |-> {}]

(* The probe took the first batch, or its error, while the pipeline had no *)
(* epoch.                                                                  *)
PipeInit(config) ==
    pipe = [config |-> config,
            probe |-> IF config.probeFails THEN "error" ELSE "value",
            slot |-> IF config.pinned /\ ~config.probeFails THEN 1 ELSE Host,
            buffers |-> IF config.pinned /\ ~config.probeFails
                        THEN <<Buffer("result", 0)>> ELSE <<>>,
            pinning |-> config.pinned, tasks |-> NoTasks,
            futures |-> {}, next |-> 0, position |-> 0,
            live |-> FALSE, complete |-> FALSE, call |-> "idle",
            held |-> Host, has |-> 0, onHost |-> FALSE, reads |-> [b \in Made |-> 0],
            got |-> 0, resume |-> 0, saved |-> None, spent |-> 0]

PipeUnused == pipe = None

(* Seeded defect: the frontier does not pass over the probed batch.        *)
FrontierFromStart(p) == IF p.position = 0 THEN 0 ELSE p.position

(* Where the frontier of an iterator starts: after a probe it can deliver. *)
RetainedStop(p) ==
    IF p.position = 0 /\ p.probe # "none" THEN 1 ELSE p.position

Ahead(p) == p.next .. PipeBatches - 1

(* _fill_frontier.                                                         *)
Filled(p) ==
    LET room == Prefetch - Cardinality(p.futures)
        new == {b \in Ahead(p) : b - p.next < room}
    IN  [p EXCEPT !.futures = @ \cup new, !.next = @ + Cardinality(new),
                  !.tasks.queue = @ \o [i \in 1 .. Cardinality(new) |->
                                            Task(p.next + i - 1, FALSE)]]

Results(p) == {r.slot : r \in p.tasks.results}

(* begin_native_epoch: the futures are forgotten, not cancelled.           *)
BeginEpoch(p) ==
    Filled([p EXCEPT
        !.tasks = [queue |-> [i \in DOMAIN @.queue |-> [@.queue[i] EXCEPT !.old = TRUE]],
                   running |-> {[r EXCEPT !.task.old = TRUE] : r \in @.running},
                   results |-> {}],
        !.buffers = Released(@, Results(p)),
        !.futures = {}, !.next = RetainedStop(p)])

(* close: the executor is joined, the pool of buffers and the probe are    *)
(* given up.                                                               *)
Closed(p) ==
    [p EXCEPT !.live = FALSE, !.complete = FALSE, !.probe = "none",
              !.slot = Host, !.buffers = <<>>, !.pinning = FALSE,
              !.tasks = NoTasks, !.futures = {}, !.held = Host]

DropProbe(p) ==
    IF p.position = 0 THEN p
    ELSE [p EXCEPT !.probe = "none",
                   !.buffers = Released(@, {p.slot}), !.slot = Host]

(* The iterator is built, and its first batches are under way, before the  *)
(* loader looks at pinned delivery.                                        *)
Iterate ==
    /\ pipe.call = "idle" /\ pipe.spent < MaxPipeEvents
    /\ LET p == IF pipe.live /\ ~pipe.complete THEN Closed(pipe) ELSE pipe
           q == DropProbe([p EXCEPT !.position = p.resume])
       IN  pipe' = [BeginEpoch(q) EXCEPT
                !.live = TRUE, !.complete = FALSE, !.resume = 0,
                !.got = p.resume, !.spent = @ + 1, !.call = "iterate",
                !.reads = [b \in Made |-> IF b = 0 /\ q.probe # "none" THEN 1 ELSE 0]]

(* configure_pinned_delivery.                                              *)
Attach ==
    /\ pipe.call = "iterate"
    /\ pipe' = [pipe EXCEPT !.pinning = pipe.config.pinned, !.call = "idle"]

-----------------------------------------------------------------------------

Read(reads, task) ==
    IF task.old THEN reads ELSE [reads EXCEPT ![task.batch] = @ + 1]

(* A thread has read the samples of a batch and takes a slot for it.       *)
Start ==
    /\ pipe.tasks.queue # <<>>
    /\ Cardinality(pipe.tasks.running) < Makers
    /\ LET task == Head(pipe.tasks.queue)
           slot == IF pipe.pinning THEN Acquired(pipe.buffers) ELSE Host
       IN  pipe' = [pipe EXCEPT
                !.tasks.queue = Tail(@),
                !.tasks.running = @ \cup {Running(task, slot)},
                !.buffers = Placed(@, slot, Buffer("task", Torn)),
                !.reads = Read(@, task)]

(* What a finished task leaves: no one waits for an old one.               *)
Left(task) == Buffer(IF task.old THEN "none" ELSE "result", task.batch)

Yield(r) == IF r.task.old THEN {} ELSE {Result(r.task.batch, r.slot, TRUE)}

End(r) ==
    /\ r \in pipe.tasks.running
    /\ pipe' = [pipe EXCEPT
            !.tasks.running = @ \ {r}, !.tasks.results = @ \cup Yield(r),
            !.buffers = Placed(@, r.slot, Left(r.task))]

(* The pipeline's stages or the collation raise.                           *)
Raises(r) ==
    /\ r \in pipe.tasks.running /\ ~r.task.old /\ pipe.spent < MaxPipeEvents
    /\ pipe' = [pipe EXCEPT
            !.tasks.running = @ \ {r},
            !.tasks.results = @ \cup {Result(r.task.batch, Host, FALSE)},
            !.buffers = Released(@, {r.slot}), !.spent = @ + 1]

-----------------------------------------------------------------------------

CallNext ==
    /\ pipe.live /\ ~pipe.complete /\ pipe.call = "idle"
    /\ pipe' = [pipe EXCEPT !.call = "next"]

Finish ==
    /\ pipe.call = "next" /\ pipe.position = PipeBatches
    /\ pipe' = [pipe EXCEPT !.complete = TRUE, !.call = "idle"]

(* The consumer lets go of the batch before, or keeps a view of it.        *)
Handed(p, owner) ==
    IF p.held = Host THEN p.buffers ELSE [p.buffers EXCEPT ![p.held].owner = owner]

Deliver(p, slot, owner) ==
    [p EXCEPT
        !.buffers = Placed(Handed(p, owner), slot, Buffer("consumer", p.position)),
        !.held = slot, !.has = p.position, !.onHost = (slot = Host),
        !.got = @ + 1, !.position = @ + 1, !.call = "idle"]

Probed == pipe.position = 0 /\ pipe.probe # "none"

TakeProbe(owner) ==
    /\ pipe.call = "next" /\ Probed /\ pipe.probe = "value"
    /\ pipe' = [Deliver(pipe, pipe.slot, owner) EXCEPT !.probe = "none", !.slot = Host]

(* native_batch: the future of the position is always held by now, its     *)
(* result is awaited, and the frontier moves on.                           *)
TakeBatch(r, owner) ==
    /\ pipe.call = "next" /\ ~Probed
    /\ r \in pipe.tasks.results /\ r.batch = pipe.position /\ r.ok
    /\ pipe' = Filled([Deliver(pipe, r.slot, owner) EXCEPT
                          !.futures = @ \ {r.batch}, !.tasks.results = @ \ {r}])

(* The position is put back, and the loader closed.                        *)
Fails ==
    /\ pipe.call = "next"
    /\ \/ Probed /\ pipe.probe = "error"
       \/ /\ ~Probed
          /\ \E r \in pipe.tasks.results : r.batch = pipe.position /\ ~r.ok
    /\ pipe' = [Closed(pipe) EXCEPT !.call = "idle"]

Capture ==
    /\ pipe.call = "idle" /\ pipe.live /\ ~pipe.complete
    /\ pipe' = [pipe EXCEPT !.saved = [cursor |-> pipe.position]]

Load ==
    /\ pipe.call = "idle" /\ pipe.saved # None
    /\ pipe' = [Closed(pipe) EXCEPT !.resume = pipe.saved.cursor, !.got = 0]

Abandon ==
    /\ pipe.call = "idle" /\ pipe.live
    /\ pipe' = [pipe EXCEPT !.live = FALSE, !.got = 0]

Owners == {"none", "view"}

PipeOwnerStep ==
    \/ Attach \/ Finish \/ Fails
    \/ \E owner \in Owners : \/ TakeProbe(owner)
                             \/ \E r \in pipe.tasks.results : TakeBatch(r, owner)

PipeTaskStep ==
    \/ Start
    \/ \E r \in pipe.tasks.running : End(r)

PipeNext ==
    \/ PipeOwnerStep \/ PipeTaskStep
    \/ Iterate \/ CallNext \/ Capture \/ Load \/ Abandon
    \/ \E r \in pipe.tasks.running : Raises(r)

-----------------------------------------------------------------------------

(* structured/probe.py:47 "so shape probing is not a reread", and          *)
(* iterator.py:1 "Strict-order delivery": a pass reads no batch twice, the *)
(* probed one included, and delivers each in its place.                    *)
ReadOnce ==
    /\ pipe.live => pipe.got = pipe.position
    /\ \A b \in Made : pipe.reads[b] <= 1
    /\ pipe.live /\ pipe.complete => pipe.got = PipeBatches

(* memory/pinned/pool.py:35 "one reusable pinned final buffer": the batch  *)
(* that the consumer has, and those made for it, are not written over.     *)
SlotsKept ==
    /\ pipe.held # Host => pipe.buffers[pipe.held] = Buffer("consumer", pipe.has)
    /\ \A r \in pipe.tasks.results :
          r.slot # Host => pipe.buffers[r.slot] = Buffer("result", r.batch)

(* structured/pipeline.py:134 "Route image collation directly into         *)
(* reusable pinned final slots": every batch of a loader that pins is      *)
(* pinned.                                                                 *)
PinnedAsAsked == pipe.config.pinned => ~pipe.onHost
===============================================================================
