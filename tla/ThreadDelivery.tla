---------------------------- MODULE ThreadDelivery ----------------------------
(***************************************************************************)
(* python/hyperloader/thread: samples evaluated by a pool of threads that  *)
(* share the dataset, delivered in batches, in order or as they complete.  *)
(* A future is done before its callback has put the position in the        *)
(* iterator's queue of completions.  The threads outlive an iterator the   *)
(* program lets go of, and so do the calls it had submitted.               *)
(***************************************************************************)
EXTENDS Integers, Sequences, FiniteSets

CONSTANTS
    Samples,            \* delivery_length
    Width,              \* samples of a batch
    Threads,            \* threads of the pool
    Frontier,           \* frontier_depth, at least a batch
    MaxThreadEvents     \* bound on iterators and failures

(* process/sizing.py:50 "the liveness floor": a batch fits the frontier.   *)
ThreadAssumption ==
    /\ Samples \in Nat /\ Width \in Nat \ {0}
    /\ Frontier \in Nat /\ Frontier >= Width

VARIABLE thread

None == [none |-> TRUE]

Lesser(a, b) == IF a < b THEN a ELSE b

Greater(a, b) == IF a > b THEN a ELSE b

MaxOf(S) == CHOOSE n \in S : \A m \in S : m <= n

Position == 0 .. Samples - 1

Batches == (Samples + Width - 1) \div Width

Batch(position) == position \div Width

Stop(ordinal) == Lesser(ordinal * Width + Width, Samples)

(* The positions of a batch.                                               *)
Members(ordinal) == ordinal * Width .. Stop(ordinal) - 1

-----------------------------------------------------------------------------
(* The pool: the positions the iterator submitted, in order, those on a    *)
(* thread, and those that are done, have raised, or are done with their    *)
(* callback still to run; and how many calls are left of iterators the     *)
(* program let go of, all submitted before these.                                *)

NewPool == [open |-> TRUE, queue |-> <<>>, running |-> {},
            done |-> {}, failed |-> {}, notifying |-> {}, old |-> 0]

NoPool == [NewPool EXCEPT !.open = FALSE]

RestoredSamples(ahead) ==
    Cardinality({p \in Position : Batch(p) \in ahead})

(* The iterator.  position counts delivered samples, and in order the next *)
(* one too.                                                                *)
NewIterator(cursor, start, ahead, depth) ==
    [position |-> start + RestoredSamples(ahead), next |-> start,
     restored |-> ahead, depth |-> depth, futures |-> {}, completed |-> <<>>,
     ready |-> <<>>, base |-> cursor, ahead |-> ahead,
     complete |-> FALSE]

NoIterator == [NewIterator(0, 0, {}, 0) EXCEPT !.complete = TRUE]

(* What the consumer has of this pass, restores included: how often each   *)
(* batch, and whether each was the next one.                               *)
Nothing == [times |-> [b \in 0 .. Batches - 1 |-> 0], inOrder |-> TRUE]

Delivered(got, batch) ==
    [times |-> [got.times EXCEPT ![batch] = @ + 1],
     inOrder |-> /\ got.inOrder
                 /\ \A b \in 0 .. Batches - 1 : got.times[b] = IF b < batch THEN 1 ELSE 0]

ThreadInit(config) ==
    thread = [config |-> config, pool |-> NoPool, it |-> NoIterator,
              live |-> FALSE, stale |-> FALSE, call |-> "idle",
              resume |-> None, saved |-> None, got |-> Nothing, spent |-> 0]

ThreadUnused == thread = None

(* _fill_frontier: submit positions until as many are held as the depth,   *)
(* passing over the batches that were delivered before a restore.          *)
Submitted(it) ==
    LET open == {p \in it.next .. Samples - 1 : Batch(p) \notin it.restored}
        room == it.depth - Cardinality(it.futures)
    IN  {p \in open : Cardinality({q \in open : q < p}) < room}

InOrder(positions) ==
    [i \in 1 .. Cardinality(positions) |->
        CHOOSE p \in positions : Cardinality({q \in positions : q < p}) = i - 1]

(* The loop ends at the depth or at the end, past restored batches.        *)
NextSubmit(it, submitted) ==
    IF Cardinality(it.futures) + Cardinality(submitted) < it.depth THEN Samples
    ELSE IF submitted = {} THEN it.next ELSE MaxOf(submitted) + 1

(* Seeded defect: it is filled again only once it is empty.                *)
FilledWhenEmpty(t) ==
    LET submitted == IF t.it.futures = {} THEN Submitted(t.it) ELSE {}
    IN  [t EXCEPT !.it.futures = @ \cup submitted,
                  !.it.next = IF submitted = {} THEN @ ELSE MaxOf(submitted) + 1,
                  !.pool.queue = @ \o InOrder(submitted)]

Filled(t) ==
    LET submitted == Submitted(t.it)
    IN  [t EXCEPT !.it.futures = @ \cup submitted,
                  !.it.next = NextSubmit(t.it, submitted),
                  !.pool.queue = @ \o InOrder(submitted)]

(* close: the iterator no longer delivers, queued calls are cancelled and  *)
(* the running ones joined.                                                *)
Closed(t) ==
    [t EXCEPT !.live = FALSE, !.stale = @ \/ t.live, !.pool = NoPool,
              !.it = NoIterator]

Unfinished(t) == t.live /\ ~t.it.complete

RestoredSpan(ahead, start) ==
    IF ahead = {} THEN 0 ELSE MaxOf(ahead) * Width + Width - start

(* Pool, iterator and first fill.                                          *)
Started(t) ==
    LET cursor == IF t.resume = None THEN 0 ELSE t.resume.cursor
        ahead == IF t.resume = None THEN {} ELSE t.resume.ahead
        start == Lesser(Samples, cursor * Width)
        depth == Lesser(Samples - start,
                        Greater(Frontier, RestoredSpan(ahead, start)))
        opened == IF t.pool.open THEN t.pool ELSE NewPool
    IN  Filled([t EXCEPT
            !.it = NewIterator(cursor, start, ahead, depth),
            !.pool = [opened EXCEPT !.done = {}], !.live = TRUE, !.resume = None,
            !.got = IF t.resume = None THEN Nothing ELSE t.resume.got])

Iterate ==
    /\ thread.call = "idle" /\ thread.spent < MaxThreadEvents
    /\ LET t == IF Unfinished(thread) THEN Closed(thread) ELSE thread
       IN  thread' = [Started(t) EXCEPT !.spent = @ + 1]

-----------------------------------------------------------------------------
(* The threads.                                                            *)

EndOld ==
    /\ thread.pool.old > 0
    /\ thread' = [thread EXCEPT !.pool.old = @ - 1]

(* The queue is first in, first out: the older calls are all on a thread.  *)
Begin ==
    /\ thread.pool.queue # <<>>
    /\ Cardinality(thread.pool.running) + thread.pool.old < Threads
    /\ thread' = [thread EXCEPT !.pool.queue = Tail(@),
                                !.pool.running = @ \cup {Head(thread.pool.queue)}]

Settle(p, failed) ==
    thread' = [thread EXCEPT
        !.pool.running = @ \ {p},
        !.pool.done = @ \cup {p},
        !.pool.failed = IF failed THEN @ \cup {p} ELSE @,
        !.pool.notifying = IF thread.config.onCompletion THEN @ \cup {p} ELSE @,
        !.spent = IF failed THEN @ + 1 ELSE @]

End(p) ==
    /\ p \in thread.pool.running
    /\ Settle(p, FALSE)

(* __getitem__, worker_init_fn or the sample's random state raises.        *)
Raises(p) ==
    /\ p \in thread.pool.running /\ thread.spent < MaxThreadEvents
    /\ Settle(p, TRUE)

(* The callback of a future puts its position.                             *)
Notify(position) ==
    /\ position \in thread.pool.notifying
    /\ thread' = [thread EXCEPT !.pool.notifying = @ \ {position},
                                !.it.completed = Append(@, position)]

-----------------------------------------------------------------------------
(* The consumer's call.                                                    *)

CallNext ==
    /\ thread.live /\ ~thread.it.complete /\ thread.call = "idle"
    /\ thread' = [thread EXCEPT !.call = "next"]

Finish ==
    /\ thread.call = "next" /\ thread.it.position >= Samples
    /\ thread' = [thread EXCEPT !.call = "idle", !.it.complete = TRUE]

(* An error closes the loader before it reaches the caller.                *)
Fails ==
    thread' = [Closed(thread) EXCEPT !.call = "idle"]

Waiting == thread.call = "next" /\ thread.it.position < Samples

(* _next_sample: the future of the position, and another for its place;    *)
(* with the last of its batch the call returns.                            *)
TakeSample ==
    LET p == thread.it.position
        batch == Batch(p)
        taken == [thread EXCEPT !.it.futures = @ \ {p}, !.it.position = p + 1]
    IN  /\ Waiting /\ ~thread.config.onCompletion
        /\ p \in thread.pool.done \ thread.pool.failed
        /\ thread' = IF p + 1 < Stop(batch) THEN Filled(taken)
                     ELSE [Filled(taken) EXCEPT !.got = Delivered(@, batch), !.call = "idle"]

SampleFails ==
    /\ Waiting /\ ~thread.config.onCompletion
    /\ thread.it.position \in thread.pool.failed
    /\ Fails

Queued(it) == {it.ready[i] : i \in DOMAIN it.ready}

(* Every sample of the batch is held and done.                             *)
Whole(it, pool, batch) ==
    \A p \in Members(batch) : p \in it.futures /\ p \in pool.done

(* _next_ready_batch: look at one completion.                              *)
TakeCompletion ==
    /\ Waiting /\ thread.config.onCompletion
    /\ thread.it.ready = <<>> /\ thread.it.completed # <<>>
    /\ LET batch == Batch(Head(thread.it.completed))
       IN  thread' = [thread EXCEPT
              !.it.completed = Tail(@),
              !.it.ready = IF batch \notin Queued(thread.it)
                              /\ Whole(thread.it, thread.pool, batch)
                           THEN Append(@, batch) ELSE @]

(* DeliveredBatchState.mark: the prefix takes in what it reaches.          *)
Reached(base, ahead) ==
    CHOOSE n \in base .. Batches :
        /\ \A b \in base .. n - 1 : b \in ahead
        /\ n \notin ahead

Marked(it, batch) ==
    LET all == it.ahead \cup {batch}
        base == Reached(it.base, all)
    IN  [it EXCEPT !.base = base, !.ahead = {b \in all : b > base}]

Repeated(it, batch) == batch < it.base \/ batch \in it.ahead

(* A result() that raises leaves the batch's other futures where they are, *)
(* and the loader closed.                                                  *)
TakeBatch ==
    /\ Waiting /\ thread.config.onCompletion /\ thread.it.ready # <<>>
    /\ LET batch == Head(thread.it.ready)
           taken == [thread EXCEPT !.it.ready = Tail(@),
                                   !.it.futures = @ \ Members(batch)]
           filled == Filled(taken)
       IN  /\ Members(batch) \subseteq thread.pool.done
           /\ IF Members(batch) \cap thread.pool.failed # {} \/ Repeated(thread.it, batch)
              THEN Fails
              ELSE thread' = [filled EXCEPT
                      !.it = Marked([filled.it EXCEPT
                                       !.position = @ + Cardinality(Members(batch))], batch),
                      !.got = Delivered(@, batch), !.call = "idle"]

(* result(timeout) and get(timeout), with nothing to take.                 *)
TimesOut ==
    /\ Waiting /\ thread.spent < MaxThreadEvents
    /\ IF thread.config.onCompletion
       THEN thread.it.ready = <<>> /\ thread.it.completed = <<>>
       ELSE thread.it.position \notin thread.pool.done
    /\ thread' = [Closed(thread) EXCEPT !.call = "idle", !.spent = @ + 1]

(* The program collates a batch that raises, or calls an iterator that was *)
(* replaced: the error is raised inside the same try, and closes the       *)
(* loader with the iterator that is active.                                *)
StaleNext ==
    /\ thread.call = "idle" /\ thread.stale
    /\ thread' = Closed(thread)

-----------------------------------------------------------------------------
(* Seeded defect: the bits start after the gap and not with it.            *)
BitmapAfterGap(ahead, base) == {b - base - 1 : b \in ahead}

(* The delivered batches beyond the prefix travel as a bitmap.             *)
Bitmap(ahead, base) == {b - base : b \in ahead}

Decoded(base, bitmap) == {base + bit : bit \in bitmap}

Cursor(it) ==
    IF thread.config.onCompletion THEN it.base
    ELSE (it.position + Width - 1) \div Width

(* capture_map_state of a live iterator.                                   *)
Capture ==
    /\ thread.call = "idle" /\ Unfinished(thread)
    /\ thread' = [thread EXCEPT !.saved =
          [cursor |-> Cursor(thread.it),
           bitmap |-> IF thread.config.onCompletion
                      THEN Bitmap(thread.it.ahead, thread.it.base) ELSE {},
           got |-> thread.got]]

Load ==
    /\ thread.call = "idle" /\ thread.saved # None
    /\ thread' = [Closed(thread) EXCEPT
          !.resume = [cursor |-> thread.saved.cursor,
                      ahead |-> Decoded(thread.saved.cursor, thread.saved.bitmap),
                      got |-> thread.saved.got],
          !.got = Nothing]

(* The program lets go of the iterator; what it submitted still runs.      *)
Abandon ==
    /\ thread.call = "idle" /\ thread.live /\ thread.resume = None
    /\ thread' = [thread EXCEPT !.live = FALSE, !.it = NoIterator, !.got = Nothing,
          !.pool = [NewPool EXCEPT
                      !.open = thread.pool.open,
                      !.old = thread.pool.old + Len(thread.pool.queue)
                                 + Cardinality(thread.pool.running)]]

OwnerStep ==
    Finish \/ TakeSample \/ SampleFails \/ TakeCompletion \/ TakeBatch

ThreadStep ==
    \/ EndOld \/ Begin
    \/ \E p \in thread.pool.running : End(p)
    \/ \E position \in thread.pool.notifying : Notify(position)

ThreadNext ==
    \/ OwnerStep \/ ThreadStep
    \/ Iterate \/ CallNext \/ TimesOut \/ StaleNext
    \/ Capture \/ Load \/ Abandon
    \/ \E p \in thread.pool.running : Raises(p)

-----------------------------------------------------------------------------

(* thread/iterator.py:1 "Strict-order delivery", and in completion order   *)
(* "completion-order delivery repeated a batch" never raised: a pass       *)
(* delivers no batch twice and ends with all of them, over restores too,   *)
(* and in order, they come in order.                                       *)
Exact ==
    LET times == thread.got.times
    IN  \A b \in 0 .. Batches - 1 :
            /\ times[b] <= 1
            /\ ~thread.config.onCompletion => thread.got.inOrder
            /\ thread.live /\ thread.it.complete => times[b] = 1
===============================================================================
