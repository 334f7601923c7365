----------------------------- MODULE CompatLanes -----------------------------
(***************************************************************************)
(* python/hyperloader/compat: Torch's worker protocol over lanes, one      *)
(* process each.  The owner fills command rings ahead of delivery and      *)
(* receives completions in any order; a lane answers its commands in       *)
(* order, each fetch drawing once from the lane's free-running random      *)
(* state.  Iterators are abandoned, pools kept or closed, lanes die, and a *)
(* checkpoint is the delivered prefix with a restore point per lane.       *)
(* The ambient generator is a counter: a draw is its value.                *)
(***************************************************************************)
EXTENDS Integers, Sequences, FiniteSets

CONSTANTS
    Lanes,          \* num_workers
    Prefetch,       \* prefetch_factor or 2
    Batches,        \* fetch units of a map sampler
    Length,         \* batches each lane of an iterable dataset yields
    Config,         \* the constructions considered
    MaxEvents       \* bound on iterators created, draws by the rest of the
                    \* program, lanes that die, fetches that raise, timeouts

Lane == 0..(Lanes - 1)

ASSUME LanesAssumption ==
    /\ Lanes \in Nat \ {0} /\ Prefetch \in Nat \ {0} /\ Batches \in Nat
    /\ Length \in [Lane -> Nat]
    /\ Config \subseteq [iterable : BOOLEAN, inOrder : BOOLEAN,
                         persistent : BOOLEAN, resumable : BOOLEAN,
                         timed : BOOLEAN]
    /\ MaxEvents \in Nat

VARIABLES
    config,     \* what the loader was built with
    call,       \* the owner: idle, or inside next, capture, drain or reset
    generator,  \* the torch generator, ambient or explicit
    loader,     \* base seed and loaded state
    pool,       \* CompatLanePool: open, and the accepted commands
    lane,       \* of each lane: rings, random state, iterator, liveness
    it,         \* the active iterator and its runtime
    saved,      \* a state the user took
    spent       \* events counted by MaxEvents

vars == <<config, call, generator, loader, pool, lane, it, saved, spent>>

None == [none |-> TRUE]
NoSeed == -1
Exhausted == [exhausted |-> TRUE]
Error == [error |-> TRUE]

Limit == Lanes * Prefetch

(* One shifted left by a number of bits.                                   *)
Shifted[bits \in 0..Prefetch + 1] == IF bits = 0 THEN 1 ELSE 2 * Shifted[bits - 1]

PowersOfTwo == {Shifted[bits] : bits \in 0..Prefetch + 1}

(* The ring of a lane: the power of two above the prefetch, two at least.  *)
Capacity == CHOOSE c \in PowersOfTwo :
                c > Prefetch /\ \A d \in PowersOfTwo : d > Prefetch => c <= d

(* A random state: the seed it grew from and the draws made since.         *)
Random(seed, draws) == [seed |-> seed, draws |-> draws]

NewLane(random) ==
    [commands |-> << >>, results |-> << >>, random |-> random, read |-> 0,
     alive |-> TRUE, resetting |-> FALSE]

(* _initialize_lane: seeded by base seed and number, or from a snapshot.   *)
Fork(seed, states) ==
    [w \in Lane |-> NewLane(IF w \in DOMAIN states THEN states[w]
                                                   ELSE Random(seed + w, 0))]

NoLanes == Fork(0, << >>)

NoIterator ==
    [valid |-> FALSE, closed |-> TRUE, complete |-> TRUE, raised |-> FALSE,
     start |-> 0, seen |-> {}]

Init ==
    /\ config \in Config
    /\ call = "idle" /\ generator = 0
    /\ loader = [seed |-> 0, resume |-> None]
    /\ pool = [open |-> FALSE, pending |-> {}]
    /\ lane = NoLanes
    /\ it = NoIterator /\ saved = None
    /\ spent = 0

-----------------------------------------------------------------------------
(* _fill: submit until the limit; s carries what the loop changes.         *)

PendingFor(s, w) == {p \in s.pending : p.worker = w}

Outstanding(s) == Cardinality(DOMAIN s.it.ready) + Cardinality(s.pending)

(* _next_worker: round robin over the lanes still active; out of order     *)
(* each has its share of the limit.                                        *)
TaskLimit(s) ==
    LET share == Limit \div Cardinality(s.it.active)
    IN  IF share = 0 THEN 1 ELSE share

Eligible(s, w) ==
    /\ w \in s.it.active
    /\ config.inOrder \/ Cardinality(PendingFor(s, w)) < TaskLimit(s)

Turns(s) ==
    {i \in 0..(Lanes - 1) : Eligible(s, (s.it.cursor + i) % Lanes)}

FirstTurn(s) == CHOOSE i \in Turns(s) : \A j \in Turns(s) : i <= j

(* The chosen lane and the cursor after the choice, or no lane at all.     *)
NextWorker(s) ==
    IF config.inOrder /\ ~config.iterable
    THEN [lanes |-> {(s.it.phase + s.it.next - s.it.start) % Lanes},
          cursor |-> s.it.cursor]
    ELSE IF Turns(s) = {}
    THEN [lanes |-> {}, cursor |-> s.it.cursor + Lanes]
    ELSE [lanes |-> {(s.it.cursor + FirstTurn(s)) % Lanes},
          cursor |-> s.it.cursor + FirstTurn(s) + 1]

Stopped(s) == [s EXCEPT !.going = FALSE]

(* try_submit: the command and its indices, unless the ring is full.       *)
Offer(s, w, choice) ==
    LET drawn == [s EXCEPT !.it.drawn = @ + 1,
                           !.it.cursor = choice.cursor % Lanes]
    IN  IF Len(s.commands[w]) = Capacity THEN Stopped(drawn)
        ELSE [drawn EXCEPT
                !.it.next = @ + 1,
                !.pending = @ \cup {[task |-> s.it.next, worker |-> w]},
                !.commands[w] = Append(@, [task |-> s.it.next,
                                           index |-> s.it.drawn,
                                           order |-> s.it.order])]

(* One round of the loop, the chosen lane among those still active.        *)
FillRound(s, limit) ==
    IF ~s.going \/ s.it.exhausted \/ Outstanding(s) >= limit THEN Stopped(s)
    ELSE IF ~config.iterable /\ s.it.drawn = Batches
    THEN Stopped([s EXCEPT !.it.exhausted = TRUE])
    ELSE LET choice == NextWorker(s)
         IN  IF choice.lanes = {}
             THEN Stopped([s EXCEPT !.it.exhausted = TRUE,
                                    !.it.drawn = @ + 1])
             ELSE Offer(s, CHOOSE w \in choice.lanes : TRUE, choice)

(* What the loop can come to, as a set: no more rounds than the limit.     *)
Filled(s, limit) ==
    LET round[i \in 0..Limit + 1] ==
            IF i = 0 THEN {[s EXCEPT !.going = TRUE]}
                     ELSE {FillRound(t, limit) : t \in round[i - 1]}
    IN  round[Limit + 1]

State(i, pending, l) ==
    [it |-> i, pending |-> pending, going |-> TRUE,
     commands |-> [w \in Lane |-> l[w].commands]]

Install(s, l) ==
    /\ it' = s.it
    /\ pool' = [open |-> TRUE, pending |-> s.pending]
    /\ lane' = [w \in Lane |-> [l[w] EXCEPT !.commands = s.commands[w]]]

-----------------------------------------------------------------------------
(* The lanes: _run_lane, fetch_batch.                                      *)

Answer(w, command, value) ==
    lane' = [lane EXCEPT
        ![w].commands = Tail(@),
        ![w].results = Append(@, [task |-> command.task, value |-> value])]

(* The state before the fetch travels with the value.                      *)
Fetched(w, command) ==
    [worker |-> w, random |-> lane[w].random,
     index |-> IF config.iterable THEN lane[w].read ELSE command.index,
     order |-> command.order]

Running(w) == pool.open /\ lane[w].alive

Fetch(w) ==
    /\ Running(w) /\ lane[w].commands # << >>
    /\ LET command == Head(lane[w].commands)
           ended == config.iterable /\ lane[w].read = Length[w]
       IN  lane' = [lane EXCEPT
             ![w].commands = Tail(@),
             ![w].results = Append(@, [task |-> command.task,
                 value |-> IF ended THEN Exhausted ELSE Fetched(w, command)]),
             ![w].random.draws = IF ended THEN @ ELSE @ + 1,
             ![w].read = IF config.iterable /\ ~ended THEN @ + 1 ELSE @]
    /\ UNCHANGED <<config, call, generator, loader, pool, it, saved, spent>>

FetchRaises(w) ==
    /\ Running(w) /\ lane[w].commands # << >>
    /\ spent < MaxEvents
    /\ Answer(w, Head(lane[w].commands), Error)
    /\ spent' = spent + 1
    /\ UNCHANGED <<config, call, generator, loader, pool, it, saved>>

(* The control message of reset_iterable: a new fetcher, the same random   *)
(* state.                                                                  *)
LaneResets(w) ==
    /\ Running(w) /\ lane[w].resetting
    /\ lane' = [lane EXCEPT ![w].read = 0, ![w].resetting = FALSE]
    /\ UNCHANGED <<config, call, generator, loader, pool, it, saved, spent>>

LaneDies(w) ==
    /\ Running(w) /\ spent < MaxEvents
    /\ lane' = [lane EXCEPT ![w].alive = FALSE]
    /\ spent' = spent + 1
    /\ UNCHANGED <<config, call, generator, loader, pool, it, saved>>

-----------------------------------------------------------------------------
(* The owner.                                                              *)

Arrived == {w \in Lane : lane[w].results # << >>}

(* try_receive polls the lanes in order.                                   *)
Polled == CHOOSE w \in Arrived : \A v \in Arrived : w <= v

Message == Head(lane[Polled].results)

Taken == [lane EXCEPT ![Polled].results = Tail(@)]

Settled == pool.pending \ {[task |-> Message.task, worker |-> Polled]}

(* The order in which values arrived, which only an unordered loader       *)
(* delivers by.                                                            *)
ArrivalWith(arrival, task) ==
    IF config.inOrder THEN arrival ELSE Append(arrival, task)

ArrivalPast(arrival) == IF config.inOrder THEN arrival ELSE Tail(arrival)

(* Seeded defect: the first lane to end ends the sampler.                  *)
AcceptEnding(i, task, value, w) ==
    [i EXCEPT !.ready = [t \in DOMAIN @ \cup {task} |->
                            IF t = task THEN value ELSE i.ready[t]],
              !.arrival = ArrivalWith(@, task),
              !.active = IF value = Exhausted THEN @ \ {w} ELSE @,
              !.exhausted = @ \/ value = Exhausted]

(* _accept: the exhaustion of the last lane ends the sampler.              *)
Accept(i, task, value, w) ==
    LET left == IF value = Exhausted THEN i.active \ {w} ELSE i.active
    IN  [i EXCEPT !.ready = [t \in DOMAIN @ \cup {task} |->
                                IF t = task THEN value ELSE i.ready[t]],
                  !.arrival = ArrivalWith(@, task),
                  !.active = left,
                  !.exhausted = @ \/ left = {}]

(* The runtime takes one completion, or the exception it carries is raised *)
(* to the caller, its task gone.                                           *)
Receive ==
    /\ Arrived # {}
    /\ lane' = Taken
    /\ pool' = [pool EXCEPT !.pending = Settled]
    /\ IF Message.value = Error
       THEN /\ call' = "idle"
            /\ it' = [it EXCEPT !.raised = TRUE]
       ELSE /\ it' = Accept(it, Message.task, Message.value, Polled)
            /\ UNCHANGED call
    /\ UNCHANGED <<config, generator, loader, saved, spent>>

(* The task that may leave now: the next one, or the first that arrived.   *)
Deliverable(i) ==
    IF config.inOrder THEN {i.delivery} \cap DOMAIN i.ready
    ELSE IF i.arrival = << >> THEN {} ELSE {Head(i.arrival)}

ClosedPool == [open |-> FALSE, pending |-> {}]

(* _check_liveness: after a poll that found nothing, a dead lane or the    *)
(* deadline closes the pool, whatever has arrived since.                   *)
CloseWaiting ==
    /\ call # "idle" /\ pool.open
    /\ call = "next" => Deliverable(it) = {}
    /\ pool' = ClosedPool /\ lane' = NoLanes /\ call' = "idle"
    /\ it' = [it EXCEPT !.raised = TRUE, !.closed = TRUE]
    /\ UNCHANGED <<config, generator, loader, saved>>

(* Seeded defect: lanes are only looked at while next waits.               *)
FindsLossInNext ==
    /\ call = "next"
    /\ \E w \in Lane : ~lane[w].alive
    /\ CloseWaiting /\ UNCHANGED spent

FindsLoss ==
    /\ \E w \in Lane : ~lane[w].alive
    /\ CloseWaiting /\ UNCHANGED spent

TimesOut ==
    /\ config.timed /\ spent < MaxEvents
    /\ CloseWaiting /\ spent' = spent + 1

CallNext ==
    /\ call = "idle" /\ it.valid /\ ~it.closed /\ pool.open
    /\ call' = "next"
    /\ UNCHANGED <<config, generator, loader, pool, lane, it, saved, spent>>

Without(i, task) ==
    [i EXCEPT !.ready = [t \in DOMAIN @ \ {task} |-> i.ready[t]],
              !.arrival = ArrivalPast(@),
              !.delivery = @ + 1]

(* __next__: fill, hand out what may leave and fill again.                 *)
Deliver ==
    /\ call = "next" /\ pool.open
    /\ \E s \in Filled(State(it, pool.pending, lane), Limit) :
         \E task \in Deliverable(s.it) :
         \E more \in Filled([s EXCEPT !.it = Without(@, task)], Limit) :
             LET value == s.it.ready[task]
             IN  IF value = Exhausted
                 THEN Install(more, lane) /\ UNCHANGED call
                 ELSE /\ Install([more EXCEPT
                                    !.it.delivered = @ + 1,
                                    !.it.seen = @ \cup {value}], lane)
                      /\ call' = "idle"
    /\ UNCHANGED <<config, generator, loader, saved, spent>>

(* Nothing left: the iterator is complete, and a pool that is not kept is  *)
(* closed.                                                                 *)
Finish ==
    /\ call = "next" /\ pool.open
    /\ \E s \in Filled(State(it, pool.pending, lane), Limit) :
           /\ s.it.exhausted /\ s.pending = {} /\ DOMAIN s.it.ready = {}
           /\ it' = [s.it EXCEPT !.closed = TRUE, !.complete = TRUE]
    /\ IF config.persistent THEN UNCHANGED <<pool, lane>>
                            ELSE pool' = ClosedPool /\ lane' = NoLanes
    /\ call' = "idle"
    /\ UNCHANGED <<config, generator, loader, saved, spent>>

ReceiveNext ==
    /\ call = "next" /\ pool.open
    /\ \E s \in Filled(State(it, pool.pending, lane), Limit) :
           /\ Deliverable(s.it) = {}
           /\ ~(s.it.exhausted /\ s.pending = {} /\ DOMAIN s.it.ready = {})
           /\ \/ /\ s.it # it /\ Install(s, lane)
                 /\ UNCHANGED <<config, call, generator, loader, saved, spent>>
              \/ s.it = it /\ Receive

-----------------------------------------------------------------------------
(* iterate_native_map and iterate_native_iterable.                         *)

(* How many of the first n batches are lane w's.                           *)
TurnsBefore(w, n) == (n + Lanes - 1 - w) \div Lanes

(* What an undisturbed epoch delivers, told from the random states of its  *)
(* lanes at batch n; carried along for the properties.                     *)
Story(order, seed, lanes, n) ==
    [order |-> order, seed |-> seed,
     random |-> [w \in Lane |->
         Random(lanes[w].random.seed, lanes[w].random.draws - TurnsBefore(w, n))]]

NewIterator(order, skip, story, start, reused, seed) ==
    [valid |-> TRUE, closed |-> FALSE, complete |-> FALSE, raised |-> FALSE,
     order |-> order, start |-> skip, drawn |-> skip, next |-> skip,
     delivery |-> skip, phase |-> skip % Lanes, cursor |-> skip % Lanes,
     active |-> Lane, exhausted |-> skip >= Batches /\ ~config.iterable,
     ready |-> << >>, arrival |-> << >>, delivered |-> skip, seen |-> {},
     began |-> start, reused |-> reused, seed |-> seed, story |-> story]

(* The sampler draws its order from the generator as it starts; the first  *)
(* filling goes up to the prefetch factor.                                 *)
Begin(i, lanes) ==
    \E s \in Filled(State(i, {}, lanes), Prefetch) : Install(s, lanes)

Samples(g) == IF config.iterable THEN g ELSE g + 1

(* No pool to keep: draw a base seed and start lanes.                      *)
StartFresh ==
    LET seed == generator
        lanes == Fork(seed, << >>)
    IN  /\ Begin(NewIterator(generator + 1, 0,
                             Story(generator + 1, seed, lanes, 0), generator,
                             FALSE, seed), lanes)
        /\ generator' = Samples(generator + 1)
        /\ loader' = [seed |-> seed, resume |-> None]

(* A kept pool, drained and reset: the same lanes and base seed.           *)
StartKept ==
    /\ Begin(NewIterator(generator, 0,
                         Story(generator, loader.seed, lane, 0), generator,
                         TRUE, loader.seed), lane)
    /\ generator' = Samples(generator)
    /\ loader' = [loader EXCEPT !.resume = None]

LaneSeeds(seed, lanes) == [w \in lanes |-> seed + w]

(* The base seed drawn anew, and each lane's, are those of the state.      *)
Reproduces(r, seed) ==
    /\ r.seed \in {NoSeed, seed}
    /\ r.seeds = LaneSeeds(seed, DOMAIN r.states)

(* A loaded state: its generator replayed, the sampler skipped, the lanes  *)
(* started from their restore points.                                      *)
StartResumed(r) ==
    LET drawn == IF r.reused THEN r.began ELSE r.began + 1
        seed == IF r.reused THEN r.seed ELSE r.began
        lanes == Fork(seed, r.states)
        story == IF r.story = None THEN Story(drawn, seed, lanes, r.delivered)
                                   ELSE r.story
    IN  /\ Reproduces(r, seed)
        /\ Begin(NewIterator(drawn, r.delivered, story, r.began,
                             r.reused, seed), lanes)
        /\ generator' = r.current
        /\ loader' = [seed |-> seed, resume |-> None]

Iterate ==
    /\ call = "idle" /\ spent < MaxEvents
    /\ spent' = spent + 1
    /\ IF config.persistent /\ pool.open
       THEN /\ call' = "drain"
            /\ it' = IF it.complete THEN it ELSE [it EXCEPT !.valid = FALSE]
            /\ UNCHANGED <<generator, loader, pool, lane>>
       ELSE /\ IF loader.resume = None THEN StartFresh
                                       ELSE StartResumed(loader.resume)
            /\ UNCHANGED call
    /\ UNCHANGED <<config, saved>>

(* drain: what was admitted is received and dropped.                       *)
Drain ==
    /\ call = "drain" /\ pool.pending # {} /\ Arrived # {}
    /\ lane' = Taken
    /\ pool' = [pool EXCEPT !.pending = Settled]
    /\ call' = IF Message.value = Error THEN "idle" ELSE "drain"
    /\ UNCHANGED <<config, generator, loader, it, saved, spent>>

Drained ==
    /\ call = "drain" /\ pool.pending = {}
    /\ IF config.iterable
       THEN /\ call' = "reset"
            /\ lane' = [w \in Lane |-> [lane[w] EXCEPT !.resetting = TRUE]]
            /\ UNCHANGED <<generator, loader, pool, it>>
       ELSE StartKept /\ call' = "idle"
    /\ UNCHANGED <<config, saved, spent>>

AllReset ==
    /\ call = "reset" /\ \A w \in Lane : ~lane[w].resetting
    /\ StartKept
    /\ call' = "idle"
    /\ UNCHANGED <<config, saved, spent>>

-----------------------------------------------------------------------------
(* State.                                                                  *)

Resumable == config.resumable /\ config.inOrder /\ ~config.iterable

(* Seeded defect: the last undelivered value of each lane.                 *)
PointsOfLast ==
    LET held == {it.ready[t] : t \in DOMAIN it.ready}
    IN  [w \in {v.worker : v \in held} |->
            (CHOOSE v \in held : v.worker = w /\ \A u \in held :
                 u.worker = w => u.index <= v.index).random]

(* _snapshot_points: the first undelivered value of each lane.             *)
Points ==
    LET held == {it.ready[t] : t \in DOMAIN it.ready}
    IN  [w \in {v.worker : v \in held} |->
            (CHOOSE v \in held : v.worker = w /\ \A u \in held :
                 u.worker = w => v.index <= u.index).random]

(* from_dict and restore_state: the fields agree with one another and with *)
(* the loader.                                                             *)
Accepted(s) ==
    /\ s.delivered <= s.position
    /\ s.workers = Lanes
    /\ s.phase = s.delivered % s.workers
    /\ s.reused => s.seed # NoSeed
    /\ DOMAIN s.states \subseteq 0..(s.workers - 1)
    /\ DOMAIN s.seeds = DOMAIN s.states

(* Any iterator that has not ended, one whose lanes are gone, that lost a  *)
(* batch to an exception or that a failed draining left behind included.   *)
CallCapture ==
    /\ call = "idle" /\ Resumable /\ ~it.complete
    /\ call' = "capture"
    /\ UNCHANGED <<config, generator, loader, pool, lane, it, saved, spent>>

Wanted == {p.worker : p \in pool.pending} \ DOMAIN Points

ReceiveCapture == call = "capture" /\ Wanted # {} /\ Receive

(* The epoch a state captured now goes on with: after a failure its points *)
(* are those of no epoch, and the lanes it misses start over.              *)
Continued == IF it.valid /\ ~it.raised THEN it.story ELSE None

(* Seeded defect: the phase is that of the last task sent.                 *)
CapturedAhead ==
    /\ call = "capture" /\ Wanted = {}
    /\ saved' = [position |-> it.next, delivered |-> it.delivered,
                 workers |-> Lanes, phase |-> it.next % Lanes,
                 reused |-> it.reused, seed |-> it.seed, began |-> it.began,
                 current |-> generator, states |-> Points,
                 seeds |-> LaneSeeds(it.seed, DOMAIN Points),
                 story |-> Continued]
    /\ call' = "idle"
    /\ UNCHANGED <<config, generator, loader, pool, lane, it, spent>>

Captured ==
    /\ call = "capture" /\ Wanted = {}
    /\ saved' = [position |-> it.next, delivered |-> it.delivered,
                 workers |-> Lanes, phase |-> it.delivered % Lanes,
                 reused |-> it.reused, seed |-> it.seed, began |-> it.began,
                 current |-> generator, states |-> Points,
                 seeds |-> LaneSeeds(it.seed, DOMAIN Points),
                 story |-> Continued]
    /\ call' = "idle"
    /\ UNCHANGED <<config, generator, loader, pool, lane, it, spent>>

(* Between epochs: the state loaded, or a pristine one.                    *)
CaptureIdle ==
    /\ call = "idle" /\ Resumable /\ it.complete
    /\ saved' = IF loader.resume # None THEN loader.resume
                ELSE [position |-> 0, delivered |-> 0, workers |-> Lanes,
                      phase |-> 0, reused |-> FALSE, seed |-> NoSeed,
                      began |-> generator, current |-> generator,
                      states |-> << >>, seeds |-> << >>, story |-> None]
    /\ UNCHANGED <<config, call, generator, loader, pool, lane, it, spent>>

(* restore_state: the active iterator and the pool end now.                *)
Restore ==
    /\ call = "idle" /\ Resumable /\ saved # None /\ Accepted(saved)
    /\ it' = NoIterator
    /\ pool' = ClosedPool /\ lane' = NoLanes
    /\ generator' = saved.current
    /\ loader' = [seed |-> 0, resume |-> saved]
    /\ UNCHANGED <<config, call, saved, spent>>

(* The rest of the program draws from the same generator.                  *)
Draw ==
    /\ call = "idle" /\ spent < MaxEvents
    /\ generator' = generator + 1
    /\ spent' = spent + 1
    /\ UNCHANGED <<config, call, loader, pool, lane, it, saved>>

Next ==
    \/ \E w \in Lane : Fetch(w) \/ FetchRaises(w) \/ LaneResets(w) \/ LaneDies(w)
    \/ FindsLoss \/ TimesOut \/ CallNext \/ Deliver \/ Finish \/ ReceiveNext
    \/ Iterate \/ Drain \/ Drained \/ AllReset
    \/ CallCapture \/ ReceiveCapture \/ Captured \/ CaptureIdle
    \/ Restore \/ Draw

Spec == Init /\ [][Next]_vars

(* Lanes and the owner's loop keep running; calls are the user's choice.   *)
OwnerStep ==
    FindsLoss \/ Deliver \/ Finish \/ ReceiveNext \/ Drain \/ Drained
    \/ AllReset \/ ReceiveCapture \/ Captured

FairSpec ==
    /\ Spec /\ WF_vars(OwnerStep)
    /\ \A w \in Lane : WF_vars(Fetch(w) \/ FetchRaises(w)) /\ WF_vars(LaneResets(w))

-----------------------------------------------------------------------------
(* multi_iterator.py:70, README.md "Contracts": however iterators were     *)
(* abandoned, pools kept, and states captured and restored, batch n of an  *)
(* in-order map epoch has the epoch's order, lane n mod Lanes and the      *)
(* random state that lane would have had undisturbed.  Where the state was *)
(* captured after a failure, the epoch is the one told from the random     *)
(* states its lanes were started with (see CapturesEveryLane).             *)
Undisturbed(v) ==
    LET w == v.index % Lanes
    IN  [worker |-> w, index |-> v.index, order |-> it.story.order,
         random |-> Random(it.story.random[w].seed,
                           it.story.random[w].draws + v.index \div Lanes)]

ResumedExactly ==
    it.valid /\ ~it.raised /\ config.inOrder /\ ~config.iterable =>
        /\ \A v \in it.seen : v = Undisturbed(v)
        /\ {v.index : v \in it.seen} = it.start..(it.delivered - 1)

(* multi_iterator.py:70, "Capture the first undelivered restore point for  *)
(* every active lane": each lane with batches left in the epoch has its    *)
(* random state at the first of them in the state.                         *)
Left(w) == {t \in it.delivered..(Batches - 1) : t % Lanes = w}

CapturesEveryLane ==
    [][Captured =>
         \A w \in Lane : \A t \in Left(w) :
             (\A u \in Left(w) : t <= u) =>
                 /\ w \in DOMAIN saved'.states
                 /\ saved'.states[w] = Random(it.story.random[w].seed,
                        it.story.random[w].draws + t \div Lanes)]_vars

(* lane_runtime.py:55: an epoch that ends delivered each batch left to it  *)
(* once; of an iterable dataset, each batch of each lane.                  *)
Whole ==
    IF config.iterable
    THEN {place \in Lane \X (0..Batches) : place[2] < Length[place[1]]}
    ELSE {<<i % Lanes, i>> : i \in it.start..(Batches - 1)}

Place(v) == <<IF config.iterable THEN v.worker ELSE v.index % Lanes, v.index>>

WholeEpoch ==
    it.valid /\ it.complete /\ ~it.raised =>
        /\ {Place(v) : v \in it.seen} = Whole
        /\ Cardinality(it.seen) = it.delivered - it.start

(* multi_state.py:55, multi_map.py:64: what capture saved, restore accepts, *)
(* and the seeds drawn when iteration starts again are those it names.     *)
StatesLoad ==
    /\ saved # None => Accepted(saved)
    /\ loader.resume # None =>
         LET r == loader.resume
         IN  Reproduces(r, IF r.reused THEN r.seed ELSE r.began)

(* lane_runtime.py:49, lane_pool.py:155: next, drain, reset and capture    *)
(* return or raise, lanes that die and fetches that raise included.  Only  *)
(* an iterator that has raised may wait for the batch it lost.             *)
CallsReturn == call # "idle" ~> call = "idle" \/ it.raised
===============================================================================
