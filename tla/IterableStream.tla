---------------------------- MODULE IterableStream ----------------------------
(***************************************************************************)
(* python/hyperloader/iterable: one epoch of an iterable dataset, read by  *)
(* logical lanes in turn.  Each lane owns a copy of the dataset; a source  *)
(* with the state pair is snapshotted at batch boundaries into a bounded   *)
(* ring, and a checkpoint carries for each lane what was delivered of it   *)
(* and the newest snapshot that is no later.                               *)
(***************************************************************************)
EXTENDS Integers, Sequences, FiniteSets

CONSTANTS
    LaneCount,          \* logical_lane_count
    BatchSize,          \* values in a full batch
    Held,               \* factors.b_buf: batches the snapshots must span
    LaneLength,         \* values the source of each lane holds
    OversizeFrom,       \* arrival from which a growing state exceeds f_snap_bytes
    MaxStreamEvents     \* bound on iterators, failures, recoveries and restores

VARIABLE stream

None == [none |-> TRUE]

Lane == 0 .. LaneCount - 1

AllLanes == [i \in 1 .. LaneCount |-> i - 1]

Lesser(a, b) == IF a < b THEN a ELSE b

Greater(a, b) == IF a > b THEN a ELSE b

-----------------------------------------------------------------------------
(* Snapshots.  A cadence of 0 is "off".  An entry is the arrival it was    *)
(* filed under and the position the source was really at.                  *)

Snapshot(arrival, at) == [arrival |-> arrival, at |-> at]

Depth(cadence) ==
    LET step == IF cadence = 0 THEN 1 ELSE cadence
    IN  Greater(2, (Held + step - 1) \div step + 1)

NewRing(config) ==
    [entries |-> <<>>, off |-> config.cadence = 0 \/ ~config.stateful]

Due(config, ring, produced, force) ==
    ~ring.off /\ (force \/ produced % config.cadence = 0)

(* The deque drops its oldest entry for one more than its depth.           *)
Append1(config, entries, entry) ==
    LET longer == Append(entries, entry)
    IN  IF Len(longer) > Depth(config.cadence) THEN Tail(longer) ELSE longer

Push(config, ring, arrival, at) ==
    IF config.growing /\ at >= OversizeFrom
    THEN [entries |-> <<>>, off |-> TRUE]
    ELSE [ring EXCEPT !.entries = Append1(config, @, Snapshot(arrival, at))]

Selectable(ring, delivered) ==
    {i \in DOMAIN ring.entries : ring.entries[i].arrival <= delivered}

(* The newest retained state at or below the delivered frontier.           *)
Select(ring, delivered) ==
    LET below == Selectable(ring, delivered)
    IN  IF below = {} THEN None
        ELSE ring.entries[CHOOSE i \in below : \A j \in below : j <= i]

After(entries, delivered) ==
    SelectSeq(entries, LAMBDA e : e.arrival > delivered)

(* Seeded defect: the delivered anchor goes with what is older.            *)
DiscardAll(ring, delivered) ==
    [ring EXCEPT !.entries = After(@, delivered)]

DiscardBefore(ring, delivered) ==
    LET anchor == Select(ring, delivered)
        kept == IF anchor = None THEN <<>> ELSE <<anchor>>
    IN  [ring EXCEPT !.entries = kept \o After(@, delivered)]

-----------------------------------------------------------------------------
(* Lanes: the engine's count of arrivals, the source's own position, and   *)
(* the batches produced since the lane was built.                          *)

Built(arrival, at) == [arrival |-> arrival, at |-> at, produced |-> 0]

(* Reading count values: both counts advance together.                     *)
Advance(lane, count) ==
    [lane EXCEPT !.arrival = @ + count, !.at = @ + count]

LaneState(delivered, stateful, selected) ==
    [delivered |-> delivered, stateful |-> stateful, snapshot |-> selected]

Captured(config, ring, delivered) ==
    LaneState(delivered, config.stateful, Select(ring, delivered))

(* What a lane that the checkpoint says nothing of starts from.            *)
NewLane == LaneState(0, TRUE, None)

(* _build_lane: restore the snapshot, if there is one, replay up to what   *)
(* was delivered, and snapshot there.                                      *)
RestoreSelected(saved) ==
    IF saved.snapshot = None THEN Built(0, 0)
    ELSE Built(saved.snapshot.arrival, saved.snapshot.at)

ReplayTo(lane, target) == Advance(lane, target - lane.arrival)

BuildLane(saved) == ReplayTo(RestoreSelected(saved), saved.delivered)

Seeded(config, saved) ==
    LET ring == NewRing(config)
    IN  IF saved.snapshot = None \/ ring.off THEN ring
        ELSE [ring EXCEPT !.entries = <<saved.snapshot>>]

BuildRing(config, saved) ==
    LET lane == BuildLane(saved)
        ring == Seeded(config, saved)
    IN  IF Due(config, ring, 0, TRUE)
        THEN Push(config, ring, lane.arrival, lane.at) ELSE ring

-----------------------------------------------------------------------------
(* The batches of an undisturbed epoch: a round of the lanes at a time,    *)
(* each with its next batch, as long as its source lasts.  length[l] is    *)
(* what the source of l yields.                                            *)

Part(lane, first, count) == [lane |-> lane, first |-> first, count |-> count]

Rounds == LET lengths == {LaneLength[l] : l \in Lane}
          IN  (CHOOSE n \in lengths : \A m \in lengths : m <= n) \div BatchSize + 1

Slots(length) ==
    [i \in 1 .. Rounds * LaneCount |->
        LET l == (i - 1) % LaneCount
            first == ((i - 1) \div LaneCount) * BatchSize
        IN  Part(l, first, Lesser(BatchSize, length[l] - first))]

Undisturbed(config, length) ==
    SelectSeq(Slots(length),
              LAMBDA p : p.count > 0 /\ (config.dropLast => p.count = BatchSize))

-----------------------------------------------------------------------------
(* got, lost and length are the history that the properties read: the      *)
(* batches the consumer has of this epoch, checkpoints included, those     *)
(* whose collation raised, and what each source still yielded.  due says   *)
(* set_epoch was called before this iterator, since how many batches it    *)
(* has delivered itself.                                                   *)

Fresh == [order |-> AllLanes, lanes |-> [l \in Lane |-> NewLane],
          got |-> <<>>, lost |-> {}, length |-> LaneLength]

StreamInit(config) ==
    stream = [config |-> config, active |-> FALSE, complete |-> FALSE,
              calling |-> FALSE, queue |-> <<>>,
              lane |-> [l \in Lane |-> BuildLane(NewLane)],
              ring |-> [l \in Lane |-> NewRing(config)],
              delivered |-> [l \in Lane |-> 0],
              resume |-> None, saved |-> None,
              got |-> <<>>, lost |-> {}, length |-> LaneLength,
              reset |-> FALSE, due |-> FALSE, since |-> 0, spent |-> 0]

StreamUnused == stream = None

(* A plain source cannot resume: its epoch restarts.                       *)
Resumed(s) ==
    IF s.resume = None THEN Fresh
    ELSE IF \E l \in Lane : ~s.resume.lanes[l].stateful THEN Fresh
    ELSE s.resume

(* The constructor of the iterator and build_lanes; an unfinished one is   *)
(* closed first.                                                           *)
Iterate ==
    /\ ~stream.calling /\ stream.spent < MaxStreamEvents
    /\ LET start == Resumed(stream)
       IN  stream' = [stream EXCEPT
             !.active = TRUE, !.complete = FALSE, !.queue = start.order,
             !.lane = [l \in Lane |-> BuildLane(start.lanes[l])],
             !.ring = [l \in Lane |-> BuildRing(stream.config, start.lanes[l])],
             !.delivered = [l \in Lane |-> start.lanes[l].delivered],
             !.resume = None, !.got = start.got, !.lost = start.lost,
             !.length = start.length, !.reset = FALSE, !.due = stream.reset,
             !.since = 0, !.spent = @ + 1]

CallNext ==
    /\ stream.active /\ ~stream.complete /\ ~stream.calling
    /\ stream' = [stream EXCEPT !.calling = TRUE]

(* What the head of the queue yields next, and whether its source ends.    *)
Yielded(s) ==
    LET l == Head(s.queue)
    IN  Part(l, s.lane[l].at, Lesser(BatchSize, s.length[l] - s.lane[l].at))

Exhausted(part) == part.count < BatchSize

Requeued(queue, part) ==
    IF Exhausted(part) THEN Tail(queue) ELSE Append(Tail(queue), part.lane)

(* Seeded defect: the snapshot is filed under the arrival before the batch. *)
FiledBefore(s, part) ==
    LET l == part.lane
        lane == [Advance(s.lane[l], part.count) EXCEPT !.produced = @ + 1]
        ring == IF Due(s.config, s.ring[l], lane.produced, FALSE)
                THEN Push(s.config, s.ring[l], s.lane[l].arrival, lane.at) ELSE s.ring[l]
    IN  [s EXCEPT !.lane[l] = lane, !.ring[l] = ring]

(* next_batch of a lane that yields something.                             *)
Produced(s, part) ==
    LET l == part.lane
        lane == [Advance(s.lane[l], part.count) EXCEPT !.produced = @ + 1]
        ring == IF Due(s.config, s.ring[l], lane.produced, FALSE)
                THEN Push(s.config, s.ring[l], lane.arrival, lane.at) ELSE s.ring[l]
    IN  [s EXCEPT !.lane[l] = lane, !.ring[l] = ring]

MarkDelivered(s, l) ==
    [s EXCEPT !.delivered[l] = s.lane[l].arrival,
              !.ring[l] = DiscardBefore(s.ring[l], s.lane[l].arrival)]

Dropped(s, part) == Exhausted(part) /\ s.config.dropLast

(* A turn that ends the call: the batch is counted as delivered, and then  *)
(* put together.                                                           *)
EndsCall(part) ==
    /\ stream.calling /\ stream.queue # <<>> /\ part = Yielded(stream)
    /\ part.count > 0 /\ ~Dropped(stream, part)

Counted(part) ==
    [MarkDelivered(Produced(stream, part), part.lane) EXCEPT
        !.queue = Requeued(@, part), !.calling = FALSE]

Deliver ==
    LET part == Yielded(stream)
    IN  /\ EndsCall(part)
        /\ stream' = [Counted(part) EXCEPT !.got = Append(@, part), !.since = @ + 1]

(* collate_fn raises: the error leaves __next__, the iterator stays valid, *)
(* and the batch, counted, never reaches the consumer.                     *)
CollationRaises ==
    LET part == Yielded(stream)
    IN  /\ EndsCall(part) /\ stream.spent < MaxStreamEvents
        /\ stream' = [Counted(part) EXCEPT !.lost = @ \cup {part}, !.spent = @ + 1]

(* A turn of a lane that has ended, or whose last batch is dropped.        *)
Skip ==
    /\ stream.calling /\ stream.queue # <<>>
    /\ LET part == Yielded(stream)
           after == IF part.count > 0 THEN Produced(stream, part) ELSE stream
       IN  /\ part.count = 0 \/ Dropped(stream, part)
           /\ stream' = [after EXCEPT !.queue = Tail(@)]

Finish ==
    /\ stream.calling /\ stream.queue = <<>>
    /\ stream' = [stream EXCEPT !.complete = TRUE, !.calling = FALSE]

(* The source raises: the error leaves __next__ after the lane was taken   *)
(* from the queue, and the lane and the values it had read are gone.  So   *)
(* it is when the source's state cannot be read or pickled after a batch.  *)
SourceRaises ==
    /\ stream.calling /\ stream.queue # <<>> /\ stream.spent < MaxStreamEvents
    /\ LET l == Head(stream.queue)
       IN  stream' = [stream EXCEPT !.queue = Tail(@), !.calling = FALSE,
                                    !.length[l] = stream.lane[l].at, !.spent = @ + 1]

(* capture_iterable_state: no live iterator, or a finished one, gives the  *)
(* start of an epoch.                                                      *)
Capture ==
    /\ ~stream.calling
    /\ stream' = [stream EXCEPT !.saved =
          IF stream.active /\ ~stream.complete
          THEN [order |-> stream.queue,
                lanes |-> [l \in Lane |-> Captured(stream.config, stream.ring[l],
                                                   stream.delivered[l])],
                got |-> stream.got, lost |-> stream.lost, length |-> stream.length]
          ELSE IF ~stream.active /\ stream.resume # None THEN stream.resume
          ELSE Fresh]

Load ==
    /\ ~stream.calling /\ stream.saved # None /\ stream.spent < MaxStreamEvents
    /\ stream' = [stream EXCEPT !.active = FALSE, !.queue = <<>>, !.got = <<>>,
                                !.lost = {}, !.length = LaneLength, !.reset = FALSE,
                                !.resume = stream.saved, !.spent = @ + 1]

(* The program lets go of the iterator: the loader has only a weak         *)
(* reference to it.                                                        *)
Abandon ==
    /\ stream.active /\ ~stream.calling
    /\ stream' = [stream EXCEPT !.active = FALSE, !.queue = <<>>,
                                !.got = <<>>, !.lost = {}, !.length = LaneLength]

(* recover_lane: a stateful lane is rebuilt where it was delivered to; the *)
(* loss of a plain one restarts all of them.                               *)
RecoverLane(l) ==
    /\ stream.active /\ ~stream.calling /\ stream.spent < MaxStreamEvents
    /\ \E i \in DOMAIN stream.queue : stream.queue[i] = l
    /\ IF stream.config.stateful
       THEN LET saved == Captured(stream.config, stream.ring[l], stream.delivered[l])
            IN  stream' = [stream EXCEPT !.lane[l] = BuildLane(saved),
                                         !.ring[l] = BuildRing(stream.config, saved),
                                         !.spent = @ + 1]
       ELSE stream' = [stream EXCEPT
                         !.queue = AllLanes,
                         !.lane = [k \in Lane |-> BuildLane(NewLane)],
                         !.ring = [k \in Lane |-> NewRing(stream.config)],
                         !.delivered = [k \in Lane |-> 0],
                         !.got = <<>>, !.lost = {}, !.length = LaneLength,
                         !.since = 0, !.spent = @ + 1]

(* set_epoch leaves _resume_iterable_state alone.                          *)
SetEpoch ==
    /\ ~stream.calling /\ ~stream.reset /\ stream.spent < MaxStreamEvents
    /\ stream' = [stream EXCEPT !.reset = TRUE, !.spent = @ + 1]

StreamNext ==
    \/ Iterate \/ CallNext \/ Deliver \/ CollationRaises \/ Skip \/ Finish
    \/ SourceRaises \/ Capture \/ Load \/ Abandon \/ SetEpoch
    \/ \E l \in Lane : RecoverLane(l)

-----------------------------------------------------------------------------

(* iterable/iterator.py:1 "Deterministic round-robin delivery", and the    *)
(* "exact iterable source continuation" of state.py:1: whatever was        *)
(* captured, restored, recovered or lost to a raised source, the consumer  *)
(* has a prefix of the undisturbed epoch, and all of it at the end, but    *)
(* for exactly the batches whose collation raised: none of those comes     *)
(* again, and nothing else is missing.                                     *)
Continues ==
    LET whole == Undisturbed(stream.config, stream.length)
        taken == Len(stream.got) + Cardinality(stream.lost)
    IN  /\ taken <= Len(whole)
        /\ stream.lost \subseteq {whole[i] : i \in 1 .. taken}
        /\ stream.got = SelectSeq(SubSeq(whole, 1, taken),
                                  LAMBDA part : part \notin stream.lost)
        /\ stream.active /\ stream.complete => taken = Len(whole)

(* iterable/runtime.py:55 "Advance one lane's consumer-visible arrival     *)
(* frontier": the consumer of a live iterator has every value below the    *)
(* frontier of its lane.                                                   *)
ValuesOf(part) == part.first .. part.first + part.count - 1

FrontierVisible ==
    stream.active =>
        \A l \in Lane : \A n \in 0 .. stream.delivered[l] - 1 :
            \E i \in DOMAIN stream.got :
                stream.got[i].lane = l /\ n \in ValuesOf(stream.got[i])

(* iterable/snapshot.py:36 "select a delivered-prefix restore point": a    *)
(* lane that keeps snapshots always has one less than a cadence of batches *)
(* behind what was delivered of it, so that a replay is never longer.      *)
Replayable ==
    \A l \in Lane : stream.active /\ ~stream.ring[l].off =>
        LET anchor == Select(stream.ring[l], stream.delivered[l])
        IN  /\ anchor # None
            /\ stream.delivered[l] - anchor.arrival < stream.config.cadence * BatchSize

(* api.py:360 "reset the next iterator to its first batch": an iterator    *)
(* made after set_epoch delivers the epoch from its start.                 *)
EpochReset == stream.due => stream.since = Len(stream.got)
===============================================================================
