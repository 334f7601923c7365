----------------------------- MODULE RankPlacement -----------------------------
(***************************************************************************)
(* The ranks of a distributed epoch: distributed/map.py gives each rank    *)
(* its positions of one global stream, which does not depend on how many   *)
(* ranks there are, and a state saved on one topology continues on another *)
(* one (state/map.py, state/runtime.py).  All ranks call next in step when *)
(* a state is saved, each delivers in order.                               *)
(***************************************************************************)
EXTENDS Integers, FiniteSets, FiniteSetsExt

CONSTANTS
    Worlds,             \* world sizes a job is started with
    MaxResumes          \* bound on restarts of the job

VARIABLE ranks

None == [none |-> TRUE]

(* config: the dataset's length, the global batch B_g, drop_last,          *)
(* exact_count, and whether there is a topology at all.                    *)
Batch(config, world) == config.bg \div world

FullBatches(config) == config.n \div config.bg

Tail(config) == config.n % config.bg

(* Where the share of a rank in an exact tail begins.                      *)
ShareStart(config, world, rank) == (rank * Tail(config)) \div world

Share(config, world, rank) ==
    ShareStart(config, world, rank + 1) - ShareStart(config, world, rank)

(* MapPlacement.length.                                                    *)
Length(config, world, rank) ==
    LET batch == Batch(config, world)
        full == FullBatches(config) * batch
    IN  IF ~config.enabled THEN IF config.drop THEN full ELSE config.n
        ELSE IF config.drop \/ Tail(config) = 0 THEN full
        ELSE IF config.exact THEN full + Share(config, world, rank)
        ELSE full + batch

Strided(config, world, rank, position) ==
    LET batch == Batch(config, world)
    IN  (position \div batch) * config.bg + rank * batch + (position % batch)

(* Seeded defect: every rank starts at the front of the tail.              *)
SharedTail(config, world, rank, position) ==
    LET full == FullBatches(config) * Batch(config, world)
    IN  IF ~config.enabled THEN position
        ELSE IF position >= full /\ config.exact /\ Tail(config) # 0
        THEN FullBatches(config) * config.bg + position - full
        ELSE Strided(config, world, rank, position)

(* MapPlacement.coordinate.                                                *)
Coordinate(config, world, rank, position) ==
    LET full == FullBatches(config) * Batch(config, world)
    IN  IF ~config.enabled THEN position
        ELSE IF position >= full /\ config.exact /\ Tail(config) # 0
        THEN FullBatches(config) * config.bg + ShareStart(config, world, rank)
             + position - full
        ELSE Strided(config, world, rank, position)

(* MapPlacement.index: padding wraps round to the front.                   *)
SourcePosition(config, coordinate) ==
    IF coordinate < config.n THEN coordinate
    ELSE (coordinate - config.n) % config.n

TotalBatches(config, world, rank) ==
    LET batch == Batch(config, world)
    IN  (Length(config, world, rank) + batch - 1) \div batch

Started(config, world) ==
    [position |-> [r \in 0 .. world - 1 |-> 0],
     calls |-> [r \in 0 .. world - 1 |-> 0],
     ended |-> [r \in 0 .. world - 1 |-> FALSE]]

PlacementInit(config) ==
    \E world \in Worlds :
        /\ config.enabled \/ world = 1
        /\ config.bg % world = 0
        /\ ranks = [config |-> config, world |-> world,
                    job |-> Started(config, world), saved |-> None,
                    seen |-> [p \in 0 .. config.n - 1 |-> 0],
                    refused |-> FALSE, resumes |-> 0]

PlacementUnused == ranks = None

-----------------------------------------------------------------------------

RankIds(s) == 0 .. s.world - 1

Running(s) == ~s.refused

Ended(s) == \A r \in RankIds(s) : s.job.ended[r]

(* next on one rank: a batch, or the end of its epoch.                     *)
NextOn(r) ==
    LET s == ranks
        start == s.job.position[r]
        length == Length(s.config, s.world, r)
        stop == Min({start + Batch(s.config, s.world), length})
        sources == [q \in start .. stop - 1 |->
                       SourcePosition(s.config,
                           Coordinate(s.config, s.world, r, q))]
    IN  /\ Running(s) /\ r \in RankIds(s) /\ ~s.job.ended[r]
        /\ ranks' = [s EXCEPT
               !.job.calls[r] = @ + 1,
               !.job.ended[r] = start = length,
               !.job.position[r] = stop,
               !.seen = [p \in DOMAIN @ |-> @[p] +
                            Cardinality({q \in DOMAIN sources : sources[q] = p})]]

(* capture_map_state, on one rank for all.  After the end of its epoch it  *)
(* is the first batch of the next one, where there is nothing to continue. *)
Save(r) ==
    LET s == ranks
        batch == Batch(s.config, s.world)
    IN  /\ Running(s) /\ r \in RankIds(s)
        /\ \A q \in RankIds(s) : s.job.calls[q] = s.job.calls[r]
        /\ ~s.job.ended[r] /\ s.saved = None
        /\ ranks' = [s EXCEPT !.saved =
               [cursor |-> (s.job.position[r] + batch - 1) \div batch,
                seen |-> s.seen]]

(* Seeded defect: the cursor counts batches of the old size.               *)
OldBatch(config, old, new, cursor) == cursor * Batch(config, old)

(* resume_sample_position, before it is cut to the length.                 *)
ResumePosition(config, old, new, cursor) == cursor * Batch(config, new)

(* Another job on another topology: validate_elastic_restore accepts a     *)
(* world that divides the global batch, with batches to match, and a rank  *)
(* refuses a cursor past its last batch.                                   *)
Resume(world) ==
    LET s == ranks
        cursor == s.saved.cursor
        all == 0 .. world - 1
        refused == \E r \in all : cursor > TotalBatches(s.config, world, r)
    IN  /\ Running(s) /\ s.saved # None /\ s.resumes < MaxResumes
        /\ s.config.bg % world = 0
        /\ ~s.config.enabled => world = 1
        /\ ranks' = [s EXCEPT
               !.world = world, !.seen = s.saved.seen, !.saved = None,
               !.resumes = @ + 1, !.refused = refused,
               !.job = [Started(s.config, world) EXCEPT
                   !.position = [r \in all |->
                       Min({Length(s.config, world, r),
                            ResumePosition(s.config, s.world, world, cursor)})]]]

PlacementNext ==
    \/ \E r \in 0 .. Max(Worlds) - 1 : NextOn(r) \/ Save(r)
    \/ \E world \in Worlds : Resume(world)

-----------------------------------------------------------------------------

(* The coordinates of the global stream.                                   *)
StreamLength(config) ==
    LET whole == FullBatches(config) * config.bg
    IN  IF config.drop THEN whole
        ELSE IF ~config.enabled \/ config.exact \/ Tail(config) = 0 THEN config.n
        ELSE whole + config.bg

(* distributed/map.py:13, "Map rank-local positions onto one topology-     *)
(* independent global stream": when every rank has come to its end, each   *)
(* position was delivered as often as the stream has it, whatever the      *)
(* number of ranks, however often the job was restarted and with whatever  *)
(* other number.                                                           *)
StreamCovered ==
    Running(ranks) /\ Ended(ranks) =>
        \A p \in DOMAIN ranks.seen :
            ranks.seen[p] = Cardinality({k \in 0 .. StreamLength(ranks.config) - 1 :
                                             k % ranks.config.n = p})

(* README.md:67, "Changing worker count or distributed world size          *)
(* preserves map-style continuation when the recorded global batch divides *)
(* into the new topology".                                                 *)
ResumeAccepted == ~ranks.refused
===============================================================================
