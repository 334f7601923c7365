--------------------------- MODULE SamplerDelivery ---------------------------
(***************************************************************************)
(* One batch at a time: python/hyperloader/inprocess (the calling process  *)
(* evaluates), state/streaming_iterator.py and state/sampler_iterator.py   *)
(* (a process pool does, for the user's sampler or batch sampler) and      *)
(* tensor (views of a tensor).  state/sampler.py reads the user's sampler  *)
(* lazily and verifies, when it resumes, that what was delivered before is *)
(* what the sampler yields again.  A checksum stands for what it is of.    *)
(***************************************************************************)
EXTENDS Integers, Sequences, FiniteSets

CONSTANTS
    Streams,            \* what the user's sampler may yield, a pass at a time
    Native,             \* the positions of the loader's own order
    BatchWidth,         \* samples of a batch
    MaxSampleEvents     \* bound on iterators and failures

SampleAssumption ==
    /\ BatchWidth \in Nat \ {0}
    /\ Native \in Seq(Nat) /\ Streams \subseteq Seq(Nat)

VARIABLE sample

None == [none |-> TRUE]

Missed == -1            \* stands for a sample whose fetch raised

Foreign == -1           \* a random state of the user's code for a sample

Lesser(a, b) == IF a < b THEN a ELSE b

Prefix(s, n) == SubSeq(s, 1, n)

(* kind: "native" order, the user's "sampler" or "batches", or "tensor".   *)
(* A user's batch is one element of its stream.                            *)
ByUser(config) == config.kind \in {"sampler", "batches"}

WidthOf(config) == IF config.kind = "batches" THEN 1 ELSE BatchWidth

DropsLast(config) == config.dropLast /\ config.kind # "batches"

(* delivery_length: the loader's own order is clipped to whole batches.    *)
Clipped(config) ==
    IF config.dropLast
    THEN Prefix(Native, Len(Native) - (Len(Native) % BatchWidth)) ELSE Native

Sources(config) == IF ByUser(config) THEN Streams ELSE {Clipped(config)}

AvailableBatches(config, length) ==
    length \div WidthOf(config)
        + (IF length % WidthOf(config) > 0 /\ ~DropsLast(config) THEN 1 ELSE 0)

NoCursor == [cursor |-> 0, checksum |-> <<>>, got |-> <<>>]

SampleInit(config) ==
    sample = [config |-> config, stream |-> <<>>, read |-> 0,
              position |-> 0, delivered |-> 0,
              live |-> FALSE, complete |-> FALSE, call |-> "idle", width |-> 0,
              ambient |-> 0, session |-> None, draws |-> 0,
              resume |-> NoCursor, saved |-> None, got |-> <<>>, spent |-> 0]

SampleUnused == sample = None

(* _generate_to: read no more of the sampler than asked for.               *)
GenerateTo(s, count) ==
    IF count <= s.read THEN s ELSE [s EXCEPT !.read = Lesser(count, Len(s.stream))]

(* close: the iterator no longer delivers.                                 *)
Closed(s) == [s EXCEPT !.live = FALSE, !.complete = FALSE]

Start(config, stream, resume) ==
    Lesser(Len(stream), resume.cursor * WidthOf(config))

(* Seeded defect: the checksum is not looked at.                           *)
ReproducesLength(config, stream, resume) ==
    resume.cursor <= AvailableBatches(config, Len(stream))

(* A sampler that resumes must have the delivered batches, the last of     *)
(* them perhaps not full, and yield the same as was delivered.             *)
ReproducesSamples(config, stream, resume) ==
    /\ resume.cursor <= AvailableBatches(config, Len(stream))
    /\ Prefix(stream, Start(config, stream, resume)) = resume.checksum

ReproducesBatches(stream, resume) ==
    /\ resume.cursor <= Len(stream)
    /\ Prefix(stream, resume.cursor) = resume.checksum

(* The loader's own order is bounded, and not verified.                    *)
Reproduces(config, stream, resume) ==
    CASE config.kind = "sampler" -> ReproducesSamples(config, stream, resume)
      [] config.kind = "batches" -> ReproducesBatches(stream, resume)
      [] OTHER -> resume.cursor <= AvailableBatches(config, Len(stream))

(* The iterator of the calling process, and of a tensor.                   *)
Built(s, stream) ==
    LET start == Start(s.config, stream, s.resume)
    IN  [s EXCEPT !.stream = stream, !.read = start, !.position = start,
                  !.delivered = s.resume.cursor, !.live = TRUE,
                  !.complete = FALSE, !.got = s.resume.got, !.resume = NoCursor]

(* Those over the process pool look at the first element for its shape.    *)
Probed(s) == GenerateTo(s, s.position + 1)

BuiltFor(s, stream) ==
    IF s.config.pooled THEN Probed(Built(s, stream)) ELSE Built(s, stream)

Iterate(stream) ==
    /\ sample.call = "idle" /\ sample.spent < MaxSampleEvents
    /\ LET s == IF sample.complete THEN sample ELSE Closed(sample)
       IN  IF Reproduces(s.config, stream, s.resume)
           THEN sample' = [BuiltFor(s, stream) EXCEPT !.spent = @ + 1]
           ELSE sample' = [Closed(s) EXCEPT !.spent = @ + 1, !.got = <<>>]

CallNext ==
    /\ sample.live /\ ~sample.complete /\ sample.call = "idle"
    /\ sample' = [sample EXCEPT !.call = "next"]

(* The samples of the next batch that there are.                           *)
NextWidth(s) == Lesser(WidthOf(s.config), Len(s.stream) - s.position)

Ends(s) ==
    \/ NextWidth(s) = 0
    \/ NextWidth(s) < WidthOf(s.config) /\ DropsLast(s.config)

Looked(s) == GenerateTo(s, s.position + WidthOf(s.config))

Finish ==
    /\ sample.call = "next" /\ Ends(sample)
    /\ sample' = [Looked(sample) EXCEPT !.complete = TRUE, !.call = "idle"]

(* A session saves the consumer's random states and installs the sample's. *)
Opened(s) == [s EXCEPT !.session = [ambient |-> s.ambient], !.ambient = Foreign]

(* Seeded defect: the states are put back only after a batch.              *)
LeftOpen(s) == [s EXCEPT !.session = None]

SessionClosed(s) ==
    IF s.session = None THEN s
    ELSE [s EXCEPT !.ambient = s.session.ambient, !.session = None]

Evaluating(s) == [Looked(s) EXCEPT !.call = "evaluate", !.width = NextWidth(s)]

Next(iterator) == sample.call = "next" /\ iterator /\ ~Ends(sample)

(* The calling process: _next_indices, then __getitem__ in a session.      *)
EvaluateHere ==
    /\ Next(sample.config.kind # "tensor" /\ ~sample.config.pooled)
    /\ sample' = Opened(Evaluating(sample))

(* The process pool evaluates, or collates, a batch of sampled indices.    *)
EvaluateStream ==
    /\ Next(sample.config.kind = "sampler" /\ sample.config.pooled)
    /\ sample' = Evaluating(sample)

(* The process pool evaluates one batch of the user's.                     *)
EvaluateBatch ==
    /\ Next(sample.config.kind = "batches" /\ sample.config.pooled)
    /\ sample' = Evaluating(sample)

(* A slice or a selection of the tensor; the position moves first.         *)
FetchTensor ==
    /\ Next(sample.config.kind = "tensor")
    /\ sample' = [Evaluating(sample) EXCEPT !.position = @ + NextWidth(sample)]

First(s) == IF s.config.kind = "tensor" THEN s.position - s.width ELSE s.position

Batch(s) == SubSeq(s.stream, First(s) + 1, First(s) + s.width)

Commit ==
    /\ sample.call = "evaluate"
    /\ sample' = [SessionClosed(sample) EXCEPT
                    !.position = First(sample) + sample.width,
                    !.delivered = @ + 1, !.got = @ \o Batch(sample), !.call = "idle"]

(* The dataset or the collation raises: the loader is closed.              *)
EvaluationFails ==
    /\ sample.call = "evaluate" /\ sample.config.kind # "tensor"
    /\ sample.spent < MaxSampleEvents
    /\ sample' = [Closed(SessionClosed(sample)) EXCEPT
                    !.got = <<>>, !.call = "idle", !.spent = @ + 1]

(* The tensor's iterator has no error path: it goes on after the batch.    *)
FetchFails ==
    /\ sample.call = "evaluate" /\ sample.config.kind = "tensor"
    /\ sample.spent < MaxSampleEvents
    /\ sample' = [sample EXCEPT !.got = @ \o [i \in 1 .. sample.width |-> Missed],
                                !.call = "idle", !.spent = @ + 1]

(* The user's sampler raises while it is read: nothing is closed, and a    *)
(* generator that has raised has ended.                                    *)
SamplerRaises ==
    /\ sample.call = "next" /\ ByUser(sample.config)
    /\ sample.read < Len(sample.stream) /\ sample.spent < MaxSampleEvents
    /\ \E n \in sample.read .. Len(sample.stream) - 1 :
          /\ n < sample.position + WidthOf(sample.config)
          /\ sample' = [sample EXCEPT !.stream = Prefix(@, n), !.read = n,
                                      !.call = "idle", !.spent = @ + 1]

(* The consumer draws.  When the batch is made on the staging thread, it   *)
(* may do so while a session is open.                                      *)
Draw ==
    /\ sample.call = "idle" \/ sample.config.staged
    /\ sample.spent < MaxSampleEvents
    /\ sample' = [sample EXCEPT !.ambient = IF @ = Foreign THEN @ ELSE @ + 1,
                                !.draws = @ + 1, !.spent = @ + 1]

CursorOf(s) ==
    IF s.config.kind = "tensor"
    THEN (s.position + BatchWidth - 1) \div BatchWidth ELSE s.delivered

(* capture_map_state.                                                      *)
Captured(s) ==
    IF s.live /\ ~s.complete
    THEN [cursor |-> CursorOf(s),
          checksum |-> IF ByUser(s.config) THEN Prefix(s.stream, s.position) ELSE <<>>,
          got |-> s.got]
    ELSE IF ~s.live /\ s.resume.cursor > 0 THEN s.resume
    ELSE NoCursor

Capture ==
    /\ sample.call = "idle"
    /\ sample' = [sample EXCEPT !.saved = Captured(sample)]

Load ==
    /\ sample.call = "idle" /\ sample.saved # None
    /\ sample' = [Closed(sample) EXCEPT !.resume = sample.saved, !.got = <<>>]

(* set_epoch: the next iterator starts with its first batch.               *)
SetEpoch ==
    /\ sample.call = "idle" /\ sample.resume # NoCursor
    /\ sample' = [sample EXCEPT !.resume = NoCursor]

SampleNext ==
    \/ \E stream \in Sources(sample.config) : Iterate(stream)
    \/ CallNext \/ Finish
    \/ EvaluateHere \/ EvaluateStream \/ EvaluateBatch \/ FetchTensor
    \/ Commit \/ EvaluationFails \/ FetchFails
    \/ SamplerRaises \/ Draw \/ Capture \/ Load \/ SetEpoch

-----------------------------------------------------------------------------

Agrees(got, stream) ==
    /\ Len(got) <= Len(stream)
    /\ \A i \in DOMAIN got : got[i] \in {stream[i], Missed}

(* state/sampler.py:69 "the sampler is nondeterministic or this rank's     *)
(* state belongs to a different rank", and :14 "lazily": over captures,    *)
(* restores and errors the consumer has a prefix of what the sampler       *)
(* yields now, all of its batches at the end, and the sampler is read no   *)
(* further than the batch in hand.                                         *)
SamplerContinues ==
    sample.live =>
        /\ Agrees(sample.got, sample.stream)
        /\ sample.read <= sample.position + WidthOf(sample.config)
        /\ sample.complete =>
               Len(sample.got) >= Len(sample.stream)
                   - (IF DropsLast(sample.config) THEN BatchWidth - 1 ELSE 0)

(* inprocess/rng.py:13 "preserving the consumer's CPU RNG states": between *)
(* the calls, also those that raised, the consumer draws on from where it  *)
(* was.                                                                    *)
AmbientKept == sample.session = None => sample.ambient = sample.draws
===============================================================================
