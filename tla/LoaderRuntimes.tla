---------------------------- MODULE LoaderRuntimes ----------------------------
(***************************************************************************)
(* python/hyperloader/api.py, DataLoader.__iter__: a loader of the native  *)
(* mode delivers through one of its runtimes for its whole life, chosen by *)
(* the dataset, the sampler and the number of workers.  Process delivery   *)
(* is in ProcessDelivery, torch compatibility in CompatLoader.             *)
(***************************************************************************)
EXTENDS Integers, Sequences, FiniteSets

CONSTANTS
    StreamConfigs, LaneCount, BatchSize, Held, LaneLength, OversizeFrom,
    MaxStreamEvents,
    ThreadConfigs, Samples, Width, Threads, Frontier, MaxThreadEvents,
    PipeConfigs, PipeBatches, Makers, Prefetch, MaxPipeEvents,
    SampleConfigs, Streams, Native, BatchWidth, MaxSampleEvents

VARIABLES stream, thread, pipe, sample

runtimeVars == <<stream, thread, pipe, sample>>

Iterables == INSTANCE IterableStream
ThreadSafe == INSTANCE ThreadDelivery
Structured == INSTANCE BatchPipeline
OneByOne == INSTANCE SamplerDelivery

(* The options of a loader and its sizes.                                  *)
ASSUME RuntimesAssumption ==
    /\ ThreadSafe!ThreadAssumption
    /\ \A config \in ThreadConfigs : config \in [onCompletion : BOOLEAN]
    /\ OneByOne!SampleAssumption
    /\ \A config \in SampleConfigs :
          config \in [kind : {"native", "sampler", "batches", "tensor"},
                     pooled : BOOLEAN, dropLast : BOOLEAN, staged : BOOLEAN]
    /\ Structured!PipeAssumption
    /\ \A config \in PipeConfigs :
          config \in [pinned : BOOLEAN, probeFails : BOOLEAN]

None == [none |-> TRUE]

DispatchIterable ==
    /\ \E config \in StreamConfigs : Iterables!StreamInit(config)
    /\ ThreadSafe!ThreadUnused /\ Structured!PipeUnused /\ OneByOne!SampleUnused

DispatchThread ==
    /\ \E config \in ThreadConfigs : ThreadSafe!ThreadInit(config)
    /\ Iterables!StreamUnused /\ Structured!PipeUnused /\ OneByOne!SampleUnused

DispatchStructured ==
    /\ \E config \in PipeConfigs : Structured!PipeInit(config)
    /\ Iterables!StreamUnused /\ ThreadSafe!ThreadUnused /\ OneByOne!SampleUnused

(* num_workers=0, a user's sampler, or a tensor.                           *)
DispatchOneByOne ==
    /\ \E config \in SampleConfigs : OneByOne!SampleInit(config)
    /\ Iterables!StreamUnused /\ ThreadSafe!ThreadUnused /\ Structured!PipeUnused

RuntimesInit ==
    DispatchIterable \/ DispatchThread \/ DispatchStructured \/ DispatchOneByOne

RuntimesNext ==
    \/ stream # None /\ Iterables!StreamNext /\ UNCHANGED <<thread, pipe, sample>>
    \/ thread # None /\ ThreadSafe!ThreadNext /\ UNCHANGED <<stream, pipe, sample>>
    \/ pipe # None /\ Structured!PipeNext /\ UNCHANGED <<stream, thread, sample>>
    \/ sample # None /\ OneByOne!SampleNext /\ UNCHANGED <<stream, thread, pipe>>

OwnerStep ==
    \/ thread # None /\ ThreadSafe!OwnerStep /\ UNCHANGED <<stream, pipe, sample>>
    \/ pipe # None /\ Structured!PipeOwnerStep /\ UNCHANGED <<stream, thread, sample>>

ThreadStep ==
    \/ thread # None /\ ThreadSafe!ThreadStep /\ UNCHANGED <<stream, pipe, sample>>
    \/ pipe # None /\ Structured!PipeTaskStep /\ UNCHANGED <<stream, thread, sample>>

(* A caller that is in a call goes on, and so do the threads: evaluating a *)
(* sample or a batch returns or raises.                                    *)
RuntimesSpec ==
    /\ RuntimesInit /\ [][RuntimesNext]_runtimeVars
    /\ WF_runtimeVars(OwnerStep)
    /\ WF_runtimeVars(ThreadStep)

-----------------------------------------------------------------------------

(* iterable/state.py:1, "exact iterable source continuation": over         *)
(* captures, restores, recovered lanes and sources that raise, the         *)
(* consumer has a prefix of the undisturbed round-robin epoch, but for the *)
(* batches whose collation raised, and replays stay within a snapshot      *)
(* cadence (Continues, Replayable).                                        *)
StreamContinues ==
    stream # None => Iterables!Continues /\ Iterables!Replayable

(* iterable/runtime.py:55, "consumer-visible arrival frontier": what a     *)
(* lane counts as delivered, and a checkpoint carries, has reached the     *)
(* consumer.                                                               *)
FrontierVisible == stream # None => Iterables!FrontierVisible

(* api.py:359, "reset the next iterator to its first batch": an iterator   *)
(* of an iterable loader made after set_epoch delivers its epoch from the  *)
(* start.                                                                  *)
EpochReset == stream # None => Iterables!EpochReset

(* thread/iterator.py:1, "Strict-order delivery": whatever was abandoned,  *)
(* captured, restored or failed, a pass of the thread runtime delivers no  *)
(* batch twice, and all of them when it ends (Exact).                      *)
ThreadsExact == thread # None => ThreadSafe!Exact

(* structured/probe.py:47, "so shape probing is not a reread", and         *)
(* memory/pinned/pool.py:35: a pass of the structured pipeline reads each  *)
(* batch once and in its place, and no buffer is written over while a      *)
(* batch in it is still to be used.                                        *)
BatchesKept == pipe # None => Structured!ReadOnce /\ Structured!SlotsKept

(* structured/pipeline.py:134: every batch of a structured loader that     *)
(* pins is pinned, the probed one included.                                *)
PinnedAsAsked == pipe # None => Structured!PinnedAsAsked

(* state/sampler.py:14 and :69, inprocess/rng.py:13: over captures,        *)
(* restores and errors the consumer has a prefix of what the sampler       *)
(* yields, read no further than the batch in hand, and its own random      *)
(* state is as it left it between two calls.                               *)
SamplerContinues ==
    sample # None => OneByOne!SamplerContinues /\ OneByOne!AmbientKept

(* thread/iterator.py:88 and structured/iterator.py:43, __next__: a call   *)
(* returns a batch, ends the epoch or raises, whatever raced it.  It needs *)
(* the frontier to hold a batch, and the callback of every future to come  *)
(* after its result.                                                       *)
Calling ==
    \/ thread # None /\ thread.call = "next"
    \/ pipe # None /\ pipe.call = "next"

NextReturns == Calling ~> ~Calling
===============================================================================
