----------------------------- MODULE LoaderState -----------------------------
(***************************************************************************)
(* What the owner of a loader keeps next to its delivery: the tensor       *)
(* storages it decoded (ResultStorage), the batches it stages in pinned    *)
(* memory (PinnedStaging), the record of its shared regions                *)
(* (RegionRegistry) and its epochs and checkpoints (MapCheckpoint).  No    *)
(* two of them share a variable, so each is explored with the others at    *)
(* rest, and part says which.                                              *)
(***************************************************************************)
EXTENDS Integers, Sequences, FiniteSets

CONSTANTS
    Samples, Workers, Storage, Temporary, Ascending, InOrder, MaxRestarts,
    Batches, Failing, ClosesLoader, UseAfterClose,
    Processes, Pids, Regions, OwnerOf(_), Torn, Failures, MaxCreations,
    EpochBatches, Deliveries, CaptureIdle, MaxEpoch

VARIABLES
    part,
    source, address, storage_ids, results, tensor_bases, values, restarts,
    calls, valid, queue, acknowledged, stopped, thread, producers, ppc, item,
    cpc, got, complete, delivered, received,
    regions, file, torn, lock, status, pid, op, held, creations, failed,
    delivery, current, active_epoch, active_delivered, override, resume,
    iterator, saved, passed, used

decodedVars ==
    <<source, address, storage_ids, results, tensor_bases, values, restarts>>
stagedVars ==
    <<calls, valid, queue, acknowledged, stopped, thread, producers, ppc, item,
      cpc, got, complete, delivered, received>>
registryVars ==
    <<regions, file, torn, lock, status, pid, op, held, creations, failed>>
epochVars ==
    <<delivery, current, active_epoch, active_delivered, override, resume,
      iterator, saved, passed, used>>
stateVars == <<part, decodedVars, stagedVars, registryVars, epochVars>>

Decoded == INSTANCE ResultStorage
Staged == INSTANCE PinnedStaging
Registry == INSTANCE RegionRegistry
Epochs == INSTANCE MapCheckpoint WITH Batches <- EpochBatches, got <- passed

ASSUME StateAssumption ==
    /\ Decoded!StorageAssumption
    /\ Staged!StagingAssumption
    /\ Registry!RegistryAssumption
    /\ Epochs!CheckpointAssumption

(* The dataset and the delivery order are open where they are of the part. *)
StateInit ==
    /\ part \in {"decoded", "staged", "registry", "epochs"}
    /\ Decoded!NothingSent /\ Staged!Init /\ Registry!Init /\ Epochs!Fresh
    /\ \/ part = "decoded" /\ Decoded!Dataset
       \/ part # "decoded" /\ source = << >> /\ address = << >>
    /\ \/ part = "epochs" /\ delivery \in Deliveries
       \/ part # "epochs" /\ delivery = "strict"

Only(name) ==
    /\ part = name
    /\ UNCHANGED part
    /\ name # "decoded" => UNCHANGED decodedVars
    /\ name # "staged" => UNCHANGED stagedVars
    /\ name # "registry" => UNCHANGED registryVars
    /\ name # "epochs" => UNCHANGED epochVars

StateNext ==
    \/ Only("decoded") /\ Decoded!Next
    \/ Only("staged") /\ Staged!Next
    \/ Only("registry") /\ Registry!Next
    \/ Only("epochs") /\ Epochs!Next

(* The staging thread and a consumer in a call are scheduled; the user may *)
(* stop calling.                                                           *)
StateSpec ==
    /\ StateInit /\ [][StateNext]_stateVars
    /\ WF_stagedVars(Only("staged") /\ Staged!Producer)
    /\ WF_stagedVars(Only("staged") /\ Staged!Consumer)

-----------------------------------------------------------------------------

(* process/serialization.py:54: a decoded value is a view of the storage   *)
(* the worker encoded, and every storage it names is known to the owner,   *)
(* over replaced workers as well.                                          *)
ValuesFaithful ==
    part = "decoded" => Decoded!ValuesFaithful /\ Decoded!StoragesKnown

(* memory/pinned/iterator.py:66: the coordinates the loader reports are    *)
(* those of batches the consumer holds, while the staging thread is at     *)
(* most one batch ahead of them.                                           *)
DeliveredOnly == Staged!DeliveredOnly /\ Staged!OneAhead

(* memory/pinned/iterator.py, __next__, invalidate and close: a call of    *)
(* the consumer returns, whatever the staging thread is doing at that      *)
(* moment.                                                                 *)
StagingReturns == Staged!CallsReturn

(* arena/reaper/registry/sweep.rs:54 and store.rs:61: a sweep unlinks no   *)
(* region of a live process, every region left behind has its record, and  *)
(* after every crash a sweep remains possible.                             *)
RegistryKept ==
    /\ Registry!LiveRegionsKept
    /\ Registry!RegionsRegistered
    /\ Registry!SweepsPossible

(* api.py:378, "exact continuation": over captures, restores, crashes,     *)
(* closes and abandoned iterators a pass delivers no batch twice, a prefix *)
(* when in order, and all of them when it ends.                            *)
ExactlyOnce == Epochs!ExactlyOnce

(* epoch.py, begin_iteration and complete: without set_epoch or a restored *)
(* state a new iterator starts the epoch after the last one that delivered *)
(* or ended.                                                               *)
FreshEpochs == Epochs!FreshEpochs
===============================================================================
