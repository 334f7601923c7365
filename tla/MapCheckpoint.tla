---------------------------- MODULE MapCheckpoint ----------------------------
(***************************************************************************)
(* Epochs, delivered coordinates and checkpoints of a map-style loader     *)
(* (python/hyperloader/epoch.py, state/delivery.py, state/map.py, api.py). *)
(* One user thread iterates, abandons, closes, chooses epochs, captures    *)
(* and restores states, and its process may die between two calls.  The    *)
(* batches of an epoch come from the stream ProcessDelivery implements.    *)
(***************************************************************************)
EXTENDS Integers, Sequences, FiniteSets, Functions

CONSTANTS
    Batches,        \* batches of an epoch
    Deliveries,     \* the delivery orders a loader may be built with
    CaptureIdle,    \* on completion, states are captured between iterators too
    MaxEpoch        \* bound on epochs

CheckpointAssumption ==
    /\ Batches \in Nat \ {0} /\ MaxEpoch \in Nat
    /\ Deliveries \subseteq {"strict", "on-completion"}
    /\ CaptureIdle \in BOOLEAN

VARIABLES
    delivery,           \* the loader's delivery order
    current,            \* EpochState._current
    active_epoch,       \* EpochState._active_epoch
    active_delivered,   \* EpochState._active_delivered
    override,           \* EpochState._pending_override
    resume,             \* _resume_cursor_batches, _resume_delivered_bitmap
    iterator,           \* the iterator _active_iterator_ref still leads to
    saved,              \* the last state_dict the user kept
    (* Observations *)
    got,                \* batches delivered in this pass over the epoch, in
                        \* order, those before a checkpoint included
    used                \* epochs delivered since the last override took effect

epochs == <<current, active_epoch, active_delivered, override>>
vars == <<epochs, resume, iterator, saved, got, used, delivery>>

Batch == 0..(Batches - 1)
Epoch == 0..MaxEpoch
NoEpoch == -1
NoIterator == [kind |-> "none"]
NoState == [kind |-> "none"]

Bitmap == SUBSET (0..Batches)
NoResume == [cursor |-> 0, bitmap |-> {}, got |-> << >>]

Fresh ==
    /\ current = 0 /\ active_epoch = NoEpoch
    /\ active_delivered = FALSE /\ override = "none"
    /\ resume = NoResume
    /\ iterator = NoIterator
    /\ saved = NoState
    /\ got = << >> /\ used = {}

Init == Fresh /\ delivery \in Deliveries

OnCompletion == delivery = "on-completion"

Active == iterator # NoIterator /\ ~iterator.complete

(* Seeded defect: bits are batch ordinals.                                 *)
BitmapAbsolute(base, ahead) == ahead

(* Bits are offsets from the cursor.                                       *)
BitmapOf(base, ahead) == {b - base : b \in ahead}

Decoded(base, bitmap) == {base + offset : offset \in bitmap}

-----------------------------------------------------------------------------
(* begin_iteration and the iterator that starts from the resume coordinate *)

Abandoned == override = "none" /\ active_delivered

BeginIteration ==
    /\ current' = IF Abandoned THEN current + 1 ELSE current
    /\ override' = "none"
    /\ active_epoch' = current'
    /\ active_delivered' = FALSE

Iter ==
    /\ Abandoned => current < MaxEpoch
    /\ BeginIteration
    /\ iterator' = [kind |-> "map", epoch |-> current', base |-> resume.cursor,
                    ahead |-> Decoded(resume.cursor, resume.bitmap),
                    complete |-> FALSE]
    /\ resume' = NoResume
    /\ got' = resume.got
    /\ used' = IF override = "none" THEN used ELSE {}
    /\ UNCHANGED saved

(* DeliveredBatchState.mark                                                *)
Mark(b) ==
    IF b = iterator.base
    THEN \E n \in (b + 1)..Batches :
            /\ n \notin iterator.ahead
            /\ \A q \in (b + 1)..(n - 1) : q \in iterator.ahead
            /\ iterator' = [iterator EXCEPT !.base = n,
                                !.ahead = @ \ ((b + 1)..(n - 1))]
    ELSE iterator' = [iterator EXCEPT !.ahead = @ \cup {b}]

Delivered(i) == (0..(i.base - 1)) \cup i.ahead

(* __next__ hands out a batch that is left, the first one when in order.   *)
DeliverBatch(b) ==
    /\ Active
    /\ b \in Batch \ Delivered(iterator)
    /\ ~OnCompletion => b = iterator.base
    /\ Mark(b)
    /\ active_delivered' = (active_delivered \/ active_epoch = iterator.epoch)
    /\ got' = Append(got, b)
    /\ used' = used \cup {iterator.epoch}
    /\ UNCHANGED <<current, active_epoch, override, resume, saved>>

(* Seeded defect: a normal end leaves the delivery flag behind.            *)
CompleteKeepingFlag ==
    /\ active_epoch = iterator.epoch
    /\ current' = IF override = "none" /\ current = iterator.epoch
                  THEN current + 1 ELSE current
    /\ active_epoch' = NoEpoch
    /\ UNCHANGED <<active_delivered, override>>

(* EpochState.complete                                                     *)
Complete ==
    \/ /\ active_epoch = iterator.epoch
       /\ current' = IF override = "none" /\ current = iterator.epoch
                     THEN current + 1 ELSE current
       /\ active_epoch' = NoEpoch /\ active_delivered' = FALSE
       /\ UNCHANGED override
    \/ active_epoch # iterator.epoch /\ UNCHANGED epochs

(* StopIteration, once everything was delivered.                           *)
Exhaust ==
    /\ Active /\ Delivered(iterator) = Batch
    /\ current < MaxEpoch
    /\ Complete
    /\ iterator' = [iterator EXCEPT !.complete = TRUE]
    /\ used' = used \cup {iterator.epoch}
    /\ UNCHANGED <<resume, saved, got>>

(* The iterator is closed with the loader, by the user or after an error,  *)
(* or the last reference to it goes away.                                  *)
Abandon ==
    /\ iterator # NoIterator
    /\ iterator' = NoIterator
    /\ UNCHANGED <<epochs, resume, saved, got, used>>

SetEpoch(e) ==
    /\ current' = e /\ override' = "explicit"
    /\ resume' = NoResume
    /\ UNCHANGED <<active_epoch, active_delivered, iterator, saved, got, used>>

-----------------------------------------------------------------------------
(* state_dict and load_state_dict *)

NextEpoch == IF Abandoned THEN current + 1 ELSE current

(* Seeded defect: the cursor counts a batch that was not handed out.       *)
CaptureActiveAdvanced ==
    /\ Active /\ iterator.base < Batches
    /\ saved' = [kind |-> "state", epoch |-> iterator.epoch,
                 cursor |-> iterator.base + 1, bitmap |-> {}, got |-> got,
                 next |-> iterator.epoch]

(* The coordinate of the active iterator.                                  *)
CaptureActive ==
    /\ Active
    /\ saved' = [kind |-> "state", epoch |-> iterator.epoch,
                 cursor |-> iterator.base,
                 bitmap |-> IF OnCompletion
                            THEN BitmapOf(iterator.base, iterator.ahead)
                            ELSE {},
                 got |-> got, next |-> iterator.epoch]

(* A restored coordinate no iterator has consumed yet.                     *)
CaptureRestored ==
    /\ OnCompletion => CaptureIdle
    /\ iterator = NoIterator /\ resume.cursor # 0
    /\ saved' = [kind |-> "state", epoch |-> current, cursor |-> resume.cursor,
                 bitmap |-> resume.bitmap, got |-> resume.got,
                 next |-> NextEpoch]

(* The start of the current epoch.                                         *)
CaptureStart ==
    /\ OnCompletion => CaptureIdle
    /\ ~Active /\ (iterator = NoIterator => resume.cursor = 0)
    /\ saved' = [kind |-> "state", epoch |-> current, cursor |-> 0,
                 bitmap |-> {}, got |-> resume.got, next |-> NextEpoch]

Capture ==
    /\ CaptureActive \/ CaptureRestored \/ CaptureStart
    /\ UNCHANGED <<epochs, resume, iterator, got, used>>

(* restore_map_state: the loader is closed and waits at the coordinate.    *)
Load ==
    /\ saved # NoState
    /\ current' = saved.epoch /\ override' = "resume"
    /\ resume' = [cursor |-> saved.cursor, bitmap |-> saved.bitmap,
                  got |-> saved.got]
    /\ iterator' = NoIterator
    /\ UNCHANGED <<active_epoch, active_delivered, saved, got, used>>

(* The process dies; a new one builds the same loader.                     *)
Crash ==
    /\ current' = 0 /\ active_epoch' = NoEpoch
    /\ active_delivered' = FALSE /\ override' = "none"
    /\ resume' = NoResume
    /\ iterator' = NoIterator
    /\ got' = << >> /\ used' = {}
    /\ UNCHANGED saved

Call ==
    \/ Iter \/ Exhaust \/ Abandon \/ Capture \/ Load \/ Crash
    \/ \E b \in Batch : DeliverBatch(b)
    \/ \E e \in Epoch : SetEpoch(e)

Next == Call /\ UNCHANGED delivery

Spec == Init /\ [][Next]_vars

-----------------------------------------------------------------------------

(* Cursors and bitmaps stay inside the epoch, and bit zero of a bitmap,    *)
(* the first open gap, is never set (decode_delivered_bitmap).             *)
TypeOK ==
    /\ current \in 0..(MaxEpoch + 1) /\ active_epoch \in Epoch \cup {NoEpoch}
    /\ active_delivered \in BOOLEAN
    /\ override \in {"none", "explicit", "resume"}
    /\ \A c \in {resume} \cup ({saved} \ {NoState}) :
            c.cursor \in 0..Batches /\ c.bitmap \subseteq 1..(Batches - 1 - c.cursor)
    /\ iterator # NoIterator =>
            /\ iterator.epoch \in Epoch
            /\ iterator.base \in 0..Batches
            /\ iterator.ahead \subseteq (iterator.base + 1)..(Batches - 1)

(* Exact continuation: whatever was captured, restored, crashed, closed or *)
(* abandoned in between, a pass over an epoch never delivers a batch       *)
(* twice, an in-order pass delivers a prefix, and a pass that ends has     *)
(* delivered every batch (state_dict, load_state_dict, mark).              *)
ExactlyOnce ==
    /\ IsInjective(got)
    /\ ~OnCompletion => \A i \in DOMAIN got : got[i] = i - 1
    /\ iterator # NoIterator /\ iterator.complete => Range(got) = Batch

(* Epochs are neither replayed nor skipped unless the user asked: without  *)
(* set_epoch or load_state_dict, a new iterator starts the epoch after the *)
(* last one that delivered or ended, or the same one if nothing was        *)
(* delivered (begin_iteration, complete).                                  *)
FreshEpochs ==
    [][(Iter /\ override = "none")
          => IF used = {} THEN current' = current
             ELSE current' - 1 \in used /\ \A e \in used : e < current']_vars

(* "Capture the delivered coordinate for exact continuation." (api.py):    *)
(* a state names the epoch in which the loader that was captured would go  *)
(* on.                                                                     *)
CaptureNamesNext == saved # NoState => saved.epoch = saved.next
==============================================================================
