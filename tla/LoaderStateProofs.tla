--------------------------- MODULE LoaderStateProofs ---------------------------
(***************************************************************************)
(* The four parts of the owner's state, one after the other: epochs and    *)
(* checkpoints, the registry of regions, the staging thread and            *)
(* the decoded storages.  A step of one part leaves the variables of the   *)
(* others alone, so each part has an inductive invariant of its own.       *)
(***************************************************************************)
EXTENDS LoaderState, FiniteSetTheorems, WellFoundedInduction, TLAPS

(* A step of the composition is a step of one part, and the others stand   *)
(* still.                                                                  *)
LEMMA PartsApart ==
    ASSUME [StateNext]_stateVars
    PROVE  /\ Epochs!Next \/ UNCHANGED epochVars
           /\ Registry!Next \/ UNCHANGED registryVars
           /\ Staged!Next \/ UNCHANGED stagedVars
           /\ (part = "decoded" /\ Decoded!Next) \/ UNCHANGED decodedVars
           /\ UNCHANGED part
<1>1. CASE Only("decoded") /\ Decoded!Next
  BY <1>1 DEF Only
<1>2. CASE Only("staged") /\ Staged!Next
  BY <1>2 DEF Only
<1>3. CASE Only("registry") /\ Registry!Next
  BY <1>3 DEF Only
<1>4. CASE Only("epochs") /\ Epochs!Next
  BY <1>4 DEF Only
<1>5. CASE UNCHANGED stateVars
  BY <1>5 DEF stateVars
<1> QED
  BY <1>1, <1>2, <1>3, <1>4, <1>5 DEF StateNext

-----------------------------------------------------------------------------
(* Epochs and checkpoints.                                                 *)

EpochBatch == 0..(EpochBatches - 1)

(* delivery is in order.                                                   *)
Strict == delivery # "on-completion"

(* A pass that delivered exactly the batches of done, in order if it must. *)
Pass(strict, run, done) ==
    /\ run \in Seq(EpochBatch)
    /\ \A i, j \in DOMAIN run : run[i] = run[j] => i = j
    /\ {run[i] : i \in DOMAIN run} = done
    /\ strict => \A i \in DOMAIN run : run[i] = i - 1

(* A coordinate with a pass that got there.                                *)
Coordinate(strict, c) ==
    /\ c.cursor \in 0..EpochBatches
    /\ c.bitmap \subseteq 1..(EpochBatches - 1 - c.cursor)
    /\ strict => c.bitmap = {}
    /\ Pass(strict, c.got, (0..(c.cursor - 1)) \cup {c.cursor + b : b \in c.bitmap})

EpochIterator ==
    [kind : {"map"}, epoch : Int, base : 0..EpochBatches,
     ahead : SUBSET EpochBatch, complete : BOOLEAN]

(* The batches of a pass are those its iterator counts as delivered, and   *)
(* every coordinate comes with the pass that reached it.                   *)
PassInv ==
    /\ Strict \/ ~CaptureIdle
    /\ current \in Int
    /\ Coordinate(Strict, resume)
    /\ saved # [kind |-> "none"] => Coordinate(Strict, saved) /\ saved.epoch \in Int
    /\ \E done \in SUBSET EpochBatch : Pass(Strict, passed, done)
    /\ iterator # [kind |-> "none"] =>
         /\ iterator \in EpochIterator
         /\ iterator.ahead \subseteq (iterator.base + 1)..(EpochBatches - 1)
         /\ Strict => iterator.ahead = {}
         /\ resume = [cursor |-> 0, bitmap |-> {}, got |-> << >>]
         /\ Pass(Strict, passed, (0..(iterator.base - 1)) \cup iterator.ahead)
         /\ iterator.complete =>
               (0..(iterator.base - 1)) \cup iterator.ahead = EpochBatch

(* A batch joins a pass that did not deliver it.                           *)
LEMMA PassGrows ==
    ASSUME NEW strict \in BOOLEAN, NEW run, NEW done, Pass(strict, run, done), NEW b \in EpochBatch \ done,
           strict => done = 0..(b - 1)
    PROVE  Pass(strict, Append(run, b), done \cup {b})
<1>1. run \in Seq(EpochBatch) /\ Len(run) \in Nat /\ DOMAIN run = 1..Len(run)
  BY DEF Pass
<1>2. /\ Append(run, b) \in Seq(EpochBatch)
      /\ DOMAIN Append(run, b) = (1..Len(run)) \cup {Len(run) + 1}
      /\ \A i \in 1..Len(run) : Append(run, b)[i] = run[i]
      /\ Append(run, b)[Len(run) + 1] = b
  BY <1>1
<1>3. \A i \in 1..Len(run) : run[i] \in done
  BY <1>1 DEF Pass
<1>4. \A i, j \in DOMAIN Append(run, b) :
          Append(run, b)[i] = Append(run, b)[j] => i = j
  BY <1>1, <1>2, <1>3 DEF Pass
<1>5. {Append(run, b)[i] : i \in DOMAIN Append(run, b)} = done \cup {b}
  BY <1>1, <1>2 DEF Pass
<1>6. ASSUME strict PROVE b = Len(run)
  <2>1. b \in Nat /\ done = 0..(b - 1)
    BY <1>6 DEF EpochBatch
  <2>2. \A i \in 1..Len(run) : run[i] = i - 1
    BY <1>1, <1>6 DEF Pass
  <2>3. ~(b < Len(run))
    <3> SUFFICES ASSUME b < Len(run) PROVE FALSE
      OBVIOUS
    <3>1. b + 1 \in 1..Len(run) /\ run[b + 1] = b
      BY <1>1, <2>1, <2>2
    <3> QED
      BY <1>3, <3>1
  <2>4. ~(Len(run) < b)
    <3> SUFFICES ASSUME Len(run) < b PROVE FALSE
      OBVIOUS
    <3>1. Len(run) \in done
      BY <1>1, <2>1
    <3>2. PICK i \in 1..Len(run) : run[i] = Len(run)
      BY <1>1, <3>1 DEF Pass
    <3> QED
      BY <1>1, <2>2, <3>2
  <2>5. Len(run) \in Int /\ b \in Int
    BY <1>1, <2>1
  <2> QED
    BY <2>3, <2>4, <2>5
<1>7. strict =>
          \A i \in DOMAIN Append(run, b) : Append(run, b)[i] = i - 1
  BY <1>1, <1>2, <1>6 DEF Pass
<1> QED
  BY <1>2, <1>4, <1>5, <1>7 DEF Pass

(* The start of an epoch.                                                  *)
LEMMA PassStarts ==
    ASSUME NEW strict \in BOOLEAN
    PROVE  /\ Pass(strict, << >>, {})
           /\ EpochBatches \in Nat =>
                 Coordinate(strict, [cursor |-> 0, bitmap |-> {}, got |-> << >>])
<1>1. Pass(strict, << >>, {})
  BY DEF Pass
<1>2. (0..(0 - 1)) \cup {0 + b : b \in {}} = {}
  OBVIOUS
<1>3. ASSUME EpochBatches \in Nat, NEW c,
             c = [cursor |-> 0, bitmap |-> {}, got |-> << >>]
      PROVE  Coordinate(strict, c)
  <2>1. c.cursor = 0 /\ c.bitmap = {} /\ c.got = << >>
    BY <1>3
  <2> QED
    <3>1. c.cursor \in 0..EpochBatches /\ c.cursor = 0
      BY <1>3, <2>1
    <3>2. c.bitmap \subseteq 1..(EpochBatches - 1 - c.cursor) /\ c.bitmap = {}
      BY <2>1
    <3>3. (0..(c.cursor - 1)) \cup {c.cursor + b : b \in c.bitmap} = {}
      BY <1>2, <2>1
    <3>4. Pass(strict, c.got, (0..(c.cursor - 1)) \cup {c.cursor + b : b \in c.bitmap})
      BY <1>1, <2>1, <3>3
    <3> QED
      BY ONLY <3>1, <3>2, <3>4 DEF Coordinate
<1> QED
  BY <1>1, <1>3

LEMMA PassInvInit ==
    ASSUME "on-completion" \in Deliveries => ~CaptureIdle, StateInit
    PROVE  PassInv
<1>1. /\ current = 0 /\ passed = << >>
      /\ resume = [cursor |-> 0, bitmap |-> {}, got |-> << >>]
      /\ iterator = [kind |-> "none"] /\ saved = [kind |-> "none"]
  BY DEF StateInit, Epochs!Fresh, Epochs!NoResume, Epochs!NoIterator, Epochs!NoState
<1>2. EpochBatches \in Nat
  BY StateAssumption DEF StateAssumption, Epochs!CheckpointAssumption
<1>3. Strict \/ ~CaptureIdle
  BY DEF StateInit, Strict
<1>4. /\ Coordinate(Strict, resume) /\ Pass(Strict, passed, {})
      /\ {} \in SUBSET EpochBatch
  BY <1>1, <1>2, PassStarts DEF Strict
<1> QED
  BY <1>1, <1>3, <1>4 DEF PassInv

(* begin_iteration: the iterator goes on at the coordinate.                *)
LEMMA IterKeepsPass ==
    ASSUME PassInv, Epochs!Iter, Strict' = Strict
    PROVE  PassInv'
<1> DEFINE ahead == {resume.cursor + b : b \in resume.bitmap}
<1>0. EpochBatches \in Nat
  BY StateAssumption DEF StateAssumption, Epochs!CheckpointAssumption
<1>1. /\ resume.cursor \in 0..EpochBatches
      /\ resume.bitmap \subseteq 1..(EpochBatches - 1 - resume.cursor)
      /\ Strict => resume.bitmap = {}
      /\ Pass(Strict, resume.got, (0..(resume.cursor - 1)) \cup ahead)
  BY DEF PassInv, Coordinate
<1>2. /\ iterator' = [kind |-> "map", epoch |-> current', base |-> resume.cursor,
                      ahead |-> ahead, complete |-> FALSE]
      /\ resume' = [cursor |-> 0, bitmap |-> {}, got |-> << >>]
      /\ passed' = resume.got /\ saved' = saved /\ current' \in Int
  BY DEF Epochs!Iter, Epochs!BeginIteration, Epochs!Decoded, Epochs!NoResume, PassInv
<1>3. ahead \subseteq (resume.cursor + 1)..(EpochBatches - 1)
  BY <1>0, <1>1
<1>4. ahead \subseteq EpochBatch /\ (0..(resume.cursor - 1)) \cup ahead \in SUBSET EpochBatch
  BY <1>0, <1>1, <1>3 DEF EpochBatch
<1>5. iterator' \in EpochIterator
  BY <1>1, <1>2, <1>4 DEF EpochIterator
<1>6. Coordinate(Strict, resume')
  BY <1>0, <1>2, PassStarts DEF Strict
<1>7. Pass(Strict, passed', (0..(iterator'.base - 1)) \cup iterator'.ahead)
  BY <1>1, <1>2
<1>8. Strict => ahead = {}
  BY <1>1
<1> HIDE DEF ahead
<1>9. iterator'.ahead = ahead /\ iterator'.base = resume.cursor
      /\ iterator'.complete = FALSE
  BY <1>2
<1>10. Coordinate(Strict, resume)' /\ (Coordinate(Strict, saved)' <=> Coordinate(Strict, saved))
  BY <1>2, <1>6 DEF Coordinate, Pass
<1>11. \E done \in SUBSET EpochBatch : Pass(Strict, passed, done)'
  BY <1>4, <1>7, <1>9 DEF Pass
<1> QED
  BY <1>2, <1>3, <1>5, <1>7, <1>8, <1>9, <1>10, <1>11 DEF PassInv, Pass

(* __next__ and mark: one more batch, the first open one when in order.    *)
LEMMA DeliverKeepsPass ==
    ASSUME PassInv, NEW b \in EpochBatch, Epochs!DeliverBatch(b), Strict' = Strict
    PROVE  PassInv'
<1> DEFINE done == (0..(iterator.base - 1)) \cup iterator.ahead
<1>0. EpochBatches \in Nat
  BY StateAssumption DEF StateAssumption, Epochs!CheckpointAssumption
<1>1. /\ iterator # [kind |-> "none"] /\ ~iterator.complete
      /\ b \notin done
      /\ Strict => b = iterator.base
      /\ passed' = Append(passed, b)
      /\ UNCHANGED <<current, resume, saved>>
  BY DEF Epochs!DeliverBatch, Epochs!Active, Epochs!NoIterator, Epochs!OnCompletion, Strict,
         Epochs!Delivered
<1>2. /\ iterator \in EpochIterator
      /\ iterator.ahead \subseteq (iterator.base + 1)..(EpochBatches - 1)
      /\ Strict => iterator.ahead = {}
      /\ resume = [cursor |-> 0, bitmap |-> {}, got |-> << >>]
      /\ Pass(Strict, passed, done)
  BY <1>1 DEF PassInv
<1>3. Pass(Strict, passed', done \cup {b})
  <2>1. Strict => done = 0..(b - 1)
    BY <1>1, <1>2
  <2> QED
    BY <1>1, <1>2, <2>1, PassGrows DEF Strict
<1>4. b \in Nat /\ b < EpochBatches /\ iterator.base \in 0..EpochBatches
      /\ iterator.ahead \subseteq EpochBatch
  BY <1>0, <1>2 DEF EpochBatch, EpochIterator
<1>5. /\ iterator' \in EpochIterator /\ iterator'.complete = FALSE
      /\ iterator'.ahead \subseteq (iterator'.base + 1)..(EpochBatches - 1)
      /\ (0..(iterator'.base - 1)) \cup iterator'.ahead = done \cup {b}
      /\ Strict => iterator'.ahead = {}
  <2>1. CASE b = iterator.base
    <3>1. PICK n \in (b + 1)..EpochBatches :
              /\ n \notin iterator.ahead
              /\ \A q \in (b + 1)..(n - 1) : q \in iterator.ahead
              /\ iterator' = [iterator EXCEPT !.base = n,
                                  !.ahead = @ \ ((b + 1)..(n - 1))]
      BY <2>1 DEF Epochs!DeliverBatch, Epochs!Mark
    <3>2. /\ iterator'.base = n /\ iterator'.complete = iterator.complete
          /\ iterator'.ahead = iterator.ahead \ ((b + 1)..(n - 1))
          /\ iterator' \in EpochIterator
      <4>1. n \in 0..EpochBatches
        BY <1>0, <1>4, <3>1
      <4> PICK left \in SUBSET EpochBatch :
                   left = iterator.ahead \ ((b + 1)..(n - 1))
        BY <1>4
      <4>2. iterator' = [iterator EXCEPT !.base = n, !.ahead = left]
        BY <3>1
      <4> QED
        BY <1>2, <4>1, <4>2 DEF EpochIterator
    <3>3. iterator'.ahead \subseteq (n + 1)..(EpochBatches - 1)
      BY <1>2, <1>4, <2>1, <3>1, <3>2
    <3>4. 0..(n - 1) = (0..(b - 1)) \cup {b} \cup ((b + 1)..(n - 1))
      BY <1>4, <3>1
    <3>5. (0..(n - 1)) \cup iterator'.ahead = done \cup {b}
      BY <2>1, <3>1, <3>2, <3>4
    <3>6. iterator.complete = FALSE
      BY <1>1, <1>2 DEF EpochIterator
    <3> QED
      BY <1>2, <3>2, <3>3, <3>5, <3>6
  <2>2. CASE b # iterator.base
    <3>1. iterator' = [iterator EXCEPT !.ahead = @ \cup {b}]
      BY <2>2 DEF Epochs!DeliverBatch, Epochs!Mark
    <3>2. /\ iterator'.base = iterator.base
          /\ iterator'.complete = iterator.complete
          /\ iterator'.ahead = iterator.ahead \cup {b}
          /\ iterator' \in EpochIterator
      BY <1>2, <1>4, <3>1 DEF EpochIterator
    <3>3. b \in (iterator.base + 1)..(EpochBatches - 1)
      BY <1>0, <1>1, <1>4, <2>2
    <3>4. iterator.complete = FALSE /\ ~Strict
      BY <1>1, <1>2, <2>2 DEF EpochIterator
    <3> QED
      BY <1>2, <3>2, <3>3, <3>4
  <2> QED
    BY <2>1, <2>2
<1>6. done \cup {b} \in SUBSET EpochBatch
  BY <1>0, <1>4 DEF EpochBatch
<1> HIDE DEF done
<1>7. /\ Coordinate(Strict, resume)' <=> Coordinate(Strict, resume)
      /\ Coordinate(Strict, saved)' <=> Coordinate(Strict, saved)
  BY <1>1 DEF Coordinate, Pass
<1>8. /\ \E all \in SUBSET EpochBatch : Pass(Strict, passed, all)'
      /\ Pass(Strict, passed, (0..(iterator.base - 1)) \cup iterator.ahead)'
  BY <1>3, <1>5, <1>6 DEF Pass
<1> QED
  BY <1>1, <1>2, <1>5, <1>7, <1>8 DEF PassInv

(* state_dict: the coordinate kept goes with the pass that reached it.     *)
LEMMA CaptureKeepsPass ==
    ASSUME PassInv, Epochs!Capture, Strict' = Strict
    PROVE  PassInv'
<1>0. EpochBatches \in Nat
  BY StateAssumption DEF StateAssumption, Epochs!CheckpointAssumption
<1>1. UNCHANGED <<current, resume, iterator, passed>>
  BY DEF Epochs!Capture, Epochs!epochs
<1>2. Coordinate(Strict, saved') /\ saved'.epoch \in Int
  <2>1. CASE Epochs!CaptureActive
    <3> DEFINE bits == {b - iterator.base : b \in iterator.ahead}
    <3>1. /\ iterator # [kind |-> "none"]
          /\ saved' = [kind |-> "state", epoch |-> iterator.epoch,
                       cursor |-> iterator.base,
                       bitmap |-> IF delivery = "on-completion" THEN bits ELSE {},
                       got |-> passed, next |-> iterator.epoch]
      BY <2>1 DEF Epochs!CaptureActive, Epochs!Active, Epochs!NoIterator,
                  Epochs!OnCompletion, Strict, Epochs!BitmapOf
    <3>2. /\ iterator \in EpochIterator
          /\ iterator.ahead \subseteq (iterator.base + 1)..(EpochBatches - 1)
          /\ Strict => iterator.ahead = {}
          /\ Pass(Strict, passed, (0..(iterator.base - 1)) \cup iterator.ahead)
      BY <3>1 DEF PassInv
    <3>3. iterator.base \in 0..EpochBatches /\ iterator.epoch \in Int
      BY <3>2 DEF EpochIterator
    <3>4. bits \subseteq 1..(EpochBatches - 1 - iterator.base)
      BY <1>0, <3>2, <3>3
    <3>5. {iterator.base + b : b \in bits} = iterator.ahead
      <4>1. \A b \in iterator.ahead : iterator.base + (b - iterator.base) = b
        BY <3>2, <3>3
      <4> QED
        BY <4>1
    <3>6. Strict => bits = {}
      BY <3>2
    <3> HIDE DEF bits
    <3>7. saved'.bitmap = bits
      BY <3>1, <3>6 DEF Strict
    <3>8. saved'.cursor = iterator.base /\ saved'.got = passed
          /\ saved'.epoch = iterator.epoch
      BY <3>1
    <3> QED
      BY <3>2, <3>3, <3>4, <3>5, <3>6, <3>7, <3>8 DEF Coordinate
  <2>2. CASE Epochs!CaptureRestored
    <3>1. /\ saved'.cursor = resume.cursor /\ saved'.bitmap = resume.bitmap
          /\ saved'.got = resume.got /\ saved'.epoch = current
      BY <2>2 DEF Epochs!CaptureRestored
    <3> QED
      BY <3>1 DEF PassInv, Coordinate
  <2>3. CASE Epochs!CaptureStart
    <3>1. /\ saved'.cursor = 0 /\ saved'.bitmap = {}
          /\ saved'.got = resume.got /\ saved'.epoch = current
          /\ iterator = [kind |-> "none"] => resume.cursor = 0
          /\ Strict
      BY <2>3 DEF Epochs!CaptureStart, Epochs!NoIterator, Epochs!OnCompletion, Strict, PassInv
    <3>2. resume.cursor = 0 /\ resume.bitmap = {}
      <4>1. CASE iterator = [kind |-> "none"]
        BY <3>1, <4>1 DEF PassInv, Coordinate
      <4>2. CASE iterator # [kind |-> "none"]
        BY <4>2 DEF PassInv
      <4> QED
        BY <4>1, <4>2
    <3> QED
      BY <3>1, <3>2 DEF PassInv, Coordinate
  <2> QED
    BY <2>1, <2>2, <2>3 DEF Epochs!Capture
<1>3. Coordinate(Strict, saved)' /\ (Coordinate(Strict, resume)' <=> Coordinate(Strict, resume))
  BY <1>1, <1>2
<1> QED
  BY <1>1, <1>2, <1>3 DEF PassInv

(* The calls that leave the pass alone or drop it.                         *)
LEMMA OtherCallsKeepPass ==
    ASSUME PassInv, Strict' = Strict,
           \/ Epochs!Exhaust \/ Epochs!Abandon \/ Epochs!Load \/ Epochs!Crash
           \/ \E e \in Epochs!Epoch : Epochs!SetEpoch(e)
    PROVE  PassInv'
<1>0. EpochBatches \in Nat /\ MaxEpoch \in Nat
  BY StateAssumption DEF StateAssumption, Epochs!CheckpointAssumption
<1> DEFINE start == [cursor |-> 0, bitmap |-> {}, got |-> << >>]
<1>1. CASE Epochs!Exhaust
  <2>1. /\ iterator # [kind |-> "none"]
        /\ (0..(iterator.base - 1)) \cup iterator.ahead = EpochBatch
        /\ iterator' = [iterator EXCEPT !.complete = TRUE]
        /\ UNCHANGED <<resume, saved, passed>>
    BY <1>1 DEF Epochs!Exhaust, Epochs!Active, Epochs!NoIterator,
                Epochs!Delivered, Epochs!Batch, EpochBatch
  <2>2. iterator \in EpochIterator
    BY <2>1 DEF PassInv
  <2>3. /\ iterator' \in EpochIterator /\ iterator' # [kind |-> "none"]
        /\ iterator'.base = iterator.base /\ iterator'.ahead = iterator.ahead
    BY <2>1, <2>2 DEF EpochIterator
  <2>4. current' \in Int
    BY <1>1 DEF Epochs!Exhaust, Epochs!Complete, Epochs!epochs, PassInv
  <2>5. /\ Coordinate(Strict, resume)' <=> Coordinate(Strict, resume)
        /\ Coordinate(Strict, saved)' <=> Coordinate(Strict, saved)
    BY <2>1
  <2> QED
    BY <2>1, <2>2, <2>3, <2>4, <2>5 DEF PassInv
<1>2. CASE Epochs!Abandon
  <2>1. /\ iterator' = [kind |-> "none"]
        /\ UNCHANGED <<current, resume, saved, passed>>
    BY <1>2 DEF Epochs!Abandon, Epochs!NoIterator, Epochs!epochs
  <2> QED
    BY <2>1 DEF PassInv
<1>3. CASE Epochs!Load
  <2>1. /\ saved # [kind |-> "none"] /\ iterator' = [kind |-> "none"]
        /\ current' = saved.epoch
        /\ resume' = [cursor |-> saved.cursor, bitmap |-> saved.bitmap,
                      got |-> saved.got]
        /\ UNCHANGED <<saved, passed>>
    BY <1>3 DEF Epochs!Load, Epochs!NoIterator, Epochs!NoState
  <2>2. resume'.cursor = saved.cursor /\ resume'.bitmap = saved.bitmap
        /\ resume'.got = saved.got
    BY <2>1
  <2>3. Coordinate(Strict, saved) /\ saved.epoch \in Int
    BY <2>1 DEF PassInv
  <2>4. Coordinate(Strict, resume)' /\ Coordinate(Strict, saved)'
    <3>1. Coordinate(Strict, resume')
      BY <2>2, <2>3 DEF Coordinate
    <3> QED
      BY <2>1, <2>3, <3>1
  <2> QED
    BY <2>1, <2>3, <2>4 DEF PassInv
<1>4. CASE Epochs!Crash
  <2>1. /\ current' = 0 /\ iterator' = [kind |-> "none"] /\ resume' = start
        /\ passed' = << >> /\ saved' = saved
    BY <1>4 DEF Epochs!Crash, Epochs!NoIterator, Epochs!NoResume
  <2>2. Coordinate(Strict, start) /\ Pass(Strict, << >>, {})
    BY <1>0, PassStarts DEF Strict
  <2> HIDE DEF start
  <2>3. /\ Coordinate(Strict, resume)' /\ (Coordinate(Strict, saved)' <=> Coordinate(Strict, saved))
        /\ Pass(Strict, passed, {})'
    BY <2>1, <2>2
  <2> QED
    BY <2>1, <2>3 DEF PassInv
<1>5. ASSUME NEW e \in Epochs!Epoch, Epochs!SetEpoch(e) PROVE PassInv'
  <2>1. /\ current' = e /\ resume' = start /\ e \in Int
        /\ UNCHANGED <<iterator, saved, passed>>
    BY <1>0, <1>5 DEF Epochs!SetEpoch, Epochs!Epoch, Epochs!NoResume
  <2>2. Coordinate(Strict, start)
    BY <1>0, PassStarts DEF Strict
  <2>3. /\ Coordinate(Strict, resume)' /\ (Coordinate(Strict, saved)' <=> Coordinate(Strict, saved))
    BY <2>1, <2>2
  <2> QED
    BY <2>1, <2>3 DEF PassInv
<1> QED
  BY <1>1, <1>2, <1>3, <1>4, <1>5

LEMMA PassInvStep == PassInv /\ [StateNext]_stateVars => PassInv'
<1> SUFFICES ASSUME PassInv, [StateNext]_stateVars PROVE PassInv'
  OBVIOUS
<1>1. CASE UNCHANGED epochVars
  BY <1>1 DEF epochVars, PassInv, Strict
<1>2. CASE Epochs!Next
  <2>1. Strict' = Strict
    BY <1>2 DEF Epochs!Next, Strict
  <2>2. ASSUME NEW b \in Epochs!Batch, Epochs!DeliverBatch(b) PROVE PassInv'
    BY <2>1, <2>2, DeliverKeepsPass DEF Epochs!Batch, EpochBatch
  <2> QED
    BY <1>2, <2>1, <2>2, IterKeepsPass, CaptureKeepsPass, OtherCallsKeepPass
    DEF Epochs!Next, Epochs!Call
<1> QED
  BY <1>1, <1>2, PartsApart

LEMMA PassInvExact == PassInv => ExactlyOnce
<1> SUFFICES ASSUME PassInv PROVE ExactlyOnce
  OBVIOUS
<1>1. PICK done \in SUBSET EpochBatch : Pass(Strict, passed, done)
  BY DEF PassInv
<1>2. Epochs!IsInjective(passed)
  BY <1>1 DEF Pass, Epochs!IsInjective
<1>3. ~Epochs!OnCompletion => \A i \in DOMAIN passed : passed[i] = i - 1
  BY <1>1 DEF Pass, Epochs!OnCompletion, Strict
<1>4. ASSUME iterator # Epochs!NoIterator, iterator.complete
      PROVE  Epochs!Range(passed) = Epochs!Batch
  <2>1. Pass(Strict, passed, EpochBatch)
    BY <1>4 DEF PassInv, Epochs!NoIterator
  <2> QED
    BY <2>1 DEF Pass, Epochs!Range, Epochs!Batch, EpochBatch
<1> QED
  BY <1>2, <1>3, <1>4 DEF ExactlyOnce, Epochs!ExactlyOnce

(* Exact continuation: over captures, restores, crashes, closes and        *)
(* abandoned iterators no pass delivers a batch twice, an in-order one     *)
(* delivers a prefix and one that ends everything, for epochs of any       *)
(* length.  On-completion loaders are captured while they iterate (api.py, *)
(* state_dict and load_state_dict; epoch.py; delivery.py, mark).           *)
THEOREM PassesExact ==
    ASSUME "on-completion" \in Deliveries => ~CaptureIdle
    PROVE  StateSpec => []ExactlyOnce
<1>1. StateInit => PassInv
  BY PassInvInit
<1> QED
  BY <1>1, PassInvStep, PassInvExact, PTL DEF StateSpec

(* What an iterator is, whatever it has delivered.                         *)
OpenIterator ==
    [kind : {"map"}, epoch : Int, base : Int, ahead : SUBSET Int,
     complete : BOOLEAN]

(* Unless an override is pending, the epochs delivered end at the current  *)
(* one when it has delivered, and before it when it has not; an open       *)
(* iterator is in the current epoch.                                       *)
UsedInv ==
    /\ current \in Int /\ used \subseteq Int /\ active_delivered \in BOOLEAN
    /\ resume.cursor \in Int /\ resume.bitmap \subseteq Int
    /\ saved # [kind |-> "none"] =>
         saved.epoch \in Int /\ saved.cursor \in Int /\ saved.bitmap \subseteq Int
    /\ iterator # [kind |-> "none"] => iterator \in OpenIterator
    /\ override = "none" =>
         /\ iterator # [kind |-> "none"] /\ ~iterator.complete =>
               iterator.epoch = current /\ active_epoch = current
         /\ active_delivered => current \in used /\ \A e \in used : e <= current
         /\ ~active_delivered =>
               \/ used = {}
               \/ current - 1 \in used /\ \A e \in used : e < current

LEMMA UsedInvStep ==
    ASSUME UsedInv, [StateNext]_stateVars
    PROVE  UsedInv'
<1>0. current \in Int
  BY DEF UsedInv
<1>1. ASSUME Epochs!Iter PROVE UsedInv'
  <2>1. /\ current' = IF override = "none" /\ active_delivered
                      THEN current + 1 ELSE current
        /\ override' = "none" /\ active_epoch' = current'
        /\ active_delivered' = FALSE
        /\ iterator' = [kind |-> "map", epoch |-> current', base |-> resume.cursor,
                        ahead |-> Epochs!Decoded(resume.cursor, resume.bitmap),
                        complete |-> FALSE]
        /\ used' = IF override = "none" THEN used ELSE {}
    BY <1>1 DEF Epochs!Iter, Epochs!BeginIteration, Epochs!Abandoned
  <2>2. iterator'.epoch = current' /\ iterator' \in OpenIterator /\ current' \in Int
    <3>1. Epochs!Decoded(resume.cursor, resume.bitmap) \in SUBSET Int
      BY DEF UsedInv, Epochs!Decoded
    <3>2. resume.cursor \in Int /\ current' \in Int
      BY <1>0, <2>1 DEF UsedInv
    <3> QED
      BY <2>1, <3>1, <3>2 DEF OpenIterator
  <2>3. saved' = saved /\ resume'.cursor = 0 /\ resume'.bitmap = {}
    BY <1>1 DEF Epochs!Iter, Epochs!NoResume
  <2>4. used' \subseteq Int
    BY <2>1 DEF UsedInv
  <2>5. used' = {} \/ (current' - 1 \in used' /\ \A e \in used' : e < current')
    <3>1. CASE override # "none"
      BY <2>1, <3>1
    <3>2. CASE override = "none" /\ active_delivered
      <4>1. current \in used /\ \A e \in used : e <= current
        BY <3>2 DEF UsedInv
      <4>2. current' = current + 1 /\ used' = used
        BY <2>1, <3>2
      <4>3. \A e \in used : e < current'
        BY <1>0, <2>4, <4>1, <4>2
      <4> QED
        BY <1>0, <4>1, <4>2, <4>3
    <3>3. CASE override = "none" /\ ~active_delivered
      BY <1>0, <2>1, <3>3 DEF UsedInv
    <3> QED
      BY <3>1, <3>2, <3>3 DEF UsedInv
  <2>6. saved' # [kind |-> "none"] =>
          saved'.epoch \in Int /\ saved'.cursor \in Int /\ saved'.bitmap \subseteq Int
    BY <2>3 DEF UsedInv
  <2>7. active_delivered' = FALSE /\ iterator'.epoch = current'
        /\ active_epoch' = current' /\ override' = "none"
    BY <2>1, <2>2
  <2> QED
    <3>1. /\ current' \in Int /\ used' \subseteq Int
          /\ resume'.cursor \in Int /\ resume'.bitmap \subseteq Int
      BY <2>2, <2>3, <2>4
    <3>2. active_delivered' \in BOOLEAN
      BY <2>7
    <3> QED
      BY <2>2, <2>5, <2>6, <2>7, <3>1, <3>2 DEF UsedInv
<1>3. ASSUME NEW b \in EpochBatch, Epochs!DeliverBatch(b) PROVE UsedInv'
  <2>1. /\ iterator # [kind |-> "none"] /\ ~iterator.complete
        /\ active_delivered' = (active_delivered \/ active_epoch = iterator.epoch)
        /\ used' = used \cup {iterator.epoch}
        /\ UNCHANGED <<current, active_epoch, override, saved, resume>>
    BY <1>3 DEF Epochs!DeliverBatch, Epochs!Active, Epochs!NoIterator
  <2>2. iterator \in OpenIterator
    BY <2>1 DEF UsedInv
  <2>3. PICK base \in Int, ahead \in SUBSET Int :
            iterator' = [iterator EXCEPT !.base = base, !.ahead = ahead]
    <3>0. iterator.base \in Int /\ iterator.ahead \in SUBSET Int /\ b \in Int
          /\ EpochBatches \in Int
      BY <2>2, StateAssumption
      DEF OpenIterator, EpochBatch, StateAssumption, Epochs!CheckpointAssumption
    <3>1. CASE b = iterator.base
      <4>1. PICK n \in (b + 1)..EpochBatches :
                iterator' = [iterator EXCEPT !.base = n,
                                 !.ahead = @ \ ((b + 1)..(n - 1))]
        BY <1>3, <3>1 DEF Epochs!DeliverBatch, Epochs!Mark
      <4>2. n \in Int /\ iterator.ahead \ ((b + 1)..(n - 1)) \in SUBSET Int
        BY <3>0, <4>1
      <4> QED
        BY <4>1, <4>2
    <3>2. CASE b # iterator.base
      <4>1. iterator' = [iterator EXCEPT !.ahead = @ \cup {b}]
        BY <1>3, <3>2 DEF Epochs!DeliverBatch, Epochs!Mark
      <4>2. iterator' = [iterator EXCEPT !.base = iterator.base,
                                         !.ahead = iterator.ahead \cup {b}]
        BY <2>2, <4>1 DEF OpenIterator
      <4>3. iterator.ahead \cup {b} \in SUBSET Int
        BY <3>0
      <4> QED
        BY <3>0, <4>2, <4>3
    <3> QED
      BY <3>1, <3>2
  <2>4. /\ iterator'.epoch = iterator.epoch /\ iterator'.complete = iterator.complete
        /\ iterator' \in OpenIterator
    BY <2>2, <2>3 DEF OpenIterator
  <2>5. iterator.epoch \in Int
    BY <2>2 DEF OpenIterator
  <2>6. active_delivered' \in BOOLEAN /\ used' \subseteq Int
    BY <2>1, <2>5 DEF UsedInv
  <2>7. CASE override = "none"
    <3>1. iterator.epoch = current /\ active_epoch = current
      BY <2>1, <2>7 DEF UsedInv
    <3>2. active_delivered' = TRUE
      BY <2>1, <3>1
    <3>3. \A e \in used : e <= current
      BY <1>0, <2>7 DEF UsedInv
    <3>4. current \in used' /\ \A e \in used' : e <= current
      BY <1>0, <2>1, <3>1, <3>3
    <3> QED
      BY <1>0, <2>1, <2>4, <2>6, <3>1, <3>2, <3>4 DEF UsedInv
  <2> QED
    BY <1>0, <2>1, <2>4, <2>6, <2>7 DEF UsedInv
<1>4. ASSUME Epochs!Exhaust PROVE UsedInv'
  <2>1. /\ iterator # [kind |-> "none"] /\ ~iterator.complete
        /\ Epochs!Complete
        /\ iterator' = [iterator EXCEPT !.complete = TRUE]
        /\ used' = used \cup {iterator.epoch}
    BY <1>4 DEF Epochs!Exhaust, Epochs!Active, Epochs!NoIterator
  <2>2. iterator \in OpenIterator
    BY <2>1 DEF UsedInv
  <2>3. /\ iterator'.complete = TRUE /\ iterator.epoch \in Int
        /\ iterator' \in OpenIterator
    BY <2>1, <2>2 DEF OpenIterator
  <2>4. UNCHANGED <<override, saved, resume>> /\ current' \in Int
    BY <1>0, <1>4, <2>1 DEF Epochs!Exhaust, Epochs!Complete, Epochs!epochs
  <2>5. active_delivered' \in BOOLEAN /\ used' \subseteq Int
    BY <2>1, <2>3 DEF Epochs!Complete, Epochs!epochs, UsedInv
  <2>6. CASE override = "none"
    <3>1. iterator.epoch = current /\ active_epoch = current
      BY <2>1, <2>6 DEF UsedInv
    <3>2. current' = current + 1 /\ active_delivered' = FALSE
      BY <2>1, <2>6, <3>1 DEF Epochs!Complete
    <3>3. \A e \in used : e <= current
      BY <1>0, <2>6 DEF UsedInv
    <3> QED
      BY <1>0, <2>1, <2>3, <2>4, <2>5, <3>1, <3>2, <3>3 DEF UsedInv
  <2> QED
    BY <2>3, <2>4, <2>5, <2>6 DEF UsedInv
<1>5. ASSUME Epochs!Abandon PROVE UsedInv'
  BY <1>5 DEF Epochs!Abandon, Epochs!epochs, Epochs!NoIterator, UsedInv
<1>6. ASSUME Epochs!Capture PROVE UsedInv'
  <2>1. /\ UNCHANGED <<current, active_epoch, active_delivered, override, resume,
                       iterator, used>>
    BY <1>6 DEF Epochs!Capture, Epochs!epochs
  <2>2. saved'.epoch \in Int /\ saved'.cursor \in Int /\ saved'.bitmap \subseteq Int
    <3>1. CASE Epochs!CaptureActive
      <4>1. iterator \in OpenIterator
        BY <3>1 DEF Epochs!CaptureActive, Epochs!Active, Epochs!NoIterator, UsedInv
      <4>2. /\ iterator.epoch \in Int /\ iterator.base \in Int
            /\ Epochs!BitmapOf(iterator.base, iterator.ahead) \subseteq Int
        BY <4>1 DEF OpenIterator, Epochs!BitmapOf
      <4>3. /\ saved'.epoch = iterator.epoch /\ saved'.cursor = iterator.base
            /\ saved'.bitmap = IF Epochs!OnCompletion
                               THEN Epochs!BitmapOf(iterator.base, iterator.ahead)
                               ELSE {}
        BY <3>1 DEF Epochs!CaptureActive
      <4> QED
        BY <4>2, <4>3
    <3>2. CASE Epochs!CaptureRestored
      BY <3>2 DEF Epochs!CaptureRestored, UsedInv
    <3>3. CASE Epochs!CaptureStart
      BY <3>3 DEF Epochs!CaptureStart, UsedInv
    <3> QED
      BY <1>6, <3>1, <3>2, <3>3 DEF Epochs!Capture
  <2> QED
    BY <2>1, <2>2 DEF UsedInv
<1>10. ASSUME Epochs!Load PROVE UsedInv'
  <2>1. /\ iterator' = [kind |-> "none"] /\ override' = "resume"
        /\ resume'.cursor = saved.cursor /\ resume'.bitmap = saved.bitmap
        /\ current' = saved.epoch /\ saved # [kind |-> "none"]
        /\ UNCHANGED <<active_epoch, active_delivered, saved, used>>
    BY <1>10 DEF Epochs!Load, Epochs!NoIterator, Epochs!NoState
  <2> QED
    BY <2>1 DEF UsedInv
<1>11. ASSUME Epochs!Crash PROVE UsedInv'
  <2>1. /\ iterator' = [kind |-> "none"] /\ used' = {} /\ current' = 0
        /\ active_delivered' = FALSE /\ saved' = saved
        /\ resume'.cursor = 0 /\ resume'.bitmap = {}
    BY <1>11 DEF Epochs!Crash, Epochs!NoIterator, Epochs!NoResume
  <2>2. saved' # [kind |-> "none"] =>
          saved'.epoch \in Int /\ saved'.cursor \in Int /\ saved'.bitmap \subseteq Int
    BY <2>1 DEF UsedInv
  <2>3. /\ current' \in Int /\ used' \subseteq Int
        /\ resume'.cursor \in Int /\ resume'.bitmap \subseteq Int
    BY <2>1
  <2>6. active_delivered' \in BOOLEAN
    BY <2>1
  <2>4. (iterator # [kind |-> "none"])' => FALSE
    BY <2>1
  <2>5. active_delivered' = FALSE /\ used' = {}
    BY <2>1
  <2> QED
    BY <2>2, <2>3, <2>4, <2>5, <2>6 DEF UsedInv
<1>7. ASSUME NEW e \in Epochs!Epoch, Epochs!SetEpoch(e) PROVE UsedInv'
  <2>1. /\ current' = e /\ e \in Int /\ override' = "explicit"
        /\ resume'.cursor = 0 /\ resume'.bitmap = {}
        /\ UNCHANGED <<active_epoch, active_delivered, iterator, saved, used>>
    BY <1>7, StateAssumption
    DEF Epochs!SetEpoch, Epochs!NoResume, Epochs!Epoch, StateAssumption,
        Epochs!CheckpointAssumption
  <2> QED
    BY <2>1 DEF UsedInv
<1>8. ASSUME UNCHANGED epochVars PROVE UsedInv'
  <2>1. UNCHANGED Epochs!vars
    BY <1>8 DEF epochVars, Epochs!vars, Epochs!epochs
  <2> QED
    BY <1>8, <2>1 DEF epochVars, UsedInv
<1>9. ASSUME Epochs!Next PROVE UsedInv'
  BY <1>1, <1>3, <1>4, <1>5, <1>6, <1>7, <1>9, <1>10, <1>11
  DEF Epochs!Next, Epochs!Call, Epochs!Batch, EpochBatch
<1> QED
  BY <1>8, <1>9, PartsApart

(* A new iterator, with no override pending, follows the last epoch used. *)
LEMMA IterFollows ==
    ASSUME UsedInv, Epochs!Iter, override = "none"
    PROVE  IF used = {} THEN current' = current
           ELSE current' - 1 \in used /\ \A e \in used : e < current'
<1>1. current \in Int /\ used \subseteq Int
  BY DEF UsedInv
<1>2. current' = IF active_delivered THEN current + 1 ELSE current
  BY DEF Epochs!Iter, Epochs!BeginIteration, Epochs!Abandoned
<1>3. CASE active_delivered
  <2>1. current \in used /\ \A e \in used : e <= current
    BY <1>3 DEF UsedInv
  <2>2. current' = current + 1
    BY <1>2, <1>3
  <2>3. \A e \in used : e < current'
    BY <1>1, <2>1, <2>2
  <2> QED
    BY <1>1, <2>1, <2>2, <2>3
<1>4. CASE ~active_delivered
  BY <1>1, <1>2, <1>4 DEF UsedInv
<1> QED
  BY <1>3, <1>4

(* Without set_epoch or a restored state a new iterator starts the epoch   *)
(* after the last one that delivered or ended, whatever was abandoned,     *)
(* captured, restored or crashed before (begin_iteration, complete).       *)
THEOREM EpochsFresh == StateSpec => FreshEpochs
<1>1. StateInit => UsedInv
  <2>1. ASSUME StateInit
        PROVE  /\ current = 0 /\ used = {} /\ active_delivered = FALSE
               /\ resume.cursor = 0 /\ resume.bitmap = {}
               /\ saved = [kind |-> "none"] /\ iterator = [kind |-> "none"]
    BY <2>1 DEF StateInit, Epochs!Fresh, Epochs!NoIterator, Epochs!NoState,
                Epochs!NoResume
  <2> QED
    BY <2>1 DEF UsedInv
<1>2. UsedInv /\ [StateNext]_stateVars => UsedInv'
  BY UsedInvStep
<1>3. UsedInv => [(Epochs!Iter /\ override = "none")
                     => IF used = {} THEN current' = current
                        ELSE current' - 1 \in used /\ \A e \in used : e < current'
                 ]_(Epochs!vars)
  BY IterFollows
<1> QED
  BY <1>1, <1>2, <1>3, PTL DEF StateSpec, FreshEpochs, Epochs!FreshEpochs
-----------------------------------------------------------------------------
(* The record of shared regions.                                           *)

WholeLine == [whole : {TRUE}, name : Regions]
AnyLine == WholeLine \cup {[whole |-> FALSE]}

Task ==
    [kind : {"idle"}] \cup [kind : {"register", "forget"}, name : Regions]
        \cup [kind : {"sweep"}, left : Seq(WholeLine), keep : Seq(WholeLine)]

Named(lines) == {lines[i].name : i \in DOMAIN lines}

Distinct(lines) ==
    \A i, j \in DOMAIN lines : lines[i].name = lines[j].name => i = j

(* Who holds a region is its owner, is alive and is doing nothing else     *)
(* with it; a region about to be registered exists; a process that did not *)
(* start does nothing.                                                     *)
HoldInv ==
    /\ file \in Seq(AnyLine) /\ regions \subseteq Regions
    /\ status \in [Processes -> {"new", "alive", "dead"}]
    /\ op \in [Processes -> Task] /\ held \in [Processes -> SUBSET Regions]
    /\ \A p \in Processes : \A n \in held[p] :
          OwnerOf(n) = p /\ status[p] = "alive" /\ n \in regions
    /\ \A p \in Processes : op[p].kind \in {"register", "forget"} =>
          OwnerOf(op[p].name) = p /\ op[p].name \notin held[p]
    /\ \A p \in Processes :
          status[p] = "alive" /\ op[p].kind = "register" => op[p].name \in regions
    /\ \A p \in Processes : status[p] = "new" => op[p].kind = "idle"

(* A region that a sweep unlinked, and nobody can create again.            *)
Gone(r, st, n) == n \notin r /\ st[OwnerOf(n)] = "dead"

(* What a sweep has left and what it keeps are the registry, but for the   *)
(* regions it unlinked.                                                    *)
SweepInv(names, r, st, left, keep) ==
    /\ Distinct(left) /\ Distinct(keep) /\ Named(left) \cap Named(keep) = {}
    /\ Named(left) \cup Named(keep) \subseteq names
    /\ \A n \in names : n \in Named(left) \cup Named(keep) \/ Gone(r, st, n)

(* While no write stops halfway: every region has its record or is about   *)
(* to get it, and unless a write failed a name has one record, which its   *)
(* owner will remove.                                                      *)
RecordInv ==
    /\ torn = FALSE /\ file \in Seq(WholeLine)
    /\ lock \in Processes \cup {"none"} /\ failed \in BOOLEAN
    /\ \A n \in regions \cup Named(file) : status[OwnerOf(n)] # "new"
    /\ \A n \in regions : n \in Named(file) \/ Registry!Registering(n)
    /\ \A p \in Processes : op[p].kind = "forget" => op[p].name \notin regions
    /\ \A p \in Processes : status[p] = "alive" /\ op[p].kind = "sweep" =>
          lock = p /\ SweepInv(Named(file), regions, status, op[p].left, op[p].keep)
    /\ ~failed => Distinct(file)
    /\ ~failed => \A n \in Named(file) :
          \/ n \in regions \/ status[OwnerOf(n)] = "dead"
          \/ op[OwnerOf(n)].kind = "forget" /\ op[OwnerOf(n)].name = n
    /\ ~failed => \A p \in Processes :
          status[p] = "alive" /\ op[p].kind = "register" =>
              op[p].name \notin Named(file)

(* A line more at the end of the registry.                                 *)
LEMMA NamedAppend ==
    ASSUME NEW lines \in Seq(WholeLine), NEW n \in Regions
    PROVE  LET longer == Append(lines, [whole |-> TRUE, name |-> n])
           IN  /\ longer \in Seq(WholeLine)
               /\ Named(longer) = Named(lines) \cup {n}
               /\ Distinct(lines) /\ n \notin Named(lines) => Distinct(longer)
<1> DEFINE line == [whole |-> TRUE, name |-> n]
           longer == Append(lines, line)
<1>1. line \in WholeLine /\ line.name = n
  BY DEF WholeLine
<1>2. /\ longer \in Seq(WholeLine) /\ Len(longer) = Len(lines) + 1
      /\ \A i \in DOMAIN lines : longer[i] = lines[i]
      /\ longer[Len(longer)] = line
      /\ DOMAIN longer = DOMAIN lines \cup {Len(longer)}
  BY <1>1
<1>3. Named(longer) = Named(lines) \cup {n}
  BY <1>1, <1>2 DEF Named
<1>4. ASSUME Distinct(lines), n \notin Named(lines) PROVE Distinct(longer)
  BY <1>1, <1>2, <1>4 DEF Distinct, Named
<1> QED
  BY <1>2, <1>3, <1>4

(* The first line of what a sweep has left.                                *)
LEMMA NamedHead ==
    ASSUME NEW lines \in Seq(WholeLine), lines # << >>
    PROVE  /\ Head(lines) \in WholeLine /\ Tail(lines) \in Seq(WholeLine)
           /\ Named(lines) = Named(Tail(lines)) \cup {Head(lines).name}
           /\ Distinct(lines) => /\ Distinct(Tail(lines))
                                 /\ Head(lines).name \notin Named(Tail(lines))
<1>1. /\ Head(lines) = lines[1] /\ 1 \in DOMAIN lines
      /\ Tail(lines) \in Seq(WholeLine) /\ Len(Tail(lines)) = Len(lines) - 1
      /\ Len(lines) \in Nat /\ DOMAIN lines = 1..Len(lines)
      /\ DOMAIN Tail(lines) = 1..(Len(lines) - 1)
      /\ \A i \in 1..(Len(lines) - 1) : Tail(lines)[i] = lines[i + 1]
      /\ \A i \in DOMAIN lines : lines[i] \in WholeLine
  OBVIOUS
<1>2. \A i \in DOMAIN lines : i = 1 \/ i - 1 \in DOMAIN Tail(lines)
  BY <1>1
<1>3. \A i \in DOMAIN lines \ {1} : lines[i] = Tail(lines)[i - 1]
  BY <1>1
<1>4. \A i \in DOMAIN Tail(lines) : i + 1 \in DOMAIN lines /\ i + 1 # 1
  BY <1>1
<1>5. Named(lines) = Named(Tail(lines)) \cup {Head(lines).name}
  <2>1. Named(lines) \subseteq Named(Tail(lines)) \cup {Head(lines).name}
    BY <1>1, <1>2, <1>3 DEF Named
  <2>2. Named(Tail(lines)) \cup {Head(lines).name} \subseteq Named(lines)
    BY <1>1, <1>4 DEF Named
  <2> QED
    BY <2>1, <2>2
<1>6. ASSUME Distinct(lines)
      PROVE  Distinct(Tail(lines)) /\ Head(lines).name \notin Named(Tail(lines))
  <2>1. \A i, j \in DOMAIN lines : lines[i].name = lines[j].name => i = j
    BY <1>6 DEF Distinct
  <2>2. Distinct(Tail(lines))
    BY <1>1, <1>4, <2>1 DEF Distinct
  <2>3. Head(lines).name \notin Named(Tail(lines))
    BY <1>1, <1>4, <2>1 DEF Named
  <2> QED
    BY <2>2, <2>3
<1> QED
  BY <1>1, <1>5, <1>6

(* A registry reads as sound when its names differ (parse_snapshot).       *)
LEMMA SoundDistinct ==
    ASSUME file \in Seq(WholeLine), torn = FALSE
    PROVE  Registry!Sound(file) <=> Distinct(file)
<1>1. \A i \in DOMAIN file : file[i] \in WholeLine /\ file[i].whole = TRUE
  <2>1. \A i \in DOMAIN file : file[i] \in WholeLine
    OBVIOUS
  <2>2. \A line \in WholeLine : line.whole = TRUE
    BY DEF WholeLine
  <2> QED
    BY <2>1, <2>2
<1>2. DOMAIN file = 1..Len(file) /\ Len(file) \in Nat
  OBVIOUS
<1>3. Registry!Entries(file) =
          {i \in DOMAIN file : \A j \in 1..(i - 1) : file[j].name # file[i].name}
  BY <1>1, <1>2 DEF Registry!Entries
<1>4. ASSUME Distinct(file) PROVE Registry!Entries(file) = DOMAIN file
  <2>1. ASSUME NEW i \in DOMAIN file, NEW j \in 1..(i - 1)
        PROVE  file[j].name # file[i].name
    <3>1. j \in DOMAIN file /\ j # i
      BY <1>2
    <3> QED
      BY <1>4, <3>1 DEF Distinct
  <2> QED
    BY <1>3, <2>1
<1>5. ASSUME Registry!Entries(file) = DOMAIN file PROVE Distinct(file)
  <2>1. \A i \in DOMAIN file : \A j \in 1..(i - 1) : file[j].name # file[i].name
    BY <1>3, <1>5
  <2>2. SUFFICES ASSUME NEW i \in DOMAIN file, NEW j \in DOMAIN file,
                        file[i].name = file[j].name, i # j
                 PROVE  FALSE
    BY DEF Distinct
  <2>3. i \in 1..(j - 1) \/ j \in 1..(i - 1)
    BY <1>2, <2>2
  <2> QED
    BY <2>1, <2>2, <2>3
<1> QED
  BY <1>4, <1>5 DEF Registry!Sound

(* Some line of a name is the first one.                                   *)
LEMMA NamedRegistered ==
    ASSUME file \in Seq(WholeLine), NEW n \in Named(file)
    PROVE  Registry!Registered(n)
<1> DEFINE T == {i \in DOMAIN file : file[i].name = n}
<1>1. \A i \in DOMAIN file : file[i] \in WholeLine /\ file[i].whole = TRUE
  <2>1. \A i \in DOMAIN file : file[i] \in WholeLine
    OBVIOUS
  <2>2. \A line \in WholeLine : line.whole = TRUE
    BY DEF WholeLine
  <2> QED
    BY <2>1, <2>2
<1>2. DOMAIN file = 1..Len(file) /\ Len(file) \in Nat
  OBVIOUS
<1>3. T \subseteq Nat /\ T # {}
  BY <1>2 DEF Named
<1>4. PICK i \in T : \A j \in T : <<j, i>> \notin OpToRel(<, Nat)
  BY <1>3, NatLessThanWellFounded, WFMin
<1>5. \A j \in T : ~(j < i)
  BY <1>3, <1>4 DEF OpToRel
<1>6. \A j \in 1..(i - 1) : file[j].name # file[i].name
  BY <1>2, <1>5
<1>7. i \in Registry!Entries(file)
  BY <1>1, <1>2, <1>6 DEF Registry!Entries
<1> QED
  BY <1>4, <1>7 DEF Registry!Registered

(* What a successful removal leaves of the registry.                       *)
LEMMA NamedRetained ==
    ASSUME file \in Seq(WholeLine), Distinct(file), NEW n, Registry!Retained(n)
    PROVE  /\ file' \in Seq(WholeLine) /\ Distinct(file')
           /\ Named(file') = Named(file) \ {n}
<1>0. DOMAIN file = 1..Len(file) /\ Len(file) \in Nat
      /\ \A i \in DOMAIN file : file[i] \in WholeLine
  OBVIOUS
<1>1. CASE \A i \in DOMAIN file : file[i].name # n
  BY <1>1 DEF Registry!Retained, Named
<1>2. CASE \E i \in DOMAIN file : file[i].name = n
  <2>1. PICK i \in DOMAIN file :
            /\ file[i].name = n
            /\ file' = [j \in 1..(Len(file) - 1) |->
                           IF j < i THEN file[j] ELSE file[j + 1]]
    BY <1>2 DEF Registry!Retained
  <2>2. /\ Len(file) - 1 \in Nat /\ i \in 1..Len(file)
        /\ \A j \in 1..(Len(file) - 1) :
              (j < i => j \in DOMAIN file) /\ (~(j < i) => j + 1 \in DOMAIN file)
    BY <1>0
  <2>3. file' \in Seq(WholeLine) /\ Len(file') = Len(file) - 1
        /\ DOMAIN file' = 1..(Len(file) - 1)
    BY <1>0, <2>1, <2>2
  <2>4. \A j \in DOMAIN file' : file'[j] = IF j < i THEN file[j] ELSE file[j + 1]
    BY <2>1, <2>3
  <2>5. \A k, l \in DOMAIN file : file[k].name = file[l].name => k = l
    BY DEF Distinct
  <2>6. Distinct(file')
    <3>1. SUFFICES ASSUME NEW k \in DOMAIN file', NEW l \in DOMAIN file',
                          file'[k].name = file'[l].name
                   PROVE  k = l
      BY DEF Distinct
    <3>2. PICK kk \in DOMAIN file : kk = IF k < i THEN k ELSE k + 1
      BY <2>2, <2>3
    <3>3. PICK ll \in DOMAIN file : ll = IF l < i THEN l ELSE l + 1
      BY <2>2, <2>3
    <3>4. file'[k] = file[kk] /\ file'[l] = file[ll]
      BY <2>4, <3>2, <3>3
    <3>5. kk = ll
      BY <2>5, <3>1, <3>4
    <3>6. k \in Int /\ l \in Int /\ i \in Int
      BY <2>2, <2>3
    <3> QED
      BY <3>2, <3>3, <3>5, <3>6
  <2>7. Named(file') \subseteq Named(file) \ {n}
    <3>1. SUFFICES ASSUME NEW k \in DOMAIN file'
                   PROVE  file'[k].name \in Named(file) \ {n}
      BY DEF Named
    <3>2. PICK kk \in DOMAIN file : kk = IF k < i THEN k ELSE k + 1
      BY <2>2, <2>3
    <3>3. file'[k] = file[kk]
      BY <2>4, <3>2
    <3>4. kk # i
      <4>1. k \in Int /\ i \in Int
        BY <2>2, <2>3
      <4> QED
        BY <3>2, <4>1
    <3> QED
      BY <2>1, <2>5, <3>3, <3>4 DEF Named
  <2>8. Named(file) \ {n} \subseteq Named(file')
    <3>1. SUFFICES ASSUME NEW k \in DOMAIN file, file[k].name # n
                   PROVE  file[k].name \in Named(file')
      BY DEF Named
    <3>2. k \in 1..Len(file) /\ k # i /\ i \in 1..Len(file)
      BY <1>0, <2>1, <3>1
    <3>3. PICK kk \in DOMAIN file' : k = IF kk < i THEN kk ELSE kk + 1
      <4>1. CASE k < i
        BY <2>3, <3>2, <4>1
      <4>2. CASE ~(k < i)
        <5>1. k - 1 \in DOMAIN file' /\ ~(k - 1 < i) /\ k = (k - 1) + 1
          BY <1>0, <2>3, <3>2, <4>2
        <5> QED
          BY <5>1
      <4> QED
        BY <4>1, <4>2
    <3>4. file'[kk] = file[k]
      BY <2>4, <3>3
    <3> QED
      BY <3>4 DEF Named
  <2> QED
    BY <2>3, <2>6, <2>7, <2>8
<1> QED
  BY <1>1, <1>2

(* What a process is doing, after a step of p.                             *)
LEMMA TaskOf ==
    ASSUME op \in [Processes -> Task], NEW p \in Processes, NEW task \in Task,
           op' = [op EXCEPT ![p] = task]
    PROVE  /\ op' \in [Processes -> Task] /\ op'[p] = task
           /\ \A q \in Processes : q # p => op'[q] = op[q]
  OBVIOUS

(* What the members of Task are.                                           *)
LEMMA TaskKinds ==
    /\ [kind |-> "idle"] \in Task
    /\ \A n \in Regions : /\ [kind |-> "register", name |-> n] \in Task
                          /\ [kind |-> "forget", name |-> n] \in Task
    /\ \A l, k \in Seq(WholeLine) :
          [kind |-> "sweep", left |-> l, keep |-> k] \in Task
    /\ \A task \in Task :
          /\ task.kind \in {"register", "forget"} => task.name \in Regions
          /\ task.kind = "sweep" =>
                /\ task.left \in Seq(WholeLine) /\ task.keep \in Seq(WholeLine)
                /\ task = [kind |-> "sweep", left |-> task.left,
                           keep |-> task.keep]
  BY DEF Task

(* A step of a sweep: the first line goes to what it keeps, or goes.       *)
LEMMA Classified ==
    ASSUME op \in [Processes -> Task], NEW p \in Processes, Registry!Classify(p)
    PROVE  /\ op[p].left \in Seq(WholeLine) /\ op[p].left # << >>
           /\ op[p].keep \in Seq(WholeLine) /\ op[p].kind = "sweep"
           /\ UNCHANGED <<file, torn, lock, status, held, failed>>
           /\ \E task \in Task :
                 /\ op' = [op EXCEPT ![p] = task]
                 /\ task.kind = "sweep" /\ task.left = Tail(op[p].left)
                 /\ \/ /\ task.keep = Append(op[p].keep, Head(op[p].left))
                       /\ regions' = regions
                    \/ /\ task.keep = op[p].keep
                       /\ Registry!Orphaned(OwnerOf(Head(op[p].left).name))
                       /\ regions' = regions \ {Head(op[p].left).name}
<1>1. op[p].kind = "sweep" /\ op[p].left # << >> /\ op[p] \in Task
  BY DEF Registry!Classify
<1> DEFINE l == op[p].left
           k == op[p].keep
           Sweeping == [kind : {"sweep"}, left : Seq(WholeLine), keep : Seq(WholeLine)]
<1>2. op[p] \in Sweeping
  BY <1>1 DEF Task
<1>3. l \in Seq(WholeLine) /\ k \in Seq(WholeLine) /\ l # << >>
  BY <1>1, <1>2
<1>4. Tail(l) \in Seq(WholeLine) /\ Append(k, Head(l)) \in Seq(WholeLine)
  BY <1>3
<1>7. \A r \in Sweeping : r \in Task /\ r.kind = "sweep"
  BY DEF Task
<1>8. \A r \in Sweeping, x \in Seq(WholeLine) :
          /\ [r EXCEPT !.left = x] \in Sweeping
          /\ [r EXCEPT !.left = x].left = x
          /\ [r EXCEPT !.left = x].keep = r.keep
          /\ [r EXCEPT !.keep = x] \in Sweeping
          /\ [r EXCEPT !.keep = x].keep = x
          /\ [r EXCEPT !.keep = x].left = r.left
  OBVIOUS
<1>9. PICK tail \in Sweeping :
          tail = [op[p] EXCEPT !.left = Tail(l)] /\ tail.left = Tail(l) /\ tail.keep = k
  <2>1. /\ [op[p] EXCEPT !.left = Tail(l)] \in Sweeping
        /\ [op[p] EXCEPT !.left = Tail(l)].left = Tail(l)
        /\ [op[p] EXCEPT !.left = Tail(l)].keep = k
    BY <1>2, <1>4, <1>8
  <2> HIDE DEF l, k, Sweeping
  <2> QED
    BY <2>1, Zenon
<1>5. CASE /\ op' = [op EXCEPT ![p].left = Tail(@), ![p].keep = Append(@, Head(l))]
           /\ regions' = regions
  <2>1. PICK task \in Sweeping :
            /\ task = [tail EXCEPT !.keep = Append(k, Head(l))]
            /\ task.left = Tail(l) /\ task.keep = Append(k, Head(l))
    <3>1. /\ [tail EXCEPT !.keep = Append(k, Head(l))] \in Sweeping
          /\ [tail EXCEPT !.keep = Append(k, Head(l))].left = Tail(l)
          /\ [tail EXCEPT !.keep = Append(k, Head(l))].keep = Append(k, Head(l))
      BY <1>4, <1>8, <1>9
    <3> HIDE DEF l, k, Sweeping
    <3> QED
      BY <3>1, Zenon
  <2>2. op' = [op EXCEPT ![p] = task]
    <3>1. op' = [op EXCEPT ![p] = [[op[p] EXCEPT !.left = Tail(l)]
                                      EXCEPT !.keep = Append(k, Head(l))]]
      BY <1>5
    <3> QED
      BY <1>9, <2>1, <3>1
  <2> QED
    BY <1>1, <1>3, <1>5, <1>7, <2>1, <2>2 DEF Registry!Classify
<1>6. CASE /\ op' = [op EXCEPT ![p].left = Tail(@)]
           /\ Registry!Orphaned(OwnerOf(Head(l).name))
           /\ regions' = regions \ {Head(l).name}
  <2>1. op' = [op EXCEPT ![p] = tail]
    BY <1>6, <1>9
  <2> QED
    BY <1>1, <1>3, <1>6, <1>7, <1>9, <2>1 DEF Registry!Classify
<1> QED
  BY <1>5, <1>6 DEF Registry!Classify

(* An owner that counts as orphaned is not alive.                          *)
LEMMA OrphanedNotAlive ==
    ASSUME NEW owner \in Processes, Registry!Orphaned(owner)
    PROVE  status[owner] # "alive"
  BY DEF Registry!Orphaned, Registry!Alive

(* A write of one line, or of none.                                        *)
LEMMA WrittenLines ==
    ASSUME file \in Seq(AnyLine), NEW n \in Regions,
           Registry!Written(n) \/ Registry!WrittenInPart
    PROVE  file' \in Seq(AnyLine)
<1>1. [whole |-> TRUE, name |-> n] \in AnyLine /\ [whole |-> FALSE] \in AnyLine
  BY DEF AnyLine, WholeLine
<1> QED
  BY <1>1 DEF Registry!Written, Registry!WrittenInPart, Registry!Entry,
              Registry!Garbage

(* A sweep starts from lines that are whole.                               *)
LEMMA SoundWhole ==
    ASSUME file \in Seq(AnyLine), Registry!Sound(file)
    PROVE  file \in Seq(WholeLine)
<1>1. \A i \in DOMAIN file : file[i] \in AnyLine /\ i \in Registry!Entries(file)
  BY DEF Registry!Sound
<1>2. \A i \in DOMAIN file : file[i].whole
  BY <1>1 DEF Registry!Entries
<1>3. [whole |-> FALSE].whole = FALSE
  OBVIOUS
<1>4. \A i \in DOMAIN file : file[i] \in WholeLine
  BY <1>1, <1>2, <1>3 DEF AnyLine
<1> QED
  BY <1>4

(* One process is doing something else; the others what they were doing.   *)
LEMMA HoldTask ==
    ASSUME HoldInv, NEW p \in Processes, NEW task \in Task,
           status[p] = "alive", op' = [op EXCEPT ![p] = task], file' \in Seq(AnyLine),
           regions' \subseteq Regions, status' = status,
           held' \in [Processes -> SUBSET Regions],
           \A q \in Processes : \A n \in held'[q] :
               OwnerOf(n) = q /\ status[q] = "alive" /\ n \in regions',
           \A q \in Processes : q # p => held'[q] = held[q],
           task.kind \in {"register", "forget"} =>
               OwnerOf(task.name) = p /\ task.name \notin held'[p],
           task.kind = "register" => task.name \in regions',
           \A n \in regions \ regions' :
               OwnerOf(n) = p \/ status[OwnerOf(n)] # "alive"
    PROVE  HoldInv'
<1>1. /\ op' \in [Processes -> Task] /\ op'[p] = task
      /\ \A q \in Processes : q # p => op'[q] = op[q]
  BY TaskOf DEF HoldInv
<1>2. \A q \in Processes : op'[q].kind \in {"register", "forget"} =>
          OwnerOf(op'[q].name) = q /\ op'[q].name \notin held'[q]
  BY <1>1 DEF HoldInv
<1>3. \A q \in Processes :
          status[q] = "alive" /\ op'[q].kind = "register" => op'[q].name \in regions'
  <2>1. SUFFICES ASSUME NEW q \in Processes, q # p, status[q] = "alive",
                        op[q].kind = "register"
                 PROVE  op[q].name \in regions'
    BY <1>1
  <2>2. op[q].name \in regions /\ OwnerOf(op[q].name) = q
    BY <2>1 DEF HoldInv
  <2> QED
    BY <2>1, <2>2
<1>4. \A q \in Processes : status[q] = "new" => op'[q].kind = "idle"
  BY <1>1 DEF HoldInv
<1> QED
  BY <1>1, <1>2, <1>3, <1>4 DEF HoldInv

(* Who holds a region stays its owner and alive.                           *)
LEMMA HoldInvStep ==
    ASSUME HoldInv, Registry!Next
    PROVE  HoldInv'
<1>0. \A n \in Regions : OwnerOf(n) \in Processes
  BY StateAssumption DEF StateAssumption, Registry!RegistryAssumption
<1> USE TaskKinds
<1> DEFINE Holding(h, r) == \A q \in Processes : \A n \in h[q] :
               OwnerOf(n) = q /\ status[q] = "alive" /\ n \in r
<1>00. /\ file \in Seq(AnyLine) /\ regions \subseteq Regions
       /\ status \in [Processes -> {"new", "alive", "dead"}]
       /\ op \in [Processes -> Task] /\ held \in [Processes -> SUBSET Regions]
       /\ Holding(held, regions)
       /\ \A p \in Processes : op[p].kind \in {"register", "forget"} =>
             /\ OwnerOf(op[p].name) = p /\ op[p].name \notin held[p]
             /\ op[p].name \in Regions
       /\ \A p \in Processes : status[p] = "alive" /\ op[p].kind = "register" =>
             op[p].name \in regions
  BY DEF HoldInv
<1>1. ASSUME NEW p \in Processes, Registry!Start(p) PROVE HoldInv'
  <2>1. /\ status[p] = "new" /\ status' = [status EXCEPT ![p] = "alive"]
        /\ UNCHANGED <<regions, file, op, held>>
    BY <1>1 DEF Registry!Start
  <2>2. op[p].kind # "register"
    BY <2>1 DEF HoldInv
  <2>3. status' \in [Processes -> {"new", "alive", "dead"}] /\ status'[p] = "alive"
        /\ \A q \in Processes : q # p => status'[q] = status[q]
    BY <1>00, <2>1
  <2>4. op[p].kind = "idle"
    BY <2>1 DEF HoldInv
  <2>5. \A q \in Processes :
           /\ status'[q] = "alive" /\ op[q].kind = "register" => op[q].name \in regions
           /\ status'[q] = "new" => op[q].kind = "idle"
    BY <2>1, <2>2, <2>3 DEF HoldInv
  <2>6. Holding(held, regions)'
    BY <1>00, <2>1, <2>3
  <2> QED
    BY <1>00, <2>1, <2>3, <2>5, <2>6 DEF HoldInv
<1>2. ASSUME NEW p \in Processes, status[p] = "alive", NEW n \in Regions,
             Registry!Create(p, n)
      PROVE  HoldInv'
  <2>1. PICK task \in Task : task = [kind |-> "register", name |-> n]
    OBVIOUS
  <2>2. /\ op' = [op EXCEPT ![p] = task] /\ regions' = regions \cup {n}
        /\ OwnerOf(n) = p /\ n \notin regions
        /\ UNCHANGED <<file, status, held>>
    BY <1>2, <2>1 DEF Registry!Create
  <2>3. n \notin held[p] /\ task.name = n
    BY <1>00, <2>1, <2>2
  <2>4. Holding(held', regions')
    BY <1>00, <2>2
  <2>5. /\ file' \in Seq(AnyLine) /\ regions' \subseteq Regions /\ status' = status
        /\ held' \in [Processes -> SUBSET Regions]
        /\ \A q \in Processes : q # p => held'[q] = held[q]
        /\ OwnerOf(task.name) = p /\ task.name \notin held'[p]
        /\ task.name \in regions' /\ regions \ regions' = {}
    BY <1>00, <2>2, <2>3
  <2> QED
    BY <2>2, <2>4, <2>5, <1>2, HoldTask
<1>3. ASSUME NEW p \in Processes, status[p] = "alive", NEW n \in Regions,
             Registry!Unlink(p, n)
      PROVE  HoldInv'
  <2>1. PICK task \in Task : task = [kind |-> "forget", name |-> n]
    OBVIOUS
  <2>2. /\ op' = [op EXCEPT ![p] = task] /\ regions' = regions \ {n}
        /\ n \in held[p] /\ held' = [held EXCEPT ![p] = held[p] \ {n}]
        /\ UNCHANGED <<file, status>>
    BY <1>3, <2>1 DEF Registry!Unlink
  <2>3. OwnerOf(n) = p /\ task.name = n /\ task.kind = "forget" /\ n \notin held'[p]
    BY <1>00, <2>1, <2>2
  <2>4. held' \in [Processes -> SUBSET Regions]
        /\ \A q \in Processes : q # p => held'[q] = held[q]
    BY <1>00, <2>2
  <2>5. \A q \in Processes : held'[q] \subseteq held[q] \ {n}
    BY <1>00, <2>2, <2>3, <2>4
  <2>6. Holding(held', regions')
    BY <1>00, <2>2, <2>5
  <2> QED
    BY <1>00, <2>2, <2>3, <2>4, <2>6, <1>3, HoldTask
<1>4. ASSUME NEW p \in Processes, status[p] = "alive",
             Registry!Register(p)
      PROVE  HoldInv'
  <2>1. PICK task \in Task : task = [kind |-> "idle"]
    OBVIOUS
  <2>2. PICK n \in Regions : n = op[p].name /\ op[p].kind = "register"
                             /\ OwnerOf(n) = p /\ n \in regions
    BY <1>00, <1>4 DEF Registry!Register
  <2>3. /\ op' = [op EXCEPT ![p] = task] /\ Registry!Written(n)
        /\ held' = [held EXCEPT ![p] = held[p] \cup {n}]
        /\ UNCHANGED <<regions, status>>
    BY <1>4, <2>1, <2>2 DEF Registry!Register, Registry!Idle
  <2>4. held' \in [Processes -> SUBSET Regions] /\ held'[p] = held[p] \cup {n}
        /\ \A q \in Processes : q # p => held'[q] = held[q]
    BY <1>00, <2>3
  <2>5. Holding(held', regions')
    BY <1>00, <1>4, <2>2, <2>3, <2>4
  <2>6. file' \in Seq(AnyLine) /\ task.kind = "idle"
    BY <1>00, <2>1, <2>3, WrittenLines
  <2> QED
    BY <1>00, <2>3, <2>4, <2>5, <2>6, <1>4, HoldTask
<1>5. ASSUME NEW p \in Processes, status[p] = "alive",
             Registry!RegisterFails(p)
      PROVE  HoldInv'
  <2>1. PICK task \in Task : task = [kind |-> "idle"]
    OBVIOUS
  <2>2. PICK n \in Regions : n = op[p].name /\ OwnerOf(n) = p /\ n \notin held[p]
    BY <1>00, <1>5 DEF Registry!RegisterFails
  <2>3. /\ op' = [op EXCEPT ![p] = task]
        /\ Registry!Written(n) \/ Registry!WrittenInPart
        /\ regions' = regions \ {n}
        /\ UNCHANGED <<status, held>>
    BY <1>5, <2>1, <2>2 DEF Registry!RegisterFails, Registry!Idle
  <2>5. Holding(held', regions')
    BY <1>00, <2>2, <2>3
  <2>6. file' \in Seq(AnyLine) /\ task.kind = "idle"
    BY <1>00, <2>1, <2>3, WrittenLines
  <2> QED
    BY <1>00, <2>2, <2>3, <2>5, <2>6, <1>5, HoldTask
<1>6. ASSUME NEW p \in Processes, status[p] = "alive",
             Registry!Forget(p)
      PROVE  HoldInv'
  <2>1. PICK task \in Task : task = [kind |-> "idle"]
    OBVIOUS
  <2>2. op' = [op EXCEPT ![p] = task] /\ UNCHANGED <<regions, status, held>>
    BY <1>6, <2>1 DEF Registry!Forget, Registry!Idle
  <2>3. file' \in Seq(AnyLine)
    <3>1. CASE UNCHANGED file
      BY <1>00, <3>1
    <3>2. CASE Registry!Retained(op[p].name)
      <4>1. CASE UNCHANGED file
        BY <1>00, <4>1
      <4>2. ASSUME NEW i \in DOMAIN file,
                   file' = [j \in 1..(Len(file) - 1) |->
                              IF j < i THEN file[j] ELSE file[j + 1]]
            PROVE  file' \in Seq(AnyLine)
        <5>1. /\ Len(file) - 1 \in Nat /\ DOMAIN file = 1..Len(file)
              /\ \A j \in 1..(Len(file) - 1) : j \in DOMAIN file /\ j + 1 \in DOMAIN file
              /\ \A j \in DOMAIN file : file[j] \in AnyLine
          BY <1>00
        <5> QED
          BY <4>2, <5>1
      <4> QED
        BY <3>2, <4>1, <4>2 DEF Registry!Retained
    <3> QED
      BY <1>6, <3>1, <3>2 DEF Registry!Forget
  <2> QED
    BY <1>00, <2>1, <2>2, <2>3, <1>6, HoldTask
<1>7. ASSUME NEW p \in Processes, status[p] = "alive",
             Registry!Sweep(p)
      PROVE  HoldInv'
  <2>1. file \in Seq(WholeLine) /\ << >> \in Seq(WholeLine)
    BY <1>00, <1>7, SoundWhole DEF Registry!Sweep
  <2>2. PICK task \in Task :
            task = [kind |-> "sweep", left |-> file, keep |-> << >>]
    BY <2>1
  <2>3. /\ op' = [op EXCEPT ![p] = task]
        /\ UNCHANGED <<regions, file, status, held>>
    BY <1>7, <2>2 DEF Registry!Sweep
  <2> QED
    BY <1>00, <2>2, <2>3, <1>7, HoldTask
<1>8. ASSUME NEW p \in Processes, status[p] = "alive",
             Registry!Classify(p)
      PROVE  HoldInv'
  <2>0. /\ op[p].left \in Seq(WholeLine) /\ op[p].left # << >>
        /\ UNCHANGED <<file, status, held>>
    BY <1>00, <1>8, Classified
  <2>1. PICK n \in Regions : n = Head(op[p].left).name
    <3>1. Head(op[p].left) \in WholeLine
      BY <2>0
    <3> QED
      BY <3>1 DEF WholeLine
  <2>2. PICK task \in Task :
            /\ op' = [op EXCEPT ![p] = task] /\ task.kind = "sweep"
            /\ \/ regions' = regions
               \/ regions' = regions \ {n} /\ Registry!Orphaned(OwnerOf(n))
    BY <1>00, <1>8, <2>1, Classified
  <2>3. \/ regions' = regions
        \/ regions' = regions \ {n} /\ status[OwnerOf(n)] # "alive"
    BY <1>0, <2>2, OrphanedNotAlive
  <2>4. Holding(held', regions')
    BY <1>00, <2>0, <2>3
  <2> QED
    BY <1>00, <2>0, <2>2, <2>3, <2>4, <1>8, HoldTask
<1>9. ASSUME NEW p \in Processes, status[p] = "alive",
             Registry!Replace(p)
      PROVE  HoldInv'
  <2>1. PICK task \in Task : task = [kind |-> "idle"]
    OBVIOUS
  <2>2. op' = [op EXCEPT ![p] = task] /\ UNCHANGED <<regions, status, held>>
    BY <1>9, <2>1 DEF Registry!Replace, Registry!Idle
  <2>3. op[p].keep \in Seq(WholeLine)
    BY <1>00, <1>9 DEF Registry!Replace
  <2>4. file' \in Seq(AnyLine)
    <3>1. \A s \in Seq(WholeLine) : s \in Seq(AnyLine)
      BY DEF AnyLine
    <3> QED
      BY <1>00, <1>9, <2>3, <3>1 DEF Registry!Replace
  <2> QED
    BY <1>00, <2>1, <2>2, <2>4, <1>9, HoldTask
<1>10. ASSUME NEW p \in Processes, Registry!Crash(p) PROVE HoldInv'
  <2>1. /\ status' = [status EXCEPT ![p] = "dead"]
        /\ held' = [held EXCEPT ![p] = {}]
        /\ UNCHANGED <<regions, op>>
    BY <1>10 DEF Registry!Crash
  <2>2. file' \in Seq(AnyLine)
    <3>1. CASE Registry!WrittenInPart
      BY <1>00, <3>1 DEF Registry!WrittenInPart
    <3>2. CASE op[p].kind = "register" /\ Registry!Written(op[p].name)
      BY <1>00, <3>2, WrittenLines
    <3> QED
      BY <1>10, <3>1, <3>2 DEF Registry!Crash
  <2> QED
    BY <1>00, <2>1, <2>2 DEF HoldInv
<1> QED
  BY <1>1, <1>2, <1>3, <1>4, <1>5, <1>6, <1>7, <1>8, <1>9, <1>10
  DEF Registry!Next, Registry!Step, Registry!Alive

(* One living process is doing something else; what that takes of the      *)
(* registry, the regions and the lock.                                     *)
LEMMA RecordTask ==
    ASSUME HoldInv, HoldInv', RecordInv, NEW p \in Processes, NEW task \in Task,
           status[p] = "alive", op' = [op EXCEPT ![p] = task], status' = status,
           torn' = FALSE, file' \in Seq(WholeLine),
           lock' \in Processes \cup {"none"}, failed' \in BOOLEAN,
           \A n \in regions' \cup Named(file') :
               n \in regions \cup Named(file) \/ OwnerOf(n) = p,
           \A n \in regions' : n \in regions \/ OwnerOf(n) = p,
           \A n \in regions' :
               \/ n \in Named(file')
               \/ n \in regions /\ Registry!Registering(n) /\ OwnerOf(n) # p
               \/ task.kind = "register" /\ task.name = n /\ OwnerOf(n) = p,
           task.kind = "forget" => task.name \notin regions',
           lock \in {"none", p} \/ (lock' = lock /\ file' = file),
           task.kind = "sweep" =>
               lock' = p /\ SweepInv(Named(file'), regions', status,
                                     task.left, task.keep),
           ~failed' => ~failed /\ Distinct(file'),
           ~failed' => \A n \in Named(file') :
               \/ n \in Named(file) \/ OwnerOf(n) = p,
           ~failed' => \A n \in Named(file') :
               \/ n \in regions' \/ status[OwnerOf(n)] = "dead"
               \/ /\ op[OwnerOf(n)].kind = "forget" /\ op[OwnerOf(n)].name = n
                  /\ OwnerOf(n) # p
               \/ task.kind = "forget" /\ task.name = n /\ OwnerOf(n) = p,
           ~failed' => (task.kind = "register" => task.name \notin Named(file'))
    PROVE  RecordInv'
<1>0. /\ \A n \in Regions : OwnerOf(n) \in Processes
      /\ "none" \notin Processes
  BY StateAssumption
  DEF StateAssumption, Registry!RegistryAssumption, Registry!None
<1>1. /\ op' \in [Processes -> Task] /\ op'[p] = task
      /\ \A q \in Processes : q # p => op'[q] = op[q]
  BY TaskOf DEF HoldInv
<1>2. Named(file') \subseteq Regions /\ regions' \subseteq Regions
  <2>1. \A i \in DOMAIN file' : file'[i] \in WholeLine
    OBVIOUS
  <2>2. \A line \in WholeLine : line.name \in Regions
    BY DEF WholeLine
  <2> QED
    BY <2>1, <2>2 DEF Named, HoldInv
<1>3. \A q \in Processes : op'[q].kind \in {"register", "forget"} =>
          OwnerOf(op'[q].name) = q
  BY DEF HoldInv
<1>4. \A n \in regions' \cup Named(file') : status'[OwnerOf(n)] # "new"
  BY <1>0, <1>2 DEF RecordInv
<1>5. \A n \in regions' : n \in Named(file') \/ Registry!Registering(n)'
  BY <1>0, <1>1, <1>2 DEF Registry!Registering
<1>6. ASSUME NEW q \in Processes, op'[q].kind = "forget"
      PROVE  op'[q].name \notin regions'
  <2>1. CASE q = p
    BY <1>1, <1>6, <2>1
  <2>2. CASE q # p
    BY <1>1, <1>3, <1>6, <2>2 DEF RecordInv
  <2> QED
    BY <2>1, <2>2
<1>7. ASSUME NEW q \in Processes, status[q] = "alive", op'[q].kind = "sweep"
      PROVE  lock' = q /\ SweepInv(Named(file'), regions', status,
                                   op'[q].left, op'[q].keep)
  <2>1. CASE q = p
    BY <1>1, <1>7, <2>1
  <2>2. CASE q # p
    <3>1. op'[q] = op[q]
      BY <1>1, <2>2
    <3>2. lock = q /\ SweepInv(Named(file), regions, status, op[q].left, op[q].keep)
      BY <1>7, <3>1 DEF RecordInv
    <3>3. lock' = lock /\ file' = file
      BY <1>0, <2>2, <3>2
    <3>4. \A n \in Named(file) : Gone(regions, status, n) => Gone(regions', status, n)
      BY DEF Gone
    <3>5. SweepInv(Named(file), regions', status, op[q].left, op[q].keep)
      BY <3>2, <3>4 DEF SweepInv
    <3> QED
      BY <3>1, <3>2, <3>3, <3>5
  <2> QED
    BY <2>1, <2>2
<1>8. ~failed' => \A n \in Named(file') :
          \/ n \in regions' \/ status'[OwnerOf(n)] = "dead"
          \/ op'[OwnerOf(n)].kind = "forget" /\ op'[OwnerOf(n)].name = n
  BY <1>0, <1>1, <1>2
<1>9. ASSUME ~failed', NEW q \in Processes, status[q] = "alive",
             op'[q].kind = "register"
      PROVE  op'[q].name \notin Named(file')
  <2>1. CASE q = p
    BY <1>1, <1>9, <2>1
  <2>2. CASE q # p
    BY <1>1, <1>3, <1>9, <2>2 DEF RecordInv
  <2> QED
    BY <2>1, <2>2
<1> QED
  BY <1>4, <1>5, <1>6, <1>7, <1>8, <1>9 DEF RecordInv

(* While no write stops halfway, every region has its record or is about   *)
(* to get it, and only a failed write leaves two.                          *)
LEMMA RecordInvStep ==
    ASSUME Torn = FALSE, HoldInv, HoldInv', RecordInv, Registry!Next
    PROVE  RecordInv'
<1>0. /\ \A n \in Regions : OwnerOf(n) \in Processes
      /\ "none" \notin Processes
  BY StateAssumption
  DEF StateAssumption, Registry!RegistryAssumption, Registry!None
<1> USE TaskKinds
<1>00. /\ torn = FALSE /\ file \in Seq(WholeLine) /\ regions \subseteq Regions
       /\ lock \in Processes \cup {"none"} /\ failed \in BOOLEAN
       /\ status \in [Processes -> {"new", "alive", "dead"}]
       /\ op \in [Processes -> Task]
       /\ \A n \in regions : n \in Named(file) \/ Registry!Registering(n)
       /\ \A n \in regions \cup Named(file) : status[OwnerOf(n)] # "new"
       /\ ~failed => Distinct(file)
  BY DEF HoldInv, RecordInv
<1>01. Named(file) \subseteq Regions
  <2>1. \A i \in DOMAIN file : file[i] \in WholeLine
    BY <1>00
  <2>2. \A line \in WholeLine : line.name \in Regions
    BY DEF WholeLine
  <2> QED
    BY <2>1, <2>2 DEF Named
<1>02. ~failed => \A n \in Named(file) :
          \/ n \in regions \/ status[OwnerOf(n)] = "dead"
          \/ op[OwnerOf(n)].kind = "forget" /\ op[OwnerOf(n)].name = n
  BY DEF RecordInv
<1>03. /\ \A p \in Processes : op[p].kind \in {"register", "forget"} =>
             OwnerOf(op[p].name) = p /\ op[p].name \in Regions
       /\ \A p \in Processes : status[p] = "alive" /\ op[p].kind = "register" =>
             op[p].name \in regions
  BY <1>00 DEF HoldInv
<1>04. \A p \in Processes : op[p].kind # "register" =>
          \A n \in regions :
             \/ n \in Named(file)
             \/ n \in regions /\ Registry!Registering(n) /\ OwnerOf(n) # p
  BY <1>00 DEF Registry!Registering
<1>1. ASSUME NEW p \in Processes, Registry!Start(p) PROVE RecordInv'
  <2>1. /\ status[p] = "new" /\ status' = [status EXCEPT ![p] = "alive"]
        /\ UNCHANGED <<regions, file, torn, lock, op, failed>>
    BY <1>1 DEF Registry!Start
  <2>2. op[p].kind = "idle"
    BY <2>1 DEF HoldInv
  <2>3. status'[p] = "alive" /\ \A q \in Processes : q # p => status'[q] = status[q]
    BY <1>00, <2>1
  <2>4. \A n \in Named(file) : OwnerOf(n) # p /\ OwnerOf(n) \in Processes
    BY <1>0, <1>00, <1>01, <2>1
  <2>5. \A n \in Named(file) : status'[OwnerOf(n)] = status[OwnerOf(n)]
    BY <2>3, <2>4
  <2>6. \A q \in Processes : status'[q] = "alive" /\ op[q].kind = "sweep" =>
            lock = q /\ SweepInv(Named(file), regions, status', op[q].left, op[q].keep)
    <3>1. SUFFICES ASSUME NEW q \in Processes, status'[q] = "alive",
                          op[q].kind = "sweep"
                   PROVE  lock = q /\ SweepInv(Named(file), regions, status',
                                               op[q].left, op[q].keep)
      OBVIOUS
    <3>2. status[q] = "alive"
      BY <2>2, <2>3, <3>1
    <3>3. lock = q /\ SweepInv(Named(file), regions, status, op[q].left, op[q].keep)
      BY <3>1, <3>2 DEF RecordInv
    <3>4. \A n \in Named(file) : Gone(regions, status, n) => Gone(regions, status', n)
      BY <2>5 DEF Gone
    <3> QED
      BY <3>3, <3>4 DEF SweepInv
  <2>7. \A n \in regions \cup Named(file) : status'[OwnerOf(n)] # "new"
    BY <1>0, <1>00, <1>01, <2>3
  <2>8. \A q \in Processes : status'[q] = "alive" /\ op[q].kind = "register" =>
            status[q] = "alive"
    BY <2>2, <2>3
  <2>9. (\A n \in regions : n \in Named(file) \/ Registry!Registering(n))'
    BY <1>00, <2>1 DEF Registry!Registering
  <2>10. Named(file)' = Named(file) /\ Distinct(file)' = Distinct(file)
    BY <2>1
  <2>11. ~failed => \A n \in Named(file) :
          \/ n \in regions \/ status'[OwnerOf(n)] = "dead"
          \/ op[OwnerOf(n)].kind = "forget" /\ op[OwnerOf(n)].name = n
    BY <1>02, <2>5
  <2> QED
    BY <1>00, <2>1, <2>6, <2>7, <2>8, <2>9, <2>10, <2>11 DEF RecordInv
<1>2. ASSUME NEW p \in Processes, status[p] = "alive", NEW n \in Regions,
             Registry!Create(p, n)
      PROVE  RecordInv'
  <2>1. PICK task \in Task : task = [kind |-> "register", name |-> n]
    OBVIOUS
  <2>2. /\ op' = [op EXCEPT ![p] = task] /\ regions' = regions \cup {n}
        /\ OwnerOf(n) = p /\ n \notin regions /\ op[p].kind = "idle"
        /\ UNCHANGED <<file, torn, lock, status, failed>>
        /\ task.kind = "register" /\ task.name = n
    BY <1>2, <2>1 DEF Registry!Create, Registry!Idle
  <2>3. ~failed => n \notin Named(file)
    BY <1>02, <1>2, <2>2
  <2>4. \A m \in regions' :
           \/ m \in Named(file')
           \/ m \in regions /\ Registry!Registering(m) /\ OwnerOf(m) # p
           \/ task.kind = "register" /\ task.name = m /\ OwnerOf(m) = p
    BY <1>04, <2>2
  <2>5. ~failed' => \A m \in Named(file') :
           \/ m \in regions' \/ status[OwnerOf(m)] = "dead"
           \/ /\ op[OwnerOf(m)].kind = "forget" /\ op[OwnerOf(m)].name = m
              /\ OwnerOf(m) # p
    BY <1>02, <2>2
  <2>6. \A m \in regions' \cup Named(file') :
            m \in regions \cup Named(file) \/ OwnerOf(m) = p
    BY <2>2
  <2>7. \A m \in regions' : m \in regions \/ OwnerOf(m) = p
    BY <2>2
  <2>8. /\ torn' = FALSE /\ file' \in Seq(WholeLine) /\ status' = status
        /\ lock' \in Processes \cup {"none"} /\ failed' \in BOOLEAN
        /\ lock' = lock /\ file' = file
        /\ ~failed' => ~failed /\ Distinct(file') /\ task.name \notin Named(file')
        /\ task.kind = "register"
    BY <1>00, <2>2, <2>3
  <2>9. /\ task.kind = "forget" => task.name \notin regions'
        /\ ~(task.kind = "sweep")
        /\ ~failed' => (task.kind = "register" => task.name \notin Named(file'))
        /\ ~failed' => \A m \in Named(file') : m \in Named(file) \/ OwnerOf(m) = p
        /\ op' = [op EXCEPT ![p] = task]
    BY <2>2, <2>8
  <2> QED
    BY <1>2, <2>4, <2>5, <2>6, <2>7, <2>8, <2>9, RecordTask
<1>3. ASSUME NEW p \in Processes, status[p] = "alive", NEW n \in Regions,
             Registry!Unlink(p, n)
      PROVE  RecordInv'
  <2>1. PICK task \in Task : task = [kind |-> "forget", name |-> n]
    OBVIOUS
  <2>2. /\ op' = [op EXCEPT ![p] = task] /\ regions' = regions \ {n}
        /\ OwnerOf(n) = p /\ op[p].kind = "idle"
        /\ UNCHANGED <<file, torn, lock, status, failed>>
        /\ task.kind = "forget" /\ task.name = n
    BY <1>3, <2>1 DEF Registry!Unlink, Registry!Idle, HoldInv
  <2>4. \A m \in regions' :
           \/ m \in Named(file')
           \/ m \in regions /\ Registry!Registering(m) /\ OwnerOf(m) # p
    BY <1>04, <2>2
  <2>5. ~failed' => \A m \in Named(file') :
           \/ m \in regions' \/ status[OwnerOf(m)] = "dead"
           \/ /\ op[OwnerOf(m)].kind = "forget" /\ op[OwnerOf(m)].name = m
              /\ OwnerOf(m) # p
           \/ task.kind = "forget" /\ task.name = m /\ OwnerOf(m) = p
    BY <1>02, <2>2
  <2> QED
    <3>1. \A m \in regions' \cup Named(file') :
              m \in regions \cup Named(file) \/ OwnerOf(m) = p
      BY <2>2
    <3>2. \A m \in regions' : m \in regions \/ OwnerOf(m) = p
      BY <2>2
    <3>3. \A m \in regions' :
             \/ m \in Named(file')
             \/ m \in regions /\ Registry!Registering(m) /\ OwnerOf(m) # p
             \/ task.kind = "register" /\ task.name = m /\ OwnerOf(m) = p
      BY <2>4
    <3>4. /\ torn' = FALSE /\ file' \in Seq(WholeLine) /\ status' = status
          /\ lock' \in Processes \cup {"none"} /\ failed' \in BOOLEAN
          /\ lock' = lock /\ file' = file /\ ~(task.kind = "sweep")
          /\ ~failed' => ~failed /\ Distinct(file')
      BY <1>00, <2>2
    <3>5. /\ task.kind = "forget" => task.name \notin regions'
          /\ ~failed' => (task.kind = "register" => task.name \notin Named(file'))
          /\ ~failed' => \A m \in Named(file') : m \in Named(file) \/ OwnerOf(m) = p
          /\ op' = [op EXCEPT ![p] = task]
      BY <2>2
    <3> QED
      BY <1>3, <2>5, <3>1, <3>2, <3>3, <3>4, <3>5, RecordTask
<1>4. ASSUME NEW p \in Processes, status[p] = "alive", Registry!Register(p)
      PROVE  RecordInv'
  <2>1. PICK task \in Task : task = [kind |-> "idle"]
    OBVIOUS
  <2>2. PICK n \in Regions : n = op[p].name /\ op[p].kind = "register"
                             /\ OwnerOf(n) = p /\ n \in regions
    BY <1>4, <1>03 DEF Registry!Register
  <2>3. /\ op' = [op EXCEPT ![p] = task] /\ lock = "none"
        /\ file' = Append(file, [whole |-> TRUE, name |-> n])
        /\ torn' = FALSE /\ task.kind = "idle"
        /\ UNCHANGED <<regions, lock, status, failed>>
    BY <1>00, <1>4, <2>1, <2>2
    DEF Registry!Register, Registry!Idle, Registry!None, Registry!Written,
        Registry!Entry
  <2>4. /\ file' \in Seq(WholeLine) /\ Named(file') = Named(file) \cup {n}
        /\ Distinct(file) /\ n \notin Named(file) => Distinct(file')
    BY <1>00, <2>3, NamedAppend
  <2>5. ~failed => n \notin Named(file)
    BY <1>4, <2>2 DEF RecordInv
  <2>6. \A m \in regions' :
           \/ m \in Named(file')
           \/ m \in regions /\ Registry!Registering(m) /\ OwnerOf(m) # p
    BY <1>00, <2>2, <2>3, <2>4 DEF Registry!Registering
  <2>7. ~failed' => \A m \in Named(file') :
           \/ m \in regions' \/ status[OwnerOf(m)] = "dead"
           \/ /\ op[OwnerOf(m)].kind = "forget" /\ op[OwnerOf(m)].name = m
              /\ OwnerOf(m) # p
    BY <1>02, <2>2, <2>3, <2>4
  <2>8. \A m \in Named(file') : m \in Named(file) \/ OwnerOf(m) = p
    BY <2>2, <2>4
  <2> QED
    BY <1>00, <1>4, <2>3, <2>4, <2>5, <2>6, <2>7, <2>8, RecordTask
<1>5. ASSUME NEW p \in Processes, status[p] = "alive", Registry!RegisterFails(p)
      PROVE  RecordInv'
  <2>1. PICK task \in Task : task = [kind |-> "idle"]
    OBVIOUS
  <2>2. PICK n \in Regions : n = op[p].name /\ op[p].kind = "register"
                             /\ OwnerOf(n) = p
    BY <1>5, <1>03 DEF Registry!RegisterFails
  <2>3. /\ op' = [op EXCEPT ![p] = task] /\ lock = "none"
        /\ regions' = regions \ {n} /\ failed' = TRUE
        /\ Registry!WrittenInPart \/ Registry!Written(n)
        /\ UNCHANGED <<lock, status>> /\ task.kind = "idle"
    BY <1>5, <2>1, <2>2
    DEF Registry!RegisterFails, Registry!Idle, Registry!None
  <2>4. /\ torn' = FALSE /\ file' \in Seq(WholeLine)
        /\ Named(file) \subseteq Named(file')
        /\ Named(file') \subseteq Named(file) \cup {n}
    <3>1. CASE Registry!WrittenInPart
      BY <1>00, <3>1 DEF Registry!WrittenInPart
    <3>2. CASE Registry!Written(n)
      <4>1. file' = Append(file, [whole |-> TRUE, name |-> n]) /\ torn' = FALSE
        BY <1>00, <3>2 DEF Registry!Written, Registry!Entry
      <4> QED
        BY <1>00, <4>1, NamedAppend
    <3> QED
      BY <2>3, <3>1, <3>2
  <2>6. \A m \in regions' :
           \/ m \in Named(file')
           \/ m \in regions /\ Registry!Registering(m) /\ OwnerOf(m) # p
    BY <1>00, <2>2, <2>3, <2>4 DEF Registry!Registering
  <2>8. \A m \in Named(file') : m \in Named(file) \/ OwnerOf(m) = p
    BY <2>2, <2>4
  <2> QED
    BY <1>00, <1>5, <2>3, <2>4, <2>6, <2>8, RecordTask
<1>6. ASSUME NEW p \in Processes, status[p] = "alive", Registry!Forget(p)
      PROVE  RecordInv'
  <2>1. PICK task \in Task : task = [kind |-> "idle"]
    OBVIOUS
  <2>2. PICK n \in Regions : n = op[p].name /\ op[p].kind = "forget"
                             /\ OwnerOf(n) = p /\ n \notin regions
    BY <1>6, <1>03 DEF Registry!Forget, RecordInv
  <2>3. /\ op' = [op EXCEPT ![p] = task] /\ lock = "none"
        /\ UNCHANGED <<regions, torn, lock, status>> /\ task.kind = "idle"
    BY <1>6, <2>1, <2>2 DEF Registry!Forget, Registry!Idle, Registry!None
  <2>4. /\ file' \in Seq(WholeLine) /\ failed' \in BOOLEAN
        /\ Named(file') \subseteq Named(file)
        /\ Named(file) \ {n} \subseteq Named(file')
        /\ ~failed' => ~failed /\ Distinct(file') /\ Named(file') = Named(file) \ {n}
    <3>1. CASE /\ Registry!Sound(file) /\ Registry!Retained(n) /\ failed' = failed
      <4>1. Distinct(file)
        BY <1>00, <3>1, SoundDistinct
      <4> QED
        BY <1>00, <3>1, <4>1, NamedRetained
    <3>2. CASE ~Registry!Sound(file) /\ UNCHANGED <<file, failed>>
      <4>1. failed
        BY <1>00, <3>2, SoundDistinct
      <4> QED
        BY <1>00, <3>2, <4>1
    <3>3. CASE failed' = TRUE /\ UNCHANGED file
      BY <1>00, <3>3
    <3> QED
      BY <1>6, <2>2, <3>1, <3>2, <3>3 DEF Registry!Forget
  <2>6. \A m \in regions' :
           \/ m \in Named(file')
           \/ m \in regions /\ Registry!Registering(m) /\ OwnerOf(m) # p
    BY <1>04, <2>2, <2>3, <2>4
  <2>7. ~failed' => \A m \in Named(file') :
           \/ m \in regions' \/ status[OwnerOf(m)] = "dead"
           \/ /\ op[OwnerOf(m)].kind = "forget" /\ op[OwnerOf(m)].name = m
              /\ OwnerOf(m) # p
    BY <1>02, <2>2, <2>3, <2>4
  <2> QED
    BY <1>00, <1>6, <2>3, <2>4, <2>6, <2>7, RecordTask
<1>7. ASSUME NEW p \in Processes, status[p] = "alive", Registry!Sweep(p)
      PROVE  RecordInv'
  <2>1. << >> \in Seq(WholeLine) /\ Named(<< >>) = {} /\ Distinct(<< >>)
    BY DEF Named, Distinct
  <2>2. PICK task \in Task :
            task = [kind |-> "sweep", left |-> file, keep |-> << >>]
    BY <1>00, <2>1
  <2>5. op[p] = [kind |-> "idle"] /\ Registry!Sound(file)
        /\ lock = "none" /\ lock' = p
        /\ UNCHANGED <<regions, file, torn, status, failed>>
    BY <1>7 DEF Registry!Sweep, Registry!Idle, Registry!None
  <2>8. op' = [op EXCEPT ![p] = task]
    BY <1>7, <2>2 DEF Registry!Sweep
  <2>9. Distinct(file)
    BY <1>00, <2>5, SoundDistinct
  <2>10. task.kind = "sweep" /\ task.left = file /\ task.keep = << >>
    BY <2>2
  <2>3. /\ op' = [op EXCEPT ![p] = task] /\ lock = "none" /\ lock' = p
        /\ op[p].kind = "idle" /\ Distinct(file)
        /\ task.kind = "sweep" /\ task.left = file /\ task.keep = << >>
        /\ UNCHANGED <<regions, file, torn, status, failed>>
    BY <2>5, <2>8, <2>9, <2>10
  <2>4. SweepInv(Named(file'), regions', status, task.left, task.keep)
    BY <2>1, <2>3 DEF SweepInv
  <2>6. \A m \in regions' :
           \/ m \in Named(file')
           \/ m \in regions /\ Registry!Registering(m) /\ OwnerOf(m) # p
    BY <1>04, <2>3
  <2>7. ~failed' => \A m \in Named(file') :
           \/ m \in regions' \/ status[OwnerOf(m)] = "dead"
           \/ /\ op[OwnerOf(m)].kind = "forget" /\ op[OwnerOf(m)].name = m
              /\ OwnerOf(m) # p
    BY <1>02, <2>3
  <2> QED
    BY <1>00, <1>7, <2>3, <2>4, <2>6, <2>7, RecordTask
<1>8. ASSUME NEW p \in Processes, status[p] = "alive", Registry!Classify(p)
      PROVE  RecordInv'
  <2> DEFINE l == op[p].left
             k == op[p].keep
             n == Head(l).name
  <2>1. /\ l \in Seq(WholeLine) /\ l # << >> /\ k \in Seq(WholeLine)
        /\ op[p].kind = "sweep"
        /\ UNCHANGED <<file, torn, lock, status, failed>>
    BY <1>00, <1>8, Classified
  <2>2. PICK task \in Task :
            /\ op' = [op EXCEPT ![p] = task]
            /\ task.kind = "sweep" /\ task.left = Tail(l)
            /\ \/ task.keep = Append(k, Head(l)) /\ regions' = regions
               \/ /\ task.keep = k /\ Registry!Orphaned(OwnerOf(n))
                  /\ regions' = regions \ {n}
    BY <1>00, <1>8, Classified
  <2>3. lock = p /\ SweepInv(Named(file), regions, status, l, k)
    BY <1>8, <2>1 DEF RecordInv
  <2>4. /\ Tail(l) \in Seq(WholeLine) /\ Named(l) = Named(Tail(l)) \cup {n}
        /\ Distinct(Tail(l)) /\ n \notin Named(Tail(l)) /\ Head(l) \in WholeLine
    BY <2>1, <2>3, NamedHead DEF SweepInv
  <2>5. n \in Regions /\ Head(l) = [whole |-> TRUE, name |-> n]
    BY <2>4 DEF WholeLine
  <2>6. n \in Named(file) /\ n \notin Named(k)
    BY <2>3, <2>4 DEF SweepInv
  <2>7. SweepInv(Named(file'), regions', status, task.left, task.keep)
    <3>1. CASE task.keep = Append(k, Head(l)) /\ regions' = regions
      <4>1. /\ Named(Append(k, Head(l))) = Named(k) \cup {n}
            /\ Distinct(Append(k, Head(l)))
        BY <2>1, <2>3, <2>5, <2>6, NamedAppend DEF SweepInv
      <4> QED
        BY <2>1, <2>2, <2>3, <2>4, <2>6, <3>1, <4>1 DEF SweepInv
    <3>2. CASE /\ task.keep = k /\ Registry!Orphaned(OwnerOf(n))
               /\ regions' = regions \ {n}
      <4>1. status[OwnerOf(n)] # "alive"
        BY <1>0, <2>5, <3>2, OrphanedNotAlive
      <4>2. status[OwnerOf(n)] = "dead"
        BY <1>0, <1>00, <2>5, <2>6, <4>1
      <4>3. Gone(regions', status, n)
        BY <3>2, <4>2 DEF Gone
      <4>4. \A m : Gone(regions, status, m) => Gone(regions', status, m)
        BY <3>2 DEF Gone
      <4> QED
        BY <2>1, <2>2, <2>3, <2>4, <3>2, <4>3, <4>4 DEF SweepInv
    <3> QED
      BY <2>2, <3>1, <3>2
  <2>8. regions' \subseteq regions
        /\ \A m \in regions \ regions' : status[OwnerOf(m)] = "dead"
    <3>1. CASE regions' = regions
      BY <3>1
    <3>2. CASE Registry!Orphaned(OwnerOf(n)) /\ regions' = regions \ {n}
      <4>1. status[OwnerOf(n)] # "alive"
        BY <1>0, <2>5, <3>2, OrphanedNotAlive
      <4> QED
        BY <1>0, <1>00, <2>5, <2>6, <3>2, <4>1
    <3> QED
      BY <2>2, <3>1, <3>2
  <2>9. \A m \in regions' :
           \/ m \in Named(file')
           \/ m \in regions /\ Registry!Registering(m) /\ OwnerOf(m) # p
    BY <1>04, <2>1, <2>8
  <2>10. ~failed' => \A m \in Named(file') :
           \/ m \in regions' \/ status[OwnerOf(m)] = "dead"
           \/ /\ op[OwnerOf(m)].kind = "forget" /\ op[OwnerOf(m)].name = m
              /\ OwnerOf(m) # p
    BY <1>02, <2>1, <2>8
  <2> HIDE DEF l, k, n
  <2> QED
    BY <1>00, <1>8, <2>1, <2>2, <2>3, <2>7, <2>8, <2>9, <2>10, RecordTask
<1>9. ASSUME NEW p \in Processes, status[p] = "alive", Registry!Replace(p)
      PROVE  RecordInv'
  <2>1. PICK task \in Task : task = [kind |-> "idle"]
    OBVIOUS
  <2>2. /\ op' = [op EXCEPT ![p] = task] /\ task.kind = "idle"
        /\ op[p].kind = "sweep" /\ op[p].left = << >> /\ lock' = "none"
        /\ UNCHANGED <<regions, torn, status>>
    BY <1>9, <2>1 DEF Registry!Replace, Registry!Idle, Registry!None
  <2>3. /\ lock = p /\ op[p].keep \in Seq(WholeLine)
        /\ SweepInv(Named(file), regions, status, op[p].left, op[p].keep)
    BY <1>00, <1>9, <2>2 DEF RecordInv
  <2>4. Named(op[p].left) = {}
    BY <2>2 DEF Named
  <2>5. /\ Distinct(op[p].keep) /\ Named(op[p].keep) \subseteq Named(file)
        /\ \A m \in Named(file) \cap regions : m \in Named(op[p].keep)
    BY <2>3, <2>4 DEF SweepInv, Gone
  <2>6. \/ file' = op[p].keep /\ failed' = failed
        \/ file' = file /\ failed' = TRUE
    BY <1>9 DEF Registry!Replace
  <2>7. /\ file' \in Seq(WholeLine) /\ failed' \in BOOLEAN
        /\ Named(file') \subseteq Named(file)
        /\ \A m \in Named(file) \cap regions : m \in Named(file')
        /\ ~failed' => ~failed /\ Distinct(file')
    BY <1>00, <2>3, <2>5, <2>6
  <2>8. \A m \in regions' :
           \/ m \in Named(file')
           \/ m \in regions /\ Registry!Registering(m) /\ OwnerOf(m) # p
    BY <1>04, <2>2, <2>7
  <2>9. ~failed' => \A m \in Named(file') :
           \/ m \in regions' \/ status[OwnerOf(m)] = "dead"
           \/ /\ op[OwnerOf(m)].kind = "forget" /\ op[OwnerOf(m)].name = m
              /\ OwnerOf(m) # p
    BY <1>02, <2>2, <2>7
  <2> QED
    BY <1>00, <1>9, <2>2, <2>3, <2>7, <2>8, <2>9, RecordTask
<1>10. ASSUME NEW p \in Processes, status[p] = "alive", Registry!Crash(p)
       PROVE  RecordInv'
  <2>1. /\ status' = [status EXCEPT ![p] = "dead"]
        /\ lock' = (IF lock = p THEN "none" ELSE lock)
        /\ UNCHANGED <<regions, op, failed>>
        /\ \/ Registry!WrittenInPart
           \/ op[p].kind = "register" /\ lock = "none" /\ Registry!Written(op[p].name)
    BY <1>10 DEF Registry!Crash, Registry!None
  <2>2. status'[p] = "dead" /\ \A q \in Processes : q # p => status'[q] = status[q]
    BY <1>00, <2>1
  <2>3. /\ torn' = FALSE /\ file' \in Seq(WholeLine)
        /\ Named(file) \subseteq Named(file')
        /\ \A m \in Named(file') \ Named(file) : m \in Regions /\ OwnerOf(m) = p
        /\ ~failed => Distinct(file')
        /\ file' = file \/ lock = "none"
    <3>1. CASE Registry!WrittenInPart
      BY <1>00, <3>1 DEF Registry!WrittenInPart
    <3>2. CASE op[p].kind = "register" /\ lock = "none" /\ Registry!Written(op[p].name)
      <4>1. PICK m \in Regions : m = op[p].name /\ OwnerOf(m) = p
        BY <1>03, <3>2
      <4>2. file' = Append(file, [whole |-> TRUE, name |-> m]) /\ torn' = FALSE
        BY <1>00, <3>2, <4>1 DEF Registry!Written, Registry!Entry
      <4>3. ~failed => m \notin Named(file)
        BY <1>10, <3>2, <4>1 DEF RecordInv
      <4>4. /\ file' \in Seq(WholeLine) /\ Named(file') = Named(file) \cup {m}
            /\ Distinct(file) /\ m \notin Named(file) => Distinct(file')
        BY <1>00, <4>2, NamedAppend
      <4> QED
        BY <1>00, <3>2, <4>1, <4>2, <4>3, <4>4
    <3> QED
      BY <2>1, <3>1, <3>2
  <2>4. \A m \in regions \cup Named(file') : status'[OwnerOf(m)] # "new"
    BY <1>0, <1>00, <1>01, <2>2, <2>3
  <2>5. (\A m \in regions : m \in Named(file) \/ Registry!Registering(m))'
    BY <1>00, <2>1, <2>3 DEF Registry!Registering
  <2>6. ASSUME NEW q \in Processes, status'[q] = "alive", op[q].kind = "sweep"
        PROVE  lock' = q /\ SweepInv(Named(file'), regions, status',
                                     op[q].left, op[q].keep)
    <3>1. q # p /\ status[q] = "alive"
      BY <2>2, <2>6
    <3>2. lock = q /\ SweepInv(Named(file), regions, status, op[q].left, op[q].keep)
      BY <2>6, <3>1 DEF RecordInv
    <3>3. file' = file /\ lock' = q
      BY <1>0, <2>1, <2>3, <3>1, <3>2
    <3>4. \A m \in Named(file) : Gone(regions, status, m) => Gone(regions, status', m)
      BY <1>0, <1>01, <2>2 DEF Gone
    <3> QED
      BY <3>2, <3>3, <3>4 DEF SweepInv
  <2>7. ~failed => \A m \in Named(file') :
           \/ m \in regions \/ status'[OwnerOf(m)] = "dead"
           \/ op[OwnerOf(m)].kind = "forget" /\ op[OwnerOf(m)].name = m
    BY <1>0, <1>01, <1>02, <2>2, <2>3
  <2>8. ASSUME ~failed, NEW q \in Processes, status'[q] = "alive",
               op[q].kind = "register"
        PROVE  op[q].name \notin Named(file')
    <3>1. q # p /\ status[q] = "alive"
      BY <2>2, <2>8
    <3>2. OwnerOf(op[q].name) = q /\ op[q].name \notin Named(file)
      BY <1>03, <2>8, <3>1 DEF RecordInv
    <3> QED
      BY <2>3, <3>1, <3>2
  <2>9. lock' \in Processes \cup {"none"}
    BY <1>00, <2>1
  <2>10. \A q \in Processes : op[q].kind = "forget" => op[q].name \notin regions
    BY DEF RecordInv
  <2> QED
    BY <1>00, <2>1, <2>3, <2>4, <2>5, <2>6, <2>7, <2>8, <2>9, <2>10 DEF RecordInv
<1> QED
  BY <1>1, <1>2, <1>3, <1>4, <1>5, <1>6, <1>7, <1>8, <1>9, <1>10
  DEF Registry!Next, Registry!Step, Registry!Alive

(* No sweep unlinks a region of a living process, whatever identifiers     *)
(* were reused, whatever could not be observed and whatever writes stopped *)
(* halfway (sweep.rs).                                                     *)
THEOREM LivingKeepRegions == StateSpec => []Registry!LiveRegionsKept
<1>1. StateInit => HoldInv
  BY TaskKinds DEF StateInit, Registry!Init, Registry!Idle, HoldInv
<1>2. HoldInv /\ [StateNext]_stateVars => HoldInv'
  <2>1. ASSUME HoldInv, UNCHANGED registryVars PROVE HoldInv'
    BY <2>1 DEF registryVars, HoldInv
  <2> QED
    BY <2>1, HoldInvStep, PartsApart
<1>3. HoldInv => Registry!LiveRegionsKept
  BY DEF HoldInv, Registry!LiveRegionsKept
<1> QED
  BY <1>1, <1>2, <1>3, PTL DEF StateSpec

(* While no write stops halfway: a sweep unlinks no region of a living     *)
(* process, every region left behind has its record, and the registry      *)
(* reads as sound unless a write failed, over every creation, drop, sweep  *)
(* and death (sweep.rs, store.rs).                                         *)
THEOREM RegistrySound ==
    ASSUME Torn = FALSE
    PROVE  StateSpec => []RegistryKept
<1>1. StateInit => HoldInv /\ RecordInv
  <2>1. StateInit => HoldInv
    BY TaskKinds DEF StateInit, Registry!Init, Registry!Idle, HoldInv
  <2>2. ASSUME StateInit PROVE RecordInv
    <3>1. /\ torn = FALSE /\ file = << >> /\ lock = "none" /\ failed = FALSE
          /\ regions = {} /\ \A p \in Processes : op[p].kind = "idle"
      BY <2>2 DEF StateInit, Registry!Init, Registry!Idle, Registry!None
    <3>2. file \in Seq(WholeLine) /\ Named(file) = {} /\ Distinct(file)
      BY <3>1 DEF Named, Distinct
    <3> QED
      BY <3>1, <3>2 DEF RecordInv
  <2> QED
    BY <2>1, <2>2
<1>2. HoldInv /\ RecordInv /\ [StateNext]_stateVars => (HoldInv /\ RecordInv)'
  <2>1. ASSUME HoldInv, RecordInv, UNCHANGED registryVars
        PROVE  (HoldInv /\ RecordInv)'
    <3>1. HoldInv'
      BY <2>1 DEF registryVars, HoldInv
    <3>2. RecordInv'
      BY <2>1 DEF registryVars, RecordInv, Registry!Registering
    <3> QED
      BY <3>1, <3>2
  <2> QED
    BY <2>1, HoldInvStep, RecordInvStep, PartsApart
<1>3. HoldInv /\ RecordInv => RegistryKept
  <2>1. SUFFICES ASSUME HoldInv, RecordInv PROVE RegistryKept
    OBVIOUS
  <2>2. Registry!LiveRegionsKept
    BY <2>1 DEF HoldInv, Registry!LiveRegionsKept
  <2>3. Registry!RegionsRegistered
    BY <2>1, NamedRegistered DEF RecordInv, Registry!RegionsRegistered
  <2>4. Registry!SweepsPossible
    BY <2>1, SoundDistinct DEF RecordInv, Registry!SweepsPossible
  <2> QED
    BY <2>2, <2>3, <2>4 DEF RegistryKept
<1> QED
  BY <1>1, <1>2, <1>3, PTL DEF StateSpec

-----------------------------------------------------------------------------
(* The staging thread and its consumer.                                    *)

AnyItem == [kind : {"batch", "end", "raised", "nothing"}, number : Nat]

(* Batches the consumer has taken, those in its hands included.            *)
Taken(c, g, d) ==
    IF c \in {"acknowledge", "finish"} /\ g.kind = "batch" THEN g.number ELSE d

(* An item that may follow n batches when m were drawn.                    *)
Follows(i, n, m) ==
    i.kind # "nothing" /\ (i.kind = "batch" => i.number = n + 1 /\ m = n + 1)

(* Every batch drawn was taken, and its event is set or about to be seen.  *)
Quiet(q, c, n, m) == q = << >> /\ c # "acknowledge" /\ m = n

(* The item on its way is the next one, and the thread draws another only  *)
(* when it was taken, or the iterator was stopped in between.              *)
FlowInv ==
    LET taken == Taken(cpc, got, delivered)
        quiet == Quiet(queue, cpc, taken, calls)
    IN  /\ calls \in Nat /\ delivered \in Nat
        /\ item \in AnyItem /\ got \in AnyItem
        /\ queue = << >> \/ \E i \in AnyItem : queue = <<i>>
        /\ ppc \in {"none", "loop", "call", "made", "clear", "put", "check", "wait"}
        /\ cpc \in {"user", "get", "acknowledge", "finish", "invalidate", "join"}
        /\ producers = IF ppc = "none" THEN 0 ELSE 1
        /\ thread = "none" =>
              \/ ppc = "none" /\ (quiet \/ stopped)
              \/ stopped /\ ~UseAfterClose
        /\ cpc \in {"acknowledge", "finish"} /\ got.kind = "batch" =>
              got.number = delivered + 1
        /\ cpc \in {"invalidate", "join"} => stopped
        /\ calls <= taken + 1
        /\ queue # << >> => cpc # "acknowledge" /\ Follows(queue[1], taken, calls)
        /\ ppc = "loop" => quiet \/ stopped
        /\ ppc = "call" => quiet
        /\ ppc \in {"made", "clear", "put"} =>
              queue = << >> /\ cpc # "acknowledge" /\ Follows(item, taken, calls)
        /\ ppc = "put" => (acknowledged => stopped)
        /\ ppc \in {"check", "wait"} =>
              /\ queue # << >> => queue[1] = item
              /\ queue = << >> => item.kind \in {"end", "raised"} \/ calls = taken
              /\ acknowledged => stopped \/ (queue = << >> /\ cpc # "acknowledge")

(* The steps of the staging thread.                                        *)
LEMMA ProducerKeepsFlow ==
    ASSUME ~(ClosesLoader /\ UseAfterClose /\ Failing # {}), FlowInv,
           Staged!Producer
    PROVE  FlowInv'
<1> USE DEF FlowInv, Quiet, Taken, Follows
<1>1. CASE Staged!StopSeen
  BY <1>1 DEF Staged!StopSeen, Staged!Ends, Staged!wrapped, Staged!consumer
<1>2. CASE Staged!NotStopped
  BY <1>2 DEF Staged!NotStopped, Staged!wrapped, Staged!consumer
<1>3. CASE Staged!Stage
  <2>0. /\ ppc = "call" /\ ppc' = "made"
        /\ UNCHANGED <<queue, producers, cpc, got, complete, delivered, received>>
    BY <1>3 DEF Staged!Stage, Staged!consumer
  <2>1. CASE /\ calls' = calls + 1 /\ item' = [kind |-> "batch", number |-> calls + 1]
             /\ UNCHANGED <<valid, stopped, acknowledged, thread>>
    <3>1. item' \in AnyItem /\ item'.kind = "batch" /\ item'.number = calls + 1
      BY <2>1 DEF AnyItem
    <3> QED
      BY <2>0, <2>1, <3>1
  <2>2. CASE /\ item' \in {[kind |-> "end", number |-> 0], [kind |-> "raised", number |-> 0]}
             /\ calls' = calls
             /\ UNCHANGED <<stopped, thread>>
    <3>1. item' \in AnyItem /\ item'.kind \in {"end", "raised"}
      BY <2>2 DEF AnyItem
    <3> QED
      BY <2>0, <2>2, <3>1
  <2>3. CASE /\ item' = [kind |-> "raised", number |-> 0] /\ calls' = calls
             /\ ClosesLoader /\ Failing # {}
             /\ stopped' = TRUE /\ thread' = "none"
    <3>1. item' \in AnyItem /\ item'.kind = "raised"
      BY <2>3 DEF AnyItem
    <3> QED
      BY <2>0, <2>3, <3>1
  <2> QED
    BY <1>3, <2>1, <2>2, <2>3
    DEF Staged!Stage, Staged!CloseFromWithin, Staged!Batch, Staged!End, Staged!Raised
<1>4. CASE Staged!ClearEvent
  BY <1>4 DEF Staged!ClearEvent, Staged!wrapped, Staged!consumer
<1>5. CASE Staged!Put
  <2>1. queue = << >> /\ queue' = <<item>>
    BY <1>5 DEF Staged!Put
  <2>2. queue' # << >> /\ queue'[1] = item
    BY <2>1
  <2> QED
    BY <1>5, <2>1, <2>2 DEF Staged!Put, Staged!wrapped, Staged!consumer
<1>6. CASE Staged!Check
  BY <1>6 DEF Staged!Check, Staged!NextRound, Staged!Last, Staged!Ends,
              Staged!wrapped, Staged!consumer
<1>7. CASE Staged!Woken
  BY <1>7 DEF Staged!Woken, Staged!NextRound, Staged!Last, Staged!Ends,
              Staged!wrapped, Staged!consumer
<1> QED
  BY <1>1, <1>2, <1>3, <1>4, <1>5, <1>6, <1>7 DEF Staged!Producer

(* The steps of the consumer.                                              *)
LEMMA ConsumerKeepsFlow ==
    ASSUME FlowInv, Staged!Consumer \/ Staged!User
    PROVE  FlowInv'
<1> USE DEF FlowInv, Quiet, Taken, Follows
<1>1. CASE Staged!NextComplete
  BY <1>1 DEF Staged!NextComplete, Staged!Return, Staged!wrapped, Staged!staging
<1>2. CASE Staged!CallNext
  BY <1>2 DEF Staged!CallNext, Staged!wrapped
<1>3. CASE Staged!Get
  <2>1. PICK i \in AnyItem : queue = <<i>>
    BY <1>3 DEF Staged!Get
  <2>2. got' = i /\ queue' = << >> /\ queue[1] = i /\ cpc = "get"
        /\ cpc' = "acknowledge" /\ queue # << >>
        /\ UNCHANGED <<acknowledged, stopped, thread, complete, delivered, received,
                       calls, valid, ppc, item, producers>>
    BY <1>3, <2>1 DEF Staged!Get, Staged!wrapped, Staged!staging
  <2> QED
    BY <2>1, <2>2 DEF AnyItem
<1>4. CASE Staged!SetEvent
  BY <1>4 DEF Staged!SetEvent, Staged!wrapped, Staged!staging
<1>5. CASE Staged!FinishBatch
  <2>1. got.number \in Nat
    BY DEF AnyItem
  <2> QED
    BY <1>5, <2>1 DEF Staged!FinishBatch, Staged!DeliveredCount, Staged!Return,
                Staged!wrapped, Staged!staging
<1>6. CASE Staged!FinishLast
  BY <1>6 DEF Staged!FinishLast, Staged!Last, Staged!Return, Staged!wrapped, Staged!staging
<1>7. CASE Staged!Close
  BY <1>7 DEF Staged!Close, Staged!wrapped, Staged!staging
<1>8. CASE Staged!InvalidateRest
  BY <1>8 DEF Staged!InvalidateRest, Staged!staging
<1>9. CASE Staged!Joined
  BY <1>9 DEF Staged!Joined, Staged!wrapped, Staged!staging
<1> QED
  BY <1>1, <1>2, <1>3, <1>4, <1>5, <1>6, <1>7, <1>8, <1>9
  DEF Staged!Consumer, Staged!User

(* The cardinality of the instance is that of FiniteSets.                  *)
LEMMA SameCardinality == \A S : Staged!Cardinality(S) = Cardinality(S)
  BY Zenon DEF Staged!Cardinality, Cardinality

(* What the consumer received: its batches in order, as many as it counts. *)
CountInv ==
    /\ received \in Seq(AnyItem)
    /\ delivered = Cardinality(Staged!Returned)
    /\ \A i \in Staged!Returned :
          received[i].number = Cardinality({j \in Staged!Returned : j <= i})

(* One more result in the hands of the consumer.                           *)
LEMMA ReceivedMore ==
    ASSUME CountInv, NEW i \in AnyItem, received' = Append(received, i),
           IF i.kind = "batch"
           THEN i.number = delivered + 1 /\ delivered' = delivered + 1
           ELSE delivered' = delivered
    PROVE  CountInv'
<1> DEFINE R == Staged!Returned
           last == Len(received) + 1
<1>1. /\ received' \in Seq(AnyItem) /\ Len(received) \in Nat
      /\ DOMAIN received' = 1..last /\ DOMAIN received = 1..Len(received)
      /\ received'[last] = i /\ \A k \in DOMAIN received : received'[k] = received[k]
  BY DEF CountInv
<1>2. R \subseteq 1..Len(received) /\ last \notin R
  BY <1>1 DEF Staged!Returned
<1>3. IsFiniteSet(R) /\ Cardinality(R) \in Nat
  <2>1. IsFiniteSet(1..Len(received))
    BY <1>1, FS_Interval
  <2>2. IsFiniteSet(R)
    BY <1>2, <2>1, FS_Subset
  <2> QED
    BY <2>2, FS_CardinalityType
<1>4. R' = IF i.kind = "batch" THEN R \cup {last} ELSE R
  BY <1>1 DEF Staged!Returned
<1>5. \A k \in R : {j \in R' : j <= k} = {j \in R : j <= k} /\ received'[k] = received[k]
  BY <1>1, <1>2, <1>4
<1>6. CASE i.kind = "batch"
  <2>1. R' = R \cup {last} /\ Cardinality(R') = Cardinality(R) + 1
    BY <1>2, <1>3, <1>4, <1>6, FS_AddElement
  <2>2. {j \in R' : j <= last} = R'
    <3>1. last \in Nat /\ last = Len(received) + 1
      BY <1>1
    <3>2. \A j \in 1..Len(received) : j <= last
      BY <1>1, <3>1
    <3>3. \A j \in R : j <= last
      BY <1>2, <3>2
    <3>4. \A j \in R' : j <= last
      <4> HIDE DEF last, R
      <4> QED
        BY <2>1, <3>1, <3>3
    <3> HIDE DEF last
    <3> QED
      BY <3>4
  <2>3. delivered' = Cardinality(R')
    BY <1>6, <2>1 DEF CountInv
  <2>4. received'[last].number = Cardinality({j \in R' : j <= last})
    BY <1>1, <1>6, <2>1, <2>2 DEF CountInv
  <2>5. \A k \in R : received'[k].number = Cardinality({j \in R' : j <= k})
    BY <1>5 DEF CountInv
  <2>6. \A k \in R' : received'[k].number = Cardinality({j \in R' : j <= k})
    BY <2>1, <2>4, <2>5
  <2> QED
    BY <1>1, <2>3, <2>6 DEF CountInv
<1>7. CASE i.kind # "batch"
  <2>1. R' = R
    BY <1>4, <1>7
  <2>2. \A k \in R' : received'[k].number = Cardinality({j \in R' : j <= k})
    BY <1>5, <2>1 DEF CountInv
  <2>3. delivered' = Cardinality(R')
    BY <1>7, <2>1 DEF CountInv
  <2> QED
    BY <1>1, <2>2, <2>3 DEF CountInv
<1> QED
  BY <1>6, <1>7

(* The count of a checkpoint is that of the batches returned.              *)
LEMMA CountInvStep ==
    ASSUME FlowInv, CountInv, Staged!Next
    PROVE  CountInv'
<1>1. CASE UNCHANGED <<delivered, received>>
  BY <1>1 DEF CountInv, Staged!Returned
<1>2. CASE Staged!NextComplete
  <2>1. PICK i \in AnyItem : i = [kind |-> "end", number |-> 0]
    BY DEF AnyItem
  <2>2. i.kind # "batch" /\ received' = Append(received, i) /\ delivered' = delivered
    BY <1>2, <2>1 DEF Staged!NextComplete, Staged!Return, Staged!End
  <2> QED
    BY <2>2, ReceivedMore
<1>3. CASE Staged!FinishBatch
  <2>1. /\ got \in AnyItem /\ got.kind = "batch" /\ got.number = delivered + 1
        /\ received' = Append(received, got) /\ delivered' = got.number
    BY <1>3 DEF Staged!FinishBatch, Staged!Return, Staged!DeliveredCount, FlowInv
  <2> QED
    BY <2>1, ReceivedMore
<1>4. CASE Staged!FinishLast
  <2>1. /\ got \in AnyItem /\ got.kind # "batch"
        /\ received' = Append(received, got) /\ delivered' = delivered
    BY <1>4 DEF Staged!FinishLast, Staged!Return, Staged!Last, FlowInv
  <2> QED
    BY <2>1, ReceivedMore
<1>5. CASE Staged!Producer
  <2>1. UNCHANGED <<delivered, received>>
    BY <1>5
    DEF Staged!Producer, Staged!Stage, Staged!StopSeen, Staged!NotStopped,
        Staged!ClearEvent, Staged!Put, Staged!Check, Staged!Woken, Staged!consumer
  <2> QED
    BY <1>1, <2>1
<1>6. CASE \/ Staged!Get \/ Staged!SetEvent \/ Staged!InvalidateRest
           \/ Staged!Joined \/ Staged!CallNext \/ Staged!Close
  <2>1. UNCHANGED <<delivered, received>>
    BY <1>6
    DEF Staged!Get, Staged!SetEvent, Staged!InvalidateRest, Staged!Joined,
        Staged!CallNext, Staged!Close
  <2> QED
    BY <1>1, <2>1
<1> QED
  BY <1>2, <1>3, <1>4, <1>5, <1>6
  DEF Staged!Next, Staged!Consumer, Staged!User

(* Unless a failing iterator closed its own loader and the user calls next *)
(* all the same: a checkpoint counts the batches the consumer was given,   *)
(* in order, and one thread is at most one batch ahead of it               *)
(* (memory/pinned/iterator.py).                                            *)
THEOREM DeliveredCountsGiven ==
    ASSUME ~(ClosesLoader /\ UseAfterClose /\ Failing # {})
    PROVE  StateSpec => []DeliveredOnly
<1>1. StateInit => FlowInv /\ CountInv
  <2>1. ASSUME StateInit PROVE FlowInv
    <3>1. [kind |-> "nothing", number |-> 0] \in AnyItem
      BY DEF AnyItem
    <3> QED
      BY <2>1, <3>1
      DEF StateInit, Staged!Init, Staged!Nothing, FlowInv, Quiet, Taken
  <2>2. ASSUME StateInit PROVE CountInv
    <3>1. received = << >> /\ delivered = 0
      BY <2>2 DEF StateInit, Staged!Init
    <3>2. Staged!Returned = {}
      BY <3>1 DEF Staged!Returned
    <3> QED
      BY <3>1, <3>2, FS_EmptySet DEF CountInv
  <2> QED
    BY <2>1, <2>2
<1>2. FlowInv /\ CountInv /\ [StateNext]_stateVars => (FlowInv /\ CountInv)'
  <2>1. ASSUME FlowInv, CountInv, UNCHANGED stagedVars
        PROVE  (FlowInv /\ CountInv)'
    <3>1. FlowInv'
      BY <2>1 DEF stagedVars, FlowInv
    <3>2. CountInv'
      BY <2>1 DEF stagedVars, CountInv, Staged!Returned
    <3> QED
      BY <3>1, <3>2
  <2> QED
    BY <2>1, ProducerKeepsFlow, ConsumerKeepsFlow, CountInvStep, PartsApart
    DEF Staged!Next
<1>3. FlowInv /\ CountInv => DeliveredOnly
  <2>1. FlowInv => Staged!OneAhead
    <3>1. SUFFICES ASSUME FlowInv
                   PROVE  /\ producers <= 1
                          /\ calls <= 1 + Taken(cpc, got, delivered)
      BY DEF Staged!OneAhead, Taken
    <3>2. /\ producers = IF ppc = "none" THEN 0 ELSE 1
          /\ calls <= Taken(cpc, got, delivered) + 1
          /\ calls \in Nat /\ Taken(cpc, got, delivered) \in Nat
      BY <3>1 DEF FlowInv, Taken, AnyItem
    <3> QED
      BY <3>2
  <2>2. CountInv => Staged!DeliveredOnly
    BY SameCardinality DEF CountInv, Staged!DeliveredOnly
  <2> QED
    BY <2>1, <2>2 DEF DeliveredOnly
<1> QED
  BY <1>1, <1>2, <1>3, PTL DEF StateSpec

-----------------------------------------------------------------------------
(* Decoded storages.                                                       *)

Result ==
    [position : Decoded!Sample, kind : {"base", "view"}, id : Nat,
     value : Storage \cup {"none"}]

IsBase(r, k) == r.kind = "base" /\ r.id = k

(* What number k names to a decoder with table tb that decoded the first   *)
(* i - 1 of the results rs.                                                *)
Known(rs, tb, i, k, v) ==
    \/ \E j \in 1..(i - 1) :
          /\ IsBase(rs[j], k) /\ rs[j].value = v
          /\ \A m \in (j + 1)..(i - 1) : ~IsBase(rs[m], k)
    \/ /\ \A m \in 1..(i - 1) : ~IsBase(rs[m], k)
       /\ k \in DOMAIN tb /\ tb[k] = v

(* The results a worker sent ascend, come before whatever it has left, and *)
(* decode one after the other to the right storages; so will those of the  *)
(* numbers it gave out.                                                    *)
WorkerInv(src, adr, val, w, rs, tb, ids) ==
    /\ rs \in Seq(Result) /\ ids \in Seq(Int)
    /\ \A i \in DOMAIN rs :
          /\ val[rs[i].position] = "none" /\ Decoded!Route(rs[i].position) = w
          /\ IF rs[i].kind = "base" THEN rs[i].value = src[rs[i].position]
             ELSE Known(rs, tb, i, rs[i].id, src[rs[i].position])
    /\ \A i, j \in DOMAIN rs : i < j => rs[i].position < rs[j].position
    /\ \A q \in Decoded!Sample :
          Decoded!Route(q) = w /\ val[q] = "none" =>
              \/ \E i \in DOMAIN rs : rs[i].position = q
              \/ \A i \in DOMAIN rs : rs[i].position < q
    /\ \A k \in DOMAIN ids : \E s \in Storage :
          adr[s] = ids[k] /\ Known(rs, tb, Len(rs) + 1, k, s)

StorageInv ==
    /\ source \in [Decoded!Sample -> Storage] /\ address \in [Storage -> Int]
    /\ \A s, t \in Storage : address[s] = address[t] => s = t
    /\ DOMAIN values = Decoded!Sample
    /\ \A p \in Decoded!Sample : values[p] \in {"none", source[p]}
    /\ DOMAIN results = Decoded!Worker /\ DOMAIN tensor_bases = Decoded!Worker
    /\ DOMAIN storage_ids = Decoded!Worker
    /\ \A w \in Decoded!Worker :
          WorkerInv(source, address, values, w, results[w], tensor_bases[w],
                    storage_ids[w])

(* What a number names depends on the results decoded, and no others.      *)
LEMMA KnownSame ==
    ASSUME NEW rs, NEW other, NEW tb, NEW i \in Nat, NEW k, NEW v,
           \A m \in 1..(i - 1) : rs[m] = other[m],
           Known(rs, tb, i, k, v)
    PROVE  Known(other, tb, i, k, v)
<1>1. CASE \E j \in 1..(i - 1) :
              /\ IsBase(rs[j], k) /\ rs[j].value = v
              /\ \A m \in (j + 1)..(i - 1) : ~IsBase(rs[m], k)
  <2>1. PICK j \in 1..(i - 1) :
              /\ IsBase(rs[j], k) /\ rs[j].value = v
              /\ \A m \in (j + 1)..(i - 1) : ~IsBase(rs[m], k)
    BY <1>1
  <2>2. \A m \in (j + 1)..(i - 1) : m \in 1..(i - 1)
    OBVIOUS
  <2>3. \A m \in (j + 1)..(i - 1) : ~IsBase(other[m], k)
    BY <2>1, <2>2
  <2> QED
    BY <2>1, <2>3 DEF Known
<1>2. CASE (\A m \in 1..(i - 1) : ~IsBase(rs[m], k)) /\ k \in DOMAIN tb /\ tb[k] = v
  BY <1>2 DEF Known
<1> QED
  BY <1>1, <1>2 DEF Known

(* One result more.                                                        *)
LEMMA KnownMore ==
    ASSUME NEW rs \in Seq(Result), NEW tb, NEW k, NEW v, NEW r \in Result,
           IF IsBase(r, k) THEN v = r.value
           ELSE Known(rs, tb, Len(rs) + 1, k, v)
    PROVE  Known(Append(rs, r), tb, Len(rs) + 2, k, v)
<1> DEFINE n == Len(rs) + 1
           more == Append(rs, r)
<1>1. n \in Nat /\ n > 0 /\ Len(rs) + 2 = n + 1 /\ more[n] = r
      /\ \A m \in 1..(n - 1) : more[m] = rs[m]
  OBVIOUS
<1> HIDE DEF n, more
<1>2. (n + 1) - 1 = n /\ \A m \in 1..n : (m = n \/ m \in 1..(n - 1))
  BY <1>1
<1>3. CASE IsBase(r, k)
  <2>1. /\ n \in 1..((n + 1) - 1) /\ IsBase(more[n], k) /\ more[n].value = v
        /\ \A m \in (n + 1)..((n + 1) - 1) : ~IsBase(more[m], k)
    BY <1>1, <1>2, <1>3
  <2>2. Known(more, tb, n + 1, k, v)
    BY <2>1 DEF Known
  <2> QED
    BY <1>1, <2>2 DEF more
<1>4. CASE ~IsBase(r, k)
  <2>1. Known(more, tb, n, k, v)
    <3>1. Known(rs, tb, n, k, v)
      BY <1>4 DEF n
    <3> QED
      BY <1>1, <3>1, KnownSame
  <2>2. Known(more, tb, n + 1, k, v)
    <3>1. CASE \E j \in 1..(n - 1) :
                  /\ IsBase(more[j], k) /\ more[j].value = v
                  /\ \A m \in (j + 1)..(n - 1) : ~IsBase(more[m], k)
      <4>1. PICK j \in 1..(n - 1) :
                  /\ IsBase(more[j], k) /\ more[j].value = v
                  /\ \A m \in (j + 1)..(n - 1) : ~IsBase(more[m], k)
        BY <3>1
      <4>2. j \in 1..((n + 1) - 1)
        BY <1>1
      <4>3. \A m \in (j + 1)..((n + 1) - 1) : m = n \/ m \in (j + 1)..(n - 1)
        BY <1>1
      <4>4. \A m \in (j + 1)..((n + 1) - 1) : ~IsBase(more[m], k)
        BY <1>1, <1>4, <4>1, <4>3
      <4> QED
        BY <4>1, <4>2, <4>4 DEF Known
    <3>2. CASE /\ \A m \in 1..(n - 1) : ~IsBase(more[m], k)
               /\ k \in DOMAIN tb /\ tb[k] = v
      BY <1>1, <1>2, <1>4, <3>2 DEF Known
    <3> QED
      BY <2>1, <3>1, <3>2 DEF Known
  <2> QED
    BY <1>1, <2>2 DEF more
<1> QED
  BY <1>3, <1>4

(* A result less, at the front, and its storage in the table.              *)
LEMMA KnownLess ==
    ASSUME NEW rs, NEW rest, NEW tb, NEW table, NEW i \in Nat, i > 1, NEW k, NEW v,
           \A m \in 1..(i - 2) : rest[m] = rs[m + 1],
           IF IsBase(rs[1], k) THEN k \in DOMAIN table /\ table[k] = rs[1].value
           ELSE k \in DOMAIN tb => k \in DOMAIN table /\ table[k] = tb[k],
           Known(rs, tb, i, k, v)
    PROVE  Known(rest, table, i - 1, k, v)
<1>0. (i - 1) - 1 = i - 2
  OBVIOUS
<1>1. ASSUME NEW j \in 1..(i - 1), IsBase(rs[j], k), rs[j].value = v,
             \A m \in (j + 1)..(i - 1) : ~IsBase(rs[m], k)
      PROVE  Known(rest, table, i - 1, k, v)
  <2>1. CASE j = 1
    <3>1. \A m \in 1..(i - 2) : m + 1 \in (j + 1)..(i - 1)
      BY <2>1
    <3>2. \A m \in 1..((i - 1) - 1) : ~IsBase(rest[m], k)
      BY <1>0, <1>1, <3>1
    <3> QED
      BY <1>1, <2>1, <3>2 DEF Known
  <2>2. CASE j # 1
    <3>1. PICK l \in 1..((i - 1) - 1) : j = l + 1
      <4>1. j - 1 \in 1..((i - 1) - 1) /\ j = (j - 1) + 1
        BY <2>2
      <4> QED
        BY <4>1
    <3>2. rest[l] = rs[j]
      BY <1>0, <3>1
    <3>3. \A m \in (l + 1)..((i - 1) - 1) :
              m + 1 \in (j + 1)..(i - 1) /\ m \in 1..(i - 2)
      BY <3>1
    <3>4. \A m \in (l + 1)..((i - 1) - 1) : ~IsBase(rest[m], k)
      BY <1>1, <3>3
    <3> QED
      BY <1>1, <3>2, <3>4 DEF Known
  <2> QED
    BY <2>1, <2>2
<1>2. ASSUME \A m \in 1..(i - 1) : ~IsBase(rs[m], k), k \in DOMAIN tb, tb[k] = v
      PROVE  Known(rest, table, i - 1, k, v)
  <2>1. 1 \in 1..(i - 1) /\ \A m \in 1..((i - 1) - 1) :
            m + 1 \in 1..(i - 1) /\ m \in 1..(i - 2)
    OBVIOUS
  <2>2. \A m \in 1..((i - 1) - 1) : ~IsBase(rest[m], k)
    BY <1>2, <2>1
  <2> QED
    BY <1>2, <2>1, <2>2 DEF Known
<1> QED
  BY <1>1, <1>2 DEF Known

(* A worker that evaluates its least position leaves its results in order. *)
LEMMA EvaluateKeepsResults ==
    ASSUME Temporary = {}, Ascending, StorageInv, NEW w \in Decoded!Worker,
           NEW p \in Decoded!Sample, Decoded!Evaluate(w, p)
    PROVE  StorageInv'
<1> DEFINE rs == results[w]
           tb == tensor_bases[w]
           ids == storage_ids[w]
           a == address[source[p]]
<1>0. /\ source \in [Decoded!Sample -> Storage] /\ address \in [Storage -> Int]
      /\ \A s, t \in Storage : address[s] = address[t] => s = t
      /\ WorkerInv(source, address, values, w, rs, tb, ids)
      /\ DOMAIN results = Decoded!Worker /\ DOMAIN storage_ids = Decoded!Worker
  BY DEF StorageInv
<1>1. /\ Decoded!Route(p) = w /\ values[p] = "none"
      /\ \A i \in DOMAIN rs : rs[i].position # p
      /\ \A q \in Decoded!Sample :
            Decoded!Route(q) = w /\ values[q] = "none" =>
                p <= q \/ \E i \in DOMAIN rs : rs[i].position = q
      /\ source[p] \in Storage /\ a \in Int
      /\ UNCHANGED <<source, tensor_bases, values>>
  BY <1>0 DEF Decoded!Evaluate, Decoded!Left, Decoded!Sent, Decoded!None
<1>2. address' = address
  BY DEF Decoded!Evaluate, Decoded!Placed
<1>3. Decoded!Encode(w, p, a)
  BY <1>1, <1>2 DEF Decoded!Evaluate
<1>4. /\ rs \in Seq(Result) /\ ids \in Seq(Int) /\ Len(rs) \in Nat
      /\ DOMAIN rs = 1..Len(rs) /\ DOMAIN ids = 1..Len(ids) /\ Len(ids) \in Nat
      /\ p \in Int /\ \A r \in Result : r.position \in Int
  BY <1>0 DEF WorkerInv, Decoded!Sample, Result
<1>5. ASSUME NEW r \in Result, NEW more, r.position = p,
             results' = [results EXCEPT ![w] = Append(rs, r)],
             DOMAIN storage_ids' = Decoded!Worker, storage_ids'[w] = more,
             \A x \in Decoded!Worker : x # w => storage_ids'[x] = storage_ids[x],
             more \in Seq(Int),
             IF r.kind = "base" THEN r.value = source[p]
             ELSE Known(rs, tb, Len(rs) + 1, r.id, source[p]),
             \A k \in DOMAIN more : \E s \in Storage :
                 /\ address[s] = more[k]
                 /\ IF IsBase(r, k) THEN s = r.value
                    ELSE Known(rs, tb, Len(rs) + 1, k, s)
      PROVE  StorageInv'
  <2> DEFINE rr == Append(rs, r)
  <2>1. /\ rr \in Seq(Result) /\ Len(rr) = Len(rs) + 1
        /\ DOMAIN rr = 1..(Len(rs) + 1) /\ rr[Len(rs) + 1] = r
        /\ \A i \in DOMAIN rs : rr[i] = rs[i] /\ rs[i] \in Result
        /\ \A i \in DOMAIN rr : i \in DOMAIN rs \/ i = Len(rs) + 1
    BY <1>4
  <2> HIDE DEF rr
  <2>2. \A i \in DOMAIN rs : rs[i].position < p
    BY <1>0, <1>1 DEF WorkerInv
  <2>3. ASSUME NEW i \in DOMAIN rr
        PROVE  /\ values[rr[i].position] = "none"
               /\ Decoded!Route(rr[i].position) = w
               /\ IF rr[i].kind = "base" THEN rr[i].value = source[rr[i].position]
                  ELSE Known(rr, tb, i, rr[i].id, source[rr[i].position])
    <3>1. CASE i \in DOMAIN rs
      <4>1. /\ values[rs[i].position] = "none" /\ Decoded!Route(rs[i].position) = w
            /\ IF rs[i].kind = "base" THEN rs[i].value = source[rs[i].position]
               ELSE Known(rs, tb, i, rs[i].id, source[rs[i].position])
        BY <1>0, <3>1 DEF WorkerInv
      <4>2. i \in Nat /\ \A m \in 1..(i - 1) : rs[m] = rr[m]
        BY <1>4, <2>1, <3>1
      <4>3. \A k, v : Known(rs, tb, i, k, v) => Known(rr, tb, i, k, v)
        BY <4>2, KnownSame
      <4> QED
        BY <2>1, <3>1, <4>1, <4>3
    <3>2. CASE i = Len(rs) + 1
      <4>1. i \in Nat /\ \A m \in 1..(i - 1) : rs[m] = rr[m]
        BY <1>4, <2>1, <3>2
      <4>2. \A k, v : Known(rs, tb, i, k, v) => Known(rr, tb, i, k, v)
        BY <4>1, KnownSame
      <4> QED
        BY <1>1, <1>5, <2>1, <3>2, <4>2
    <3> QED
      BY <2>1, <3>1, <3>2
  <2>4. \A i, j \in DOMAIN rr : i < j => rr[i].position < rr[j].position
    <3>1. \A i, j \in DOMAIN rs : i < j => rs[i].position < rs[j].position
      BY <1>0 DEF WorkerInv
    <3>2. \A i, j \in DOMAIN rr : i < j => i \in DOMAIN rs
      BY <1>4, <2>1
    <3> QED
      BY <1>5, <2>1, <2>2, <3>1, <3>2
  <2>5. ASSUME NEW q \in Decoded!Sample, Decoded!Route(q) = w, values[q] = "none",
               \A i \in DOMAIN rr : rr[i].position # q
        PROVE  \A i \in DOMAIN rr : rr[i].position < q
    <3>1. \A i \in DOMAIN rs : rs[i].position # q
      BY <1>4, <2>1, <2>5
    <3>2. p # q
      <4>1. Len(rs) + 1 \in DOMAIN rr
        BY <1>4, <2>1
      <4> QED
        BY <1>5, <2>1, <2>5, <4>1
    <3>3. p < q /\ q \in Int
      BY <1>1, <1>4, <2>5, <3>1, <3>2 DEF Decoded!Sample
    <3>4. \A i \in DOMAIN rs : rs[i].position < q
      BY <1>0, <2>5, <3>1 DEF WorkerInv
    <3> QED
      BY <1>5, <2>1, <3>3, <3>4
  <2>6. ASSUME NEW k \in DOMAIN more
        PROVE  \E s \in Storage :
                   address[s] = more[k] /\ Known(rr, tb, Len(rr) + 1, k, s)
    <3>1. PICK s \in Storage :
              /\ address[s] = more[k]
              /\ IF IsBase(r, k) THEN s = r.value
                 ELSE Known(rs, tb, Len(rs) + 1, k, s)
      BY <1>5
    <3>2. Known(Append(rs, r), tb, Len(rs) + 2, k, s)
      BY <1>4, <3>1, KnownMore
    <3>3. Len(rr) + 1 = Len(rs) + 2
      BY <1>4, <2>1
    <3> QED
      BY <3>1, <3>2, <3>3 DEF rr
  <2>7. WorkerInv(source, address, values, w, rr, tb, more)
    BY <1>5, <2>1, <2>3, <2>4, <2>5, <2>6 DEF WorkerInv
  <2>8. /\ DOMAIN results' = Decoded!Worker /\ DOMAIN storage_ids' = Decoded!Worker
        /\ results'[w] = rr /\ storage_ids'[w] = more
        /\ \A x \in Decoded!Worker : x # w =>
              results'[x] = results[x] /\ storage_ids'[x] = storage_ids[x]
    BY <1>0, <1>5 DEF rr
  <2>9. \A x \in Decoded!Worker :
            WorkerInv(source, address, values, x, results'[x], tensor_bases[x],
                      storage_ids'[x])
    BY <2>7, <2>8 DEF StorageInv
  <2> QED
    BY <1>1, <1>2, <2>8, <2>9 DEF StorageInv
<1>6. CASE \A i \in DOMAIN ids : ids[i] # a
  <2>1. PICK r \in Result :
            r = [position |-> p, kind |-> "base", id |-> Len(ids) + 1,
                 value |-> source[p]]
    <3>1. Len(ids) + 1 \in Nat /\ source[p] \in Storage \cup {"none"}
      BY <1>1, <1>4
    <3>2. [position |-> p, kind |-> "base", id |-> Len(ids) + 1,
           value |-> source[p]] \in Result
      BY <3>1 DEF Result
    <3> QED
      BY <3>2, Zenon
  <2>2. /\ r.position = p /\ r.kind = "base" /\ r.id = Len(ids) + 1
        /\ r.value = source[p]
    BY <2>1
  <2>3. PICK more \in Seq(Int) : more = Append(ids, a)
    <3>1. Append(ids, a) \in Seq(Int)
      BY <1>1, <1>4
    <3> QED
      BY <3>1, Zenon
  <2>4. /\ results' = [results EXCEPT ![w] = Append(rs, r)]
        /\ storage_ids' = [storage_ids EXCEPT ![w] = more]
    BY <1>3, <1>6, <2>1, <2>3 DEF Decoded!Encode
  <2>6. /\ DOMAIN storage_ids' = Decoded!Worker /\ storage_ids'[w] = more
        /\ \A x \in Decoded!Worker : x # w => storage_ids'[x] = storage_ids[x]
    BY <1>0, <2>4
  <2>5. ASSUME NEW k \in DOMAIN more
        PROVE  \E s \in Storage :
                 /\ address[s] = more[k]
                 /\ IF IsBase(r, k) THEN s = r.value
                    ELSE Known(rs, tb, Len(rs) + 1, k, s)
    <3>1. CASE k = Len(ids) + 1
      <4>1. more[k] = a /\ IsBase(r, k)
        BY <1>4, <2>2, <2>3, <3>1 DEF IsBase
      <4> QED
        BY <1>1, <2>2, <4>1
    <3>2. CASE k # Len(ids) + 1
      <4>1. k \in DOMAIN ids /\ more[k] = ids[k] /\ ~IsBase(r, k)
        BY <1>1, <1>4, <2>2, <2>3, <3>2 DEF IsBase
      <4>2. \E s \in Storage : address[s] = ids[k] /\ Known(rs, tb, Len(rs) + 1, k, s)
        BY <1>0, <4>1 DEF WorkerInv
      <4> QED
        BY <4>1, <4>2
    <3> QED
      BY <3>1, <3>2
  <2> HIDE DEF rs, tb, ids, a
  <2> QED
    BY <1>5, <2>2, <2>4, <2>5, <2>6
<1>7. CASE \E i \in DOMAIN ids : ids[i] = a
  <2>0. PICK n \in DOMAIN ids : ids[n] = a /\ n = Decoded!Number(w, a)
    BY <1>7 DEF Decoded!Number
  <2>1. PICK r \in Result :
            r = [position |-> p, kind |-> "view", id |-> n, value |-> "none"]
    <3>1. n \in Nat
      BY <1>4
    <3>2. [position |-> p, kind |-> "view", id |-> n, value |-> "none"] \in Result
      BY <3>1 DEF Result
    <3> QED
      BY <3>2, Zenon
  <2>2. r.position = p /\ r.kind = "view" /\ r.id = n
    BY <2>1
  <2>4. /\ results' = [results EXCEPT ![w] = Append(rs, r)]
        /\ UNCHANGED storage_ids
    <3>1. results' = [results EXCEPT ![w] = Append(@, r)] /\ UNCHANGED storage_ids
      BY <1>3, <1>7, <2>0, <2>1 DEF Decoded!Encode, Decoded!None
    <3> QED
      BY <3>1
  <2>8. /\ DOMAIN storage_ids' = Decoded!Worker /\ storage_ids'[w] = ids
        /\ \A x \in Decoded!Worker : x # w => storage_ids'[x] = storage_ids[x]
    BY <1>0, <2>4
  <2>5. ASSUME NEW k \in DOMAIN ids
        PROVE  \E s \in Storage :
                   address[s] = ids[k] /\ Known(rs, tb, Len(rs) + 1, k, s)
    BY <1>0 DEF WorkerInv
  <2>6. Known(rs, tb, Len(rs) + 1, n, source[p])
    <3>1. PICK s \in Storage : address[s] = a /\ Known(rs, tb, Len(rs) + 1, n, s)
      BY <2>0, <2>5
    <3> QED
      BY <1>0, <1>1, <3>1
  <2>7. \A k : ~IsBase(r, k)
    BY <2>2 DEF IsBase
  <2>9. \A k \in DOMAIN ids : \E s \in Storage :
            /\ address[s] = ids[k]
            /\ IF IsBase(r, k) THEN s = r.value
               ELSE Known(rs, tb, Len(rs) + 1, k, s)
    BY <2>5, <2>7
  <2>10. IF r.kind = "base" THEN r.value = source[p]
         ELSE Known(rs, tb, Len(rs) + 1, r.id, source[p])
    BY <2>2, <2>6
  <2> HIDE DEF rs, tb, ids, a
  <2> QED
    <3>1. r \in Result /\ ids \in Seq(Int) /\ r.position = p
      BY <1>4, <2>2
    <3>2. results' = [results EXCEPT ![w] = Append(rs, r)]
      BY <2>4
    <3> QED
      BY ONLY <1>5, <2>8, <2>9, <2>10, <3>1, <3>2
<1> QED
  BY <1>6, <1>7

(* What a worker's results say of the values decoded so far.               *)
LEMMA ValuesElsewhere ==
    ASSUME NEW src, NEW adr, NEW val, NEW other, NEW w, NEW rs, NEW tb, NEW ids,
           WorkerInv(src, adr, val, w, rs, tb, ids),
           \A q : Decoded!Route(q) = w => other[q] = val[q]
    PROVE  WorkerInv(src, adr, other, w, rs, tb, ids)
  BY DEF WorkerInv

(* Results decoded in the order of their positions: the owner finds every  *)
(* storage, and the right one.                                             *)
LEMMA DeliverKeepsResults ==
    ASSUME InOrder, StorageInv, NEW w \in Decoded!Worker,
           NEW i \in 1..Len(results[w]), Decoded!Deliver(w, i)
    PROVE  StorageInv'
<1> DEFINE rs == results[w]
           tb == tensor_bases[w]
           ids == storage_ids[w]
           first == rs[1]
           at == first.position
<1>0. /\ source \in [Decoded!Sample -> Storage]
      /\ WorkerInv(source, address, values, w, rs, tb, ids)
      /\ DOMAIN results = Decoded!Worker /\ DOMAIN tensor_bases = Decoded!Worker
      /\ DOMAIN values = Decoded!Sample
      /\ \A p \in Decoded!Sample : values[p] \in {"none", source[p]}
  BY DEF StorageInv
<1>1. /\ rs \in Seq(Result) /\ Len(rs) \in Nat /\ DOMAIN rs = 1..Len(rs)
      /\ 1 \in DOMAIN rs /\ i \in DOMAIN rs
      /\ \A j \in DOMAIN rs : rs[j] \in Result
  BY <1>0 DEF WorkerInv
<1>2. \A r \in Result : r.position \in Decoded!Sample /\ r.position \in Int
  BY DEF Result, Decoded!Sample
<1>3. \A j, k \in DOMAIN rs : j < k => rs[j].position < rs[k].position
  BY <1>0 DEF WorkerInv
<1>4. i = 1
  <2>1. rs[i].position <= at
    <3>1. at \in Decoded!Sample /\ values[at] = "none"
      BY <1>0, <1>1, <1>2 DEF WorkerInv
    <3> QED
      BY <3>1 DEF Decoded!Deliver, Decoded!None
  <2>2. rs[i].position \in Int /\ at \in Int
    BY <1>1, <1>2
  <2>3. i \in Nat /\ (i > 1 => at < rs[i].position)
    BY <1>1, <1>3
  <2> QED
    BY <1>1, <2>1, <2>2, <2>3
<1>5. /\ at \in Decoded!Sample /\ values[at] = "none" /\ Decoded!Route(at) = w
      /\ IF first.kind = "base" THEN first.value = source[at]
         ELSE Known(rs, tb, 1, first.id, source[at])
  BY <1>0, <1>1, <1>2 DEF WorkerInv
<1>6. UNCHANGED <<source, address, storage_ids, restarts>>
  BY DEF Decoded!Deliver
<1>7. PICK rest \in Seq(Result) :
          /\ results' = [results EXCEPT ![w] = rest]
          /\ Len(rest) = Len(rs) - 1
          /\ \A j \in DOMAIN rest : rest[j] = rs[j + 1]
  <2>1. SubSeq(rs, 1, 0) = << >> /\ SubSeq(rs, 2, Len(rs)) \in Seq(Result)
    BY <1>1
  <2>2. /\ Len(SubSeq(rs, 2, Len(rs))) = Len(rs) - 1
        /\ \A j \in 1..(Len(rs) - 1) : SubSeq(rs, 2, Len(rs))[j] = rs[j + 1]
    BY <1>1
  <2>3. SubSeq(rs, 1, 0) \o SubSeq(rs, 2, Len(rs)) = SubSeq(rs, 2, Len(rs))
    BY <2>1
  <2>4. results' = [results EXCEPT ![w] = SubSeq(rs, 2, Len(rs))]
    <3>1. results' = [results EXCEPT ![w] =
                         SubSeq(rs, 1, i - 1) \o SubSeq(rs, i + 1, Len(rs))]
      BY DEF Decoded!Deliver
    <3>2. i - 1 = 0 /\ i + 1 = 2
      BY <1>4
    <3> QED
      BY <2>3, <3>1, <3>2
  <2>5. PICK rest \in Seq(Result) : rest = SubSeq(rs, 2, Len(rs))
    BY <2>1, Zenon
  <2>6. DOMAIN rest = 1..(Len(rs) - 1)
    BY <1>1, <2>2, <2>5
  <2> QED
    BY <2>2, <2>4, <2>5, <2>6
<1>8. PICK table :
          /\ DOMAIN tensor_bases' = Decoded!Worker /\ tensor_bases'[w] = table
          /\ \A x \in Decoded!Worker : x # w => tensor_bases'[x] = tensor_bases[x]
          /\ \A k : IF IsBase(first, k)
                    THEN k \in DOMAIN table /\ table[k] = first.value
                    ELSE k \in DOMAIN tb => k \in DOMAIN table /\ table[k] = tb[k]
          /\ values' = [values EXCEPT ![at] = source[at]]
  <2>1. Decoded!Decode(w, 1)
    BY <1>4 DEF Decoded!Deliver
  <2>2. CASE first.kind = "base"
    <3>1. /\ tensor_bases' = [tensor_bases EXCEPT ![w] =
                  [n \in DOMAIN tb \cup {first.id} |->
                      IF n = first.id THEN first.value ELSE tb[n]]]
          /\ values' = [values EXCEPT ![at] = first.value]
      BY <2>1, <2>2 DEF Decoded!Decode
    <3>2. PICK table :
              table = [n \in DOMAIN tb \cup {first.id} |->
                          IF n = first.id THEN first.value ELSE tb[n]]
      OBVIOUS
    <3>3. \A k : IF IsBase(first, k)
                 THEN k \in DOMAIN table /\ table[k] = first.value
                 ELSE k \in DOMAIN tb => k \in DOMAIN table /\ table[k] = tb[k]
      BY <2>2, <3>2 DEF IsBase
    <3>4. tensor_bases' = [tensor_bases EXCEPT ![w] = table]
      BY <3>1, <3>2
    <3>5. /\ DOMAIN tensor_bases' = Decoded!Worker /\ tensor_bases'[w] = table
          /\ \A x \in Decoded!Worker : x # w => tensor_bases'[x] = tensor_bases[x]
      BY <1>0, <3>4
    <3>6. values' = [values EXCEPT ![at] = source[at]]
      BY <1>5, <2>2, <3>1
    <3> QED
      BY <3>3, <3>5, <3>6
  <2>3. CASE first.kind # "base"
    <3>1. Known(rs, tb, 1, first.id, source[at])
      BY <1>5, <2>3
    <3>2. first.id \in DOMAIN tb /\ tb[first.id] = source[at]
      BY <3>1 DEF Known
    <3>3. UNCHANGED tensor_bases /\ values' = [values EXCEPT ![at] = source[at]]
      BY <2>1, <2>3, <3>2 DEF Decoded!Decode
    <3>4. \A k : ~IsBase(first, k)
      BY <2>3 DEF IsBase
    <3>5. /\ DOMAIN tensor_bases' = Decoded!Worker /\ tensor_bases'[w] = tb
          /\ \A x \in Decoded!Worker : tensor_bases'[x] = tensor_bases[x]
          /\ \A k : IF IsBase(first, k)
                    THEN k \in DOMAIN tb /\ tb[k] = first.value
                    ELSE k \in DOMAIN tb => k \in DOMAIN tb /\ tb[k] = tb[k]
      BY <1>0, <3>3, <3>4
    <3> QED
      BY <3>3, <3>5
  <2> QED
    BY <2>2, <2>3
<1>9. /\ DOMAIN values' = Decoded!Sample /\ values'[at] = source[at]
      /\ \A q \in Decoded!Sample : q # at => values'[q] = values[q]
  BY <1>0, <1>5, <1>8
<1>10. /\ DOMAIN results' = Decoded!Worker /\ results'[w] = rest
       /\ \A x \in Decoded!Worker : x # w => results'[x] = results[x]
  BY <1>0, <1>7
<1>11. /\ DOMAIN rest = 1..(Len(rs) - 1)
       /\ \A j \in DOMAIN rest : j + 1 \in DOMAIN rs /\ j + 1 # 1 /\ j \in Nat
       /\ \A j \in DOMAIN rs : j # 1 => j - 1 \in DOMAIN rest /\ rest[j - 1] = rs[j]
  <2>1. DOMAIN rest = 1..(Len(rs) - 1)
    BY <1>1, <1>7
  <2>2. \A j \in DOMAIN rest : j + 1 \in DOMAIN rs /\ j + 1 # 1 /\ j \in Nat
    BY <1>1, <2>1
  <2>3. \A j \in DOMAIN rs : j # 1 => j - 1 \in DOMAIN rest /\ (j - 1) + 1 = j
    BY <1>1, <2>1
  <2> QED
    BY <1>7, <2>1, <2>2, <2>3
<1>12. ASSUME NEW j \in Nat, 0 < j, j <= Len(rs), NEW k, NEW v,
              Known(rs, tb, j + 1, k, v)
       PROVE  Known(rest, table, j, k, v)
  <2>1. \A m \in 1..((j + 1) - 2) : rest[m] = rs[m + 1]
    <3>1. (j + 1) - 2 = j - 1
      BY <1>12
    <3>2. \A m \in 1..(j - 1) : m \in DOMAIN rest
      BY <1>1, <1>11, <1>12
    <3> QED
      BY <1>7, <3>1, <3>2
  <2>2. IF IsBase(first, k) THEN k \in DOMAIN table /\ table[k] = first.value
        ELSE k \in DOMAIN tb => k \in DOMAIN table /\ table[k] = tb[k]
    BY <1>8
  <2>3. j + 1 \in Nat /\ j + 1 > 1 /\ (j + 1) - 1 = j
    BY <1>12
  <2>4. Known(rest, table, (j + 1) - 1, k, v)
    BY <1>12, <2>1, <2>2, <2>3, KnownLess
  <2> QED
    BY <2>3, <2>4
<1>13. WorkerInv(source, address, values', w, rest, table, ids)
  <2>1. ASSUME NEW j \in DOMAIN rest
        PROVE  /\ values'[rest[j].position] = "none"
               /\ Decoded!Route(rest[j].position) = w
               /\ IF rest[j].kind = "base" THEN rest[j].value = source[rest[j].position]
                  ELSE Known(rest, table, j, rest[j].id, source[rest[j].position])
    <3>1. /\ j + 1 \in DOMAIN rs /\ rest[j] = rs[j + 1] /\ j \in Nat /\ j > 0
          /\ j <= Len(rs)
      BY <1>1, <1>7, <1>11
    <3>2. /\ values[rs[j + 1].position] = "none"
          /\ Decoded!Route(rs[j + 1].position) = w
          /\ IF rs[j + 1].kind = "base" THEN rs[j + 1].value = source[rs[j + 1].position]
             ELSE Known(rs, tb, j + 1, rs[j + 1].id, source[rs[j + 1].position])
      BY <1>0, <3>1 DEF WorkerInv
    <3>3. at < rs[j + 1].position
      BY <1>1, <1>3, <3>1
    <3>4. rs[j + 1].position \in Decoded!Sample /\ rs[j + 1].position \in Int
          /\ at \in Int
      BY <1>1, <1>2, <3>1
    <3>5. values'[rs[j + 1].position] = "none"
      BY <1>9, <3>2, <3>3, <3>4
    <3> QED
      BY <1>12, <3>1, <3>2, <3>5
  <2>2. \A j, k \in DOMAIN rest : j < k => rest[j].position < rest[k].position
    <3>1. \A j, k \in DOMAIN rest : j < k => j + 1 < k + 1
      BY <1>11
    <3> QED
      BY <1>3, <1>7, <1>11, <3>1
  <2>3. ASSUME NEW q \in Decoded!Sample, Decoded!Route(q) = w, values'[q] = "none"
        PROVE  \/ \E j \in DOMAIN rest : rest[j].position = q
               \/ \A j \in DOMAIN rest : rest[j].position < q
    <3>1. values[q] = "none"
      BY <1>5, <1>9, <2>3
    <3>2. \/ \E j \in DOMAIN rs : rs[j].position = q
          \/ \A j \in DOMAIN rs : rs[j].position < q
      BY <1>0, <2>3, <3>1 DEF WorkerInv
    <3>3. q # at
      <4>1. source[at] # "none"
        BY <1>0, <1>5, StateAssumption
        DEF StateAssumption, Decoded!StorageAssumption, Decoded!None
      <4> QED
        BY <1>9, <2>3, <4>1
    <3>4. CASE \E j \in DOMAIN rs : rs[j].position = q
      BY <1>11, <3>3, <3>4
    <3>5. CASE \A j \in DOMAIN rs : rs[j].position < q
      BY <1>7, <1>11, <3>5
    <3> QED
      BY <3>2, <3>4, <3>5
  <2>4. \A k \in DOMAIN ids : \E s \in Storage :
            address[s] = ids[k] /\ Known(rest, table, Len(rest) + 1, k, s)
    <3>1. SUFFICES ASSUME NEW k \in DOMAIN ids
                   PROVE  \E s \in Storage :
                      address[s] = ids[k] /\ Known(rest, table, Len(rest) + 1, k, s)
      OBVIOUS
    <3>2. PICK s \in Storage : address[s] = ids[k] /\ Known(rs, tb, Len(rs) + 1, k, s)
      BY <1>0 DEF WorkerInv
    <3>3. Len(rs) \in Nat /\ 0 < Len(rs) /\ Len(rs) <= Len(rs)
          /\ Len(rest) + 1 = Len(rs)
      BY <1>1, <1>7
    <3>4. Known(rest, table, Len(rs), k, s)
      BY <1>12, <3>2, <3>3
    <3> QED
      BY <3>2, <3>3, <3>4
  <2>5. ids \in Seq(Int)
    BY <1>0 DEF WorkerInv
  <2> QED
    BY <1>7, <2>1, <2>2, <2>3, <2>4, <2>5 DEF WorkerInv
<1>14. ASSUME NEW x \in Decoded!Worker
       PROVE  WorkerInv(source, address, values', x, results'[x], tensor_bases'[x],
                        storage_ids[x])
  <2>1. CASE x = w
    BY <1>8, <1>10, <1>13, <2>1
  <2>2. CASE x # w
    <3>1. WorkerInv(source, address, values, x, results[x], tensor_bases[x],
                    storage_ids[x])
      BY DEF StorageInv
    <3>2. \A q : Decoded!Route(q) = x => values'[q] = values[q]
      BY <1>5, <1>8, <2>2
    <3>3. results'[x] = results[x] /\ tensor_bases'[x] = tensor_bases[x]
      BY <1>8, <1>10, <2>2
    <3> QED
      BY <3>1, <3>2, <3>3, ValuesElsewhere
  <2> QED
    BY <2>1, <2>2
<1>15. \A q \in Decoded!Sample : values'[q] \in {"none", source[q]}
  BY <1>0, <1>9
<1> QED
  BY <1>6, <1>8, <1>9, <1>10, <1>14, <1>15 DEF StorageInv

(* A replacement works with an empty table on what was not received.       *)
LEMMA RestartKeepsResults ==
    ASSUME StorageInv, NEW w \in Decoded!Worker, Decoded!Restart(w)
    PROVE  StorageInv'
<1> DEFINE rs == results[w]
           tb == tensor_bases[w]
           ids == storage_ids[w]
<1>0. /\ WorkerInv(source, address, values, w, rs, tb, ids)
      /\ DOMAIN results = Decoded!Worker /\ DOMAIN storage_ids = Decoded!Worker
  BY DEF StorageInv
<1>1. /\ rs \in Seq(Result) /\ Len(rs) \in Nat /\ DOMAIN rs = 1..Len(rs)
      /\ \A i \in DOMAIN rs : rs[i] \in Result
      /\ \A r \in Result : r.position \in Int
  <2>1. rs \in Seq(Result)
    BY <1>0 DEF WorkerInv
  <2>2. Len(rs) \in Nat /\ DOMAIN rs = 1..Len(rs) /\ \A i \in DOMAIN rs : rs[i] \in Result
    BY <2>1
  <2>3. \A r \in Result : r.position \in Int
    BY DEF Result, Decoded!Sample
  <2> QED
    BY <2>1, <2>2, <2>3
<1>2. UNCHANGED <<source, address, tensor_bases, values>>
  BY DEF Decoded!Restart
<1>3. PICK n \in 0..Len(rs) : results' = [results EXCEPT ![w] = SubSeq(rs, 1, n)]
  BY DEF Decoded!Restart
<1>4. PICK kept \in Seq(Result) :
          /\ kept = SubSeq(rs, 1, n)
          /\ DOMAIN kept = 1..n /\ \A i \in 1..n : kept[i] = rs[i]
  <2>1. SubSeq(rs, 1, n) \in Seq(Result)
    BY <1>1
  <2>2. /\ DOMAIN SubSeq(rs, 1, n) = 1..n
        /\ \A i \in 1..n : SubSeq(rs, 1, n)[i] = rs[i]
    BY <1>1
  <2> QED
    BY <2>1, <2>2, Zenon
<1>5. /\ DOMAIN results' = Decoded!Worker /\ results'[w] = kept
      /\ \A x \in Decoded!Worker : x # w => results'[x] = results[x]
  BY <1>0, <1>3, <1>4
<1>6. /\ DOMAIN storage_ids' = Decoded!Worker /\ storage_ids'[w] = << >>
      /\ \A x \in Decoded!Worker : x # w => storage_ids'[x] = storage_ids[x]
  BY <1>0 DEF Decoded!Restart, Decoded!Renew
<1>7. n \in Nat /\ \A i \in 1..n : i \in DOMAIN rs /\ i \in Nat
  BY <1>1
<1>8. WorkerInv(source, address, values, w, kept, tb, << >>)
  <2>1. ASSUME NEW i \in DOMAIN kept
        PROVE  /\ values[kept[i].position] = "none"
               /\ Decoded!Route(kept[i].position) = w
               /\ IF kept[i].kind = "base" THEN kept[i].value = source[kept[i].position]
                  ELSE Known(kept, tb, i, kept[i].id, source[kept[i].position])
    <3>1. /\ values[rs[i].position] = "none" /\ Decoded!Route(rs[i].position) = w
          /\ IF rs[i].kind = "base" THEN rs[i].value = source[rs[i].position]
             ELSE Known(rs, tb, i, rs[i].id, source[rs[i].position])
      BY <1>0, <1>4, <1>7 DEF WorkerInv
    <3>2. i \in Nat /\ kept[i] = rs[i] /\ \A m \in 1..(i - 1) : rs[m] = kept[m]
      BY <1>4, <1>7
    <3>3. \A k, v : Known(rs, tb, i, k, v) => Known(kept, tb, i, k, v)
      BY <3>2, KnownSame
    <3> QED
      BY <3>1, <3>2, <3>3
  <2>2. \A i, j \in DOMAIN kept : i < j => kept[i].position < kept[j].position
    <3>1. \A i, j \in DOMAIN rs : i < j => rs[i].position < rs[j].position
      BY <1>0 DEF WorkerInv
    <3>2. \A i \in DOMAIN kept : i \in DOMAIN rs /\ kept[i] = rs[i]
      BY <1>4, <1>7
    <3> QED
      BY ONLY <3>1, <3>2
  <2>3. ASSUME NEW q \in Decoded!Sample, Decoded!Route(q) = w, values[q] = "none"
        PROVE  \/ \E i \in DOMAIN kept : kept[i].position = q
               \/ \A i \in DOMAIN kept : kept[i].position < q
    <3>1. CASE \E i \in DOMAIN rs : rs[i].position = q
      <4>1. PICK i \in DOMAIN rs : rs[i].position = q
        BY <3>1
      <4>2. CASE i <= n
        BY <1>1, <1>4, <4>1, <4>2
      <4>3. CASE ~(i <= n)
        <5>1. \A j \in 1..n : j \in DOMAIN rs /\ j < i
          BY <1>1, <1>7, <4>3
        <5> QED
          BY <1>0, <1>4, <4>1, <5>1 DEF WorkerInv
      <4> QED
        BY <4>2, <4>3
    <3>2. CASE \A i \in DOMAIN rs : rs[i].position < q
      BY <1>4, <1>7, <3>2
    <3> QED
      BY <1>0, <2>3, <3>1, <3>2 DEF WorkerInv
  <2>4. << >> \in Seq(Int) /\ DOMAIN << >> = {}
    OBVIOUS
  <2> QED
    BY <1>4, <2>1, <2>2, <2>3, <2>4 DEF WorkerInv
<1>9. \A x \in Decoded!Worker :
          WorkerInv(source, address, values, x, results'[x], tensor_bases[x],
                    storage_ids'[x])
  BY <1>5, <1>6, <1>8 DEF StorageInv
<1> QED
  BY <1>2, <1>5, <1>6, <1>9 DEF StorageInv

(* Nothing is encoded before the first position.                           *)
LEMMA StoragesStart ==
    ASSUME Temporary = {}, Decoded!Dataset, Decoded!NothingSent
    PROVE  StorageInv
<1>1. address \in [Storage -> Int]
  BY DEF Decoded!Dataset, Decoded!Address
<1>2. \A s, t \in Storage : address[s] = address[t] => s = t
  BY DEF Decoded!Dataset
<1>3. << >> \in Seq(Result) /\ << >> \in Seq(Int) /\ DOMAIN << >> = {}
  OBVIOUS
<1>4. ASSUME NEW w \in Decoded!Worker
      PROVE  WorkerInv(source, address, values, w, << >>, << >>, << >>)
  BY <1>3 DEF WorkerInv
<1> QED
  BY <1>1, <1>2, <1>4 DEF StorageInv, Decoded!Dataset, Decoded!NothingSent,
     Decoded!None

(* process/serialization.py:54: when the dataset keeps its storages,       *)
(* workers run their positions in order and the owner decodes them in      *)
(* order, every decoded value is a view of the storage the worker encoded, *)
(* over replaced workers as well.                                          *)
THEOREM ValuesStayFaithful ==
    ASSUME Temporary = {}, Ascending, InOrder
    PROVE  StateSpec => []ValuesFaithful
<1> DEFINE Inv == part = "decoded" => StorageInv
<1>1. StateInit => Inv
  BY StoragesStart DEF StateInit
<1>2. Inv /\ [StateNext]_stateVars => Inv'
  <2> SUFFICES ASSUME Inv, [StateNext]_stateVars, part' = "decoded"
               PROVE  StorageInv'
    OBVIOUS
  <2>1. StorageInv /\ ((part = "decoded" /\ Decoded!Next) \/ UNCHANGED decodedVars)
    BY PartsApart
  <2>2. CASE UNCHANGED decodedVars
    BY <2>1, <2>2 DEF StorageInv, decodedVars
  <2>3. CASE Decoded!Next
    <3>1. PICK w \in Decoded!Worker :
              \/ \E p \in Decoded!Sample : Decoded!Evaluate(w, p)
              \/ \E i \in 1..Len(results[w]) : Decoded!Deliver(w, i)
              \/ Decoded!Restart(w)
      BY <2>3 DEF Decoded!Next
    <3> QED
      BY <2>1, <3>1, EvaluateKeepsResults, DeliverKeepsResults, RestartKeepsResults
  <2> QED
    BY <2>1, <2>2, <2>3
<1>3. Inv => ValuesFaithful
  <2> SUFFICES ASSUME StorageInv
               PROVE  Decoded!ValuesFaithful /\ Decoded!StoragesKnown
    BY DEF ValuesFaithful
  <2>1. \A p \in Decoded!Sample :
            source[p] # "unknown" /\ values[p] \in {"none", source[p]}
    BY StateAssumption
    DEF StorageInv, StateAssumption, Decoded!StorageAssumption, Decoded!Unknown
  <2> QED
    BY <2>1 DEF Decoded!ValuesFaithful, Decoded!StoragesKnown, Decoded!None,
       Decoded!Unknown
<1> QED
  BY <1>1, <1>2, <1>3, PTL DEF StateSpec
=============================================================================
