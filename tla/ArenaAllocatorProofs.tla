------------------------- MODULE ArenaAllocatorProofs -------------------------
(***************************************************************************)
(* Machine-checked proofs about the slot arena, for every slab plan, every *)
(* set of writers and payload sizes and every bound.                       *)
(***************************************************************************)
EXTENDS ArenaAllocator, FiniteSetTheorems, TLAPS

(* The part of the types the protocol rests on: a new slab's capacity,     *)
(* which reserve computes, plays no role in it.                            *)
ArenaTypes ==
    /\ \E C : regions \in Seq(C)
    /\ meta \in [Slot -> [generation : Nat, state : SlotState]]
    /\ handles \subseteq [ref : Reference, worker : Worker]
    /\ stale \subseteq Reference
    /\ \A v \in views : v.ref \in Reference

(* A slab that is not there yet has free slots only.                       *)
UnusedFree == \A s \in Slot : s[1] > Len(regions) => meta[s].state = Free

Incomplete(state) == state = Free \/ \E w \in Worker : state = Writing(w)

(* A reference that was given up names an earlier use of its slot, or one  *)
(* whose payload is complete.                                              *)
StaleBehind ==
    \A r \in stale :
        /\ r.generation <= meta[r.slot].generation
        /\ Located(r) => ~Incomplete(meta[r.slot].state)

HandlesWrite ==
    \A h \in handles : Located(h.ref)
                           /\ meta[h.ref.slot].state = Writing(h.worker)

ArenaInv == ArenaTypes /\ UnusedFree /\ StaleBehind /\ HandlesWrite

(* The states of a slot exclude each other.                                *)
LEMMA StatesDiffer ==
    /\ Free # Ready /\ Free # Poisoned /\ Ready # Poisoned
    /\ \A w : Writing(w) \notin {Free, Ready, Poisoned}
    /\ \A n : Delivered(n) \notin {Free, Ready, Poisoned}
    /\ \A w, n : Writing(w) # Delivered(n)
    /\ \A v, w : Writing(v) = Writing(w) => v = w
  BY DEF Free, Ready, Poisoned, Writing, Delivered

LEMMA ArenaInit == Init => ArenaInv
  BY PlanAssumption
  DEF Init, ArenaInv, ArenaTypes, UnusedFree, StaleBehind, HandlesWrite,
      SlotState

(* A holder is the only one: its generation is the slot's, and the slot    *)
(* names its worker.                                                       *)
LEMMA HoldersUnique == ArenaInv => ReservationsHold
<1> SUFFICES ASSUME ArenaInv PROVE ReservationsHold
  OBVIOUS
<1>1. ASSUME NEW h \in handles, NEW k \in handles, h.ref.slot = k.ref.slot
      PROVE  h = k
  <2>1. /\ h \in [ref : Reference, worker : Worker]
        /\ k \in [ref : Reference, worker : Worker]
    BY DEF ArenaInv, ArenaTypes
  <2>2. h.ref.generation = k.ref.generation
    BY <1>1 DEF ArenaInv, HandlesWrite, Located
  <2>3. h.worker = k.worker
    BY <1>1, StatesDiffer DEF ArenaInv, HandlesWrite
  <2>4. h.ref = k.ref
    BY <1>1, <2>1, <2>2 DEF Reference
  <2> QED
    BY <2>1, <2>3, <2>4
<1> QED
  BY <1>1 DEF ReservationsHold, ArenaInv, HandlesWrite

(* What the two ways of writing a slot's record do.                        *)
LEMMA StateWritten ==
  ASSUME ArenaTypes, NEW s \in Slot, NEW state \in SlotState,
         SetState(s, state)
  PROVE  /\ meta' \in [Slot -> [generation : Nat, state : SlotState]]
         /\ \A t \in Slot : meta'[t].generation = meta[t].generation
         /\ \A t \in Slot : t # s => meta'[t] = meta[t]
         /\ meta'[s].state = state
  BY DEF ArenaTypes, SetState

LEMMA SlotRecycled ==
  ASSUME ArenaTypes, NEW s \in Slot, Recycle(s)
  PROVE  /\ meta' \in [Slot -> [generation : Nat, state : SlotState]]
         /\ \A t \in Slot : t # s => meta'[t] = meta[t]
         /\ meta'[s].generation = meta[s].generation + 1
         /\ meta'[s].state = Free
  BY DEF ArenaTypes, Recycle, SlotState

(* Handing out a free slot, whether the slab was there or is added for it. *)
LEMMA HandKeeps ==
  ASSUME ArenaInv, NEW s \in Slot, NEW w \in Worker, Hand(s, w),
         meta[s].state = Free,
         \E C : regions' \in Seq(C),
         \A t \in Slot : t[1] > Len(regions') => t[1] > Len(regions) /\ t # s
  PROVE  ArenaInv'
<1>1. Writing(w) \in SlotState
  BY DEF SlotState
<1>2. /\ meta' \in [Slot -> [generation : Nat, state : SlotState]]
      /\ \A t \in Slot : meta'[t].generation = meta[t].generation
      /\ \A t \in Slot : t # s => meta'[t] = meta[t]
      /\ meta'[s].state = Writing(w)
  BY <1>1, StateWritten DEF ArenaInv, Hand
<1>3. PICK ref \in Reference : /\ ref = RefOf(s) /\ ref.slot = s
                               /\ ref.generation = meta[s].generation
  <2>1. /\ RefOf(s) \in Reference /\ RefOf(s).slot = s
        /\ RefOf(s).generation = meta[s].generation
    BY DEF ArenaInv, ArenaTypes, RefOf, Reference
  <2> QED
    BY <2>1
<1>4. /\ handles' = handles \cup {[ref |-> ref, worker |-> w]}
      /\ stale' = stale /\ views' = views
  BY <1>3 DEF Hand
<1>5. ArenaTypes'
  BY <1>2, <1>3, <1>4 DEF ArenaInv, ArenaTypes
<1>6. UnusedFree'
  BY <1>2 DEF ArenaInv, UnusedFree
<1>7. StaleBehind'
  <2> SUFFICES ASSUME NEW r \in stale
               PROVE  /\ r.generation <= meta'[r.slot].generation
                      /\ Located(r)' => ~Incomplete(meta'[r.slot].state)
    BY <1>4 DEF StaleBehind
  <2>1. r.slot \in Slot
    BY DEF ArenaInv, ArenaTypes, Reference
  <2>2. /\ r.generation <= meta[r.slot].generation
        /\ Located(r) => ~Incomplete(meta[r.slot].state)
    BY DEF ArenaInv, StaleBehind
  <2>3. Located(r)' <=> Located(r)
    BY <1>2, <2>1 DEF Located
  <2>4. r.slot = s => ~Located(r)
    BY <2>2 DEF Incomplete
  <2> QED
    BY <1>2, <2>1, <2>2, <2>3, <2>4
<1>8. HandlesWrite'
  <2>1. ASSUME NEW h \in handles
        PROVE  Located(h.ref)' /\ meta'[h.ref.slot].state = Writing(h.worker)
    <3>1. h.ref.slot \in Slot /\ h.worker \in Worker
      BY DEF ArenaInv, ArenaTypes, Reference
    <3>2. Located(h.ref) /\ meta[h.ref.slot].state = Writing(h.worker)
      BY DEF ArenaInv, HandlesWrite
    <3>3. h.ref.slot # s
      BY <3>2, StatesDiffer
    <3> QED
      BY <1>2, <3>1, <3>2, <3>3 DEF Located
  <2>2. Located(ref)' /\ meta'[ref.slot].state = Writing(w)
    BY <1>2, <1>3 DEF Located
  <2>3. \A h \in handles' : \/ h \in handles
                            \/ h.ref = ref /\ h.worker = w
    BY <1>4
  <2> QED
    BY <2>1, <2>2, <2>3 DEF HandlesWrite, Located
<1> QED
  BY <1>5, <1>6, <1>7, <1>8 DEF ArenaInv

(* An operation of slots nobody reserves, that leaves its slot neither     *)
(* free nor being written under the same generation, or recycles it.       *)
LEMMA SlotMoves ==
  ASSUME ArenaInv, NEW s \in Slot,
         UNCHANGED <<regions, handles, stale>>,
         \A v \in views' : v.ref \in Reference,
         \A w \in Worker : meta[s].state # Writing(w),
         meta[s].state # Free,
         \/ Recycle(s)
         \/ \E state \in SlotState : SetState(s, state) /\ ~Incomplete(state)
  PROVE  ArenaInv'
<1>1. /\ meta' \in [Slot -> [generation : Nat, state : SlotState]]
      /\ \A t \in Slot : t # s => meta'[t] = meta[t]
      /\ \/ /\ meta'[s].generation = meta[s].generation + 1
            /\ meta'[s].state = Free
         \/ /\ meta'[s].generation = meta[s].generation
            /\ ~Incomplete(meta'[s].state)
  BY StateWritten, SlotRecycled DEF ArenaInv
<1>2. ArenaTypes'
  BY <1>1 DEF ArenaInv, ArenaTypes
<1>3. UnusedFree'
  BY <1>1 DEF ArenaInv, UnusedFree
<1>4. StaleBehind'
  <2> SUFFICES ASSUME NEW r \in stale
               PROVE  /\ r.generation <= meta'[r.slot].generation
                      /\ Located(r)' => ~Incomplete(meta'[r.slot].state)
    BY DEF StaleBehind
  <2>1. /\ r.slot \in Slot /\ r.generation \in Nat
        /\ meta[r.slot].generation \in Nat
    BY DEF ArenaInv, ArenaTypes, Reference
  <2>2. /\ r.generation <= meta[r.slot].generation
        /\ Located(r) => ~Incomplete(meta[r.slot].state)
    BY DEF ArenaInv, StaleBehind
  <2>3. CASE r.slot # s
    BY <1>1, <2>1, <2>2, <2>3 DEF Located
  <2>4. CASE r.slot = s
    BY <1>1, <2>1, <2>2, <2>4 DEF Located
  <2> QED
    BY <2>3, <2>4
<1>5. HandlesWrite'
  <2> SUFFICES ASSUME NEW h \in handles
               PROVE  /\ Located(h.ref)'
                      /\ meta'[h.ref.slot].state = Writing(h.worker)
    BY DEF HandlesWrite
  <2>1. h.ref.slot \in Slot /\ h.worker \in Worker
    BY DEF ArenaInv, ArenaTypes, Reference
  <2>2. Located(h.ref) /\ meta[h.ref.slot].state = Writing(h.worker)
    BY DEF ArenaInv, HandlesWrite
  <2> QED
    BY <1>1, <2>1, <2>2 DEF Located
<1> QED
  BY <1>2, <1>3, <1>4, <1>5 DEF ArenaInv

(* Whoever ends a reservation that is being written holds it: a reference  *)
(* given up earlier no longer names an incomplete slot.                    *)
LEMMA OnlyHolderEnds ==
  ASSUME ArenaInv, NEW r \in Reference, NEW w \in Worker,
         Located(r), meta[r.slot].state = Writing(w), CalledBy(r, w)
  PROVE  /\ handles' \subseteq handles
         /\ \A h \in handles' : h.ref.slot # r.slot
         /\ stale' = stale \cup {r}
<1>1. r \notin stale
  BY DEF ArenaInv, StaleBehind, Incomplete
<1>2. /\ [ref |-> r, worker |-> w] \in handles
      /\ handles' = handles \ {[ref |-> r, worker |-> w]}
      /\ stale' = stale \cup {r}
  BY <1>1 DEF CalledBy
<1>3. ASSUME NEW h \in handles, h.ref.slot = r.slot
      PROVE  h = [ref |-> r, worker |-> w]
  BY <1>2, <1>3, HoldersUnique DEF ReservationsHold
<1> QED
  BY <1>2, <1>3

(* Publishing or cancelling a reservation.                                 *)
LEMMA HolderEnds ==
  ASSUME ArenaInv, NEW r \in Reference, NEW w \in Worker,
         Located(r), meta[r.slot].state = Writing(w), CalledBy(r, w),
         UNCHANGED <<regions, views>>,
         SetState(r.slot, Ready) \/ Recycle(r.slot)
  PROVE  ArenaInv'
<1>1. r.slot \in Slot /\ r.generation = meta[r.slot].generation
  BY DEF Reference, Located
<1>2. Ready \in SlotState /\ ~Incomplete(Ready)
  BY StatesDiffer DEF SlotState, Incomplete
<1>3. /\ meta' \in [Slot -> [generation : Nat, state : SlotState]]
      /\ \A t \in Slot : t # r.slot => meta'[t] = meta[t]
      /\ \/ /\ meta'[r.slot].generation = meta[r.slot].generation + 1
            /\ meta'[r.slot].state = Free
         \/ /\ meta'[r.slot].generation = meta[r.slot].generation
            /\ ~Incomplete(meta'[r.slot].state)
  BY <1>1, <1>2, StateWritten, SlotRecycled DEF ArenaInv
<1>4. /\ handles' \subseteq handles
      /\ \A h \in handles' : h.ref.slot # r.slot
      /\ stale' = stale \cup {r}
  BY OnlyHolderEnds
<1>5. ArenaTypes'
  BY <1>3, <1>4 DEF ArenaInv, ArenaTypes
<1>6. UnusedFree'
  <2>1. meta[r.slot].state # Free
    BY StatesDiffer
  <2> QED
    BY <1>1, <1>3, <2>1 DEF ArenaInv, UnusedFree
<1>7. StaleBehind'
  <2> SUFFICES ASSUME NEW q \in stale'
               PROVE  /\ q.generation <= meta'[q.slot].generation
                      /\ Located(q)' => ~Incomplete(meta'[q.slot].state)
    BY DEF StaleBehind
  <2>1. /\ q.slot \in Slot /\ q.generation \in Nat
        /\ meta[q.slot].generation \in Nat
    BY <1>4 DEF ArenaInv, ArenaTypes, Reference
  <2>2. q.generation <= meta[q.slot].generation
    BY <1>1, <1>4, <2>1 DEF ArenaInv, StaleBehind
  <2>3. CASE q.slot # r.slot
    <3>1. q \in stale
      BY <1>4, <2>3
    <3>2. Located(q) => ~Incomplete(meta[q.slot].state)
      BY <3>1 DEF ArenaInv, StaleBehind
    <3> QED
      BY <1>3, <2>1, <2>2, <2>3, <3>2 DEF Located
  <2>4. CASE q.slot = r.slot
    BY <1>3, <2>1, <2>2, <2>4 DEF Located
  <2> QED
    BY <2>3, <2>4
<1>8. HandlesWrite'
  <2> SUFFICES ASSUME NEW h \in handles'
               PROVE  /\ Located(h.ref)'
                      /\ meta'[h.ref.slot].state = Writing(h.worker)
    BY DEF HandlesWrite
  <2>1. h.ref.slot \in Slot
    BY <1>4 DEF ArenaInv, ArenaTypes, Reference
  <2>2. Located(h.ref) /\ meta[h.ref.slot].state = Writing(h.worker)
    BY <1>4 DEF ArenaInv, HandlesWrite
  <2> QED
    BY <1>3, <1>4, <2>1, <2>2 DEF Located
<1> QED
  BY <1>5, <1>6, <1>7, <1>8 DEF ArenaInv

(* A writer that is gone leaves poisoned slots and no reservation.         *)
LEMMA PoisoningKeeps ==
  ASSUME ArenaInv, NEW w \in Worker, PoisonWriter(w)
  PROVE  ArenaInv'
<1>1. /\ handles' = {h \in handles : h.worker # w}
      /\ stale' = stale \cup {h.ref : h \in handles \ handles'}
      /\ regions' = regions /\ views' = views
  BY DEF PoisonWriter
<1>2. Poisoned \in SlotState /\ ~Incomplete(Poisoned)
  BY StatesDiffer DEF SlotState, Incomplete
<1>3. /\ meta' \in [Slot -> [generation : Nat, state : SlotState]]
      /\ \A t \in Slot : meta'[t].generation = meta[t].generation
      /\ \A t \in Slot :
            meta'[t].state = IF meta[t].state = Writing(w) THEN Poisoned
                                                     ELSE meta[t].state
  BY <1>2 DEF PoisonWriter, OwnedBy, ArenaInv, ArenaTypes
<1>4. ArenaTypes'
  BY <1>1, <1>3 DEF ArenaInv, ArenaTypes
<1>5. UnusedFree'
  BY <1>1, <1>3, StatesDiffer DEF ArenaInv, UnusedFree
<1>6. StaleBehind'
  <2> SUFFICES ASSUME NEW q \in stale'
               PROVE  /\ q.generation <= meta'[q.slot].generation
                      /\ Located(q)' => ~Incomplete(meta'[q.slot].state)
    BY DEF StaleBehind
  <2>1. CASE q \in stale
    <3>1. q.slot \in Slot
      BY <2>1 DEF ArenaInv, ArenaTypes, Reference
    <3>2. /\ q.generation <= meta[q.slot].generation
          /\ Located(q) => ~Incomplete(meta[q.slot].state)
      BY <2>1 DEF ArenaInv, StaleBehind
    <3> QED
      BY <1>2, <1>3, <3>1, <3>2 DEF Located
  <2>2. ASSUME NEW h \in handles, h.worker = w, q = h.ref
        PROVE  /\ q.generation <= meta'[q.slot].generation
               /\ Located(q)' => ~Incomplete(meta'[q.slot].state)
    <3>1. q.slot \in Slot /\ q.generation \in Nat
      BY <2>2 DEF ArenaInv, ArenaTypes, Reference
    <3>2. Located(q) /\ meta[q.slot].state = Writing(w)
      BY <2>2 DEF ArenaInv, HandlesWrite
    <3> QED
      BY <1>2, <1>3, <3>1, <3>2 DEF Located
  <2> QED
    BY <1>1, <2>1, <2>2
<1>7. HandlesWrite'
  <2> SUFFICES ASSUME NEW h \in handles, h.worker # w
               PROVE  /\ Located(h.ref)'
                      /\ meta'[h.ref.slot].state = Writing(h.worker)
    BY <1>1 DEF HandlesWrite
  <2>1. h.ref.slot \in Slot
    BY DEF ArenaInv, ArenaTypes, Reference
  <2>2. Located(h.ref) /\ meta[h.ref.slot].state = Writing(h.worker)
    BY DEF ArenaInv, HandlesWrite
  <2>3. Writing(h.worker) # Writing(w)
    BY StatesDiffer
  <2> QED
    BY <1>3, <2>1, <2>2, <2>3 DEF Located
<1> QED
  BY <1>4, <1>5, <1>6, <1>7 DEF ArenaInv

(* Every step of the arena and its callers, or none, keeps the invariant.  *)
LEMMA ArenaStep == ArenaInv /\ [Next]_vars => ArenaInv'
<1> SUFFICES ASSUME ArenaInv, [Next]_vars PROVE ArenaInv'
  OBVIOUS
<1>1. ASSUME NEW r \in Known PROVE r \in Reference /\ r.slot \in Slot
  BY <1>1 DEF ArenaInv, ArenaTypes, Known, Reference
<1>2. ASSUME NEW size \in Size, NEW w \in Worker, ReserveFree(size, w)
      PROVE  ArenaInv'
  <2>1. PICK s \in FreeSlots(size) : Hand(s, w)
    BY <1>2 DEF ReserveFree
  <2>2. /\ s \in Slot /\ meta[s].state = Free
        /\ regions' = regions /\ s[1] <= Len(regions)
    BY <1>2 DEF FreeSlots, Exists, ReserveFree
  <2>3. /\ s[1] \in Int /\ Len(regions) \in Int
        /\ \E C : regions' \in Seq(C)
    BY <2>2, PlanAssumption DEF ArenaInv, ArenaTypes, Slot
  <2>4. \A t \in Slot : t[1] > Len(regions') => t[1] > Len(regions) /\ t # s
    BY <2>2, <2>3
  <2> QED
    BY <2>1, <2>2, <2>3, <2>4, HandKeeps
<1>3. ASSUME NEW size \in Size, NEW w \in Worker, ReserveGrowing(size, w)
      PROVE  ArenaInv'
  <2> DEFINE s == <<Len(regions) + 1, 1>>
  <2>1. PICK C : regions \in Seq(C)
    BY DEF ArenaInv, ArenaTypes
  <2>2. /\ Hand(s, w) /\ Len(regions) < MaxRegions
        /\ regions' = Append(regions, GrowthClass(size))
    BY <1>3 DEF ReserveGrowing
  <2>3. regions \in Seq(C \cup {GrowthClass(size)})
    BY <2>1
  <2>4. /\ regions' \in Seq(C \cup {GrowthClass(size)})
        /\ Len(regions') = Len(regions) + 1 /\ Len(regions) \in Nat
    BY <2>2, <2>3
  <2>5. s \in Slot
    BY <2>2, <2>4, PlanAssumption DEF Slot
  <2>6. meta[s].state = Free
    BY <2>4, <2>5 DEF ArenaInv, UnusedFree
  <2>7. \A t \in Slot : t[1] > Len(regions') => t[1] > Len(regions) /\ t # s
    BY <2>4 DEF Slot
  <2> QED
    BY <2>2, <2>4, <2>5, <2>6, <2>7, HandKeeps
<1>4. ASSUME NEW r \in Known, NEW w \in Worker, Publish(r, w) \/ Cancel(r, w)
      PROVE  ArenaInv'
  BY <1>1, <1>4, HolderEnds DEF Publish, Cancel
<1>5. ASSUME NEW r \in Known, NEW n \in 1..MaxReferences, Deliver(r, n)
      PROVE  ArenaInv'
  <2>1. r \in Reference /\ r.slot \in Slot
    BY <1>1
  <2>2. Delivered(n) \in SlotState /\ ~Incomplete(Delivered(n))
    BY StatesDiffer DEF SlotState, Incomplete
  <2>3. /\ meta[r.slot].state # Free
        /\ \A w \in Worker : meta[r.slot].state # Writing(w)
    BY <1>5, StatesDiffer DEF Deliver
  <2>4. \A v \in views' : v.ref \in Reference
    BY <1>5, <2>1 DEF Deliver, ArenaInv, ArenaTypes
  <2> QED
    BY <1>5, <2>1, <2>2, <2>3, <2>4, SlotMoves DEF Deliver
<1>6. ASSUME NEW v \in views, Release(v)
      PROVE  ArenaInv'
  <2>1. v.ref \in Reference /\ v.ref.slot \in Slot
    BY DEF ArenaInv, ArenaTypes, Reference
  <2>2. PICK n \in 1..MaxReferences :
            /\ meta[v.ref.slot].state = Delivered(n)
            /\ \/ Recycle(v.ref.slot)
               \/ n > 1 /\ SetState(v.ref.slot, Delivered(n - 1))
    BY <1>6 DEF Release
  <2>3. /\ meta[v.ref.slot].state # Free
        /\ \A w \in Worker : meta[v.ref.slot].state # Writing(w)
    BY <2>2, StatesDiffer
  <2>4. n > 1 => n - 1 \in 1..MaxReferences
    BY PlanAssumption
  <2>5. n > 1 => /\ Delivered(n - 1) \in SlotState
                 /\ ~Incomplete(Delivered(n - 1))
    BY <2>4, StatesDiffer DEF SlotState, Incomplete
  <2>6. /\ UNCHANGED <<regions, handles, stale>>
        /\ \A u \in views' : u.ref \in Reference
    BY <1>6 DEF Release, ArenaInv, ArenaTypes
  <2> QED
    BY <2>1, <2>2, <2>3, <2>5, <2>6, SlotMoves
<1>7. ASSUME NEW r \in Known, ReclaimPoisoned(r)
      PROVE  ArenaInv'
  <2>1. /\ meta[r.slot].state # Free
        /\ \A w \in Worker : meta[r.slot].state # Writing(w)
    BY <1>7, StatesDiffer DEF ReclaimPoisoned
  <2>2. \A v \in views' : v.ref \in Reference
    BY <1>7 DEF ReclaimPoisoned, ArenaInv, ArenaTypes
  <2> QED
    BY <1>1, <1>7, <2>1, <2>2, SlotMoves DEF ReclaimPoisoned
<1>8. CASE UNCHANGED vars
  BY <1>8 DEF vars, ArenaInv, ArenaTypes, UnusedFree, StaleBehind,
              HandlesWrite, Located
<1>9. CASE Next
  BY <1>2, <1>3, <1>4, <1>5, <1>6, <1>7, <1>9, PoisoningKeeps DEF Next
<1> QED
  BY <1>8, <1>9

(* For every slab plan, every set of writers and sizes and every bound,    *)
(* only its holder ends a reservation: references kept from earlier uses   *)
(* and other writers' calls never touch it (locate_slot, validate_writer). *)
THEOREM ReservationsAlwaysHold == Spec => []ReservationsHold
<1>1. Spec => []ArenaInv
  BY ArenaInit, ArenaStep, PTL DEF Spec
<1> QED
  BY <1>1, HoldersUnique, PTL

-----------------------------------------------------------------------------
(* The count of the live views.                                            *)

ViewInv == ViewsCounted /\ \A s \in Slot : IsFiniteSet(ViewsOf(s))

(* A slot nobody views is in no delivered state, whatever the count.       *)
Unviewed(s) == \A n \in 1..MaxReferences : meta[s].state # Delivered(n)

LEMMA ViewInit == Init => ViewInv
<1> SUFFICES ASSUME Init PROVE ViewInv
  OBVIOUS
<1>1. \A s \in Slot : ViewsOf(s) = {}
  BY DEF Init, ViewsOf
<1>2. \A s \in Slot : Unviewed(s)
  BY StatesDiffer DEF Init, Unviewed
<1> QED
  BY <1>1, <1>2, FS_EmptySet DEF ViewInv, ViewsCounted, Unviewed

(* Steps that touch no view and only slots that are not delivered.         *)
LEMMA ViewsKept ==
  ASSUME ViewInv, views' = views,
         \A s \in Slot :
            \/ meta'[s] = meta[s]
            \/ /\ \A n : meta[s].state # Delivered(n)
               /\ \A n : meta'[s].state # Delivered(n)
  PROVE  ViewInv'
<1>1. \A s \in Slot : ViewsOf(s)' = ViewsOf(s)
  BY DEF ViewsOf
<1>2. ASSUME NEW s \in Slot, ViewsOf(s) = {}
      PROVE  \A n \in 1..MaxReferences : meta'[s].state # Delivered(n)
  BY <1>2 DEF ViewInv, ViewsCounted
<1>3. ASSUME NEW s \in Slot, ViewsOf(s) # {}
      PROVE  /\ meta'[s] = meta[s]
             /\ meta[s].state = Delivered(Cardinality(ViewsOf(s)))
  BY <1>3 DEF ViewInv, ViewsCounted
<1>4. ASSUME NEW s \in Slot, NEW v \in ViewsOf(s)
      PROVE  Located(v.ref)'
  <2>1. v.ref.slot = s /\ Located(v.ref)
    BY DEF ViewInv, ViewsCounted, ViewsOf
  <2>2. meta'[s] = meta[s]
    BY <1>3
  <2> QED
    BY <2>1, <2>2 DEF Located
<1> QED
  BY <1>1, <1>2, <1>3, <1>4 DEF ViewInv, ViewsCounted

(* A delivery makes as many views as it counts.                            *)
LEMMA DeliveredViews ==
  ASSUME NEW r, NEW n \in Nat
  PROVE  LET V == {[ref |-> r, id |-> i] : i \in 1..n}
         IN  IsFiniteSet(V) /\ Cardinality(V) = n
<1> DEFINE V == {[ref |-> r, id |-> i] : i \in 1..n}
           f == [i \in 1..n |-> [ref |-> r, id |-> i]]
<1>1. f \in Bijection(1..n, V)
  BY DEF Bijection, Injection, Surjection, IsInjective
<1>2. IsFiniteSet(1..n) /\ Cardinality(1..n) = n
  BY FS_Interval
<1>3. ExistsBijection(1..n, V)
  BY <1>1 DEF ExistsBijection
<1> QED
  BY <1>2, <1>3, FS_Bijection

LEMMA DeliverCounts ==
  ASSUME ArenaInv, ViewInv, NEW r \in Reference, NEW n \in 1..MaxReferences,
         Deliver(r, n)
  PROVE  ViewInv'
<1> DEFINE V == {[ref |-> r, id |-> i] : i \in 1..n}
<1>1. r.slot \in Slot /\ Delivered(n) \in SlotState /\ n \in Nat
  BY DEF Reference, SlotState
<1>2. /\ \A t \in Slot : meta'[t].generation = meta[t].generation
      /\ \A t \in Slot : t # r.slot => meta'[t] = meta[t]
      /\ meta'[r.slot].state = Delivered(n)
  BY <1>1, StateWritten DEF Deliver, ArenaInv
<1>3. ViewsOf(r.slot) = {}
  BY <1>1, StatesDiffer DEF Deliver, ViewInv, ViewsCounted
<1>4. views' = views \cup V
  BY DEF Deliver
<1>5. \A v \in V : v.ref = r
  OBVIOUS
<1>6. ViewsOf(r.slot)' = V
  BY <1>3, <1>4, <1>5 DEF ViewsOf
<1>7. \A s \in Slot : s # r.slot => ViewsOf(s)' = ViewsOf(s)
  BY <1>4, <1>5 DEF ViewsOf
<1>8. IsFiniteSet(V) /\ Cardinality(V) = n
  BY <1>1, DeliveredViews
<1>9. V # {}
  BY <1>1, <1>8, FS_EmptySet
<1>10. \A v \in V : Located(v.ref)'
  BY <1>1, <1>2, <1>5 DEF Located, Deliver
<1>11. ASSUME NEW s \in Slot, s # r.slot, NEW v \in ViewsOf(s)
       PROVE  Located(v.ref)'
  BY <1>2, <1>11 DEF ViewInv, ViewsCounted, ViewsOf, Located
<1> QED
  BY <1>2, <1>6, <1>7, <1>8, <1>9, <1>10, <1>11 DEF ViewInv, ViewsCounted

LEMMA ReleaseCounts ==
  ASSUME ArenaInv, ViewInv, NEW v \in views, Release(v)
  PROVE  ViewInv'
<1> DEFINE s == v.ref.slot
<1>1. s \in Slot
  BY DEF ArenaInv, ArenaTypes, Reference
<1>2. v \in ViewsOf(s) /\ IsFiniteSet(ViewsOf(s))
  BY <1>1 DEF ViewInv, ViewsOf
<1>3. meta[s].state = Delivered(Cardinality(ViewsOf(s)))
  BY <1>1, <1>2 DEF ViewInv, ViewsCounted
<1>4. PICK n \in 1..MaxReferences :
        /\ meta[s].state = Delivered(n)
        /\ \/ n = 1 /\ Recycle(s)
           \/ n > 1 /\ SetState(s, Delivered(n - 1))
  BY DEF Release
<1>5. n = Cardinality(ViewsOf(s))
  BY <1>3, <1>4 DEF Delivered
<1>6. views' = views \ {v}
  BY DEF Release
<1>7. ViewsOf(s)' = ViewsOf(s) \ {v}
  BY <1>6 DEF ViewsOf
<1>8. \A t \in Slot : t # s => ViewsOf(t)' = ViewsOf(t)
  BY <1>6 DEF ViewsOf
<1>9. /\ IsFiniteSet(ViewsOf(s)')
      /\ Cardinality(ViewsOf(s)') = n - 1
      /\ ViewsOf(s)' = {} <=> n = 1
  <2>1. PICK were : were = ViewsOf(s)
    OBVIOUS
  <2>2. PICK left : left = ViewsOf(s)'
    OBVIOUS
  <2>3. /\ IsFiniteSet(were) /\ v \in were /\ left = were \ {v}
        /\ n = Cardinality(were)
    BY <1>2, <1>5, <1>7, <2>1, <2>2
  <2>4. IsFiniteSet(left) /\ Cardinality(left) = n - 1
    BY ONLY <2>3, FS_RemoveElement
  <2>5. n \in Int
    OBVIOUS
  <2>6. left = {} <=> n = 1
    BY ONLY <2>4, <2>5, FS_EmptySet
  <2> QED
    BY <2>2, <2>4, <2>6
<1>10. n > 1 => Delivered(n - 1) \in SlotState
  BY PlanAssumption DEF SlotState
<1>11. /\ \A t \in Slot : t # s => meta'[t] = meta[t]
       /\ \/ n = 1 /\ meta'[s].state = Free
          \/ /\ n > 1 /\ meta'[s].state = Delivered(n - 1)
             /\ meta'[s].generation = meta[s].generation
  BY <1>1, <1>4, <1>10, StateWritten, SlotRecycled DEF ArenaInv
<1>12. ASSUME NEW t \in Slot, NEW u \in ViewsOf(t)'
       PROVE  Located(u.ref)'
  <2>1. u.ref.slot = t /\ Located(u.ref) /\ ViewsOf(t)' # {}
    BY <1>7, <1>8 DEF ViewInv, ViewsCounted, ViewsOf
  <2>2. CASE t # s
    BY <1>11, <2>1, <2>2 DEF Located
  <2>3. CASE t = s
    BY <1>9, <1>11, <2>1, <2>3 DEF Located
  <2> QED
    BY <2>2, <2>3
<1>13. CASE n = 1
  BY <1>8, <1>9, <1>11, <1>12, <1>13, StatesDiffer DEF ViewInv, ViewsCounted
<1>14. CASE n > 1
  BY <1>8, <1>9, <1>11, <1>12, <1>14 DEF ViewInv, ViewsCounted
<1> QED
  BY <1>13, <1>14

LEMMA ViewStep == ArenaInv /\ ViewInv /\ [Next]_vars => ViewInv'
<1> SUFFICES ASSUME ArenaInv, ViewInv, [Next]_vars PROVE ViewInv'
  OBVIOUS
<1> DEFINE Undelivered(state) == \A n : state # Delivered(n)
<1>1. ASSUME NEW r \in Known PROVE r \in Reference /\ r.slot \in Slot
  BY <1>1 DEF ArenaInv, ArenaTypes, Known, Reference
<1>2. /\ Undelivered(Free) /\ Undelivered(Ready) /\ Undelivered(Poisoned)
      /\ \A w : Undelivered(Writing(w))
  BY StatesDiffer
<1>3. ASSUME NEW s \in Slot, NEW w \in Worker, Hand(s, w),
             meta[s].state = Free
      PROVE  ViewInv'
  <2>1. Writing(w) \in SlotState
    BY DEF SlotState
  <2>2. /\ \A t \in Slot : t # s => meta'[t] = meta[t]
        /\ meta'[s].state = Writing(w)
    BY <1>3, <2>1, StateWritten DEF Hand, ArenaInv
  <2>3. views' = views
    BY <1>3 DEF Hand
  <2> QED
    BY <1>2, <1>3, <2>2, <2>3, ViewsKept
<1>4. ASSUME NEW size \in Size, NEW w \in Worker, ReserveFree(size, w)
      PROVE  ViewInv'
  BY <1>3, <1>4 DEF ReserveFree, FreeSlots
<1>5. ASSUME NEW size \in Size, NEW w \in Worker, ReserveGrowing(size, w)
      PROVE  ViewInv'
  <2> DEFINE s == <<Len(regions) + 1, 1>>
  <2>1. Hand(s, w) /\ Len(regions) < MaxRegions
    BY <1>5 DEF ReserveGrowing
  <2>2. Len(regions) \in Nat
    BY DEF ArenaInv, ArenaTypes
  <2>3. s \in Slot
    BY <2>1, <2>2, PlanAssumption DEF Slot
  <2>4. meta[s].state = Free
    BY <2>2, <2>3 DEF ArenaInv, UnusedFree
  <2> QED
    BY <1>3, <2>1, <2>3, <2>4
<1>6. ASSUME NEW r \in Known, NEW w \in Worker, Publish(r, w) \/ Cancel(r, w)
      PROVE  ViewInv'
  <2>1. Ready \in SlotState
    BY DEF SlotState
  <2>2. /\ meta[r.slot].state = Writing(w) /\ views' = views
        /\ SetState(r.slot, Ready) \/ Recycle(r.slot)
    BY <1>6 DEF Publish, Cancel
  <2>3. /\ \A t \in Slot : t # r.slot => meta'[t] = meta[t]
        /\ meta'[r.slot].state \in {Ready, Free}
    BY <1>1, <2>1, <2>2, StateWritten, SlotRecycled DEF ArenaInv
  <2> QED
    BY <1>1, <1>2, <2>2, <2>3, ViewsKept
<1>7. ASSUME NEW w \in Worker, PoisonWriter(w)
      PROVE  ViewInv'
  <2>1. views' = views
    BY <1>7 DEF PoisonWriter
  <2>2. \A s \in Slot :
            \/ meta'[s] = meta[s]
            \/ /\ meta[s].state = Writing(w)
               /\ meta'[s].state = Poisoned
    BY <1>7 DEF PoisonWriter, OwnedBy, ArenaInv, ArenaTypes
  <2> QED
    BY <1>2, <2>1, <2>2, ViewsKept
<1>8. ASSUME NEW r \in Known, ReclaimPoisoned(r)
      PROVE  ViewInv'
  <2>1. /\ meta[r.slot].state = Poisoned /\ views' = views
        /\ Recycle(r.slot)
    BY <1>8 DEF ReclaimPoisoned
  <2>2. /\ \A t \in Slot : t # r.slot => meta'[t] = meta[t]
        /\ meta'[r.slot].state = Free
    BY <1>1, <2>1, SlotRecycled DEF ArenaInv
  <2> QED
    BY <1>1, <1>2, <2>1, <2>2, ViewsKept
<1>9. CASE UNCHANGED vars
  BY <1>9, ViewsKept DEF vars
<1>10. CASE Next
  BY <1>1, <1>4, <1>5, <1>6, <1>7, <1>8, <1>10, DeliverCounts, ReleaseCounts
  DEF Next
<1> QED
  BY <1>9, <1>10

(* A live view keeps its slot in its own generation and the slot counts    *)
(* its views exactly, for any number of views, slots and generations: the  *)
(* payload of a batch still held is never recycled, and a batch no longer  *)
(* held never pins its slot (DeliveryView::release).                       *)
THEOREM ViewsAlwaysCounted == Spec => []ViewsCounted
<1>1. Spec => []ArenaInv
  BY ArenaInit, ArenaStep, PTL DEF Spec
<1>2. Spec => []ViewInv
  BY <1>1, ViewInit, ViewStep, PTL DEF Spec
<1>3. ViewInv => ViewsCounted
  BY DEF ViewInv
<1> QED
  BY <1>2, <1>3, PTL

-----------------------------------------------------------------------------
(* The poisoned count of the telemetry.                                    *)

PoisonedSlots == {s \in Slot : meta[s].state = Poisoned}

LEMMA SlotsFinite ==
  IsFiniteSet(Slot) /\ \A T \in SUBSET Slot : IsFiniteSet(T)
<1>1. IsFiniteSet(1..MaxRegions) /\ IsFiniteSet(1..MaxSlots)
  BY PlanAssumption, FS_Interval
<1>2. IsFiniteSet(Slot)
  BY <1>1, FS_Product DEF Slot
<1> QED
  BY <1>2, FS_Subset

LEMMA PoisonInit == Init => PoisonCounted
<1> SUFFICES ASSUME Init PROVE PoisonCounted
  OBVIOUS
<1>1. PoisonedSlots = {}
  BY StatesDiffer DEF Init, PoisonedSlots
<1> QED
  BY <1>1, FS_EmptySet DEF Init, PoisonCounted, PoisonedSlots

(* Steps of a slot neither poisoned before nor after.                      *)
LEMMA PoisonKept ==
  ASSUME ArenaInv, PoisonCounted, poisoned' = poisoned, NEW s \in Slot,
         \A t \in Slot : t # s => meta'[t] = meta[t],
         meta[s].state # Poisoned, meta'[s].state # Poisoned
  PROVE  PoisonCounted'
<1>1. PoisonedSlots' = PoisonedSlots
  BY DEF PoisonedSlots
<1> QED
  BY <1>1 DEF PoisonCounted, PoisonedSlots

LEMMA PoisonStep == ArenaInv /\ PoisonCounted /\ [Next]_vars => PoisonCounted'
<1> SUFFICES ASSUME ArenaInv, PoisonCounted, [Next]_vars PROVE PoisonCounted'
  OBVIOUS
<1>1. ASSUME NEW r \in Known PROVE r \in Reference /\ r.slot \in Slot
  BY <1>1 DEF ArenaInv, ArenaTypes, Known, Reference
<1>2. ASSUME NEW s \in Slot, NEW w \in Worker, Hand(s, w),
             meta[s].state = Free
      PROVE  PoisonCounted'
  <2>1. Writing(w) \in SlotState
    BY DEF SlotState
  <2>2. /\ \A t \in Slot : t # s => meta'[t] = meta[t]
        /\ meta'[s].state = Writing(w)
    BY <1>2, <2>1, StateWritten DEF Hand, ArenaInv
  <2>3. poisoned' = poisoned
    BY <1>2 DEF Hand
  <2> QED
    BY <1>2, <2>2, <2>3, StatesDiffer, PoisonKept
<1>3. ASSUME NEW size \in Size, NEW w \in Worker, ReserveFree(size, w)
      PROVE  PoisonCounted'
  BY <1>2, <1>3 DEF ReserveFree, FreeSlots
<1>4. ASSUME NEW size \in Size, NEW w \in Worker, ReserveGrowing(size, w)
      PROVE  PoisonCounted'
  <2> DEFINE s == <<Len(regions) + 1, 1>>
  <2>1. Hand(s, w) /\ Len(regions) < MaxRegions
    BY <1>4 DEF ReserveGrowing
  <2>2. Len(regions) \in Nat
    BY DEF ArenaInv, ArenaTypes
  <2>3. s \in Slot
    BY <2>1, <2>2, PlanAssumption DEF Slot
  <2>4. meta[s].state = Free
    BY <2>2, <2>3 DEF ArenaInv, UnusedFree
  <2> QED
    BY <1>2, <2>1, <2>3, <2>4
<1>5. ASSUME NEW r \in Known, NEW w \in Worker, Publish(r, w) \/ Cancel(r, w)
      PROVE  PoisonCounted'
  <2>1. Ready \in SlotState
    BY DEF SlotState
  <2>2. /\ meta[r.slot].state = Writing(w) /\ poisoned' = poisoned
        /\ SetState(r.slot, Ready) \/ Recycle(r.slot)
    BY <1>5 DEF Publish, Cancel
  <2>3. /\ \A t \in Slot : t # r.slot => meta'[t] = meta[t]
        /\ meta'[r.slot].state \in {Ready, Free}
    BY <1>1, <2>1, <2>2, StateWritten, SlotRecycled DEF ArenaInv
  <2> QED
    BY <1>1, <2>2, <2>3, StatesDiffer, PoisonKept
<1>6. ASSUME NEW r \in Known, NEW n \in 1..MaxReferences, Deliver(r, n)
      PROVE  PoisonCounted'
  <2>1. Delivered(n) \in SlotState
    BY DEF SlotState
  <2>2. /\ meta[r.slot].state = Ready /\ poisoned' = poisoned
        /\ \A t \in Slot : t # r.slot => meta'[t] = meta[t]
        /\ meta'[r.slot].state = Delivered(n)
    BY <1>1, <1>6, <2>1, StateWritten DEF ArenaInv, Deliver
  <2> QED
    BY <1>1, <2>2, StatesDiffer, PoisonKept
<1>7. ASSUME NEW v \in views, Release(v)
      PROVE  PoisonCounted'
  <2> DEFINE s == v.ref.slot
  <2>1. s \in Slot
    BY DEF ArenaInv, ArenaTypes, Reference
  <2>2. PICK n \in 1..MaxReferences :
            /\ meta[s].state = Delivered(n)
            /\ \/ Recycle(s)
               \/ n > 1 /\ SetState(s, Delivered(n - 1))
    BY <1>7 DEF Release
  <2>3. n > 1 => Delivered(n - 1) \in SlotState
    BY PlanAssumption DEF SlotState
  <2>4. /\ \A t \in Slot : t # s => meta'[t] = meta[t]
        /\ meta'[s].state \in {Free, Delivered(n - 1)}
    BY <2>1, <2>2, <2>3, StateWritten, SlotRecycled DEF ArenaInv
  <2>5. poisoned' = poisoned
    BY <1>7 DEF Release
  <2> QED
    BY <2>1, <2>2, <2>4, <2>5, StatesDiffer, PoisonKept
<1>8. ASSUME NEW w \in Worker, PoisonWriter(w)
      PROVE  PoisonCounted'
  <2>1. PoisonedSlots' = PoisonedSlots \cup OwnedBy(w)
    BY <1>8 DEF PoisonWriter, OwnedBy, PoisonedSlots, ArenaInv, ArenaTypes
  <2>2. PoisonedSlots \cap OwnedBy(w) = {}
    BY StatesDiffer DEF OwnedBy, PoisonedSlots
  <2>3. IsFiniteSet(PoisonedSlots) /\ IsFiniteSet(OwnedBy(w))
    BY SlotsFinite DEF OwnedBy, PoisonedSlots
  <2>4. /\ Cardinality(PoisonedSlots) \in Nat
        /\ Cardinality(OwnedBy(w)) \in Nat
    BY <2>3, FS_CardinalityType
  <2>5. Cardinality(PoisonedSlots')
            = Cardinality(PoisonedSlots) + Cardinality(OwnedBy(w))
    BY <2>1, <2>2, <2>3, <2>4, FS_Union, FS_EmptySet
  <2>6. poisoned' = poisoned + Cardinality(OwnedBy(w))
    BY <1>8 DEF PoisonWriter
  <2> QED
    BY <2>5, <2>6 DEF PoisonCounted, PoisonedSlots
<1>9. ASSUME NEW r \in Known, ReclaimPoisoned(r)
      PROVE  PoisonCounted'
  <2>1. /\ meta[r.slot].state = Poisoned /\ Recycle(r.slot)
        /\ poisoned' = IF poisoned = 0 THEN 0 ELSE poisoned - 1
    BY <1>9 DEF ReclaimPoisoned
  <2>2. PoisonedSlots' = PoisonedSlots \ {r.slot}
    BY <1>1, <2>1, SlotRecycled, StatesDiffer DEF ArenaInv, PoisonedSlots
  <2>3. r.slot \in PoisonedSlots /\ IsFiniteSet(PoisonedSlots)
    BY <1>1, <2>1, SlotsFinite DEF PoisonedSlots
  <2>4. /\ Cardinality(PoisonedSlots) \in Nat
        /\ Cardinality(PoisonedSlots) # 0
        /\ Cardinality(PoisonedSlots') = Cardinality(PoisonedSlots) - 1
    BY <2>2, <2>3, FS_CardinalityType, FS_EmptySet, FS_RemoveElement
  <2> QED
    BY <2>1, <2>4 DEF PoisonCounted, PoisonedSlots
<1>10. CASE UNCHANGED vars
  BY <1>10 DEF vars, PoisonCounted
<1>11. CASE Next
  BY <1>3, <1>4, <1>5, <1>6, <1>7, <1>8, <1>9, <1>11 DEF Next
<1> QED
  BY <1>10, <1>11

(* However writers die and their slots are reclaimed, the count the        *)
(* telemetry shows is the number of poisoned slots, and the saturating     *)
(* subtraction of reclaim_poisoned never saturates.                        *)
THEOREM PoisonAlwaysCounted == Spec => []PoisonCounted
<1>1. Spec => []ArenaInv
  BY ArenaInit, ArenaStep, PTL DEF Spec
<1> QED
  BY <1>1, PoisonInit, PoisonStep, PTL DEF Spec
===============================================================================
