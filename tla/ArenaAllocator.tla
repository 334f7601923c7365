---------------------------- MODULE ArenaAllocator ----------------------------
(***************************************************************************)
(* engine/src/arena/allocator: slots of shared memory in size-classed      *)
(* slabs.  Every operation runs under one mutex, so it is one action.  The *)
(* callers are part of the model: who still owns a reservation or a view,  *)
(* and who still keeps a reference that has been given up and may use it   *)
(* again.  A refused call (ArenaError) changes nothing.                    *)
(***************************************************************************)
EXTENDS Integers, Sequences, FiniteSets

CONSTANTS
    Worker,             \* writer identities
    Size,               \* payload sizes callers ask for
    Initial,            \* the slab plan: a sequence of classes
    StrictError,        \* GrowthPolicy::StrictError (TRUE) or Safe
    MaxRegions,         \* region sequence numbers left to this loader
    MaxSlots,           \* slots of the largest slab class
    MaxReferences,      \* bound on views per delivery
    MaxGeneration       \* bound on reuses of a slot

Class == [capacity : Nat, slots : 1..MaxSlots, overflow : BOOLEAN]

(* validate_specs: increasing capacities, the last class the overflow one. *)
ASSUME PlanAssumption ==
    /\ Size \subseteq Nat \ {0}
    /\ Initial \in Seq(Class) /\ Initial # << >>
    /\ MaxRegions \in Nat /\ Len(Initial) <= MaxRegions
    /\ MaxSlots \in Nat \ {0}
    /\ MaxReferences \in Nat /\ MaxGeneration \in Nat
    /\ \A i \in 1..Len(Initial) : Initial[i].overflow <=> i = Len(Initial)
    /\ StrictError \in BOOLEAN

VARIABLES
    regions,    \* the slabs, in the order they were added
    meta,       \* SlotMeta of every slot a region could hold
    poisoned,   \* stats.poisoned_slots
    handles,    \* reservations a caller holds and has not ended
    stale,      \* references some caller kept after giving them up
    views       \* live DeliveryViews

code == <<regions, meta, poisoned>>
vars == <<regions, meta, poisoned, handles, stale, views>>

Slot == (1..MaxRegions) \X (1..MaxSlots)
Reference == [slot : Slot, generation : Nat]

Free == [state |-> "free"]
Writing(w) == [state |-> "writing", worker |-> w]
Ready == [state |-> "ready"]
Delivered(n) == [state |-> "delivered", remaining |-> n]
Poisoned == [state |-> "poisoned"]

SlotState == {Free, Ready, Poisoned} \cup {Writing(w) : w \in Worker}
                 \cup {Delivered(n) : n \in 1..MaxReferences}

Init ==
    /\ regions = Initial
    /\ meta = [s \in Slot |-> [generation |-> 0, state |-> Free]]
    /\ poisoned = 0
    /\ handles = {} /\ stale = {} /\ views = {}

Exists(s) == s[1] <= Len(regions) /\ s[2] <= regions[s[1]].slots
ClassOf(s) == regions[s[1]]
RefOf(s) == [slot |-> s, generation |-> meta[s].generation]

(* Seeded defect: only the coordinates of a reference are checked.         *)
LocatedByIndex(r) == TRUE

(* locate_slot: the reference names this use of its slot.                  *)
Located(r) == meta[r.slot].generation = r.generation

SetState(s, state) == meta' = [meta EXCEPT ![s].state = state]

(* A freed slot invalidates every reference to its earlier use.            *)
Recycle(s) ==
    meta' = [meta EXCEPT ![s] = [generation |-> meta[s].generation + 1,
                                 state |-> Free]]

(* The caller of an operation on r as writer w: the holder, who gives the  *)
(* reservation up, or somebody with an old reference.                      *)
CalledBy(r, w) ==
    \/ /\ [ref |-> r, worker |-> w] \in handles
       /\ handles' = handles \ {[ref |-> r, worker |-> w]}
       /\ stale' = stale \cup {r}
    \/ /\ r \in stale
       /\ UNCHANGED <<handles, stale>>

-----------------------------------------------------------------------------
(* reserve *)

IsOverflow(size) ==
    \A i \in 1..Len(Initial) : ~Initial[i].overflow =>
                                   size > Initial[i].capacity

Fits(class, size) ==
    class.overflow = IsOverflow(size) /\ class.capacity >= size

FreeSlots(size) ==
    {s \in Slot : Exists(s) /\ Fits(ClassOf(s), size) /\ meta[s].state = Free}

(* Smallest capacity first, then the oldest slab, then the lowest slot.    *)
Before(s, t) ==
    \/ ClassOf(s).capacity < ClassOf(t).capacity
    \/ /\ ClassOf(s).capacity = ClassOf(t).capacity
       /\ s[1] < t[1] \/ (s[1] = t[1] /\ s[2] <= t[2])

Hand(s, w) ==
    /\ meta[s].generation < MaxGeneration
    /\ SetState(s, Writing(w))
    /\ handles' = handles \cup {[ref |-> RefOf(s), worker |-> w]}
    /\ UNCHANGED <<poisoned, stale, views>>

ReserveFree(size, w) ==
    /\ \E s \in FreeSlots(size) :
            (\A t \in FreeSlots(size) : Before(s, t)) /\ Hand(s, w)
    /\ UNCHANGED regions

PowerOfTwo(size) ==
    CHOOSE p \in {2^i : i \in 0..size} : p >= size /\ p < 2 * size

(* The class a growth slab is made of: the smallest one that fits, or an   *)
(* overflow slab of its own for a payload beyond every class.              *)
GrowthClass(size) ==
    LET fitting == {i \in 1..Len(regions) : Fits(regions[i], size)}
    IN  IF fitting = {}
        THEN [capacity |-> PowerOfTwo(size), slots |-> 1, overflow |-> TRUE]
        ELSE regions[CHOOSE i \in fitting : \A j \in fitting :
                         regions[i].capacity <= regions[j].capacity]

ReserveGrowing(size, w) ==
    /\ FreeSlots(size) = {}
    /\ ~StrictError
    /\ Len(regions) < MaxRegions
    /\ regions' = Append(regions, GrowthClass(size))
    /\ Hand(<<Len(regions) + 1, 1>>, w)

-----------------------------------------------------------------------------
(* The writer's end of a reservation, and what follows it.                 *)

(* commit and publish: the payload is complete.                            *)
Publish(r, w) ==
    /\ Located(r) /\ meta[r.slot].state = Writing(w)
    /\ SetState(r.slot, Ready)
    /\ CalledBy(r, w)
    /\ UNCHANGED <<regions, poisoned, views>>

Cancel(r, w) ==
    /\ Located(r) /\ meta[r.slot].state = Writing(w)
    /\ Recycle(r.slot)
    /\ CalledBy(r, w)
    /\ UNCHANGED <<regions, poisoned, views>>

Deliver(r, n) ==
    /\ Located(r) /\ meta[r.slot].state = Ready
    /\ r \in stale
    /\ SetState(r.slot, Delivered(n))
    /\ views' = views \cup {[ref |-> r, id |-> i] : i \in 1..n}
    /\ UNCHANGED <<regions, poisoned, handles, stale>>

(* Seeded defect: the first view dropped frees the slot.                   *)
ReleaseFirst(v) ==
    /\ Located(v.ref)
    /\ Recycle(v.ref.slot)
    /\ views' = views \ {v}
    /\ UNCHANGED <<regions, poisoned, handles, stale>>

(* Seeded defect: the last view counts the slot down to nothing.           *)
ReleaseCountingDown(v) ==
    /\ \E n \in 1..MaxReferences :
        /\ Located(v.ref) /\ meta[v.ref.slot].state = Delivered(n)
        /\ SetState(v.ref.slot, Delivered(n - 1))
    /\ views' = views \ {v}
    /\ UNCHANGED <<regions, poisoned, handles, stale>>

(* DeliveryView::release: the last view out recycles the slot.             *)
Release(v) ==
    /\ views' = views \ {v}
    /\ \E n \in 1..MaxReferences :
        /\ Located(v.ref) /\ meta[v.ref.slot].state = Delivered(n)
        /\ \/ n = 1 /\ Recycle(v.ref.slot)
           \/ n > 1 /\ SetState(v.ref.slot, Delivered(n - 1))
    /\ UNCHANGED <<regions, poisoned, handles, stale>>

(* The incomplete slots of one writer.                                     *)
OwnedBy(w) == {s \in Slot : meta[s].state = Writing(w)}

(* poison_writer, after the writer is gone: what it held it holds no more. *)
PoisonWriter(w) ==
    /\ meta' = [s \in Slot |->
                   IF s \in OwnedBy(w) THEN [meta[s] EXCEPT !.state = Poisoned]
                                       ELSE meta[s]]
    /\ poisoned' = poisoned + Cardinality(OwnedBy(w))
    /\ handles' = {h \in handles : h.worker # w}
    /\ stale' = stale \cup {h.ref : h \in handles \ handles'}
    /\ UNCHANGED <<regions, views>>

(* Seeded defect: reclamation leaves the telemetry count alone.            *)
ReclaimUncounted(r) ==
    /\ Located(r) /\ meta[r.slot].state = Poisoned
    /\ Recycle(r.slot)
    /\ UNCHANGED <<regions, poisoned, handles, stale, views>>

ReclaimPoisoned(r) ==
    /\ Located(r) /\ meta[r.slot].state = Poisoned
    /\ Recycle(r.slot)
    /\ poisoned' = IF poisoned = 0 THEN 0 ELSE poisoned - 1
    /\ UNCHANGED <<regions, handles, stale, views>>

Known == stale \cup {h.ref : h \in handles}

Next ==
    \/ \E size \in Size, w \in Worker :
            ReserveFree(size, w) \/ ReserveGrowing(size, w)
    \/ \E r \in Known, w \in Worker : Publish(r, w) \/ Cancel(r, w)
    \/ \E r \in Known, n \in 1..MaxReferences : Deliver(r, n)
    \/ \E v \in views : Release(v)
    \/ \E w \in Worker : PoisonWriter(w)
    \/ \E r \in Known : ReclaimPoisoned(r)

Spec == Init /\ [][Next]_vars

-----------------------------------------------------------------------------

(* The allocator's records keep their types (types.rs, SlotState).         *)
TypeOK ==
    /\ regions \in Seq(Class) /\ Len(regions) <= MaxRegions
    /\ meta \in [Slot -> [generation : Nat, state : SlotState]]
    /\ poisoned \in Nat
    /\ handles \subseteq [ref : Reference, worker : Worker]
    /\ stale \subseteq Reference
    /\ views \subseteq [ref : Reference, id : Nat]

(* Nobody but its holder ends a reservation: while a caller holds one, the *)
(* slot is being written, by that worker, in that generation, and nobody   *)
(* else holds the slot, whatever is tried with references of earlier uses  *)
(* (locate_slot, validate_writer).                                         *)
ReservationsHold ==
    /\ \A h \in handles : Located(h.ref)
                              /\ meta[h.ref.slot].state = Writing(h.worker)
    /\ \A h, k \in handles : h.ref.slot = k.ref.slot => h = k

ViewsOf(s) == {v \in views : v.ref.slot = s}

(* "Holding a delivered batch cannot corrupt later data" (README.md): a    *)
(* live view's slot is delivered, in the view's generation, and counts     *)
(* exactly the views still alive; a slot nobody views is not delivered, so *)
(* it does not leak (DeliveryView::release).                               *)
ViewsCounted ==
    \A s \in Slot :
        /\ \A v \in ViewsOf(s) : Located(v.ref)
        /\ IF ViewsOf(s) = {}
           THEN \A n \in 1..MaxReferences : meta[s].state # Delivered(n)
           ELSE meta[s].state = Delivered(Cardinality(ViewsOf(s)))

(* The poisoned count of the telemetry is the number of poisoned slots, so *)
(* it never sticks above or below the truth (poison_writer,                *)
(* reclaim_poisoned).                                                      *)
PoisonCounted ==
    poisoned = Cardinality({s \in Slot : meta[s].state = Poisoned})
==============================================================================
