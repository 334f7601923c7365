----------------------------- MODULE CompatZero -----------------------------
(***************************************************************************)
(* python/hyperloader/compat/zero.py: torch's single-process iterator with *)
(* a state that is the delivered prefix and the random states.  Counters   *)
(* stand for random states: a draw is its value.  The ambient one is also  *)
(* the source of seeds and orders when no generator is given.              *)
(***************************************************************************)
EXTENDS Integers

CONSTANTS
    ZeroBatches,    \* batches of the sampler
    MaxZeroEvents   \* bound on iterators, draws of the program and restores

VARIABLE zero

None == [none |-> TRUE]

NoOrder == -1

ZeroInit(explicit) ==
    zero = [explicit |-> explicit, ambient |-> 0, source |-> 0,
            active |-> None, resume |-> None, saved |-> None,
            value |-> None, due |-> None, spent |-> 0]

ZeroUnused == zero = None

(* The source of the base seed and the order, and a draw from it.          *)
Source(z) == IF z.explicit THEN z.source ELSE z.ambient

DrawSource(z) ==
    IF z.explicit THEN [z EXCEPT !.source = @ + 1]
                  ELSE [z EXCEPT !.ambient = @ + 1]

(* A batch is its order, its index and the ambient state it was made with. *)
Value(order, index, ambient) ==
    [order |-> order, index |-> index, ambient |-> ambient]

(* torch's iterator draws a base seed at once, its order with the first    *)
(* batch, and the dataset draws once for each batch.                       *)
StartTorch(z) == DrawSource(z)

Ordered(z, order) == IF order = NoOrder THEN DrawSource(z) ELSE z

Made(z, order, index) ==
    LET o == IF order = NoOrder THEN Source(z) ELSE order
        y == Ordered(z, order)
    IN  [state |-> [y EXCEPT !.ambient = @ + 1], order |-> o,
         value |-> Value(o, index, y.ambient)]

(* Touched: its order is not the one that follows its base seed.           *)
Active(began, order, delivered, touched) ==
    [began |-> began, order |-> order, delivered |-> delivered,
     touched |-> touched]

Randoms(z) == [ambient |-> z.ambient, source |-> z.source]

Restored(z, randoms) ==
    [z EXCEPT !.ambient = randoms.ambient, !.source = randoms.source]

(* Seeded defect: the random states are left as the replay ended.          *)
ReplayedOnly(z) ==
    LET r == z.resume
        started == StartTorch(Restored(z, r.began))
        order == IF r.delivered = 0 THEN NoOrder ELSE Source(started)
    IN  [started EXCEPT !.ambient = @ + r.delivered + 1,
            !.active = Active(r.began, order, r.delivered, FALSE)]

(* iterate: replay the delivered prefix, then put the random states back.  *)
Replayed(z) ==
    LET r == z.resume
        started == StartTorch(Restored(z, r.began))
        order == IF r.delivered = 0 THEN NoOrder ELSE Source(started)
    IN  [Restored(z, r.current) EXCEPT
            !.active = Active(r.began, order, r.delivered,
                              r.delivered = 0 /\ r.kind # "clean")]

ZeroIterate ==
    /\ zero.spent < MaxZeroEvents
    /\ LET z == IF zero.resume = None
                THEN [StartTorch(zero) EXCEPT
                        !.active = Active(Randoms(zero), NoOrder, 0, FALSE),
                        !.due = None]
                ELSE Replayed(zero)
       IN  zero' = [z EXCEPT !.resume = None, !.value = None, !.spent = @ + 1]

ZeroDeliver ==
    /\ zero.active # None
    /\ zero.active.delivered < ZeroBatches
    /\ LET a == zero.active
           made == Made(zero, a.order, a.delivered)
       IN  zero' = [made.state EXCEPT
                        !.value = made.value,
                        !.due = IF @ = None \/ @.delivered = a.delivered
                                THEN @ ELSE None,
                        !.active.order = made.order,
                        !.active.delivered = @ + 1]

(* The end: no longer active for a state, which is then a pristine one.    *)
ZeroEnds ==
    /\ zero.active # None
    /\ zero.active.delivered = ZeroBatches
    /\ zero' = [zero EXCEPT !.active = None]

(* capture_state; with it, the batch that would come next.                 *)
Captured(z) ==
    LET a == z.active
    IN  IF a # None
        THEN [began |-> a.began, current |-> Randoms(z),
              delivered |-> a.delivered,
              kind |-> IF a.touched THEN "touched" ELSE "clean",
              next |-> IF a.delivered = ZeroBatches THEN None
                       ELSE Made(z, a.order, a.delivered).value]
        ELSE IF z.resume # None THEN z.resume
        ELSE [began |-> Randoms(z), current |-> Randoms(z), delivered |-> 0,
              kind |-> "pristine",
              next |-> Made(StartTorch(z), NoOrder, 0).value]

ZeroCapture == zero' = [zero EXCEPT !.saved = Captured(zero)]

(* restore_state: the random states are back at once, the prefix later.    *)
ZeroRestore ==
    /\ zero.saved # None /\ zero.spent < MaxZeroEvents
    /\ zero' = [Restored(zero, zero.saved.current) EXCEPT
                    !.active = None, !.resume = zero.saved, !.value = None,
                    !.due = zero.saved,
                    !.spent = @ + 1]

(* The program draws from the ambient state; before the first batch of an  *)
(* iterator that takes its order from there, the order is another.         *)
ZeroDraw ==
    /\ zero.spent < MaxZeroEvents
    /\ zero' = [zero EXCEPT
                  !.ambient = @ + 1, !.spent = @ + 1,
                  !.due = IF zero.resume = None THEN None ELSE @,
                  !.active = IF @ # None /\ ~zero.explicit
                                /\ zero.active.order = NoOrder
                             THEN [@ EXCEPT !.touched = TRUE] ELSE @]

ZeroNext ==
    ZeroIterate \/ ZeroDeliver \/ ZeroEnds \/ ZeroCapture \/ ZeroRestore \/ ZeroDraw

(* README.md:3, api.py:337 "exact continuation": the first batch after a   *)
(* restore is the one that would have come after the capture, its order    *)
(* and its random state, unless the program drew from the source between   *)
(* the iterator and its first batch, or nothing had been iterated.         *)
FirstIs(kind) ==
    zero # None /\ zero.value # None /\ zero.due # None /\ zero.due.kind = kind =>
        zero.value = zero.due.next

(* Of a state captured from a live iteration.                              *)
Continues == FirstIs("clean")

(* zero.py:181 "active or pristine": likewise of a state captured before   *)
(* any iteration.                                                          *)
PristineContinues == FirstIs("pristine")
===============================================================================
