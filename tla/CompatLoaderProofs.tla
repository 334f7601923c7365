------------------------- MODULE CompatLoaderProofs -------------------------
(***************************************************************************)
(* Machine-checked proofs of the compatibility loader: the zero-worker     *)
(* regime first, then the lanes.                                           *)
(***************************************************************************)
EXTENDS CompatLoader, FiniteSetTheorems, FunctionTheorems, WellFoundedInduction, TLAPS

-----------------------------------------------------------------------------
(* No workers.                                                             *)

Draws == [ambient : Nat, source : Nat]
ZeroLive == [began : Draws, order : Int, delivered : Nat, touched : BOOLEAN]
Batch == [order : Int, index : Nat, ambient : Nat]
Point == [began : Draws, current : Draws, delivered : Nat,
          kind : {"clean", "touched", "pristine"}, next : Batch \cup {None}]
MaybeLive == ZeroLive \cup {None}
MaybeBatch == Batch \cup {None}
MaybePoint == Point \cup {None}
ZeroState ==
    [explicit : BOOLEAN, ambient : Nat, source : Nat,
     active : MaybeLive, resume : MaybePoint, saved : MaybePoint,
     value : MaybeBatch, due : MaybePoint, spent : Nat]

(* The source's part of a pair of random states, and the order that        *)
(* follows a base seed drawn from it.                                      *)
SourceOf(explicit, randoms) ==
    IF explicit THEN randoms.source ELSE randoms.ambient

OrderBegun(explicit, began) == SourceOf(explicit, began) + 1

(* What comes after a clean point is the batch of the order its iteration  *)
(* began with, from the random states it holds.                            *)
ExactPoint(explicit, p) ==
    p # None /\ p.kind = "clean" =>
        /\ p.delivered = 0 =>
              SourceOf(explicit, p.current) = OrderBegun(explicit, p.began)
        /\ p.next = IF p.delivered = ZeroBatches THEN None
                    ELSE [order |-> OrderBegun(explicit, p.began),
                          index |-> p.delivered,
                          ambient |-> IF p.delivered = 0 /\ ~explicit
                                      THEN p.current.ambient + 1
                                      ELSE p.current.ambient]

(* The iterator has its order from its first batch on, and unless it was   *)
(* touched it is the one it began with.                                    *)
ExactActive(z) ==
    z.active # None =>
        /\ z.active.order = Zero!NoOrder <=> z.active.delivered = 0
        /\ ~z.active.touched =>
              IF z.active.delivered = 0
              THEN Zero!Source(z) = OrderBegun(z.explicit, z.active.began)
              ELSE z.active.order = OrderBegun(z.explicit, z.active.began)

(* What is due is the loaded point until the iterator starts, stands at it *)
(* until the first batch, and is behind the iterator afterwards.           *)
DueNext(z) ==
    /\ z.resume # None => z.due = z.resume /\ z.active = None /\ z.value = None
    /\ z.due # None /\ z.due.kind = "clean" =>
          /\ z.value # None => z.value = z.due.next
          /\ z.active # None /\ z.value # None => z.active.delivered > z.due.delivered
          /\ z.active # None /\ z.value = None =>
                /\ Zero!Randoms(z) = z.due.current
                /\ z.active.delivered = z.due.delivered
                /\ z.active.order = IF z.due.delivered = 0 THEN Zero!NoOrder
                                    ELSE OrderBegun(z.explicit, z.due.began)

ZeroRestores(z) ==
    /\ z \in ZeroState
    /\ ExactPoint(z.explicit, z.saved)
    /\ ExactPoint(z.explicit, z.resume)
    /\ ExactPoint(z.explicit, z.due)
    /\ ExactActive(z)
    /\ DueNext(z)

ZeroInv == zero = None \/ ZeroRestores(zero)

-----------------------------------------------------------------------------

LEMMA SourceTyped ==
    ASSUME NEW z, z \in ZeroState
    PROVE  /\ Zero!Source(z) \in Nat
           /\ Zero!Randoms(z) \in Draws
           /\ Zero!Source(z) = SourceOf(z.explicit, Zero!Randoms(z))
           /\ Zero!DrawSource(z) \in ZeroState
  BY DEF Zero!Source, Zero!DrawSource, Zero!Randoms, SourceOf, ZeroState, Draws

LEMMA RestoredTyped ==
    ASSUME NEW z, z \in ZeroState, NEW randoms, randoms \in Draws
    PROVE  /\ Zero!Restored(z, randoms) \in ZeroState
           /\ Zero!Randoms(Zero!Restored(z, randoms)) = randoms
           /\ Zero!Restored(z, randoms).explicit = z.explicit
           /\ Zero!Source(Zero!Restored(z, randoms)) = SourceOf(z.explicit, randoms)
  BY DEF Zero!Restored, Zero!Source, Zero!Randoms, SourceOf, ZeroState, Draws

LEMMA BegunTyped ==
    ASSUME NEW explicit, NEW began, began \in Draws
    PROVE  OrderBegun(explicit, began) \in Nat \ {0}
  BY DEF OrderBegun, SourceOf, Draws

(* The batch made next, and what making it leaves.                         *)
LEMMA MadeNext ==
    ASSUME NEW z, z \in ZeroState, NEW order, order \in Int,
           NEW index, index \in Nat
    PROVE  /\ Zero!Made(z, order, index).state \in ZeroState
           /\ Zero!Made(z, order, index).order \in Int
           /\ Zero!Made(z, order, index).order =
                 IF order = Zero!NoOrder THEN Zero!Source(z) ELSE order
           /\ Zero!Made(z, order, index).value =
                 [order |-> IF order = Zero!NoOrder THEN Zero!Source(z) ELSE order,
                  index |-> index,
                  ambient |-> IF order = Zero!NoOrder /\ ~z.explicit
                              THEN z.ambient + 1 ELSE z.ambient]
           /\ Zero!Made(z, order, index).value \in Batch
<1> DEFINE y == Zero!Ordered(z, order)
<1>1. /\ y \in ZeroState
      /\ y.ambient = IF order = Zero!NoOrder /\ ~z.explicit
                     THEN z.ambient + 1 ELSE z.ambient
  BY DEF Zero!Ordered, Zero!DrawSource, ZeroState
<1>2. Zero!Source(z) \in Nat /\ z.ambient \in Nat /\ y.ambient \in Nat
  BY <1>1, SourceTyped DEF ZeroState
<1>3. Zero!Made(z, order, index).state = [y EXCEPT !.ambient = @ + 1]
  BY DEF Zero!Made
<1>4. [y EXCEPT !.ambient = @ + 1] \in ZeroState
  BY <1>1, <1>2 DEF ZeroState
<1>5. Zero!Made(z, order, index).order =
         IF order = Zero!NoOrder THEN Zero!Source(z) ELSE order
  BY DEF Zero!Made
<1>6. Zero!Made(z, order, index).value =
          [order |-> IF order = Zero!NoOrder THEN Zero!Source(z) ELSE order,
           index |-> index, ambient |-> y.ambient]
  BY DEF Zero!Made, Zero!Value
<1>7. (IF order = Zero!NoOrder THEN Zero!Source(z) ELSE order) \in Int
  BY <1>2
<1>8. Zero!Made(z, order, index).value \in Batch
  BY <1>2, <1>6, <1>7 DEF Batch
<1> QED
  BY <1>1, <1>3, <1>4, <1>5, <1>6, <1>7, <1>8

LEMMA MadeKeeps ==
    ASSUME NEW z, z \in ZeroState, NEW order, order \in Int,
           NEW index, index \in Nat,
           NEW y, y = Zero!Made(z, order, index).state
    PROVE  /\ y.explicit = z.explicit /\ y.active = z.active
           /\ y.resume = z.resume /\ y.saved = z.saved /\ y.due = z.due
<1> DEFINE o == Zero!Ordered(z, order)
<1>1. /\ o \in ZeroState
      /\ o.explicit = z.explicit /\ o.active = z.active
      /\ o.resume = z.resume /\ o.saved = z.saved /\ o.due = z.due
  BY DEF Zero!Ordered, Zero!DrawSource, ZeroState
<1>2. y = [o EXCEPT !.ambient = @ + 1]
  BY DEF Zero!Made
<1> HIDE DEF o
<1> QED
  BY <1>1, <1>2 DEF ZeroState

LEMMA NoneIsNo ==
    /\ None \in MaybeLive /\ None \in MaybeBatch /\ None \in MaybePoint
    /\ \A explicit : ExactPoint(explicit, None)
    /\ Zero!None = None
  BY DEF ExactPoint, None, Zero!None, MaybeLive, MaybeBatch, MaybePoint

LEMMA CountsOn ==
    ASSUME NEW z, z \in ZeroState
    PROVE  \E spentNow \in Nat, drawn \in Nat :
              spentNow = z.spent + 1 /\ drawn = z.ambient + 1
  BY DEF ZeroState

LEMMA StartsExact ==
    ASSUME NEW explicit \in BOOLEAN, Zero!ZeroInit(explicit)
    PROVE  ZeroRestores(zero)
  BY NoneIsNo DEF Zero!ZeroInit, ZeroRestores, ZeroState, ExactActive, DueNext

(* A first iterator of a kind: nothing is due, and its order will follow   *)
(* the base seed it drew.                                                  *)
LEMMA BeginsExact ==
    ASSUME ZeroRestores(zero), Zero!ZeroIterate, zero.resume = None
    PROVE  ZeroRestores(zero')
<1> DEFINE z == zero
           y == Zero!DrawSource(z)
           began == Zero!Randoms(z)
           live == [began |-> began, order |-> Zero!NoOrder, delivered |-> 0,
                    touched |-> FALSE]
<1>1. /\ zero' = [[y EXCEPT !.active = live, !.due = None]
                    EXCEPT !.resume = None, !.value = None, !.spent = @ + 1]
  BY NoneIsNo DEF Zero!ZeroIterate, Zero!StartTorch, Zero!Active
<1>2. /\ z \in ZeroState /\ y \in ZeroState /\ began \in Draws
      /\ Zero!Source(z) = SourceOf(z.explicit, began) /\ Zero!Source(z) \in Nat
  BY SourceTyped DEF ZeroRestores
<1>3. /\ y.explicit = z.explicit /\ y.saved = z.saved
      /\ Zero!Source(y) = Zero!Source(z) + 1
  BY <1>2 DEF Zero!DrawSource, Zero!Source, ZeroState
<1>4. live \in ZeroLive
  BY <1>2 DEF ZeroLive, Zero!NoOrder
<1>5. /\ zero' \in ZeroState
      /\ zero'.explicit = z.explicit /\ zero'.saved = z.saved
      /\ zero'.active = live /\ zero'.due = None /\ zero'.resume = None
      /\ zero'.value = None
      /\ zero'.ambient = y.ambient /\ zero'.source = y.source
  <2>1. PICK n \in Nat : n = y.spent + 1
    BY <1>2, CountsOn
  <2>2. live \in MaybeLive
    BY <1>4 DEF MaybeLive
  <2> HIDE DEF y, live
  <2>3. zero' = [y EXCEPT !.active = live, !.due = None, !.resume = None,
                          !.value = None, !.spent = n]
    BY <1>1, <2>1
  <2>4. zero' \in ZeroState
    BY <1>2, <2>2, <2>3, NoneIsNo DEF ZeroState
  <2> QED
    BY <1>2, <1>3, <2>3, <2>4 DEF ZeroState
<1>6. ExactActive(zero')
  <2>1. Zero!Source(zero') = Zero!Source(y)
    BY <1>3, <1>5 DEF Zero!Source
  <2> QED
    BY <1>2, <1>3, <1>5, <2>1 DEF ExactActive, OrderBegun
<1> QED
  BY <1>5, <1>6, NoneIsNo DEF ZeroRestores, DueNext

(* A loaded point: the iterator stands at it, its random states as they    *)
(* were.                                                                   *)
LEMMA ResumesExact ==
    ASSUME ZeroRestores(zero), Zero!ZeroIterate, zero.resume # None
    PROVE  ZeroRestores(zero')
<1> DEFINE z == zero
           r == z.resume
           y == Zero!Restored(z, r.current)
           order == IF r.delivered = 0 THEN Zero!NoOrder
                    ELSE OrderBegun(z.explicit, r.began)
           touched == r.delivered = 0 /\ r.kind # "clean"
           live == [began |-> r.began, order |-> order, delivered |-> r.delivered,
                    touched |-> touched]
<1>1. z \in ZeroState /\ r \in Point
  BY DEF ZeroRestores, ZeroState, MaybeLive, MaybeBatch, MaybePoint
<1>2. r.began \in Draws /\ r.current \in Draws /\ r.delivered \in Nat
  BY <1>1 DEF Point
<1>3. Zero!Source(Zero!StartTorch(Zero!Restored(z, r.began)))
         = OrderBegun(z.explicit, r.began)
  <2> DEFINE b == Zero!Restored(z, r.began)
  <2>1. /\ b \in ZeroState /\ b.explicit = z.explicit
        /\ Zero!Source(b) = SourceOf(z.explicit, r.began)
    BY <1>1, <1>2, RestoredTyped
  <2>2. Zero!Source(Zero!DrawSource(b)) = Zero!Source(b) + 1
    BY <2>1 DEF Zero!DrawSource, Zero!Source, ZeroState
  <2> QED
    BY <2>1, <2>2 DEF Zero!StartTorch, OrderBegun
<1>4. zero' = [[y EXCEPT !.active = live]
                 EXCEPT !.resume = None, !.value = None, !.spent = @ + 1]
  BY <1>3, NoneIsNo DEF Zero!ZeroIterate, Zero!Replayed, Zero!Active
<1>5. /\ y \in ZeroState /\ Zero!Randoms(y) = r.current
      /\ y.explicit = z.explicit /\ Zero!Source(y) = SourceOf(z.explicit, r.current)
      /\ y.saved = z.saved /\ y.due = z.due
  <2>1. /\ y \in ZeroState /\ Zero!Randoms(y) = r.current
        /\ y.explicit = z.explicit /\ Zero!Source(y) = SourceOf(z.explicit, r.current)
    BY <1>1, <1>2, RestoredTyped
  <2>2. y = [z EXCEPT !.ambient = r.current.ambient, !.source = r.current.source]
    BY DEF Zero!Restored
  <2> HIDE DEF y, r
  <2>3. y.saved = z.saved /\ y.due = z.due
    BY <1>1, <2>2 DEF ZeroState
  <2> QED
    BY <2>1, <2>3
<1>6. /\ order \in Int
      /\ order = Zero!NoOrder <=> r.delivered = 0
  BY <1>2, BegunTyped DEF Zero!NoOrder
<1>7. live \in ZeroLive /\ live.touched = touched
  <2>1. PICK b \in BOOLEAN : b = touched
    BY Zenon
  <2>2. live = [began |-> r.began, order |-> order, delivered |-> r.delivered,
                touched |-> b]
    BY <2>1
  <2> HIDE DEF live, order
  <2>3. live.touched = touched
    BY <2>1, <2>2
  <2> QED
    BY <1>2, <1>6, <2>2, <2>3 DEF ZeroLive
<1>8. /\ zero' \in ZeroState
      /\ zero'.explicit = z.explicit /\ zero'.saved = z.saved /\ zero'.due = z.due
      /\ zero'.active = live /\ zero'.resume = None /\ zero'.value = None
      /\ zero'.ambient = y.ambient /\ zero'.source = y.source
  <2>1. PICK n \in Nat : n = y.spent + 1
    BY <1>5, CountsOn
  <2>2. live \in MaybeLive
    BY <1>7 DEF MaybeLive
  <2> HIDE DEF y, live
  <2>3. zero' = [y EXCEPT !.active = live, !.resume = None, !.value = None,
                          !.spent = n]
    BY <1>4, <2>1
  <2>4. zero' \in ZeroState
    BY <1>5, <2>2, <2>3, NoneIsNo DEF ZeroState
  <2> QED
    BY <1>5, <2>3, <2>4 DEF ZeroState
<1>81. Zero!Source(zero') = Zero!Source(y) /\ Zero!Randoms(zero') = Zero!Randoms(y)
  BY <1>5, <1>8 DEF Zero!Source, Zero!Randoms
<1>9. ExactActive(zero')
  <2>1. ExactPoint(z.explicit, r) /\ r # None
    BY DEF ZeroRestores
  <2>2. ASSUME r.delivered = 0, ~touched
        PROVE  Zero!Source(zero') = OrderBegun(z.explicit, r.began)
    BY <1>5, <1>81, <2>1, <2>2 DEF ExactPoint
  <2>3. /\ live.order = order /\ live.delivered = r.delivered
        /\ live.began = r.began
    OBVIOUS
  <2>5. r.delivered # 0 => order = OrderBegun(z.explicit, r.began)
    OBVIOUS
  <2> HIDE DEF touched, live, order
  <2>4. ~live.touched => (live.delivered = 0 =>
                             Zero!Source(zero') = OrderBegun(z.explicit, live.began))
    BY <1>7, <2>2, <2>3
  <2>6. live.order = Zero!NoOrder <=> live.delivered = 0
    BY <1>6, <2>3
  <2> QED
    BY <1>8, <2>3, <2>4, <2>5, <2>6 DEF ExactActive
<1>10. z.due = r
  BY DEF ZeroRestores, DueNext
<1>11. DueNext(zero')
  BY <1>5, <1>8, <1>81, <1>10 DEF DueNext
<1> QED
  BY <1>8, <1>9, <1>11, NoneIsNo DEF ZeroRestores

LEMMA DeliversExact ==
    ASSUME ZeroRestores(zero), Zero!ZeroDeliver
    PROVE  ZeroRestores(zero')
<1> DEFINE z == zero
           a == z.active
           made == Zero!Made(z, a.order, a.delivered)
           y == made.state
           due == IF z.due = None \/ z.due.delivered = a.delivered THEN z.due ELSE None
           live == [a EXCEPT !.order = made.order, !.delivered = @ + 1]
<1>1. /\ z \in ZeroState /\ a \in ZeroLive /\ a # None
      /\ a.delivered # ZeroBatches \/ ~(ZeroBatches \in Nat)
  BY NoneIsNo DEF ZeroRestores, ZeroState, MaybeLive, Zero!ZeroDeliver, ZeroLive
<1>2. a.order \in Int /\ a.delivered \in Nat /\ a.began \in Draws /\ a.touched \in BOOLEAN
  BY <1>1 DEF ZeroLive
<1>3. /\ y \in ZeroState /\ made.order \in Int /\ made.value \in Batch
      /\ made.order = IF a.order = Zero!NoOrder THEN Zero!Source(z) ELSE a.order
      /\ made.value = [order |-> made.order, index |-> a.delivered,
                       ambient |-> IF a.order = Zero!NoOrder /\ ~z.explicit
                                   THEN z.ambient + 1 ELSE z.ambient]
      /\ y.explicit = z.explicit /\ y.active = a /\ y.resume = z.resume
      /\ y.saved = z.saved /\ y.due = z.due
  <2>1. PICK order \in Int, index \in Nat : order = a.order /\ index = a.delivered
    BY <1>2
  <2>2. made = Zero!Made(z, order, index)
    BY <2>1
  <2> HIDE DEF made
  <2>3. /\ y \in ZeroState /\ made.order \in Int /\ made.value \in Batch
        /\ made.order = IF order = Zero!NoOrder THEN Zero!Source(z) ELSE order
        /\ made.value = [order |-> IF order = Zero!NoOrder THEN Zero!Source(z) ELSE order,
                         index |-> index,
                         ambient |-> IF order = Zero!NoOrder /\ ~z.explicit
                                     THEN z.ambient + 1 ELSE z.ambient]
    BY <1>1, <2>2, MadeNext
  <2>4. /\ y.explicit = z.explicit /\ y.active = a /\ y.resume = z.resume
        /\ y.saved = z.saved /\ y.due = z.due
    <3>1. y = Zero!Made(z, order, index).state
      BY <2>2
    <3> HIDE DEF y
    <3> QED
      BY <1>1, <2>1, <3>1, MadeKeeps
  <2> QED
    BY <2>1, <2>3, <2>4
<1>4. /\ zero' \in ZeroState /\ live \in ZeroLive
      /\ zero'.explicit = z.explicit /\ zero'.resume = z.resume /\ zero'.saved = z.saved
      /\ zero'.active = live /\ zero'.value = made.value /\ zero'.due = due
      /\ live.order = made.order /\ live.delivered = a.delivered + 1
      /\ live.touched = a.touched /\ live.began = a.began
  <2>1. zero' = [y EXCEPT !.value = made.value, !.due = due, !.active = live]
    BY <1>1, <1>3, NoneIsNo DEF Zero!ZeroDeliver, ZeroState, ZeroLive
  <2>2. /\ live \in ZeroLive
        /\ live.order = made.order /\ live.delivered = a.delivered + 1
        /\ live.touched = a.touched /\ live.began = a.began
    <3> HIDE DEF made
    <3>1. PICK n \in Nat : n = a.delivered + 1
      BY <1>2
    <3>2. live = [a EXCEPT !.order = made.order, !.delivered = n]
      BY <3>1
    <3>3. live \in ZeroLive
      BY <1>1, <1>3, <3>2 DEF ZeroLive
    <3> QED
      BY <1>1, <3>1, <3>2, <3>3 DEF ZeroLive
  <2>3. due \in MaybePoint /\ live \in MaybeLive /\ made.value \in MaybeBatch
    BY <1>1, <1>3, <2>2, NoneIsNo DEF ZeroState, MaybeLive, MaybeBatch
  <2> HIDE DEF made, due, live
  <2>4. zero' \in ZeroState
    BY <1>3, <2>1, <2>3 DEF ZeroState
  <2> QED
    BY <1>3, <2>1, <2>2, <2>4 DEF ZeroState
<1>5. Zero!Source(z) \in Nat
  BY <1>1, SourceTyped
<1>6. ExactActive(zero')
  <2>1. ExactActive(z)
    BY DEF ZeroRestores
  <2>2. made.order # Zero!NoOrder
    BY <1>3, <1>5 DEF Zero!NoOrder
  <2>3. ASSUME ~a.touched PROVE made.order = OrderBegun(z.explicit, a.began)
    BY <1>1, <1>3, <2>1, <2>3 DEF ExactActive
  <2> QED
    BY <1>2, <1>4, <2>2, <2>3 DEF ExactActive
<1>7. ExactPoint(z.explicit, z.due) /\ DueNext(z)
  BY DEF ZeroRestores
<1>8. z.resume = None
  BY <1>1, <1>7 DEF DueNext
<1>9. ASSUME due # None, due.kind = "clean"
      PROVE  made.value = due.next /\ live.delivered > due.delivered
  <2>1. due = z.due /\ due.delivered = a.delivered /\ due \in Point
    BY <1>1, <1>9 DEF ZeroState, MaybePoint
  <2>2. z.value = None
    BY <1>1, <1>2, <1>7, <1>9, <2>1 DEF DueNext
  <2>3. /\ Zero!Randoms(z) = due.current
        /\ a.order = IF due.delivered = 0 THEN Zero!NoOrder
                     ELSE OrderBegun(z.explicit, due.began)
    BY <1>1, <1>7, <1>9, <2>1, <2>2 DEF DueNext
  <2>4. /\ z.ambient = due.current.ambient
        /\ Zero!Source(z) = SourceOf(z.explicit, due.current)
    BY <1>1, <2>3, SourceTyped DEF Zero!Randoms
  <2>5. /\ OrderBegun(z.explicit, due.began) # Zero!NoOrder
    BY <2>1, BegunTyped DEF Zero!NoOrder, Point
  <2>6. made.order = OrderBegun(z.explicit, due.began)
    BY <1>3, <1>7, <1>9, <2>1, <2>3, <2>4, <2>5 DEF ExactPoint
  <2>7. a.order = Zero!NoOrder <=> a.delivered = 0
    BY <2>1, <2>3, <2>5
  <2>8. due.delivered # ZeroBatches
    BY <1>2, <2>1, NoneIsNo DEF Zero!ZeroDeliver
  <2>9. due.next = [order |-> OrderBegun(z.explicit, due.began), index |-> a.delivered,
                    ambient |-> IF a.order = Zero!NoOrder /\ ~z.explicit
                                THEN z.ambient + 1 ELSE z.ambient]
    BY <1>7, <1>9, <2>1, <2>4, <2>7, <2>8 DEF ExactPoint
  <2> QED
    BY <1>2, <1>3, <1>4, <2>1, <2>6, <2>9
<1>10. made.value # None /\ live # None
  <2> HIDE DEF made, live
  <2> QED
    BY <1>3, <1>4 DEF Batch, ZeroLive, None
<1>11. DueNext(zero')
  BY <1>4, <1>8, <1>9, <1>10 DEF DueNext
<1>12. /\ ExactPoint(z.explicit, z.saved) /\ ExactPoint(z.explicit, z.resume)
       /\ ExactPoint(z.explicit, due)
  BY NoneIsNo DEF ZeroRestores
<1> QED
  BY <1>4, <1>6, <1>11, <1>12 DEF ZeroRestores

LEMMA EndsExact ==
    ASSUME ZeroRestores(zero), Zero!ZeroEnds
    PROVE  ZeroRestores(zero')
<1>1. zero' = [zero EXCEPT !.active = None] /\ zero.active # None
  BY NoneIsNo DEF Zero!ZeroEnds
<1>2. /\ zero' \in ZeroState /\ zero \in ZeroState /\ zero'.active = None
      /\ zero'.explicit = zero.explicit /\ zero'.resume = zero.resume
      /\ zero'.saved = zero.saved /\ zero'.value = zero.value /\ zero'.due = zero.due
  BY <1>1, NoneIsNo DEF ZeroRestores, ZeroState
<1>3. DueNext(zero')
  BY <1>1, <1>2 DEF ZeroRestores, DueNext
<1> QED
  BY <1>2, <1>3 DEF ZeroRestores, ExactActive

(* A point taken of an iterator no draw has touched is exact.              *)
LEMMA CapturesExact ==
    ASSUME ZeroRestores(zero), Zero!ZeroCapture
    PROVE  ZeroRestores(zero')
<1> DEFINE z == zero
           a == z.active
           p == Zero!Captured(z)
<1>1. zero' = [z EXCEPT !.saved = p]
  BY DEF Zero!ZeroCapture
<1>2. z \in ZeroState /\ Zero!Randoms(z) \in Draws
  BY SourceTyped DEF ZeroRestores
<1>3. p \in Point /\ ExactPoint(z.explicit, p)
  <2>1. CASE a # None
    <3> DEFINE made == Zero!Made(z, a.order, a.delivered)
    <3>1. a \in ZeroLive
      BY <1>2, <2>1 DEF ZeroState, MaybeLive
    <3>2. /\ a.order \in Int /\ a.delivered \in Nat /\ a.began \in Draws
          /\ a.touched \in BOOLEAN
      BY <3>1 DEF ZeroLive
    <3>3. /\ made.value \in Batch
          /\ made.value = [order |-> IF a.order = Zero!NoOrder THEN Zero!Source(z) ELSE a.order,
                           index |-> a.delivered,
                           ambient |-> IF a.order = Zero!NoOrder /\ ~z.explicit
                                       THEN z.ambient + 1 ELSE z.ambient]
      BY <1>2, <3>2, MadeNext
    <3>4. p = [began |-> a.began, current |-> Zero!Randoms(z),
               delivered |-> a.delivered,
               kind |-> IF a.touched THEN "touched" ELSE "clean",
               next |-> IF a.delivered = ZeroBatches THEN None ELSE made.value]
      BY <2>1, NoneIsNo DEF Zero!Captured
    <3>5. p \in Point
      BY <1>2, <3>2, <3>3, <3>4 DEF Point
    <3>6. /\ p.began = a.began /\ p.current = Zero!Randoms(z)
          /\ p.delivered = a.delivered /\ (p.kind = "clean" => ~a.touched)
          /\ p.next = IF a.delivered = ZeroBatches THEN None ELSE made.value
      BY <3>2, <3>4
    <3>7. /\ a.order = Zero!NoOrder <=> a.delivered = 0
          /\ ~a.touched => IF a.delivered = 0
                           THEN Zero!Source(z) = OrderBegun(z.explicit, a.began)
                           ELSE a.order = OrderBegun(z.explicit, a.began)
      BY <2>1 DEF ZeroRestores, ExactActive
    <3>8. /\ Zero!Source(z) = SourceOf(z.explicit, p.current)
          /\ z.ambient = p.current.ambient
      BY <1>2, <3>6, SourceTyped DEF Zero!Randoms
    <3>9. ASSUME p.kind = "clean"
          PROVE  /\ p.delivered = 0 =>
                       SourceOf(z.explicit, p.current) = OrderBegun(z.explicit, p.began)
                 /\ p.next = IF p.delivered = ZeroBatches THEN None
                             ELSE [order |-> OrderBegun(z.explicit, p.began),
                                   index |-> p.delivered,
                                   ambient |-> IF p.delivered = 0 /\ ~z.explicit
                                               THEN p.current.ambient + 1
                                               ELSE p.current.ambient]
      BY <3>3, <3>6, <3>7, <3>8, <3>9
    <3> QED
      BY <3>5, <3>9 DEF ExactPoint
  <2>2. CASE a = None /\ z.resume # None
    BY <1>2, <2>2, NoneIsNo DEF Zero!Captured, ZeroState, ZeroRestores, MaybePoint
  <2>3. CASE a = None /\ z.resume = None
    <3> DEFINE made == Zero!Made(Zero!DrawSource(z), Zero!NoOrder, 0)
    <3>1. Zero!DrawSource(z) \in ZeroState /\ Zero!NoOrder \in Int /\ 0 \in Nat
      BY <1>2, SourceTyped DEF Zero!NoOrder
    <3>2. made.value \in Batch
      BY <3>1, MadeNext
    <3>3. p = [began |-> Zero!Randoms(z), current |-> Zero!Randoms(z), delivered |-> 0,
               kind |-> "pristine", next |-> made.value]
      BY <2>3, NoneIsNo DEF Zero!Captured, Zero!StartTorch
    <3> QED
      BY <1>2, <3>2, <3>3 DEF Point, ExactPoint
  <2> QED
    BY <2>1, <2>2, <2>3
<1>4. /\ zero' \in ZeroState /\ zero'.saved = p
      /\ \A f \in {"explicit", "active", "ambient", "source", "resume", "value", "due"} :
            zero'[f] = z[f]
  BY <1>1, <1>2, <1>3 DEF ZeroState, MaybePoint
<1>5. ExactActive(zero') /\ DueNext(zero')
  BY <1>4 DEF ZeroRestores, ExactActive, DueNext, Zero!Source, Zero!Randoms
<1> QED
  BY <1>3, <1>4, <1>5 DEF ZeroRestores

LEMMA RestoresExact ==
    ASSUME ZeroRestores(zero), Zero!ZeroRestore
    PROVE  ZeroRestores(zero')
<1> DEFINE p == zero.saved
           y == Zero!Restored(zero, p.current)
<1>1. /\ p # None
      /\ zero' = [y EXCEPT !.active = None, !.resume = p, !.value = None,
                           !.due = p, !.spent = @ + 1]
  BY NoneIsNo DEF Zero!ZeroRestore
<1>2. zero \in ZeroState /\ p \in Point
  BY <1>1 DEF ZeroRestores, ZeroState, MaybePoint
<1>3. y \in ZeroState /\ y.explicit = zero.explicit /\ y.saved = p
  BY <1>2, RestoredTyped DEF Point, Zero!Restored, ZeroState
<1>4. /\ zero' \in ZeroState /\ zero'.explicit = zero.explicit
      /\ zero'.saved = p /\ zero'.resume = p /\ zero'.due = p
      /\ zero'.active = None /\ zero'.value = None
  <2>1. PICK n \in Nat : n = y.spent + 1
    BY <1>3, CountsOn
  <2>2. p \in MaybePoint
    BY <1>2 DEF MaybePoint
  <2> HIDE DEF y, p
  <2>3. zero' = [y EXCEPT !.active = None, !.resume = p, !.value = None,
                          !.due = p, !.spent = n]
    BY <1>1, <2>1
  <2>4. zero' \in ZeroState
    BY <1>3, <2>2, <2>3, NoneIsNo DEF ZeroState
  <2> QED
    BY <1>3, <2>3, <2>4 DEF ZeroState
<1> QED
  BY <1>4 DEF ZeroRestores, ExactActive, DueNext

(* A draw changes what is due to no iterator that has begun, and touches   *)
(* one that will take its order from the same states.                      *)
LEMMA DrawsExact ==
    ASSUME ZeroRestores(zero), Zero!ZeroDraw
    PROVE  ZeroRestores(zero')
<1> DEFINE z == zero
           a == z.active
           due == IF z.resume = None THEN None ELSE z.due
           live == IF a # None /\ ~z.explicit /\ a.order = Zero!NoOrder
                   THEN [a EXCEPT !.touched = TRUE] ELSE a
<1>1. zero' = [z EXCEPT !.ambient = @ + 1, !.spent = @ + 1, !.due = due,
                        !.active = live]
  BY NoneIsNo DEF Zero!ZeroDraw
<1>2. z \in ZeroState
  BY DEF ZeroRestores
<1>3. due \in MaybePoint /\ a \in MaybeLive
  BY <1>2, NoneIsNo DEF ZeroState
<1>4. /\ live \in MaybeLive
      /\ live = None <=> a = None
  BY <1>3 DEF ZeroLive, None, MaybeLive
<1>5. /\ zero' \in ZeroState
      /\ zero'.explicit = z.explicit /\ zero'.resume = z.resume
      /\ zero'.saved = z.saved /\ zero'.value = z.value
      /\ zero'.source = z.source /\ zero'.due = due /\ zero'.active = live
  <2>1. PICK n \in Nat, drawn \in Nat : n = z.spent + 1 /\ drawn = z.ambient + 1
    BY <1>2, CountsOn
  <2> HIDE DEF due, live
  <2>3. zero' = [z EXCEPT !.ambient = drawn, !.spent = n, !.due = due,
                          !.active = live]
    BY <1>1, <2>1
  <2>4. zero' \in ZeroState
    BY <1>2, <1>3, <1>4, <2>3 DEF ZeroState
  <2> QED
    BY <1>2, <2>3, <2>4 DEF ZeroState
<1>6. ExactActive(zero')
  <2>1. ASSUME live # None
        PROVE  /\ live.order = a.order /\ live.delivered = a.delivered
               /\ live.began = a.began
               /\ ~live.touched => ~a.touched /\ (z.explicit \/ a.order # Zero!NoOrder)
    BY <1>2, <1>3, <1>4, <2>1 DEF ZeroLive, ZeroState, MaybeLive
  <2>2. z.explicit => Zero!Source(zero') = Zero!Source(z)
    BY <1>5 DEF Zero!Source
  <2>3. ExactActive(z)
    BY DEF ZeroRestores
  <2> QED
    BY <1>4, <1>5, <2>1, <2>2, <2>3 DEF ExactActive
<1>7. DueNext(zero')
  <2>1. DueNext(z)
    BY DEF ZeroRestores
  <2> QED
    BY <1>4, <1>5, <2>1 DEF DueNext
<1>8. ExactPoint(z.explicit, due)
  BY NoneIsNo DEF ZeroRestores
<1> QED
  BY <1>5, <1>6, <1>7, <1>8 DEF ZeroRestores

LEMMA ZeroStep ==
    ASSUME ZeroRestores(zero), Zero!ZeroNext
    PROVE  ZeroRestores(zero')
<1>1. CASE Zero!ZeroIterate
  BY <1>1, BeginsExact, ResumesExact
<1>2. CASE Zero!ZeroDeliver
  BY <1>2, DeliversExact
<1>3. CASE Zero!ZeroEnds
  BY <1>3, EndsExact
<1>4. CASE Zero!ZeroCapture
  BY <1>4, CapturesExact
<1>5. CASE Zero!ZeroRestore
  BY <1>5, RestoresExact
<1>6. CASE Zero!ZeroDraw
  BY <1>6, DrawsExact
<1> QED
  BY <1>1, <1>2, <1>3, <1>4, <1>5, <1>6 DEF Zero!ZeroNext

LEMMA ZeroInitial == LoaderInit => ZeroInv
<1>1. PrepareMulti => zero = None
  BY NoneIsNo DEF PrepareMulti, Zero!ZeroUnused
<1>2. PrepareZero => ZeroRestores(zero)
  BY StartsExact DEF PrepareZero
<1> QED
  BY <1>1, <1>2 DEF LoaderInit, ZeroInv

LEMMA ZeroInductive == ZeroInv /\ [LoaderNext]_loaderVars => ZeroInv'
<1> SUFFICES ASSUME ZeroInv, [LoaderNext]_loaderVars PROVE ZeroInv'
  OBVIOUS
<1>1. CASE UNCHANGED zero
  BY <1>1 DEF ZeroInv
<1>2. CASE zero # None /\ Zero!ZeroNext
  BY <1>2, ZeroStep DEF ZeroInv
<1> QED
  BY <1>1, <1>2 DEF LoaderNext, loaderVars

(* compat/zero.py:181: after any number of iterators, draws, captures and  *)
(* restores, the first batch after the restore of a point that nothing     *)
(* touched is the one that would have followed its capture.                *)
THEOREM ZeroRestoresExactly == LoaderSpec => []ZeroContinues
<1>1. ZeroInv => ZeroContinues
  BY NoneIsNo DEF ZeroInv, ZeroRestores, DueNext, ZeroContinues, Zero!Continues,
      Zero!FirstIs
<1> QED
  BY <1>1, ZeroInitial, ZeroInductive, PTL DEF LoaderSpec

-----------------------------------------------------------------------------
(* Tasks and turns.                                                        *)

(* Task n goes to lane n mod Lanes: the task of a lane's turn, and how     *)
(* many of its turns the first n tasks hold.                               *)
Task(w, r) == r * Lanes + w

LEMMA LanesPositive == Lanes \in Nat \ {0}
  BY LanesAssumption

LEMMA LaneIs == \A w : w \in Lane <=> w \in Nat /\ w < Lanes
  BY LanesPositive DEF Lane

LEMMA DivMod ==
    ASSUME NEW x \in Nat, NEW c \in Nat \ {0}
    PROVE  x \div c \in Nat /\ x % c \in 0..(c - 1) /\ x = c * (x \div c) + (x % c)
  OBVIOUS

LEMMA MultipleGap ==
    ASSUME NEW c \in Nat \ {0}, NEW p \in Nat, NEW q \in Nat, p < q
    PROVE  c * p + c <= c * q
<1>1. PICK d \in Nat : q = p + 1 + d
  <2>1. q - p - 1 \in Nat /\ q = p + 1 + (q - p - 1)
    OBVIOUS
  <2> QED
    BY <2>1
<1>2. c * q = c * p + c + c * d
  BY <1>1
<1>3. c * d \in Nat /\ c * p \in Nat
  OBVIOUS
<1> QED
  BY <1>2, <1>3

(* The quotient and remainder of a sum are its parts.                      *)
LEMMA Quotient ==
    ASSUME NEW c \in Nat \ {0}, NEW q \in Nat, NEW m \in Nat, m < c,
           NEW x, x = c * q + m
    PROVE  x \div c = q /\ x % c = m
<1>1. x \in Nat
  OBVIOUS
<1>2. PICK p \in Nat, k \in 0..(c - 1) : p = x \div c /\ k = x % c /\ x = c * p + k
  BY <1>1, DivMod
<1>3. PICK a \in Nat, b \in Nat : a = c * p /\ b = c * q
  OBVIOUS
<1>4. ~(p < q)
  <2> SUFFICES ASSUME p < q PROVE FALSE
    OBVIOUS
  <2>1. a + c <= b
    BY <1>3, MultipleGap
  <2> QED
    BY <1>2, <1>3, <2>1
<1>5. ~(q < p)
  <2> SUFFICES ASSUME q < p PROVE FALSE
    OBVIOUS
  <2>1. b + c <= a
    BY <1>3, MultipleGap
  <2> QED
    BY <1>2, <1>3, <2>1
<1>6. p = q
  BY <1>4, <1>5
<1> QED
  BY <1>2, <1>3, <1>6

LEMMA TaskTyped ==
    ASSUME NEW w, w \in Lane, NEW r, r \in Nat
    PROVE  /\ Task(w, r) \in Nat
           /\ Task(w, r) % Lanes = w
           /\ Task(w, r) \div Lanes = r
<1>1. w \in Nat /\ w < Lanes
  BY LaneIs
<1>2. Task(w, r) = Lanes * r + w
  BY <1>1, LanesPositive DEF Task
<1>3. Task(w, r) \in Nat
  BY <1>1, <1>2, LanesPositive
<1> QED
  BY <1>1, <1>2, <1>3, LanesPositive, Quotient

LEMMA TaskExact ==
    ASSUME NEW t, t \in Nat
    PROVE  /\ t % Lanes \in Lane /\ t \div Lanes \in Nat
           /\ t = Task(t % Lanes, t \div Lanes)
<1>1. /\ t \div Lanes \in Nat /\ t % Lanes \in 0..(Lanes - 1)
      /\ t = Lanes * (t \div Lanes) + (t % Lanes)
  BY LanesPositive, DivMod
<1> QED
  BY <1>1, LanesPositive DEF Task, Lane

LEMMA TaskAhead ==
    ASSUME NEW w, w \in Lane, NEW r, r \in Nat, NEW d, d \in Nat
    PROVE  /\ d * Lanes \in Nat
           /\ Task(w, r + d) = Task(w, r) + d * Lanes
<1>1. w \in Nat
  BY LaneIs
<1>2. (r + d) * Lanes = r * Lanes + d * Lanes
  BY LanesPositive
<1>3. r * Lanes \in Nat /\ d * Lanes \in Nat
  BY LanesPositive
<1> QED
  BY <1>1, <1>2, <1>3 DEF Task

LEMMA TaskOrdered ==
    ASSUME NEW w, w \in Lane, NEW r, r \in Nat, NEW s, s \in Nat
    PROVE  /\ r < s => Task(w, r) + Lanes <= Task(w, s)
           /\ Task(w, r) < Task(w, s) <=> r < s
           /\ Task(w, r) = Task(w, s) <=> r = s
<1>1. \A p, q \in Nat : p < q => Task(w, p) + Lanes <= Task(w, q)
  <2> SUFFICES ASSUME NEW p \in Nat, NEW q \in Nat, p < q
               PROVE  Task(w, p) + Lanes <= Task(w, q)
    OBVIOUS
  <2>1. Lanes * p + Lanes <= Lanes * q
    BY LanesPositive, MultipleGap
  <2>2. w \in Nat /\ Lanes * p \in Nat /\ Lanes * q \in Nat
    BY LaneIs, LanesPositive
  <2>3. Task(w, p) = Lanes * p + w /\ Task(w, q) = Lanes * q + w
    BY <2>2, LanesPositive DEF Task
  <2> QED
    BY <2>1, <2>2, <2>3, LanesPositive
<1>2. Task(w, r) \in Nat /\ Task(w, s) \in Nat
  BY TaskTyped
<1> QED
  BY <1>1, <1>2, LanesPositive

LEMMA TurnsTyped ==
    ASSUME NEW w, w \in Lane, NEW n, n \in Nat
    PROVE  TurnsBefore(w, n) \in Nat
<1>1. n + Lanes - 1 - w \in Nat
  BY LaneIs, LanesPositive
<1> QED
  BY <1>1, LanesPositive, DivMod DEF TurnsBefore

LEMMA TaskBelow ==
    ASSUME NEW w, w \in Lane, NEW r, r \in Nat, NEW n, n \in Nat
    PROVE  Task(w, r) < n <=> r < TurnsBefore(w, n)
<1>1. w \in Nat /\ w < Lanes
  BY LaneIs
<1>2. PICK x \in Nat : x = n + Lanes - 1 - w
  BY <1>1, LanesPositive
<1>3. PICK q \in Nat, m \in 0..(Lanes - 1) : q = TurnsBefore(w, n) /\ x = Lanes * q + m
  <2>1. /\ x \div Lanes \in Nat /\ x % Lanes \in 0..(Lanes - 1)
        /\ x = Lanes * (x \div Lanes) + (x % Lanes)
    BY LanesPositive, DivMod
  <2>2. TurnsBefore(w, n) = x \div Lanes
    BY <1>2 DEF TurnsBefore
  <2> QED
    BY ONLY <2>1, <2>2
<1>4. PICK a \in Nat, b \in Nat : a = Lanes * r /\ b = Lanes * q
  BY LanesPositive
<1>5. Task(w, r) = a + w
  BY <1>1, <1>4, LanesPositive DEF Task
<1>6. r < q => a + Lanes <= b
  BY <1>4, LanesPositive, MultipleGap
<1>7. ~(r < q) => b <= a
  <2>1. q < r => b + Lanes <= a
    BY <1>4, LanesPositive, MultipleGap
  <2>2. q = r => b = a
    BY <1>4
  <2> QED
    BY <2>1, <2>2, LanesPositive
<1>8. x = b + m
  BY <1>3, <1>4
<1>9. Lanes \in Nat
  BY LanesPositive
<1>10. r < q => a + w < n
  BY <1>1, <1>2, <1>6, <1>8, <1>9
<1>11. ~(r < q) => ~(a + w < n)
  BY <1>1, <1>2, <1>7, <1>8, <1>9
<1> QED
  BY <1>3, <1>5, <1>10, <1>11

LEMMA TurnsFrom ==
    ASSUME NEW w, w \in Lane
    PROVE  TurnsBefore(w, 0) = 0
<1>1. TurnsBefore(w, 0) \in Nat /\ ~(Task(w, 0) < 0) /\ 0 \in Nat
  BY TaskTyped, TurnsTyped
<1> QED
  BY <1>1, TaskBelow

(* The turn a task of the lane is.                                         *)
LEMMA TurnAt ==
    ASSUME NEW n, n \in Nat, NEW w, w = n % Lanes
    PROVE  /\ w \in Lane
           /\ n = Task(w, TurnsBefore(w, n))
           /\ TurnsBefore(w, n) = n \div Lanes
<1>1. w \in Lane /\ n \div Lanes \in Nat /\ n = Task(w, n \div Lanes)
  BY TaskExact
<1>2. PICK k \in Nat, u \in Nat : k = n \div Lanes /\ u = TurnsBefore(w, n)
  BY <1>1, TurnsTyped
<1>3. n = Task(w, k)
  BY <1>1, <1>2
<1>4. ~(Task(w, k) < n)
  BY <1>3
<1>5. ~(k < u)
  BY <1>1, <1>2, <1>4, TaskBelow
<1>6. ~(Task(w, u) < n)
  BY <1>1, <1>2, TaskBelow
<1>7. ~(u < k)
  BY <1>1, <1>3, <1>6, TaskOrdered
<1>8. u = k
  BY <1>5, <1>7
<1> QED
  BY <1>1, <1>2, <1>8

LEMMA TurnsNext ==
    ASSUME NEW w, w \in Lane, NEW n, n \in Nat
    PROVE  TurnsBefore(w, n + 1) = IF n % Lanes = w THEN TurnsBefore(w, n) + 1
                                                ELSE TurnsBefore(w, n)
<1>1. PICK u \in Nat, v \in Nat : u = TurnsBefore(w, n) /\ v = TurnsBefore(w, n + 1)
  BY TurnsTyped
<1>2. n + 1 \in Nat
  OBVIOUS
<1>3. \A r \in Nat : r < u <=> Task(w, r) < n
  BY <1>1, TaskBelow
<1>4. \A r \in Nat : r < v <=> Task(w, r) < n + 1
  BY <1>1, <1>2, TaskBelow
<1>5. \A r \in Nat : Task(w, r) \in Nat
  BY TaskTyped
<1>6. CASE n % Lanes = w
  <2>1. n = Task(w, u)
    BY <1>1, <1>6, TurnAt
  <2>2. \A r \in Nat : r < v <=> r < u \/ r = u
    <3> SUFFICES ASSUME NEW r \in Nat PROVE r < v <=> r < u \/ r = u
      OBVIOUS
    <3>1. Task(w, r) = Task(w, u) <=> r = u
      BY TaskOrdered
    <3>2. Task(w, r) < n + 1 <=> Task(w, r) < n \/ Task(w, r) = n
      BY <1>5
    <3> QED
      BY <1>3, <1>4, <2>1, <3>1, <3>2
  <2>3. u < v
    BY <2>2
  <2>4. ~(u + 1 < v)
    BY <2>2
  <2> QED
    BY <1>1, <1>6, <2>3, <2>4
<1>7. CASE n % Lanes # w
  <2>1. \A r \in Nat : Task(w, r) # n
    BY <1>7, TaskTyped
  <2>2. \A r \in Nat : r < v <=> r < u
    BY <1>3, <1>4, <1>5, <2>1
  <2>3. ~(u < v) /\ ~(v < u)
    BY <2>2
  <2> QED
    BY <1>1, <1>7, <2>3
<1> QED
  BY <1>6, <1>7

LEMMA TurnsOrdered ==
    ASSUME NEW w, w \in Lane, NEW m, m \in Nat, NEW n, n \in Nat
    PROVE  /\ m <= n => TurnsBefore(w, m) <= TurnsBefore(w, n)
           /\ m + Lanes <= n => TurnsBefore(w, m) < TurnsBefore(w, n)
<1>1. PICK u \in Nat, v \in Nat : u = TurnsBefore(w, m) /\ v = TurnsBefore(w, n)
  BY TurnsTyped
<1>2. \A r \in Nat : Task(w, r) \in Nat
  BY TaskTyped
<1>3. \A r \in Nat : (r < u <=> Task(w, r) < m) /\ (r < v <=> Task(w, r) < n)
  BY <1>1, TaskBelow
<1>4. m <= n => u <= v
  <2> SUFFICES ASSUME m <= n, v < u PROVE FALSE
    OBVIOUS
  <2>1. Task(w, v) < m /\ ~(Task(w, v) < n)
    BY <1>3
  <2> QED
    BY <1>2, <2>1
<1>5. m + Lanes <= n => u < v
  <2> SUFFICES ASSUME m + Lanes <= n PROVE Task(w, u) < n
    BY <1>3
  <2>1. CASE u = 0
    <3>1. Task(w, 0) = w
      BY LaneIs, LanesPositive DEF Task
    <3> QED
      BY <2>1, <3>1, LaneIs, LanesPositive
  <2>2. CASE u # 0
    <3>1. PICK s \in Nat : u = s + 1
      <4>1. u - 1 \in Nat /\ u = (u - 1) + 1
        BY <2>2
      <4> QED
        BY <4>1
    <3>2. Task(w, s) < m
      BY <1>3, <3>1
    <3>3. Task(w, u) = Task(w, s) + 1 * Lanes
      BY <3>1, TaskAhead
    <3> QED
      BY <1>2, <3>2, <3>3, LanesPositive
  <2> QED
    BY <2>1, <2>2
<1> QED
  BY <1>1, <1>4, <1>5

(* Tasks within a number of rounds are within as many turns.               *)
LEMMA TurnsWithin ==
    ASSUME NEW m, m \in Nat, NEW n, n \in Nat, NEW w, w = n % Lanes,
           NEW p, p \in Nat, n - m < Lanes * p
    PROVE  TurnsBefore(w, n) - TurnsBefore(w, m) < p
<1>1. w \in Lane /\ n = Task(w, TurnsBefore(w, n))
  BY TurnAt
<1>2. PICK u \in Nat, v \in Nat : u = TurnsBefore(w, m) /\ v = TurnsBefore(w, n)
  BY <1>1, TurnsTyped
<1>3. Task(w, u) \in Nat /\ ~(Task(w, u) < m)
  BY <1>1, <1>2, TaskTyped, TaskBelow
<1> SUFFICES ASSUME u + p <= v PROVE FALSE
  BY <1>2
<1>4. Task(w, u + p) = Task(w, u) + p * Lanes
  BY <1>1, TaskAhead
<1>5. ~(Task(w, v) < Task(w, u + p))
  <2>1. u + p \in Nat /\ ~(v < u + p)
    OBVIOUS
  <2> QED
    BY <1>1, <2>1, TaskOrdered
<1>6. p * Lanes = Lanes * p /\ p * Lanes \in Nat
  BY LanesPositive
<1>7. Task(w, v) = n
  BY <1>1, <1>2
<1> QED
  BY <1>3, <1>4, <1>5, <1>6, <1>7

RandomState == [seed : Nat, draws : Int]
Command == [task : Nat, index : Nat, order : Nat]
Result == [worker : Lane, random : RandomState, index : Nat, order : Nat]
Outcome == Result \cup {Error}
Completion == [task : Nat, value : Outcome]
Snapshots == [Lane -> RandomState]
Tale == [order : Nat, seed : Nat, random : Snapshots]
ReadySet == UNION {[D -> Result] : D \in SUBSET Nat}
SeenSet == SUBSET Result
Actives == {Lane}
Arrivals == {<< >>}
CommandQueue == Seq(Command)
AnswerQueue == Seq(Completion)
PendingSet == SUBSET [task : Nat, worker : Lane]

LaneState ==
    [commands : CommandQueue, results : AnswerQueue, random : RandomState,
     read : Nat, alive : BOOLEAN, resetting : BOOLEAN]

Iterator ==
    [valid : BOOLEAN, closed : BOOLEAN, complete : BOOLEAN, raised : BOOLEAN,
     order : Nat, start : Nat, drawn : Nat, next : Nat, delivery : Nat,
     phase : Nat, cursor : Nat, active : Actives, exhausted : BOOLEAN,
     ready : ReadySet, arrival : Arrivals, delivered : Nat, seen : SeenSet,
     began : Nat, reused : BOOLEAN, seed : Nat, story : Tale]

(* The turns of a lane whose answers the owner has taken.                  *)
Got(i, c, q, w) == TurnsBefore(w, i.next) - Len(c[w]) - Len(q[w])

(* What was accepted and is not answered.                                  *)
Waiting(i, c, q) ==
    {t \in 0..(i.next - 1) : t \div Lanes >= Got(i, c, q, t % Lanes)}

Posted(tasks) == {[task |-> t, worker |-> t % Lanes] : t \in tasks}

(* The rings hold the tasks not taken, in order, answers before commands,  *)
(* and the pool counts the same tasks.                                     *)
InRings(i, c, q) ==
    \A w \in Lane :
        /\ Got(i, c, q, w) >= 0
        /\ \A k \in 1..Len(q[w]) : q[w][k].task = Task(w, Got(i, c, q, w) + k - 1)
        /\ \A k \in 1..Len(c[w]) :
              c[w][k].task = Task(w, Got(i, c, q, w) + Len(q[w]) + k - 1)

Ringed(i, pending, c, q) ==
    InRings(i, c, q) /\ pending = Posted(Waiting(i, c, q))

(* Where an iterator's seed and order come from.                           *)
OrderBegan(reused, began) == IF reused THEN began ELSE began + 1

(* What holds of an iterator even after it raised or was abandoned.        *)
Bounded(i) ==
    /\ i.delivered <= i.delivery /\ i.delivery <= i.next
    /\ i.next <= i.drawn /\ i.drawn <= Batches
    /\ DOMAIN i.ready \subseteq 0..(i.next - 1)

Origin(i) ==
    /\ Bounded(i)
    /\ i.start <= i.next
    /\ i.phase = i.start % Lanes
    /\ i.order = OrderBegan(i.reused, i.began)
    /\ i.story.order = i.order
    /\ ~i.reused => i.seed = i.began

Live(i) == i.valid /\ ~i.raised

(* The window between delivery and submission, and its values taken.       *)
Held(i, c, q) ==
    {t \in i.delivery..(i.next - 1) : t \div Lanes < Got(i, c, q, t % Lanes)}

Indexed(i, c) ==
    \A w \in Lane : \A k \in 1..Len(c[w]) :
        c[w][k].index = c[w][k].task /\ c[w][k].order = i.order

Window(i, c, q) ==
    /\ i.start <= i.delivery /\ i.delivery <= i.next /\ i.next <= Batches
    /\ i.drawn = i.next
    /\ i.exhausted => i.next = Batches
    /\ \A w \in Lane : TurnsBefore(w, i.delivery) <= Got(i, c, q, w)
    /\ DOMAIN i.ready = Held(i, c, q)
    /\ Indexed(i, c)

(* The value of a task as an undisturbed lane makes it.                    *)
Advanced(i, w, turns) ==
    Random(i.story.random[w].seed, i.story.random[w].draws + turns)

Exact(i, t) ==
    [worker |-> t % Lanes, index |-> t, order |-> i.story.order,
     random |-> Advanced(i, t % Lanes, t \div Lanes)]

Clean(answers, k) == \A j \in 1..k : answers[j].value # Error

(* Answers are exact up to a first fetch that raised, and a lane without   *)
(* one stands at its next turn, if it has any left.                        *)
Faithful(i, c, q, random) ==
    /\ \A t \in DOMAIN i.ready : i.ready[t] = Exact(i, t)
    /\ \A w \in Lane : \A k \in 1..Len(q[w]) :
          Clean(q[w], k) => q[w][k].value = Exact(i, q[w][k].task)
    /\ \A w \in Lane :
          Clean(q[w], Len(q[w])) /\ Got(i, c, q, w) + Len(q[w]) < TurnsBefore(w, Batches) =>
              random[w] = Advanced(i, w, Got(i, c, q, w) + Len(q[w]))

(* A batch of every lane is under way, or the last was sent.               *)
Spread(i) == Lanes <= Prefetch => i.next - i.delivery >= Lanes \/ i.next = Batches

Told(i) ==
    /\ \A v \in i.seen : v = Exact(i, v.index)
    /\ {v.index : v \in i.seen} = i.start..(i.delivered - 1)

OrderedMap == config \in Config /\ config.inOrder /\ ~config.iterable

(* A filling: what the loop changes, in an iterator sound so far.          *)
FillState ==
    [it : Iterator, pending : PendingSet, going : BOOLEAN,
     commands : [Lane -> CommandQueue]]

Sound(i, pending, c, q) ==
    /\ Origin(i)
    /\ Ringed(i, pending, c, q)
    /\ Live(i) => Window(i, c, q)

Same(i, j) ==
    /\ j.valid = i.valid /\ j.closed = i.closed /\ j.complete = i.complete
    /\ j.raised = i.raised /\ j.order = i.order /\ j.start = i.start
    /\ j.delivery = i.delivery /\ j.phase = i.phase /\ j.active = i.active
    /\ j.ready = i.ready /\ j.arrival = i.arrival /\ j.delivered = i.delivered
    /\ j.seen = i.seen /\ j.began = i.began /\ j.reused = i.reused
    /\ j.seed = i.seed /\ j.story = i.story

Grown(s, t, q) ==
    /\ Same(s.it, t.it)
    /\ s.it.next <= t.it.next
    /\ \A w \in Lane : Got(t.it, t.commands, q, w) = Got(s.it, s.commands, q, w)
    /\ \/ t.pending # {}
       \/ t.pending = s.pending /\ t.commands = s.commands /\ t.it.next = s.it.next

Filling(s, q) == s \in FillState /\ Sound(s.it, s.pending, s.commands, q)

RingTypes(c, q) == c \in [Lane -> CommandQueue] /\ q \in [Lane -> AnswerQueue]

LEMMA GotTyped ==
    ASSUME NEW i, i \in Iterator, NEW c, NEW q, RingTypes(c, q),
           NEW w, w \in Lane
    PROVE  /\ Len(c[w]) \in Nat /\ Len(q[w]) \in Nat
           /\ Got(i, c, q, w) \in Int
           /\ Got(i, c, q, w) + Len(q[w]) + Len(c[w]) = TurnsBefore(w, i.next)
<1>1. Len(c[w]) \in Nat /\ Len(q[w]) \in Nat
  BY DEF RingTypes, CommandQueue, AnswerQueue
<1>2. i.next \in Nat
  BY DEF Iterator
<1>3. TurnsBefore(w, i.next) \in Nat
  BY <1>2, TurnsTyped
<1> QED
  BY <1>1, <1>3 DEF Got

(* Tasks and pool entries are the same in number.                          *)
LEMMA PostedCounted ==
    ASSUME NEW tasks, tasks \in SUBSET Nat, IsFiniteSet(tasks)
    PROVE  IsFiniteSet(Posted(tasks)) /\ Cardinality(Posted(tasks)) = Cardinality(tasks)
<1> DEFINE f == [t \in tasks |-> [task |-> t, worker |-> t % Lanes]]
<1>1. f \in Bijection(tasks, Posted(tasks))
  <2>1. f \in [tasks -> Posted(tasks)]
    BY DEF Posted
  <2>2. \A s, t \in tasks : s # t => f[s] # f[t]
    OBVIOUS
  <2>3. \A p \in Posted(tasks) : \E t \in tasks : f[t] = p
    BY DEF Posted
  <2> QED
    BY <2>1, <2>2, <2>3 DEF Bijection, Injection, Surjection, IsInjective
<1>2. ExistsBijection(tasks, Posted(tasks))
  BY <1>1 DEF ExistsBijection
<1> QED
  BY <1>2, FS_Bijection

(* In a window, what is held or accepted is what was sent and not          *)
(* delivered.                                                              *)
LEMMA WindowSplit ==
    ASSUME NEW i, i \in Iterator, NEW c, NEW q, RingTypes(c, q), Window(i, c, q)
    PROVE  /\ Held(i, c, q) \cup Waiting(i, c, q) = i.delivery..(i.next - 1)
           /\ Held(i, c, q) \cap Waiting(i, c, q) = {}
<1>1. PICK d \in Nat, n \in Nat : d = i.delivery /\ n = i.next /\ d <= n
  BY DEF Iterator, Window
<1>2. \A t \in Nat : Got(i, c, q, t % Lanes) \in Int /\ t \div Lanes \in Int
  BY GotTyped, TaskExact
<1>3. ASSUME NEW t \in Nat, t \div Lanes >= Got(i, c, q, t % Lanes)
      PROVE  d <= t
  <2>1. t % Lanes \in Lane /\ t \div Lanes \in Nat /\ t = Task(t % Lanes, t \div Lanes)
    BY TaskExact
  <2>2. TurnsBefore(t % Lanes, d) <= Got(i, c, q, t % Lanes)
    BY <1>1, <2>1 DEF Window
  <2>3. TurnsBefore(t % Lanes, d) \in Nat
    BY <2>1, TurnsTyped
  <2>4. ~(t \div Lanes < TurnsBefore(t % Lanes, d))
    BY <1>2, <1>3, <2>2, <2>3
  <2> QED
    BY <2>1, <2>4, TaskBelow
<1>4. \A t \in 0..(n - 1) : t \in Nat
  BY <1>1
<1>5. Held(i, c, q) = {t \in d..(n - 1) : t \div Lanes < Got(i, c, q, t % Lanes)}
  BY <1>1 DEF Held
<1>6. Waiting(i, c, q) = {t \in d..(n - 1) : t \div Lanes >= Got(i, c, q, t % Lanes)}
  <2>1. \A t : t \in Waiting(i, c, q) <=>
              t \in 0..(n - 1) /\ t \div Lanes >= Got(i, c, q, t % Lanes)
    BY <1>1 DEF Waiting
  <2>2. \A t : t \in 0..(n - 1) /\ t \div Lanes >= Got(i, c, q, t % Lanes) => t \in d..(n - 1)
    BY <1>1, <1>3
  <2>3. \A t : t \in d..(n - 1) => t \in 0..(n - 1)
    BY <1>1
  <2> QED
    BY <2>1, <2>2, <2>3
<1>7. \A t \in d..(n - 1) : t \div Lanes < Got(i, c, q, t % Lanes) <=>
                             ~(t \div Lanes >= Got(i, c, q, t % Lanes))
  BY <1>1, <1>2
<1> QED
  BY <1>1, <1>5, <1>6, <1>7

LEMMA WindowCounted ==
    ASSUME NEW i, i \in Iterator, NEW pending, NEW c, NEW q, RingTypes(c, q),
           Ringed(i, pending, c, q), Window(i, c, q)
    PROVE  /\ IsFiniteSet(pending)
           /\ Cardinality(DOMAIN i.ready) + Cardinality(pending) = i.next - i.delivery
<1>1. PICK d \in Nat, n \in Nat : d = i.delivery /\ n = i.next /\ d <= n
  BY DEF Iterator, Window
<1>2. PICK held, waiting : held = Held(i, c, q) /\ waiting = Waiting(i, c, q)
  OBVIOUS
<1>3. held \cup waiting = d..(n - 1) /\ held \cap waiting = {}
  BY <1>1, <1>2, WindowSplit
<1>4. PICK last \in Int : last = n - 1
  BY <1>1
<1>5. IsFiniteSet(d..last) /\ Cardinality(d..last) = n - d
  <2>1. d \in Int /\ last \in Int
    BY <1>4
  <2>2. IsFiniteSet(d..last) /\ Cardinality(d..last) = IF d > last THEN 0 ELSE last - d + 1
    BY <2>1, FS_Interval
  <2> QED
    BY <1>1, <1>4, <2>2
<1>6. /\ IsFiniteSet(held) /\ IsFiniteSet(waiting)
      /\ held \in SUBSET (d..last) /\ waiting \in SUBSET (d..last)
  <2>1. held \in SUBSET (d..last) /\ waiting \in SUBSET (d..last)
    BY <1>3, <1>4
  <2> QED
    BY <1>5, <2>1, FS_Subset
<1>7. Cardinality(held) + Cardinality(waiting) = n - d
  <2>1. Cardinality(held \cup waiting)
           = Cardinality(held) + Cardinality(waiting) - Cardinality({})
    BY <1>3, <1>6, FS_Union
  <2>2. Cardinality(held) \in Nat /\ Cardinality(waiting) \in Nat /\ Cardinality({}) = 0
    BY <1>6, FS_CardinalityType, FS_EmptySet
  <2>3. Cardinality(held \cup waiting) = n - d
    BY <1>3, <1>4, <1>5
  <2>4. n - d = Cardinality(held) + Cardinality(waiting) - 0
    BY ONLY <2>1, <2>2, <2>3
  <2> QED
    BY ONLY <2>2, <2>4
<1>8. waiting \in SUBSET Nat
  BY <1>2 DEF Waiting
<1>9. pending = Posted(waiting) /\ DOMAIN i.ready = held
  BY <1>2 DEF Ringed, Window
<1>10. IsFiniteSet(pending) /\ Cardinality(pending) = Cardinality(waiting)
  BY <1>6, <1>8, <1>9, PostedCounted
<1> QED
  BY <1>1, <1>7, <1>9, <1>10

(* A task sent to its lane joins the rings and the pool.                   *)
Sends(i, j, c, c2, q, w0, d) ==
    /\ i \in Iterator /\ j \in Iterator /\ RingTypes(c, q)
    /\ w0 = i.next % Lanes /\ j.next = i.next + 1
    /\ d \in Command /\ c2 = [c EXCEPT ![w0] = Append(@, d)]

Sent(i, j, c, c2, q, w0, d) ==
    /\ w0 \in Lane
    /\ RingTypes(c2, q)
    /\ c2[w0] = Append(c[w0], d)
    /\ Len(c2[w0]) = Len(c[w0]) + 1
    /\ \A w \in Lane : w # w0 => c2[w] = c[w]
    /\ \A w \in Lane : Got(j, c2, q, w) = Got(i, c, q, w)

LEMMA SendKeepsGot ==
    ASSUME NEW i, NEW j, NEW c, NEW c2, NEW q, NEW w0, NEW d,
           Sends(i, j, c, c2, q, w0, d)
    PROVE  Sent(i, j, c, c2, q, w0, d)
<1>0. /\ i \in Iterator /\ j \in Iterator /\ RingTypes(c, q)
      /\ w0 = i.next % Lanes /\ j.next = i.next + 1
      /\ d \in Command /\ c2 = [c EXCEPT ![w0] = Append(@, d)]
  BY DEF Sends
<1>1. PICK n \in Nat : n = i.next
  BY <1>0 DEF Iterator
<1>2. w0 \in Lane
  BY <1>0, <1>1, TurnAt
<1>3. c \in [Lane -> CommandQueue] /\ c[w0] \in Seq(Command)
  BY <1>0, <1>2 DEF RingTypes, CommandQueue
<1>4. Append(c[w0], d) \in CommandQueue /\ Len(Append(c[w0], d)) = Len(c[w0]) + 1
  BY <1>0, <1>3 DEF CommandQueue
<1>5. /\ c2 \in [Lane -> CommandQueue] /\ c2[w0] = Append(c[w0], d)
      /\ \A w \in Lane : w # w0 => c2[w] = c[w]
  BY <1>0, <1>2, <1>3, <1>4
<1>6. RingTypes(c2, q)
  BY <1>0, <1>5 DEF RingTypes
<1>7. ASSUME NEW w, w \in Lane PROVE Got(j, c2, q, w) = Got(i, c, q, w)
  <2>1. TurnsBefore(w, n + 1) = IF n % Lanes = w THEN TurnsBefore(w, n) + 1 ELSE TurnsBefore(w, n)
    BY <1>1, <1>7, TurnsNext
  <2>2. TurnsBefore(w, n) \in Nat
    BY <1>1, <1>7, TurnsTyped
  <2>3. Len(c[w]) \in Nat /\ Len(q[w]) \in Nat
    BY <1>0, <1>7, GotTyped
  <2>4. Len(c2[w]) = IF w = w0 THEN Len(c[w]) + 1 ELSE Len(c[w])
    BY <1>4, <1>5, <1>7
  <2>5. j.next = n + 1 /\ w0 = n % Lanes
    BY <1>0, <1>1
  <2>6. TurnsBefore(w, n + 1) - Len(c2[w]) - Len(q[w]) = TurnsBefore(w, n) - Len(c[w]) - Len(q[w])
    <3>1. CASE w = w0
      BY <3>1, <2>1, <2>2, <2>3, <2>4, <2>5
    <3>2. CASE w # w0
      BY <3>2, <2>1, <2>4, <2>5
    <3> QED
      BY <3>1, <3>2
  <2> QED
    BY <1>1, <2>5, <2>6 DEF Got
<1> QED
  BY <1>2, <1>4, <1>5, <1>6, <1>7 DEF Sent

LEMMA SendKeepsRings ==
    ASSUME NEW i, NEW j, NEW c, NEW c2, NEW q, NEW w0, NEW d,
           Sends(i, j, c, c2, q, w0, d), d.task = i.next,
           NEW p, Ringed(i, p, c, q), NEW p2, p2 = p \cup {[task |-> i.next, worker |-> w0]}
    PROVE  Ringed(j, p2, c2, q)
<1>0. /\ i \in Iterator /\ j \in Iterator /\ RingTypes(c, q)
      /\ w0 = i.next % Lanes /\ j.next = i.next + 1
      /\ d \in Command /\ c2 = [c EXCEPT ![w0] = Append(@, d)]
  BY DEF Sends
<1>1. PICK n \in Nat : n = i.next
  BY <1>0 DEF Iterator
<1>2. /\ w0 \in Lane /\ RingTypes(c2, q) /\ c2[w0] = Append(c[w0], d)
      /\ Len(c2[w0]) = Len(c[w0]) + 1
      /\ \A w \in Lane : w # w0 => c2[w] = c[w]
      /\ \A w \in Lane : Got(j, c2, q, w) = Got(i, c, q, w)
  BY SendKeepsGot DEF Sent
<1>3. n = Task(w0, TurnsBefore(w0, n)) /\ TurnsBefore(w0, n) = n \div Lanes
  BY <1>0, <1>1, TurnAt
<1>4. /\ Got(i, c, q, w0) + Len(q[w0]) + Len(c[w0]) = TurnsBefore(w0, n)
      /\ Got(i, c, q, w0) \in Int /\ Len(q[w0]) \in Nat /\ Len(c[w0]) \in Nat
  <2>1. i \in Iterator /\ RingTypes(c, q) /\ w0 \in Lane /\ n = i.next
    BY <1>0, <1>1, <1>2
  <2> QED
    BY ONLY <2>1, GotTyped
<1>5. InRings(i, c, q) /\ p = Posted(Waiting(i, c, q))
  BY DEF Ringed
<1>6. InRings(j, c2, q)
  <2> SUFFICES ASSUME NEW w \in Lane
               PROVE  /\ Got(j, c2, q, w) >= 0
                      /\ \A k \in 1..Len(q[w]) : q[w][k].task = Task(w, Got(j, c2, q, w) + k - 1)
                      /\ \A k \in 1..Len(c2[w]) :
                            c2[w][k].task = Task(w, Got(j, c2, q, w) + Len(q[w]) + k - 1)
    BY DEF InRings
  <2>1. /\ Got(i, c, q, w) >= 0
        /\ \A k \in 1..Len(q[w]) : q[w][k].task = Task(w, Got(i, c, q, w) + k - 1)
        /\ \A k \in 1..Len(c[w]) :
              c[w][k].task = Task(w, Got(i, c, q, w) + Len(q[w]) + k - 1)
    BY <1>5 DEF InRings
  <2>2. CASE w # w0
    <3>1. c2[w] = c[w] /\ Got(j, c2, q, w) = Got(i, c, q, w)
      BY <1>2, <2>2
    <3> QED
      BY <2>1, <3>1
  <2>3. CASE w = w0
    <3>1. c[w0] \in Seq(Command)
      BY <1>0, <1>2 DEF RingTypes, CommandQueue
    <3>2. \A k \in 1..Len(c[w0]) : c2[w0][k] = c[w0][k]
      BY <1>2, <3>1
    <3>3. c2[w0][Len(c[w0]) + 1] = d
      BY <1>2, <3>1
    <3>4. d.task = Task(w0, Got(i, c, q, w0) + Len(q[w0]) + (Len(c[w0]) + 1) - 1)
      <4>1. Got(i, c, q, w0) + Len(q[w0]) + (Len(c[w0]) + 1) - 1 = TurnsBefore(w0, n)
        BY ONLY <1>4
      <4> QED
        BY <1>1, <1>3, <4>1
    <3>5. ASSUME NEW k \in 1..Len(c2[w0])
          PROVE  c2[w0][k].task = Task(w0, Got(i, c, q, w0) + Len(q[w0]) + k - 1)
      <4>1. k \in 1..Len(c[w0]) \/ k = Len(c[w0]) + 1
        BY <1>2, <1>4
      <4>2. CASE k \in 1..Len(c[w0])
        BY <2>1, <2>3, <3>2, <4>2
      <4>3. CASE k = Len(c[w0]) + 1
        BY <3>3, <3>4, <4>3
      <4> QED
        BY <4>1, <4>2, <4>3
    <3>6. Got(j, c2, q, w0) = Got(i, c, q, w0)
      BY <1>2
    <3> QED
      BY <2>1, <2>3, <3>5, <3>6
  <2> QED
    BY <2>2, <2>3
<1>7. Waiting(j, c2, q) = Waiting(i, c, q) \cup {n}
  <2>1. j.next - 1 = n
    BY <1>0, <1>1
  <2>2. \A t \in Nat : Got(j, c2, q, t % Lanes) = Got(i, c, q, t % Lanes)
    BY <1>2, TaskExact
  <2>3. n \div Lanes >= Got(i, c, q, n % Lanes)
    <3>1. n % Lanes = w0 /\ n \div Lanes = TurnsBefore(w0, n)
      BY <1>0, <1>1, <1>3
    <3>2. TurnsBefore(w0, n) >= Got(i, c, q, w0)
      BY ONLY <1>4
    <3> QED
      BY <3>1, <3>2
  <2>4. \A t : t \in 0..n <=> t \in 0..(n - 1) \/ t = n
    BY <1>1
  <2>5. \A t : t \in Waiting(j, c2, q) <=>
               t \in 0..n /\ t \div Lanes >= Got(j, c2, q, t % Lanes)
    BY <2>1 DEF Waiting
  <2>6. \A t : t \in Waiting(i, c, q) <=>
               t \in 0..(n - 1) /\ t \div Lanes >= Got(i, c, q, t % Lanes)
    BY <1>1 DEF Waiting
  <2>7. \A t \in 0..n : t \in Nat
    BY <1>1
  <2>8. \A t : t \in Waiting(j, c2, q) <=> t \in Waiting(i, c, q) \/ t = n
    BY <2>2, <2>3, <2>4, <2>5, <2>6, <2>7
  <2> QED
    BY <2>8
<1>8. p2 = Posted(Waiting(j, c2, q))
  <2>1. p2 = p \cup {[task |-> n, worker |-> n % Lanes]}
    BY <1>0, <1>1
  <2>2. Posted(Waiting(i, c, q) \cup {n})
           = Posted(Waiting(i, c, q)) \cup {[task |-> n, worker |-> n % Lanes]}
    BY DEF Posted
  <2> QED
    BY <1>5, <1>7, <2>1, <2>2
<1> QED
  BY <1>6, <1>8 DEF Ringed

LEMMA Least ==
    ASSUME NEW T, T \in SUBSET Nat, T # {}
    PROVE  \E m \in T : \A k \in T : m <= k
<1>1. PICK R : R = OpToRel(<, Nat)
  OBVIOUS
<1>2. IsWellFoundedOn(R, Nat)
  BY <1>1, NatLessThanWellFounded, Zenon
<1>3. PICK m \in T : \A k \in T : ~(<<k, m>> \in R)
  BY <1>2, WFMin, Zenon
<1>4. \A k \in T : ~(k < m)
  BY <1>1, <1>3 DEF OpToRel
<1> QED
  BY <1>4

-----------------------------------------------------------------------------
(* The ring of a lane has room beyond the prefetch.                        *)

ShiftsTo(f, n) == f = [b \in 0..n |-> IF b = 0 THEN 1 ELSE 2 * f[b - 1]]

LEMMA ShiftedIs == ShiftsTo(Shifted, Prefetch + 1)
<1> DEFINE T == {n \in Nat : ~\E f : ShiftsTo(f, n)}
<1>1. T = {}
  <2> SUFFICES ASSUME T # {} PROVE FALSE
    OBVIOUS
  <2>1. PICK m \in T : \A k \in T : m <= k
    BY Least
  <2>2. CASE m = 0
    <3> DEFINE g == [b \in 0..0 |-> 1]
    <3>1. g = [b \in 0..0 |-> IF b = 0 THEN 1 ELSE 2 * g[b - 1]]
      OBVIOUS
    <3> QED
      BY <2>1, <2>2, <3>1 DEF ShiftsTo
  <2>3. CASE m # 0
    <3>1. m - 1 \in Nat /\ ~(m <= m - 1)
      BY <2>1, <2>3
    <3>2. PICK f : ShiftsTo(f, m - 1)
      BY <2>1, <3>1
    <3> DEFINE g == [b \in 0..m |-> IF b = 0 THEN 1 ELSE 2 * f[b - 1]]
    <3>3. \A b \in 0..(m - 1) : f[b] = g[b]
      <4>1. f = [b \in 0..(m - 1) |-> IF b = 0 THEN 1 ELSE 2 * f[b - 1]]
        BY <3>2 DEF ShiftsTo
      <4>2. \A b \in 0..(m - 1) : b \in 0..m
        BY <2>1
      <4>3. \A b \in 0..(m - 1) : f[b] = IF b = 0 THEN 1 ELSE 2 * f[b - 1]
        BY <4>1
      <4>4. \A b \in 0..(m - 1) : g[b] = IF b = 0 THEN 1 ELSE 2 * f[b - 1]
        BY <4>2
      <4> QED
        BY <4>3, <4>4
    <3>4. \A b \in 0..m : b # 0 => b - 1 \in 0..(m - 1)
      BY <2>1
    <3>5. g = [b \in 0..m |-> IF b = 0 THEN 1 ELSE 2 * g[b - 1]]
      <4>1. \A b \in 0..m : (IF b = 0 THEN 1 ELSE 2 * f[b - 1])
                                = (IF b = 0 THEN 1 ELSE 2 * g[b - 1])
        <5> HIDE DEF g
        <5> QED
          BY <3>3, <3>4
      <4> QED
        BY <4>1
    <3>6. ShiftsTo(g, m)
      BY <3>5 DEF ShiftsTo
    <3> QED
      BY <2>1, <3>6
  <2> QED
    BY <2>2, <2>3
<1>2. Prefetch + 1 \in Nat
  BY LanesAssumption
<1>3. PICK f : ShiftsTo(f, Prefetch + 1)
  BY <1>1, <1>2
<1>4. \E g : g = [b \in 0..Prefetch + 1 |-> IF b = 0 THEN 1 ELSE 2 * g[b - 1]]
  BY <1>3 DEF ShiftsTo
<1> QED
  BY <1>4 DEF Shifted, ShiftsTo

LEMMA ShiftedGrows == \A b \in 0..Prefetch + 1 : Shifted[b] \in Nat /\ Shifted[b] > b
<1> DEFINE T == {b \in 0..Prefetch + 1 : ~(Shifted[b] \in Nat /\ Shifted[b] > b)}
<1> SUFFICES ASSUME T # {} PROVE FALSE
  OBVIOUS
<1>1. T \in SUBSET Nat /\ Prefetch \in Nat
  BY LanesAssumption
<1>2. PICK m \in T : \A k \in T : m <= k
  BY <1>1, Least
<1>3. \A b \in 0..Prefetch + 1 : Shifted[b] = IF b = 0 THEN 1 ELSE 2 * Shifted[b - 1]
  BY ShiftedIs DEF ShiftsTo
<1>4. m \in 0..Prefetch + 1 /\ m # 0
  BY <1>2, <1>3
<1>5. m - 1 \in 0..Prefetch + 1 /\ ~(m <= m - 1)
  BY <1>1, <1>4
<1>6. Shifted[m - 1] \in Nat /\ Shifted[m - 1] > m - 1
  BY <1>2, <1>5
<1>7. Shifted[m] = 2 * Shifted[m - 1]
  BY <1>3, <1>4
<1>8. Shifted[m] \in Nat /\ Shifted[m] > m
  BY <1>1, <1>4, <1>6, <1>7
<1> QED
  BY <1>2, <1>8

LEMMA CapacityAbove == Capacity \in Nat /\ Capacity > Prefetch
<1>1. Prefetch \in Nat /\ Prefetch + 1 \in 0..Prefetch + 1
  BY LanesAssumption
<1>2. PowersOfTwo \in SUBSET Nat
  BY ShiftedGrows DEF PowersOfTwo
<1> DEFINE T == {d \in PowersOfTwo : d > Prefetch}
<1>3. Shifted[Prefetch + 1] \in T
  BY <1>1, ShiftedGrows DEF PowersOfTwo
<1>4. T \in SUBSET Nat /\ T # {}
  BY <1>2, <1>3
<1>5. PICK c \in T : \A d \in T : c <= d
  BY <1>4, Least
<1>6. \E e \in PowersOfTwo : e > Prefetch /\ \A d \in PowersOfTwo : d > Prefetch => e <= d
  BY <1>5
<1>7. Capacity \in PowersOfTwo /\ Capacity > Prefetch
  BY <1>6 DEF Capacity
<1> QED
  BY <1>2, <1>7

(* A window short of the limit has room in the ring of the next lane.      *)
LEMMA RoomToSend ==
    ASSUME NEW i, i \in Iterator, NEW c, NEW q, RingTypes(c, q), Window(i, c, q),
           i.next - i.delivery < Limit,
           NEW w0, w0 = i.next % Lanes
    PROVE  Len(c[w0]) # Capacity
<1>1. PICK n \in Nat, d \in Nat : n = i.next /\ d = i.delivery
  BY DEF Iterator
<1>2. w0 \in Lane
  BY <1>1, TurnAt
<1>3. PICK u \in Nat, v \in Nat : u = TurnsBefore(w0, d) /\ v = TurnsBefore(w0, n)
  BY <1>1, <1>2, TurnsTyped
<1>4. u <= Got(i, c, q, w0)
  BY <1>1, <1>2, <1>3 DEF Window
<1>5. PICK a \in Nat, b \in Nat, g \in Int :
         a = Len(c[w0]) /\ b = Len(q[w0]) /\ g = Got(i, c, q, w0) /\ g + b + a = v
  <2>1. /\ i \in Iterator /\ RingTypes(c, q) /\ w0 \in Lane
        /\ v = TurnsBefore(w0, i.next)
    BY <1>1, <1>2, <1>3
  <2>2. /\ Len(c[w0]) \in Nat /\ Len(q[w0]) \in Nat /\ Got(i, c, q, w0) \in Int
        /\ Got(i, c, q, w0) + Len(q[w0]) + Len(c[w0]) = TurnsBefore(w0, i.next)
    BY ONLY <2>1, GotTyped
  <2> QED
    BY ONLY <2>1, <2>2
<1>6. Prefetch \in Nat
  BY LanesAssumption
<1>7. v - u < Prefetch
  BY <1>1, <1>3, <1>6, TurnsWithin DEF Limit
<1>8. a < Prefetch
  <2>1. u <= g
    BY <1>4, <1>5
  <2> QED
    BY ONLY a \in Nat, b \in Nat, g \in Int, u \in Nat, v \in Nat, <1>5, <1>6, <1>7, <2>1
<1>9. Capacity \in Nat /\ Capacity > Prefetch
  BY CapacityAbove
<1> QED
  BY <1>5, <1>6, <1>8, <1>9

LEMMA SendKeepsWindow ==
    ASSUME NEW i, NEW j, NEW c, NEW c2, NEW q, NEW w0, NEW d,
           Sends(i, j, c, c2, q, w0, d), Same(i, j), Window(i, c, q),
           d.task = i.next, d.index = i.drawn, d.order = i.order,
           j.drawn = i.drawn + 1, j.exhausted = FALSE, i.next # Batches
    PROVE  Window(j, c2, q)
<1>1. /\ i \in Iterator /\ j \in Iterator /\ RingTypes(c, q)
      /\ j.next = i.next + 1 /\ w0 = i.next % Lanes /\ d \in Command
  BY DEF Sends
<1>2. /\ w0 \in Lane /\ c2[w0] = Append(c[w0], d) /\ Len(c2[w0]) = Len(c[w0]) + 1
      /\ \A w \in Lane : w # w0 => c2[w] = c[w]
      /\ \A w \in Lane : Got(j, c2, q, w) = Got(i, c, q, w)
  BY SendKeepsGot DEF Sent
<1>3. PICK n \in Nat, a \in Nat : n = i.next /\ a = i.delivery
  BY <1>1 DEF Iterator
<1>4. /\ j.start = i.start /\ j.delivery = a /\ j.ready = i.ready /\ j.order = i.order
      /\ i.start \in Nat
  BY <1>1, <1>3 DEF Same, Iterator
<1>5. /\ i.start <= a /\ a <= n /\ n <= Batches /\ i.drawn = n
      /\ \A w \in Lane : TurnsBefore(w, a) <= Got(i, c, q, w)
      /\ DOMAIN i.ready = Held(i, c, q)
      /\ Indexed(i, c)
  BY <1>3 DEF Window
<1>6. Batches \in Nat
  BY LanesAssumption
<1>7. /\ j.start <= j.delivery /\ j.delivery <= j.next /\ j.next <= Batches
      /\ j.drawn = j.next /\ (j.exhausted => j.next = Batches)
  BY <1>1, <1>3, <1>4, <1>5, <1>6
<1>8. \A w \in Lane : TurnsBefore(w, j.delivery) <= Got(j, c2, q, w)
  BY <1>2, <1>4, <1>5
<1>9. Held(j, c2, q) = Held(i, c, q)
  <2>1. \A t \in Nat : Got(j, c2, q, t % Lanes) = Got(i, c, q, t % Lanes)
    BY <1>2, TaskExact
  <2>2. ~(n \div Lanes < Got(i, c, q, n % Lanes))
    <3>1. n % Lanes = w0 /\ n \div Lanes = TurnsBefore(w0, n)
      BY <1>1, <1>3, TurnAt
    <3>2. PICK x \in Nat, y \in Nat, g \in Int :
             x = Len(c[w0]) /\ y = Len(q[w0]) /\ g = Got(i, c, q, w0)
             /\ g + y + x = TurnsBefore(w0, n)
      <4>1. /\ Len(c[w0]) \in Nat /\ Len(q[w0]) \in Nat /\ Got(i, c, q, w0) \in Int
            /\ Got(i, c, q, w0) + Len(q[w0]) + Len(c[w0]) = TurnsBefore(w0, i.next)
        BY <1>1, <1>2, GotTyped
      <4> QED
        BY <1>3, <4>1
    <3>3. ~(TurnsBefore(w0, n) < g)
      BY <3>2
    <3> QED
      BY <3>1, <3>2, <3>3
  <2>3. \A t : t \in a..(j.next - 1) <=> t \in a..(n - 1) \/ t = n
    BY <1>1, <1>3, <1>5
  <2>4. \A t : t \in Held(j, c2, q) <=>
               t \in a..(j.next - 1) /\ t \div Lanes < Got(j, c2, q, t % Lanes)
    BY <1>4 DEF Held
  <2>5. \A t : t \in Held(i, c, q) <=>
               t \in a..(n - 1) /\ t \div Lanes < Got(i, c, q, t % Lanes)
    BY <1>3 DEF Held
  <2>6. \A t \in a..(j.next - 1) : t \in Nat
    BY <1>3
  <2>7. \A t : t \in Held(j, c2, q) <=> t \in Held(i, c, q)
    BY <2>1, <2>2, <2>3, <2>4, <2>5, <2>6
  <2> QED
    BY <2>7, Zenon DEF Held
<1>10. Indexed(j, c2)
  <2> SUFFICES ASSUME NEW w \in Lane, NEW k \in 1..Len(c2[w])
               PROVE  c2[w][k].index = c2[w][k].task /\ c2[w][k].order = i.order
    BY <1>4 DEF Indexed
  <2>1. CASE w # w0
    BY <1>2, <1>5, <2>1 DEF Indexed
  <2>2. CASE w = w0
    <3>1. c[w0] \in Seq(Command)
      BY <1>1, <1>2 DEF RingTypes, CommandQueue
    <3>2. k \in 1..Len(c[w0]) \/ k = Len(c[w0]) + 1
      BY <1>2, <2>2, <3>1
    <3>3. CASE k \in 1..Len(c[w0])
      <4>1. c2[w0][k] = c[w0][k]
        BY <1>2, <3>1, <3>3
      <4> QED
        BY <1>2, <1>5, <2>2, <3>3, <4>1 DEF Indexed
    <3>4. CASE k = Len(c[w0]) + 1
      <4>1. c2[w0][k] = d
        BY <1>2, <3>1, <3>4
      <4> QED
        BY <1>3, <1>5, <2>2, <4>1
    <3> QED
      BY <3>2, <3>3, <3>4
  <2> QED
    BY <2>1, <2>2
<1>11. DOMAIN j.ready = Held(j, c2, q)
  BY <1>4, <1>5, <1>9
<1> QED
  BY <1>7, <1>8, <1>10, <1>11 DEF Window

(* An iterator that starts at a task's lane goes on in task order.         *)
LEMMA LaneOfNext ==
    ASSUME NEW s, s \in Nat, NEW n, n \in Nat, s <= n
    PROVE  ((s % Lanes) + n - s) % Lanes = n % Lanes
<1>1. PICK a \in Nat, r \in 0..(Lanes - 1) : n = Lanes * a + r /\ r = n % Lanes
  BY LanesPositive, DivMod
<1>2. PICK b \in Nat, p \in 0..(Lanes - 1) : s = Lanes * b + p /\ p = s % Lanes
  BY LanesPositive, DivMod
<1>3. PICK x \in Nat, y \in Nat : x = Lanes * a /\ y = Lanes * b
  BY LanesPositive
<1>4. ~(a < b)
  <2> SUFFICES ASSUME a < b PROVE FALSE
    OBVIOUS
  <2>1. x + Lanes <= y
    BY <1>3, LanesPositive, MultipleGap
  <2> QED
    BY <1>1, <1>2, <1>3, <2>1, LanesPositive
<1>5. PICK q \in Nat : a = b + q
  <2>1. a - b \in Nat /\ a = b + (a - b)
    BY <1>4
  <2> QED
    BY <2>1
<1>6. Lanes * (b + q) = Lanes * b + Lanes * q /\ Lanes * q \in Nat
  BY LanesPositive
<1>7. (s % Lanes) + n - s = Lanes * q + r
  BY <1>1, <1>2, <1>3, <1>5, <1>6
<1>8. r \in Nat /\ r < Lanes
  BY LanesPositive
<1> QED
  <2>1. PICK z : z = (s % Lanes) + n - s
    OBVIOUS
  <2>2. Lanes \in Nat \ {0} /\ q \in Nat /\ z = Lanes * q + r
    BY <1>7, <2>1, LanesPositive
  <2>3. z % Lanes = r
    BY ONLY <1>8, <2>2, Quotient
  <2> QED
    BY <1>1, <2>1, <2>3

LEMMA StoppedIs ==
    ASSUME NEW s, s \in FillState
    PROVE  /\ Stopped(s) \in FillState
           /\ Stopped(s).it = s.it /\ Stopped(s).pending = s.pending
           /\ Stopped(s).commands = s.commands /\ Stopped(s).going = FALSE
  BY DEF Stopped, FillState

LEMMA SameSelf == \A i : Same(i, i)
  BY DEF Same

LEMMA SameThen == \A i, j, k : Same(i, j) /\ Same(j, k) => Same(i, k)
  BY DEF Same

LEMMA SameOrigin ==
    ASSUME NEW i, i \in Iterator, NEW j, j \in Iterator, Same(i, j), Origin(i),
           i.next <= j.next, j.next <= j.drawn, j.drawn <= Batches
    PROVE  Origin(j)
<1>1. /\ i.start \in Nat /\ i.next \in Nat /\ j.next \in Nat /\ j.start = i.start
      /\ i.delivery \in Nat /\ j.delivery = i.delivery
      /\ j.delivered = i.delivered /\ j.ready = i.ready
  BY DEF Iterator, Same
<1>2. j.start <= j.next
  BY <1>1 DEF Origin
<1>3. Bounded(i)
  BY DEF Origin
<1>4. DOMAIN j.ready \subseteq 0..(j.next - 1)
  <2>1. 0..(i.next - 1) \subseteq 0..(j.next - 1)
    BY <1>1
  <2> QED
    BY <1>1, <1>3, <2>1 DEF Bounded
<1>5. Bounded(j)
  BY <1>1, <1>3, <1>4 DEF Bounded
<1> QED
  BY <1>1, <1>2, <1>5 DEF Origin, Same

(* An iterator that only marks its sampler ended, or moves its sampler.    *)
LEMMA MarkKeepsRings ==
    ASSUME NEW i, NEW j, NEW p, NEW c, NEW q, Ringed(i, p, c, q), j.next = i.next
    PROVE  /\ Ringed(j, p, c, q)
           /\ \A w : Got(j, c, q, w) = Got(i, c, q, w)
<1>1. \A w : Got(j, c, q, w) = Got(i, c, q, w)
  BY DEF Got
<1>2. Waiting(j, c, q) = Waiting(i, c, q)
  BY <1>1 DEF Waiting
<1> QED
  BY <1>1, <1>2 DEF Ringed, InRings

LEMMA EndKeepsWindow ==
    ASSUME NEW i, NEW j, NEW c, NEW q, Window(i, c, q), Same(i, j),
           j.next = i.next, j.drawn = i.drawn, i.drawn = Batches
    PROVE  Window(j, c, q)
<1>1. \A w : Got(j, c, q, w) = Got(i, c, q, w)
  BY DEF Got
<1>2. Held(j, c, q) = Held(i, c, q)
  BY <1>1 DEF Held, Same
<1>3. Indexed(j, c)
  BY DEF Window, Indexed, Same
<1>4. j.next = Batches
  BY DEF Window
<1> QED
  BY <1>1, <1>2, <1>3, <1>4 DEF Window, Same

RoundPost(s, t, q, limit) ==
    /\ Filling(t, q) /\ Grown(s, t, q)
    /\ t.going =>
          /\ s.going /\ t.it.next = s.it.next + 1
          /\ Live(s.it) => t.it.next - t.it.delivery <= limit
    /\ ~t.going /\ s.going /\ Live(s.it) =>
          t.it.exhausted \/ t.it.next - t.it.delivery >= limit

RoundPre(s, q, limit) ==
    /\ OrderedMap /\ Filling(s, q) /\ RingTypes(s.commands, q)
    /\ limit \in Nat /\ limit <= Limit

LEMMA RoundTypes ==
    ASSUME NEW s, NEW q, NEW limit, RoundPre(s, q, limit)
    PROVE  /\ s \in FillState /\ s.it \in Iterator /\ s.pending \in PendingSet
           /\ s.commands \in [Lane -> CommandQueue]
           /\ s.it.next \in Nat /\ s.it.delivery \in Nat /\ s.it.drawn \in Nat
           /\ Origin(s.it) /\ Ringed(s.it, s.pending, s.commands, q)
           /\ Live(s.it) => Window(s.it, s.commands, q)
           /\ Live(s.it) => Outstanding(s) = s.it.next - s.it.delivery
           /\ limit \in Nat /\ limit <= Limit /\ OrderedMap
           /\ RingTypes(s.commands, q)
<1>1. /\ s \in FillState /\ Sound(s.it, s.pending, s.commands, q)
      /\ RingTypes(s.commands, q) /\ limit \in Nat /\ limit <= Limit /\ OrderedMap
  BY DEF RoundPre, Filling
<1>2. /\ s.it \in Iterator /\ s.pending \in PendingSet
      /\ s.commands \in [Lane -> CommandQueue]
  BY <1>1 DEF FillState
<1>3. s.it.next \in Nat /\ s.it.delivery \in Nat /\ s.it.drawn \in Nat
  BY <1>2 DEF Iterator
<1>4. /\ Origin(s.it) /\ Ringed(s.it, s.pending, s.commands, q)
      /\ Live(s.it) => Window(s.it, s.commands, q)
  BY <1>1 DEF Sound
<1>5. Live(s.it) => Outstanding(s) = s.it.next - s.it.delivery
  BY <1>1, <1>2, <1>4, WindowCounted DEF Outstanding
<1> QED
  BY <1>1, <1>2, <1>3, <1>4, <1>5

(* The loop is over, or stops short of a round.                            *)
LEMMA RoundStops ==
    ASSUME NEW s, NEW q, NEW limit, RoundPre(s, q, limit),
           ~s.going \/ s.it.exhausted \/ Outstanding(s) >= limit
    PROVE  RoundPost(s, FillRound(s, limit), q, limit)
<1>1. FillRound(s, limit) = Stopped(s)
  BY DEF FillRound
<1>2. PICK t : t = Stopped(s)
  OBVIOUS
<1>3. /\ s \in FillState /\ Sound(s.it, s.pending, s.commands, q)
  BY DEF RoundPre, Filling
<1>4. /\ t \in FillState /\ t.it = s.it /\ t.pending = s.pending
      /\ t.commands = s.commands /\ t.going = FALSE
  BY <1>2, <1>3, StoppedIs
<1>5. Filling(t, q)
  BY <1>3, <1>4 DEF Filling
<1>6. s.it.next \in Nat /\ (Live(s.it) => Outstanding(s) = s.it.next - s.it.delivery)
  BY RoundTypes
<1>7. Grown(s, t, q)
  BY <1>4, <1>6, SameSelf DEF Grown
<1>8. s.going /\ Live(s.it) => t.it.exhausted \/ t.it.next - t.it.delivery >= limit
  BY <1>4, <1>6
<1> QED
  BY <1>1, <1>2, <1>4, <1>5, <1>7, <1>8 DEF RoundPost

(* The sampler has ended.                                                  *)
LEMMA RoundEnds ==
    ASSUME NEW s, NEW q, NEW limit, RoundPre(s, q, limit),
           ~(~s.going \/ s.it.exhausted \/ Outstanding(s) >= limit),
           s.it.drawn = Batches
    PROVE  RoundPost(s, FillRound(s, limit), q, limit)
<1> DEFINE marked == [s EXCEPT !.it.exhausted = TRUE]
<1>1. FillRound(s, limit) = Stopped(marked)
  BY DEF FillRound, RoundPre, OrderedMap
<1>2. /\ s \in FillState /\ s.it \in Iterator
      /\ Origin(s.it) /\ Ringed(s.it, s.pending, s.commands, q)
      /\ Live(s.it) => Window(s.it, s.commands, q)
      /\ s.it.next \in Nat
  BY RoundTypes
<1>3. PICK i : i = [s.it EXCEPT !.exhausted = TRUE]
  OBVIOUS
<1>4. i \in Iterator
  BY <1>2, <1>3 DEF Iterator
<1>5. /\ Same(s.it, i) /\ i.next = s.it.next /\ i.drawn = s.it.drawn
      /\ i.exhausted = TRUE
  BY <1>2, <1>3 DEF Iterator, Same
<1>6. marked = [s EXCEPT !.it = i]
  BY <1>2, <1>3 DEF FillState
<1>7. /\ marked \in FillState /\ marked.it = i /\ marked.pending = s.pending
      /\ marked.commands = s.commands
  BY <1>2, <1>4, <1>6 DEF FillState
<1> HIDE DEF marked
<1>8. PICK t : t = Stopped(marked)
  OBVIOUS
<1>9. /\ t \in FillState /\ t.it = i /\ t.pending = s.pending
      /\ t.commands = s.commands /\ t.going = FALSE
  BY <1>7, <1>8, StoppedIs
<1>10. /\ Ringed(i, s.pending, s.commands, q)
       /\ \A w : Got(i, s.commands, q, w) = Got(s.it, s.commands, q, w)
  <2>1. Ringed(s.it, s.pending, s.commands, q) /\ i.next = s.it.next
    BY <1>2, <1>5
  <2> QED
    BY ONLY <2>1, MarkKeepsRings
<1>11. Live(i) => Window(i, s.commands, q)
  <2>1. Live(i) => Live(s.it)
    BY <1>5 DEF Live, Same
  <2> QED
    BY <1>2, <1>5, <2>1, EndKeepsWindow
<1>12. Origin(i)
  <2>1. s.it.next <= i.next /\ i.next <= i.drawn /\ i.drawn <= Batches
    BY <1>2, <1>5 DEF Origin, Bounded
  <2> QED
    BY <1>2, <1>4, <1>5, <2>1, SameOrigin
<1>13. Filling(t, q)
  BY <1>9, <1>10, <1>11, <1>12 DEF Filling, Sound
<1>14. Grown(s, t, q)
  BY <1>2, <1>5, <1>9, <1>10 DEF Grown
<1> QED
  BY <1>1, <1>5, <1>8, <1>9, <1>13, <1>14 DEF RoundPost

(* The lane of the round is that of the task.                              *)
LEMMA RoundChooses ==
    ASSUME NEW s, NEW q, NEW limit, RoundPre(s, q, limit),
           ~(~s.going \/ s.it.exhausted \/ Outstanding(s) >= limit),
           s.it.drawn # Batches
    PROVE  FillRound(s, limit)
              = Offer(s, s.it.next % Lanes,
                      [lanes |-> {s.it.next % Lanes}, cursor |-> s.it.cursor])
<1>1. OrderedMap /\ s.it \in Iterator /\ Origin(s.it)
  BY RoundTypes
<1>2. s.it.start \in Nat /\ s.it.next \in Nat
  BY <1>1 DEF Iterator
<1>3. (s.it.phase + s.it.next - s.it.start) % Lanes = s.it.next % Lanes
  <2>1. s.it.start <= s.it.next /\ s.it.phase = s.it.start % Lanes
    BY <1>1 DEF Origin
  <2> QED
    BY <1>2, <2>1, LaneOfNext
<1>4. NextWorker(s) = [lanes |-> {s.it.next % Lanes}, cursor |-> s.it.cursor]
  BY <1>1, <1>3 DEF NextWorker, OrderedMap
<1>5. (CHOOSE w \in {s.it.next % Lanes} : TRUE) = s.it.next % Lanes
  OBVIOUS
<1>6. {s.it.next % Lanes} # {}
  OBVIOUS
<1>7. ~config.iterable
  BY <1>1 DEF OrderedMap
<1>8. FillRound(s, limit) =
         IF NextWorker(s).lanes = {}
         THEN Stopped([s EXCEPT !.it.exhausted = TRUE, !.it.drawn = @ + 1])
         ELSE Offer(s, CHOOSE w \in NextWorker(s).lanes : TRUE, NextWorker(s))
  BY <1>7 DEF FillRound
<1> QED
  BY <1>4, <1>5, <1>6, <1>8

(* A round sends the next task, or finds the ring full, which only an      *)
(* iterator that raised can.                                               *)
LEMMA RoundSends ==
    ASSUME NEW s, NEW q, NEW limit, RoundPre(s, q, limit),
           ~(~s.going \/ s.it.exhausted \/ Outstanding(s) >= limit),
           s.it.drawn # Batches
    PROVE  RoundPost(s, FillRound(s, limit), q, limit)
<1>1. /\ s \in FillState /\ s.it \in Iterator /\ s.pending \in PendingSet
      /\ s.commands \in [Lane -> CommandQueue]
      /\ s.it.next \in Nat /\ s.it.delivery \in Nat /\ s.it.drawn \in Nat
      /\ Origin(s.it) /\ Ringed(s.it, s.pending, s.commands, q)
      /\ Live(s.it) => Window(s.it, s.commands, q)
      /\ Live(s.it) => Outstanding(s) = s.it.next - s.it.delivery
      /\ limit \in Nat /\ limit <= Limit /\ OrderedMap
      /\ RingTypes(s.commands, q)
  BY RoundTypes
<1>a. PICK n \in Nat, k \in Nat : n = s.it.next /\ k = s.it.drawn
  BY <1>1
<1>2. PICK w0 : n = s.it.next /\ k = s.it.drawn /\ w0 = n % Lanes
  BY <1>a
<1>3. w0 \in Lane /\ w0 \in Nat
  BY <1>2, TurnAt, LaneIs
<1>b. n <= k /\ k + 1 <= Batches
  <2>1. n <= k /\ k <= Batches /\ k # Batches
    BY <1>1, <1>2 DEF Origin, Bounded
  <2> QED
    BY <2>1, LanesAssumption
<1>4. PICK m \in Nat : m = s.it.cursor % Lanes
  <2>1. s.it.cursor \in Nat
    BY <1>1 DEF Iterator
  <2> QED
    BY <2>1, LanesPositive
<1>5. PICK i : i = [s.it EXCEPT !.drawn = k + 1, !.cursor = m]
  OBVIOUS
<1>6. /\ i \in Iterator /\ Same(s.it, i) /\ i.next = n /\ i.drawn = k + 1
      /\ i.exhausted = s.it.exhausted
  <2>1. PICK k1 \in Nat : k1 = k + 1
    OBVIOUS
  <2>2. i = [s.it EXCEPT !.drawn = k1, !.cursor = m]
    BY <1>5, <2>1
  <2>3. i \in Iterator
    BY <1>1, <2>2 DEF Iterator
  <2> QED
    BY <1>1, <1>2, <2>1, <2>2, <2>3 DEF Iterator, Same
<1>7. s.it.exhausted = FALSE
  BY <1>1 DEF Iterator
<1>8. PICK drawn : drawn = [s EXCEPT !.it = i]
  OBVIOUS
<1>9. /\ drawn \in FillState /\ drawn.it = i /\ drawn.pending = s.pending
      /\ drawn.commands = s.commands /\ drawn.going = s.going
  BY <1>1, <1>6, <1>8 DEF FillState
<1>10. PICK choice : choice = [lanes |-> {w0}, cursor |-> s.it.cursor]
  OBVIOUS
<1>11. FillRound(s, limit) = Offer(s, w0, choice)
  BY <1>2, <1>10, RoundChooses
<1>12. drawn = [s EXCEPT !.it.drawn = @ + 1, !.it.cursor = choice.cursor % Lanes]
  <2>1. choice.cursor % Lanes = m
    BY <1>4, <1>10
  <2>2. [s EXCEPT !.it.drawn = @ + 1, !.it.cursor = m]
           = [s EXCEPT !.it = [s.it EXCEPT !.drawn = k + 1, !.cursor = m]]
    BY <1>1, <1>2 DEF FillState, Iterator
  <2> QED
    BY <1>5, <1>8, <2>1, <2>2
<1>13. CASE Len(s.commands[w0]) = Capacity
  <2>1. FillRound(s, limit) = Stopped(drawn)
    BY <1>11, <1>12, <1>13 DEF Offer
  <2>2. PICK t : t = Stopped(drawn)
    OBVIOUS
  <2>3. /\ t \in FillState /\ t.it = i /\ t.pending = s.pending
        /\ t.commands = s.commands /\ t.going = FALSE
    BY <1>9, <2>2, StoppedIs
  <2>4. ~Live(s.it)
    <3> SUFFICES ASSUME Live(s.it) PROVE FALSE
      OBVIOUS
    <3>1. Window(s.it, s.commands, q) /\ Outstanding(s) = s.it.next - s.it.delivery
      BY <1>1
    <3>2. Limit \in Nat
      BY LanesAssumption DEF Limit
    <3>3. s.it.next - s.it.delivery < Limit
      BY <1>1, <3>1, <3>2
    <3>4. w0 = s.it.next % Lanes
      BY <1>2
    <3> QED
      BY <1>1, <1>13, <3>1, <3>3, <3>4, RoomToSend
  <2>5. /\ Ringed(i, s.pending, s.commands, q)
        /\ \A w : Got(i, s.commands, q, w) = Got(s.it, s.commands, q, w)
    <3>1. Ringed(s.it, s.pending, s.commands, q) /\ i.next = s.it.next
      BY <1>1, <1>2, <1>6
    <3> QED
      BY ONLY <3>1, MarkKeepsRings
  <2>6. Origin(i)
    <3>1. s.it.next <= i.next /\ i.next <= i.drawn /\ i.drawn <= Batches
      BY <1>2, <1>6, <1>b
    <3> QED
      BY <1>1, <1>6, <3>1, SameOrigin
  <2>7. ~Live(i)
    BY <1>6, <2>4 DEF Live, Same
  <2>8. Filling(t, q)
    BY <2>3, <2>5, <2>6, <2>7 DEF Filling, Sound
  <2>9. Grown(s, t, q)
    BY <1>1, <1>2, <1>6, <2>3, <2>5 DEF Grown
  <2> QED
    BY <2>1, <2>2, <2>3, <2>4, <2>8, <2>9 DEF RoundPost
<1>14. CASE Len(s.commands[w0]) # Capacity
  <2>1. PICK d : d = [task |-> n, index |-> k, order |-> s.it.order]
    OBVIOUS
  <2>2. d \in Command /\ d.task = n /\ d.index = k /\ d.order = s.it.order
    <3>1. s.it.order \in Nat
      BY <1>1 DEF Iterator
    <3> QED
      BY <2>1, <3>1 DEF Command
  <2>3. PICK n1 \in Nat : n1 = n + 1
    OBVIOUS
  <2>4. PICK j : j = [i EXCEPT !.next = n1]
    OBVIOUS
  <2>5. /\ j \in Iterator /\ j.next = n + 1 /\ j.drawn = k + 1 /\ j.exhausted = FALSE
        /\ Same(i, j)
    <3>1. j \in Iterator
      BY <1>6, <2>3, <2>4 DEF Iterator
    <3> QED
      BY <1>6, <1>7, <2>3, <2>4, <3>1 DEF Iterator, Same
  <2>6. Same(s.it, j)
    BY <1>6, <2>5, SameThen
  <2>7. PICK c2 : c2 = [s.commands EXCEPT ![w0] = Append(@, d)]
    OBVIOUS
  <2>8. PICK p2 : p2 = s.pending \cup {[task |-> n, worker |-> w0]}
    OBVIOUS
  <2>9. Sends(s.it, j, s.commands, c2, q, w0, d)
    BY <1>1, <1>2, <2>2, <2>5, <2>7 DEF Sends
  <2>10. /\ RingTypes(c2, q)
         /\ \A w \in Lane : Got(j, c2, q, w) = Got(s.it, s.commands, q, w)
    BY <2>9, SendKeepsGot DEF Sent
  <2>11. Ringed(j, p2, c2, q)
    <3>1. d.task = s.it.next /\ p2 = s.pending \cup {[task |-> s.it.next, worker |-> w0]}
      BY <1>2, <2>2, <2>8
    <3> QED
      BY <1>1, <2>9, <3>1, SendKeepsRings
  <2>12. PICK t : t = [drawn EXCEPT !.it = j, !.pending = p2, !.commands = c2]
    OBVIOUS
  <2>13. FillRound(s, limit) = t
    <3>1. Offer(s, w0, choice) =
             [drawn EXCEPT !.it.next = @ + 1,
                           !.pending = @ \cup {[task |-> n, worker |-> w0]},
                           !.commands[w0] = Append(@, d)]
      BY <1>2, <1>12, <1>14, <2>1 DEF Offer
    <3>2. [drawn EXCEPT !.it.next = @ + 1,
                        !.pending = @ \cup {[task |-> n, worker |-> w0]},
                        !.commands[w0] = Append(@, d)]
             = [drawn EXCEPT !.it = [i EXCEPT !.next = n + 1],
                             !.pending = s.pending \cup {[task |-> n, worker |-> w0]},
                             !.commands = [s.commands EXCEPT ![w0] = Append(@, d)]]
      BY <1>6, <1>9 DEF FillState, Iterator
    <3> QED
      BY <1>11, <2>3, <2>4, <2>7, <2>8, <2>12, <3>1, <3>2
  <2>14. p2 \in PendingSet
    <3>1. [task |-> n, worker |-> w0] \in [task : Nat, worker : Lane]
      BY <1>3
    <3> QED
      BY <1>1, <2>8, <3>1 DEF PendingSet
  <2>15. /\ t \in FillState /\ t.it = j /\ t.pending = p2 /\ t.commands = c2
         /\ t.going = s.going
    <3>1. c2 \in [Lane -> CommandQueue]
      BY <2>10 DEF RingTypes
    <3> QED
      BY <1>9, <2>5, <2>12, <2>14, <3>1 DEF FillState
  <2>16. Live(j) => Window(j, c2, q)
    <3> SUFFICES ASSUME Live(j) PROVE Window(j, c2, q)
      OBVIOUS
    <3>1. Live(s.it)
      BY <2>6 DEF Live, Same
    <3>2. Window(s.it, s.commands, q)
      BY <1>1, <3>1
    <3>3. s.it.next # Batches /\ j.drawn = s.it.drawn + 1
      BY <1>2, <2>5, <3>2 DEF Window
    <3>4. d.task = s.it.next /\ d.index = s.it.drawn /\ d.order = s.it.order
      BY <1>2, <2>2
    <3> QED
      BY <2>5, <2>6, <2>9, <3>2, <3>3, <3>4, SendKeepsWindow
  <2>17. s.it.next <= j.next
    BY <1>1, <1>2, <2>5
  <2>18. Origin(j)
    <3>1. j.next <= j.drawn /\ j.drawn <= Batches
      BY <1>b, <2>5
    <3> QED
      BY <1>1, <2>5, <2>6, <2>17, <3>1, SameOrigin
  <2>19. Filling(t, q)
    BY <2>11, <2>15, <2>16, <2>18 DEF Filling, Sound
  <2>20. p2 # {}
    BY <2>8
  <2>21. Grown(s, t, q)
    BY <2>6, <2>10, <2>15, <2>17, <2>20 DEF Grown
  <2>22. Live(s.it) => t.it.next - t.it.delivery <= limit
    <3>1. j.delivery = s.it.delivery
      BY <2>6 DEF Same
    <3>2. Live(s.it) => ~(s.it.next - s.it.delivery >= limit)
      BY <1>1
    <3> QED
      BY <1>1, <1>2, <2>5, <2>15, <3>1, <3>2
  <2>23. t.it.next = s.it.next + 1
    BY <1>2, <2>5, <2>15
  <2> QED
    BY <2>13, <2>15, <2>19, <2>21, <2>22, <2>23 DEF RoundPost
<1> QED
  BY <1>13, <1>14

LEMMA RoundKeeps ==
    ASSUME NEW s, NEW q, NEW limit, RoundPre(s, q, limit)
    PROVE  RoundPost(s, FillRound(s, limit), q, limit)
  BY RoundStops, RoundEnds, RoundSends

(* The rounds of a filling, in order.                                      *)
RoundsTo(f, s, limit, n) ==
    f = [i \in 0..n |->
            IF i = 0 THEN {[s EXCEPT !.going = TRUE]}
                     ELSE {FillRound(t, limit) : t \in f[i - 1]}]

LEMMA RoundsExist ==
    ASSUME NEW s, NEW limit, NEW n, n \in Nat
    PROVE  \E f : RoundsTo(f, s, limit, n)
<1> DEFINE T == {m \in Nat : ~\E f : RoundsTo(f, s, limit, m)}
<1> SUFFICES ASSUME T # {} PROVE FALSE
  OBVIOUS
<1>1. PICK m \in T : \A k \in T : m <= k
  BY Least
<1>2. PICK first : first = {[s EXCEPT !.going = TRUE]}
  OBVIOUS
<1>3. CASE m = 0
  <2> DEFINE g == [i \in 0..0 |-> first]
  <2>1. g = [i \in 0..0 |-> IF i = 0 THEN first
                                     ELSE {FillRound(t, limit) : t \in g[i - 1]}]
    OBVIOUS
  <2> QED
    BY <1>1, <1>2, <1>3, <2>1 DEF RoundsTo
<1>4. CASE m # 0
  <2>1. m - 1 \in Nat /\ ~(m <= m - 1)
    BY <1>1, <1>4
  <2>2. PICK f : RoundsTo(f, s, limit, m - 1)
    BY <1>1, <2>1
  <2> DEFINE After(h, i) == IF i = 0 THEN first
                                     ELSE {FillRound(t, limit) : t \in h[i - 1]}
             g == [i \in 0..m |-> After(f, i)]
  <2>3. \A i \in 0..(m - 1) : f[i] = g[i]
    <3>1. f = [i \in 0..(m - 1) |-> After(f, i)]
      BY <1>2, <2>2 DEF RoundsTo
    <3>2. \A i \in 0..(m - 1) : i \in 0..m
      BY <1>1
    <3> HIDE DEF After
    <3>3. \A i \in 0..(m - 1) : f[i] = After(f, i)
      BY <3>1
    <3>4. \A i \in 0..(m - 1) : g[i] = After(f, i)
      BY <3>2
    <3> QED
      BY <3>3, <3>4
  <2>4. \A i \in 0..m : i # 0 => i - 1 \in 0..(m - 1)
    BY <1>1
  <2>5. \A i \in 0..m : After(f, i) = After(g, i)
    <3> HIDE DEF g
    <3> QED
      BY <2>3, <2>4
  <2>6. g = [i \in 0..m |-> After(g, i)]
    <3>1. g = [i \in 0..m |-> After(f, i)]
      OBVIOUS
    <3> HIDE DEF g, After
    <3> QED
      BY <2>5, <3>1
  <2>7. RoundsTo(g, s, limit, m)
    <3> HIDE DEF g
    <3> QED
      BY <1>2, <2>6 DEF RoundsTo
  <2> QED
    BY <1>1, <2>7
<1> QED
  BY <1>3, <1>4

LEMMA FilledIs ==
    ASSUME NEW s, NEW limit
    PROVE  \E f : RoundsTo(f, s, limit, Limit + 1) /\ Filled(s, limit) = f[Limit + 1]
<1>1. Limit + 1 \in Nat
  BY LanesAssumption DEF Limit
<1>2. PICK f : RoundsTo(f, s, limit, Limit + 1)
  BY <1>1, RoundsExist
<1>3. PICK g : g = CHOOSE h : h = [i \in 0..Limit + 1 |->
            IF i = 0 THEN {[s EXCEPT !.going = TRUE]}
                     ELSE {FillRound(t, limit) : t \in h[i - 1]}]
  OBVIOUS
<1>4. RoundsTo(g, s, limit, Limit + 1)
  BY <1>2, <1>3 DEF RoundsTo
<1>5. Filled(s, limit) = g[Limit + 1]
  BY <1>3 DEF Filled
<1> QED
  BY <1>4, <1>5

LEMMA GrownThen ==
    ASSUME NEW s, NEW t, NEW u, NEW q, Grown(s, t, q), Grown(t, u, q),
           s.it \in Iterator, t.it \in Iterator, u.it \in Iterator
    PROVE  Grown(s, u, q)
<1>1. Same(s.it, u.it)
  BY SameThen DEF Grown
<1>2. s.it.next <= u.it.next
  <2>1. s.it.next \in Nat /\ t.it.next \in Nat /\ u.it.next \in Nat
    BY DEF Iterator
  <2> QED
    BY <2>1 DEF Grown
<1>3. \A w \in Lane : Got(u.it, u.commands, q, w) = Got(s.it, s.commands, q, w)
  BY DEF Grown
<1>4. \/ u.pending # {}
      \/ u.pending = s.pending /\ u.commands = s.commands /\ u.it.next = s.it.next
  BY DEF Grown
<1> QED
  BY <1>1, <1>2, <1>3, <1>4 DEF Grown

(* What holds after a number of rounds.                                    *)
After(s, t, q, limit, n) ==
    /\ Filling(t, q) /\ Grown(s, t, q)
    /\ Live(s.it) =>
          /\ t.going => /\ t.it.next = s.it.next + n
                        /\ n = 0 \/ t.it.next - t.it.delivery <= limit
          /\ ~t.going => t.it.exhausted \/ t.it.next - t.it.delivery >= limit

LEMMA RoundAfter ==
    ASSUME NEW s, NEW q, NEW limit, RoundPre(s, q, limit),
           NEW t, NEW n, n \in Nat, After(s, t, q, limit, n)
    PROVE  After(s, FillRound(t, limit), q, limit, n + 1)
<1>1. PICK u : u = FillRound(t, limit)
  OBVIOUS
<1>2. /\ OrderedMap /\ q \in [Lane -> AnswerQueue] /\ limit \in Nat /\ limit <= Limit
      /\ s.it \in Iterator /\ s.it.next \in Nat
  BY RoundTypes DEF RoundPre, RingTypes
<1>3. Filling(t, q) /\ Grown(s, t, q) /\ t \in FillState
  BY DEF After, Filling
<1>4. RingTypes(t.commands, q) /\ t.it \in Iterator
  BY <1>2, <1>3 DEF RingTypes, FillState
<1>5. RoundPre(t, q, limit)
  BY <1>2, <1>3, <1>4 DEF RoundPre
<1>6. RoundPost(t, u, q, limit)
  BY <1>1, <1>5, RoundKeeps
<1>7. Filling(u, q) /\ Grown(t, u, q) /\ u.it \in Iterator
  BY <1>6 DEF RoundPost, Filling, FillState
<1>8. Grown(s, u, q)
  BY <1>2, <1>3, <1>4, <1>7, GrownThen
<1>9. ASSUME Live(s.it)
      PROVE  /\ u.going => /\ u.it.next = s.it.next + (n + 1)
                           /\ u.it.next - u.it.delivery <= limit
             /\ ~u.going => u.it.exhausted \/ u.it.next - u.it.delivery >= limit
  <2>1. Live(t.it)
    BY <1>3, <1>9 DEF Grown, Same, Live
  <2>2. CASE u.going
    <3>1. t.going /\ u.it.next = t.it.next + 1 /\ u.it.next - u.it.delivery <= limit
      BY <1>6, <2>1, <2>2 DEF RoundPost
    <3>2. t.it.next = s.it.next + n
      BY <1>9, <3>1 DEF After
    <3>3. u.it.next = s.it.next + (n + 1)
      BY <1>2, <3>1, <3>2
    <3> QED
      BY <2>2, <3>1, <3>3
  <2>3. CASE ~u.going
    <3>1. CASE t.going
      BY <1>6, <2>1, <2>3, <3>1 DEF RoundPost
    <3>2. CASE ~t.going
      <4>1. u.it = t.it
        BY <1>1, <1>3, <3>2, StoppedIs DEF FillRound
      <4> QED
        BY <1>9, <2>3, <3>2, <4>1 DEF After
    <3> QED
      BY <3>1, <3>2
  <2> QED
    BY <2>2, <2>3
<1> QED
  BY <1>1, <1>7, <1>8, <1>9 DEF After

FillPost(s, t, q, limit) ==
    /\ Filling(t, q) /\ Grown(s, t, q) /\ RingTypes(t.commands, q)
    /\ Live(s.it) => t.it.exhausted \/ t.it.next - t.it.delivery >= limit

(* The loop keeps the rings and the window, and stops at the sampler's end *)
(* or with the limit under way.                                            *)
LEMMA FillKeeps ==
    ASSUME NEW s, NEW q, NEW limit, RoundPre(s, q, limit),
           NEW t, t \in Filled(s, limit)
    PROVE  FillPost(s, t, q, limit)
<1>1. PICK f : RoundsTo(f, s, limit, Limit + 1) /\ Filled(s, limit) = f[Limit + 1]
  BY FilledIs
<1>2. /\ s \in FillState /\ s.it \in Iterator /\ q \in [Lane -> AnswerQueue]
      /\ limit \in Nat /\ limit <= Limit /\ s.it.next \in Nat /\ s.it.delivery \in Nat
      /\ Filling(s, q)
  BY RoundTypes DEF RoundPre, RingTypes
<1>3. PICK last \in Nat : last = Limit + 1
  BY LanesAssumption DEF Limit
<1> DEFINE T == {n \in 0..last : \E u \in f[n] : ~After(s, u, q, limit, n)}
<1>4. \A n \in 0..last : f[n] = IF n = 0 THEN {[s EXCEPT !.going = TRUE]}
                                         ELSE {FillRound(u, limit) : u \in f[n - 1]}
  BY <1>1, <1>3 DEF RoundsTo
<1>5. T = {}
  <2> SUFFICES ASSUME T # {} PROVE FALSE
    OBVIOUS
  <2>1. T \in SUBSET Nat
    BY <1>3
  <2>2. PICK n \in T : \A k \in T : n <= k
    BY <2>1, Least
  <2>3. n \in 0..last /\ n \in Nat
    BY <1>3, <2>2
  <2>4. CASE n = 0
    <3>1. PICK u : u = [s EXCEPT !.going = TRUE]
      OBVIOUS
    <3>2. /\ u \in FillState /\ u.it = s.it /\ u.pending = s.pending
          /\ u.commands = s.commands /\ u.going = TRUE
      BY <1>2, <3>1 DEF FillState
    <3>3. Filling(u, q)
      BY <1>2, <3>2 DEF Filling
    <3>4. Grown(s, u, q)
      BY <1>2, <3>2, SameSelf DEF Grown
    <3>5. After(s, u, q, limit, 0)
      BY <1>2, <3>2, <3>3, <3>4 DEF After
    <3>6. f[n] = {u}
      BY <1>4, <2>3, <2>4, <3>1
    <3> HIDE DEF T
    <3>7. \E v \in f[n] : ~After(s, v, q, limit, n)
      BY <2>2 DEF T
    <3> QED
      BY <2>4, <3>5, <3>6, <3>7
  <2>5. CASE n # 0
    <3>1. PICK m \in Nat : n = m + 1 /\ m \in 0..last
      <4>1. n - 1 \in Nat /\ n = (n - 1) + 1 /\ n - 1 \in 0..last
        BY <1>3, <2>3, <2>5
      <4> QED
        BY <4>1
    <3>2. ~(n <= m)
      BY <3>1
    <3>3. \A u \in f[m] : After(s, u, q, limit, m)
      BY <2>2, <3>1, <3>2
    <3>4. f[n] = {FillRound(u, limit) : u \in f[m]}
      <4>1. n - 1 = m
        BY <3>1
      <4> QED
        BY <1>4, <2>3, <2>5, <4>1
    <3>5. \A u \in f[m] : After(s, FillRound(u, limit), q, limit, m + 1)
      BY <3>1, <3>3, RoundAfter
    <3>6. \E v \in f[n] : ~After(s, v, q, limit, n)
      BY <2>2
    <3> QED
      BY <3>1, <3>4, <3>5, <3>6
  <2> QED
    BY <2>4, <2>5
<1>6. After(s, t, q, limit, last)
  BY <1>1, <1>3, <1>5
<1>7. Filling(t, q) /\ Grown(s, t, q) /\ t \in FillState
  BY <1>6 DEF After, Filling
<1>8. RingTypes(t.commands, q) /\ t.it \in Iterator
  BY <1>2, <1>7 DEF RingTypes, FillState
<1>9. ASSUME Live(s.it), t.going PROVE FALSE
  <2>1. t.it.next = s.it.next + last /\ (last = 0 \/ t.it.next - t.it.delivery <= limit)
    BY <1>6, <1>9 DEF After
  <2>2. Window(s.it, s.commands, q)
    BY <1>2, <1>9 DEF Filling, Sound
  <2>3. s.it.delivery <= s.it.next /\ t.it.delivery = s.it.delivery
    BY <1>7, <2>2 DEF Window, Grown, Same
  <2>4. Limit \in Nat
    BY LanesAssumption DEF Limit
  <2> QED
    BY <1>2, <1>3, <2>1, <2>3, <2>4
<1>10. Live(s.it) => t.it.exhausted \/ t.it.next - t.it.delivery >= limit
  BY <1>6, <1>9 DEF After
<1> QED
  BY <1>7, <1>8, <1>10 DEF FillPost

(* A lane answers its first command.                                       *)
Answering(i, c, q, c2, q2, w0, v) ==
    /\ i \in Iterator /\ RingTypes(c, q) /\ w0 \in Lane
    /\ c[w0] # << >> /\ v \in Outcome
    /\ c2 = [c EXCEPT ![w0] = Tail(@)]
    /\ q2 = [q EXCEPT ![w0] = Append(@, [task |-> Head(c[w0]).task, value |-> v])]

Answered(i, c, q, c2, q2, w0, v) ==
    /\ RingTypes(c2, q2)
    /\ \A w \in Lane : w # w0 => c2[w] = c[w] /\ q2[w] = q[w]
    /\ Len(c[w0]) = Len(c2[w0]) + 1 /\ Len(q2[w0]) = Len(q[w0]) + 1
    /\ \A k \in 1..Len(c2[w0]) : c2[w0][k] = c[w0][k + 1]
    /\ \A k \in 1..Len(q[w0]) : q2[w0][k] = q[w0][k]
    /\ q2[w0][Len(q[w0]) + 1] = [task |-> c[w0][1].task, value |-> v]
    /\ c[w0][1] \in Command
    /\ \A w \in Lane : Got(i, c2, q2, w) = Got(i, c, q, w)

LEMMA AnswerKeepsGot ==
    ASSUME NEW i, NEW c, NEW q, NEW c2, NEW q2, NEW w0, NEW v,
           Answering(i, c, q, c2, q2, w0, v)
    PROVE  Answered(i, c, q, c2, q2, w0, v)
<1>0. /\ i \in Iterator /\ RingTypes(c, q) /\ w0 \in Lane
      /\ c[w0] # << >> /\ v \in Outcome
      /\ c2 = [c EXCEPT ![w0] = Tail(@)]
      /\ q2 = [q EXCEPT ![w0] = Append(@, [task |-> Head(c[w0]).task, value |-> v])]
  BY DEF Answering
<1>1. /\ c \in [Lane -> CommandQueue] /\ q \in [Lane -> AnswerQueue]
      /\ c[w0] \in Seq(Command) /\ q[w0] \in Seq(Completion)
  BY <1>0 DEF RingTypes, CommandQueue, AnswerQueue
<1>2. /\ Len(c[w0]) \in Nat \ {0} /\ Head(c[w0]) = c[w0][1] /\ c[w0][1] \in Command
      /\ Tail(c[w0]) \in Seq(Command) /\ Len(Tail(c[w0])) = Len(c[w0]) - 1
      /\ \A k \in 1..Len(Tail(c[w0])) : Tail(c[w0])[k] = c[w0][k + 1]
  BY <1>0, <1>1
<1>3. PICK d : d = [task |-> c[w0][1].task, value |-> v]
  OBVIOUS
<1>4. d \in Completion
  <2>1. c[w0][1].task \in Nat
    BY <1>2 DEF Command
  <2> QED
    BY <1>0, <1>3, <2>1 DEF Completion
<1>5. /\ Append(q[w0], d) \in Seq(Completion) /\ Len(Append(q[w0], d)) = Len(q[w0]) + 1
      /\ \A k \in 1..Len(q[w0]) : Append(q[w0], d)[k] = q[w0][k]
      /\ Append(q[w0], d)[Len(q[w0]) + 1] = d
      /\ Len(q[w0]) \in Nat
  BY <1>1, <1>4
<1>6. /\ c2[w0] = Tail(c[w0]) /\ c2 \in [Lane -> CommandQueue]
      /\ \A w \in Lane : w # w0 => c2[w] = c[w]
  BY <1>0, <1>1, <1>2 DEF CommandQueue
<1>7. /\ q2[w0] = Append(q[w0], d) /\ q2 \in [Lane -> AnswerQueue]
      /\ \A w \in Lane : w # w0 => q2[w] = q[w]
  <2>1. q2 = [q EXCEPT ![w0] = Append(@, d)]
    BY <1>0, <1>2, <1>3
  <2> QED
    BY <1>0, <1>1, <1>5, <2>1 DEF AnswerQueue
<1>8. RingTypes(c2, q2)
  BY <1>6, <1>7 DEF RingTypes
<1>9. Len(c[w0]) = Len(c2[w0]) + 1 /\ Len(q2[w0]) = Len(q[w0]) + 1
  BY <1>2, <1>5, <1>6, <1>7
<1>10. ASSUME NEW w, w \in Lane PROVE Got(i, c2, q2, w) = Got(i, c, q, w)
  <2>1. /\ Len(c[w]) \in Nat /\ Len(q[w]) \in Nat
        /\ Got(i, c, q, w) + Len(q[w]) + Len(c[w]) = TurnsBefore(w, i.next)
        /\ Got(i, c, q, w) \in Int
    BY <1>0, <1>10, GotTyped
  <2>2. /\ Len(c2[w]) \in Nat /\ Len(q2[w]) \in Nat
        /\ Got(i, c2, q2, w) + Len(q2[w]) + Len(c2[w]) = TurnsBefore(w, i.next)
        /\ Got(i, c2, q2, w) \in Int
    BY <1>0, <1>8, <1>10, GotTyped
  <2>3. CASE w = w0
    <3>1. Len(c[w]) = Len(c2[w]) + 1 /\ Len(q2[w]) = Len(q[w]) + 1
      BY <1>9, <2>3
    <3>2. PICK a \in Nat, b \in Nat, g \in Int :
             a = Len(c2[w]) /\ b = Len(q[w]) /\ g = Got(i, c, q, w)
      BY <2>1, <2>2
    <3>3. PICK h \in Int : h = Got(i, c2, q2, w)
      BY <2>2
    <3>4. g + b + (a + 1) = TurnsBefore(w, i.next)
      BY <2>1, <3>1, <3>2
    <3>5. h + (b + 1) + a = TurnsBefore(w, i.next)
      BY <2>2, <3>1, <3>2, <3>3
    <3>6. g + b + (a + 1) = h + (b + 1) + a
      BY <3>4, <3>5
    <3>7. g = h
      BY ONLY a \in Nat, b \in Nat, g \in Int, h \in Int, <3>6
    <3> QED
      BY <3>2, <3>3, <3>7
  <2>4. CASE w # w0
    BY <1>6, <1>7, <1>10, <2>4 DEF Got
  <2> QED
    BY <2>3, <2>4
<1> QED
  BY <1>2, <1>3, <1>5, <1>6, <1>7, <1>8, <1>9, <1>10 DEF Answered

LEMMA AnswerKeepsRings ==
    ASSUME NEW i, NEW c, NEW q, NEW c2, NEW q2, NEW w0, NEW v,
           Answering(i, c, q, c2, q2, w0, v),
           NEW p, Sound(i, p, c, q)
    PROVE  Sound(i, p, c2, q2)
<1>0. i \in Iterator /\ RingTypes(c, q) /\ w0 \in Lane
  BY DEF Answering
<1>1. Answered(i, c, q, c2, q2, w0, v)
  BY AnswerKeepsGot
<1>2. /\ Origin(i) /\ InRings(i, c, q) /\ p = Posted(Waiting(i, c, q))
      /\ Live(i) => Window(i, c, q)
  BY DEF Sound, Ringed
<1>3. /\ \A w \in Lane : Got(i, c2, q2, w) = Got(i, c, q, w)
      /\ \A w \in Lane : w # w0 => c2[w] = c[w] /\ q2[w] = q[w]
  BY <1>1 DEF Answered
<1>4. \A t \in Nat : Got(i, c2, q2, t % Lanes) = Got(i, c, q, t % Lanes)
  BY <1>3, TaskExact
<1>5. PICK n \in Nat, a \in Nat : n = i.next /\ a = i.delivery
  BY <1>0 DEF Iterator
<1>6. Waiting(i, c2, q2) = Waiting(i, c, q)
  <2>1. \A t \in 0..(n - 1) : t \in Nat
    BY <1>5
  <2>2. \A t : t \in Waiting(i, c2, q2) <=> t \in Waiting(i, c, q)
    BY <1>4, <1>5, <2>1 DEF Waiting
  <2> QED
    BY <2>2, Zenon DEF Waiting
<1>7. Held(i, c2, q2) = Held(i, c, q)
  <2>1. \A t \in a..(n - 1) : t \in Nat
    BY <1>5
  <2>2. \A t : t \in Held(i, c2, q2) <=> t \in Held(i, c, q)
    BY <1>4, <1>5, <2>1 DEF Held
  <2> QED
    BY <2>2, Zenon DEF Held
<1>8. PICK g \in Int, x \in Nat, y \in Nat :
         /\ g = Got(i, c, q, w0) /\ x = Len(q[w0]) /\ y = Len(c2[w0])
         /\ Len(q2[w0]) = x + 1 /\ Len(c[w0]) = y + 1
  <2>1. Got(i, c, q, w0) \in Int /\ Len(q[w0]) \in Nat
    BY <1>0, GotTyped
  <2>2. Len(c2[w0]) \in Nat
    BY <1>0, <1>1, GotTyped DEF Answered
  <2> QED
    BY <1>1, <2>1, <2>2 DEF Answered
<1>9. InRings(i, c2, q2)
  <2> SUFFICES ASSUME NEW w \in Lane
               PROVE  /\ Got(i, c2, q2, w) >= 0
                      /\ \A k \in 1..Len(q2[w]) :
                            q2[w][k].task = Task(w, Got(i, c2, q2, w) + k - 1)
                      /\ \A k \in 1..Len(c2[w]) :
                            c2[w][k].task = Task(w, Got(i, c2, q2, w) + Len(q2[w]) + k - 1)
    BY DEF InRings
  <2>1. /\ Got(i, c, q, w) >= 0
        /\ \A k \in 1..Len(q[w]) : q[w][k].task = Task(w, Got(i, c, q, w) + k - 1)
        /\ \A k \in 1..Len(c[w]) :
              c[w][k].task = Task(w, Got(i, c, q, w) + Len(q[w]) + k - 1)
    BY <1>2 DEF InRings
  <2>2. CASE w # w0
    <3>1. c2[w] = c[w] /\ q2[w] = q[w] /\ Got(i, c2, q2, w) = Got(i, c, q, w)
      BY <1>3, <2>2
    <3> QED
      BY <2>1, <3>1
  <2>3. CASE w = w0
    <3>1. \A k \in 1..(y + 1) : c[w0][k].task = Task(w0, g + x + k - 1)
      BY <1>8, <2>1, <2>3
    <3>2. ASSUME NEW k \in 1..y PROVE c2[w0][k].task = Task(w0, g + (x + 1) + k - 1)
      <4>1. c2[w0][k] = c[w0][k + 1]
        BY <1>1, <1>8 DEF Answered
      <4>2. k + 1 \in 1..(y + 1) /\ g + x + (k + 1) - 1 = g + (x + 1) + k - 1
        BY <1>8
      <4> QED
        BY <3>1, <4>1, <4>2
    <3>3. ASSUME NEW k \in 1..(x + 1) PROVE q2[w0][k].task = Task(w0, g + k - 1)
      <4>1. CASE k \in 1..x
        <5>1. q2[w0][k] = q[w0][k]
          BY <1>1, <1>8, <4>1 DEF Answered
        <5> QED
          BY <1>8, <2>1, <2>3, <4>1, <5>1
      <4>2. CASE k = x + 1
        <5>1. q2[w0][k].task = c[w0][1].task
          BY <1>1, <1>8, <4>2 DEF Answered
        <5>2. 1 \in 1..(y + 1) /\ g + x + 1 - 1 = g + k - 1
          BY <1>8, <4>2
        <5> QED
          BY <3>1, <5>1, <5>2
      <4> QED
        BY <4>1, <4>2
    <3>4. Got(i, c2, q2, w0) = g /\ g >= 0
      BY <1>3, <1>8, <2>1, <2>3
    <3> QED
      BY <1>8, <2>3, <3>2, <3>3, <3>4
  <2> QED
    BY <2>2, <2>3
<1>10. ASSUME Window(i, c, q) PROVE Window(i, c2, q2)
  <2>1. \A w \in Lane : TurnsBefore(w, i.delivery) <= Got(i, c2, q2, w)
    BY <1>3, <1>10 DEF Window
  <2>2. Indexed(i, c2)
    <3> SUFFICES ASSUME NEW w \in Lane, NEW k \in 1..Len(c2[w])
                 PROVE  c2[w][k].index = c2[w][k].task /\ c2[w][k].order = i.order
      BY DEF Indexed
    <3>1. \A u \in Lane : \A m \in 1..Len(c[u]) :
              c[u][m].index = c[u][m].task /\ c[u][m].order = i.order
      BY <1>10 DEF Window, Indexed
    <3>2. CASE w # w0
      BY <1>3, <3>1, <3>2
    <3>3. CASE w = w0
      <4>1. c2[w0][k] = c[w0][k + 1]
        BY <1>1, <3>3 DEF Answered
      <4>2. k + 1 \in 1..Len(c[w0])
        BY <1>8, <3>3
      <4> QED
        BY <1>0, <3>1, <3>3, <4>1, <4>2
    <3> QED
      BY <3>2, <3>3
  <2> QED
    BY <1>7, <1>10, <2>1, <2>2 DEF Window
<1> QED
  BY <1>2, <1>6, <1>9, <1>10 DEF Sound, Ringed

(* A fetch answers with the value of the undisturbed lane, and leaves the  *)
(* lane at its next turn.                                                  *)
Fetches(i, c, q, c2, q2, w0, v, r, r2) ==
    /\ Answering(i, c, q, c2, q2, w0, v) /\ Live(i)
    /\ Faithful(i, c, q, r) /\ r \in [Lane -> RandomState]
    /\ r2 \in [Lane -> RandomState]
    /\ \A w \in Lane : w # w0 => r2[w] = r[w]
    /\ \/ v = Error
       \/ /\ v = [worker |-> w0, random |-> r[w0], index |-> c[w0][1].index,
                  order |-> c[w0][1].order]
          /\ r2[w0] = Random(r[w0].seed, r[w0].draws + 1)

LEMMA FetchKeepsFaithful ==
    ASSUME NEW i, NEW c, NEW q, NEW c2, NEW q2, NEW w0, NEW v, NEW r, NEW r2,
           Fetches(i, c, q, c2, q2, w0, v, r, r2), NEW p, Sound(i, p, c, q)
    PROVE  Faithful(i, c2, q2, r2)
<1> /\ Answering(i, c, q, c2, q2, w0, v) /\ Live(i)
    /\ Faithful(i, c, q, r) /\ r \in [Lane -> RandomState]
    /\ r2 \in [Lane -> RandomState]
    /\ \A w \in Lane : w # w0 => r2[w] = r[w]
    /\ \/ v = Error
       \/ /\ v = [worker |-> w0, random |-> r[w0], index |-> c[w0][1].index,
                  order |-> c[w0][1].order]
          /\ r2[w0] = Random(r[w0].seed, r[w0].draws + 1)
  BY DEF Fetches
<1>0. i \in Iterator /\ RingTypes(c, q) /\ w0 \in Lane /\ v \in Outcome
  BY DEF Answering
<1>1. Answered(i, c, q, c2, q2, w0, v)
  BY AnswerKeepsGot
<1>2. /\ Origin(i) /\ InRings(i, c, q) /\ Window(i, c, q)
  BY DEF Sound, Ringed
<1>3. /\ \A w \in Lane : Got(i, c2, q2, w) = Got(i, c, q, w)
      /\ \A w \in Lane : w # w0 => c2[w] = c[w] /\ q2[w] = q[w]
  BY <1>1 DEF Answered
<1>4. PICK n \in Nat : n = i.next /\ n <= Batches
  BY <1>0, <1>2 DEF Iterator, Window
<1>5. PICK g \in Nat, x \in Nat, y \in Nat :
         /\ g = Got(i, c, q, w0) /\ x = Len(q[w0]) /\ y = Len(c2[w0])
         /\ Len(q2[w0]) = x + 1 /\ Len(c[w0]) = y + 1
         /\ g + x + (y + 1) = TurnsBefore(w0, n)
  <2>1. /\ Got(i, c, q, w0) \in Int /\ Len(q[w0]) \in Nat
        /\ Got(i, c, q, w0) + Len(q[w0]) + Len(c[w0]) = TurnsBefore(w0, i.next)
    BY <1>0, GotTyped
  <2>2. Len(c2[w0]) \in Nat
    BY <1>0, <1>1, GotTyped DEF Answered
  <2>3. Got(i, c, q, w0) >= 0
    BY <1>0, <1>2 DEF InRings
  <2>4. Len(q2[w0]) = Len(q[w0]) + 1 /\ Len(c[w0]) = Len(c2[w0]) + 1
    BY <1>1 DEF Answered
  <2>5. Got(i, c, q, w0) \in Nat
    BY ONLY <2>1, <2>3
  <2>6. Got(i, c, q, w0) + Len(q[w0]) + (Len(c2[w0]) + 1) = TurnsBefore(w0, n)
    BY <1>4, <2>1, <2>4
  <2> QED
    BY ONLY <2>1, <2>2, <2>4, <2>5, <2>6
<1>6. PICK b \in Nat : b = Batches
  BY LanesAssumption
<1>7. TurnsBefore(w0, n) <= TurnsBefore(w0, b) /\ TurnsBefore(w0, n) \in Nat /\ TurnsBefore(w0, b) \in Nat
  BY <1>0, <1>4, <1>6, TurnsOrdered, TurnsTyped
<1>8. \A k \in 1..x : q2[w0][k] = q[w0][k]
  BY <1>1, <1>5 DEF Answered
<1>9. q2[w0][x + 1] = [task |-> c[w0][1].task, value |-> v]
  BY <1>1, <1>5 DEF Answered
<1>10. Clean(q2[w0], x + 1) => Clean(q[w0], x) /\ v # Error
  <2> SUFFICES ASSUME Clean(q2[w0], x + 1) PROVE Clean(q[w0], x) /\ v # Error
    OBVIOUS
  <2>1. \A j \in 1..(x + 1) : q2[w0][j].value # Error
    BY DEF Clean
  <2>2. x + 1 \in 1..(x + 1) /\ \A j \in 1..x : j \in 1..(x + 1)
    OBVIOUS
  <2>3. v # Error
    BY <1>9, <2>1, <2>2
  <2>4. \A j \in 1..x : q[w0][j].value # Error
    BY <1>8, <2>1, <2>2
  <2> QED
    BY <2>3, <2>4 DEF Clean
<1>11. ASSUME Clean(q[w0], x), v # Error
       PROVE  /\ v = Exact(i, c[w0][1].task)
              /\ r2[w0] = Advanced(i, w0, g + (x + 1))
  <2>1. g + x < TurnsBefore(w0, b)
    <3>1. g + x < g + x + (y + 1)
      OBVIOUS
    <3>2. g + x + (y + 1) = TurnsBefore(w0, n)
      BY <1>5
    <3> QED
      BY ONLY g \in Nat, x \in Nat, y \in Nat, <1>7, <3>1, <3>2
  <2>2. r[w0] = Advanced(i, w0, g + x)
    BY <1>0, <1>5, <1>6, <1>11, <2>1 DEF Faithful
  <2>3. 1 \in 1..Len(c[w0]) /\ g + x + 1 - 1 = g + x
    BY <1>5
  <2>4. c[w0][1].task = Task(w0, g + x)
    BY <1>0, <1>2, <1>5, <2>3 DEF InRings
  <2>5. c[w0][1].index = c[w0][1].task /\ c[w0][1].order = i.order
    BY <1>0, <1>2, <2>3 DEF Window, Indexed
  <2>6. i.order = i.story.order
    BY <1>2 DEF Origin
  <2>7. Task(w0, g + x) % Lanes = w0 /\ Task(w0, g + x) \div Lanes = g + x
    <3>1. g + x \in Nat
      OBVIOUS
    <3> QED
      BY <1>0, <3>1, TaskTyped
  <2>8. v = [worker |-> w0, random |-> r[w0], index |-> c[w0][1].index,
             order |-> c[w0][1].order]
    BY <1>11
  <2>9. v = Exact(i, c[w0][1].task)
    BY <2>2, <2>4, <2>5, <2>6, <2>7, <2>8 DEF Exact
  <2>10. r2[w0] = Random(r[w0].seed, r[w0].draws + 1)
    BY <1>11
  <2>11. i.story.random[w0].draws \in Int
    BY <1>0 DEF Iterator, Tale, Snapshots, RandomState
  <2>12. PICK e \in Int : e = i.story.random[w0].draws
    BY <2>11
  <2>13. r[w0].seed = i.story.random[w0].seed /\ r[w0].draws = e + (g + x)
    BY <2>2, <2>12 DEF Advanced, Random
  <2>14. e + (g + x) + 1 = e + (g + (x + 1))
    OBVIOUS
  <2>15. r2[w0] = Random(i.story.random[w0].seed, e + (g + (x + 1)))
    BY <2>10, <2>13, <2>14
  <2> QED
    BY <2>9, <2>12, <2>15 DEF Advanced
<1>12. ASSUME NEW w \in Lane, NEW k \in 1..Len(q2[w]), Clean(q2[w], k)
       PROVE  q2[w][k].value = Exact(i, q2[w][k].task)
  <2>1. CASE w # w0
    BY <1>3, <1>12, <2>1 DEF Faithful
  <2>2. CASE w = w0 /\ k \in 1..x
    <3>1. \A j \in 1..k : q2[w0][j] = q[w0][j]
      BY <1>8, <2>2
    <3>2. Clean(q[w0], k)
      BY <1>12, <2>2, <3>1 DEF Clean
    <3>3. q[w0][k].value = Exact(i, q[w0][k].task)
      BY <1>0, <1>5, <2>2, <3>2 DEF Faithful
    <3> QED
      BY <1>8, <2>2, <3>3
  <2>3. CASE w = w0 /\ k = x + 1
    <3>1. v = Exact(i, c[w0][1].task)
      BY <1>10, <1>11, <1>12, <2>3
    <3> QED
      BY <1>9, <2>3, <3>1
  <2>4. w = w0 => k \in 1..x \/ k = x + 1
    BY <1>5
  <2> QED
    BY <2>1, <2>2, <2>3, <2>4
<1>13. ASSUME NEW w \in Lane, Clean(q2[w], Len(q2[w])),
              Got(i, c2, q2, w) + Len(q2[w]) < TurnsBefore(w, Batches)
       PROVE  r2[w] = Advanced(i, w, Got(i, c2, q2, w) + Len(q2[w]))
  <2>1. CASE w # w0
    BY <1>3, <1>13, <2>1 DEF Faithful
  <2>2. CASE w = w0
    BY <1>3, <1>5, <1>10, <1>11, <1>13, <2>2
  <2> QED
    BY <2>1, <2>2
<1>14. \A t \in DOMAIN i.ready : i.ready[t] = Exact(i, t)
  BY DEF Faithful
<1> QED
  BY <1>12, <1>13, <1>14 DEF Faithful

(* The owner takes the first answer of a lane.                             *)
Taking(i, j, c, q, q2, w0) ==
    /\ i \in Iterator /\ j \in Iterator /\ j.next = i.next
    /\ RingTypes(c, q) /\ w0 \in Lane /\ q[w0] # << >>
    /\ q2 = [q EXCEPT ![w0] = Tail(@)]

Took(i, j, c, q, q2, w0) ==
    /\ RingTypes(c, q2)
    /\ \A w \in Lane : w # w0 => q2[w] = q[w]
    /\ Len(q[w0]) = Len(q2[w0]) + 1
    /\ \A k \in 1..Len(q2[w0]) : q2[w0][k] = q[w0][k + 1]
    /\ q[w0][1] \in Completion /\ Head(q[w0]) = q[w0][1]
    /\ \A w \in Lane : w # w0 => Got(j, c, q2, w) = Got(i, c, q, w)
    /\ Got(j, c, q2, w0) = Got(i, c, q, w0) + 1

LEMMA TakeMovesGot ==
    ASSUME NEW i, NEW j, NEW c, NEW q, NEW q2, NEW w0, Taking(i, j, c, q, q2, w0)
    PROVE  Took(i, j, c, q, q2, w0)
<1>0. /\ i \in Iterator /\ j \in Iterator /\ j.next = i.next
      /\ RingTypes(c, q) /\ w0 \in Lane /\ q[w0] # << >>
      /\ q2 = [q EXCEPT ![w0] = Tail(@)]
  BY DEF Taking
<1>1. c \in [Lane -> CommandQueue] /\ q \in [Lane -> AnswerQueue] /\ q[w0] \in Seq(Completion)
  BY <1>0 DEF RingTypes, AnswerQueue
<1>2. /\ Len(q[w0]) \in Nat \ {0} /\ Head(q[w0]) = q[w0][1] /\ q[w0][1] \in Completion
      /\ Tail(q[w0]) \in Seq(Completion) /\ Len(Tail(q[w0])) = Len(q[w0]) - 1
      /\ \A k \in 1..Len(Tail(q[w0])) : Tail(q[w0])[k] = q[w0][k + 1]
  BY <1>0, <1>1
<1>3. /\ q2[w0] = Tail(q[w0]) /\ q2 \in [Lane -> AnswerQueue]
      /\ \A w \in Lane : w # w0 => q2[w] = q[w]
  BY <1>0, <1>1, <1>2 DEF AnswerQueue
<1>4. RingTypes(c, q2)
  BY <1>1, <1>3 DEF RingTypes
<1>5. Len(q[w0]) = Len(q2[w0]) + 1
  BY <1>2, <1>3
<1>6. \A w \in Lane : w # w0 => Got(j, c, q2, w) = Got(i, c, q, w)
  BY <1>0, <1>3 DEF Got
<1>7. Got(j, c, q2, w0) = Got(i, c, q, w0) + 1
  <2>1. PICK a \in Nat, b \in Nat, g \in Int :
           /\ a = Len(c[w0]) /\ b = Len(q2[w0]) /\ g = Got(i, c, q, w0)
           /\ g + (b + 1) + a = TurnsBefore(w0, i.next)
    <3>1. /\ Len(c[w0]) \in Nat /\ Got(i, c, q, w0) \in Int
          /\ Got(i, c, q, w0) + Len(q[w0]) + Len(c[w0]) = TurnsBefore(w0, i.next)
      BY <1>0, GotTyped
    <3>2. Len(q2[w0]) \in Nat
      BY <1>0, <1>4, GotTyped
    <3> QED
      BY <1>5, <3>1, <3>2
  <2>2. PICK h \in Int : h = Got(j, c, q2, w0) /\ h + b + a = TurnsBefore(w0, i.next)
    <3>1. /\ Got(j, c, q2, w0) \in Int
          /\ Got(j, c, q2, w0) + Len(q2[w0]) + Len(c[w0]) = TurnsBefore(w0, j.next)
      BY <1>0, <1>4, GotTyped
    <3> QED
      BY <1>0, <2>1, <3>1
  <2>3. g + (b + 1) + a = h + b + a
    BY <2>1, <2>2
  <2>4. h = g + 1
    BY ONLY a \in Nat, b \in Nat, g \in Int, h \in Int, <2>3
  <2> QED
    BY <2>1, <2>2, <2>4
<1> QED
  BY <1>2, <1>3, <1>4, <1>5, <1>6, <1>7 DEF Took

(* The first answer of a lane is that of its next turn to be taken.        *)
LEMMA FirstAnswer ==
    ASSUME NEW i, NEW j, NEW c, NEW q, NEW q2, NEW w0, Taking(i, j, c, q, q2, w0),
           InRings(i, c, q)
    PROVE  /\ Got(i, c, q, w0) \in Nat
           /\ q[w0][1].task = Task(w0, Got(i, c, q, w0))
           /\ q[w0][1].task \in 0..(i.next - 1)
           /\ q[w0][1].task % Lanes = w0
           /\ q[w0][1].task \div Lanes = Got(i, c, q, w0)
<1>0. /\ i \in Iterator /\ RingTypes(c, q) /\ w0 \in Lane
  BY DEF Taking
<1>1. PICK n \in Nat : n = i.next
  BY <1>0 DEF Iterator
<1>2. PICK g \in Nat : g = Got(i, c, q, w0)
  <2>1. Got(i, c, q, w0) \in Int /\ Got(i, c, q, w0) >= 0
    BY <1>0, GotTyped DEF InRings
  <2> QED
    BY ONLY <2>1
<1>3. PICK x \in Nat : x + 1 = Len(q[w0])
  <2>1. Took(i, j, c, q, q2, w0)
    BY TakeMovesGot
  <2>2. Len(q2[w0]) \in Nat
    BY <1>0, <2>1, GotTyped DEF Took
  <2> QED
    BY <2>1, <2>2 DEF Took
<1>4. q[w0][1].task = Task(w0, g)
  <2>1. 1 \in 1..Len(q[w0]) /\ g + 1 - 1 = g
    BY <1>3
  <2> QED
    BY <1>0, <1>2, <2>1 DEF InRings
<1>5. g < TurnsBefore(w0, n)
  <2>1. /\ Len(c[w0]) \in Nat
        /\ Got(i, c, q, w0) + Len(q[w0]) + Len(c[w0]) = TurnsBefore(w0, i.next)
    BY <1>0, GotTyped
  <2>2. PICK y \in Nat : y = Len(c[w0])
    BY <2>1
  <2>3. g + (x + 1) + y = TurnsBefore(w0, n)
    BY <1>1, <1>2, <1>3, <2>1, <2>2
  <2>4. g < g + (x + 1) + y
    OBVIOUS
  <2> QED
    BY <2>3, <2>4
<1>6. Task(w0, g) < n /\ Task(w0, g) \in Nat
  BY <1>0, <1>1, <1>5, TaskBelow, TaskTyped
<1>7. Task(w0, g) % Lanes = w0 /\ Task(w0, g) \div Lanes = g
  BY <1>0, TaskTyped
<1> QED
  BY <1>1, <1>2, <1>4, <1>6, <1>7

LEMMA TakeKeepsRings ==
    ASSUME NEW i, NEW j, NEW c, NEW q, NEW q2, NEW w0, Taking(i, j, c, q, q2, w0),
           NEW p, Ringed(i, p, c, q)
    PROVE  Ringed(j, p \ {[task |-> q[w0][1].task, worker |-> w0]}, c, q2)
<1>0. /\ i \in Iterator /\ j.next = i.next /\ RingTypes(c, q) /\ w0 \in Lane
  BY DEF Taking
<1>1. Took(i, j, c, q, q2, w0)
  BY TakeMovesGot
<1>2. InRings(i, c, q) /\ p = Posted(Waiting(i, c, q))
  BY DEF Ringed
<1>3. PICK t0, g : t0 = q[w0][1].task /\ g = Got(i, c, q, w0)
  OBVIOUS
<1>4. /\ g \in Nat /\ t0 = Task(w0, g) /\ t0 \in 0..(i.next - 1)
      /\ t0 % Lanes = w0 /\ t0 \div Lanes = g
  BY <1>2, <1>3, FirstAnswer
<1>5. PICK n \in Nat : n = i.next
  BY <1>0 DEF Iterator
<1>6. /\ \A w \in Lane : w # w0 => Got(j, c, q2, w) = Got(i, c, q, w) /\ q2[w] = q[w]
      /\ Got(j, c, q2, w0) = g + 1
  BY <1>1, <1>3 DEF Took
<1>7. PICK x \in Nat : Len(q2[w0]) = x /\ Len(q[w0]) = x + 1
  <2>1. Len(q2[w0]) \in Nat
    BY <1>0, <1>1, GotTyped DEF Took
  <2> QED
    BY <1>1, <2>1 DEF Took
<1>8. InRings(j, c, q2)
  <2> SUFFICES ASSUME NEW w \in Lane
               PROVE  /\ Got(j, c, q2, w) >= 0
                      /\ \A k \in 1..Len(q2[w]) :
                            q2[w][k].task = Task(w, Got(j, c, q2, w) + k - 1)
                      /\ \A k \in 1..Len(c[w]) :
                            c[w][k].task = Task(w, Got(j, c, q2, w) + Len(q2[w]) + k - 1)
    BY DEF InRings
  <2>1. /\ Got(i, c, q, w) >= 0
        /\ \A k \in 1..Len(q[w]) : q[w][k].task = Task(w, Got(i, c, q, w) + k - 1)
        /\ \A k \in 1..Len(c[w]) :
              c[w][k].task = Task(w, Got(i, c, q, w) + Len(q[w]) + k - 1)
    BY <1>2 DEF InRings
  <2>2. CASE w # w0
    <3>1. q2[w] = q[w] /\ Got(j, c, q2, w) = Got(i, c, q, w)
      BY <1>6, <2>2
    <3> QED
      BY <2>1, <3>1
  <2>3. CASE w = w0
    <3>1. ASSUME NEW k \in 1..x PROVE q2[w0][k].task = Task(w0, (g + 1) + k - 1)
      <4>1. q2[w0][k] = q[w0][k + 1]
        BY <1>1, <1>7 DEF Took
      <4>2. k + 1 \in 1..(x + 1) /\ g + (k + 1) - 1 = (g + 1) + k - 1
        BY <1>4
      <4> QED
        BY <1>3, <1>7, <2>1, <2>3, <4>1, <4>2
    <3>2. Len(c[w0]) \in Nat
      BY <1>0, GotTyped
    <3>3. ASSUME NEW k \in 1..Len(c[w0]) PROVE c[w0][k].task = Task(w0, (g + 1) + x + k - 1)
      <4>1. g + (x + 1) + k - 1 = (g + 1) + x + k - 1
        BY <1>4, <3>2
      <4> QED
        BY <1>3, <1>7, <2>1, <2>3, <4>1
    <3>4. g + 1 >= 0
      BY <1>4
    <3> QED
      BY <1>6, <1>7, <2>3, <3>1, <3>3, <3>4
  <2> QED
    BY <2>2, <2>3
<1>9. Waiting(j, c, q2) = Waiting(i, c, q) \ {t0}
  <2>1. \A t \in Nat : t % Lanes # w0 => Got(j, c, q2, t % Lanes) = Got(i, c, q, t % Lanes)
    BY <1>6, TaskExact
  <2>2. \A t \in Nat : t % Lanes = w0 =>
            (t \div Lanes >= Got(j, c, q2, t % Lanes)
                <=> t \div Lanes >= g /\ t # t0)
    <3> SUFFICES ASSUME NEW t \in Nat, t % Lanes = w0
                 PROVE  t \div Lanes >= g + 1 <=> t \div Lanes >= g /\ t # t0
      BY <1>6
    <3>1. t \div Lanes \in Nat /\ t = Task(w0, t \div Lanes)
      BY TaskExact
    <3>2. t = t0 <=> t \div Lanes = g
      BY <1>4, <3>1
    <3> QED
      BY <1>4, <3>1, <3>2
  <2>3. \A t \in 0..(n - 1) : t \in Nat
    BY <1>5
  <2>4. \A t : t \in Waiting(j, c, q2) <=>
               t \in 0..(n - 1) /\ t \div Lanes >= Got(j, c, q2, t % Lanes)
    BY <1>0, <1>5 DEF Waiting
  <2>5. \A t : t \in Waiting(i, c, q) <=>
               t \in 0..(n - 1) /\ t \div Lanes >= Got(i, c, q, t % Lanes)
    BY <1>5 DEF Waiting
  <2>6. \A t \in Nat : t % Lanes # w0 => t # t0
    BY <1>4
  <2>7. \A t \in 0..(n - 1) :
            t \div Lanes >= Got(j, c, q2, t % Lanes)
               <=> t \div Lanes >= Got(i, c, q, t % Lanes) /\ t # t0
    <3> SUFFICES ASSUME NEW t \in 0..(n - 1)
                 PROVE  t \div Lanes >= Got(j, c, q2, t % Lanes)
                           <=> t \div Lanes >= Got(i, c, q, t % Lanes) /\ t # t0
      OBVIOUS
    <3>1. CASE t % Lanes = w0
      BY <1>3, <2>2, <2>3, <3>1
    <3>2. CASE t % Lanes # w0
      BY <2>1, <2>3, <2>6, <3>2
    <3> QED
      BY <3>1, <3>2
  <2>8. \A t : t \in Waiting(j, c, q2) <=> t \in Waiting(i, c, q) /\ t # t0
    BY <2>4, <2>5, <2>7
  <2> QED
    BY <2>8
<1>10. p \ {[task |-> t0, worker |-> w0]} = Posted(Waiting(j, c, q2))
  <2>1. Posted(Waiting(i, c, q) \ {t0})
           = Posted(Waiting(i, c, q)) \ {[task |-> t0, worker |-> t0 % Lanes]}
    BY DEF Posted
  <2> QED
    BY <1>2, <1>4, <1>9, <2>1
<1> QED
  BY <1>3, <1>8, <1>10 DEF Ringed

(* _accept, of a value: it is ready.                                       *)
Accepting(i, j, task, value) ==
    /\ j.ready = [t \in DOMAIN i.ready \cup {task} |->
                     IF t = task THEN value ELSE i.ready[t]]
    /\ j.start = i.start /\ j.delivery = i.delivery /\ j.next = i.next
    /\ j.drawn = i.drawn /\ j.exhausted = i.exhausted /\ j.order = i.order
    /\ j.story = i.story

LEMMA TakeKeepsWindow ==
    ASSUME NEW i, NEW j, NEW c, NEW q, NEW q2, NEW w0, Taking(i, j, c, q, q2, w0),
           InRings(i, c, q), Window(i, c, q),
           NEW value, Accepting(i, j, q[w0][1].task, value)
    PROVE  Window(j, c, q2)
<1>0. /\ i \in Iterator /\ RingTypes(c, q) /\ w0 \in Lane
  BY DEF Taking
<1>1. Took(i, j, c, q, q2, w0)
  BY TakeMovesGot
<1>2. PICK t0, g : t0 = q[w0][1].task /\ g = Got(i, c, q, w0)
  OBVIOUS
<1>3. /\ g \in Nat /\ t0 = Task(w0, g) /\ t0 \in 0..(i.next - 1)
      /\ t0 % Lanes = w0 /\ t0 \div Lanes = g
  BY <1>2, FirstAnswer
<1>4. PICK n \in Nat, a \in Nat : n = i.next /\ a = i.delivery
  BY <1>0 DEF Iterator
<1>5. /\ \A w \in Lane : w # w0 => Got(j, c, q2, w) = Got(i, c, q, w)
      /\ Got(j, c, q2, w0) = g + 1
  BY <1>1, <1>2 DEF Took
<1>6. \A w \in Lane : TurnsBefore(w, j.delivery) <= Got(j, c, q2, w)
  <2> SUFFICES ASSUME NEW w \in Lane PROVE TurnsBefore(w, a) <= Got(j, c, q2, w)
    BY <1>4 DEF Accepting
  <2>1. TurnsBefore(w, a) <= Got(i, c, q, w) /\ TurnsBefore(w, a) \in Nat
    BY <1>4, TurnsTyped DEF Window
  <2> QED
    BY <1>2, <1>3, <1>5, <2>1
<1>7. ~(t0 < a)
  <2>1. TurnsBefore(w0, a) <= g /\ TurnsBefore(w0, a) \in Nat
    BY <1>0, <1>2, <1>4, TurnsTyped DEF Window
  <2>2. ~(g < TurnsBefore(w0, a))
    BY <1>3, <2>1
  <2> QED
    BY <1>0, <1>3, <1>4, <2>2, TaskBelow
<1>8. Held(j, c, q2) = Held(i, c, q) \cup {t0}
  <2>1. \A t \in Nat : t % Lanes # w0 => Got(j, c, q2, t % Lanes) = Got(i, c, q, t % Lanes)
    BY <1>5, TaskExact
  <2>2. \A t \in Nat : t % Lanes = w0 =>
            (t \div Lanes < Got(j, c, q2, t % Lanes) <=> t \div Lanes < g \/ t = t0)
    <3> SUFFICES ASSUME NEW t \in Nat, t % Lanes = w0
                 PROVE  t \div Lanes < g + 1 <=> t \div Lanes < g \/ t = t0
      BY <1>5
    <3>1. t \div Lanes \in Nat /\ t = Task(w0, t \div Lanes)
      BY TaskExact
    <3>2. t = t0 <=> t \div Lanes = g
      BY <1>3, <3>1
    <3> QED
      BY <1>3, <3>1, <3>2
  <2>3. \A t \in a..(n - 1) : t \in Nat
    BY <1>4
  <2>4. \A t : t \in Held(j, c, q2) <=>
               t \in a..(n - 1) /\ t \div Lanes < Got(j, c, q2, t % Lanes)
    BY <1>4 DEF Held, Accepting
  <2>5. \A t : t \in Held(i, c, q) <=>
               t \in a..(n - 1) /\ t \div Lanes < Got(i, c, q, t % Lanes)
    BY <1>4 DEF Held
  <2>6. \A t \in Nat : t % Lanes # w0 => t # t0
    BY <1>3
  <2>7. \A t \in a..(n - 1) :
            t \div Lanes < Got(j, c, q2, t % Lanes)
               <=> t \div Lanes < Got(i, c, q, t % Lanes) \/ t = t0
    <3> SUFFICES ASSUME NEW t \in a..(n - 1)
                 PROVE  t \div Lanes < Got(j, c, q2, t % Lanes)
                           <=> t \div Lanes < Got(i, c, q, t % Lanes) \/ t = t0
      OBVIOUS
    <3>1. CASE t % Lanes = w0
      BY <1>2, <2>2, <2>3, <3>1
    <3>2. CASE t % Lanes # w0
      BY <2>1, <2>3, <2>6, <3>2
    <3> QED
      BY <3>1, <3>2
  <2>8. t0 \in a..(n - 1)
    BY <1>3, <1>4, <1>7
  <2>9. \A t : t \in Held(j, c, q2) <=> t \in Held(i, c, q) \/ t = t0
    BY <2>4, <2>5, <2>7, <2>8
  <2> QED
    BY <2>9
<1>9. DOMAIN j.ready = Held(j, c, q2)
  BY <1>2, <1>8 DEF Window, Accepting
<1>10. Indexed(j, c)
  BY DEF Window, Indexed, Accepting
<1> QED
  BY <1>6, <1>9, <1>10 DEF Window, Accepting

LEMMA TakeKeepsFaithful ==
    ASSUME NEW i, NEW j, NEW c, NEW q, NEW q2, NEW w0, Taking(i, j, c, q, q2, w0),
           InRings(i, c, q), NEW r, Faithful(i, c, q, r),
           NEW value, value = q[w0][1].value, value # Error,
           Accepting(i, j, q[w0][1].task, value)
    PROVE  Faithful(j, c, q2, r)
<1>0. /\ i \in Iterator /\ RingTypes(c, q) /\ w0 \in Lane
  BY DEF Taking
<1>1. Took(i, j, c, q, q2, w0)
  BY TakeMovesGot
<1>2. PICK g : g = Got(i, c, q, w0)
  OBVIOUS
<1>3. g \in Nat
  BY <1>2, FirstAnswer
<1>4. /\ \A w \in Lane : w # w0 => Got(j, c, q2, w) = Got(i, c, q, w) /\ q2[w] = q[w]
      /\ Got(j, c, q2, w0) = g + 1
  BY <1>1, <1>2 DEF Took
<1>5. PICK x \in Nat : Len(q2[w0]) = x /\ Len(q[w0]) = x + 1
  <2>1. Len(q2[w0]) \in Nat
    BY <1>0, <1>1, GotTyped DEF Took
  <2> QED
    BY <1>1, <2>1 DEF Took
<1>6. \A t : Exact(j, t) = Exact(i, t)
  BY DEF Exact, Advanced, Accepting
<1>7. \A w, n : Advanced(j, w, n) = Advanced(i, w, n)
  BY DEF Advanced, Accepting
<1>8. value = Exact(i, q[w0][1].task)
  <2>1. 1 \in 1..Len(q[w0]) /\ \A k \in 1..1 : k = 1
    BY <1>5
  <2>2. Clean(q[w0], 1)
    BY <2>1 DEF Clean
  <2> QED
    BY <1>0, <2>1, <2>2 DEF Faithful
<1>9. \A t \in DOMAIN j.ready : j.ready[t] = Exact(j, t)
  <2>1. \A t \in DOMAIN i.ready : i.ready[t] = Exact(i, t)
    BY DEF Faithful
  <2> QED
    BY <1>6, <1>8, <2>1 DEF Accepting
<1>10. \A k \in 0..x : Clean(q2[w0], k) => Clean(q[w0], k + 1)
  <2> SUFFICES ASSUME NEW k \in 0..x, Clean(q2[w0], k), NEW m \in 1..(k + 1)
               PROVE  q[w0][m].value # Error
    BY DEF Clean
  <2>1. CASE m = 1
    BY <2>1
  <2>2. CASE m # 1
    <3>1. PICK l \in 1..k : m = l + 1
      <4>1. m - 1 \in 1..k /\ m = (m - 1) + 1
        BY <2>2
      <4> QED
        BY <4>1
    <3>2. l \in 1..x
      BY <3>1
    <3>3. q2[w0][l] = q[w0][l + 1]
      BY <1>1, <1>5, <3>2 DEF Took
    <3> QED
      BY <3>1, <3>3 DEF Clean
  <2> QED
    BY <2>1, <2>2
<1>11. ASSUME NEW w \in Lane, NEW k \in 1..Len(q2[w]), Clean(q2[w], k)
       PROVE  q2[w][k].value = Exact(j, q2[w][k].task)
  <2>1. CASE w # w0
    BY <1>4, <1>6, <1>11, <2>1 DEF Faithful
  <2>2. CASE w = w0
    <3>1. k \in 0..x /\ k \in 1..x /\ k + 1 \in 1..Len(q[w0])
      BY <1>5, <2>2
    <3>2. Clean(q[w0], k + 1)
      BY <1>10, <1>11, <2>2, <3>1
    <3>3. q[w0][k + 1].value = Exact(i, q[w0][k + 1].task)
      BY <1>0, <3>1, <3>2 DEF Faithful
    <3>4. q2[w0][k] = q[w0][k + 1]
      BY <1>1, <1>5, <3>1 DEF Took
    <3> QED
      BY <1>6, <2>2, <3>3, <3>4
  <2> QED
    BY <2>1, <2>2
<1>12. ASSUME NEW w \in Lane, Clean(q2[w], Len(q2[w])),
              Got(j, c, q2, w) + Len(q2[w]) < TurnsBefore(w, Batches)
       PROVE  r[w] = Advanced(j, w, Got(j, c, q2, w) + Len(q2[w]))
  <2>1. CASE w # w0
    BY <1>4, <1>7, <1>12, <2>1 DEF Faithful
  <2>2. CASE w = w0
    <3>1. Clean(q[w0], x + 1)
      BY <1>5, <1>10, <1>12, <2>2
    <3>2. (g + 1) + x = g + (x + 1)
      BY <1>3
    <3>3. g + (x + 1) < TurnsBefore(w0, Batches)
      BY <1>4, <1>5, <1>12, <2>2, <3>2
    <3>4. r[w0] = Advanced(i, w0, g + (x + 1))
      BY <1>0, <1>2, <1>5, <3>1, <3>3 DEF Faithful
    <3> QED
      BY <1>4, <1>5, <1>7, <2>2, <3>2, <3>4
  <2> QED
    BY <2>1, <2>2
<1> QED
  BY <1>9, <1>11, <1>12 DEF Faithful

(* Iterators that differ only in what the user sees of them.               *)
Alike(i, j) ==
    /\ j.order = i.order /\ j.start = i.start /\ j.drawn = i.drawn
    /\ j.next = i.next /\ j.delivery = i.delivery /\ j.phase = i.phase
    /\ j.exhausted = i.exhausted /\ j.ready = i.ready /\ j.began = i.began
    /\ j.reused = i.reused /\ j.seed = i.seed /\ j.story = i.story

LEMMA AlikeKeepsRings ==
    ASSUME NEW i, NEW j, Alike(i, j), Live(j) => Live(i), j.delivered <= j.delivery,
           NEW p, NEW c, NEW q, Sound(i, p, c, q)
    PROVE  Sound(j, p, c, q)
<1>1. Origin(j)
  BY DEF Sound, Origin, Bounded, Alike
<1>2. \A w : Got(j, c, q, w) = Got(i, c, q, w)
  BY DEF Got, Alike
<1>3. Waiting(j, c, q) = Waiting(i, c, q) /\ Held(j, c, q) = Held(i, c, q)
  BY <1>2 DEF Waiting, Held, Alike
<1>4. Ringed(j, p, c, q)
  BY <1>2, <1>3 DEF Sound, Ringed, InRings
<1>5. Window(i, c, q) => Window(j, c, q)
  BY <1>2, <1>3 DEF Window, Indexed, Alike
<1> QED
  BY <1>1, <1>4, <1>5 DEF Sound

LEMMA AlikeKeepsFaithful ==
    ASSUME NEW i, NEW j, Alike(i, j),
           NEW c, NEW q, NEW r, Faithful(i, c, q, r), Spread(i)
    PROVE  Faithful(j, c, q, r) /\ Spread(j)
<1>1. /\ \A w : Got(j, c, q, w) = Got(i, c, q, w)
      /\ \A w, n : Advanced(j, w, n) = Advanced(i, w, n)
      /\ j.ready = i.ready /\ j.story = i.story
  BY DEF Got, Advanced, Alike
<1>2. \A t : Exact(j, t) = Exact(i, t)
  BY <1>1 DEF Exact
<1>3. Faithful(j, c, q, r)
  BY <1>1, <1>2 DEF Faithful
<1>4. Spread(j)
  BY DEF Spread, Alike
<1> QED
  BY <1>3, <1>4

(* A filling moves no answer, and leaves a batch of every lane under way.  *)
LEMMA FillKeepsFaithful ==
    ASSUME NEW s, NEW t, NEW q, NEW r, Grown(s, t, q),
           Faithful(s.it, s.commands, q, r)
    PROVE  Faithful(t.it, t.commands, q, r)
<1>1. /\ \A w \in Lane : Got(t.it, t.commands, q, w) = Got(s.it, s.commands, q, w)
      /\ t.it.story = s.it.story /\ t.it.ready = s.it.ready
  BY DEF Grown, Same
<1>2. /\ \A w, n : Advanced(t.it, w, n) = Advanced(s.it, w, n)
  BY <1>1 DEF Advanced
<1>3. \A k : Exact(t.it, k) = Exact(s.it, k)
  BY <1>1, <1>2 DEF Exact
<1> QED
  BY <1>1, <1>2, <1>3 DEF Faithful

LEMMA FillSpreads ==
    ASSUME NEW s, NEW t, NEW q, NEW limit, FillPost(s, t, q, limit),
           limit \in {Limit, Prefetch}, Live(t.it)
    PROVE  Spread(t.it)
<1>1. t \in FillState /\ Window(t.it, t.commands, q) /\ Live(s.it)
  BY DEF FillPost, Filling, Sound, Grown, Same, Live
<1>2. t.it.next \in Nat /\ t.it.delivery \in Nat
  BY <1>1 DEF FillState, Iterator
<1>3. t.it.exhausted => t.it.next = Batches
  BY <1>1 DEF Window
<1>4. Prefetch \in Nat /\ Lanes \in Nat
  BY LanesAssumption
<1>5. Prefetch <= Limit /\ Limit \in Nat
  <2>1. \E m \in Nat : Lanes = m + 1
    <3>1. Lanes - 1 \in Nat /\ Lanes = (Lanes - 1) + 1
      BY LanesPositive
    <3> QED
      BY <3>1
  <2>2. PICK m \in Nat : Lanes = m + 1
    BY <2>1
  <2>3. (m + 1) * Prefetch = m * Prefetch + Prefetch /\ m * Prefetch \in Nat
    BY <1>4
  <2> QED
    BY <1>4, <2>2, <2>3 DEF Limit
<1>6. t.it.exhausted \/ t.it.next - t.it.delivery >= limit
  BY <1>1 DEF FillPost
<1> QED
  BY <1>2, <1>3, <1>4, <1>5, <1>6 DEF Spread

(* Handing out a task: it leaves the window.                               *)
Handing(i, p, c, q, task) ==
    /\ i \in Iterator /\ RingTypes(c, q) /\ OrderedMap /\ Sound(i, p, c, q)
    /\ task = i.delivery /\ task \in DOMAIN i.ready

Handed(i, j, task) ==
    /\ j \in Iterator
    /\ j.ready = [t \in DOMAIN i.ready \ {task} |-> i.ready[t]]
    /\ j.delivery = task + 1
    /\ j.valid = i.valid /\ j.closed = i.closed /\ j.complete = i.complete
    /\ j.raised = i.raised /\ j.order = i.order /\ j.start = i.start
    /\ j.drawn = i.drawn /\ j.next = i.next /\ j.phase = i.phase
    /\ j.exhausted = i.exhausted /\ j.delivered = i.delivered /\ j.seen = i.seen
    /\ j.began = i.began /\ j.reused = i.reused /\ j.seed = i.seed
    /\ j.story = i.story

LEMMA HandIs ==
    ASSUME NEW i, NEW p, NEW c, NEW q, NEW task, Handing(i, p, c, q, task)
    PROVE  Handed(i, Without(i, task), task)
<1>0. i \in Iterator /\ OrderedMap /\ task = i.delivery
  BY DEF Handing
<1>1. PICK k \in Nat : k = i.delivery + 1
  BY <1>0 DEF Iterator
<1>2. PICK left : left = [t \in DOMAIN i.ready \ {task} |-> i.ready[t]]
  OBVIOUS
<1>3. left \in ReadySet
  <2>1. PICK D \in SUBSET Nat : i.ready \in [D -> Result]
    BY <1>0 DEF Iterator, ReadySet
  <2>2. left \in [D \ {task} -> Result] /\ D \ {task} \in SUBSET Nat
    BY <1>2, <2>1
  <2> QED
    BY <2>2 DEF ReadySet
<1>4. PICK j : j = [i EXCEPT !.ready = left, !.delivery = k]
  OBVIOUS
<1>5. Without(i, task) = j
  <2>1. ArrivalPast(i.arrival) = i.arrival
    BY <1>0 DEF ArrivalPast, OrderedMap
  <2>2. Without(i, task) = [i EXCEPT !.ready = left, !.arrival = i.arrival, !.delivery = k]
    BY <1>0, <1>1, <1>2, <2>1 DEF Without, Iterator
  <2> QED
    BY <1>0, <1>4, <2>2 DEF Iterator
<1>6. j \in Iterator
  BY <1>0, <1>3, <1>4 DEF Iterator
<1> QED
  BY <1>0, <1>1, <1>2, <1>4, <1>5, <1>6 DEF Iterator, Handed

LEMMA HandKeepsRings ==
    ASSUME NEW i, NEW p, NEW c, NEW q, NEW task, Handing(i, p, c, q, task),
           NEW j, Handed(i, j, task)
    PROVE  Sound(j, p, c, q)
<1>0. /\ i \in Iterator /\ j \in Iterator /\ RingTypes(c, q) /\ Sound(i, p, c, q)
      /\ task = i.delivery /\ task \in DOMAIN i.ready
  BY DEF Handing, Handed
<1>1. Origin(j)
  <2>1. Origin(i)
    BY <1>0 DEF Sound
  <2>2. PICK n \in Nat, a \in Nat, d \in Nat :
            n = i.next /\ a = i.delivery /\ d = i.delivered
    BY <1>0 DEF Iterator
  <2>3. d <= a /\ a \in 0..(n - 1) /\ DOMAIN i.ready \subseteq 0..(n - 1)
    BY <1>0, <2>1, <2>2 DEF Origin, Bounded
  <2>4. j.delivered = d /\ j.delivery = a + 1 /\ j.next = n
        /\ DOMAIN j.ready \subseteq DOMAIN i.ready
    BY <1>0, <2>2 DEF Handed
  <2>5. Bounded(j)
    BY <2>1, <2>2, <2>3, <2>4 DEF Origin, Bounded, Handed
  <2> QED
    BY <1>0, <2>1, <2>5 DEF Origin, Handed
<1>2. \A w : Got(j, c, q, w) = Got(i, c, q, w)
  BY DEF Got, Handed
<1>3. Ringed(j, p, c, q)
  <2>1. Waiting(j, c, q) = Waiting(i, c, q)
    BY <1>2 DEF Waiting, Handed
  <2> QED
    BY <1>0, <1>2, <2>1 DEF Sound, Ringed, InRings
<1>4. ASSUME Live(j) PROVE Window(j, c, q)
  <2>1. Window(i, c, q)
    BY <1>0, <1>4 DEF Sound, Handed, Live
  <2>2. PICK n \in Nat, a \in Nat : n = i.next /\ a = i.delivery
    BY <1>0 DEF Iterator
  <2>3. a \in a..(n - 1) /\ a \div Lanes < Got(i, c, q, a % Lanes)
    BY <1>0, <2>1, <2>2 DEF Window, Held
  <2>4. j.delivery = a + 1 /\ j.next = n /\ j.start = i.start /\ i.start \in Nat
    BY <1>0, <2>2 DEF Handed, Iterator
  <2>5. j.start <= j.delivery /\ j.delivery <= j.next /\ i.start <= a
    BY <2>1, <2>2, <2>3, <2>4 DEF Window
  <2>6. ASSUME NEW w \in Lane PROVE TurnsBefore(w, a + 1) <= Got(i, c, q, w)
    <3>1. TurnsBefore(w, a + 1) = IF a % Lanes = w THEN TurnsBefore(w, a) + 1 ELSE TurnsBefore(w, a)
      BY <2>2, TurnsNext
    <3>2. TurnsBefore(w, a) <= Got(i, c, q, w) /\ Got(i, c, q, w) \in Int
      BY <1>0, <2>1, <2>2, GotTyped DEF Window
    <3>3. a % Lanes = w => TurnsBefore(w, a) = a \div Lanes
      BY <2>2, TurnAt
    <3>4. TurnsBefore(w, a) \in Nat
      BY <2>2, TurnsTyped
    <3>5. a % Lanes = w => TurnsBefore(w, a) < Got(i, c, q, w)
      BY <2>3, <3>3
    <3> QED
      BY <3>1, <3>2, <3>4, <3>5
  <2>7. Held(j, c, q) = Held(i, c, q) \ {a}
    <3>1. \A t : t \in (a + 1)..(n - 1) <=> t \in a..(n - 1) /\ t # a
      BY <2>2
    <3>2. \A t : t \in Held(j, c, q) <=>
                 t \in (a + 1)..(n - 1) /\ t \div Lanes < Got(i, c, q, t % Lanes)
      BY <1>2, <2>4 DEF Held
    <3>3. \A t : t \in Held(i, c, q) <=>
                 t \in a..(n - 1) /\ t \div Lanes < Got(i, c, q, t % Lanes)
      BY <2>2 DEF Held
    <3> QED
      BY <3>1, <3>2, <3>3
  <2>8. DOMAIN j.ready = Held(j, c, q)
    BY <1>0, <2>1, <2>2, <2>7 DEF Handed, Window
  <2>9. Indexed(j, c)
    BY <2>1 DEF Window, Indexed, Handed
  <2>10. j.next <= Batches /\ j.drawn = j.next /\ (j.exhausted => j.next = Batches)
    BY <2>1 DEF Window, Handed
  <2>11. \A w \in Lane : TurnsBefore(w, j.delivery) <= Got(j, c, q, w)
    BY <1>2, <2>4, <2>6
  <2> QED
    BY <2>5, <2>8, <2>9, <2>10, <2>11 DEF Window
<1> QED
  BY <1>1, <1>3, <1>4 DEF Sound

LEMMA HandKeepsFaithful ==
    ASSUME NEW i, NEW j, NEW task, Handed(i, j, task),
           NEW c, NEW q, NEW r, Faithful(i, c, q, r)
    PROVE  Faithful(j, c, q, r)
<1>1. /\ \A w : Got(j, c, q, w) = Got(i, c, q, w)
      /\ \A w, n : Advanced(j, w, n) = Advanced(i, w, n)
      /\ j.story = i.story
      /\ j.ready = [t \in DOMAIN i.ready \ {task} |-> i.ready[t]]
  BY DEF Got, Advanced, Handed
<1>2. \A t : Exact(j, t) = Exact(i, t)
  BY <1>1 DEF Exact
<1>3. \A t \in DOMAIN j.ready : j.ready[t] = Exact(j, t)
  BY <1>1, <1>2 DEF Faithful
<1> QED
  BY <1>1, <1>2, <1>3 DEF Faithful

(* With nothing accepted and not answered, the rings are empty.            *)
LEMMA NothingRinged ==
    ASSUME NEW i, i \in Iterator, NEW c, NEW q, RingTypes(c, q), Ringed(i, {}, c, q),
           NEW w, w \in Lane
    PROVE  c[w] = << >> /\ q[w] = << >>
<1>1. PICK n \in Nat : n = i.next
  BY DEF Iterator
<1>2. PICK g \in Int, a \in Nat, b \in Nat :
         g = Got(i, c, q, w) /\ a = Len(c[w]) /\ b = Len(q[w])
  BY GotTyped
<1>3. g + b + a = TurnsBefore(w, n) /\ g >= 0
  <2>1. Got(i, c, q, w) + Len(q[w]) + Len(c[w]) = TurnsBefore(w, i.next)
    BY GotTyped
  <2>2. Got(i, c, q, w) >= 0
    BY DEF Ringed, InRings
  <2> QED
    BY <1>1, <1>2, <2>1, <2>2
<1>4. a = 0 /\ b = 0
  <2> SUFFICES ASSUME ~(a = 0 /\ b = 0) PROVE FALSE
    OBVIOUS
  <2>1. g \in Nat /\ g < TurnsBefore(w, n)
    <3>1. g < g + b + a /\ g \in Nat
      BY <1>3
    <3> QED
      BY <1>3, <3>1
  <2>2. Task(w, g) < n /\ Task(w, g) \in Nat
    BY <1>1, <2>1, TaskBelow, TaskTyped
  <2>3. Task(w, g) % Lanes = w /\ Task(w, g) \div Lanes = g
    BY <2>1, TaskTyped
  <2>4. Task(w, g) \in Waiting(i, c, q)
    BY <1>1, <1>2, <2>2, <2>3 DEF Waiting
  <2>5. Posted(Waiting(i, c, q)) # {}
    BY <2>4 DEF Posted
  <2> QED
    BY <2>5 DEF Ringed
<1>5. c[w] \in Seq(Command) /\ q[w] \in Seq(Completion)
  BY DEF RingTypes, CommandQueue, AnswerQueue
<1>6. ASSUME NEW S, NEW e, e \in Seq(S), Len(e) = 0 PROVE e = << >>
  BY <1>6
<1>7. Len(c[w]) = 0 /\ Len(q[w]) = 0
  BY <1>2, <1>4
<1> QED
  BY <1>5, <1>6, <1>7

LaneStates == [Lane -> LaneState]

(* The rings and random states of lanes.                                   *)
Cs(l) == [w \in Lane |-> l[w].commands]
Qs(l) == [w \in Lane |-> l[w].results]
Rs(l) == [w \in Lane |-> l[w].random]

LEMMA LanesTyped ==
    ASSUME NEW l, l \in LaneStates
    PROVE  /\ RingTypes(Cs(l), Qs(l)) /\ Rs(l) \in [Lane -> RandomState]
           /\ \A w \in Lane : /\ l[w] \in LaneState
                              /\ Cs(l)[w] = l[w].commands
                              /\ Qs(l)[w] = l[w].results
                              /\ Rs(l)[w] = l[w].random
<1>1. \A w \in Lane : /\ l[w] \in LaneState
                      /\ l[w].commands \in CommandQueue
                      /\ l[w].results \in AnswerQueue
                      /\ l[w].random \in RandomState
  BY DEF LaneStates, LaneState
<1> QED
  BY <1>1 DEF Cs, Qs, Rs, RingTypes

(* An iterator over lanes, as next and the start of iteration find it.     *)
Opened(i, p, l) ==
    /\ OrderedMap /\ i \in Iterator /\ p \in PendingSet /\ l \in LaneStates
    /\ Sound(i, p, Cs(l), Qs(l))

(* A filling about to start from it.                                       *)
Starts(s, i, p, l) ==
    s \in FillState /\ s.it = i /\ s.pending = p /\ s.commands = Cs(l)

LEMMA StateStarts ==
    ASSUME NEW i, NEW p, NEW l, Opened(i, p, l)
    PROVE  Starts(State(i, p, l), i, p, l)
<1>1. RingTypes(Cs(l), Qs(l))
  BY LanesTyped DEF Opened
<1>2. PICK s : s = State(i, p, l)
  OBVIOUS
<1>3. /\ s.it = i /\ s.pending = p /\ s.commands = Cs(l) /\ s.going = TRUE
      /\ s \in FillState
  BY <1>1, <1>2 DEF Opened, State, Cs, FillState, RingTypes
<1> QED
  BY <1>2, <1>3 DEF Starts

LEMMA StartsRound ==
    ASSUME NEW i, NEW p, NEW l, Opened(i, p, l), NEW s, Starts(s, i, p, l)
    PROVE  RoundPre(s, Qs(l), Limit) /\ RoundPre(s, Qs(l), Prefetch)
<1>1. RingTypes(Cs(l), Qs(l))
  BY LanesTyped DEF Opened
<1>2. /\ s.it = i /\ s.pending = p /\ s.commands = Cs(l) /\ s \in FillState
  BY DEF Starts
<1>3. Filling(s, Qs(l))
  BY <1>2 DEF Filling, Opened
<1>4. Prefetch \in Nat /\ Lanes \in Nat
  BY LanesAssumption
<1>5. Prefetch <= Limit /\ Limit \in Nat
  <2>1. PICK m \in Nat : Lanes = m + 1
    <3>1. Lanes - 1 \in Nat /\ Lanes = (Lanes - 1) + 1
      BY LanesPositive
    <3> QED
      BY <3>1
  <2>2. (m + 1) * Prefetch = m * Prefetch + Prefetch /\ m * Prefetch \in Nat
    BY <1>4
  <2> QED
    BY <1>4, <2>1, <2>2 DEF Limit
<1>6. OrderedMap /\ Limit <= Limit
  BY <1>5 DEF Opened
<1> QED
  BY <1>1, <1>2, <1>3, <1>4, <1>5, <1>6 DEF RoundPre

Commanded(l, c) == [w \in Lane |-> [l[w] EXCEPT !.commands = c[w]]]

LEMMA CommandedIs ==
    ASSUME NEW l, l \in LaneStates, NEW c, c \in [Lane -> CommandQueue]
    PROVE  /\ Commanded(l, c) \in LaneStates
           /\ Cs(Commanded(l, c)) = c /\ Qs(Commanded(l, c)) = Qs(l)
           /\ Rs(Commanded(l, c)) = Rs(l)
<1>1. ASSUME NEW w \in Lane
      PROVE  /\ Commanded(l, c)[w] \in LaneState
             /\ Commanded(l, c)[w].commands = c[w]
             /\ Commanded(l, c)[w].results = l[w].results
             /\ Commanded(l, c)[w].random = l[w].random
  <2>1. l[w] \in LaneState /\ c[w] \in CommandQueue
    BY DEF LaneStates
  <2>2. Commanded(l, c)[w] = [l[w] EXCEPT !.commands = c[w]]
    BY DEF Commanded
  <2> QED
    BY <2>1, <2>2 DEF LaneState
<1>2. Commanded(l, c) \in LaneStates
  <2>1. Commanded(l, c) = [w \in Lane |-> Commanded(l, c)[w]]
    BY DEF Commanded
  <2> QED
    BY <1>1, <2>1 DEF LaneStates
<1>3. c = [w \in Lane |-> c[w]]
  OBVIOUS
<1> QED
  BY <1>1, <1>2, <1>3 DEF Cs, Qs, Rs

LEMMA CommandedTwice ==
    ASSUME NEW l, l \in LaneStates, NEW c, NEW d
    PROVE  Commanded(Commanded(l, c), d) = Commanded(l, d)
<1>1. ASSUME NEW w \in Lane
      PROVE  [[l[w] EXCEPT !.commands = c[w]] EXCEPT !.commands = d[w]]
                = [l[w] EXCEPT !.commands = d[w]]
  <2>1. l[w] \in LaneState
    BY DEF LaneStates
  <2> QED
    BY <2>1 DEF LaneState
<1> QED
  BY <1>1 DEF Commanded

-----------------------------------------------------------------------------
(* The start of iteration.                                                 *)

StartsAt(order, skip, story, start, reused, seed) ==
    /\ order \in Nat /\ skip \in Nat /\ start \in Nat /\ seed \in Nat
    /\ reused \in BOOLEAN /\ story \in Tale /\ skip <= Batches
    /\ story.order = order /\ order = OrderBegan(reused, start)
    /\ ~reused => seed = start

LEMMA NewIteratorIs ==
    ASSUME NEW order, NEW skip, NEW story, NEW start, NEW reused, NEW seed,
           StartsAt(order, skip, story, start, reused, seed), OrderedMap,
           NEW i, i = NewIterator(order, skip, story, start, reused, seed)
    PROVE  /\ i \in Iterator /\ Live(i) /\ i.valid /\ ~i.raised /\ ~i.complete
           /\ Origin(i)
           /\ i.start = skip /\ i.drawn = skip /\ i.next = skip /\ i.delivery = skip
           /\ i.delivered = skip /\ i.ready = << >> /\ i.seen = {}
           /\ i.exhausted => skip = Batches
           /\ i.story = story
<1>1. skip % Lanes \in Nat
  BY LanesPositive, DivMod DEF StartsAt
<1>2. PICK e \in BOOLEAN : e = (skip >= Batches /\ ~config.iterable)
  BY Zenon
<1>3. << >> \in ReadySet
  <2>1. << >> \in [{} -> Result]
    OBVIOUS
  <2> QED
    BY <2>1 DEF ReadySet
<1>4. Lane \in Actives /\ << >> \in Arrivals /\ {} \in SeenSet
  BY DEF Actives, Arrivals, SeenSet
<1>5. PICK m \in Nat, a \in {Lane}, b \in {<< >>} : m = skip % Lanes /\ a = Lane /\ b = << >>
  BY <1>1
<1>6. /\ order \in Nat /\ skip \in Nat /\ start \in Nat /\ seed \in Nat
      /\ reused \in BOOLEAN /\ story \in Tale
  BY DEF StartsAt
<1>7. i = [valid |-> TRUE, closed |-> FALSE, complete |-> FALSE, raised |-> FALSE,
           order |-> order, start |-> skip, drawn |-> skip, next |-> skip,
           delivery |-> skip, phase |-> m, cursor |-> m,
           active |-> a, exhausted |-> e,
           ready |-> b, arrival |-> b, delivered |-> skip, seen |-> {},
           began |-> start, reused |-> reused, seed |-> seed, story |-> story]
  BY <1>2, <1>5 DEF NewIterator
<1>8. a \in Actives /\ b \in Arrivals /\ b \in ReadySet
  BY <1>3, <1>4, <1>5
<1>9. i \in Iterator
  BY <1>4, <1>6, <1>7, <1>8 DEF Iterator
<1>10. Origin(i)
  <2>1. Bounded(i)
    BY <1>5, <1>6, <1>7 DEF Bounded, StartsAt
  <2> QED
    BY <1>5, <1>6, <1>7, <2>1 DEF Origin, StartsAt
<1>11. e => skip = Batches
  <2>1. e => skip >= Batches
    BY <1>2, Zenon
  <2>2. skip <= Batches
    BY DEF StartsAt
  <2> QED
    BY <1>6, <2>1, <2>2, LanesAssumption
<1> QED
  BY <1>5, <1>7, <1>9, <1>10, <1>11 DEF Live

(* The rings of lanes about to be filled.                                  *)
Idle(l) == \A w \in Lane : l[w].commands = << >> /\ l[w].results = << >>

LEMMA BeginsOpened ==
    ASSUME NEW order, NEW skip, NEW story, NEW start, NEW reused, NEW seed,
           StartsAt(order, skip, story, start, reused, seed), OrderedMap,
           NEW i, i = NewIterator(order, skip, story, start, reused, seed),
           NEW l, l \in LaneStates, Idle(l)
    PROVE  /\ Opened(i, {}, l)
           /\ \A w \in Lane : Got(i, Cs(l), Qs(l), w) = TurnsBefore(w, skip)
<1>1. /\ i \in Iterator /\ Live(i) /\ Origin(i)
      /\ i.start = skip /\ i.drawn = skip /\ i.next = skip /\ i.delivery = skip
      /\ i.ready = << >>
      /\ i.exhausted => skip = Batches
  BY NewIteratorIs
<1>2. skip \in Nat /\ skip <= Batches
  BY DEF StartsAt
<1>3. \A w \in Lane : /\ Cs(l)[w] = << >> /\ Qs(l)[w] = << >>
                      /\ Len(Cs(l)[w]) = 0 /\ Len(Qs(l)[w]) = 0
  BY DEF Idle, Cs, Qs
<1>4. ASSUME NEW w \in Lane
      PROVE  Got(i, Cs(l), Qs(l), w) = TurnsBefore(w, skip) /\ TurnsBefore(w, skip) \in Nat
  <2>1. TurnsBefore(w, skip) \in Nat
    BY <1>2, TurnsTyped
  <2>2. TurnsBefore(w, skip) - 0 - 0 = TurnsBefore(w, skip)
    BY <2>1
  <2> QED
    BY <1>1, <1>3, <2>1, <2>2 DEF Got
<1>5. \A k : k \notin 1..0
  OBVIOUS
<1>6. InRings(i, Cs(l), Qs(l))
  <2> SUFFICES ASSUME NEW w \in Lane
               PROVE  /\ Got(i, Cs(l), Qs(l), w) >= 0
                      /\ \A k \in 1..Len(Qs(l)[w]) :
                            Qs(l)[w][k].task = Task(w, Got(i, Cs(l), Qs(l), w) + k - 1)
                      /\ \A k \in 1..Len(Cs(l)[w]) :
                            Cs(l)[w][k].task
                               = Task(w, Got(i, Cs(l), Qs(l), w) + Len(Qs(l)[w]) + k - 1)
    BY DEF InRings
  <2>1. Got(i, Cs(l), Qs(l), w) >= 0
    BY <1>4
  <2>2. \A k : k \notin 1..Len(Qs(l)[w]) /\ k \notin 1..Len(Cs(l)[w])
    BY <1>3, <1>5
  <2> QED
    BY <2>1, <2>2
<1>7. ASSUME NEW t \in 0..(skip - 1)
      PROVE  t % Lanes \in Lane /\ t \div Lanes < TurnsBefore(t % Lanes, skip)
  <2>1. t \in Nat /\ t < skip
    BY <1>2
  <2>2. t % Lanes \in Lane /\ t \div Lanes \in Nat /\ t = Task(t % Lanes, t \div Lanes)
    BY <2>1, TaskExact
  <2> QED
    BY <1>2, <2>1, <2>2, TaskBelow
<1>8. Waiting(i, Cs(l), Qs(l)) = {}
  <2> SUFFICES ASSUME NEW t \in 0..(skip - 1),
                      t \div Lanes >= Got(i, Cs(l), Qs(l), t % Lanes)
               PROVE  FALSE
    BY <1>1 DEF Waiting
  <2>1. t \div Lanes \in Nat /\ t % Lanes \in Lane
    BY <1>2, TaskExact
  <2> QED
    BY <1>4, <1>7, <2>1
<1>9. Ringed(i, {}, Cs(l), Qs(l))
  BY <1>6, <1>8 DEF Ringed, Posted
<1>10. Window(i, Cs(l), Qs(l))
  <2>1. \A w \in Lane : TurnsBefore(w, i.delivery) <= Got(i, Cs(l), Qs(l), w)
    BY <1>1, <1>4
  <2>2. Held(i, Cs(l), Qs(l)) = {}
    <3>1. \A t : t \notin skip..(skip - 1)
      BY <1>2
    <3> QED
      BY <1>1, <3>1 DEF Held
  <2>3. DOMAIN i.ready = {}
    BY <1>1
  <2>4. Indexed(i, Cs(l))
    <3>1. \A w \in Lane : \A k : k \notin 1..Len(Cs(l)[w])
      BY <1>3, <1>5
    <3> QED
      BY <3>1 DEF Indexed
  <2>5. skip <= skip
    BY <1>2
  <2> QED
    BY <1>1, <1>2, <2>1, <2>2, <2>3, <2>4, <2>5 DEF Window
<1>11. {} \in PendingSet
  BY DEF PendingSet
<1> QED
  BY <1>1, <1>4, <1>9, <1>10, <1>11 DEF Opened, Sound

LEMMA BeginsFaithful ==
    ASSUME NEW order, NEW skip, NEW story, NEW start, NEW reused, NEW seed,
           StartsAt(order, skip, story, start, reused, seed), OrderedMap,
           NEW i, i = NewIterator(order, skip, story, start, reused, seed),
           NEW l, l \in LaneStates, Idle(l),
           \A w \in Lane : TurnsBefore(w, skip) < TurnsBefore(w, Batches) =>
               l[w].random = Random(story.random[w].seed,
                                    story.random[w].draws + TurnsBefore(w, skip))
    PROVE  Faithful(i, Cs(l), Qs(l), Rs(l)) /\ Told(i)
<1>1. /\ i.story = story /\ i.ready = << >> /\ i.seen = {} /\ i.start = skip
      /\ i.delivered = skip
  BY NewIteratorIs
<1>2. \A w \in Lane : Got(i, Cs(l), Qs(l), w) = TurnsBefore(w, skip)
  BY BeginsOpened
<1>3. \A w \in Lane : Len(Qs(l)[w]) = 0
  BY DEF Idle, Qs
<1>4. skip \in Nat
  BY DEF StartsAt
<1>5. \A w \in Lane : TurnsBefore(w, skip) + 0 = TurnsBefore(w, skip)
  BY <1>4, TurnsTyped
<1>6. \A w \in Lane : \A k : k \notin 1..Len(Qs(l)[w])
  BY <1>3
<1>7. \A w \in Lane :
          Got(i, Cs(l), Qs(l), w) + Len(Qs(l)[w]) < TurnsBefore(w, Batches) =>
              Rs(l)[w] = Advanced(i, w, Got(i, Cs(l), Qs(l), w) + Len(Qs(l)[w]))
  BY <1>1, <1>2, <1>3, <1>5 DEF Advanced, Rs
<1>8. \A t : t \notin DOMAIN i.ready
  BY <1>1
<1>9. Faithful(i, Cs(l), Qs(l), Rs(l))
  BY <1>6, <1>7, <1>8 DEF Faithful
<1>10. skip..(skip - 1) = {}
  BY <1>4
<1>11. Told(i)
  BY <1>1, <1>10 DEF Told
<1> QED
  BY <1>9, <1>11

(* Where the owner may be, and what that says of the pool and the iterator *)
Calling(cl, p, i) ==
    /\ cl \in {"idle", "next", "capture", "drain"}
    /\ cl \in {"next", "drain"} => p.open
    /\ cl = "capture" => Resumable /\ ~i.complete
    /\ cl = "next" => i.valid /\ ~i.complete
    /\ cl = "drain" => ~i.valid \/ p.pending = {}
    /\ i.valid /\ i.complete => i.closed
    /\ p.open /\ i.complete => p.pending = {}
    /\ Live(i) /\ ~i.complete => p.open
    /\ Live(i) /\ i.complete => i.start <= i.delivered /\ i.delivered = Batches

Structure(cl, p, l, i) ==
    /\ p = [open |-> p.open, pending |-> p.pending] /\ p.open \in BOOLEAN
    /\ l \in LaneStates
    /\ p.open \/ i.valid => i \in Iterator
    /\ p.open => Opened(i, p.pending, l)
    /\ ~p.open => p.pending = {}
    /\ ~p.open /\ ~i.complete => i \in Iterator /\ Origin(i)
    /\ p.open /\ Live(i) => i.delivered = i.delivery
    /\ Calling(cl, p, i)

Exactly(p, l, i) ==
    /\ p.open /\ Live(i) => Faithful(i, Cs(l), Qs(l), Rs(l)) /\ Spread(i)
    /\ Live(i) => Told(i)

SavedSnapshots == UNION {[D -> RandomState] : D \in SUBSET Lane}
SavedSeeds == UNION {[D -> Nat] : D \in SUBSET Lane}

SavedState ==
    [position : Nat, delivered : Nat, workers : {Lanes}, phase : Nat,
     reused : BOOLEAN, seed : Nat \cup {NoSeed}, began : Nat, current : Nat,
     states : SavedSnapshots, seeds : SavedSeeds, story : Tale \cup {None}]

SeedBegan(r) == IF r.reused THEN r.seed ELSE r.began

Loads(r) ==
    /\ r \in SavedState
    /\ r.delivered <= r.position /\ r.delivered <= Batches
    /\ r.phase = r.delivered % Lanes
    /\ r.reused => r.seed # NoSeed
    /\ Reproduces(r, SeedBegan(r))
    /\ r.story # None => r.story.order = OrderBegan(r.reused, r.began)

Covers(r) ==
    r.story # None =>
        \A w \in Lane : TurnsBefore(w, r.delivered) < TurnsBefore(w, Batches) =>
            /\ w \in DOMAIN r.states
            /\ r.states[w] = Random(r.story.random[w].seed,
                                    r.story.random[w].draws + TurnsBefore(w, r.delivered))

Totals(g, ld, sv) ==
    /\ g \in Nat /\ ld = [seed |-> ld.seed, resume |-> ld.resume] /\ ld.seed \in Nat
    /\ sv # None => Loads(sv)
    /\ ld.resume # None => Loads(ld.resume)

Restorable(ld, sv) ==
    /\ sv # None => Covers(sv)
    /\ ld.resume # None => Covers(ld.resume)

(* The first filling reaches every lane, or no state is ever captured.     *)
Covering == Lanes <= Prefetch \/ \A c \in Config : ~c.resumable

-----------------------------------------------------------------------------

LEMMA NewLaneIs ==
    ASSUME NEW r, r \in RandomState
    PROVE  /\ NewLane(r) \in LaneState
           /\ NewLane(r).commands = << >> /\ NewLane(r).results = << >>
           /\ NewLane(r).random = r
<1>1. << >> \in CommandQueue /\ << >> \in AnswerQueue
  BY DEF CommandQueue, AnswerQueue
<1> QED
  BY <1>1 DEF NewLane, LaneState

ForkRandom(seed, states, w) ==
    IF w \in DOMAIN states THEN states[w] ELSE Random(seed + w, 0)

LEMMA ForkIs ==
    ASSUME NEW seed, seed \in Nat, NEW states,
           \A w \in Lane : w \in DOMAIN states => states[w] \in RandomState
    PROVE  /\ Fork(seed, states) \in LaneStates
           /\ Idle(Fork(seed, states))
           /\ \A w \in Lane : Fork(seed, states)[w].random = ForkRandom(seed, states, w)
<1>1. ASSUME NEW w \in Lane PROVE ForkRandom(seed, states, w) \in RandomState
  <2>1. Random(seed + w, 0) \in RandomState
    <3>1. seed + w \in Nat
      BY LaneIs
    <3> QED
      BY <3>1 DEF Random, RandomState
  <2> QED
    BY <2>1 DEF ForkRandom
<1>2. Fork(seed, states) = [w \in Lane |-> NewLane(ForkRandom(seed, states, w))]
  BY DEF Fork, ForkRandom
<1>3. \A w \in Lane :
          /\ Fork(seed, states)[w] \in LaneState
          /\ Fork(seed, states)[w].commands = << >>
          /\ Fork(seed, states)[w].results = << >>
          /\ Fork(seed, states)[w].random = ForkRandom(seed, states, w)
  BY <1>1, <1>2, NewLaneIs
<1>4. Fork(seed, states) \in LaneStates
  <2>1. \A w \in Lane : NewLane(ForkRandom(seed, states, w)) \in LaneState
    BY <1>1, NewLaneIs
  <2> QED
    BY <1>2, <2>1 DEF LaneStates
<1> QED
  BY <1>3, <1>4 DEF Idle

LEMMA NoLanesIs == NoLanes \in LaneStates
<1>1. \A w \in Lane : w \in DOMAIN << >> => << >>[w] \in RandomState
  OBVIOUS
<1> QED
  BY <1>1, ForkIs DEF NoLanes

PoolOf(pending) == [open |-> TRUE, pending |-> pending]

(* What a filling makes of an iterator and its lanes.                      *)
LEMMA FillOpens ==
    ASSUME NEW i, NEW p, NEW l, Opened(i, p, l), NEW limit, limit \in {Limit, Prefetch},
           NEW s0, Starts(s0, i, p, l), NEW s, s \in Filled(s0, limit)
    PROVE  /\ s \in FillState /\ s.it \in Iterator /\ s.commands \in [Lane -> CommandQueue]
           /\ Opened(s.it, s.pending, Commanded(l, s.commands))
           /\ Same(i, s.it) /\ (Live(s.it) => Live(i))
           /\ s.pending = {} => /\ p = {} /\ s.commands = Cs(l) /\ s.it.next = i.next
           /\ Live(i) /\ Faithful(i, Cs(l), Qs(l), Rs(l)) =>
                LET l2 == Commanded(l, s.commands)
                IN  Faithful(s.it, Cs(l2), Qs(l2), Rs(l2)) /\ Spread(s.it)
<1>2. /\ s0.it = i /\ s0.pending = p /\ s0.commands = Cs(l) /\ s0 \in FillState
      /\ RoundPre(s0, Qs(l), limit)
  BY StartsRound DEF Starts
<1>3. FillPost(s0, s, Qs(l), limit)
  BY <1>2, FillKeeps
<1>4. /\ s \in FillState /\ Sound(s.it, s.pending, s.commands, Qs(l))
      /\ Grown(s0, s, Qs(l)) /\ RingTypes(s.commands, Qs(l))
  BY <1>3 DEF FillPost, Filling
<1>5. s.it \in Iterator /\ s.pending \in PendingSet /\ s.commands \in [Lane -> CommandQueue]
  BY <1>4 DEF FillState
<1>6. PICK l2 : l2 = Commanded(l, s.commands)
  OBVIOUS
<1>7. l2 \in LaneStates /\ Cs(l2) = s.commands /\ Qs(l2) = Qs(l) /\ Rs(l2) = Rs(l)
  BY <1>5, <1>6, CommandedIs DEF Opened
<1>8. Opened(s.it, s.pending, l2)
  BY <1>4, <1>5, <1>7 DEF Opened
<1>9. Same(i, s.it) /\ (Live(s.it) => Live(i))
  BY <1>2, <1>4 DEF Grown, Same, Live
<1>10. s.pending = {} => /\ p = {} /\ s.commands = Cs(l) /\ s.it.next = i.next
  BY <1>2, <1>4 DEF Grown
<1>11. ASSUME Live(i), Faithful(i, Cs(l), Qs(l), Rs(l))
       PROVE  Faithful(s.it, Cs(l2), Qs(l2), Rs(l2)) /\ Spread(s.it)
  <2>1. Faithful(s.it, s.commands, Qs(l), Rs(l))
    BY <1>2, <1>4, <1>11, FillKeepsFaithful
  <2>2. Live(s.it)
    BY <1>9, <1>11 DEF Same, Live
  <2>3. Spread(s.it)
    BY <1>3, <2>2, FillSpreads
  <2> QED
    BY <1>7, <2>1, <2>3
<1> QED
  BY <1>4, <1>5, <1>6, <1>8, <1>9, <1>10, <1>11

(* Iteration starts over idle lanes.                                       *)
LEMMA BeginStructures ==
    ASSUME NEW order, NEW skip, NEW story, NEW start, NEW reused, NEW seed,
           StartsAt(order, skip, story, start, reused, seed), OrderedMap,
           NEW i, i = NewIterator(order, skip, story, start, reused, seed),
           NEW l, l \in LaneStates, Idle(l),
           NEW s, s \in Filled(State(i, {}, l), Prefetch)
    PROVE  /\ Structure("idle", PoolOf(s.pending), Commanded(l, s.commands), s.it)
           /\ (\A w \in Lane : TurnsBefore(w, skip) < TurnsBefore(w, Batches) =>
                  l[w].random = Random(story.random[w].seed,
                                       story.random[w].draws + TurnsBefore(w, skip)))
              => Exactly(PoolOf(s.pending), Commanded(l, s.commands), s.it)
<1>1. PICK l2 : l2 = Commanded(l, s.commands)
  OBVIOUS
<1>2. Opened(i, {}, l)
  BY BeginsOpened
<1>3. /\ s \in FillState /\ s.it \in Iterator
      /\ Opened(s.it, s.pending, l2) /\ Same(i, s.it)
      /\ Live(i) /\ Faithful(i, Cs(l), Qs(l), Rs(l)) =>
                Faithful(s.it, Cs(l2), Qs(l2), Rs(l2)) /\ Spread(s.it)
  <2>1. Starts(State(i, {}, l), i, {}, l)
    BY <1>2, StateStarts
  <2> QED
    BY <1>1, <1>2, <2>1, FillOpens
<1>4. /\ Live(i) /\ i.valid /\ ~i.raised /\ ~i.complete /\ i.delivered = skip
      /\ i.delivery = skip
  BY NewIteratorIs
<1>5. /\ Live(s.it) /\ s.it.valid /\ ~s.it.raised /\ ~s.it.complete
      /\ s.it.delivered = s.it.delivery
  BY <1>3, <1>4 DEF Same, Live
<1>6. /\ PoolOf(s.pending).open = TRUE /\ PoolOf(s.pending).pending = s.pending
      /\ PoolOf(s.pending) = [open |-> PoolOf(s.pending).open,
                              pending |-> PoolOf(s.pending).pending]
  BY DEF PoolOf
<1>7. Calling("idle", PoolOf(s.pending), s.it)
  BY <1>5, <1>6 DEF Calling
<1>8. Structure("idle", PoolOf(s.pending), l2, s.it)
  BY <1>3, <1>5, <1>6, <1>7 DEF Structure, Opened
<1>9. ASSUME \A w \in Lane : TurnsBefore(w, skip) < TurnsBefore(w, Batches) =>
                  l[w].random = Random(story.random[w].seed,
                                       story.random[w].draws + TurnsBefore(w, skip))
      PROVE  Exactly(PoolOf(s.pending), l2, s.it)
  <2>1. Faithful(i, Cs(l), Qs(l), Rs(l)) /\ Told(i)
    BY <1>9, BeginsFaithful
  <2>2. Told(s.it)
    <3>1. s.it.seen = i.seen /\ s.it.start = i.start /\ s.it.delivered = i.delivered
          /\ s.it.story = i.story
      BY <1>3 DEF Same
    <3> QED
      BY <2>1, <3>1 DEF Told, Exact, Advanced
  <2> QED
    BY <1>3, <1>4, <2>1, <2>2 DEF Exactly
<1> QED
  BY <1>1, <1>8, <1>9

Swaps(l, l2, w, x) ==
    l \in LaneStates /\ w \in Lane /\ x \in LaneState /\ l2 = [l EXCEPT ![w] = x]

Swapped(l, l2, w, x) ==
    /\ l2 \in LaneStates
    /\ Cs(l2) = [Cs(l) EXCEPT ![w] = x.commands]
    /\ Qs(l2) = [Qs(l) EXCEPT ![w] = x.results]
    /\ Rs(l2) = [Rs(l) EXCEPT ![w] = x.random]

LEMMA LaneSwapped ==
    ASSUME NEW l, NEW w, NEW x, NEW l2, Swaps(l, l2, w, x)
    PROVE  Swapped(l, l2, w, x)
<1>0. l \in LaneStates /\ w \in Lane /\ x \in LaneState /\ l2 = [l EXCEPT ![w] = x]
  BY DEF Swaps
<1>1. l2 \in LaneStates
  BY <1>0 DEF LaneStates
<1>2. \A u \in Lane : l2[u] = IF u = w THEN x ELSE l[u]
  BY <1>0 DEF LaneStates
<1>3. /\ \A u \in Lane : Cs(l2)[u] = IF u = w THEN x.commands ELSE Cs(l)[u]
      /\ \A u \in Lane : Qs(l2)[u] = IF u = w THEN x.results ELSE Qs(l)[u]
      /\ \A u \in Lane : Rs(l2)[u] = IF u = w THEN x.random ELSE Rs(l)[u]
  BY <1>2 DEF Cs, Qs, Rs
<1>4. ASSUME NEW f, NEW g, NEW e, f = [u \in Lane |-> f[u]], g = [u \in Lane |-> g[u]],
             \A u \in Lane : g[u] = IF u = w THEN e ELSE f[u]
      PROVE  g = [f EXCEPT ![w] = e]
  BY <1>4
<1>5. /\ Cs(l2) = [u \in Lane |-> Cs(l2)[u]] /\ Cs(l) = [u \in Lane |-> Cs(l)[u]]
      /\ Qs(l2) = [u \in Lane |-> Qs(l2)[u]] /\ Qs(l) = [u \in Lane |-> Qs(l)[u]]
      /\ Rs(l2) = [u \in Lane |-> Rs(l2)[u]] /\ Rs(l) = [u \in Lane |-> Rs(l)[u]]
  BY DEF Cs, Qs, Rs
<1>6. /\ Cs(l2) = [Cs(l) EXCEPT ![w] = x.commands]
      /\ Qs(l2) = [Qs(l) EXCEPT ![w] = x.results]
      /\ Rs(l2) = [Rs(l) EXCEPT ![w] = x.random]
  BY ONLY <1>3, <1>4, <1>5
<1> QED
  BY <1>1, <1>6 DEF Swapped

(* A lane that answers keeps the structure, whatever the answer.           *)
LEMMA AnswerStructures ==
    ASSUME Structure(call, pool, lane, it), pool.open,
           NEW w, w \in Lane, lane[w].commands # << >>,
           NEW x, x \in LaneState, NEW v, v \in Outcome,
           x.commands = Tail(lane[w].commands),
           x.results = Append(lane[w].results,
                              [task |-> Head(lane[w].commands).task, value |-> v]),
           NEW l2, l2 = [lane EXCEPT ![w] = x]
    PROVE  /\ Structure(call, pool, l2, it)
           /\ Answering(it, Cs(lane), Qs(lane), Cs(l2), Qs(l2), w, v)
<1>1. /\ lane \in LaneStates /\ it \in Iterator /\ Opened(it, pool.pending, lane)
  BY DEF Structure
<1>2. /\ l2 \in LaneStates
      /\ Cs(l2) = [Cs(lane) EXCEPT ![w] = x.commands]
      /\ Qs(l2) = [Qs(lane) EXCEPT ![w] = x.results]
  <2>1. Swaps(lane, l2, w, x)
    BY <1>1 DEF Swaps
  <2>2. Swapped(lane, l2, w, x)
    BY <2>1, LaneSwapped
  <2> QED
    BY <2>2 DEF Swapped
<1>3. /\ RingTypes(Cs(lane), Qs(lane))
      /\ Cs(lane)[w] = lane[w].commands /\ Qs(lane)[w] = lane[w].results
  BY <1>1, LanesTyped
<1>4. Answering(it, Cs(lane), Qs(lane), Cs(l2), Qs(l2), w, v)
  <2>1. Cs(l2) = [Cs(lane) EXCEPT ![w] = Tail(@)]
    BY <1>2, <1>3
  <2>2. Qs(l2) = [Qs(lane) EXCEPT ![w] =
                     Append(@, [task |-> Head(Cs(lane)[w]).task, value |-> v])]
    BY <1>2, <1>3
  <2> QED
    BY <1>1, <1>3, <2>1, <2>2 DEF Answering
<1>5. Sound(it, pool.pending, Cs(l2), Qs(l2))
  BY <1>1, <1>4, AnswerKeepsRings DEF Opened
<1>6. Opened(it, pool.pending, l2)
  BY <1>1, <1>2, <1>5 DEF Opened
<1> QED
  BY <1>2, <1>4, <1>6 DEF Structure

LEMMA AnswerExact ==
    ASSUME Structure(call, pool, lane, it), pool.open, Exactly(pool, lane, it),
           NEW w, w \in Lane, lane[w].commands # << >>,
           NEW x, x \in LaneState, NEW v, v \in Outcome,
           NEW l2, l2 = [lane EXCEPT ![w] = x],
           Answering(it, Cs(lane), Qs(lane), Cs(l2), Qs(l2), w, v),
           \/ v = Error
           \/ /\ v = [worker |-> w, random |-> lane[w].random,
                      index |-> lane[w].commands[1].index,
                      order |-> lane[w].commands[1].order]
              /\ x.random = Random(lane[w].random.seed, lane[w].random.draws + 1)
    PROVE  Exactly(pool, l2, it)
<1>1. /\ lane \in LaneStates /\ Sound(it, pool.pending, Cs(lane), Qs(lane))
  BY DEF Structure, Opened
<1>2. /\ l2 \in LaneStates /\ Rs(l2) = [Rs(lane) EXCEPT ![w] = x.random]
  <2>1. Swaps(lane, l2, w, x)
    BY <1>1 DEF Swaps
  <2>2. Swapped(lane, l2, w, x)
    BY <2>1, LaneSwapped
  <2> QED
    BY <2>2 DEF Swapped
<1>3. /\ Rs(lane) \in [Lane -> RandomState]
      /\ Cs(lane)[w] = lane[w].commands /\ Rs(lane)[w] = lane[w].random
  BY <1>1, LanesTyped
<1>4. Rs(l2) \in [Lane -> RandomState]
  BY <1>2, LanesTyped
<1>5. /\ Rs(l2)[w] = x.random /\ \A u \in Lane : u # w => Rs(l2)[u] = Rs(lane)[u]
  BY <1>2, <1>3
<1>6. ASSUME Live(it) PROVE Faithful(it, Cs(l2), Qs(l2), Rs(l2))
  <2>1. Faithful(it, Cs(lane), Qs(lane), Rs(lane))
    BY <1>6 DEF Exactly
  <2>2. \/ v = Error
        \/ /\ v = [worker |-> w, random |-> Rs(lane)[w],
                   index |-> Cs(lane)[w][1].index, order |-> Cs(lane)[w][1].order]
           /\ Rs(l2)[w] = Random(Rs(lane)[w].seed, Rs(lane)[w].draws + 1)
    BY <1>3, <1>5
  <2>3. Fetches(it, Cs(lane), Qs(lane), Cs(l2), Qs(l2), w, v, Rs(lane), Rs(l2))
    BY <1>3, <1>4, <1>5, <1>6, <2>1, <2>2 DEF Fetches
  <2> QED
    BY <1>1, <2>3, FetchKeepsFaithful
<1> QED
  BY <1>6 DEF Exactly

LEMMA FetchKeeps ==
    ASSUME OrderedMap, Structure(call, pool, lane, it), NEW w, w \in Lane, Fetch(w)
    PROVE  /\ Structure(call', pool', lane', it')
           /\ Exactly(pool, lane, it) => Exactly(pool', lane', it')
<1>1. pool.open /\ lane[w].commands # << >> /\ lane \in LaneStates /\ lane[w] \in LaneState
  BY DEF Fetch, Running, Structure, LaneStates
<1>2. PICK command : command = Head(lane[w].commands)
  OBVIOUS
<1>3. command = lane[w].commands[1] /\ command \in Command
  BY <1>1, <1>2 DEF LaneState, CommandQueue
<1>4. PICK r \in RandomState : r = lane[w].random
  BY <1>1 DEF LaneState
<1>5. PICK v : v = [worker |-> w, random |-> r, index |-> command.index,
                    order |-> command.order]
  OBVIOUS
<1>6. v \in Outcome
  BY <1>3, <1>4, <1>5 DEF Command, Result, Outcome
<1>7. PICK k \in Int : k = r.draws + 1
  BY <1>4 DEF RandomState
<1>8. PICK r2 : r2 = [r EXCEPT !.draws = k]
  OBVIOUS
<1>9. r2 \in RandomState /\ r2 = Random(r.seed, r.draws + 1)
  BY <1>4, <1>7, <1>8 DEF RandomState, Random
<1>10. PICK c, q : c = Tail(lane[w].commands)
                   /\ q = Append(lane[w].results, [task |-> command.task, value |-> v])
  OBVIOUS
<1>11. c \in CommandQueue /\ q \in AnswerQueue
  <2>1. /\ lane[w].commands \in Seq(Command) /\ lane[w].commands # << >>
        /\ lane[w].results \in Seq(Completion)
    BY <1>1 DEF LaneState, CommandQueue, AnswerQueue
  <2>2. [task |-> command.task, value |-> v] \in Completion
    BY <1>3, <1>6 DEF Command, Completion
  <2> QED
    BY <1>10, <2>1, <2>2 DEF CommandQueue, AnswerQueue
<1>12. PICK x : x = [lane[w] EXCEPT !.commands = c, !.results = q, !.random = r2]
  OBVIOUS
<1>13. x \in LaneState /\ x.commands = c /\ x.results = q /\ x.random = r2
  BY <1>1, <1>9, <1>11, <1>12 DEF LaneState
<1>14. lane' = [lane EXCEPT ![w] = x]
  <2>1. Fetched(w, command) = v
    BY <1>4, <1>5 DEF Fetched, OrderedMap
  <2>2. lane' = [lane EXCEPT
             ![w].commands = Tail(@),
             ![w].results = Append(@, [task |-> command.task, value |-> v]),
             ![w].random.draws = @ + 1,
             ![w].read = @]
    BY <1>2, <2>1 DEF Fetch, OrderedMap
  <2>3. [lane EXCEPT
             ![w].commands = Tail(@),
             ![w].results = Append(@, [task |-> command.task, value |-> v]),
             ![w].random.draws = @ + 1,
             ![w].read = @]
          = [lane EXCEPT ![w] = [lane[w] EXCEPT !.commands = c, !.results = q,
                                                !.random = [r EXCEPT !.draws = k]]]
    BY <1>1, <1>4, <1>7, <1>10 DEF LaneState, LaneStates
  <2> QED
    BY <1>8, <1>12, <2>2, <2>3
<1>15. call' = call /\ pool' = pool /\ it' = it /\ config' = config
  BY DEF Fetch
<1>16. /\ Structure(call, pool, lane', it)
       /\ Answering(it, Cs(lane), Qs(lane), Cs(lane'), Qs(lane'), w, v)
  BY <1>1, <1>2, <1>6, <1>10, <1>13, <1>14, AnswerStructures
<1>17. Exactly(pool, lane, it) => Exactly(pool, lane', it)
  <2>1. /\ v = [worker |-> w, random |-> lane[w].random,
                index |-> lane[w].commands[1].index, order |-> lane[w].commands[1].order]
        /\ x.random = Random(lane[w].random.seed, lane[w].random.draws + 1)
    BY <1>3, <1>4, <1>5, <1>9, <1>13
  <2> QED
    BY <1>1, <1>6, <1>13, <1>14, <1>16, <2>1, AnswerExact
<1> QED
  BY <1>15, <1>16, <1>17

LEMMA FetchRaisesKeeps ==
    ASSUME OrderedMap, Structure(call, pool, lane, it), NEW w, w \in Lane, FetchRaises(w)
    PROVE  /\ Structure(call', pool', lane', it')
           /\ Exactly(pool, lane, it) => Exactly(pool', lane', it')
<1>1. pool.open /\ lane[w].commands # << >> /\ lane \in LaneStates /\ lane[w] \in LaneState
  BY DEF FetchRaises, Running, Structure, LaneStates
<1>2. PICK command : command = Head(lane[w].commands)
  OBVIOUS
<1>3. command \in Command
  BY <1>1, <1>2 DEF LaneState, CommandQueue
<1>4. PICK c, q : c = Tail(lane[w].commands)
                  /\ q = Append(lane[w].results, [task |-> command.task, value |-> Error])
  OBVIOUS
<1>5. Error \in Outcome
  BY DEF Outcome
<1>6. c \in CommandQueue /\ q \in AnswerQueue
  <2>1. /\ lane[w].commands \in Seq(Command) /\ lane[w].commands # << >>
        /\ lane[w].results \in Seq(Completion)
    BY <1>1 DEF LaneState, CommandQueue, AnswerQueue
  <2>2. [task |-> command.task, value |-> Error] \in Completion
    BY <1>3, <1>5 DEF Command, Completion
  <2> QED
    BY <1>4, <2>1, <2>2 DEF CommandQueue, AnswerQueue
<1>7. PICK x : x = [lane[w] EXCEPT !.commands = c, !.results = q]
  OBVIOUS
<1>8. x \in LaneState /\ x.commands = c /\ x.results = q
  BY <1>1, <1>6, <1>7 DEF LaneState
<1>9. lane' = [lane EXCEPT ![w] = x]
  <2>1. lane' = [lane EXCEPT
             ![w].commands = Tail(@),
             ![w].results = Append(@, [task |-> command.task, value |-> Error])]
    BY <1>2 DEF FetchRaises, Answer
  <2>2. [lane EXCEPT
             ![w].commands = Tail(@),
             ![w].results = Append(@, [task |-> command.task, value |-> Error])]
          = [lane EXCEPT ![w] = [lane[w] EXCEPT !.commands = c, !.results = q]]
    BY <1>1, <1>4 DEF LaneState, LaneStates
  <2> QED
    BY <1>7, <2>1, <2>2
<1>10. call' = call /\ pool' = pool /\ it' = it
  BY DEF FetchRaises
<1>11. /\ Structure(call, pool, lane', it)
       /\ Answering(it, Cs(lane), Qs(lane), Cs(lane'), Qs(lane'), w, Error)
  BY <1>1, <1>2, <1>4, <1>5, <1>8, <1>9, AnswerStructures
<1>12. Exactly(pool, lane, it) => Exactly(pool, lane', it)
  BY <1>1, <1>5, <1>8, <1>9, <1>11, AnswerExact
<1> QED
  BY <1>10, <1>11, <1>12

(* A lane that changes neither its rings nor its random state.             *)
LEMMA QuietKeeps ==
    ASSUME Structure(call, pool, lane, it), NEW w, w \in Lane, NEW x, x \in LaneState,
           x.commands = lane[w].commands, x.results = lane[w].results,
           x.random = lane[w].random, NEW l2, l2 = [lane EXCEPT ![w] = x]
    PROVE  /\ Structure(call, pool, l2, it)
           /\ Exactly(pool, lane, it) => Exactly(pool, l2, it)
<1>1. lane \in LaneStates
  BY DEF Structure
<1>2. Swaps(lane, l2, w, x)
  BY <1>1 DEF Swaps
<1>3. Swapped(lane, l2, w, x)
  BY <1>2, LaneSwapped
<1>4. l2 \in LaneStates /\ Cs(l2) = Cs(lane) /\ Qs(l2) = Qs(lane) /\ Rs(l2) = Rs(lane)
  BY <1>3 DEF Swapped, Cs, Qs, Rs
<1>5. pool.open => Opened(it, pool.pending, l2)
  BY <1>4 DEF Structure, Opened
<1>6. Structure(call, pool, l2, it)
  BY <1>4, <1>5 DEF Structure
<1> QED
  BY <1>4, <1>6 DEF Exactly

LEMMA LaneResetsKeeps ==
    ASSUME Structure(call, pool, lane, it), NEW w, w \in Lane, LaneResets(w)
    PROVE  /\ Structure(call', pool', lane', it')
           /\ Exactly(pool, lane, it) => Exactly(pool', lane', it')
<1>1. lane \in LaneStates /\ lane[w] \in LaneState
  BY DEF Structure, LaneStates
<1>2. PICK x : x = [lane[w] EXCEPT !.read = 0, !.resetting = FALSE]
  OBVIOUS
<1>3. /\ x \in LaneState /\ x.commands = lane[w].commands
      /\ x.results = lane[w].results /\ x.random = lane[w].random
  BY <1>1, <1>2 DEF LaneState
<1>4. lane' = [lane EXCEPT ![w] = x]
  BY <1>1, <1>2 DEF LaneResets, LaneState, LaneStates
<1>5. call' = call /\ pool' = pool /\ it' = it
  BY DEF LaneResets
<1> QED
  BY <1>3, <1>4, <1>5, QuietKeeps

LEMMA LaneDiesKeeps ==
    ASSUME Structure(call, pool, lane, it), NEW w, w \in Lane, LaneDies(w)
    PROVE  /\ Structure(call', pool', lane', it')
           /\ Exactly(pool, lane, it) => Exactly(pool', lane', it')
<1>1. lane \in LaneStates /\ lane[w] \in LaneState
  BY DEF Structure, LaneStates
<1>2. PICK x : x = [lane[w] EXCEPT !.alive = FALSE]
  OBVIOUS
<1>3. /\ x \in LaneState /\ x.commands = lane[w].commands
      /\ x.results = lane[w].results /\ x.random = lane[w].random
  BY <1>1, <1>2 DEF LaneState
<1>4. lane' = [lane EXCEPT ![w] = x]
  BY <1>1, <1>2 DEF LaneDies, LaneState, LaneStates
<1>5. call' = call /\ pool' = pool /\ it' = it
  BY DEF LaneDies
<1> QED
  BY <1>3, <1>4, <1>5, QuietKeeps

-----------------------------------------------------------------------------
(* A pool that closes.                                                     *)

LEMMA ClosedIs ==
    /\ ClosedPool.open = FALSE /\ ClosedPool.pending = {}
    /\ ClosedPool = [open |-> ClosedPool.open, pending |-> ClosedPool.pending]
  BY DEF ClosedPool

LEMMA CloseKeeps ==
    ASSUME Structure(call, pool, lane, it), CloseWaiting
    PROVE  Structure(call', pool', lane', it') /\ Exactly(pool', lane', it')
<1>1. /\ pool.open /\ it \in Iterator /\ call' = "idle"
      /\ pool' = ClosedPool /\ lane' = NoLanes
      /\ it' = [it EXCEPT !.raised = TRUE, !.closed = TRUE]
  BY DEF CloseWaiting, Structure
<1>2. /\ it' \in Iterator /\ it'.raised = TRUE /\ it'.closed = TRUE
  BY <1>1 DEF Iterator
<1>3. ~Live(it')
  BY <1>2 DEF Live
<1>a. Origin(it')
  <2>1. Origin(it)
    BY <1>1 DEF Structure, Opened, Sound
  <2>2. Alike(it, it') /\ it'.delivered = it.delivered
    BY <1>1 DEF Iterator, Alike
  <2> QED
    BY <2>1, <2>2 DEF Origin, Bounded, Alike
<1>4. Calling("idle", ClosedPool, it')
  BY <1>2, <1>3, ClosedIs DEF Calling
<1>5. Structure("idle", ClosedPool, NoLanes, it')
  BY <1>2, <1>3, <1>4, <1>a, ClosedIs, NoLanesIs DEF Structure
<1>6. Exactly(ClosedPool, NoLanes, it')
  BY <1>3 DEF Exactly
<1> QED
  BY <1>1, <1>5, <1>6

-----------------------------------------------------------------------------
(* The owner receives.                                                     *)

LEMMA PolledIs ==
    ASSUME Arrived # {}
    PROVE  Polled \in Lane /\ lane[Polled].results # << >>
<1>1. Arrived \in SUBSET Nat
  BY LaneIs DEF Arrived
<1>2. \E w \in Arrived : \A v \in Arrived : w <= v
  BY <1>1, Least
<1>3. Polled \in Arrived
  BY <1>2 DEF Polled
<1> QED
  BY <1>3 DEF Arrived

LEMMA TakenIs ==
    ASSUME Arrived # {}, Structure(call, pool, lane, it), pool.open,
           NEW j, j \in Iterator, j.next = it.next
    PROVE  /\ Polled \in Lane /\ Taken \in LaneStates /\ Cs(Taken) = Cs(lane)
           /\ Rs(Taken) = Rs(lane)
           /\ Taking(it, j, Cs(lane), Qs(lane), Qs(Taken), Polled)
           /\ Message = Qs(lane)[Polled][1]
           /\ Message \in Completion
           /\ Settled = pool.pending \ {[task |-> Qs(lane)[Polled][1].task,
                                         worker |-> Polled]}
<1>1. Polled \in Lane /\ lane[Polled].results # << >>
  BY PolledIs
<1>2. /\ lane \in LaneStates /\ lane[Polled] \in LaneState /\ it \in Iterator
      /\ RingTypes(Cs(lane), Qs(lane)) /\ Qs(lane)[Polled] = lane[Polled].results
  BY <1>1, LanesTyped DEF Structure, LaneStates
<1>3. /\ lane[Polled].results \in Seq(Completion)
      /\ Tail(lane[Polled].results) \in Seq(Completion)
      /\ Head(lane[Polled].results) = lane[Polled].results[1]
      /\ lane[Polled].results[1] \in Completion
  BY <1>1, <1>2 DEF LaneState, AnswerQueue
<1>4. PICK x : x = [lane[Polled] EXCEPT !.results = Tail(lane[Polled].results)]
  OBVIOUS
<1>5. /\ x \in LaneState /\ x.commands = lane[Polled].commands
      /\ x.results = Tail(lane[Polled].results) /\ x.random = lane[Polled].random
  BY <1>2, <1>3, <1>4 DEF LaneState, AnswerQueue
<1>6. Taken = [lane EXCEPT ![Polled] = x]
  BY <1>2, <1>4 DEF Taken, LaneState, LaneStates
<1>7. Swapped(lane, Taken, Polled, x)
  <2>1. Swaps(lane, Taken, Polled, x)
    BY <1>1, <1>2, <1>5, <1>6 DEF Swaps
  <2> QED
    BY <2>1, LaneSwapped
<1>8. Taken \in LaneStates /\ Cs(Taken) = Cs(lane) /\ Rs(Taken) = Rs(lane)
  BY <1>5, <1>7 DEF Swapped, Cs, Rs
<1>9. Qs(Taken) = [Qs(lane) EXCEPT ![Polled] = Tail(@)]
  BY <1>2, <1>5, <1>7 DEF Swapped
<1>10. Taking(it, j, Cs(lane), Qs(lane), Qs(Taken), Polled)
  BY <1>1, <1>2, <1>9 DEF Taking
<1>11. Message = Qs(lane)[Polled][1] /\ Message \in Completion
  BY <1>2, <1>3 DEF Message
<1> QED
  BY <1>1, <1>8, <1>10, <1>11 DEF Settled

LEMMA OutcomesDiffer ==
    /\ \A v \in Result : v # Exhausted /\ v # Error
    /\ \A s \in Tale : s # None
<1>1. \A v \in Result : DOMAIN v = {"worker", "random", "index", "order"}
  BY DEF Result
<1>2. DOMAIN Exhausted = {"exhausted"} /\ DOMAIN Error = {"error"} /\ DOMAIN None = {"none"}
  BY DEF Exhausted, Error, None
<1>3. \A s \in Tale : DOMAIN s = {"order", "seed", "random"}
  BY DEF Tale
<1>4. "worker" # "exhausted" /\ "worker" # "error" /\ "order" # "none"
  OBVIOUS
<1> QED
  BY <1>1, <1>2, <1>3, <1>4

(* A value taken is ready; in order and over a map, nothing else changes.  *)
LEMMA AcceptIs ==
    ASSUME OrderedMap, NEW i, i \in Iterator, NEW task, task \in Nat,
           NEW value, value \in Result, NEW w
    PROVE  LET j == Accept(i, task, value, w)
           IN  /\ j \in Iterator /\ Accepting(i, j, task, value)
               /\ j.valid = i.valid /\ j.raised = i.raised /\ j.closed = i.closed
               /\ j.complete = i.complete /\ j.delivered = i.delivered
               /\ j.seen = i.seen /\ j.phase = i.phase /\ j.began = i.began
               /\ j.reused = i.reused /\ j.seed = i.seed
<1>1. PICK new : new = [t \in DOMAIN i.ready \cup {task} |->
                           IF t = task THEN value ELSE i.ready[t]]
  OBVIOUS
<1>2. new \in ReadySet
  <2>1. PICK D \in SUBSET Nat : i.ready \in [D -> Result]
    BY DEF Iterator, ReadySet
  <2>2. new \in [D \cup {task} -> Result] /\ D \cup {task} \in SUBSET Nat
    BY <1>1, <2>1
  <2> QED
    BY <2>2 DEF ReadySet
<1>3. PICK j : j = [i EXCEPT !.ready = new]
  OBVIOUS
<1>4. value # Exhausted
  BY OutcomesDiffer
<1>5. i.active = Lane /\ i.active # {} /\ i.exhausted \in BOOLEAN
  <2>1. 0 \in Lane
    BY LaneIs, LanesPositive
  <2> QED
    BY <2>1 DEF Iterator, Actives
<1>6. Accept(i, task, value, w) = j
  <2>1. ArrivalWith(i.arrival, task) = i.arrival
    BY DEF ArrivalWith, OrderedMap
  <2>2. Accept(i, task, value, w)
           = [i EXCEPT !.ready = new, !.arrival = i.arrival, !.active = i.active,
                       !.exhausted = @ \/ i.active = {}]
    BY <1>1, <1>4, <2>1 DEF Accept, Iterator
  <2>3. (i.exhausted \/ i.active = {}) = i.exhausted
    BY <1>5
  <2>4. [i EXCEPT !.ready = new, !.arrival = i.arrival, !.active = i.active,
                  !.exhausted = @ \/ i.active = {}]
           = [i EXCEPT !.ready = new, !.arrival = i.arrival, !.active = i.active,
                       !.exhausted = i.exhausted]
    BY <2>3 DEF Iterator
  <2>5. [i EXCEPT !.ready = new, !.arrival = i.arrival, !.active = i.active,
                  !.exhausted = i.exhausted] = j
    BY <1>3 DEF Iterator
  <2> QED
    BY <2>2, <2>4, <2>5
<1>7. j \in Iterator
  BY <1>2, <1>3 DEF Iterator
<1> QED
  BY <1>1, <1>3, <1>6, <1>7 DEF Accepting, Iterator

LEMMA PoolSettles ==
    ASSUME Structure(call, pool, lane, it), NEW s
    PROVE  /\ [pool EXCEPT !.pending = s] = [open |-> pool.open, pending |-> s]
           /\ [pool EXCEPT !.pending = s].open = pool.open
           /\ [pool EXCEPT !.pending = s].pending = s
<1>1. pool = [open |-> pool.open, pending |-> pool.pending]
  BY DEF Structure
<1> QED
  BY <1>1

(* The answer taken leaves the rings and the pool.                         *)
LEMMA ReceiveOpens ==
    ASSUME Structure(call, pool, lane, it), pool.open, Arrived # {},
           NEW j, j \in Iterator, j.next = it.next,
           Origin(j),
           Live(j) => Live(it) /\ Accepting(it, j, Message.task, Message.value)
    PROVE  /\ Opened(j, Settled, Taken)
           /\ Live(j) /\ Message.value # Error
              /\ Faithful(it, Cs(lane), Qs(lane), Rs(lane)) =>
                    Faithful(j, Cs(Taken), Qs(Taken), Rs(Taken))
<1>1. /\ Polled \in Lane /\ Taken \in LaneStates /\ Cs(Taken) = Cs(lane)
      /\ Rs(Taken) = Rs(lane)
      /\ Taking(it, j, Cs(lane), Qs(lane), Qs(Taken), Polled)
      /\ Message = Qs(lane)[Polled][1]
      /\ Settled = pool.pending \ {[task |-> Qs(lane)[Polled][1].task, worker |-> Polled]}
  BY TakenIs
<1>2. /\ OrderedMap /\ pool.pending \in PendingSet
      /\ Ringed(it, pool.pending, Cs(lane), Qs(lane))
      /\ Live(it) => Window(it, Cs(lane), Qs(lane))
  BY DEF Structure, Opened, Sound
<1>3. Ringed(j, Settled, Cs(lane), Qs(Taken))
  BY <1>1, <1>2, TakeKeepsRings
<1>4. InRings(it, Cs(lane), Qs(lane))
  BY <1>2 DEF Ringed
<1>5. Live(j) => Window(j, Cs(lane), Qs(Taken))
  <2> SUFFICES ASSUME Live(j) PROVE Window(j, Cs(lane), Qs(Taken))
    OBVIOUS
  <2>1. Window(it, Cs(lane), Qs(lane))
        /\ Accepting(it, j, Qs(lane)[Polled][1].task, Message.value)
    BY <1>1, <1>2
  <2> QED
    BY <1>1, <1>4, <2>1, TakeKeepsWindow
<1>6. Settled \in PendingSet
  BY <1>1, <1>2 DEF PendingSet
<1>7. Opened(j, Settled, Taken)
  BY <1>1, <1>2, <1>3, <1>5, <1>6 DEF Opened, Sound
<1>8. ASSUME Live(j), Message.value # Error, Faithful(it, Cs(lane), Qs(lane), Rs(lane))
      PROVE  Faithful(j, Cs(lane), Qs(Taken), Rs(lane))
  <2>1. Accepting(it, j, Qs(lane)[Polled][1].task, Message.value)
        /\ Message.value = Qs(lane)[Polled][1].value
    BY <1>1, <1>8
  <2> QED
    BY <1>1, <1>4, <1>8, <2>1, TakeKeepsFaithful
<1> QED
  BY <1>1, <1>7, <1>8

LEMMA ReceiveKeeps ==
    ASSUME OrderedMap, Structure(call, pool, lane, it), pool.open,
           call \in {"next", "capture"}, Receive
    PROVE  /\ Structure(call', pool', lane', it')
           /\ Exactly(pool, lane, it) => Exactly(pool', lane', it')
<1>1. /\ Arrived # {} /\ lane' = Taken /\ pool' = [pool EXCEPT !.pending = Settled]
  BY DEF Receive
<1>2. /\ it \in Iterator /\ Opened(it, pool.pending, lane) /\ Calling(call, pool, it)
      /\ pool.open \in BOOLEAN
  BY DEF Structure
<1>3. /\ Taken \in LaneStates /\ Message \in Completion
  BY <1>1, <1>2, TakenIs
<1>4. pool' = [open |-> pool.open, pending |-> Settled] /\ pool'.open = pool.open
      /\ pool'.pending = Settled
  BY <1>1, PoolSettles
<1>5. Settled \subseteq pool.pending
  BY DEF Settled
<1>6. Origin(it)
  BY <1>2 DEF Opened, Sound
<1>7. CASE Message.value = Error
  <2>1. call' = "idle" /\ it' = [it EXCEPT !.raised = TRUE]
    BY <1>7 DEF Receive
  <2>2. /\ it' \in Iterator /\ it'.next = it.next /\ it'.raised = TRUE
        /\ it'.valid = it.valid /\ it'.complete = it.complete /\ it'.closed = it.closed
        /\ Alike(it, it') /\ it'.delivered = it.delivered
    BY <1>2, <2>1 DEF Iterator, Alike
  <2>3. ~Live(it')
    BY <2>2 DEF Live
  <2>4. Origin(it')
    BY <1>6, <2>2 DEF Origin, Bounded, Alike
  <2>5. Opened(it', Settled, Taken)
    BY <1>1, <2>2, <2>3, <2>4, ReceiveOpens
  <2>6. Calling("idle", pool', it')
    BY <1>2, <1>4, <1>5, <2>2, <2>3 DEF Calling
  <2>7. Structure("idle", pool', Taken, it')
    BY <1>2, <1>3, <1>4, <2>2, <2>3, <2>5, <2>6 DEF Structure
  <2>8. Exactly(pool', Taken, it')
    BY <2>3 DEF Exactly
  <2> QED
    BY <1>1, <2>1, <2>7, <2>8
<1>8. CASE Message.value # Error
  <2>1. call' = call /\ it' = Accept(it, Message.task, Message.value, Polled)
    BY <1>8 DEF Receive
  <2>2. Message.value \in Result /\ Message.task \in Nat
    BY <1>3, <1>8 DEF Completion, Outcome
  <2>3. /\ it' \in Iterator /\ Accepting(it, it', Message.task, Message.value)
        /\ it'.valid = it.valid /\ it'.raised = it.raised /\ it'.closed = it.closed
        /\ it'.complete = it.complete /\ it'.delivered = it.delivered
        /\ it'.seen = it.seen /\ it'.phase = it.phase /\ it'.began = it.began
        /\ it'.reused = it.reused /\ it'.seed = it.seed
    BY <1>2, <2>1, <2>2, AcceptIs
  <2>4. (Live(it') <=> Live(it)) /\ it'.next = it.next /\ it'.delivery = it.delivery
    BY <2>3 DEF Live, Accepting
  <2>5. Origin(it')
    <3>1. Message.task \in 0..(it.next - 1)
      <4>1. InRings(it, Cs(lane), Qs(lane))
        BY <1>2 DEF Opened, Sound, Ringed
      <4>2. /\ Taking(it, it', Cs(lane), Qs(lane), Qs(Taken), Polled)
            /\ Message = Qs(lane)[Polled][1]
        BY <1>1, <2>3, <2>4, TakenIs
      <4> QED
        BY <4>1, <4>2, FirstAnswer
    <3>2. DOMAIN it'.ready = DOMAIN it.ready \cup {Message.task}
      BY <2>3 DEF Accepting
    <3>3. Bounded(it')
      BY <1>6, <2>3, <3>1, <3>2 DEF Origin, Bounded, Accepting
    <3> QED
      BY <1>6, <2>3, <3>3 DEF Origin, Accepting
  <2>6. /\ Opened(it', Settled, Taken)
        /\ Live(it') /\ Message.value # Error
              /\ Faithful(it, Cs(lane), Qs(lane), Rs(lane)) =>
                    Faithful(it', Cs(Taken), Qs(Taken), Rs(Taken))
    BY <1>1, <2>3, <2>4, <2>5, ReceiveOpens
  <2>7. Calling(call, pool', it')
    BY <1>2, <1>4, <1>5, <2>3, <2>4 DEF Calling
  <2>8. Live(it) => it.delivered = it.delivery
    BY DEF Structure
  <2>9. Structure(call, pool', Taken, it')
    BY <1>2, <1>3, <1>4, <2>3, <2>4, <2>6, <2>7, <2>8 DEF Structure
  <2>10. ASSUME Exactly(pool, lane, it) PROVE Exactly(pool', Taken, it')
    <3>1. ASSUME Live(it')
          PROVE  /\ Faithful(it', Cs(Taken), Qs(Taken), Rs(Taken)) /\ Spread(it')
                 /\ Told(it')
      <4>1. Faithful(it, Cs(lane), Qs(lane), Rs(lane)) /\ Spread(it) /\ Told(it)
        BY <2>4, <2>10, <3>1 DEF Exactly
      <4>2. Spread(it')
        BY <4>1, <2>4 DEF Spread
      <4>3. Told(it')
        BY <4>1, <2>3 DEF Told, Exact, Advanced, Accepting
      <4> QED
        BY <1>8, <2>6, <3>1, <4>1, <4>2, <4>3
    <3> QED
      BY <3>1 DEF Exactly
  <2> QED
    BY <1>1, <2>1, <2>9, <2>10
<1> QED
  BY <1>7, <1>8

LEMMA DrainKeeps ==
    ASSUME OrderedMap, Structure(call, pool, lane, it), Drain
    PROVE  /\ Structure(call', pool', lane', it')
           /\ Exactly(pool, lane, it) => Exactly(pool', lane', it')
<1>1. /\ call = "drain" /\ pool.pending # {} /\ Arrived # {}
      /\ lane' = Taken /\ pool' = [pool EXCEPT !.pending = Settled]
      /\ call' \in {"idle", "drain"} /\ it' = it
  BY DEF Drain
<1>2. /\ pool.open /\ ~it.valid /\ Calling(call, pool, it)
  BY <1>1 DEF Structure, Calling
<1>3. /\ it \in Iterator /\ Opened(it, pool.pending, lane) /\ pool.open \in BOOLEAN
  BY <1>2 DEF Structure
<1>4. ~Live(it)
  BY <1>2 DEF Live
<1>5. Taken \in LaneStates
  BY <1>1, <1>2, <1>3, TakenIs
<1>6. pool' = [open |-> pool.open, pending |-> Settled] /\ pool'.open = pool.open
      /\ pool'.pending = Settled
  BY <1>1, PoolSettles
<1>7. Origin(it)
  BY <1>3 DEF Opened, Sound
<1>8. Opened(it, Settled, Taken)
  BY <1>1, <1>2, <1>3, <1>4, <1>7, ReceiveOpens
<1>9. Calling(call', pool', it)
  BY <1>1, <1>2, <1>4, <1>6 DEF Calling
<1>10. Structure(call', pool', Taken, it)
  BY <1>2, <1>3, <1>4, <1>5, <1>6, <1>8, <1>9 DEF Structure
<1>11. Exactly(pool', Taken, it)
  BY <1>4 DEF Exactly
<1> QED
  BY <1>1, <1>10, <1>11

LEMMA CallNextKeeps ==
    ASSUME Structure(call, pool, lane, it), CallNext
    PROVE  /\ Structure(call', pool', lane', it')
           /\ Exactly(pool, lane, it) => Exactly(pool', lane', it')
<1>1. /\ call = "idle" /\ it.valid /\ ~it.closed /\ pool.open /\ call' = "next"
      /\ pool' = pool /\ lane' = lane /\ it' = it
  BY DEF CallNext
<1>2. Calling(call, pool, it)
  BY DEF Structure
<1>3. Calling("next", pool, it)
  BY <1>1, <1>2 DEF Calling
<1>4. Structure("next", pool, lane, it)
  BY <1>3 DEF Structure
<1> QED
  BY <1>1, <1>4

PoolOfIs(p) == /\ PoolOf(p).open = TRUE /\ PoolOf(p).pending = p
               /\ PoolOf(p) = [open |-> PoolOf(p).open, pending |-> PoolOf(p).pending]

LEMMA PoolOfFields == \A p : PoolOfIs(p)
  BY DEF PoolOf, PoolOfIs

(* The loop of next submits.                                               *)
LEMMA SubmitKeeps ==
    ASSUME OrderedMap, Structure(call, pool, lane, it), call = "next", pool.open,
           NEW s, s \in Filled(State(it, pool.pending, lane), Limit),
           Install(s, lane), call' = call
    PROVE  /\ Structure(call', pool', lane', it')
           /\ Exactly(pool, lane, it) => Exactly(pool', lane', it')
<1>1. it \in Iterator /\ Opened(it, pool.pending, lane) /\ Calling(call, pool, it)
  BY DEF Structure
<1>2. PICK l2 : l2 = Commanded(lane, s.commands)
  OBVIOUS
<1>3. /\ s.it \in Iterator /\ Opened(s.it, s.pending, l2)
      /\ Same(it, s.it)
      /\ Live(it) /\ Faithful(it, Cs(lane), Qs(lane), Rs(lane)) =>
                Faithful(s.it, Cs(l2), Qs(l2), Rs(l2)) /\ Spread(s.it)
  <2>1. Starts(State(it, pool.pending, lane), it, pool.pending, lane)
    BY <1>1, StateStarts
  <2> QED
    BY <1>1, <1>2, <2>1, FillOpens
<1>4. it' = s.it /\ pool' = PoolOf(s.pending) /\ lane' = l2
  BY <1>2 DEF Install, PoolOf, Commanded
<1>5. PoolOfIs(s.pending)
  BY PoolOfFields
<1>6. /\ Live(s.it) <=> Live(it)
      /\ s.it.valid = it.valid /\ s.it.complete = it.complete
      /\ s.it.closed = it.closed
      /\ s.it.delivered = it.delivered /\ s.it.delivery = it.delivery
  BY <1>3 DEF Same, Live
<1>7. Calling(call, PoolOf(s.pending), s.it)
  BY <1>1, <1>5, <1>6 DEF Calling, PoolOfIs
<1>8. l2 \in LaneStates
  BY <1>3 DEF Opened
<1>9. Live(it) => it.delivered = it.delivery
  BY DEF Structure
<1>10. Structure(call, PoolOf(s.pending), l2, s.it)
  BY <1>3, <1>5, <1>6, <1>7, <1>8, <1>9 DEF Structure, PoolOfIs
<1>11. ASSUME Exactly(pool, lane, it) PROVE Exactly(PoolOf(s.pending), l2, s.it)
  <2>1. ASSUME Live(s.it)
        PROVE  /\ Faithful(s.it, Cs(l2), Qs(l2), Rs(l2)) /\ Spread(s.it)
               /\ Told(s.it)
    <3>1. Faithful(it, Cs(lane), Qs(lane), Rs(lane)) /\ Told(it) /\ Live(it)
      BY <1>6, <1>11, <2>1 DEF Exactly
    <3>2. Told(s.it)
      BY <1>3, <3>1 DEF Told, Exact, Advanced, Same
    <3> QED
      BY <1>3, <3>1, <3>2
  <2> QED
    BY <2>1 DEF Exactly
<1> QED
  BY <1>4, <1>10, <1>11

LEMMA ReceiveNextKeeps ==
    ASSUME OrderedMap, Structure(call, pool, lane, it), ReceiveNext
    PROVE  /\ Structure(call', pool', lane', it')
           /\ Exactly(pool, lane, it) => Exactly(pool', lane', it')
<1>1. call = "next" /\ pool.open
  BY DEF ReceiveNext
<1>2. PICK s \in Filled(State(it, pool.pending, lane), Limit) :
          (Install(s, lane) /\ call' = call) \/ Receive
  BY DEF ReceiveNext
<1>3. CASE Install(s, lane) /\ call' = call
  BY <1>1, <1>3, SubmitKeeps
<1>4. CASE Receive
  BY <1>1, <1>4, ReceiveKeeps
<1> QED
  BY <1>2, <1>3, <1>4

(* With nothing sent and nothing held, the sampler's end is delivery's.    *)
LEMMA NothingLeft ==
    ASSUME NEW i, i \in Iterator, NEW c, NEW q, RingTypes(c, q),
           Ringed(i, {}, c, q), Window(i, c, q), i.exhausted, DOMAIN i.ready = {}
    PROVE  i.delivery = Batches
<1>1. i.next = Batches /\ i.next \in Nat /\ i.delivery \in Nat
  BY DEF Window, Iterator
<1>2. Cardinality({}) + Cardinality({}) = i.next - i.delivery
  BY WindowCounted
<1> QED
  BY <1>1, <1>2, FS_EmptySet

(* The iterator is complete.                                               *)
LEMMA FinishKeeps ==
    ASSUME OrderedMap, Structure(call, pool, lane, it), Finish
    PROVE  /\ Structure(call', pool', lane', it')
           /\ Exactly(pool, lane, it) => Exactly(pool', lane', it')
<1>1. call = "next" /\ pool.open /\ call' = "idle"
  BY DEF Finish
<1>2. PICK s \in Filled(State(it, pool.pending, lane), Limit) :
          /\ s.it.exhausted /\ s.pending = {} /\ DOMAIN s.it.ready = {}
          /\ it' = [s.it EXCEPT !.closed = TRUE, !.complete = TRUE]
  BY DEF Finish
<1>3. it \in Iterator /\ Opened(it, pool.pending, lane) /\ lane \in LaneStates
  BY <1>1 DEF Structure
<1>4. PICK l2 : l2 = Commanded(lane, s.commands)
  OBVIOUS
<1>5. /\ s.it \in Iterator /\ s.commands \in [Lane -> CommandQueue]
      /\ Opened(s.it, s.pending, l2) /\ Same(it, s.it)
      /\ pool.pending = {} /\ s.commands = Cs(lane)
      /\ Live(it) /\ Faithful(it, Cs(lane), Qs(lane), Rs(lane)) =>
                Faithful(s.it, Cs(l2), Qs(l2), Rs(l2)) /\ Spread(s.it)
  <2>1. Starts(State(it, pool.pending, lane), it, pool.pending, lane)
    BY <1>3, StateStarts
  <2>2. /\ s.it \in Iterator /\ s.commands \in [Lane -> CommandQueue]
        /\ Opened(s.it, s.pending, l2) /\ Same(it, s.it)
        /\ s.pending = {} => /\ pool.pending = {} /\ s.commands = Cs(lane)
                             /\ s.it.next = it.next
        /\ Live(it) /\ Faithful(it, Cs(lane), Qs(lane), Rs(lane)) =>
                Faithful(s.it, Cs(l2), Qs(l2), Rs(l2)) /\ Spread(s.it)
    BY <1>3, <1>4, <2>1, FillOpens
  <2> QED
    BY <1>2, <2>2
<1>6. Cs(l2) = Cs(lane) /\ Qs(l2) = Qs(lane) /\ Rs(l2) = Rs(lane)
  BY <1>3, <1>4, <1>5, CommandedIs
<1>7. /\ it' \in Iterator /\ it'.closed = TRUE /\ it'.complete = TRUE
      /\ Alike(s.it, it') /\ it'.valid = s.it.valid /\ it'.raised = s.it.raised
      /\ it'.seen = s.it.seen /\ it'.delivered = s.it.delivered
  BY <1>2, <1>5 DEF Iterator, Alike
<1>8. /\ Live(it') <=> Live(it)
      /\ Live(it') => Live(s.it)
      /\ it'.delivered = it.delivered /\ it'.delivery = it.delivery
  BY <1>5, <1>7 DEF Same, Alike, Live
<1>9. Live(it) => it.delivered = it.delivery
  BY <1>1 DEF Structure
<1>10. Opened(it', {}, lane)
  <2>1. Sound(s.it, {}, Cs(lane), Qs(lane))
    BY <1>2, <1>5, <1>6 DEF Opened
  <2>2. it'.delivered <= it'.delivery
    BY <1>7, <2>1 DEF Sound, Origin, Bounded, Alike
  <2>3. Sound(it', {}, Cs(lane), Qs(lane))
    BY <1>7, <1>8, <2>1, <2>2, AlikeKeepsRings
  <2>4. {} \in PendingSet
    BY DEF PendingSet
  <2> QED
    BY <1>3, <1>7, <2>3, <2>4 DEF Opened
<1>11. ASSUME Exactly(pool, lane, it), Live(it')
       PROVE  /\ Faithful(it', Cs(lane), Qs(lane), Rs(lane)) /\ Spread(it')
              /\ Told(it')
  <2>1. Faithful(it, Cs(lane), Qs(lane), Rs(lane)) /\ Told(it) /\ Live(it)
    BY <1>1, <1>8, <1>11 DEF Exactly
  <2>2. Faithful(s.it, Cs(lane), Qs(lane), Rs(lane)) /\ Spread(s.it)
    BY <1>5, <1>6, <2>1
  <2>3. Faithful(it', Cs(lane), Qs(lane), Rs(lane)) /\ Spread(it')
    BY <1>7, <2>2, AlikeKeepsFaithful
  <2>4. Told(it')
    <3>1. it'.seen = it.seen /\ it'.start = it.start /\ it'.delivered = it.delivered
          /\ it'.story = it.story
      BY <1>5, <1>7 DEF Same, Alike
    <3> QED
      BY <2>1, <3>1 DEF Told, Exact, Advanced
  <2> QED
    BY <2>3, <2>4
<1>12. ASSUME Live(it') PROVE it'.start <= it'.delivered /\ it'.delivered = Batches
  <2>1. /\ RingTypes(Cs(l2), Qs(l2)) /\ Ringed(s.it, {}, Cs(l2), Qs(l2))
        /\ Window(s.it, Cs(l2), Qs(l2))
    BY <1>2, <1>5, <1>8, <1>12, LanesTyped DEF Opened, Sound
  <2>2. s.it.delivery = Batches
    BY <1>2, <1>5, <2>1, NothingLeft
  <2>3. /\ s.it.delivery = it.delivery /\ it'.start = s.it.start
        /\ s.it.start <= s.it.delivery
    BY <1>5, <1>7, <2>1 DEF Same, Alike, Window
  <2> QED
    BY <1>8, <1>9, <1>12, <2>2, <2>3
<1>13. CASE config.persistent
  <2>1. pool' = pool /\ lane' = lane
    BY <1>13 DEF Finish
  <2>2. Calling("idle", pool, it')
    BY <1>1, <1>5, <1>7, <1>12 DEF Calling
  <2>3. Structure("idle", pool, lane, it')
    BY <1>1, <1>3, <1>5, <1>7, <1>8, <1>9, <1>10, <2>2 DEF Structure
  <2>4. Exactly(pool, lane, it) => Exactly(pool, lane, it')
    BY <1>11 DEF Exactly
  <2> QED
    BY <1>1, <2>1, <2>3, <2>4
<1>14. CASE ~config.persistent
  <2>1. pool' = ClosedPool /\ lane' = NoLanes
    BY <1>14 DEF Finish
  <2>2. Calling("idle", ClosedPool, it')
    BY <1>7, <1>12, ClosedIs DEF Calling
  <2>3. Structure("idle", ClosedPool, NoLanes, it')
    BY <1>7, <2>2, ClosedIs, NoLanesIs DEF Structure
  <2>4. Exactly(pool, lane, it) => Exactly(ClosedPool, NoLanes, it')
    BY <1>11, ClosedIs DEF Exactly
  <2> QED
    BY <1>1, <2>1, <2>3, <2>4
<1> QED
  BY <1>13, <1>14

(* A batch handed to the user, seen from the iterator before the call to   *)
(* the one after it.                                                       *)
HandsOver(i, j, k, f, task, value) ==
    /\ Same(it, i) /\ Handed(i, j, task) /\ Same(j, k)
    /\ i \in Iterator /\ k \in Iterator
    /\ task = i.delivery /\ task \in DOMAIN i.ready /\ value = i.ready[task]
    /\ f = [k EXCEPT !.delivered = @ + 1, !.seen = @ \cup {value}]

LEMMA HandedOver ==
    ASSUME NEW i, NEW j, NEW k, NEW f, NEW task, NEW value,
           HandsOver(i, j, k, f, task, value)
    PROVE  /\ f \in Iterator /\ Alike(k, f)
           /\ f.valid = it.valid /\ f.raised = it.raised /\ f.complete = it.complete
           /\ f.closed = it.closed /\ f.seen = it.seen \cup {value}
           /\ f.delivered = it.delivered + 1 /\ f.delivery = it.delivery + 1
           /\ f.start = it.start /\ f.story = it.story
           /\ task = it.delivery /\ value \in Result
<1>0. /\ Same(it, i) /\ Handed(i, j, task) /\ Same(j, k)
      /\ i \in Iterator /\ k \in Iterator
      /\ task = i.delivery /\ task \in DOMAIN i.ready /\ value = i.ready[task]
      /\ f = [k EXCEPT !.delivered = @ + 1, !.seen = @ \cup {value}]
  BY DEF HandsOver
<1>1. value \in Result
  <2>1. PICK D \in SUBSET Nat : i.ready \in [D -> Result]
    BY <1>0 DEF Iterator, ReadySet
  <2> QED
    BY <1>0, <2>1
<1>2. PICK n \in Nat, e \in {k.seen \cup {value}} : n = k.delivered + 1 /\ e = k.seen \cup {value}
  <2>1. k.delivered + 1 \in Nat
    BY <1>0 DEF Iterator
  <2> QED
    BY <2>1
<1>3. f = [k EXCEPT !.delivered = n, !.seen = e]
  BY <1>0, <1>2 DEF Iterator
<1>4. e \in SeenSet
  BY <1>0, <1>1, <1>2 DEF Iterator, SeenSet
<1>5. /\ f \in Iterator /\ Alike(k, f) /\ f.delivered = n /\ f.seen = e
      /\ f.valid = k.valid /\ f.raised = k.raised /\ f.complete = k.complete
      /\ f.closed = k.closed
  <2>1. k \in Iterator /\ f = [k EXCEPT !.delivered = n, !.seen = e]
    BY <1>0, <1>3
  <2>2. f \in Iterator
    BY ONLY <1>4, <2>1, n \in Nat DEF Iterator
  <2>3. /\ f.delivered = n /\ f.seen = e
        /\ f.valid = k.valid /\ f.raised = k.raised /\ f.complete = k.complete
        /\ f.closed = k.closed
    BY ONLY <2>1 DEF Iterator
  <2>4. Alike(k, f)
    BY ONLY <2>1 DEF Iterator, Alike
  <2> QED
    BY <2>2, <2>3, <2>4
<1>6. /\ k.valid = it.valid /\ k.raised = it.raised /\ k.complete = it.complete
      /\ k.closed = it.closed /\ k.seen = it.seen /\ k.delivered = it.delivered
      /\ k.delivery = task + 1 /\ k.start = it.start /\ k.story = it.story
      /\ task = it.delivery
  BY <1>0 DEF Same, Handed
<1> QED
  BY <1>1, <1>2, <1>5, <1>6 DEF Alike

LEMMA HandedTold ==
    ASSUME NEW i, NEW j, NEW k, NEW f, NEW task, NEW value,
           HandsOver(i, j, k, f, task, value), it \in Iterator,
           Told(it), it.delivered = it.delivery, it.start <= it.delivery,
           \A t \in DOMAIN i.ready : i.ready[t] = Exact(i, t)
    PROVE  Told(f)
<1>1. /\ f.seen = it.seen \cup {value} /\ f.delivered = it.delivered + 1
      /\ f.start = it.start /\ f.story = it.story /\ task = it.delivery
  BY HandedOver
<1>2. i.story = it.story /\ value = Exact(i, task)
  BY DEF HandsOver, Same
<1>3. \A t : Exact(f, t) = Exact(it, t) /\ Exact(i, t) = Exact(it, t)
  BY <1>1, <1>2 DEF Exact, Advanced
<1>4. value = Exact(f, task) /\ value.index = task
  BY <1>2, <1>3 DEF Exact
<1>5. \A v \in f.seen : v = Exact(f, v.index)
  BY <1>1, <1>3, <1>4 DEF Told
<1>6. PICK a \in Nat, d \in Nat : a = it.start /\ d = it.delivered
  BY DEF Iterator
<1>7. {v.index : v \in f.seen} = {v.index : v \in it.seen} \cup {task}
  BY <1>1, <1>4
<1>8. {v.index : v \in it.seen} = a..(d - 1)
  BY <1>6 DEF Told
<1>9. a..(d - 1) \cup {d} = a..((d + 1) - 1)
  <2>1. a <= d
    BY <1>6
  <2> QED
    BY <2>1
<1>10. {v.index : v \in f.seen} = f.start..(f.delivered - 1)
  BY <1>1, <1>6, <1>7, <1>8, <1>9
<1> QED
  BY <1>5, <1>10 DEF Told

LEMMA DeliverSteps ==
    ASSUME OrderedMap, Structure(call, pool, lane, it), Deliver
    PROVE  \E s, task, more, value :
              /\ s \in Filled(State(it, pool.pending, lane), Limit)
              /\ task = s.it.delivery /\ task \in DOMAIN s.it.ready
              /\ more \in Filled([s EXCEPT !.it = Without(@, task)], Limit)
              /\ value = s.it.ready[task]
              /\ \/ value = Exhausted
                 \/ /\ Install([more EXCEPT !.it.delivered = @ + 1,
                                            !.it.seen = @ \cup {value}], lane)
                    /\ call' = "idle"
<1>1. PICK s \in Filled(State(it, pool.pending, lane), Limit) :
         \E task \in Deliverable(s.it) :
         \E more \in Filled([s EXCEPT !.it = Without(@, task)], Limit) :
             LET value == s.it.ready[task]
             IN  IF value = Exhausted
                 THEN Install(more, lane) /\ UNCHANGED call
                 ELSE /\ Install([more EXCEPT
                                    !.it.delivered = @ + 1,
                                    !.it.seen = @ \cup {value}], lane)
                      /\ call' = "idle"
  BY DEF Deliver
<1>2. PICK task \in Deliverable(s.it) :
         \E more \in Filled([s EXCEPT !.it = Without(@, task)], Limit) :
             LET value == s.it.ready[task]
             IN  IF value = Exhausted
                 THEN Install(more, lane) /\ UNCHANGED call
                 ELSE /\ Install([more EXCEPT
                                    !.it.delivered = @ + 1,
                                    !.it.seen = @ \cup {value}], lane)
                      /\ call' = "idle"
  BY <1>1
<1>3. PICK more \in Filled([s EXCEPT !.it = Without(@, task)], Limit) :
             LET value == s.it.ready[task]
             IN  IF value = Exhausted
                 THEN Install(more, lane) /\ UNCHANGED call
                 ELSE /\ Install([more EXCEPT
                                    !.it.delivered = @ + 1,
                                    !.it.seen = @ \cup {value}], lane)
                      /\ call' = "idle"
  BY <1>2
<1>4. task = s.it.delivery /\ task \in DOMAIN s.it.ready
  BY <1>2 DEF Deliverable, OrderedMap
<1>5. PICK value : value = s.it.ready[task]
  OBVIOUS
<1>6. \/ value = Exhausted
      \/ /\ Install([more EXCEPT !.it.delivered = @ + 1, !.it.seen = @ \cup {value}], lane)
         /\ call' = "idle"
  BY <1>3, <1>5
<1> QED
  BY <1>1, <1>3, <1>4, <1>5, <1>6

LEMMA DeliverKeeps ==
    ASSUME OrderedMap, Structure(call, pool, lane, it), Deliver
    PROVE  /\ Structure(call', pool', lane', it')
           /\ Exactly(pool, lane, it) => Exactly(pool', lane', it')
<1>1. call = "next" /\ pool.open
  BY DEF Deliver
<1>2. PICK s, task, more, value :
              /\ s \in Filled(State(it, pool.pending, lane), Limit)
              /\ task = s.it.delivery /\ task \in DOMAIN s.it.ready
              /\ more \in Filled([s EXCEPT !.it = Without(@, task)], Limit)
              /\ value = s.it.ready[task]
              /\ \/ value = Exhausted
                 \/ /\ Install([more EXCEPT !.it.delivered = @ + 1,
                                            !.it.seen = @ \cup {value}], lane)
                    /\ call' = "idle"
  BY DeliverSteps
<1>3. /\ it \in Iterator /\ Opened(it, pool.pending, lane) /\ lane \in LaneStates
      /\ Calling(call, pool, it)
  BY <1>1 DEF Structure
<1>4. PICK l1 : l1 = Commanded(lane, s.commands)
  OBVIOUS
<1>5. /\ s \in FillState /\ s.it \in Iterator /\ s.commands \in [Lane -> CommandQueue]
      /\ Opened(s.it, s.pending, l1) /\ Same(it, s.it) /\ (Live(s.it) => Live(it))
      /\ Live(it) /\ Faithful(it, Cs(lane), Qs(lane), Rs(lane)) =>
                Faithful(s.it, Cs(l1), Qs(l1), Rs(l1)) /\ Spread(s.it)
  <2>1. Starts(State(it, pool.pending, lane), it, pool.pending, lane)
    BY <1>3, StateStarts
  <2> QED
    BY <1>2, <1>3, <1>4, <2>1, FillOpens
<1>6. /\ l1 \in LaneStates /\ Cs(l1) = s.commands /\ s.pending \in PendingSet
      /\ Sound(s.it, s.pending, Cs(l1), Qs(l1))
  BY <1>3, <1>4, <1>5, CommandedIs DEF Opened
<1>7. Handing(s.it, s.pending, Cs(l1), Qs(l1), task)
  BY <1>2, <1>5, <1>6, LanesTyped DEF Handing
<1>8. PICK j : j = Without(s.it, task)
  OBVIOUS
<1>9. Handed(s.it, j, task)
  BY <1>7, <1>8, HandIs
<1>10. Opened(j, s.pending, l1)
  <2>1. Sound(j, s.pending, Cs(l1), Qs(l1))
    BY <1>7, <1>9, HandKeepsRings
  <2> QED
    BY <1>6, <1>9, <2>1 DEF Opened, Handed
<1>11. PICK m : m = [s EXCEPT !.it = Without(@, task)]
  OBVIOUS
<1>12. Starts(m, j, s.pending, l1)
  <2>1. m = [s EXCEPT !.it = j]
    BY <1>5, <1>8, <1>11 DEF FillState
  <2> QED
    BY <1>5, <1>6, <1>9, <2>1 DEF FillState, Starts, Handed
<1>13. PICK l2 : l2 = Commanded(l1, more.commands)
  OBVIOUS
<1>14. /\ more \in FillState /\ more.it \in Iterator
       /\ Opened(more.it, more.pending, l2) /\ Same(j, more.it)
       /\ Live(j) /\ Faithful(j, Cs(l1), Qs(l1), Rs(l1)) =>
                Faithful(more.it, Cs(l2), Qs(l2), Rs(l2)) /\ Spread(more.it)
  <2>1. more \in Filled(m, Limit)
    BY <1>2, <1>11
  <2> QED
    BY <1>10, <1>12, <1>13, <2>1, FillOpens
<1>15. l2 = Commanded(lane, more.commands) /\ l2 \in LaneStates
  BY <1>3, <1>4, <1>13, <1>14, CommandedTwice DEF Opened
<1>16. PICK f : f = [more.it EXCEPT !.delivered = @ + 1, !.seen = @ \cup {value}]
  OBVIOUS
<1>17. HandsOver(s.it, j, more.it, f, task, value)
  BY <1>2, <1>5, <1>9, <1>14, <1>16 DEF HandsOver
<1>18. /\ f \in Iterator /\ Alike(more.it, f)
       /\ f.valid = it.valid /\ f.raised = it.raised /\ f.complete = it.complete
       /\ f.closed = it.closed
       /\ f.delivered = it.delivered + 1 /\ f.delivery = it.delivery + 1
       /\ task = it.delivery /\ value \in Result
  BY <1>17, HandedOver
<1>19. /\ Install([more EXCEPT !.it.delivered = @ + 1, !.it.seen = @ \cup {value}], lane)
       /\ call' = "idle"
  BY <1>2, <1>18, OutcomesDiffer
<1>20. [more EXCEPT !.it.delivered = @ + 1, !.it.seen = @ \cup {value}]
          = [more EXCEPT !.it = f]
  BY <1>14, <1>16 DEF FillState, Iterator
<1>21. it' = f /\ pool' = PoolOf(more.pending) /\ lane' = l2
  <2>1. PICK t : t = [more EXCEPT !.it = f]
    OBVIOUS
  <2>2. t.it = f /\ t.pending = more.pending /\ t.commands = more.commands
    BY <1>14, <2>1 DEF FillState
  <2>3. Install(t, lane)
    BY <1>19, <1>20, <2>1
  <2> QED
    BY <1>15, <2>2, <2>3 DEF Install, PoolOf, Commanded
<1>22. /\ Live(f) <=> Live(it)
       /\ Live(f) => Live(more.it)
       /\ Live(it) => Live(j)
  BY <1>5, <1>9, <1>14, <1>18 DEF Live, Same, Handed
<1>23. Opened(f, more.pending, l2)
  <2>1. f.delivered <= f.delivery
    <3>1. it.delivered <= it.delivery /\ it.delivered \in Nat /\ it.delivery \in Nat
      BY <1>3 DEF Opened, Sound, Origin, Bounded, Iterator
    <3> QED
      BY <1>18, <3>1
  <2>2. Sound(f, more.pending, Cs(l2), Qs(l2))
    BY <1>14, <1>18, <1>22, <2>1, AlikeKeepsRings DEF Opened
  <2> QED
    BY <1>14, <1>18, <2>2 DEF Opened
<1>24. PoolOfIs(more.pending)
  BY PoolOfFields
<1>25. Calling("idle", PoolOf(more.pending), f)
  BY <1>1, <1>3, <1>18, <1>24 DEF Calling, PoolOfIs
<1>26. Live(it) => it.delivered = it.delivery
  BY <1>1 DEF Structure
<1>27. Structure("idle", PoolOf(more.pending), l2, f)
  BY <1>15, <1>18, <1>22, <1>23, <1>24, <1>25, <1>26 DEF Structure, PoolOfIs
<1>28. ASSUME Exactly(pool, lane, it) PROVE Exactly(PoolOf(more.pending), l2, f)
  <2>1. ASSUME Live(f)
        PROVE  /\ Faithful(f, Cs(l2), Qs(l2), Rs(l2)) /\ Spread(f) /\ Told(f)
    <3>1. Faithful(it, Cs(lane), Qs(lane), Rs(lane)) /\ Told(it) /\ Live(it)
      BY <1>1, <1>22, <1>28, <2>1 DEF Exactly
    <3>2. Faithful(s.it, Cs(l1), Qs(l1), Rs(l1))
      BY <1>5, <3>1
    <3>3. Faithful(j, Cs(l1), Qs(l1), Rs(l1))
      BY <1>9, <3>2, HandKeepsFaithful
    <3>4. Faithful(more.it, Cs(l2), Qs(l2), Rs(l2)) /\ Spread(more.it)
      BY <1>14, <1>22, <3>1, <3>3
    <3>5. Faithful(f, Cs(l2), Qs(l2), Rs(l2)) /\ Spread(f)
      BY <1>18, <3>4, AlikeKeepsFaithful
    <3>6. \A t \in DOMAIN s.it.ready : s.it.ready[t] = Exact(s.it, t)
      BY <3>2 DEF Faithful
    <3>7. it.start <= it.delivery
      BY <1>3, <3>1 DEF Opened, Sound, Window
    <3>8. Told(f)
      BY <1>3, <1>17, <1>26, <3>1, <3>6, <3>7, HandedTold
    <3> QED
      BY <3>5, <3>8
  <2> QED
    BY <2>1 DEF Exactly
<1> QED
  BY <1>19, <1>21, <1>27, <1>28

(* The lanes stand where the story has them after skip batches.            *)
Aligned(story, l, skip) ==
    \A w \in Lane : TurnsBefore(w, skip) < TurnsBefore(w, Batches) =>
        l[w].random = Random(story.random[w].seed,
                             story.random[w].draws + TurnsBefore(w, skip))

(* An iterator begins over idle lanes.                                     *)
Begins(story, skip, i, l) ==
    /\ OrderedMap /\ l \in LaneStates /\ Idle(l)
    /\ Begin(i, l) /\ call' = "idle"
    /\ \E order, start, reused, seed :
          /\ StartsAt(order, skip, story, start, reused, seed)
          /\ i = NewIterator(order, skip, story, start, reused, seed)

Begun(aligned) ==
    /\ Structure(call', pool', lane', it')
    /\ aligned => Exactly(pool', lane', it')

LEMMA BegunKeeps ==
    ASSUME NEW story, NEW skip, NEW i, NEW l, Begins(story, skip, i, l)
    PROVE  Begun(Aligned(story, l, skip))
<1>a. /\ OrderedMap /\ l \in LaneStates /\ Idle(l)
      /\ Begin(i, l) /\ call' = "idle"
  BY DEF Begins
<1>b. PICK order, start, reused, seed :
          /\ StartsAt(order, skip, story, start, reused, seed)
          /\ i = NewIterator(order, skip, story, start, reused, seed)
  BY DEF Begins
<1>1. PICK s : s \in Filled(State(i, {}, l), Prefetch) /\ Install(s, l)
  BY <1>a DEF Begin
<1>2. it' = s.it /\ pool' = PoolOf(s.pending) /\ lane' = Commanded(l, s.commands)
  BY <1>1 DEF Install, PoolOf, Commanded
<1>3. /\ Structure("idle", PoolOf(s.pending), Commanded(l, s.commands), s.it)
      /\ (\A w \in Lane : TurnsBefore(w, skip) < TurnsBefore(w, Batches) =>
                  l[w].random = Random(story.random[w].seed,
                                       story.random[w].draws + TurnsBefore(w, skip)))
              => Exactly(PoolOf(s.pending), Commanded(l, s.commands), s.it)
  BY <1>a, <1>b, <1>1, BeginStructures
<1>4. /\ Structure("idle", PoolOf(s.pending), Commanded(l, s.commands), s.it)
      /\ Aligned(story, l, skip) => Exactly(PoolOf(s.pending), Commanded(l, s.commands), s.it)
  BY <1>3 DEF Aligned
<1> QED
  BY <1>a, <1>2, <1>4 DEF Begun

ToldFrom(story, order, l, n) ==
    story \in Tale /\ story.order = order /\ Aligned(story, l, n)

LEMMA StoryIs ==
    ASSUME NEW order, order \in Nat, NEW seed, seed \in Nat, NEW l, l \in LaneStates,
           NEW n, n \in Nat
    PROVE  ToldFrom(Story(order, seed, l, n), order, l, n)
<1> DEFINE first(w) ==
        Random(l[w].random.seed, l[w].random.draws - TurnsBefore(w, n))
<1>1. ASSUME NEW w \in Lane
      PROVE  /\ first(w) \in RandomState
             /\ l[w].random = Random(first(w).seed, first(w).draws + TurnsBefore(w, n))
  <2>1. PICK e \in RandomState : e = l[w].random
    BY DEF LaneStates, LaneState
  <2>2. PICK d \in Int, x \in Nat, t \in Nat :
            e = [seed |-> x, draws |-> d] /\ t = TurnsBefore(w, n)
    BY TurnsTyped DEF RandomState
  <2>3. first(w) = [seed |-> x, draws |-> d - t]
    BY <2>1, <2>2 DEF Random
  <2>4. (d - t) + t = d /\ d - t \in Int
    OBVIOUS
  <2> QED
    BY <2>1, <2>2, <2>3, <2>4 DEF Random, RandomState
<1> HIDE DEF first
<1>2. PICK r \in Snapshots : r = [w \in Lane |-> first(w)]
  BY <1>1 DEF Snapshots
<1>3. Story(order, seed, l, n) = [order |-> order, seed |-> seed, random |-> r]
  BY <1>2 DEF Story, first
<1>4. \A w \in Lane :
          l[w].random = Random(r[w].seed, r[w].draws + TurnsBefore(w, n))
  BY <1>1, <1>2
<1>5. Aligned(Story(order, seed, l, n), l, n)
  BY <1>3, <1>4 DEF Aligned
<1>6. Story(order, seed, l, n) \in Tale /\ Story(order, seed, l, n).order = order
  BY <1>2, <1>3 DEF Tale
<1> QED
  BY <1>5, <1>6 DEF ToldFrom

LEMMA StartFreshKeeps ==
    ASSUME OrderedMap, Totals(generator, loader, saved), StartFresh, call' = "idle"
    PROVE  /\ Structure(call', pool', lane', it') /\ Exactly(pool', lane', it')
           /\ generator' \in Nat /\ loader' = [seed |-> generator, resume |-> None]
<1>1. PICK g \in Nat, o \in Nat : g = generator /\ o = generator + 1
  BY DEF Totals
<1>2. PICK l : l = Fork(g, << >>)
  OBVIOUS
<1>3. l \in LaneStates /\ Idle(l)
  <2>1. \A w \in Lane : w \in DOMAIN << >> => << >>[w] \in RandomState
    OBVIOUS
  <2> QED
    BY <1>2, <2>1, ForkIs
<1>4. PICK story : story = Story(o, g, l, 0)
  OBVIOUS
<1>5. story \in Tale /\ story.order = o /\ Aligned(story, l, 0)
  <2>1. ToldFrom(story, o, l, 0)
    BY <1>3, <1>4, StoryIs
  <2> QED
    BY <2>1 DEF ToldFrom
<1>6. StartsAt(o, 0, story, g, FALSE, g)
  <2>1. o = OrderBegan(FALSE, g)
    BY <1>1 DEF OrderBegan
  <2>2. 0 <= Batches
    BY LanesAssumption
  <2> QED
    BY <1>5, <2>1, <2>2 DEF StartsAt
<1>7. PICK i : i = NewIterator(o, 0, story, g, FALSE, g)
  OBVIOUS
<1>8. Begin(i, l) /\ generator' = Samples(o) /\ loader' = [seed |-> g, resume |-> None]
  BY <1>1, <1>2, <1>4, <1>7 DEF StartFresh
<1>9. Structure(call', pool', lane', it') /\ Exactly(pool', lane', it')
  <2>1. Begins(story, 0, i, l)
    BY <1>3, <1>6, <1>7, <1>8 DEF Begins
  <2>2. Begun(Aligned(story, l, 0))
    BY <2>1, BegunKeeps
  <2> QED
    BY <1>5, <2>2 DEF Begun
<1>10. generator' \in Nat
  BY <1>8 DEF Samples
<1> QED
  BY <1>1, <1>8, <1>9, <1>10

LEMMA StartKeptKeeps ==
    ASSUME OrderedMap, Totals(generator, loader, saved), Structure(call, pool, lane, it),
           pool.open, pool.pending = {}, StartKept, call' = "idle"
    PROVE  /\ Structure(call', pool', lane', it') /\ Exactly(pool', lane', it')
           /\ generator' \in Nat /\ loader' = [seed |-> loader.seed, resume |-> None]
<1>1. PICK g \in Nat, d \in Nat : g = generator /\ d = loader.seed
  BY DEF Totals
<1>2. /\ it \in Iterator /\ Opened(it, {}, lane) /\ lane \in LaneStates
  BY DEF Structure
<1>3. Idle(lane)
  <2>1. Ringed(it, {}, Cs(lane), Qs(lane)) /\ RingTypes(Cs(lane), Qs(lane))
    BY <1>2, LanesTyped DEF Opened, Sound
  <2>2. \A w \in Lane : Cs(lane)[w] = << >> /\ Qs(lane)[w] = << >>
    BY <1>2, <2>1, NothingRinged
  <2> QED
    BY <1>2, <2>2, LanesTyped DEF Idle
<1>4. PICK story : story = Story(g, d, lane, 0)
  OBVIOUS
<1>5. story \in Tale /\ story.order = g /\ Aligned(story, lane, 0)
  <2>1. ToldFrom(story, g, lane, 0)
    BY <1>1, <1>2, <1>4, StoryIs
  <2> QED
    BY <2>1 DEF ToldFrom
<1>6. StartsAt(g, 0, story, g, TRUE, d)
  <2>1. g = OrderBegan(TRUE, g)
    BY DEF OrderBegan
  <2>2. 0 <= Batches
    BY LanesAssumption
  <2> QED
    BY <1>5, <2>1, <2>2 DEF StartsAt
<1>7. PICK i : i = NewIterator(g, 0, story, g, TRUE, d)
  OBVIOUS
<1>8. Begin(i, lane) /\ generator' = Samples(g) /\ loader' = [loader EXCEPT !.resume = None]
  BY <1>1, <1>4, <1>7 DEF StartKept
<1>9. Structure(call', pool', lane', it') /\ Exactly(pool', lane', it')
  <2>1. Begins(story, 0, i, lane)
    BY <1>2, <1>3, <1>6, <1>7, <1>8 DEF Begins
  <2>2. Begun(Aligned(story, lane, 0))
    BY <2>1, BegunKeeps
  <2> QED
    BY <1>5, <2>2 DEF Begun
<1>10. generator' \in Nat
  BY <1>8 DEF Samples
<1>11. loader' = [seed |-> loader.seed, resume |-> None]
  <2>1. loader = [seed |-> loader.seed, resume |-> loader.resume]
    BY DEF Totals
  <2> QED
    BY <1>8, <2>1
<1> QED
  BY <1>9, <1>10, <1>11

LEMMA StartResumedKeeps ==
    ASSUME OrderedMap, NEW r, Loads(r), StartResumed(r), call' = "idle"
    PROVE  /\ Structure(call', pool', lane', it')
           /\ Covers(r) => Exactly(pool', lane', it')
           /\ generator' \in Nat
           /\ \E d \in Nat : loader' = [seed |-> d, resume |-> None]
<1>1. /\ r \in SavedState /\ r.delivered <= Batches
      /\ r.reused => r.seed # NoSeed
      /\ r.story # None => r.story.order = OrderBegan(r.reused, r.began)
  BY DEF Loads
<1>2. /\ r.delivered \in Nat /\ r.reused \in BOOLEAN /\ r.began \in Nat
      /\ r.seed \in Nat \cup {NoSeed} /\ r.current \in Nat
      /\ r.states \in SavedSnapshots /\ r.story \in Tale \cup {None}
  BY <1>1 DEF SavedState
<1>3. PICK o \in Nat : o = IF r.reused THEN r.began ELSE r.began + 1
  BY <1>2
<1>4. PICK d \in Nat : d = IF r.reused THEN r.seed ELSE r.began
  BY <1>1, <1>2
<1>5. PICK l : l = Fork(d, r.states)
  OBVIOUS
<1>6. /\ l \in LaneStates /\ Idle(l)
      /\ \A w \in Lane : l[w].random = ForkRandom(d, r.states, w)
  <2>1. \A w \in Lane : w \in DOMAIN r.states => r.states[w] \in RandomState
    <3>1. PICK D \in SUBSET Lane : r.states \in [D -> RandomState]
      BY <1>2 DEF SavedSnapshots
    <3> QED
      BY <3>1
  <2> QED
    BY <1>5, <2>1, ForkIs
<1>7. PICK story : story = IF r.story = None THEN Story(o, d, l, r.delivered) ELSE r.story
  OBVIOUS
<1>8. o = OrderBegan(r.reused, r.began)
  BY <1>3 DEF OrderBegan
<1>9. story \in Tale /\ story.order = o
  <2>1. CASE r.story = None
    <3>1. ToldFrom(Story(o, d, l, r.delivered), o, l, r.delivered)
      BY <1>2, <1>6, StoryIs
    <3> QED
      BY <1>7, <2>1, <3>1 DEF ToldFrom
  <2>2. CASE r.story # None
    BY <1>1, <1>2, <1>7, <1>8, <2>2
  <2> QED
    BY <2>1, <2>2
<1>10. StartsAt(o, r.delivered, story, r.began, r.reused, d)
  BY <1>1, <1>2, <1>4, <1>8, <1>9 DEF StartsAt
<1>11. PICK i : i = NewIterator(o, r.delivered, story, r.began, r.reused, d)
  OBVIOUS
<1>12. Begin(i, l) /\ generator' = r.current /\ loader' = [seed |-> d, resume |-> None]
  BY <1>3, <1>4, <1>5, <1>7, <1>11 DEF StartResumed
<1>13. Begun(Aligned(story, l, r.delivered))
  <2>1. Begins(story, r.delivered, i, l)
    BY <1>6, <1>10, <1>11, <1>12 DEF Begins
  <2> QED
    BY <2>1, BegunKeeps
<1>14. ASSUME Covers(r) PROVE Aligned(story, l, r.delivered)
  <2>1. CASE r.story = None
    <3>1. ToldFrom(Story(o, d, l, r.delivered), o, l, r.delivered)
      BY <1>2, <1>6, StoryIs
    <3> QED
      BY <1>7, <2>1, <3>1 DEF ToldFrom
  <2>2. CASE r.story # None
    <3>1. ASSUME NEW w \in Lane, TurnsBefore(w, r.delivered) < TurnsBefore(w, Batches)
          PROVE  l[w].random = Random(r.story.random[w].seed,
                                  r.story.random[w].draws + TurnsBefore(w, r.delivered))
      <4>1. /\ w \in DOMAIN r.states
            /\ r.states[w] = Random(r.story.random[w].seed,
                                    r.story.random[w].draws + TurnsBefore(w, r.delivered))
        BY <1>14, <2>2, <3>1 DEF Covers
      <4>2. l[w].random = r.states[w]
        BY <1>6, <4>1 DEF ForkRandom
      <4> QED
        BY <4>1, <4>2
    <3> QED
      BY <1>7, <2>2, <3>1 DEF Aligned
  <2> QED
    BY <2>1, <2>2
<1> QED
  BY <1>2, <1>12, <1>13, <1>14 DEF Begun

(* A kept pool, its iterator abandoned.                                    *)
LEMMA AbandonKeeps ==
    ASSUME OrderedMap, Structure(call, pool, lane, it), call = "idle", pool.open,
           it' = IF it.complete THEN it ELSE [it EXCEPT !.valid = FALSE]
    PROVE  /\ Structure("drain", pool, lane, it')
           /\ Exactly(pool, lane, it) => Exactly(pool, lane, it')
<1>1. /\ it \in Iterator /\ Opened(it, pool.pending, lane) /\ Calling(call, pool, it)
  BY DEF Structure
<1>2. CASE it.complete
  <2>1. it' = it
    BY <1>2
  <2>2. Calling("drain", pool, it)
    BY <1>1, <1>2 DEF Calling
  <2>3. Structure("drain", pool, lane, it)
    BY <2>2 DEF Structure
  <2> QED
    BY <2>1, <2>3
<1>3. CASE ~it.complete
  <2>1. it' = [it EXCEPT !.valid = FALSE]
    BY <1>3
  <2>2. /\ it' \in Iterator /\ Alike(it, it') /\ it'.valid = FALSE
        /\ it'.complete = it.complete /\ it'.delivered = it.delivered
    BY <1>1, <2>1 DEF Iterator, Alike
  <2>3. ~Live(it') /\ it'.delivered <= it'.delivery
    BY <1>1, <2>2 DEF Live, Opened, Sound, Origin, Bounded, Alike
  <2>4. Sound(it', pool.pending, Cs(lane), Qs(lane))
    BY <1>1, <2>2, <2>3, AlikeKeepsRings DEF Opened
  <2>5. Opened(it', pool.pending, lane)
    BY <1>1, <2>2, <2>4 DEF Opened
  <2>6. Calling("drain", pool, it')
    BY <1>3, <2>2, <2>3 DEF Calling
  <2>7. Structure("drain", pool, lane, it')
    BY <2>2, <2>3, <2>5, <2>6 DEF Structure
  <2>8. Exactly(pool, lane, it')
    BY <2>3 DEF Exactly
  <2> QED
    BY <2>7, <2>8
<1> QED
  BY <1>2, <1>3

StoresKeep ==
    /\ Totals(generator', loader', saved')
    /\ Restorable(loader, saved) => Restorable(loader', saved')

LEMMA StoresKept ==
    ASSUME Totals(generator, loader, saved), saved' = saved,
           NEW d, d \in Nat, loader' = [seed |-> d, resume |-> None], generator' \in Nat
    PROVE  StoresKeep
<1>1. loader'.seed = d /\ loader'.resume = None
      /\ loader' = [seed |-> loader'.seed, resume |-> loader'.resume]
  OBVIOUS
<1>2. Totals(generator', loader', saved')
  BY <1>1 DEF Totals
<1>3. Restorable(loader, saved) => Restorable(loader', saved')
  BY <1>1 DEF Restorable
<1> QED
  BY <1>2, <1>3 DEF StoresKeep

LEMMA StoresUnchanged ==
    ASSUME Totals(generator, loader, saved), saved' = saved, loader' = loader,
           generator' = generator
    PROVE  StoresKeep
  BY DEF StoresKeep

LEMMA IterateKeeps ==
    ASSUME OrderedMap, Structure(call, pool, lane, it), Totals(generator, loader, saved),
           Iterate
    PROVE  /\ Structure(call', pool', lane', it') /\ StoresKeep
           /\ Exactly(pool, lane, it) /\ Restorable(loader, saved)
                => Exactly(pool', lane', it')
<1>1. call = "idle" /\ saved' = saved
  BY DEF Iterate
<1>2. CASE config.persistent /\ pool.open
  <2>1. /\ call' = "drain" /\ pool' = pool /\ lane' = lane
        /\ it' = IF it.complete THEN it ELSE [it EXCEPT !.valid = FALSE]
        /\ generator' = generator /\ loader' = loader
    BY <1>2 DEF Iterate
  <2>2. /\ Structure("drain", pool, lane, it')
        /\ Exactly(pool, lane, it) => Exactly(pool, lane, it')
    BY <1>1, <1>2, <2>1, AbandonKeeps
  <2>3. StoresKeep
    BY <1>1, <2>1, StoresUnchanged
  <2> QED
    BY <2>1, <2>2, <2>3
<1>3. CASE ~(config.persistent /\ pool.open)
  <2>1. /\ call' = "idle"
        /\ IF loader.resume = None THEN StartFresh ELSE StartResumed(loader.resume)
    BY <1>1, <1>3 DEF Iterate
  <2>2. CASE loader.resume = None
    <3>1. /\ Structure(call', pool', lane', it') /\ Exactly(pool', lane', it')
          /\ generator' \in Nat /\ loader' = [seed |-> generator, resume |-> None]
      BY <2>1, <2>2, StartFreshKeeps
    <3>2. generator \in Nat
      BY DEF Totals
    <3>3. StoresKeep
      BY <1>1, <3>1, <3>2, StoresKept
    <3> QED
      BY <3>1, <3>3
  <2>3. CASE loader.resume # None
    <3>1. Loads(loader.resume)
      BY <2>3 DEF Totals
    <3>2. /\ Structure(call', pool', lane', it')
          /\ Covers(loader.resume) => Exactly(pool', lane', it')
          /\ generator' \in Nat
          /\ \E d \in Nat : loader' = [seed |-> d, resume |-> None]
      BY <2>1, <2>3, <3>1, StartResumedKeeps
    <3>3. StoresKeep
      BY <1>1, <3>2, StoresKept
    <3>4. Restorable(loader, saved) => Covers(loader.resume)
      BY <2>3 DEF Restorable
    <3> QED
      BY <3>2, <3>3, <3>4
  <2> QED
    BY <2>2, <2>3
<1> QED
  BY <1>2, <1>3

LEMMA DrainedKeeps ==
    ASSUME OrderedMap, Structure(call, pool, lane, it), Totals(generator, loader, saved),
           Drained
    PROVE  /\ Structure(call', pool', lane', it') /\ StoresKeep
           /\ Exactly(pool', lane', it')
<1>1. /\ call = "drain" /\ pool.pending = {} /\ saved' = saved
      /\ StartKept /\ call' = "idle"
  BY DEF Drained, OrderedMap
<1>2. pool.open
  BY <1>1 DEF Structure, Calling
<1>3. /\ Structure(call', pool', lane', it') /\ Exactly(pool', lane', it')
      /\ generator' \in Nat /\ loader' = [seed |-> loader.seed, resume |-> None]
  BY <1>1, <1>2, StartKeptKeeps
<1>4. loader.seed \in Nat
  BY DEF Totals
<1>5. StoresKeep
  BY <1>1, <1>3, <1>4, StoresKept
<1> QED
  BY <1>3, <1>5

-----------------------------------------------------------------------------
(* The restore points.                                                     *)

Values == {it.ready[t] : t \in DOMAIN it.ready}

LeastOf(w, v) ==
    /\ v \in Values /\ v.worker = w
    /\ \A u \in Values : u.worker = w => v.index <= u.index

LEMMA PointsAre ==
    ASSUME it \in Iterator
    PROVE  /\ Points = [w \in DOMAIN Points |-> Points[w]]
           /\ DOMAIN Points = {v.worker : v \in Values}
           /\ Values \subseteq Result
           /\ \A w \in DOMAIN Points : \E v : LeastOf(w, v) /\ Points[w] = v.random
<1>1. Values \subseteq Result
  <2>1. PICK D \in SUBSET Nat : it.ready \in [D -> Result]
    BY DEF Iterator, ReadySet
  <2> QED
    BY <2>1 DEF Values
<1>2. Points = [w \in {v.worker : v \in Values} |->
                  (CHOOSE v \in Values : v.worker = w /\ \A u \in Values :
                      u.worker = w => v.index <= u.index).random]
  BY DEF Points, Values
<1>3. ASSUME NEW w \in {v.worker : v \in Values}
      PROVE  \E v : LeastOf(w, v) /\ Points[w] = v.random
  <2>1. PICK x \in Values : x.worker = w
    BY <1>3
  <2>2. PICK T : T = {v.index : v \in {u \in Values : u.worker = w}}
    OBVIOUS
  <2>3. T \in SUBSET Nat /\ T # {}
    BY <1>1, <2>1, <2>2 DEF Result
  <2>4. PICK m \in T : \A k \in T : m <= k
    BY <2>3, Least
  <2>5. \E v \in Values : v.worker = w /\ \A u \in Values : u.worker = w => v.index <= u.index
    BY <2>2, <2>4
  <2>6. PICK v : v = CHOOSE y \in Values : y.worker = w /\ \A u \in Values :
                      u.worker = w => y.index <= u.index
    OBVIOUS
  <2>7. LeastOf(w, v)
    BY <2>5, <2>6 DEF LeastOf
  <2>8. Points[w] = v.random
    BY <1>2, <1>3, <2>6
  <2> QED
    BY <2>7, <2>8
<1>4. DOMAIN Points = {v.worker : v \in Values}
  BY <1>2
<1>5. Points = [w \in DOMAIN Points |-> Points[w]]
  BY <1>2
<1> QED
  BY <1>1, <1>3, <1>4, <1>5

LEMMA PointsTyped ==
    ASSUME it \in Iterator, NEW seed, seed \in Nat
    PROVE  /\ Points \in SavedSnapshots /\ DOMAIN Points \subseteq Lane
           /\ LaneSeeds(seed, DOMAIN Points) \in SavedSeeds
<1>1. PICK D : D = DOMAIN Points
  OBVIOUS
<1>2. /\ Points = [w \in D |-> Points[w]] /\ D = {v.worker : v \in Values}
      /\ Values \subseteq Result
      /\ \A w \in D : \E v : LeastOf(w, v) /\ Points[w] = v.random
  BY <1>1, PointsAre
<1>3. D \in SUBSET Lane
  BY <1>2 DEF Result
<1>4. \A w \in D : Points[w] \in RandomState
  BY <1>2 DEF LeastOf, Result
<1>5. Points \in [D -> RandomState]
  BY <1>2, <1>4
<1>6. LaneSeeds(seed, D) \in [D -> Nat]
  <2>1. \A w \in D : seed + w \in Nat
    BY <1>3, LaneIs
  <2> QED
    BY <2>1 DEF LaneSeeds
<1> QED
  BY <1>1, <1>3, <1>5, <1>6 DEF SavedSnapshots, SavedSeeds

-----------------------------------------------------------------------------
(* What a capture saves.                                                   *)

LEMMA CallCaptureKeeps ==
    ASSUME Structure(call, pool, lane, it), CallCapture
    PROVE  /\ Structure(call', pool', lane', it')
           /\ Exactly(pool, lane, it) => Exactly(pool', lane', it')
<1>1. /\ call = "idle" /\ Resumable /\ ~it.complete /\ call' = "capture"
      /\ pool' = pool /\ lane' = lane /\ it' = it
  BY DEF CallCapture
<1>2. Calling(call, pool, it)
  BY DEF Structure
<1>3. Calling("capture", pool, it)
  BY <1>1, <1>2 DEF Calling
<1>4. Structure("capture", pool, lane, it)
  BY <1>3 DEF Structure
<1> QED
  BY <1>1, <1>4

LEMMA CapturedLoads ==
    ASSUME OrderedMap, Structure(call, pool, lane, it), generator \in Nat, Captured
    PROVE  Loads(saved')
<1>1. /\ call = "capture"
      /\ saved' = [position |-> it.next, delivered |-> it.delivered,
                 workers |-> Lanes, phase |-> it.delivered % Lanes,
                 reused |-> it.reused, seed |-> it.seed, began |-> it.began,
                 current |-> generator, states |-> Points,
                 seeds |-> LaneSeeds(it.seed, DOMAIN Points),
                 story |-> Continued]
  BY DEF Captured
<1>2. ~it.complete
  BY <1>1 DEF Structure, Calling
<1>3. it \in Iterator /\ Origin(it)
  BY <1>2 DEF Structure, Opened, Sound
<1>4. Continued \in {it.story, None}
  BY DEF Continued
<1>5. /\ it.next \in Nat /\ it.delivered \in Nat /\ it.reused \in BOOLEAN
      /\ it.seed \in Nat /\ it.began \in Nat /\ it.story \in Tale
  BY <1>3 DEF Iterator
<1>6. PICK f \in Nat : f = it.delivered % Lanes
  BY <1>5, LanesPositive, DivMod
<1>7. PICK s \in SavedSnapshots, e \in SavedSeeds :
          s = Points /\ e = LaneSeeds(it.seed, DOMAIN Points)
  BY <1>3, <1>5, PointsTyped
<1>8. PICK r : r = saved'
  OBVIOUS
<1>9. /\ r.position = it.next /\ r.delivered = it.delivered /\ r.workers = Lanes
      /\ r.phase = it.delivered % Lanes /\ r.reused = it.reused /\ r.seed = it.seed
      /\ r.began = it.began /\ r.states = Points
      /\ r.seeds = LaneSeeds(it.seed, DOMAIN Points) /\ r.story = Continued
  BY <1>1, <1>8
<1>10. r \in SavedState
  BY <1>1, <1>4, <1>5, <1>6, <1>7, <1>8 DEF SavedState
<1>11. r.delivered <= r.position /\ r.delivered <= Batches
  <2>1. /\ it.delivered <= it.delivery /\ it.delivery <= it.next
        /\ it.next <= it.drawn /\ it.drawn <= Batches
        /\ it.delivery \in Nat /\ it.drawn \in Nat
    BY <1>3 DEF Origin, Bounded, Iterator
  <2> QED
    BY <1>5, <1>9, <2>1, LanesAssumption
<1>12. r.seed # NoSeed
  BY <1>5, <1>9 DEF NoSeed
<1>13. SeedBegan(r) = it.seed
  BY <1>3, <1>9 DEF SeedBegan, Origin
<1>14. Reproduces(r, SeedBegan(r))
  BY <1>9, <1>13 DEF Reproduces
<1>15. r.story # None => r.story.order = OrderBegan(r.reused, r.began)
  BY <1>3, <1>4, <1>9 DEF Origin
<1> QED
  BY <1>8, <1>9, <1>10, <1>11, <1>12, <1>14, <1>15 DEF Loads

(* The first turn of a lane not delivered.                                 *)
LEMMA FirstTurnLeft ==
    ASSUME NEW n, n \in Nat, NEW w, w \in Lane
    PROVE  /\ TurnsBefore(w, n) \in Nat /\ Task(w, TurnsBefore(w, n)) \in Nat
           /\ Task(w, TurnsBefore(w, n)) >= n
           /\ Task(w, TurnsBefore(w, n)) % Lanes = w
           /\ Task(w, TurnsBefore(w, n)) \div Lanes = TurnsBefore(w, n)
           /\ \A t \in Nat : t % Lanes = w /\ t >= n =>
                 t \div Lanes >= TurnsBefore(w, n) /\ t >= Task(w, TurnsBefore(w, n))
<1>1. PICK u \in Nat : u = TurnsBefore(w, n)
  BY TurnsTyped
<1>2. /\ Task(w, u) \in Nat /\ Task(w, u) % Lanes = w /\ Task(w, u) \div Lanes = u
  BY TaskTyped
<1>3. ~(Task(w, u) < n)
  BY <1>1, TaskBelow
<1>4. ASSUME NEW t \in Nat, t % Lanes = w, t >= n
      PROVE  t \div Lanes >= u /\ t >= Task(w, u)
  <2>1. PICK r \in Nat : r = t \div Lanes /\ t = Task(w, r)
    BY <1>4, TaskExact
  <2>2. Task(w, r) < n <=> r < u
    BY <1>1, TaskBelow
  <2>3. ~(r < u)
    BY <1>4, <2>1, <2>2
  <2>4. Task(w, r) < Task(w, u) <=> r < u
    BY TaskOrdered
  <2>5. PICK a \in Nat : a = Task(w, u)
    BY <1>2
  <2> QED
    BY <2>1, <2>3, <2>4, <2>5
<1>5. Task(w, u) >= n
  BY <1>2, <1>3
<1> QED
  BY <1>1, <1>2, <1>4, <1>5

(* Each lane with turns left has a value taken, the first of which is its  *)
(* next turn: a batch under way or ready is what Spread and Wanted ask for.*)
LEMMA TurnHeld ==
    ASSUME it \in Iterator, RingTypes(Cs(lane), Qs(lane)),
           Ringed(it, pool.pending, Cs(lane), Qs(lane)),
           Window(it, Cs(lane), Qs(lane)), Faithful(it, Cs(lane), Qs(lane), Rs(lane)),
           Spread(it), Lanes <= Prefetch, Wanted = {},
           NEW w, w \in Lane, TurnsBefore(w, it.delivery) < TurnsBefore(w, Batches)
    PROVE  /\ w \in DOMAIN Points
           /\ Points[w] = Advanced(it, w, TurnsBefore(w, it.delivery))
<1>1. PICK next \in Nat, n \in Nat, b \in Nat :
          next = it.next /\ n = it.delivery /\ b = Batches
  BY LanesAssumption DEF Iterator
<1>2. PICK r \in Nat, t0 \in Nat :
          /\ r = TurnsBefore(w, n) /\ t0 = Task(w, r) /\ t0 >= n
          /\ t0 % Lanes = w /\ t0 \div Lanes = r
          /\ \A t \in Nat : t % Lanes = w /\ t >= n => t \div Lanes >= r /\ t >= t0
  BY <1>1, FirstTurnLeft
<1>3. t0 < next
  <2>1. CASE next = b
    <3>1. Task(w, r) < b <=> r < TurnsBefore(w, b)
      BY TaskBelow
    <3> QED
      BY <1>1, <1>2, <2>1, <3>1
  <2>2. CASE next # b
    <3>1. next - n >= Lanes
      BY <1>1, <2>2 DEF Spread
    <3>2. n + Lanes <= next
      BY <3>1, LanesPositive
    <3>3. r < TurnsBefore(w, next)
      BY <1>2, <3>2, TurnsOrdered
    <3>4. Task(w, r) < next <=> r < TurnsBefore(w, next)
      BY TaskBelow
    <3> QED
      BY <1>2, <3>3, <3>4
  <2> QED
    BY <2>1, <2>2
<1>4. /\ DOMAIN it.ready = Held(it, Cs(lane), Qs(lane))
      /\ \A t \in DOMAIN it.ready : it.ready[t] = Exact(it, t)
      /\ r <= Got(it, Cs(lane), Qs(lane), w)
  BY <1>1, <1>2 DEF Window, Faithful
<1>5. PICK g \in Int : g = Got(it, Cs(lane), Qs(lane), w)
  BY GotTyped
<1>6. \A t \in DOMAIN it.ready :
          /\ t \in Nat /\ t >= n
          /\ t % Lanes = w => t \div Lanes < g
  BY <1>1, <1>4, <1>5 DEF Held
<1>7. ASSUME NEW v, v \in Values, v.worker = w
      PROVE  \E t \in DOMAIN it.ready : t % Lanes = w /\ v = Exact(it, t) /\ v.index = t
  <2>1. PICK t \in DOMAIN it.ready : v = it.ready[t]
    BY <1>7 DEF Values
  <2>2. v = Exact(it, t)
    BY <1>4, <2>1
  <2>3. v.worker = t % Lanes /\ v.index = t
    BY <2>2 DEF Exact
  <2> QED
    BY <1>7, <2>2, <2>3
<1>8. w \in DOMAIN Points => g > r /\ t0 \in DOMAIN it.ready
  <2> SUFFICES ASSUME w \in DOMAIN Points PROVE g > r /\ t0 \in DOMAIN it.ready
    OBVIOUS
  <2>1. PICK v : LeastOf(w, v)
    BY PointsAre
  <2>2. PICK t \in DOMAIN it.ready : t % Lanes = w
    BY <1>7, <2>1 DEF LeastOf
  <2>3. t \in Nat /\ t \div Lanes < g /\ t \div Lanes >= r
    BY <1>2, <1>6, <2>2
  <2>4. PICK k \in Nat : k = t \div Lanes
    BY <2>3, TaskExact
  <2>6. g > r
    BY <1>5, <2>3, <2>4
  <2>7. t0 \in Held(it, Cs(lane), Qs(lane))
    <3>1. t0 \in n..(next - 1)
      BY <1>2, <1>3
    <3>2. t0 \div Lanes < Got(it, Cs(lane), Qs(lane), t0 % Lanes)
      BY <1>2, <1>5, <2>6
    <3> QED
      BY <1>1, <3>1, <3>2 DEF Held
  <2> QED
    BY <1>4, <2>6, <2>7
<1>9. w \in DOMAIN Points
  <2>1. SUFFICES ASSUME w \notin DOMAIN Points PROVE FALSE
    OBVIOUS
  <2>3. CASE g > r
    <3>1. t0 \in Held(it, Cs(lane), Qs(lane))
      <4>1. t0 \in n..(next - 1)
        BY <1>2, <1>3
      <4>2. t0 \div Lanes < Got(it, Cs(lane), Qs(lane), t0 % Lanes)
        BY <1>2, <1>5, <2>3
      <4> QED
        BY <1>1, <4>1, <4>2 DEF Held
    <3>2. it.ready[t0] \in Values /\ it.ready[t0] = Exact(it, t0)
      BY <1>4, <3>1 DEF Values
    <3>3. it.ready[t0].worker = w
      BY <1>2, <3>2 DEF Exact
    <3> QED
      BY <2>1, <3>2, <3>3, PointsAre
  <2>4. CASE ~(g > r)
    <3>1. g = r
      BY <1>4, <1>5, <2>4
    <3>2. t0 \in Waiting(it, Cs(lane), Qs(lane))
      <4>1. t0 \in 0..(next - 1)
        BY <1>3
      <4>2. t0 \div Lanes >= Got(it, Cs(lane), Qs(lane), t0 % Lanes)
        BY <1>2, <1>5, <3>1
      <4> QED
        BY <1>1, <4>1, <4>2 DEF Waiting
    <3>3. [task |-> t0, worker |-> w] \in pool.pending
      BY <1>2, <3>2 DEF Ringed, Posted
    <3>4. w \in {p.worker : p \in pool.pending}
      BY <3>3
    <3> QED
      BY <2>1, <3>4 DEF Wanted
  <2> QED
    BY <2>3, <2>4
<1>10. Points[w] = Advanced(it, w, r)
  <2>1. t0 \in DOMAIN it.ready
    BY <1>8, <1>9
  <2>2. /\ it.ready[t0] \in Values /\ it.ready[t0].worker = w /\ it.ready[t0].index = t0
    <3>1. it.ready[t0] \in Values /\ it.ready[t0] = Exact(it, t0)
      BY <1>4, <2>1 DEF Values
    <3>2. Exact(it, t0).worker = w /\ Exact(it, t0).index = t0
      BY <1>2 DEF Exact
    <3> QED
      BY <3>1, <3>2
  <2>3. PICK v : LeastOf(w, v) /\ Points[w] = v.random
    BY <1>9, PointsAre
  <2>4. PICK t \in DOMAIN it.ready : t % Lanes = w /\ v = Exact(it, t) /\ v.index = t
    BY <1>7, <2>3 DEF LeastOf
  <2>5. t <= t0
    BY <2>2, <2>3, <2>4 DEF LeastOf
  <2>6. t \in Nat /\ t >= t0
    BY <1>2, <1>6, <2>4
  <2>7. t = t0
    BY <2>5, <2>6
  <2>8. v = Exact(it, t0)
    BY <2>4, <2>7
  <2> QED
    BY <1>2, <2>3, <2>8 DEF Exact
<1> QED
  BY <1>1, <1>2, <1>9, <1>10

LEMMA CapturedCovers ==
    ASSUME OrderedMap, Structure(call, pool, lane, it), Exactly(pool, lane, it),
           Covering, Captured
    PROVE  Covers(saved')
<1> SUFFICES ASSUME saved'.story # None PROVE Covers(saved')
  BY DEF Covers
<1>1. /\ call = "capture" /\ Wanted = {}
      /\ saved'.delivered = it.delivered /\ saved'.states = Points
      /\ saved'.story = it.story /\ Live(it)
  BY DEF Captured, Continued, Live
<1>2. /\ pool.open /\ Live(it) /\ Resumable
  BY <1>1 DEF Structure, Calling
<1>3. /\ it \in Iterator /\ it.delivered = it.delivery
      /\ Ringed(it, pool.pending, Cs(lane), Qs(lane))
      /\ Window(it, Cs(lane), Qs(lane))
      /\ Faithful(it, Cs(lane), Qs(lane), Rs(lane)) /\ Spread(it)
      /\ RingTypes(Cs(lane), Qs(lane))
  BY <1>2, LanesTyped DEF Structure, Opened, Sound, Exactly
<1>4. Lanes <= Prefetch
  BY <1>2 DEF Covering, Resumable, OrderedMap
<1>5. ASSUME NEW w \in Lane, TurnsBefore(w, it.delivery) < TurnsBefore(w, Batches)
      PROVE  /\ w \in DOMAIN Points
             /\ Points[w] = Advanced(it, w, TurnsBefore(w, it.delivery))
  BY <1>1, <1>3, <1>4, <1>5, TurnHeld
<1> QED
  BY <1>1, <1>3, <1>5 DEF Covers, Advanced

LEMMA NoIteratorIs ==
    ~NoIterator.valid /\ ~NoIterator.raised /\ NoIterator.complete
  BY DEF NoIterator

LEMMA NoneDiffers == \A r \in SavedState : r # None
<1>1. \A r \in SavedState : DOMAIN r = {"position", "delivered", "workers", "phase",
          "reused", "seed", "began", "current", "states", "seeds", "story"}
  BY DEF SavedState
<1>2. DOMAIN None = {"none"} /\ "position" # "none"
  BY DEF None
<1> QED
  BY <1>1, <1>2

LEMMA PristineLoads ==
    ASSUME generator \in Nat, NEW r,
           r = [position |-> 0, delivered |-> 0, workers |-> Lanes,
                phase |-> 0, reused |-> FALSE, seed |-> NoSeed,
                began |-> generator, current |-> generator,
                states |-> << >>, seeds |-> << >>, story |-> None]
    PROVE  Loads(r) /\ Covers(r)
<1>1. PICK s \in SavedSnapshots, e \in SavedSeeds : s = << >> /\ e = << >>
  <2>1. {} \in SUBSET Lane /\ << >> \in [{} -> RandomState] /\ << >> \in [{} -> Nat]
    OBVIOUS
  <2> QED
    BY <2>1 DEF SavedSnapshots, SavedSeeds
<1>2. r \in SavedState
  BY <1>1 DEF SavedState
<1>3. 0 % Lanes = 0
  BY LanesPositive, Quotient
<1>4. LaneSeeds(SeedBegan(r), DOMAIN r.states) = << >>
  <2>1. DOMAIN << >> = {}
    OBVIOUS
  <2> QED
    BY <2>1 DEF LaneSeeds
<1>5. Reproduces(r, SeedBegan(r))
  BY <1>4 DEF Reproduces
<1>6. /\ r.delivered = 0 /\ r.position = 0 /\ r.phase = 0 /\ ~r.reused /\ r.story = None
      /\ DOMAIN r.states = {}
  OBVIOUS
<1> QED
  BY <1>2, <1>3, <1>5, <1>6, LanesAssumption DEF Loads, Covers

LEMMA CaptureIdleKeeps ==
    ASSUME Totals(generator, loader, saved), CaptureIdle
    PROVE  StoresKeep
<1>1. /\ generator' = generator /\ loader' = loader
      /\ saved' = IF loader.resume # None THEN loader.resume
                ELSE [position |-> 0, delivered |-> 0, workers |-> Lanes,
                      phase |-> 0, reused |-> FALSE, seed |-> NoSeed,
                      began |-> generator, current |-> generator,
                      states |-> << >>, seeds |-> << >>, story |-> None]
  BY DEF CaptureIdle
<1>2. generator \in Nat
  BY DEF Totals
<1>3. Loads(saved')
  <2>1. CASE loader.resume # None
    BY <1>1, <2>1 DEF Totals
  <2>2. CASE loader.resume = None
    BY <1>1, <1>2, <2>2, PristineLoads
  <2> QED
    BY <2>1, <2>2
<1>4. Restorable(loader, saved) => Covers(saved')
  <2>1. CASE loader.resume # None
    BY <1>1, <2>1 DEF Restorable
  <2>2. CASE loader.resume = None
    BY <1>1, <1>2, <2>2, PristineLoads
  <2> QED
    BY <2>1, <2>2
<1>5. Totals(generator', loader', saved')
  BY <1>1, <1>3 DEF Totals
<1>6. Restorable(loader, saved) => Restorable(loader', saved')
  BY <1>1, <1>4 DEF Restorable
<1> QED
  BY <1>5, <1>6 DEF StoresKeep

LEMMA CapturedKeeps ==
    ASSUME OrderedMap, Structure(call, pool, lane, it), Totals(generator, loader, saved),
           Captured
    PROVE  /\ Structure(call', pool', lane', it')
           /\ Exactly(pool, lane, it) => Exactly(pool', lane', it')
           /\ Totals(generator', loader', saved')
           /\ Covering /\ Exactly(pool, lane, it) /\ Restorable(loader, saved)
                => Restorable(loader', saved')
<1>1. /\ call' = "idle" /\ pool' = pool /\ lane' = lane /\ it' = it
      /\ generator' = generator /\ loader' = loader /\ call = "capture"
  BY DEF Captured
<1>2. Calling("idle", pool, it)
  BY DEF Structure, Calling
<1>3. Structure("idle", pool, lane, it)
  BY <1>2 DEF Structure
<1>4. Loads(saved')
  <2>1. generator \in Nat
    BY DEF Totals
  <2> QED
    BY <2>1, CapturedLoads
<1>5. Totals(generator', loader', saved')
  BY <1>1, <1>4 DEF Totals
<1>6. ASSUME Covering, Exactly(pool, lane, it), Restorable(loader, saved)
      PROVE  Restorable(loader', saved')
  <2>1. Covers(saved')
    BY <1>6, CapturedCovers
  <2> QED
    BY <1>1, <1>6, <2>1 DEF Restorable
<1> QED
  BY <1>1, <1>3, <1>5, <1>6

LEMMA RestoreKeeps ==
    ASSUME Totals(generator, loader, saved), call = "idle", Restore
    PROVE  /\ Structure(call', pool', lane', it') /\ Exactly(pool', lane', it')
           /\ StoresKeep
<1>1. /\ call' = "idle" /\ pool' = ClosedPool /\ lane' = NoLanes /\ it' = NoIterator
      /\ saved # None /\ saved' = saved /\ generator' = saved.current
      /\ loader' = [seed |-> 0, resume |-> saved]
  BY DEF Restore
<1>2. ~Live(NoIterator)
  BY NoIteratorIs DEF Live
<1>3. Calling("idle", ClosedPool, NoIterator)
  BY <1>2, NoIteratorIs, ClosedIs DEF Calling
<1>4. Structure("idle", ClosedPool, NoLanes, NoIterator)
  BY <1>2, <1>3, NoIteratorIs, ClosedIs, NoLanesIs DEF Structure
<1>5. Exactly(ClosedPool, NoLanes, NoIterator)
  BY <1>2 DEF Exactly
<1>6. Loads(saved)
  BY <1>1 DEF Totals
<1>7. generator' \in Nat
  BY <1>1, <1>6 DEF Loads, SavedState
<1>8. /\ loader'.seed = 0 /\ loader'.resume = saved
      /\ loader' = [seed |-> loader'.seed, resume |-> loader'.resume]
  BY <1>1
<1>9. Totals(generator', loader', saved')
  BY <1>1, <1>6, <1>7, <1>8 DEF Totals
<1>10. Restorable(loader, saved) => Restorable(loader', saved')
  BY <1>1, <1>8 DEF Restorable
<1> QED
  BY <1>1, <1>4, <1>5, <1>9, <1>10 DEF StoresKeep

LEMMA DrawKeeps ==
    ASSUME Totals(generator, loader, saved), Draw
    PROVE  StoresKeep
<1>1. generator' = generator + 1 /\ loader' = loader /\ saved' = saved
  BY DEF Draw
<1>2. PICK g \in Nat : g = generator
  BY DEF Totals
<1>3. generator' \in Nat
  BY <1>1, <1>2
<1> QED
  BY <1>1, <1>3 DEF StoresKeep, Totals

-----------------------------------------------------------------------------
(* The invariant of the lanes, and that every step keeps it.               *)

Stands ==
    /\ OrderedMap
    /\ Structure(call, pool, lane, it) /\ Totals(generator, loader, saved)

Restores == Exactly(pool, lane, it) /\ Restorable(loader, saved)

(* What a step makes of them.                                              *)
Standing ==
    /\ Structure(call', pool', lane', it') /\ Totals(generator', loader', saved')
    /\ Covering /\ Restores
         => Exactly(pool', lane', it') /\ Restorable(loader', saved')

StoresStay == generator' = generator /\ loader' = loader /\ saved' = saved

LEMMA StandsOn ==
    ASSUME Stands, StoresStay, Structure(call', pool', lane', it'),
           Exactly(pool, lane, it) => Exactly(pool', lane', it')
    PROVE  Standing
  BY DEF Stands, StoresStay, Standing, Restores

LEMMA LanesStand ==
    ASSUME Stands, NEW w \in Lane,
           Fetch(w) \/ FetchRaises(w) \/ LaneResets(w) \/ LaneDies(w)
    PROVE  Standing
<1>1. OrderedMap /\ Structure(call, pool, lane, it) /\ w \in Lane
  BY DEF Stands
<1>2. StoresStay
  BY DEF StoresStay, Fetch, FetchRaises, LaneResets, LaneDies
<1>3. /\ Structure(call', pool', lane', it')
      /\ Exactly(pool, lane, it) => Exactly(pool', lane', it')
  <2>1. CASE Fetch(w)
    BY <1>1, <2>1, FetchKeeps
  <2>2. CASE FetchRaises(w)
    BY <1>1, <2>2, FetchRaisesKeeps
  <2>3. CASE LaneResets(w)
    BY <1>1, <2>3, LaneResetsKeeps
  <2>4. CASE LaneDies(w)
    BY <1>1, <2>4, LaneDiesKeeps
  <2> QED
    BY <2>1, <2>2, <2>3, <2>4
<1> QED
  BY <1>2, <1>3, StandsOn

LEMMA NextStands ==
    ASSUME Stands, CallNext \/ Deliver \/ Finish \/ ReceiveNext \/ FindsLoss \/ TimesOut
    PROVE  Standing
<1>1. OrderedMap /\ Structure(call, pool, lane, it)
  BY DEF Stands
<1>2. StoresStay
  <2>1. CASE ReceiveNext
    BY <2>1 DEF StoresStay, ReceiveNext, Receive
  <2>2. CASE FindsLoss \/ TimesOut
    BY <2>2 DEF StoresStay, FindsLoss, TimesOut, CloseWaiting
  <2>3. CASE CallNext \/ Deliver \/ Finish
    BY <2>3 DEF StoresStay, CallNext, Deliver, Finish
  <2> QED
    BY <2>1, <2>2, <2>3
<1>3. /\ Structure(call', pool', lane', it')
      /\ Exactly(pool, lane, it) => Exactly(pool', lane', it')
  <2>1. CASE CallNext
    BY <1>1, <2>1, CallNextKeeps
  <2>2. CASE Deliver
    BY <1>1, <2>2, DeliverKeeps
  <2>3. CASE Finish
    BY <1>1, <2>3, FinishKeeps
  <2>4. CASE ReceiveNext
    BY <1>1, <2>4, ReceiveNextKeeps
  <2>5. CASE FindsLoss \/ TimesOut
    <3>1. CloseWaiting
      BY <2>5 DEF FindsLoss, TimesOut
    <3> QED
      BY <1>1, <3>1, CloseKeeps
  <2> QED
    BY <2>1, <2>2, <2>3, <2>4, <2>5
<1> QED
  BY <1>2, <1>3, StandsOn

LEMMA IterationStands ==
    ASSUME Stands, Iterate \/ Drain \/ Drained \/ AllReset
    PROVE  Standing
<1>1. /\ OrderedMap /\ Structure(call, pool, lane, it)
      /\ Totals(generator, loader, saved)
  BY DEF Stands
<1>2. CASE Iterate
  <2>1. /\ Structure(call', pool', lane', it') /\ StoresKeep
        /\ Exactly(pool, lane, it) /\ Restorable(loader, saved)
             => Exactly(pool', lane', it')
    BY <1>1, <1>2, IterateKeeps
  <2> QED
    BY <2>1 DEF Standing, StoresKeep, Restores
<1>3. CASE Drain
  <2>1. StoresStay
    BY <1>3 DEF StoresStay, Drain
  <2>2. /\ Structure(call', pool', lane', it')
        /\ Exactly(pool, lane, it) => Exactly(pool', lane', it')
    BY <1>1, <1>3, DrainKeeps
  <2> QED
    BY <2>1, <2>2, StandsOn
<1>4. CASE Drained
  <2>1. /\ Structure(call', pool', lane', it') /\ StoresKeep
        /\ Exactly(pool', lane', it')
    BY <1>1, <1>4, DrainedKeeps
  <2> QED
    BY <2>1 DEF Standing, StoresKeep, Restores
<1>5. CASE AllReset
  <2>1. call = "reset"
    BY <1>5 DEF AllReset
  <2>2. call \in {"idle", "next", "capture", "drain"}
    BY <1>1 DEF Structure, Calling
  <2> QED
    BY <2>1, <2>2
<1> QED
  BY <1>2, <1>3, <1>4, <1>5

LEMMA StateStands ==
    ASSUME Stands,
           CallCapture \/ ReceiveCapture \/ Captured \/ CaptureIdle \/ Restore \/ Draw
    PROVE  Standing
<1>1. /\ OrderedMap /\ Structure(call, pool, lane, it)
      /\ Totals(generator, loader, saved)
  BY DEF Stands
<1>2. CASE CallCapture
  <2>1. StoresStay
    BY <1>2 DEF StoresStay, CallCapture
  <2>2. /\ Structure(call', pool', lane', it')
        /\ Exactly(pool, lane, it) => Exactly(pool', lane', it')
    BY <1>1, <1>2, CallCaptureKeeps
  <2> QED
    BY <2>1, <2>2, StandsOn
<1>3. CASE ReceiveCapture
  <2>1. StoresStay /\ call = "capture" /\ Receive
    BY <1>3 DEF StoresStay, ReceiveCapture, Receive
  <2>2. pool.open
    <3>1. pool.pending # {}
      BY <1>3 DEF ReceiveCapture, Wanted
    <3> QED
      BY <1>1, <3>1 DEF Structure
  <2>3. /\ Structure(call', pool', lane', it')
        /\ Exactly(pool, lane, it) => Exactly(pool', lane', it')
    BY <1>1, <2>1, <2>2, ReceiveKeeps
  <2> QED
    BY <2>1, <2>3, StandsOn
<1>4. CASE Captured
  <2>1. /\ Structure(call', pool', lane', it')
        /\ Exactly(pool, lane, it) => Exactly(pool', lane', it')
        /\ Totals(generator', loader', saved')
        /\ Covering /\ Exactly(pool, lane, it) /\ Restorable(loader, saved)
             => Restorable(loader', saved')
    BY <1>1, <1>4, CapturedKeeps
  <2> QED
    BY <2>1 DEF Standing, Restores
<1>5. CASE CaptureIdle \/ Draw
  <2>1. StoresKeep
    BY <1>1, <1>5, CaptureIdleKeeps, DrawKeeps
  <2>2. call' = call /\ pool' = pool /\ lane' = lane /\ it' = it
    BY <1>5 DEF CaptureIdle, Draw
  <2> QED
    BY <1>1, <2>1, <2>2 DEF Standing, StoresKeep, Restores
<1>6. CASE Restore
  <2>1. call = "idle"
    BY <1>6 DEF Restore
  <2>2. /\ Structure(call', pool', lane', it') /\ Exactly(pool', lane', it')
        /\ StoresKeep
    BY <1>1, <1>6, <2>1, RestoreKeeps
  <2> QED
    BY <2>2 DEF Standing, StoresKeep, Restores
<1> QED
  BY <1>2, <1>3, <1>4, <1>5, <1>6

LEMMA StandsNext ==
    ASSUME Stands, Next
    PROVE  Standing
  BY LanesStand, NextStands, IterationStands, StateStands DEF Next

(* A loader that cannot save has no state.                                 *)
Unsaved ==
    /\ saved = None /\ call # "capture"
    /\ loader = [seed |-> loader.seed, resume |-> None]

LEMMA ReceiveUnsaved ==
    ASSUME Receive
    PROVE  saved' = saved /\ loader' = loader /\ call' \in {call, "idle"}
  BY DEF Receive

LEMMA KeptUnsaved ==
    ASSUME Unsaved, StartKept
    PROVE  loader' = [seed |-> loader'.seed, resume |-> None]
<1>1. loader' = [loader EXCEPT !.resume = None]
  BY DEF StartKept
<1> QED
  BY <1>1 DEF Unsaved

LEMMA UnsavedNext ==
    ASSUME Unsaved, ~Resumable, Next
    PROVE  Unsaved'
<1>1. ASSUME NEW w \in Lane,
             Fetch(w) \/ FetchRaises(w) \/ LaneResets(w) \/ LaneDies(w)
      PROVE  Unsaved'
  <2>1. saved' = saved /\ loader' = loader /\ call' = call
    BY <1>1 DEF Fetch, FetchRaises, LaneResets, LaneDies
  <2> QED
    BY <2>1 DEF Unsaved
<1>2. CASE CallNext \/ Deliver \/ Finish \/ FindsLoss \/ TimesOut
  <2>1. saved' = saved /\ loader' = loader /\ call' \in {call, "idle", "next"}
    <3>1. CASE CallNext \/ Deliver \/ Finish
      BY <3>1 DEF CallNext, Deliver, Finish
    <3>2. CASE FindsLoss \/ TimesOut
      BY <3>2 DEF FindsLoss, TimesOut, CloseWaiting
    <3> QED
      BY <1>2, <3>1, <3>2
  <2> QED
    BY <2>1 DEF Unsaved
<1>3. CASE ReceiveNext \/ ReceiveCapture
  <2>1. saved' = saved /\ loader' = loader /\ call' \in {call, "idle"}
    BY <1>3, ReceiveUnsaved DEF ReceiveNext, ReceiveCapture
  <2> QED
    BY <2>1 DEF Unsaved
<1>4. CASE Iterate
  <2>1. saved' = saved /\ call = "idle"
    BY <1>4 DEF Iterate
  <2>2. CASE config.persistent /\ pool.open
    <3>1. call' = "drain" /\ loader' = loader
      BY <1>4, <2>2 DEF Iterate
    <3> QED
      BY <2>1, <3>1 DEF Unsaved
  <2>3. CASE ~(config.persistent /\ pool.open)
    <3>1. loader.resume = None
      BY DEF Unsaved
    <3>2. call' = call /\ StartFresh
      BY <1>4, <2>3, <3>1 DEF Iterate
    <3>3. loader' = [seed |-> generator, resume |-> None]
      BY <3>2 DEF StartFresh
    <3> QED
      BY <2>1, <3>2, <3>3 DEF Unsaved
  <2> QED
    BY <2>2, <2>3
<1>5. CASE Drain
  <2>1. saved' = saved /\ loader' = loader /\ call' \in {"idle", "drain"}
    BY <1>5 DEF Drain
  <2> QED
    BY <2>1 DEF Unsaved
<1>6. CASE Drained \/ AllReset
  <2>1. saved' = saved /\ call' \in {"idle", "reset"}
        /\ (loader' = loader \/ StartKept)
    BY <1>6 DEF Drained, AllReset
  <2> QED
    BY <2>1, KeptUnsaved DEF Unsaved
<1>7. CASE CallCapture \/ Captured \/ CaptureIdle \/ Restore
  BY <1>7 DEF Unsaved, CallCapture, Captured, CaptureIdle, Restore
<1>8. CASE Draw
  <2>1. saved' = saved /\ loader' = loader /\ call' = call
    BY <1>8 DEF Draw
  <2> QED
    BY <2>1 DEF Unsaved
<1> QED
  BY <1>1, <1>2, <1>3, <1>4, <1>5, <1>6, <1>7, <1>8 DEF Next

-----------------------------------------------------------------------------

(* The restore points of a loader that may be saved, where the lanes have  *)
(* been reached; a loader that may not has none.                           *)
LanesHold ==
    IF OrderedMap THEN Stands /\ (Covering => Restores) ELSE Unsaved

LanesInv ==
    IF zero = None THEN config \in Config /\ LanesHold
                   ELSE Unsaved /\ it = NoIterator

LEMMA ConfigStays == Next => config' = config
<1>1. ASSUME NEW w \in Lane,
             Fetch(w) \/ FetchRaises(w) \/ LaneResets(w) \/ LaneDies(w)
      PROVE  config' = config
  BY <1>1 DEF Fetch, FetchRaises, LaneResets, LaneDies
<1>2. Receive => config' = config
  BY DEF Receive
<1>3. FindsLoss \/ TimesOut \/ CallNext \/ Deliver \/ Finish => config' = config
  BY DEF FindsLoss, TimesOut, CloseWaiting, CallNext, Deliver, Finish
<1>4. ReceiveNext \/ ReceiveCapture => config' = config
  BY <1>2 DEF ReceiveNext, ReceiveCapture
<1>5. Iterate \/ Drain \/ Drained \/ AllReset => config' = config
  BY DEF Iterate, Drain, Drained, AllReset
<1>6. CallCapture \/ Captured \/ CaptureIdle \/ Restore \/ Draw => config' = config
  BY DEF CallCapture, Captured, CaptureIdle, Restore, Draw
<1> QED
  BY <1>1, <1>3, <1>4, <1>5, <1>6 DEF Next

LEMMA StandingNext ==
    ASSUME OrderedMap, config' = config, Standing
    PROVE  OrderedMap' /\ Stands' /\ (Covering /\ Restores => Restores')
<1>1. OrderedMap' /\ (Resumable' <=> Resumable)
  BY DEF OrderedMap, Resumable
<1> QED
  BY <1>1 DEF Standing, Stands, Restores, Structure, Calling, Opened

LEMMA LanesInitial == LoaderInit => LanesInv
<1>1. CASE PrepareMulti
  <2>1. /\ config \in Config /\ zero = None /\ call = "idle" /\ generator = 0
        /\ loader = [seed |-> 0, resume |-> None]
        /\ pool = ClosedPool /\ lane = NoLanes /\ it = NoIterator /\ saved = None
    BY <1>1 DEF PrepareMulti, Init, Zero!ZeroUnused, ClosedPool, Zero!None, None
  <2>2. ~Live(NoIterator)
    BY NoIteratorIs DEF Live
  <2>3. Calling("idle", ClosedPool, NoIterator)
    BY <2>2, NoIteratorIs, ClosedIs DEF Calling
  <2>4. Structure(call, pool, lane, it)
    BY <2>1, <2>2, <2>3, NoIteratorIs, ClosedIs, NoLanesIs DEF Structure
  <2>5. Exactly(pool, lane, it)
    BY <2>1, <2>2 DEF Exactly
  <2>6. loader.seed = 0 /\ loader.resume = None
    BY <2>1
  <2>7. Totals(generator, loader, saved) /\ Restorable(loader, saved)
    BY <2>1, <2>6 DEF Totals, Restorable
  <2>8. Unsaved
    BY <2>1, <2>6 DEF Unsaved
  <2> QED
    BY <2>1, <2>4, <2>5, <2>7, <2>8 DEF LanesInv, LanesHold, Stands, Restores
<1>2. CASE PrepareZero
  <2>1. /\ zero # None /\ it = NoIterator /\ saved = None /\ call = "idle"
        /\ loader = [seed |-> 0, resume |-> None]
    BY <1>2 DEF PrepareZero, Zero!ZeroInit, None
  <2> QED
    BY <2>1 DEF LanesInv, Unsaved
<1> QED
  BY <1>1, <1>2 DEF LoaderInit

LEMMA LanesStep ==
    ASSUME LanesInv, zero = None, Next, zero' = zero
    PROVE  LanesInv'
<1>1. config' = config /\ config \in Config
  BY ConfigStays DEF LanesInv
<1>2. CASE OrderedMap
  <2>1. Stands /\ (Covering => Restores)
    BY <1>2 DEF LanesInv, LanesHold
  <2>2. Standing
    BY <2>1, StandsNext
  <2>3. OrderedMap' /\ Stands' /\ (Covering /\ Restores => Restores')
    BY <1>1, <1>2, <2>2, StandingNext
  <2>4. Covering' <=> Covering
    BY DEF Covering
  <2> QED
    BY <1>1, <2>1, <2>3, <2>4 DEF LanesInv, LanesHold
<1>3. CASE ~OrderedMap
  <2>1. ~Resumable /\ ~OrderedMap'
    BY <1>1, <1>3 DEF OrderedMap, Resumable
  <2>2. Unsaved'
    BY <1>3, <2>1, UnsavedNext DEF LanesInv, LanesHold
  <2> QED
    BY <1>1, <2>1, <2>2 DEF LanesInv, LanesHold
<1> QED
  BY <1>2, <1>3

LEMMA LanesStutter ==
    ASSUME LanesInv, UNCHANGED vars, zero' = None <=> zero = None
    PROVE  LanesInv'
<1>1. /\ config' = config /\ call' = call /\ generator' = generator
      /\ loader' = loader /\ pool' = pool /\ lane' = lane /\ it' = it
      /\ saved' = saved
  BY DEF vars
<1>2. CASE zero = None
  <2>1. config \in Config /\ LanesHold
    BY <1>2 DEF LanesInv
  <2>2. CASE OrderedMap
    <3>1. Stands /\ (Covering => Restores)
      BY <2>1, <2>2 DEF LanesHold
    <3>2. Standing
      BY <1>1, <3>1 DEF Standing, Stands, Restores
    <3>3. OrderedMap' /\ Stands' /\ (Covering /\ Restores => Restores')
      BY <1>1, <2>2, <3>2, StandingNext
    <3>4. Covering' <=> Covering
      BY DEF Covering
    <3> QED
      BY <1>1, <1>2, <2>1, <3>1, <3>3, <3>4 DEF LanesInv, LanesHold
  <2>3. CASE ~OrderedMap
    BY <1>1, <1>2, <2>1, <2>3 DEF LanesInv, LanesHold, OrderedMap, Unsaved
  <2> QED
    BY <2>2, <2>3
<1>3. CASE zero # None
  BY <1>1, <1>3 DEF LanesInv, Unsaved
<1> QED
  BY <1>2, <1>3

LEMMA LanesInductive ==
    LanesInv /\ ZeroInv /\ [LoaderNext]_loaderVars => LanesInv'
<1>1. ASSUME LanesInv, zero = None, Next, UNCHANGED zero PROVE LanesInv'
  BY <1>1, LanesStep
<1>2. ASSUME LanesInv, ZeroInv, zero # None, Zero!ZeroNext, UNCHANGED vars
      PROVE  LanesInv'
  <2>1. zero' # None
    <3>1. ZeroRestores(zero')
      BY <1>2, ZeroStep DEF ZeroInv
    <3>2. DOMAIN zero' = {"explicit", "ambient", "source", "active", "resume",
                          "saved", "value", "due", "spent"}
      BY <3>1 DEF ZeroRestores, ZeroState
    <3>3. DOMAIN None = {"none"} /\ "explicit" # "none"
      BY DEF None
    <3> QED
      BY <3>2, <3>3
  <2> QED
    BY <1>2, <2>1, LanesStutter
<1>3. ASSUME LanesInv, UNCHANGED loaderVars PROVE LanesInv'
  <2>1. UNCHANGED vars /\ zero' = zero
    BY <1>3 DEF loaderVars, vars
  <2> QED
    BY <1>3, <2>1, LanesStutter
<1> QED
  BY <1>1, <1>2, <1>3 DEF LoaderNext

-----------------------------------------------------------------------------

(* multi_state.py:55, multi_map.py:64: whatever was abandoned, lost or     *)
(* raised before, what capture saves restore accepts, and the base seed    *)
(* and lane seeds drawn when iteration starts again are those it names.    *)
THEOREM SavedStatesLoad == LoaderSpec => []StatesLoad
<1>1. LanesInv => StatesLoad
  <2>1. ASSUME NEW r, Loads(r)
        PROVE  Accepted(r) /\ Reproduces(r, IF r.reused THEN r.seed ELSE r.began)
    <3>1. r.workers = Lanes /\ r.states \in SavedSnapshots
      BY <2>1 DEF Loads, SavedState
    <3>2. DOMAIN r.states \subseteq Lane
      BY <3>1 DEF SavedSnapshots
    <3>3. Reproduces(r, SeedBegan(r))
      BY <2>1 DEF Loads
    <3>4. DOMAIN r.seeds = DOMAIN r.states
      BY <3>3 DEF Reproduces, LaneSeeds
    <3>5. Accepted(r)
      BY <2>1, <3>1, <3>2, <3>4 DEF Loads, Accepted, Lane
    <3> QED
      BY <3>3, <3>5 DEF SeedBegan
  <2>2. ASSUME Unsaved PROVE StatesLoad
    <3>1. saved = None /\ loader.resume = None
      BY <2>2 DEF Unsaved
    <3> QED
      BY <3>1 DEF StatesLoad
  <2>3. ASSUME Stands PROVE StatesLoad
    <3>1. /\ saved # None => Loads(saved)
          /\ loader.resume # None => Loads(loader.resume)
      BY <2>3 DEF Stands, Totals
    <3> QED
      BY <2>1, <3>1 DEF StatesLoad
  <2> QED
    BY <2>2, <2>3 DEF LanesInv, LanesHold
<1> QED
  BY <1>1, ZeroInitial, ZeroInductive, LanesInitial, LanesInductive, PTL
     DEF LoaderSpec

(* multi_iterator.py:70: however iterators were abandoned, pools kept and  *)
(* states restored, batch n of an in-order map epoch is the one an         *)
(* undisturbed epoch delivers.  A state captured from an iterator that     *)
(* raised is among them: it misses restore points (CapturesEveryLane), and *)
(* the epoch that goes on from it is the undisturbed one of the random     *)
(* states its lanes were started with.  The first filling of an epoch goes *)
(* up to the prefetch factor (lane_runtime.py:39), so where a state may be *)
(* saved the factor must reach every lane: otherwise a lane without a task *)
(* has no restore point, and the statement is false.                       *)
THEOREM ResumesExactly ==
    ASSUME Lanes <= Prefetch \/ \A c \in Config : ~c.resumable
    PROVE  LoaderSpec => []ResumedExactly
<1>1. LanesInv => ResumedExactly
  <2> SUFFICES ASSUME LanesInv, it.valid, ~it.raised, config.inOrder, ~config.iterable
               PROVE  /\ \A v \in it.seen : v = Undisturbed(v)
                      /\ {v.index : v \in it.seen} = it.start..(it.delivered - 1)
    BY DEF ResumedExactly
  <2>1. zero = None
    BY NoIteratorIs DEF LanesInv
  <2>2. config \in Config /\ LanesHold /\ OrderedMap
    BY <2>1 DEF LanesInv, OrderedMap
  <2>3. Exactly(pool, lane, it)
    BY <2>2 DEF LanesHold, Restores, Covering
  <2>4. Told(it)
    BY <2>3 DEF Exactly, Live
  <2>5. \A v : Exact(it, v.index) = Undisturbed(v)
    BY DEF Exact, Advanced, Undisturbed
  <2> QED
    BY <2>4, <2>5 DEF Told
<1> QED
  BY <1>1, ZeroInitial, ZeroInductive, LanesInitial, LanesInductive, PTL
     DEF LoaderSpec

(* lane_runtime.py:55: an in-order map epoch that ends delivered every     *)
(* batch left to it, each once, whatever happened to the iterators and     *)
(* lanes before.  The hypothesis is that of ResumesExactly, whose batches  *)
(* are told apart here.                                                    *)
THEOREM OrderedEpochsWhole ==
    ASSUME Lanes <= Prefetch \/ \A c \in Config : ~c.resumable
    PROVE  LoaderSpec => [](OrderedMap => WholeEpoch)
<1>1. LanesInv => (OrderedMap => WholeEpoch)
  <2> SUFFICES ASSUME LanesInv, OrderedMap, it.valid, it.complete, ~it.raised
               PROVE  /\ {Place(v) : v \in it.seen} = Whole
                      /\ Cardinality(it.seen) = it.delivered - it.start
    BY DEF WholeEpoch
  <2>1. zero = None /\ Live(it)
    BY NoIteratorIs DEF LanesInv, Live
  <2>2. Stands /\ Restores
    BY <2>1 DEF LanesInv, LanesHold, Covering
  <2>3. Told(it)
    BY <2>1, <2>2 DEF Restores, Exactly
  <2>4. it \in Iterator /\ it.start <= it.delivered /\ it.delivered = Batches
    BY <2>1, <2>2 DEF Stands, Structure, Calling
  <2>5. PICK a \in Nat, b \in Nat : a = it.start /\ b = it.delivered /\ a <= b /\ b = Batches
    BY <2>4 DEF Iterator
  <2>6. {v.index : v \in it.seen} = a..(b - 1)
    BY <2>3, <2>5 DEF Told
  <2>7. \A u, v \in it.seen : u.index = v.index => u = v
    BY <2>3 DEF Told
  <2>8. {Place(v) : v \in it.seen} = Whole
    <3>1. \A v : Place(v) = <<v.index % Lanes, v.index>>
      BY DEF Place, OrderedMap
    <3>2. Whole = {<<n % Lanes, n>> : n \in a..(b - 1)}
      BY <2>5 DEF Whole, OrderedMap
    <3> QED
      BY <2>6, <3>1, <3>2
  <2>9. Cardinality(it.seen) = Cardinality(a..(b - 1))
    <3> DEFINE f == [v \in it.seen |-> v.index]
    <3>1. f \in Bijection(it.seen, a..(b - 1))
      <4>1. f \in [it.seen -> a..(b - 1)]
        BY <2>6
      <4>2. \A u, v \in it.seen : u # v => f[u] # f[v]
        BY <2>7
      <4>3. \A n \in a..(b - 1) : \E v \in it.seen : f[v] = n
        BY <2>6
      <4> QED
        BY <4>1, <4>2, <4>3 DEF Bijection, Injection, Surjection, IsInjective
    <3>2. ExistsBijection(a..(b - 1), it.seen)
      BY <3>1, Fun_ExistsBijSymmetric DEF ExistsBijection
    <3>3. IsFiniteSet(a..(b - 1))
      BY FS_Interval
    <3> QED
      BY <3>2, <3>3, FS_Bijection
  <2>10. Cardinality(a..(b - 1)) = b - a
    BY <2>5, FS_Interval
  <2> QED
    BY <2>5, <2>8, <2>9, <2>10
<1> QED
  BY <1>1, ZeroInitial, ZeroInductive, LanesInitial, LanesInductive, PTL
     DEF LoaderSpec
===============================================================================
