--------------------------- MODULE RingQueueProofs ---------------------------
(***************************************************************************)
(* Machine-checked proofs about the ring, for every set of threads, every  *)
(* capacity and every death RingAssumption admits: no two threads are at   *)
(* one frame, and the ring implements BoundedFifo.                         *)
(***************************************************************************)
EXTENDS RingQueue, FiniteSetTheorems, TLAPS

-----------------------------------------------------------------------------
(* Slots: positions modulo the capacity.                                   *)

(* A position is a whole number of laps and a slot.                        *)
LEMMA DivMod ==
    ASSUME NEW x \in Nat, NEW c \in Nat \ {0}
    PROVE  /\ x % c \in 0..(c - 1)
           /\ \E q \in Nat : x = c * q + (x % c)
<1>1. x \div c \in Nat /\ x = c * (x \div c) + (x % c)
  OBVIOUS
<1>2. x % c \in 0..(c - 1)
  OBVIOUS
<1> QED
  BY <1>1, <1>2

(* Different numbers of laps are at least one lap apart.                   *)
LEMMA MultipleGap ==
    ASSUME NEW c \in Nat \ {0}, NEW p \in Nat, NEW q \in Nat, p < q
    PROVE  c * p + c <= c * q
<1>1. PICK d \in Nat : q = p + 1 + d
  <2>1. q - p - 1 \in Nat /\ q = p + 1 + (q - p - 1)
    OBVIOUS
  <2> QED
    BY <2>1
<1>2. c * q = c * p + c + c * d
  BY <1>1
<1>3. c * d \in Nat /\ c * p \in Nat
  OBVIOUS
<1> QED
  BY <1>2, <1>3

(* Two positions of one slot, less than a lap apart, are the same.         *)
LEMMA ModUnique ==
    ASSUME NEW c \in Nat \ {0}, NEW x \in Nat, NEW y \in Nat,
           x % c = y % c, x < y + c, y < x + c
    PROVE  x = y
<1>1. PICK p \in Nat : x = c * p + (x % c)
  BY DivMod
<1>2. PICK q \in Nat : y = c * q + (y % c)
  BY DivMod
<1>3. x % c \in Int /\ c * p \in Int /\ c * q \in Int
  BY DivMod
<1>4. ~(p < q)
  <2> SUFFICES ASSUME p < q PROVE FALSE
    OBVIOUS
  <2>1. c * p + c <= c * q
    BY MultipleGap
  <2> QED
    BY <1>1, <1>2, <1>3, <2>1
<1>5. ~(q < p)
  <2> SUFFICES ASSUME q < p PROVE FALSE
    OBVIOUS
  <2>1. c * q + c <= c * p
    BY MultipleGap
  <2> QED
    BY <1>1, <1>2, <1>3, <2>1
<1>6. p = q
  BY <1>4, <1>5
<1> QED
  BY <1>1, <1>2, <1>6

(* A lap later a position is back at its slot (try_pop stores pos + mask   *)
(* + 1).                                                                   *)
LEMMA ModNext ==
    ASSUME NEW c \in Nat \ {0}, NEW x \in Nat
    PROVE  (x + c) % c = x % c
<1>1. PICK p \in Nat : x = c * p + (x % c)
  BY DivMod
<1>2. PICK q \in Nat : x + c = c * q + ((x + c) % c)
  <2>1. x + c \in Nat
    OBVIOUS
  <2> QED
    BY DivMod, <2>1
<1>3. /\ x % c \in 0..(c - 1) /\ (x + c) % c \in 0..(c - 1)
      /\ c * p \in Int /\ c * q \in Int
  <2>1. x + c \in Nat
    OBVIOUS
  <2> QED
    BY DivMod, <2>1
<1>4. c * (p + 1) = c * p + c
  OBVIOUS
<1>5. ~(p + 1 < q)
  <2> SUFFICES ASSUME p + 1 < q PROVE FALSE
    OBVIOUS
  <2>1. c * (p + 1) + c <= c * q
    BY MultipleGap
  <2> QED
    BY <1>1, <1>2, <1>3, <1>4, <2>1
<1>6. ~(q < p + 1)
  <2> SUFFICES ASSUME q < p + 1 PROVE FALSE
    OBVIOUS
  <2>1. c * q + c <= c * (p + 1)
    BY MultipleGap
  <2> QED
    BY <1>1, <1>2, <1>3, <1>4, <2>1
<1>7. q = p + 1
  BY <1>5, <1>6
<1> QED
  BY <1>1, <1>2, <1>3, <1>4, <1>7

(* In the first lap a position is its slot (initialize_queue).             *)
LEMMA ModSmall ==
    ASSUME NEW c \in Nat \ {0}, NEW x \in Nat, x < c
    PROVE  x % c = x
<1>1. PICK q \in Nat : x = c * q + (x % c)
  BY DivMod
<1>2. ~(0 < q)
  <2> SUFFICES ASSUME 0 < q PROVE FALSE
    OBVIOUS
  <2>1. c * 0 + c <= c * q
    BY MultipleGap
  <2>2. c * q \in Int /\ x % c \in 0..(c - 1)
    BY DivMod
  <2> QED
    BY <1>1, <2>1, <2>2
<1>3. q = 0
  BY <1>2
<1>4. x % c \in Int /\ c * 0 = 0
  BY DivMod
<1> QED
  BY <1>1, <1>3, <1>4

-----------------------------------------------------------------------------
(* Sequences given element by element.                                     *)

(* One element more is an Append.                                          *)
LEMMA AppendElement ==
    ASSUME NEW n \in Nat, NEW s, NEW t, NEW x,
           s = [i \in 1..n |-> s[i]], t = [i \in 1..(n + 1) |-> t[i]],
           \A i \in 1..n : t[i] = s[i], t[n + 1] = x
    PROVE  Len(s) = n /\ t = Append(s, x)
<1> DEFINE S == {s[i] : i \in 1..n} \cup {x}
<1>1. s \in Seq(S) /\ Len(s) = n
  <2>1. s \in [1..n -> S]
    OBVIOUS
  <2> QED
    BY <2>1
<1>2. /\ Append(s, x) \in Seq(S) /\ Len(Append(s, x)) = n + 1
      /\ Append(s, x)[n + 1] = x /\ \A i \in 1..n : Append(s, x)[i] = s[i]
  BY <1>1
<1>3. Append(s, x) = [i \in 1..(n + 1) |-> Append(s, x)[i]]
  BY <1>2
<1>4. ASSUME NEW i \in 1..(n + 1) PROVE t[i] = Append(s, x)[i]
  <2>1. CASE i = n + 1
    BY <1>2, <2>1
  <2>2. CASE i # n + 1
    <3>1. i \in 1..n
      BY <2>2
    <3> QED
      BY <1>2, <3>1
  <2> QED
    BY <2>1, <2>2
<1> QED
  BY <1>1, <1>3, <1>4

(* One element less, at the front, is a Tail.                              *)
LEMMA DropElement ==
    ASSUME NEW n \in Nat, NEW S, NEW s \in [1..(n + 1) -> S],
           NEW t \in [1..n -> S], \A i \in 1..n : t[i] = s[i + 1]
    PROVE  s # << >> /\ t = Tail(s) /\ Head(s) = s[1]
<1>1. s \in Seq(S) /\ Len(s) = n + 1
  <2>1. n + 1 \in Nat
    OBVIOUS
  <2>2. s \in Seq(S)
    BY <2>1
  <2>3. DOMAIN s = 1..(n + 1)
    OBVIOUS
  <2> QED
    BY <2>1, <2>2, <2>3
<1>2. s # << >> /\ Head(s) = s[1]
  BY <1>1
<1>3. /\ Tail(s) \in Seq(S) /\ Len(Tail(s)) = n
      /\ \A i \in 1..n : Tail(s)[i] = s[i + 1]
  BY <1>1, <1>2
<1>4. PICK u : u = Tail(s)
  OBVIOUS
<1>5. u \in Seq(S) /\ Len(u) = n /\ \A i \in 1..n : u[i] = s[i + 1]
  BY <1>3, <1>4
<1>6. u \in [1..n -> S]
  BY <1>5
<1>7. t = u
  BY <1>5, <1>6
<1> QED
  BY <1>2, <1>4, <1>7

-----------------------------------------------------------------------------
(* Exclusive frames.                                                       *)

(* TypeOK without the bounds on the counters, which need more than types.  *)
Types ==
    /\ enqueue \in Nat /\ dequeue \in Nat
    /\ sequence \in [Slot -> Nat]
    /\ frame \in [Slot -> Frame \cup {NoFrame}]
    /\ pc \in [Actor -> {"idle", "load", "claim", "test", "reload",
                         "access", "publish"}]
    /\ position \in [Actor -> Nat]
    /\ message \in [Actor -> Frame \cup {NoFrame}]
    /\ answer \in [Actor -> Frame \cup {NoFrame}
                              \cup {"idle", "none", "sent", "full", "empty"}]
    /\ dead \subseteq MayDie

(* What a call knows of its slot: a claimed one still carries the sequence *)
(* that was claimed, and so does the one it is about to claim unless the   *)
(* counter has moved, in which case the exchange fails.                    *)
Secured(a) ==
    /\ position[a] <= Counter(a)
    /\ Claimed(a) => position[a] < Counter(a)
    /\ \/ Claimed(a)
       \/ pc[a] = "claim" /\ position[a] = Counter(a)
       => sequence[SlotOf(a)] = Expected(a)

(* No position is claimed twice from one counter.                          *)
Unshared(a, b) ==
    a # b /\ Claimed(a) /\ Claimed(b) /\ (a \in Consumer <=> b \in Consumer)
        => position[a] # position[b]

ClaimInv ==
    /\ Types
    /\ \A a \in Actor : Secured(a)
    /\ \A a, b \in Actor : Unshared(a, b)

(* A thread's slot is a slot of the ring.                                  *)
LEMMA SlotInRing ==
    ASSUME Types, NEW a \in Actor
    PROVE  SlotOf(a) \in Slot
  BY DivMod, RingAssumption DEF Types, SlotOf, Slot

(* What a step of any thread is, whoever is alive.                         *)
LEMMA NextCases ==
    ASSUME [Next]_vars
    PROVE  \/ UNCHANGED <<shared, local>> /\ dead' = dead
           \/ UNCHANGED <<shared, local>> /\ \E a \in MayDie : dead' = dead \cup {a}
           \/ dead' = dead /\ \E a \in Producer : StartPush(a)
           \/ dead' = dead /\ \E a \in Consumer : StartPop(a)
           \/ dead' = dead /\ \E a \in Actor : Step(a)
  BY DEF Next, vars, Die, Alive

(* Every step keeps the types.                                             *)
LEMMA TypesStep == Types /\ [Next]_vars => Types'
<1> SUFFICES ASSUME Types, [Next]_vars PROVE Types'
  OBVIOUS
<1> USE RingAssumption
<1>1. ASSUME NEW a \in Producer, StartPush(a), dead' = dead PROVE Types'
  BY <1>1 DEF StartPush, Goto, Types, shared, Actor, Frame
<1>2. ASSUME NEW a \in Consumer, StartPop(a), dead' = dead PROVE Types'
  BY <1>2 DEF StartPop, Goto, Types, shared, Actor
<1>3. ASSUME NEW a \in Actor, Step(a), dead' = dead PROVE Types'
  <2>0. SlotOf(a) \in Slot
    BY SlotInRing
  <2>1. CASE LoadSequence(a)
    BY <1>3, <2>1 DEF LoadSequence, Goto, Types, shared
  <2>2. CASE ClaimFails(a) \/ Reload(a)
    BY <1>3, <2>2 DEF ClaimFails, Reload, Counter, Goto, Types, shared
  <2>3. CASE Claim(a)
    BY <1>3, <2>3 DEF Claim, Goto, Types
  <2>4. CASE TestLimit(a)
    BY <1>3, <2>4 DEF TestLimit, Return, Goto, Types, shared
  <2>5. CASE AccessFrame(a)
    BY <1>3, <2>0, <2>5 DEF AccessFrame, Goto, Types
  <2>6. CASE Publish(a)
    BY <1>3, <2>0, <2>6 DEF Publish, NextSequence, Return, Goto, Types
  <2> QED
    BY <1>3, <2>1, <2>2, <2>3, <2>4, <2>5, <2>6 DEF Step
<1>4. CASE UNCHANGED <<shared, local>> /\ dead' = dead
  BY <1>4 DEF shared, local, Types
<1>5. CASE UNCHANGED <<shared, local>> /\ \E a \in MayDie : dead' = dead \cup {a}
  BY <1>5 DEF shared, local, Types
<1> QED
  BY <1>1, <1>2, <1>3, <1>4, <1>5, NextCases

(* Neighbouring positions are in different slots.                          *)
LEMMA NextSlotDiffers ==
    ASSUME NEW x \in Nat
    PROVE  x % Capacity # (x + 1) % Capacity
<1> SUFFICES ASSUME x % Capacity = (x + 1) % Capacity PROVE FALSE
  OBVIOUS
<1>1. /\ x + 1 \in Nat /\ Capacity \in Nat \ {0}
      /\ x < (x + 1) + Capacity /\ x + 1 < x + Capacity
  BY RingAssumption
<1>2. x = x + 1
  BY <1>1, ModUnique
<1> QED
  BY <1>2

(* Two claims of one slot would have read different sequences in it.       *)
LEMMA ClaimsExclude == ClaimInv => ExclusiveFrame
<1> SUFFICES ASSUME ClaimInv, NEW a \in Actor, NEW b \in Actor, a # b,
                    Claimed(a), Claimed(b), SlotOf(a) = SlotOf(b)
             PROVE  FALSE
  BY DEF ExclusiveFrame
<1>1. Expected(a) = Expected(b)
  BY DEF ClaimInv, Secured
<1>2. CASE a \in Consumer <=> b \in Consumer
  BY <1>1, <1>2 DEF ClaimInv, Unshared, Expected, Types
<1>3. CASE a \in Consumer /\ b \notin Consumer
  BY <1>1, <1>3, NextSlotDiffers DEF Expected, SlotOf, ClaimInv, Types
<1>4. CASE a \notin Consumer /\ b \in Consumer
  BY <1>1, <1>4, NextSlotDiffers DEF Expected, SlotOf, ClaimInv, Types
<1> QED
  BY <1>2, <1>3, <1>4

(* The store that passes a slot on meets no call that counts on the slot:  *)
(* not another claim, and not one about to be made.                        *)
LEMMA PublishAlone ==
    ASSUME ClaimInv, NEW a \in Actor, Claimed(a), NEW b \in Actor, a # b,
           \/ Claimed(b)
           \/ pc[b] = "claim" /\ position[b] = Counter(b)
    PROVE  SlotOf(a) # SlotOf(b)
<1> SUFFICES ASSUME SlotOf(a) = SlotOf(b) PROVE FALSE
  OBVIOUS
<1>1. CASE Claimed(b)
  BY <1>1, ClaimsExclude DEF ExclusiveFrame
<1>2. CASE ~Claimed(b) /\ pc[b] = "claim" /\ position[b] = Counter(b)
  <2>1. Expected(a) = Expected(b)
    BY <1>2 DEF ClaimInv, Secured
  <2>2. CASE a \in Consumer <=> b \in Consumer
    <3>1. position[a] = position[b] /\ Counter(a) = Counter(b)
      BY <2>1, <2>2 DEF ClaimInv, Expected, Counter, Types
    <3>2. position[a] < Counter(a) /\ position[a] \in Nat
      BY DEF ClaimInv, Secured, Types
    <3> QED
      BY <1>2, <3>1, <3>2
  <2>3. CASE a \in Consumer /\ b \notin Consumer
    BY <2>1, <2>3, NextSlotDiffers DEF Expected, SlotOf, ClaimInv, Types
  <2>4. CASE a \notin Consumer /\ b \in Consumer
    BY <2>1, <2>4, NextSlotDiffers DEF Expected, SlotOf, ClaimInv, Types
  <2> QED
    BY <2>2, <2>3, <2>4
<1> QED
  BY <1>1, <1>2

(* A call that moves about without claiming or publishing: it starts at    *)
(* the counter of its side, or where it was.                               *)
LEMMA UnclaimedMove ==
    ASSUME ClaimInv, NEW a \in Actor, Types',
           UNCHANGED <<enqueue, dequeue, sequence>>,
           \A b \in Actor \ {a} :
               pc'[b] = pc[b] /\ position'[b] = position[b],
           pc'[a] \in {"idle", "load", "test", "reload"},
           position'[a] \in {0, position[a], Counter(a)}
    PROVE  ClaimInv'
<1>1. ASSUME NEW b \in Actor PROVE Secured(b)'
  <2>1. CASE b = a
    BY <2>1 DEF ClaimInv, Secured, Claimed, Counter, Types
  <2>2. CASE b # a
    BY <2>2 DEF ClaimInv, Secured, Claimed, Counter, SlotOf, Expected
  <2> QED
    BY <2>1, <2>2
<1>2. ASSUME NEW b \in Actor, NEW c \in Actor PROVE Unshared(b, c)'
  BY DEF ClaimInv, Unshared, Claimed
<1> QED
  BY <1>1, <1>2 DEF ClaimInv

(* What a thread read of the slot it means to claim is noted in its pc.    *)
LEMMA LoadKeepsClaims ==
    ASSUME ClaimInv, NEW a \in Actor, LoadSequence(a), Types'
    PROVE  ClaimInv'
<1>1. CASE sequence[SlotOf(a)] = Expected(a) /\ Goto(a, "claim")
  <2>1. /\ UNCHANGED <<enqueue, dequeue, sequence, position>>
        /\ pc' = [pc EXCEPT ![a] = "claim"]
    BY <1>1 DEF LoadSequence, Goto, shared
  <2>2. ASSUME NEW b \in Actor PROVE Secured(b)'
    BY <1>1, <2>1
    DEF ClaimInv, Secured, Claimed, Counter, SlotOf, Expected, Types
  <2>3. ASSUME NEW b \in Actor, NEW c \in Actor PROVE Unshared(b, c)'
    BY <2>1 DEF ClaimInv, Unshared, Claimed, Types
  <2> QED
    BY <2>2, <2>3 DEF ClaimInv
<1>2. CASE Goto(a, "test") \/ Goto(a, "reload")
  BY <1>2, UnclaimedMove DEF LoadSequence, Goto, shared, ClaimInv, Types
<1> QED
  BY <1>1, <1>2 DEF LoadSequence

(* The exchange gives the position to one thread: every other call on that *)
(* side is behind the counter from then on.                                *)
LEMMA ClaimKeepsClaims ==
    ASSUME ClaimInv, NEW a \in Actor, Claim(a), Types'
    PROVE  ClaimInv'
<1> USE RingAssumption
<1>1. /\ pc' = [pc EXCEPT ![a] = "access"]
      /\ UNCHANGED <<sequence, position>>
      /\ position[a] = Counter(a) /\ pc[a] = "claim"
  BY DEF Claim, Goto
<1>2. ASSUME NEW b \in Actor
      PROVE  Counter(b)' = IF a \in Consumer <=> b \in Consumer
                           THEN Counter(b) + 1 ELSE Counter(b)
  BY DEF Claim, Counter
<1>3. ASSUME NEW b \in Actor PROVE Secured(b)'
  <2>1. Counter(b) \in Nat /\ position[b] \in Nat
    BY DEF ClaimInv, Types, Counter
  <2>2. CASE b = a
    BY <1>1, <1>2, <2>1, <2>2
    DEF ClaimInv, Secured, Claimed, SlotOf, Expected, Types
  <2>3. CASE b # a
    <3>1. Claimed(b)' = Claimed(b) /\ (pc[b] = "claim")' = (pc[b] = "claim")
      BY <1>1, <2>3 DEF Claimed, ClaimInv, Types
    <3>2. /\ SlotOf(b)' = SlotOf(b) /\ Expected(b)' = Expected(b)
          /\ sequence' = sequence /\ position' = position
      BY <1>1 DEF SlotOf, Expected
    <3> QED
      BY <1>2, <2>1, <3>1, <3>2 DEF ClaimInv, Secured
  <2> QED
    BY <2>2, <2>3
<1>4. ASSUME NEW b \in Actor, NEW c \in Actor PROVE Unshared(b, c)'
  <2>1. ASSUME NEW d \in Actor, d # a, Claimed(d), a \in Consumer <=> d \in Consumer
        PROVE  position[d] # position[a]
    BY <1>1, <2>1 DEF ClaimInv, Secured, Counter, Types
  <2> QED
    BY <1>1, <2>1 DEF ClaimInv, Unshared, Claimed, Types
<1> QED
  BY <1>3, <1>4 DEF ClaimInv

(* The frame is not part of a claim.                                       *)
LEMMA AccessKeepsClaims ==
    ASSUME ClaimInv, NEW a \in Actor, AccessFrame(a), Types'
    PROVE  ClaimInv'
<1>1. /\ UNCHANGED <<enqueue, dequeue, sequence, position>>
      /\ pc[a] = "access" /\ pc' = [pc EXCEPT ![a] = "publish"]
  BY DEF AccessFrame, Goto
<1>2. ASSUME NEW b \in Actor PROVE Secured(b)'
  BY <1>1 DEF ClaimInv, Secured, Claimed, Counter, SlotOf, Expected, Types
<1>3. ASSUME NEW b \in Actor, NEW c \in Actor PROVE Unshared(b, c)'
  BY <1>1 DEF ClaimInv, Unshared, Claimed, Types
<1> QED
  BY <1>2, <1>3 DEF ClaimInv

(* The store gives the slot away, which nobody else counted on.            *)
LEMMA PublishKeepsClaims ==
    ASSUME ClaimInv, NEW a \in Actor, Publish(a), Types'
    PROVE  ClaimInv'
<1>1. /\ UNCHANGED <<enqueue, dequeue>>
      /\ sequence' = [sequence EXCEPT ![SlotOf(a)] = NextSequence(a)]
      /\ position' = [position EXCEPT ![a] = 0]
      /\ pc' = [pc EXCEPT ![a] = "idle"] /\ Claimed(a)
  BY DEF Publish, Return, Goto, Claimed
<1>2. ASSUME NEW b \in Actor PROVE Secured(b)'
  <2>1. CASE b = a
    BY <1>1, <2>1 DEF ClaimInv, Secured, Claimed, Counter, Types
  <2>2. CASE b # a
    <3>1. /\ SlotOf(b)' = SlotOf(b) /\ Expected(b)' = Expected(b)
          /\ Counter(b)' = Counter(b)
          /\ pc'[b] = pc[b] /\ position'[b] = position[b]
      BY <1>1, <2>2 DEF SlotOf, Expected, Counter, ClaimInv, Types
    <3>2. SlotOf(b) # SlotOf(a) => sequence'[SlotOf(b)] = sequence[SlotOf(b)]
      BY <1>1, SlotInRing DEF ClaimInv, Types
    <3>3. \/ Claimed(b)
          \/ pc[b] = "claim" /\ position[b] = Counter(b)
          => SlotOf(b) # SlotOf(a)
      BY <1>1, <2>2, PublishAlone
    <3> QED
      BY <3>1, <3>2, <3>3 DEF ClaimInv, Secured, Claimed
  <2> QED
    BY <2>1, <2>2
<1>3. ASSUME NEW b \in Actor, NEW c \in Actor PROVE Unshared(b, c)'
  BY <1>1 DEF ClaimInv, Unshared, Claimed, Types
<1> QED
  BY <1>2, <1>3 DEF ClaimInv

(* Every step keeps what the claims rest on.                               *)
LEMMA ClaimInvStep == ClaimInv /\ [Next]_vars => ClaimInv'
<1> SUFFICES ASSUME ClaimInv, [Next]_vars PROVE ClaimInv'
  OBVIOUS
<1>0. Types'
  BY TypesStep DEF ClaimInv
<1>1. ASSUME NEW a \in Producer, StartPush(a) PROVE ClaimInv'
  <2>1. a \in Actor /\ Counter(a) = enqueue
    BY RingAssumption DEF Actor, Counter
  <2> QED
    BY <1>0, <1>1, <2>1, UnclaimedMove
    DEF StartPush, Goto, shared, ClaimInv, Types
<1>2. ASSUME NEW a \in Consumer, StartPop(a) PROVE ClaimInv'
  <2>1. a \in Actor /\ Counter(a) = dequeue
    BY DEF Actor, Counter
  <2> QED
    BY <1>0, <1>2, <2>1, UnclaimedMove
    DEF StartPop, Goto, shared, ClaimInv, Types
<1>3. ASSUME NEW a \in Actor, Step(a) PROVE ClaimInv'
  <2>1. CASE ClaimFails(a) \/ Reload(a)
    BY <1>0, <2>1, UnclaimedMove
    DEF ClaimFails, Reload, Goto, shared, ClaimInv, Types
  <2>2. CASE TestLimit(a)
    BY <1>0, <2>2, UnclaimedMove
    DEF TestLimit, Return, Goto, shared, ClaimInv, Types
  <2> QED
    BY <1>0, <1>3, <2>1, <2>2, LoadKeepsClaims, ClaimKeepsClaims,
       AccessKeepsClaims, PublishKeepsClaims DEF Step
<1>4. CASE UNCHANGED <<shared, local>>
  BY <1>0, <1>4
  DEF shared, local, ClaimInv, Secured, Unshared, Claimed, Counter, SlotOf,
      Expected
<1> QED
  BY <1>1, <1>2, <1>3, <1>4, NextCases

(* An initialised queue has no call.                                       *)
LEMMA ClaimInvInit == Init => ClaimInv
  BY RingAssumption
  DEF Init, ClaimInv, Types, Secured, Unshared, Claimed, Counter, Slot, Actor

(* No two threads, of either side, are ever at the unsynchronised frame of *)
(* one slot (the unsafe blocks of try_push and try_pop), whoever is killed *)
(* where.                                                                  *)
THEOREM FramesExclusive == Spec => []ExclusiveFrame
<1>1. Spec => []ClaimInv
  BY ClaimInvInit, ClaimInvStep, PTL DEF Spec
<1> QED
  BY <1>1, ClaimsExclude, PTL

-----------------------------------------------------------------------------
(* The window of positions, one lap long.                                  *)

(* Every slot belongs to one position of [dequeue, dequeue + Capacity): it *)
(* is claimed or published below enqueue, and above it free or not yet     *)
(* given back by the consumer of the lap before.                           *)
WindowInv ==
    /\ dequeue <= enqueue /\ enqueue <= dequeue + Capacity
    /\ \A p \in Nat :
         /\ dequeue <= p /\ p < enqueue =>
                sequence[p % Capacity] \in {p, p + 1}
         /\ enqueue <= p /\ p < dequeue + Capacity =>
                sequence[p % Capacity] \in {p, p - Capacity + 1}
    /\ \A a \in Actor : Claimed(a) =>
         IF a \in Consumer THEN enqueue <= position[a] + Capacity
                           ELSE dequeue <= position[a]

(* A step that neither claims nor publishes keeps the window.              *)
LEMMA WindowUntouched ==
    ASSUME WindowInv, UNCHANGED <<enqueue, dequeue, sequence>>,
           \A a \in Actor : Claimed(a)' =>
                                Claimed(a) /\ position'[a] = position[a]
    PROVE  WindowInv'
  BY DEF WindowInv, Claimed

(* A producer claims only a slot the lap before has given back, so the     *)
(* queue had room.                                                         *)
LEMMA PushClaimKeepsWindow ==
    ASSUME ClaimInv, WindowInv, NEW a \in Actor, Claim(a), a \notin Consumer
    PROVE  WindowInv' /\ enqueue < dequeue + Capacity
<1> USE RingAssumption
<1>1. /\ enqueue \in Nat /\ dequeue \in Nat /\ position \in [Actor -> Nat]
      /\ Capacity \in Nat \ {0, 1}
  BY DEF ClaimInv, Types
<1>2. /\ enqueue' = enqueue + 1 /\ UNCHANGED <<dequeue, sequence, position>>
      /\ pc' = [pc EXCEPT ![a] = "access"] /\ position[a] = enqueue
  BY DEF Claim, Goto, Counter
<1>3. sequence[enqueue % Capacity] = enqueue
  BY <1>2 DEF Claim, ClaimInv, Secured, Counter, Expected, SlotOf
<1>4. enqueue # dequeue + Capacity
  <2> SUFFICES ASSUME enqueue = dequeue + Capacity PROVE FALSE
    OBVIOUS
  <2>1. enqueue % Capacity = dequeue % Capacity
    BY <1>1, ModNext
  <2>2. sequence[dequeue % Capacity] \in {dequeue, dequeue + 1}
    BY <1>1 DEF WindowInv
  <2> QED
    BY <1>1, <1>3, <2>1, <2>2
<1>5. ASSUME NEW b \in Actor, Claimed(b), b \in Consumer
      PROVE  enqueue + 1 <= position[b] + Capacity
  <2> SUFFICES ASSUME enqueue = position[b] + Capacity PROVE FALSE
    BY <1>1, <1>5 DEF WindowInv
  <2>1. position[b] \in Nat
    BY <1>1
  <2>2. enqueue % Capacity = position[b] % Capacity
    BY <1>1, <2>1, ModNext
  <2>3. sequence[position[b] % Capacity] = position[b] + 1
    BY <1>5 DEF ClaimInv, Secured, SlotOf, Expected
  <2> QED
    BY <1>1, <1>3, <2>1, <2>2, <2>3
<1>6. ASSUME NEW b \in Actor, Claimed(b)', b # a PROVE Claimed(b)
  BY <1>2, <1>6 DEF Claimed, ClaimInv, Types
<1>7. enqueue < dequeue + Capacity /\ dequeue <= enqueue
  BY <1>1, <1>4 DEF WindowInv
<1>8. ASSUME NEW b \in Actor, Claimed(b)'
      PROVE  IF b \in Consumer THEN enqueue' <= position'[b] + Capacity
                               ELSE dequeue' <= position'[b]
  <2>1. CASE b = a
    BY <1>2, <1>7, <2>1
  <2>2. CASE b # a
    BY <1>2, <1>5, <1>6, <1>8, <2>2 DEF WindowInv
  <2> QED
    BY <2>1, <2>2
<1>9. ASSUME NEW p \in Nat
      PROVE  /\ dequeue' <= p /\ p < enqueue' =>
                    sequence'[p % Capacity] \in {p, p + 1}
             /\ enqueue' <= p /\ p < dequeue' + Capacity =>
                    sequence'[p % Capacity] \in {p, p - Capacity + 1}
  BY <1>1, <1>2, <1>3 DEF WindowInv
<1> QED
  BY <1>1, <1>2, <1>7, <1>8, <1>9 DEF WindowInv

(* A consumer claims only a published slot, so the queue was not empty.    *)
LEMMA PopClaimKeepsWindow ==
    ASSUME ClaimInv, WindowInv, NEW a \in Actor, Claim(a), a \in Consumer
    PROVE  WindowInv' /\ dequeue < enqueue
<1> USE RingAssumption
<1>1. /\ enqueue \in Nat /\ dequeue \in Nat /\ position \in [Actor -> Nat]
      /\ Capacity \in Nat \ {0, 1}
  BY DEF ClaimInv, Types
<1>2. /\ dequeue' = dequeue + 1 /\ UNCHANGED <<enqueue, sequence, position>>
      /\ pc' = [pc EXCEPT ![a] = "access"] /\ position[a] = dequeue
  BY DEF Claim, Goto, Counter
<1>3. sequence[dequeue % Capacity] = dequeue + 1
  BY <1>2 DEF Claim, ClaimInv, Secured, Counter, Expected, SlotOf
<1>4. dequeue # enqueue
  <2> SUFFICES ASSUME dequeue = enqueue PROVE FALSE
    OBVIOUS
  <2>1. sequence[dequeue % Capacity] \in {dequeue, dequeue - Capacity + 1}
    BY <1>1 DEF WindowInv
  <2> QED
    BY <1>1, <1>3, <2>1
<1>5. dequeue < enqueue /\ enqueue <= dequeue + Capacity
  BY <1>1, <1>4 DEF WindowInv
<1>6. ASSUME NEW b \in Actor, Claimed(b), b \notin Consumer
      PROVE  dequeue + 1 <= position[b]
  <2>1. position[b] # dequeue
    BY <1>1, <1>3, <1>6 DEF ClaimInv, Secured, SlotOf, Expected
  <2> QED
    BY <1>1, <1>6, <2>1 DEF WindowInv
<1>7. ASSUME NEW b \in Actor, Claimed(b)', b # a PROVE Claimed(b)
  BY <1>2, <1>7 DEF Claimed, ClaimInv, Types
<1>8. ASSUME NEW b \in Actor, Claimed(b)'
      PROVE  IF b \in Consumer THEN enqueue' <= position'[b] + Capacity
                               ELSE dequeue' <= position'[b]
  <2>1. CASE b = a
    BY <1>2, <1>5, <2>1
  <2>2. CASE b # a
    BY <1>2, <1>6, <1>7, <1>8, <2>2 DEF WindowInv
  <2> QED
    BY <2>1, <2>2
<1>9. ASSUME NEW p \in Nat
      PROVE  /\ dequeue' <= p /\ p < enqueue' =>
                    sequence'[p % Capacity] \in {p, p + 1}
             /\ enqueue' <= p /\ p < dequeue' + Capacity =>
                    sequence'[p % Capacity] \in {p, p - Capacity + 1}
  <2>1. CASE p = dequeue + Capacity
    <3>1. (dequeue + Capacity) % Capacity = dequeue % Capacity
      BY <1>1, ModNext
    <3>2. p - Capacity + 1 = dequeue + 1
      BY <1>1, <2>1
    <3> QED
      BY <1>1, <1>2, <1>3, <1>5, <2>1, <3>1, <3>2
  <2>2. CASE p # dequeue + Capacity
    BY <1>1, <1>2, <2>2 DEF WindowInv
  <2> QED
    BY <2>1, <2>2
<1> QED
  BY <1>1, <1>2, <1>5, <1>8, <1>9 DEF WindowInv

(* The store of a producer fills its slot, that of a consumer frees its    *)
(* slot for the next lap; either way one position of the window changes.   *)
LEMMA PublishKeepsWindow ==
    ASSUME ClaimInv, WindowInv, NEW a \in Actor, Publish(a)
    PROVE  WindowInv'
<1> USE RingAssumption
<1>1. /\ enqueue \in Nat /\ dequeue \in Nat /\ position \in [Actor -> Nat]
      /\ sequence \in [Slot -> Nat] /\ Capacity \in Nat \ {0, 1}
  BY DEF ClaimInv, Types
<1>2. /\ UNCHANGED <<enqueue, dequeue>>
      /\ sequence' = [sequence EXCEPT ![SlotOf(a)] = NextSequence(a)]
      /\ position' = [position EXCEPT ![a] = 0]
      /\ pc' = [pc EXCEPT ![a] = "idle"] /\ Claimed(a)
  BY DEF Publish, Return, Goto, Claimed
<1>3. /\ position[a] < Counter(a) /\ position[a] \in Nat
      /\ IF a \in Consumer THEN enqueue <= position[a] + Capacity
                           ELSE dequeue <= position[a]
  BY <1>1, <1>2 DEF ClaimInv, Secured, WindowInv
<1>4. ASSUME NEW p \in Nat, dequeue <= p, p < dequeue + Capacity,
             p % Capacity = SlotOf(a)
      PROVE  p = IF a \in Consumer THEN position[a] + Capacity ELSE position[a]
  <2>1. CASE a \in Consumer
    <3>0. (position[a] + Capacity) % Capacity = position[a] % Capacity
      BY <1>1, <1>3, ModNext
    <3>1. /\ position[a] + Capacity \in Nat
          /\ p % Capacity = (position[a] + Capacity) % Capacity
      BY <1>1, <1>3, <1>4, <3>0 DEF SlotOf
    <3>2. /\ p < (position[a] + Capacity) + Capacity
          /\ position[a] + Capacity < p + Capacity
      BY <1>1, <1>3, <1>4, <2>1 DEF Counter, WindowInv
    <3> QED
      BY <1>1, <2>1, <3>1, <3>2, ModUnique
  <2>2. CASE a \notin Consumer
    <3>1. p < position[a] + Capacity /\ position[a] < p + Capacity
      <4>1. position[a] < enqueue /\ dequeue <= position[a]
        BY <1>3, <2>2 DEF Counter
      <4>2. enqueue <= dequeue + Capacity
        BY DEF WindowInv
      <4>3. /\ p \in Int /\ position[a] \in Int /\ Capacity \in Int
            /\ enqueue \in Int /\ dequeue \in Int
            /\ dequeue <= p /\ p < dequeue + Capacity
        BY <1>1, <1>3, <1>4
      <4> QED
        BY ONLY <4>1, <4>2, <4>3
    <3> QED
      BY <1>1, <1>3, <1>4, <2>2, <3>1, ModUnique DEF SlotOf
  <2> QED
    BY <2>1, <2>2
<1>5. ASSUME NEW p \in Nat, dequeue <= p, p < dequeue + Capacity
      PROVE  /\ p < enqueue => sequence'[p % Capacity] \in {p, p + 1}
             /\ enqueue <= p =>
                    sequence'[p % Capacity] \in {p, p - Capacity + 1}
  <2>0. p % Capacity \in Slot
    BY <1>1, DivMod DEF Slot
  <2>1. CASE p % Capacity = SlotOf(a)
    <3>1. sequence'[p % Capacity] = NextSequence(a)
      BY <1>1, <1>2, <2>0, <2>1
    <3> QED
      <4>1. /\ p \in Int /\ position[a] \in Int /\ Capacity \in Int
            /\ enqueue \in Int /\ dequeue \in Int
            /\ enqueue <= dequeue + Capacity
        BY <1>1, <1>3 DEF WindowInv
      <4>2. p = IF a \in Consumer THEN position[a] + Capacity ELSE position[a]
        BY <1>4, <1>5, <2>1
      <4>3. CASE a \in Consumer
        <5>1. p = position[a] + Capacity /\ sequence'[p % Capacity] = p
          BY <3>1, <4>2, <4>3 DEF NextSequence
        <5>2. enqueue <= p
          BY <1>3, <4>3, <5>1
        <5>3. position[a] < dequeue
          BY <1>3, <4>3 DEF Counter
        <5> QED
          BY <1>2, <4>1, <5>1, <5>2, <5>3
      <4>4. CASE a \notin Consumer
        <5>1. p = position[a] /\ sequence'[p % Capacity] = p + 1
          BY <3>1, <4>2, <4>4 DEF NextSequence
        <5>2. p < enqueue
          BY <1>3, <4>4, <5>1 DEF Counter
        <5> QED
          BY ONLY <4>1, <5>1, <5>2
      <4> QED
        BY <4>3, <4>4
  <2>2. CASE p % Capacity # SlotOf(a)
    BY <1>1, <1>2, <1>5, <2>0, <2>2 DEF WindowInv
  <2> QED
    BY <2>1, <2>2
<1>6. ASSUME NEW b \in Actor, Claimed(b)'
      PROVE  Claimed(b) /\ position'[b] = position[b]
  BY <1>1, <1>2, <1>6 DEF Claimed, ClaimInv, Types
<1>7. ASSUME NEW b \in Actor, Claimed(b)'
      PROVE  IF b \in Consumer THEN enqueue' <= position'[b] + Capacity
                               ELSE dequeue' <= position'[b]
  BY <1>2, <1>6, <1>7 DEF WindowInv
<1>8. ASSUME NEW p \in Nat
      PROVE  /\ dequeue' <= p /\ p < enqueue' =>
                    sequence'[p % Capacity] \in {p, p + 1}
             /\ enqueue' <= p /\ p < dequeue' + Capacity =>
                    sequence'[p % Capacity] \in {p, p - Capacity + 1}
  <2>1. dequeue <= enqueue /\ enqueue <= dequeue + Capacity
    BY DEF WindowInv
  <2>2. CASE dequeue <= p /\ p < dequeue + Capacity
    BY <1>2, <1>5, <2>2
  <2>3. CASE ~(dequeue <= p /\ p < dequeue + Capacity)
    BY <1>1, <1>2, <2>1, <2>3
  <2> QED
    BY <2>2, <2>3
<1> QED
  BY <1>1, <1>2, <1>7, <1>8 DEF WindowInv

(* Every step keeps the window.                                            *)
LEMMA WindowStep == ClaimInv /\ WindowInv /\ [Next]_vars => WindowInv'
<1> SUFFICES ASSUME ClaimInv, WindowInv, [Next]_vars PROVE WindowInv'
  OBVIOUS
<1>1. ASSUME NEW a \in Actor, StartPush(a) \/ StartPop(a) PROVE WindowInv'
  BY <1>1, WindowUntouched
  DEF StartPush, StartPop, Goto, shared, Claimed, ClaimInv, Types
<1>2. ASSUME NEW a \in Actor, Step(a) PROVE WindowInv'
  <2>1. CASE LoadSequence(a)
    BY <2>1, WindowUntouched
    DEF LoadSequence, Goto, shared, Claimed, ClaimInv, Types
  <2>2. CASE ClaimFails(a) \/ Reload(a)
    BY <2>2, WindowUntouched
    DEF ClaimFails, Reload, Goto, shared, Claimed, ClaimInv, Types
  <2>3. CASE TestLimit(a)
    BY <2>3, WindowUntouched
    DEF TestLimit, Return, Goto, shared, Claimed, ClaimInv, Types
  <2>4. CASE AccessFrame(a)
    BY <2>4, WindowUntouched DEF AccessFrame, Goto, Claimed, ClaimInv, Types
  <2>5. CASE Claim(a)
    BY <2>5, PushClaimKeepsWindow, PopClaimKeepsWindow
  <2> QED
    BY <1>2, <2>1, <2>2, <2>3, <2>4, <2>5, PublishKeepsWindow DEF Step
<1>3. CASE UNCHANGED <<shared, local>>
  BY <1>3, WindowUntouched DEF shared, local, Claimed
<1> QED
  BY <1>1, <1>2, <1>3, NextCases DEF Actor

-----------------------------------------------------------------------------
(* Bounds of the counters.                                                 *)

(* Producers that may still claim a position.                              *)
Pushing == {a \in Producer : pc[a] \in {"load", "claim", "test", "reload"}}

PushesBounded ==
    enqueue + Cardinality(Pushing) <= MaxPushes + Cardinality(Producer)

(* A push is started below the bound, and claims one position.             *)
LEMMA PushesStep ==
    ASSUME Types, PushesBounded, [Next]_vars
    PROVE  PushesBounded'
<1> USE RingAssumption
<1>0. /\ IsFiniteSet(Pushing) /\ IsFiniteSet(Pushing')
      /\ Cardinality(Pushing) \in Nat /\ Cardinality(Pushing') \in Nat
      /\ Cardinality(Producer) \in Nat
      /\ Cardinality(Pushing') <= Cardinality(Producer)
  <2>1. Pushing \subseteq Producer /\ Pushing' \subseteq Producer
    BY DEF Pushing
  <2> QED
    BY <2>1, FS_Subset, FS_CardinalityType
<1>1. ASSUME enqueue' = enqueue, Pushing' \subseteq Pushing
      PROVE  PushesBounded'
  <2>1. Cardinality(Pushing') <= Cardinality(Pushing)
    BY <1>0, <1>1, FS_Subset
  <2> QED
    BY <1>0, <1>1, <2>1 DEF PushesBounded, Types
<1>2. ASSUME NEW a \in Producer, StartPush(a) PROVE PushesBounded'
  <2>1. enqueue + 1 <= MaxPushes /\ enqueue' = enqueue
    BY <1>2 DEF StartPush, shared, Types
  <2> QED
    BY <1>0, <2>1 DEF PushesBounded, Types
<1>3. ASSUME NEW a \in Consumer, StartPop(a) PROVE PushesBounded'
  BY <1>1, <1>3 DEF StartPop, Goto, shared, Pushing, Types, Actor
<1>4. ASSUME NEW a \in Actor, Step(a) PROVE PushesBounded'
  <2>1. CASE LoadSequence(a)
    BY <1>1, <2>1 DEF LoadSequence, Goto, shared, Pushing, Types, Actor
  <2>2. CASE ClaimFails(a) \/ Reload(a)
    BY <1>1, <2>2 DEF ClaimFails, Reload, Goto, shared, Pushing, Types, Actor
  <2>3. CASE TestLimit(a)
    BY <1>1, <2>3 DEF TestLimit, Return, Goto, shared, Pushing, Types, Actor
  <2>4. CASE AccessFrame(a)
    BY <1>1, <2>4 DEF AccessFrame, Goto, Pushing, Types, Actor
  <2>5. CASE Publish(a)
    BY <1>1, <2>5 DEF Publish, Return, Goto, Pushing, Types, Actor
  <2>6. CASE Claim(a) /\ a \in Consumer
    BY <1>1, <2>6 DEF Claim, Goto, Pushing, Types, Actor
  <2>7. CASE Claim(a) /\ a \notin Consumer
    <3>1. a \in Pushing /\ Pushing' = Pushing \ {a} /\ enqueue' = enqueue + 1
      BY <2>7 DEF Claim, Goto, Pushing, Types, Actor
    <3>2. Cardinality(Pushing') = Cardinality(Pushing) - 1
      BY <1>0, <3>1, FS_RemoveElement
    <3> QED
      BY <1>0, <3>1, <3>2 DEF PushesBounded, Types
  <2> QED
    BY <1>4, <2>1, <2>2, <2>3, <2>4, <2>5, <2>6, <2>7 DEF Step
<1>5. CASE UNCHANGED <<shared, local>>
  BY <1>1, <1>5 DEF shared, local, Pushing
<1> QED
  BY <1>2, <1>3, <1>4, <1>5, NextCases

-----------------------------------------------------------------------------
(* The ring is a bounded queue.                                            *)

(* A call has no answer, a producer in one has its message in hand, and    *)
(* once it has written the frame the frame says the same.                  *)
CallInv ==
    \A a \in Actor :
        /\ answer[a] = "none" <=> pc[a] # "idle"
        /\ a \in Producer /\ pc[a] # "idle" => message[a] = a
        /\ a \in Producer /\ pc[a] = "publish" => frame[SlotOf(a)] = message[a]

RingInv == ClaimInv /\ WindowInv /\ PushesBounded /\ CallInv

(* Calls answer when they return, and no other thread overwrites a frame   *)
(* on its way.                                                             *)
LEMMA CallStep ==
    ASSUME RingInv, [Next]_vars
    PROVE  CallInv'
<1> USE RingAssumption
<1>0. Types /\ CallInv
  BY DEF RingInv, ClaimInv
<1>1. ASSUME NEW a \in Producer, StartPush(a) PROVE CallInv'
  BY <1>0, <1>1
  DEF StartPush, Goto, shared, CallInv, SlotOf, Types, Actor
<1>2. ASSUME NEW a \in Consumer, StartPop(a) PROVE CallInv'
  BY <1>0, <1>2
  DEF StartPop, Goto, shared, CallInv, SlotOf, Types, Actor
<1>3. ASSUME NEW a \in Actor, Step(a) PROVE CallInv'
  <2>1. CASE LoadSequence(a)
    BY <1>0, <2>1
    DEF LoadSequence, Goto, shared, CallInv, SlotOf, Types
  <2>2. CASE ClaimFails(a) \/ Reload(a)
    BY <1>0, <2>2
    DEF ClaimFails, Reload, Goto, shared, CallInv, SlotOf, Types
  <2>3. CASE Claim(a)
    BY <1>0, <2>3 DEF Claim, Goto, CallInv, SlotOf, Types
  <2>4. CASE TestLimit(a)
    BY <1>0, <2>4
    DEF TestLimit, Return, Goto, shared, CallInv, SlotOf, Types
  <2>5. CASE AccessFrame(a)
    <3>1. ASSUME NEW b \in Actor, b # a, pc[b] = "publish"
          PROVE  SlotOf(b) # SlotOf(a)
      BY <2>5, <3>1, ClaimsExclude
      DEF AccessFrame, ExclusiveFrame, Claimed, RingInv
    <3>2. SlotOf(a) \in Slot
      BY <1>0, SlotInRing
    <3>3. ASSUME NEW b \in Actor, b # a, b \in Producer, pc[b] = "publish"
          PROVE  frame'[SlotOf(b)] = frame[SlotOf(b)]
      BY <1>0, <2>5, <3>1, <3>2, <3>3, SlotInRing DEF AccessFrame, Types
    <3>4. a \in Producer => frame'[SlotOf(a)] = message[a]
      BY <1>0, <2>5, <3>2 DEF AccessFrame, Types
    <3> QED
      BY <1>0, <2>5, <3>3, <3>4
      DEF AccessFrame, Goto, CallInv, SlotOf, Types
  <2>6. CASE Publish(a)
    <3>1. a \in Consumer => message[a] # "none"
      BY <1>0 DEF Types, Frame
    <3> QED
      BY <1>0, <2>6, <3>1 DEF Publish, Return, Goto, CallInv, SlotOf, Types
  <2> QED
    BY <1>3, <2>1, <2>2, <2>3, <2>4, <2>5, <2>6 DEF Step
<1>4. CASE UNCHANGED <<shared, local>>
  BY <1>0, <1>4 DEF shared, local, CallInv, SlotOf
<1> QED
  BY <1>1, <1>2, <1>3, <1>4, NextCases

(* An initialised queue is empty, with every slot free for the first lap.  *)
LEMMA RingInvInit == Init => RingInv
<1> SUFFICES ASSUME Init PROVE RingInv
  OBVIOUS
<1> USE RingAssumption
<1>1. ClaimInv
  BY ClaimInvInit
<1>2. WindowInv
  <2>1. ASSUME NEW p \in Nat, p < Capacity PROVE p % Capacity = p
    BY <2>1, ModSmall
  <2> QED
    <3>1. enqueue = 0 /\ dequeue = 0 /\ sequence = [s \in Slot |-> s] /\ Capacity \in Nat
      BY DEF Init
    <3>2. \A b \in Actor : ~Claimed(b)
      BY DEF Init, Claimed
    <3>3. ASSUME NEW p \in Nat
          PROVE  /\ ~(dequeue <= p /\ p < enqueue)
                 /\ enqueue <= p /\ p < dequeue + Capacity =>
                        sequence[p % Capacity] \in {p, p - Capacity + 1}
      <4>1. ~(dequeue <= p /\ p < enqueue)
        BY <3>1
      <4>2. ASSUME p < Capacity PROVE sequence[p % Capacity] = p
        BY <2>1, <3>1, <4>2 DEF Slot
      <4> QED
        BY <3>1, <4>1, <4>2
    <3>4. dequeue <= enqueue /\ enqueue <= dequeue + Capacity
      BY <3>1
    <3> QED
      BY ONLY <3>2, <3>3, <3>4 DEF WindowInv
<1>3. PushesBounded
  <2>1. Pushing = {}
    BY DEF Init, Pushing, Actor
  <2> QED
    BY <2>1, FS_EmptySet, FS_CardinalityType DEF Init, PushesBounded
<1>4. CallInv
  BY DEF Init, CallInv
<1> QED
  BY <1>1, <1>2, <1>3, <1>4 DEF RingInv

(* The inductive invariant of the ring.                                    *)
LEMMA RingInvStep == RingInv /\ [Next]_vars => RingInv'
  BY ClaimInvStep, WindowStep, PushesStep, CallStep DEF RingInv, ClaimInv

(* Every counter, slot and call keeps its type; the counters stay a lap    *)
(* apart at most (ring.rs, RingHeader and RingSlot).                       *)
THEOREM RingTypeCorrect == Spec => []TypeOK
<1>1. RingInv => TypeOK
  <2> SUFFICES ASSUME RingInv PROVE TypeOK
    OBVIOUS
  <2>1. Pushing \subseteq Producer
    BY DEF Pushing
  <2>2. Cardinality(Pushing) \in Nat /\ Cardinality(Producer) \in Nat
    BY <2>1, RingAssumption, FS_Subset, FS_CardinalityType
  <2> QED
    BY <2>2, RingAssumption
    DEF RingInv, ClaimInv, WindowInv, PushesBounded, Types, TypeOK
<1> QED
  BY <1>1, RingInvInit, RingInvStep, PTL DEF Spec

(* The queue and the answers that the ring stands for.                     *)
Held == [i \in 1..(enqueue - dequeue) |-> Carried(dequeue + i - 1)]
Answers == [a \in Actor |-> AnswerSoFar(a)]

(* A position carries its producer's message until the frame does.         *)
CarriedRule ==
    \A p \in Nat :
        /\ \A a \in Producer :
               Claimed(a) /\ position[a] = p => Carried(p) = a
        /\ (\A a \in Producer : ~(Claimed(a) /\ position[a] = p))
               => Carried(p) = frame[p % Capacity]

(* Carried, stated without the choice in it.                               *)
LEMMA CarriedByRule == RingInv => CarriedRule
<1> SUFFICES ASSUME RingInv, NEW p \in Nat
             PROVE  /\ \A a \in Producer :
                           Claimed(a) /\ position[a] = p => Carried(p) = a
                    /\ (\A a \in Producer : ~(Claimed(a) /\ position[a] = p))
                           => Carried(p) = frame[p % Capacity]
  BY DEF CarriedRule
<1> DEFINE U == {a \in Producer : Claimed(a) /\ position[a] = p}
<1>1. ASSUME NEW a \in Producer, Claimed(a), position[a] = p
      PROVE  Carried(p) = a
  <2>1. a \in U
    BY <1>1
  <2>2. (CHOOSE b \in U : TRUE) \in U
    BY <2>1
  <2>3. (CHOOSE b \in U : TRUE) = a
    BY <1>1, <2>2, RingAssumption DEF RingInv, ClaimInv, Unshared, Actor
  <2>4. message[a] = a
    BY <1>1 DEF RingInv, CallInv, Claimed, Actor
  <2> QED
    BY <2>1, <2>3, <2>4 DEF Carried
<1>2. ASSUME \A a \in Producer : ~(Claimed(a) /\ position[a] = p)
      PROVE  Carried(p) = frame[p % Capacity]
  BY <1>2 DEF Carried
<1> QED
  BY <1>1, <1>2

(* A position whose producer, if any, and whose frame stay, carries the    *)
(* same message.                                                           *)
LEMMA CarriedSame ==
    ASSUME CarriedRule, CarriedRule', NEW p \in Nat,
           \A b \in Producer :
               (Claimed(b) /\ position[b] = p)' <=> Claimed(b) /\ position[b] = p,
           \/ \E b \in Producer : Claimed(b) /\ position[b] = p
           \/ frame'[p % Capacity] = frame[p % Capacity]
    PROVE  Carried(p)' = Carried(p)
<1>1. CASE \E b \in Producer : Claimed(b) /\ position[b] = p
  <2>1. PICK b \in Producer : Claimed(b) /\ position[b] = p
    BY <1>1
  <2>2. Claimed(b)' /\ position'[b] = p
    BY <2>1
  <2> QED
    BY <2>1, <2>2 DEF CarriedRule
<1>2. CASE \A b \in Producer : ~(Claimed(b) /\ position[b] = p)
  <2>1. \A b \in Producer : ~(Claimed(b)' /\ position'[b] = p)
    BY <1>2
  <2> QED
    BY <1>2, <2>1 DEF CarriedRule
<1> QED
  BY <1>1, <1>2

(* A step that moves no counter and no carried message, nor an answer, is  *)
(* invisible.                                                              *)
LEMMA Invisible ==
    ASSUME UNCHANGED <<enqueue, dequeue>>, Types,
           \A p \in Nat : dequeue <= p /\ p < enqueue =>
                              Carried(p)' = Carried(p)
    PROVE  Held' = Held
<1>1. ASSUME NEW i \in 1..(enqueue - dequeue)
      PROVE  Carried(dequeue + i - 1)' = Carried(dequeue + i - 1)
  <2>1. /\ dequeue + i - 1 \in Nat /\ dequeue <= dequeue + i - 1
        /\ dequeue + i - 1 < enqueue
    BY DEF Types
  <2> QED
    BY <2>1
<1>2. Held' = [i \in 1..(enqueue - dequeue) |-> Carried(dequeue + i - 1)']
  BY DEF Held
<1>3. Held = [i \in 1..(enqueue - dequeue) |-> Carried(dequeue + i - 1)]
  BY DEF Held
<1> QED
  BY <1>1, <1>2, <1>3

(* A step after which the same producers hold the same positions, and no   *)
(* frame has changed, leaves the queue as it was.                          *)
LEMMA HeldKept ==
    ASSUME RingInv, CarriedRule, CarriedRule',
           UNCHANGED <<enqueue, dequeue, frame>>,
           \A b \in Producer : Claimed(b)' <=> Claimed(b),
           \A b \in Producer : Claimed(b) => position'[b] = position[b]
    PROVE  Held' = Held
<1>1. ASSUME NEW p \in Nat PROVE Carried(p)' = Carried(p)
  <2>1. \A b \in Producer :
            (Claimed(b) /\ position[b] = p)' <=> Claimed(b) /\ position[b] = p
    OBVIOUS
  <2> QED
    BY <2>1, CarriedSame
<1> QED
  BY <1>1, Invisible DEF RingInv, ClaimInv

(* What a thread's call has answered so far is its own affair.             *)
LEMMA AnswerKept ==
    ASSUME NEW b \in Actor,
           pc'[b] = pc[b], position'[b] = position[b],
           message'[b] = message[b], answer'[b] = answer[b],
           b \in Consumer /\ pc[b] = "access" =>
               frame'[SlotOf(b)] = frame[SlotOf(b)]
    PROVE  AnswerSoFar(b)' = AnswerSoFar(b)
  BY RingAssumption DEF AnswerSoFar, Claimed, SlotOf, Actor

(* Starting a call is Call.                                                *)
LEMMA StartMaps ==
    ASSUME RingInv, CarriedRule, CarriedRule', NEW a \in Actor,
           StartPush(a) \/ StartPop(a)
    PROVE  Fifo!Call(a)
<1> USE RingAssumption
<1>0. Types /\ CallInv
  BY DEF RingInv, ClaimInv
<1>1. /\ UNCHANGED <<enqueue, dequeue, sequence, frame>>
      /\ pc[a] = "idle" /\ pc'[a] = "load" /\ answer'[a] = "none"
      /\ \A b \in Actor \ {a} :
             /\ pc'[b] = pc[b] /\ position'[b] = position[b]
             /\ message'[b] = message[b] /\ answer'[b] = answer[b]
  BY <1>0 DEF StartPush, StartPop, Goto, shared, Types
<1>2. Held' = Held
  BY <1>1, HeldKept DEF Claimed, Actor
<1>3. AnswerSoFar(a) # "none" /\ AnswerSoFar(a)' = "none"
  BY <1>0, <1>1 DEF AnswerSoFar, Claimed, CallInv
<1>4. ASSUME NEW b \in Actor, b # a PROVE AnswerSoFar(b)' = AnswerSoFar(b)
  <2>1. frame'[SlotOf(b)] = frame[SlotOf(b)]
    BY <1>1
  <2> QED
    BY <1>1, <1>4, <2>1, AnswerKept
<1>5. Answers[a] # "none" /\ Answers' = [Answers EXCEPT ![a] = "none"]
  BY <1>3, <1>4 DEF Answers
<1> QED
  BY <1>2, <1>5 DEF Fifo!Call, Held, Answers

(* Reading, retrying and failing to claim are invisible.                   *)
LEMMA RetryMaps ==
    ASSUME RingInv, CarriedRule, CarriedRule', NEW a \in Actor,
           \/ LoadSequence(a) \/ ClaimFails(a) \/ Reload(a)
           \/ TestLimit(a) /\ ~AtLimit(a)
    PROVE  Held' = Held /\ Answers' = Answers
<1> USE RingAssumption
<1>0. Types
  BY DEF RingInv, ClaimInv
<1>1. /\ UNCHANGED <<enqueue, dequeue, sequence, frame, message, answer>>
      /\ ~Claimed(a) /\ pc'[a] \in {"load", "claim", "test", "reload"}
      /\ \A b \in Actor \ {a} :
             pc'[b] = pc[b] /\ position'[b] = position[b]
  BY <1>0
  DEF LoadSequence, ClaimFails, Reload, TestLimit, Goto, shared, Claimed, Types
<1>2. Held' = Held
  BY <1>1, HeldKept DEF Claimed, Actor
<1>3. AnswerSoFar(a)' = AnswerSoFar(a)
  BY <1>1 DEF AnswerSoFar, Claimed
<1>4. ASSUME NEW b \in Actor, b # a PROVE AnswerSoFar(b)' = AnswerSoFar(b)
  <2>1. SlotOf(b)' = SlotOf(b)
    BY <1>1, <1>4 DEF SlotOf
  <2>2. frame'[SlotOf(b)] = frame[SlotOf(b)]
    BY <1>1
  <2> QED
    BY <1>1, <1>4, <2>2, AnswerKept
<1> QED
  BY <1>2, <1>3, <1>4 DEF Answers

(* A call that gives up at the limit is PushFull or PopEmpty: the other    *)
(* counter, read later than its own, shows that the queue was just so.     *)
LEMMA LimitMaps ==
    ASSUME RingInv, CarriedRule, CarriedRule', NEW a \in Actor,
           TestLimit(a), AtLimit(a)
    PROVE  IF a \in Consumer THEN Fifo!PopEmpty(a) ELSE Fifo!PushFull(a)
<1> USE RingAssumption
<1>0. Types /\ CallInv /\ WindowInv
  BY DEF RingInv, ClaimInv
<1> DEFINE v == IF a \in Consumer THEN "empty" ELSE "full"
<1>1. /\ UNCHANGED <<enqueue, dequeue, sequence, frame>>
      /\ pc[a] = "test" /\ pc'[a] = "idle" /\ answer'[a] = v
      /\ \A b \in Actor \ {a} :
             /\ pc'[b] = pc[b] /\ position'[b] = position[b]
             /\ message'[b] = message[b] /\ answer'[b] = answer[b]
  BY <1>0 DEF TestLimit, Return, Goto, shared, Types
<1>2. Held' = Held
  BY <1>1, HeldKept DEF Claimed, Actor
<1>3. AnswerSoFar(a) = "none" /\ AnswerSoFar(a)' = v
  BY <1>0, <1>1 DEF AnswerSoFar, Claimed, CallInv
<1>4. ASSUME NEW b \in Actor, b # a PROVE AnswerSoFar(b)' = AnswerSoFar(b)
  <2>1. frame'[SlotOf(b)] = frame[SlotOf(b)]
    BY <1>1
  <2> QED
    BY <1>1, <1>4, <2>1, AnswerKept
<1>5. Answers[a] = "none" /\ Answers' = [Answers EXCEPT ![a] = v]
  BY <1>3, <1>4 DEF Answers
<1>6. /\ a \in Consumer => enqueue = dequeue
      /\ a \notin Consumer => enqueue - dequeue = Capacity
  <2>1. position[a] <= Counter(a) /\ position[a] \in Nat
    BY <1>0 DEF RingInv, ClaimInv, Secured, Types
  <2> QED
    BY <1>0, <2>1 DEF AtLimit, Counter, WindowInv, Types
<1>7. /\ a \in Consumer => Held = << >>
      /\ a \notin Consumer => Len(Held) = Capacity
  <2>1. Len(Held) = enqueue - dequeue /\ DOMAIN Held = 1..(enqueue - dequeue)
    BY <1>0 DEF Held, WindowInv, Types
  <2> QED
    BY <1>0, <1>6, <2>1 DEF Held, Types
<1> QED
  BY <1>2, <1>5, <1>7 DEF Fifo!PopEmpty, Fifo!PushFull, Held, Answers

(* A producer's claim is PushOk: its message is queued from then on.       *)
LEMMA PushClaimMaps ==
    ASSUME RingInv, CarriedRule, CarriedRule', NEW a \in Producer, Claim(a)
    PROVE  Fifo!PushOk(a, a)
<1> USE RingAssumption
<1>0. /\ Types /\ CallInv /\ WindowInv /\ ClaimInv
      /\ a \in Actor /\ a \notin Consumer
  BY DEF RingInv, ClaimInv, Actor
<1>1. /\ enqueue' = enqueue + 1 /\ position[a] = enqueue
      /\ UNCHANGED <<dequeue, sequence, frame, position, message, answer>>
      /\ pc[a] = "claim" /\ pc'[a] = "access"
      /\ \A b \in Actor \ {a} : pc'[b] = pc[b]
  BY <1>0 DEF Claim, Goto, Counter, Types
<1>2. enqueue < dequeue + Capacity /\ dequeue <= enqueue
  BY <1>0, PushClaimKeepsWindow DEF WindowInv
<1>3. ASSUME NEW p \in Nat, p < enqueue PROVE Carried(p)' = Carried(p)
  <2>1. position[a] # p
    BY <1>0, <1>1, <1>3 DEF Types
  <2>2. \A b \in Producer :
            (Claimed(b) /\ position[b] = p)' <=> Claimed(b) /\ position[b] = p
    BY <1>1, <2>1 DEF Claimed, Actor
  <2>3. frame'[p % Capacity] = frame[p % Capacity]
    BY <1>1
  <2> QED
    BY <2>2, <2>3, CarriedSame
<1>4. ASSUME NEW p \in Nat, p = enqueue PROVE Carried(p)' = a
  <2>1. Claimed(a)' /\ position'[a] = p
    BY <1>1, <1>4 DEF Claimed
  <2> QED
    BY <2>1 DEF CarriedRule
<1>5. /\ Len(Held) < Capacity
      /\ Held' = Append(Held, a)
  <2>1. PICK n \in Nat : n = enqueue - dequeue
    BY <1>0, <1>2 DEF Types
  <2>2. /\ n < Capacity /\ enqueue' - dequeue' = n + 1
        /\ enqueue \in Nat /\ dequeue \in Nat
    BY <1>0, <1>1, <1>2, <2>1 DEF Types
  <2>3. /\ Held = [i \in 1..n |-> Carried(dequeue + i - 1)]
        /\ Held' = [i \in 1..(n + 1) |-> Carried(dequeue + i - 1)']
    BY <2>1, <2>2 DEF Held
  <2>4. ASSUME NEW i \in 1..n
        PROVE  Carried(dequeue + i - 1)' = Carried(dequeue + i - 1)
    <3>1. PICK p \in Nat : p = dequeue + i - 1 /\ p < enqueue
      BY <2>1, <2>2
    <3>2. Carried(p)' = Carried(p)
      BY <1>3, <3>1
    <3> QED
      BY <1>1, <3>1, <3>2
  <2>5. Carried(dequeue + (n + 1) - 1)' = a
    <3>1. PICK p \in Nat : p = enqueue
      BY <2>2
    <3>2. (dequeue + (n + 1) - 1)' = p
      BY <1>1, <2>1, <2>2, <3>1
    <3> QED
      BY <1>4, <3>1, <3>2
  <2>6. /\ Held = [i \in 1..n |-> Held[i]]
        /\ Held' = [i \in 1..(n + 1) |-> Held'[i]]
        /\ \A i \in 1..n : Held'[i] = Held[i]
        /\ Held'[n + 1] = a
    BY <2>3, <2>4, <2>5
  <2> QED
    BY <2>2, <2>6, AppendElement
<1>6. AnswerSoFar(a) = "none" /\ AnswerSoFar(a)' = "sent"
  BY <1>0, <1>1 DEF AnswerSoFar, Claimed, CallInv
<1>7. ASSUME NEW b \in Actor, b # a PROVE AnswerSoFar(b)' = AnswerSoFar(b)
  <2>1. frame'[SlotOf(b)] = frame[SlotOf(b)]
    BY <1>1
  <2> QED
    BY <1>1, <1>7, <2>1, AnswerKept
<1>8. Answers[a] = "none" /\ Answers' = [Answers EXCEPT ![a] = "sent"]
  BY <1>0, <1>6, <1>7 DEF Answers
<1> QED
  BY <1>5, <1>8 DEF Fifo!PushOk, Held, Answers

(* A consumer's claim is PopOk: the slot it will read cannot be written    *)
(* before it gives the slot back.                                          *)
LEMMA PopClaimMaps ==
    ASSUME RingInv, CarriedRule, CarriedRule', NEW a \in Consumer, Claim(a)
    PROVE  Fifo!PopOk(a)
<1> USE RingAssumption
<1>0. /\ Types /\ CallInv /\ WindowInv /\ ClaimInv
      /\ a \in Actor
  BY DEF RingInv, ClaimInv, Actor
<1>1. /\ dequeue' = dequeue + 1 /\ position[a] = dequeue
      /\ UNCHANGED <<enqueue, sequence, frame, position, message, answer>>
      /\ pc[a] = "claim" /\ pc'[a] = "access"
      /\ \A b \in Actor \ {a} : pc'[b] = pc[b]
  BY <1>0 DEF Claim, Goto, Counter, Types
<1>2. dequeue < enqueue
  BY <1>0, PopClaimKeepsWindow
<1>3. ASSUME NEW p \in Nat PROVE Carried(p)' = Carried(p)
  <2>1. \A b \in Producer :
            (Claimed(b) /\ position[b] = p)' <=> Claimed(b) /\ position[b] = p
    BY <1>1 DEF Claimed, Actor
  <2>2. frame'[p % Capacity] = frame[p % Capacity]
    BY <1>1
  <2> QED
    BY <2>1, <2>2, CarriedSame
<1>4. Carried(dequeue) = frame[SlotOf(a)]
  <2>1. sequence[dequeue % Capacity] = dequeue + 1
    BY <1>0, <1>1 DEF ClaimInv, Secured, Counter, SlotOf, Expected
  <2>2. ASSUME NEW b \in Producer, Claimed(b) PROVE position[b] # dequeue
    BY <1>0, <2>1, <2>2
    DEF ClaimInv, Secured, SlotOf, Expected, Types, Actor
  <2> QED
    BY <1>0, <1>1, <2>2 DEF CarriedRule, SlotOf, Types
<1>5. /\ Held # << >> /\ Held' = Tail(Held)
      /\ Head(Held) = frame[SlotOf(a)]
  <2>1. PICK n \in Nat : n = enqueue - dequeue - 1
    BY <1>0, <1>2 DEF Types
  <2>2. /\ enqueue - dequeue = n + 1 /\ enqueue' - dequeue' = n
        /\ enqueue \in Nat /\ dequeue \in Nat
    BY <1>0, <1>1, <2>1 DEF Types
  <2>3. /\ Held = [i \in 1..(n + 1) |-> Carried(dequeue + i - 1)]
        /\ Held' = [i \in 1..n |-> Carried(dequeue + i - 1)']
    BY <2>2 DEF Held
  <2>4. ASSUME NEW i \in 1..n
        PROVE  Carried(dequeue + i - 1)' = Carried(dequeue + (i + 1) - 1)
    <3>1. PICK p \in Nat : p = dequeue + i
      BY <2>2
    <3>2. Carried(p)' = Carried(p)
      BY <1>3
    <3>3. (dequeue + i - 1)' = p /\ dequeue + (i + 1) - 1 = p
      BY <1>1, <2>2, <3>1
    <3> QED
      BY <3>2, <3>3
  <2>5. Carried(dequeue + 1 - 1) = frame[SlotOf(a)]
    <3>1. dequeue + 1 - 1 = dequeue
      BY <2>2
    <3> QED
      BY <1>4, <3>1
  <2>6. /\ Held = [i \in 1..(n + 1) |-> Held[i]]
        /\ Held' = [i \in 1..n |-> Held'[i]]
        /\ Held[1] = frame[SlotOf(a)]
    BY <2>3, <2>5
  <2>7. ASSUME NEW i \in 1..n PROVE Held'[i] = Held[i + 1]
    <3>1. Held'[i] = Carried(dequeue + i - 1)'
      BY <2>3
    <3>2. i + 1 \in 1..(n + 1)
      OBVIOUS
    <3>3. Held[i + 1] = Carried(dequeue + (i + 1) - 1)
      BY <2>3, <3>2
    <3> QED
      BY <2>4, <3>1, <3>3
  <2>8. PICK S : Held \in [1..(n + 1) -> S] /\ Held' \in [1..n -> S]
    <3> DEFINE S == {Held[i] : i \in 1..(n + 1)}
    <3>1. Held \in [1..(n + 1) -> S]
      BY <2>6
    <3>2. ASSUME NEW i \in 1..n PROVE Held'[i] \in S
      <4>1. i + 1 \in 1..(n + 1)
        OBVIOUS
      <4> QED
        BY <2>7, <4>1
    <3>3. Held' \in [1..n -> S]
      BY <2>6, <3>2
    <3> QED
      BY <3>1, <3>3
  <2>9. Held # << >> /\ Held' = Tail(Held) /\ Head(Held) = Held[1]
    BY <2>7, <2>8, DropElement
  <2> QED
    BY <2>6, <2>9
<1>6. AnswerSoFar(a) = "none" /\ AnswerSoFar(a)' = frame[SlotOf(a)]
  <2>1. SlotOf(a)' = SlotOf(a)
    BY <1>1 DEF SlotOf
  <2> QED
    BY <1>0, <1>1, <2>1 DEF AnswerSoFar, Claimed, CallInv
<1>7. ASSUME NEW b \in Actor, b # a PROVE AnswerSoFar(b)' = AnswerSoFar(b)
  <2>1. frame'[SlotOf(b)] = frame[SlotOf(b)]
    BY <1>1
  <2> QED
    BY <1>1, <1>7, <2>1, AnswerKept
<1>8. Answers[a] = "none" /\ Answers' = [Answers EXCEPT ![a] = Head(Held)]
  BY <1>0, <1>5, <1>6, <1>7 DEF Answers
<1> QED
  BY <1>5, <1>8 DEF Fifo!PopOk, Held, Answers

(* Two positions of the window are in different slots.                     *)
LEMMA WindowSlots ==
    ASSUME RingInv, NEW a \in Producer, Claimed(a), NEW p \in Nat,
           dequeue <= p, p < enqueue, p % Capacity = SlotOf(a)
    PROVE  p = position[a]
<1> USE RingAssumption
<1>1. /\ position[a] \in Nat /\ dequeue <= position[a] /\ position[a] < enqueue
      /\ enqueue <= dequeue + Capacity
      /\ enqueue \in Nat /\ dequeue \in Nat /\ Capacity \in Nat \ {0}
  BY DEF RingInv, ClaimInv, Secured, Counter, WindowInv, Types, Actor
<1>2. p < position[a] + Capacity /\ position[a] < p + Capacity
  BY <1>1
<1> QED
  BY <1>1, <1>2, ModUnique DEF SlotOf

(* Copying the frame is invisible: nobody else is at it.                   *)
LEMMA AccessMaps ==
    ASSUME RingInv, CarriedRule, CarriedRule', NEW a \in Actor, AccessFrame(a)
    PROVE  Held' = Held /\ Answers' = Answers
<1> USE RingAssumption
<1>0. Types /\ CallInv /\ ClaimInv /\ SlotOf(a) \in Slot
  BY SlotInRing DEF RingInv, ClaimInv
<1>1. /\ UNCHANGED <<enqueue, dequeue, sequence, position, answer>>
      /\ pc[a] = "access" /\ pc'[a] = "publish"
      /\ \A b \in Actor \ {a} :
             pc'[b] = pc[b] /\ message'[b] = message[b]
  BY <1>0 DEF AccessFrame, Goto, Types
<1>2. ASSUME NEW s \in Slot, s # SlotOf(a) \/ a \in Consumer
      PROVE  frame'[s] = frame[s]
  BY <1>0, <1>2 DEF AccessFrame, Types
<1>3. ASSUME NEW p \in Nat, dequeue <= p, p < enqueue
      PROVE  Carried(p)' = Carried(p)
  <2>1. \A b \in Producer :
            (Claimed(b) /\ position[b] = p)' <=> Claimed(b) /\ position[b] = p
    BY <1>1 DEF Claimed, Actor
  <2>2. CASE a \in Producer /\ p % Capacity = SlotOf(a)
    <3>1. Claimed(a) /\ position[a] = p
      BY <1>1, <1>3, <2>2, WindowSlots DEF Claimed
    <3> QED
      BY <2>1, <2>2, <3>1, CarriedSame
  <2>3. CASE ~(a \in Producer /\ p % Capacity = SlotOf(a))
    <3>1. p % Capacity \in Slot
      BY DivMod DEF Slot
    <3>2. frame'[p % Capacity] = frame[p % Capacity]
      BY <1>2, <2>3, <3>1 DEF Actor
    <3> QED
      BY <2>1, <3>2, CarriedSame
  <2> QED
    BY <2>2, <2>3
<1>4. Held' = Held
  BY <1>0, <1>1, <1>3, Invisible
<1>5. AnswerSoFar(a)' = AnswerSoFar(a)
  <2>1. a \in Consumer => message'[a] = frame[SlotOf(a)]
    BY <1>0 DEF AccessFrame, Types
  <2> QED
    BY <1>1, <2>1 DEF AnswerSoFar, Claimed, Actor
<1>6. ASSUME NEW b \in Actor, b # a PROVE AnswerSoFar(b)' = AnswerSoFar(b)
  <2>1. ASSUME pc[b] = "access" PROVE SlotOf(b) # SlotOf(a)
    BY <1>0, <1>1, <1>6, <2>1, ClaimsExclude DEF ExclusiveFrame, Claimed
  <2>2. SlotOf(b) \in Slot
    BY <1>0, SlotInRing
  <2>3. pc[b] = "access" => frame'[SlotOf(b)] = frame[SlotOf(b)]
    BY <1>2, <2>1, <2>2
  <2>4. /\ pc'[b] = pc[b] /\ position'[b] = position[b]
        /\ message'[b] = message[b] /\ answer'[b] = answer[b]
    BY <1>1, <1>6
  <2> QED
    BY <2>3, <2>4, AnswerKept
<1> QED
  BY <1>4, <1>5, <1>6 DEF Answers

(* Publishing is invisible: from here on the frame carries the message, or *)
(* the answer the frame's value.                                           *)
LEMMA PublishMaps ==
    ASSUME RingInv, CarriedRule, CarriedRule', NEW a \in Actor, Publish(a)
    PROVE  Held' = Held /\ Answers' = Answers
<1> USE RingAssumption
<1>0. Types /\ CallInv /\ ClaimInv
  BY DEF RingInv, ClaimInv
<1> DEFINE v == IF a \in Consumer THEN message[a] ELSE "sent"
<1>1. /\ UNCHANGED <<enqueue, dequeue, frame>>
      /\ pc[a] = "publish" /\ pc'[a] = "idle" /\ answer'[a] = v
      /\ \A b \in Actor \ {a} :
             /\ pc'[b] = pc[b] /\ position'[b] = position[b]
             /\ message'[b] = message[b] /\ answer'[b] = answer[b]
  BY <1>0 DEF Publish, Return, Goto, Types
<1>2. ASSUME NEW p \in Nat PROVE Carried(p)' = Carried(p)
  <2>1. CASE a \in Producer /\ position[a] = p
    <3>1. Carried(p) = a
      BY <1>1, <2>1 DEF CarriedRule, Claimed
    <3>2. ASSUME NEW b \in Producer PROVE ~(Claimed(b) /\ position[b] = p)'
      BY <1>0, <1>1, <2>1 DEF ClaimInv, Unshared, Claimed, Actor
    <3>3. Carried(p)' = frame'[p % Capacity]
      <4>1. \A b \in Producer : ~(Claimed(b)' /\ position'[b] = p)
        BY <3>2
      <4> QED
        BY <4>1 DEF CarriedRule
    <3>4. frame[p % Capacity] = a
      BY <1>0, <1>1, <2>1 DEF CallInv, SlotOf
    <3> QED
      BY <1>1, <3>1, <3>3, <3>4
  <2>2. CASE ~(a \in Producer /\ position[a] = p)
    <3>1. \A b \in Producer :
              (Claimed(b) /\ position[b] = p)' <=> Claimed(b) /\ position[b] = p
      BY <1>1, <2>2 DEF Claimed, Actor
    <3>2. frame'[p % Capacity] = frame[p % Capacity]
      BY <1>1
    <3> QED
      BY <3>1, <3>2, CarriedSame
  <2> QED
    BY <2>1, <2>2
<1>3. Held' = Held
  BY <1>0, <1>1, <1>2, Invisible
<1>4. AnswerSoFar(a)' = AnswerSoFar(a)
  BY <1>1 DEF AnswerSoFar, Claimed, Actor
<1>5. ASSUME NEW b \in Actor, b # a PROVE AnswerSoFar(b)' = AnswerSoFar(b)
  <2>1. frame'[SlotOf(b)] = frame[SlotOf(b)]
    BY <1>1
  <2> QED
    BY <1>1, <1>5, <2>1, AnswerKept
<1> QED
  BY <1>3, <1>4, <1>5 DEF Answers

(* Every step of the ring is a step of the queue, or none.                 *)
LEMMA FifoStepMaps ==
    RingInv /\ CarriedRule /\ CarriedRule' /\ [Next]_vars
        => [Fifo!FifoNext]_<<Held, Answers>>
<1> SUFFICES ASSUME RingInv, CarriedRule, CarriedRule', [Next]_vars
             PROVE  [Fifo!FifoNext]_<<Held, Answers>>
  OBVIOUS
<1>0. Fifo!Actor = Actor
  BY DEF Fifo!Actor, Actor
<1>1. ASSUME NEW a \in Actor, StartPush(a) \/ StartPop(a) PROVE Fifo!FifoNext
  BY <1>0, <1>1, StartMaps DEF Fifo!FifoNext
<1>2. ASSUME NEW a \in Actor, Step(a)
      PROVE  Fifo!FifoNext \/ (Held' = Held /\ Answers' = Answers)
  <2>1. CASE TestLimit(a) /\ AtLimit(a)
    BY <2>1, LimitMaps DEF Fifo!FifoNext, Actor
  <2>2. CASE Claim(a) /\ a \in Producer
    BY <2>2, PushClaimMaps DEF Fifo!FifoNext, Frame
  <2>3. CASE Claim(a) /\ a \in Consumer
    BY <2>3, PopClaimMaps DEF Fifo!FifoNext
  <2> QED
    BY <1>2, <2>1, <2>2, <2>3, RetryMaps, AccessMaps, PublishMaps
    DEF Step, Actor
<1>3. CASE UNCHANGED <<shared, local>>
  <2>1. Held' = Held
    BY <1>3, HeldKept DEF shared, local, Claimed
  <2>2. ASSUME NEW a \in Actor PROVE AnswerSoFar(a)' = AnswerSoFar(a)
    BY <1>3 DEF shared, local, AnswerSoFar, Claimed, SlotOf
  <2> QED
    BY <2>1, <2>2 DEF Answers
<1> QED
  BY <1>1, <1>2, <1>3, NextCases DEF Actor

(* An initialised queue stands for the empty one.                          *)
LEMMA FifoInitMaps == Init => Fifo!FifoInit
  BY RingAssumption
  DEF Init, Fifo!FifoInit, Fifo!Actor, AnswerSoFar, Claimed, Actor

(* The ring implements the bounded queue: every call takes effect at one   *)
(* instant, its claim or the test that finds the queue full or empty, and  *)
(* messages leave in the order of the claims (try_push, try_pop).          *)
THEOREM RingImplementsFifo == Spec => ImplementsFifo
<1>1. RingInv /\ RingInv' /\ [Next]_vars
        => [Fifo!FifoNext]_<<[i \in 1..(enqueue - dequeue) |->
                                 Carried(dequeue + i - 1)],
                             [a \in Actor |-> AnswerSoFar(a)]>>
  <2>1. (RingInv => CarriedRule) /\ (RingInv' => CarriedRule')
    BY CarriedByRule, PTL
  <2> QED
    BY <2>1, FifoStepMaps DEF Held, Answers
<1> QED
  BY <1>1, FifoInitMaps, RingInvInit, RingInvStep, PTL
  DEF Spec, ImplementsFifo, Fifo!FifoSpec
=============================================================================
