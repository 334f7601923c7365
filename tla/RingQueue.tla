------------------------------ MODULE RingQueue ------------------------------
(***************************************************************************)
(* engine/src/exec/transport/ring.rs: the bounded queue in shared memory   *)
(* that carries dispatch commands to a worker process and completions      *)
(* back.  One action per atomic access; the frame itself is written and    *)
(* read without atomics.  Accesses are sequentially consistent here: the   *)
(* SeqCst fences and exchanges of the two emptiness tests are taken to     *)
(* order them.  The 64-bit counters do not wrap in a run.                  *)
(***************************************************************************)
EXTENDS Integers, FiniteSets, Sequences

CONSTANTS
    Producer, Consumer,     \* threads that call try_push, try_pop
    NoFrame,                \* the zeroed frame
    Capacity,               \* slots, a power of two of at least two
    MaxPushes,              \* bound on claimed positions in a run
    MayDie                  \* threads whose process may be killed

ASSUME RingAssumption ==
    /\ Producer \cap Consumer = {}
    /\ IsFiniteSet(Producer)
    /\ NoFrame \notin Producer
    /\ "none" \notin Producer \cup {NoFrame}
    /\ Capacity \in Nat \ {0, 1}
    /\ MaxPushes \in Nat
    /\ MayDie \subseteq Producer \cup Consumer

Actor == Producer \cup Consumer
Slot == 0..(Capacity - 1)

(* What a frame says is nothing to the ring: it is told by who sent it.    *)
Frame == Producer

VARIABLES
    enqueue, dequeue,   \* RingHeader
    sequence, frame,    \* RingSlot
    pc,                 \* where each thread is in its call
    position,           \* its local variable
    message,            \* the frame it sends, or has received
    answer,             \* what its last call returned
    dead                \* threads whose process was killed

shared == <<enqueue, dequeue, sequence, frame>>
local == <<pc, position, message, answer>>
vars == <<shared, local, dead>>

Init ==
    /\ enqueue = 0 /\ dequeue = 0
    /\ sequence = [s \in Slot |-> s]
    /\ frame = [s \in Slot |-> NoFrame]
    /\ pc = [a \in Actor |-> "idle"]
    /\ position = [a \in Actor |-> 0]
    /\ message = [a \in Actor |-> NoFrame]
    /\ answer = [a \in Actor |-> "idle"]
    /\ dead = {}

SlotOf(a) == position[a] % Capacity

(* pos + 1 for a frame published, pos for a slot free again.               *)
Expected(a) == IF a \in Consumer THEN position[a] + 1 ELSE position[a]

Goto(a, label) == pc' = [pc EXCEPT ![a] = label]

(* The counter this thread claims positions from.                          *)
Counter(a) == IF a \in Consumer THEN dequeue ELSE enqueue

(* The call's locals go out of scope.                                      *)
Return(a, value) ==
    /\ answer' = [answer EXCEPT ![a] = value]
    /\ position' = [position EXCEPT ![a] = 0]
    /\ message' = [message EXCEPT ![a] = NoFrame]
    /\ Goto(a, "idle")

-----------------------------------------------------------------------------
(* The two calls, up to the claim.                                         *)

StartPush(a) ==
    /\ pc[a] = "idle"
    /\ enqueue < MaxPushes
    /\ message' = [message EXCEPT ![a] = a]
    /\ answer' = [answer EXCEPT ![a] = "none"]
    /\ position' = [position EXCEPT ![a] = enqueue]
    /\ Goto(a, "load")
    /\ UNCHANGED shared

StartPop(a) ==
    /\ pc[a] = "idle"
    /\ answer' = [answer EXCEPT ![a] = "none"]
    /\ position' = [position EXCEPT ![a] = dequeue]
    /\ Goto(a, "load")
    /\ UNCHANGED <<shared, message>>

(* Seeded defect: a slot behind the position counts as ready.              *)
LoadSequenceAnyLag(a) ==
    /\ pc[a] = "load"
    /\ \/ sequence[SlotOf(a)] <= Expected(a) /\ Goto(a, "claim")
       \/ sequence[SlotOf(a)] > Expected(a) /\ Goto(a, "reload")
    /\ UNCHANGED <<shared, position, message, answer>>

(* The acquire load of the slot's sequence, and the branch on it.          *)
LoadSequence(a) ==
    /\ pc[a] = "load"
    /\ \/ sequence[SlotOf(a)] = Expected(a) /\ Goto(a, "claim")
       \/ sequence[SlotOf(a)] < Expected(a) /\ Goto(a, "test")
       \/ sequence[SlotOf(a)] > Expected(a) /\ Goto(a, "reload")
    /\ UNCHANGED <<shared, position, message, answer>>

(* The counter moved, or the weak exchange failed by itself.               *)
ClaimFails(a) ==
    /\ pc[a] = "claim"
    /\ position' = [position EXCEPT ![a] = Counter(a)]
    /\ Goto(a, "load")
    /\ UNCHANGED <<shared, message, answer>>

(* Seeded defect: the counter is stored, not exchanged.                    *)
ClaimByStore(a) ==
    /\ pc[a] = "claim"
    /\ IF a \in Consumer
       THEN dequeue' = position[a] + 1 /\ UNCHANGED enqueue
       ELSE enqueue' = position[a] + 1 /\ UNCHANGED dequeue
    /\ Goto(a, "access")
    /\ UNCHANGED <<sequence, frame, position, message, answer>>

(* The exchange succeeds: the position, and its slot, are this thread's.   *)
Claim(a) ==
    /\ pc[a] = "claim"
    /\ Counter(a) = position[a]
    /\ IF a \in Consumer
       THEN dequeue' = dequeue + 1 /\ UNCHANGED enqueue
       ELSE enqueue' = enqueue + 1 /\ UNCHANGED dequeue
    /\ Goto(a, "access")
    /\ UNCHANGED <<sequence, frame, position, message, answer>>

(* Seeded defect: a slot that lags is answer enough, as in a ring that     *)
(* does not read the other counter.                                        *)
AtLimitByLag(a) == TRUE

(* Full is "one capacity ahead of the other counter", empty is "level".    *)
AtLimit(a) ==
    IF a \in Consumer THEN enqueue = position[a]
                      ELSE dequeue + Capacity = position[a]

(* A slot that lags: full or empty only if the other counter says so.      *)
TestLimit(a) ==
    /\ pc[a] = "test"
    /\ \/ /\ AtLimit(a)
          /\ Return(a, IF a \in Consumer THEN "empty" ELSE "full")
       \/ /\ ~AtLimit(a)
          /\ Goto(a, "reload")
          /\ UNCHANGED <<position, message, answer>>
    /\ UNCHANGED shared

(* Seeded defect: the retry keeps the position it started from.            *)
RetryStalePosition(a) ==
    /\ pc[a] = "reload"
    /\ Goto(a, "load")
    /\ UNCHANGED <<shared, position, message, answer>>

(* The retry starts over from the current counter.                         *)
Reload(a) ==
    /\ pc[a] = "reload"
    /\ position' = [position EXCEPT ![a] = Counter(a)]
    /\ Goto(a, "load")
    /\ UNCHANGED <<shared, message, answer>>

-----------------------------------------------------------------------------
(* The claimed slot: the frame, then the store that passes the slot on.    *)

AccessFrame(a) ==
    /\ pc[a] = "access"
    /\ IF a \in Consumer
       THEN /\ message' = [message EXCEPT ![a] = frame[SlotOf(a)]]
            /\ UNCHANGED frame
       ELSE /\ frame' = [frame EXCEPT ![SlotOf(a)] = message[a]]
            /\ UNCHANGED message
    /\ Goto(a, "publish")
    /\ UNCHANGED <<enqueue, dequeue, sequence, position, answer>>

(* The sequence that hands the slot to the other side.                     *)
NextSequence(a) ==
    IF a \in Consumer THEN position[a] + Capacity ELSE position[a] + 1

Publish(a) ==
    /\ pc[a] = "publish"
    /\ sequence' = [sequence EXCEPT ![SlotOf(a)] = NextSequence(a)]
    /\ Return(a, IF a \in Consumer THEN message[a] ELSE "sent")
    /\ UNCHANGED <<enqueue, dequeue, frame>>

Step(a) ==
    \/ LoadSequence(a) \/ ClaimFails(a) \/ Claim(a) \/ TestLimit(a)
    \/ Reload(a) \/ AccessFrame(a) \/ Publish(a)

Alive == Actor \ dead

(* The process is killed between two accesses.                             *)
Die(a) ==
    /\ a \in MayDie
    /\ dead' = dead \cup {a}
    /\ UNCHANGED <<shared, local>>

Next ==
    \/ /\ \/ \E a \in Alive \cap Producer : StartPush(a)
          \/ \E a \in Alive \cap Consumer : StartPop(a)
          \/ \E a \in Alive : Step(a)
       /\ UNCHANGED dead
    \/ \E a \in Alive : Die(a)

Spec == Init /\ [][Next]_vars

(***************************************************************************)
(* A thread inside a call keeps running; an exchange that can succeed does *)
(* not fail by itself for ever.  No thread has to start a call.            *)
(***************************************************************************)
Fairness ==
    \A a \in Actor :
        /\ WF_vars(a \in Alive /\ Step(a) /\ UNCHANGED dead)
        /\ SF_vars(a \in Alive /\ Claim(a) /\ UNCHANGED dead)

FairSpec == Spec /\ Fairness

-----------------------------------------------------------------------------

Claimed(a) == pc[a] \in {"access", "publish"}

(* Every counter, slot and call keeps its type (ring.rs, RingHeader and    *)
(* RingSlot).                                                              *)
TypeOK ==
    /\ enqueue \in 0..MaxPushes + Cardinality(Producer)
    /\ dequeue \in 0..enqueue
    /\ sequence \in [Slot -> Nat]
    /\ frame \in [Slot -> Frame \cup {NoFrame}]
    /\ pc \in [Actor -> {"idle", "load", "claim", "test", "reload",
                         "access", "publish"}]
    /\ position \in [Actor -> Nat]
    /\ message \in [Actor -> Frame \cup {NoFrame}]
    /\ answer \in [Actor -> Frame \cup {NoFrame}
                              \cup {"idle", "none", "sent", "full", "empty"}]
    /\ dead \subseteq MayDie

(* What both unsafe blocks of ring.rs rely on: no two threads are at the   *)
(* unsynchronised frame of one slot at the same time.                      *)
ExclusiveFrame ==
    \A a, b \in Actor : a # b /\ Claimed(a) /\ Claimed(b) =>
                            SlotOf(a) # SlotOf(b)

(* The message a claimed position carries: in the slot once published, in  *)
(* its producer's hands before.                                            *)
Carried(p) ==
    LET unpublished == {a \in Producer : Claimed(a) /\ position[a] = p}
    IN  IF unpublished # {} THEN message[CHOOSE a \in unpublished : TRUE]
                            ELSE frame[p % Capacity]

(* A call counts from its claim on: a consumer has the frame it will read. *)
AnswerSoFar(a) ==
    IF ~Claimed(a) THEN answer[a]
    ELSE IF a \in Producer THEN "sent"
    ELSE IF pc[a] = "access" THEN frame[SlotOf(a)] ELSE message[a]

Fifo == INSTANCE BoundedFifo
            WITH queue <- [i \in 1..(enqueue - dequeue) |->
                              Carried(dequeue + i - 1)],
                 answer <- [a \in Actor |-> AnswerSoFar(a)]

(* The ring is a linearizable bounded queue: no message is lost, repeated  *)
(* or reordered, full is answered only with Capacity messages in the queue *)
(* and empty only with none, whatever the interleaving of the accesses     *)
(* (try_push, try_pop).                                                    *)
ImplementsFifo == Fifo!FifoSpec

(* Every call of a thread that lives returns, unless a thread was killed   *)
(* between its claim of a position and the store that publishes it: a slot *)
(* that lags is always being worked on by a thread that will finish (the   *)
(* retry loops of try_push and try_pop).                                   *)
CallsReturn ==
    \A a \in Actor :
        pc[a] # "idle" ~>
            \/ pc[a] = "idle"
            \/ a \in dead
            \/ \E d \in dead : Claimed(d)

(* What the death check needs (recovery.py:34, "enforce the consumer       *)
(* deadline"): a surviving thread's call returns even if the thread at the *)
(* other end was killed.                                                   *)
SurvivorsReturn ==
    \A a \in Actor \ MayDie : pc[a] # "idle" ~> pc[a] = "idle"
==============================================================================
