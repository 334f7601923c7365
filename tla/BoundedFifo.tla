----------------------------- MODULE BoundedFifo -----------------------------
(***************************************************************************)
(* What try_push and try_pop promise, with no counters and no sequence     *)
(* numbers: one bounded queue, and calls that take effect in one instant   *)
(* between their start and their return.                                   *)
(***************************************************************************)
EXTENDS Naturals, Sequences

CONSTANTS
    Producer, Consumer,     \* the threads that push and that pop
    Frame,                  \* the messages
    Capacity                \* slots of the ring

VARIABLES
    queue,      \* messages sent and not yet taken
    answer      \* what each thread's last call returned, "none" during a call

Actor == Producer \cup Consumer

FifoInit ==
    /\ queue = << >>
    /\ answer = [a \in Actor |-> "idle"]

Call(a) ==
    /\ answer[a] # "none"
    /\ answer' = [answer EXCEPT ![a] = "none"]
    /\ UNCHANGED queue

PushOk(a, f) ==
    /\ answer[a] = "none"
    /\ Len(queue) < Capacity
    /\ queue' = Append(queue, f)
    /\ answer' = [answer EXCEPT ![a] = "sent"]

PushFull(a) ==
    /\ answer[a] = "none"
    /\ Len(queue) = Capacity
    /\ answer' = [answer EXCEPT ![a] = "full"]
    /\ UNCHANGED queue

PopOk(a) ==
    /\ answer[a] = "none"
    /\ queue # << >>
    /\ queue' = Tail(queue)
    /\ answer' = [answer EXCEPT ![a] = Head(queue)]

PopEmpty(a) ==
    /\ answer[a] = "none"
    /\ queue = << >>
    /\ answer' = [answer EXCEPT ![a] = "empty"]
    /\ UNCHANGED queue

FifoNext ==
    \/ \E a \in Actor : Call(a)
    \/ \E a \in Producer : PushFull(a) \/ \E f \in Frame : PushOk(a, f)
    \/ \E a \in Consumer : PopOk(a) \/ PopEmpty(a)

FifoSpec == FifoInit /\ [][FifoNext]_<<queue, answer>>
==============================================================================
