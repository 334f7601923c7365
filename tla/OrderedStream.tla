---------------------------- MODULE OrderedStream ----------------------------
(***************************************************************************)
(* What the scheduler promises its consumer, without frontier, workers or  *)
(* routes: every position of the half-open range [Start, End) that was not *)
(* delivered before a restore is handed out exactly once, one per step,    *)
(* and in strict delivery always the lowest one that is left.              *)
(***************************************************************************)
EXTENDS Integers, Sequences

CONSTANTS
    Start,      \* first position of the schedule
    End,        \* one past the last position
    Restored,   \* positions a checkpoint says were delivered already
    InOrder     \* TRUE for delivery="in-order", FALSE for "on-completion"

VARIABLES
    taken,      \* positions delivered, before the restore or since
    output      \* positions handed to the consumer since, in order

StreamPosition == Start..(End - 1)

StreamInit ==
    /\ taken = Restored
    /\ output = << >>

(* One delivery: an untaken position, the lowest one in strict order.      *)
Take(p) ==
    /\ p \in StreamPosition \ taken
    /\ InOrder => \A q \in StreamPosition \ taken : p <= q
    /\ taken' = taken \cup {p}
    /\ output' = Append(output, p)

StreamNext == \E p \in StreamPosition : Take(p)

StreamSpec == StreamInit /\ [][StreamNext]_<<taken, output>>
==============================================================================
