--------------------------- MODULE MCArenaAllocator ---------------------------
(* A standard class of two slots and an overflow class of one: a payload    *)
(* either fits the first or is larger than every class of the plan.         *)
EXTENDS ArenaAllocator

MCInitial == << [capacity |-> 2, slots |-> 2, overflow |-> FALSE],
                [capacity |-> 4, slots |-> 1, overflow |-> TRUE] >>
==============================================================================
