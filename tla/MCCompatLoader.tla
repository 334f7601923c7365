--------------------------- MODULE MCCompatLoader ---------------------------
(* Two lanes of different lengths, and the constructions of interest.       *)
EXTENDS CompatLoader, TLC

LaneLength == 0 :> 1 @@ 1 :> 3

Construction(iterable, inOrder, persistent, resumable) ==
    [iterable |-> iterable, inOrder |-> inOrder, persistent |-> persistent,
     resumable |-> resumable, timed |-> ~persistent]

\* Lanes that deliver in any order: one ends before the limit can be shared.
UnevenLength == 0 :> 1 @@ 1 :> 3 @@ 2 :> 3
Unordered == {Construction(TRUE, FALSE, FALSE, FALSE)}

Considered ==
    {Construction(FALSE, TRUE, TRUE, TRUE), Construction(FALSE, TRUE, FALSE, TRUE),
     Construction(TRUE, FALSE, TRUE, FALSE), Construction(TRUE, TRUE, FALSE, FALSE)}
===============================================================================
