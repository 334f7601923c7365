--------------------------- MODULE MCLoaderRuntimes ---------------------------
(* Small epochs for every runtime, with a last batch that is not full.      *)
EXTENDS LoaderRuntimes, TLC

ShorterSecond == 0 :> 5 @@ 1 :> 2

Source(stateful, cadence, growing, dropLast) ==
    [stateful |-> stateful, cadence |-> cadence, growing |-> growing,
     dropLast |-> dropLast]

Sources ==
    {Source(TRUE, 1, FALSE, FALSE), Source(TRUE, 2, FALSE, TRUE),
     Source(TRUE, 0, FALSE, FALSE), Source(TRUE, 1, TRUE, FALSE),
     Source(FALSE, 1, FALSE, FALSE)}

Orders == [onCompletion : BOOLEAN]

Pipelines == [pinned : BOOLEAN, probeFails : BOOLEAN]

Way(kind, pooled, dropLast, staged) ==
    [kind |-> kind, pooled |-> pooled, dropLast |-> dropLast, staged |-> staged]

Ways ==
    {Way("native", FALSE, TRUE, FALSE), Way("tensor", FALSE, FALSE, FALSE),
     Way("sampler", FALSE, FALSE, FALSE), Way("sampler", TRUE, TRUE, FALSE),
     Way("batches", FALSE, FALSE, FALSE), Way("batches", TRUE, FALSE, FALSE)}

(* With num_workers=0 and staging to pinned memory.                         *)
Staged == {Way("native", FALSE, FALSE, TRUE)}

Own == <<1, 2, 3, 4, 5>>

Yields == {Own, <<2, 1, 3, 4, 5>>, <<1, 2, 4, 3>>}
===============================================================================
