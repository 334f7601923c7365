--------------------------- MODULE MCProcessControl ---------------------------
(* Small pools, epochs, jobs and caches for what surrounds delivery.        *)
EXTENDS ProcessControl

Pool(engine, batches, restarts, initFails, routes) ==
    [engine |-> engine, batches |-> batches, restarts |-> restarts,
     initFails |-> initFails, routes |-> routes]

Pools ==
    {Pool("fallback", FALSE, TRUE, {1}, 2), Pool("native", TRUE, FALSE, {}, 1),
     Pool("native", FALSE, TRUE, {}, 2), Pool("fallback", TRUE, FALSE, {0}, 1)}

Plan(kind, depth, moves, loads) ==
    [kind |-> kind, depth |-> depth, moves |-> moves, loads |-> loads]

(* Whole batches and one sample at a time only where no epoch is set and no *)
(* state is loaded.                                                         *)
Plans ==
    {Plan("samples", 2, TRUE, TRUE), Plan("batches", 1, FALSE, FALSE),
     Plan("batches", 2, FALSE, FALSE), Plan("execute", 1, FALSE, FALSE)}

BatchPlans == {Plan("batches", 2, TRUE, FALSE)}

MovedPlans == {Plan("execute", 1, TRUE, FALSE)}

ResumedPlans == {Plan("execute", 1, FALSE, TRUE)}

Shallow == {Plan("samples", 1, FALSE, FALSE)}

Frontier(cores, depth, ceiling, batch, limited) ==
    [cores |-> cores, depth |-> depth, ceiling |-> ceiling, batch |-> batch,
     limited |-> limited]

Frontiers ==
    {Frontier(3, 2, 4, 1, FALSE), Frontier(2, 2, 2, 1, TRUE),
     Frontier(2, 3, 3, 2, FALSE)}

BatchFrontiers == {Frontier(2, 2, 2, 4, FALSE)}

(* Epochs that are whole and ones that leave a tail.                        *)
Job(n, exact, drop, enabled) ==
    [n |-> n, bg |-> 4, exact |-> exact, drop |-> drop, enabled |-> enabled]

Jobs == {Job(n, exact, drop, enabled) : n \in {3, 7, 8},
         exact \in BOOLEAN, drop \in BOOLEAN, enabled \in BOOLEAN}

ExactJobs == {Job(5, TRUE, FALSE, TRUE)}

Loader(drops, fails, table) == [drops |-> drops, fails |-> fails, table |-> table]

Loaders ==
    {Loader(FALSE, FALSE, TRUE), Loader(FALSE, FALSE, FALSE),
     Loader(TRUE, TRUE, FALSE)}

DroppingLoaders == {Loader(TRUE, FALSE, FALSE)}

FailingKeepers == {Loader(FALSE, TRUE, FALSE)}

Nobody == {}
===============================================================================
