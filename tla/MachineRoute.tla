------------------------------ MODULE MachineRoute ------------------------------
(***************************************************************************)
(* control/machine_keeping.py and control/interrupts.py: where the machine *)
(* keeper runs and when it is asked to.  The keeper belongs to the loader; *)
(* every iterator measures its own gaps and reads its own baseline of the  *)
(* interrupt table.  MachineKeeper models what a keeper does with the      *)
(* requests.                                                               *)
(***************************************************************************)
EXTENDS Integers, FiniteSets

CONSTANTS
    Cpus,               \* logical CPUs
    GaplessLimit,       \* f_cad_b * hysteresis, and f_cad_s * hysteresis in ticks
    RouteCadence        \* f_cad_b, and f_cad_s in ticks

VARIABLE route

None == [none |-> TRUE]

AtMost(n, bound) == IF n < bound THEN n ELSE bound

(* A keeper that was made has been asked for nothing.                      *)
NewKeeper(cpus) == [cpus |-> cpus, asked |-> "nothing"]

(* AcceleratorInterruptRoute.discover: the baseline is the table of now.   *)
Discovered == [cores |-> {}, since |-> {}]

(* MachineKeepingIterator.__init__.  config: whether an iterator may be    *)
(* dropped, whether a keeper may fail to start, whether there is a table.  *)
NewIterator(s) ==
    [cores |-> s.interrupts, consumer |-> s.cpu, gap |-> s.delivered,
     gapless |-> 0, elapsed |-> -1, table |-> Discovered, state |-> "live"]

(* elapsed: the time since _machine_keeper_route_refresh_ns, -1 for zero.  *)
RouteInit(config) ==
    \E cpu \in Cpus :
        route = [config |-> config, cpu |-> cpu, keeper |-> None, open |-> 0,
                 interrupts |-> {}, elapsed |-> -1, batches |-> 0,
                 delivered |-> FALSE, it |-> None, calling |-> FALSE,
                 short |-> 0, quiet |-> 0, expected |-> FALSE]

RouteUnused == route = None

-----------------------------------------------------------------------------
(* The route: the CPUs of the accelerator's interrupts and of the consumer.*)

(* _route_refresh_due, once its time has been set.                         *)
Due(s) == s.elapsed = RouteCadence /\ s.batches >= RouteCadence

(* AcceleratorInterruptRoute.refresh: the cores with new interrupts, or    *)
(* those there were before.                                                *)
Refreshed(table) ==
    [cores |-> IF table.since # {} THEN table.since ELSE table.cores, since |-> {}]

(* _target_cpus, its effects: only when forced or due.                     *)
Targeted(s, force) ==
    LET table == Refreshed(s.it.table)
        cores == IF s.config.table THEN table.cores ELSE {}
    IN  IF ~force /\ ~Due(s) THEN s
        ELSE [s EXCEPT !.it.table = table, !.it.cores = cores,
                       !.it.consumer = s.cpu, !.interrupts = cores,
                       !.elapsed = 0, !.batches = 0]

Target(s) == s.it.cores \cup {s.it.consumer}

(* Seeded defect: the keeper that is replaced goes on.                     *)
Abandoned(s) ==
    IF Target(s) = s.keeper.cpus THEN s
    ELSE [s EXCEPT !.keeper = NewKeeper(Target(s)), !.open = @ + 1]

(* _replace_keeper: the new one runs before the old one is closed.         *)
Replaced(s) ==
    IF Target(s) = s.keeper.cpus THEN s
    ELSE [s EXCEPT !.keeper = NewKeeper(Target(s))]

(* _ensure_keeper.                                                         *)
Ensured(s) ==
    LET t == Targeted(s, s.keeper = None)
    IN  IF t.keeper # None THEN Replaced(t)
        ELSE [t EXCEPT !.keeper = NewKeeper(Target(t)), !.open = @ + 1]

Asked(s, request) ==
    IF s.keeper = None THEN s ELSE [s EXCEPT !.keeper.asked = request]

-----------------------------------------------------------------------------
(* The steps of __next__ before the wrapped iterator is called.            *)

Begun(s) ==
    LET due == s.elapsed = -1
        t == IF s.keeper = None THEN s
             ELSE IF due THEN [s EXCEPT !.elapsed = 0]
             ELSE IF Due(s) THEN Replaced(Targeted(s, FALSE)) ELSE s
    IN  t

LongGap(s) ==
    LET t == Asked(Ensured(s), "gap")
    IN  [t EXCEPT !.it.gapless = 0, !.it.elapsed = -1, !.short = 0, !.quiet = 0]

AtLimit(it) == it.gapless >= GaplessLimit /\ it.elapsed >= GaplessLimit

(* Seeded defect: a short gap starts the count again.                      *)
Recounted(it) == [it EXCEPT !.gapless = 1, !.elapsed = IF @ = -1 THEN 0 ELSE @]

Counted(it) ==
    [it EXCEPT !.gapless = AtMost(@ + 1, GaplessLimit),
               !.elapsed = IF @ = -1 THEN 0 ELSE @]

ShortGap(s) ==
    LET t == IF s.keeper = None THEN s
             ELSE [s EXCEPT !.it = Counted(@),
                            !.short = AtMost(@ + 1, GaplessLimit)]
    IN  IF s.keeper # None /\ AtLimit(t.it) THEN Asked(t, "park") ELSE t

Measured(s, long) ==
    IF ~s.it.gap THEN s ELSE IF long THEN LongGap(s) ELSE ShortGap(s)

CallNext(long) ==
    LET s == route
    IN  /\ s.it # None /\ s.it.state = "live" /\ ~s.calling
        /\ LET t == Measured(Begun(s), long)
           IN  route' = [t EXCEPT !.calling = TRUE, !.expected =
                   t.short = GaplessLimit /\ t.quiet = GaplessLimit]

(* _new_keeper raises: the caller sees it before anything is asked.        *)
KeeperFails(long) ==
    LET s == route
        begun == Begun(s)
        after == Measured(begun, long)
    IN  /\ s.config.fails
        /\ s.it # None /\ s.it.state = "live" /\ ~s.calling
        /\ IF s.keeper = None THEN after.keeper # None
           ELSE after.keeper.cpus # s.keeper.cpus
        /\ route' = [s EXCEPT !.it.state = "raised"]

(* The wrapped iterator answers: a value, its end, or an error.            *)
Answer ==
    LET s == route
    IN  /\ s.calling
        /\ \/ route' = [s EXCEPT !.calling = FALSE, !.it.gap = TRUE,
                                 !.delivered = TRUE,
                                 !.batches = AtMost(@ + 1, RouteCadence)]
           \/ route' = [Asked(s, "defer") EXCEPT !.calling = FALSE,
                                                 !.it.state = "ended"]
           \/ route' = [Asked(s, "park") EXCEPT !.calling = FALSE,
                                                !.it.state = "raised"]

-----------------------------------------------------------------------------
(* The loader and the machine.                                             *)

(* invalidate.                                                             *)
Invalidated(s) ==
    IF s.it # None THEN Asked(s, "park") ELSE s

Closed(s) ==
    [Invalidated(s) EXCEPT !.it = None, !.keeper = None,
        !.open = IF s.keeper = None THEN @ ELSE @ - 1, !.interrupts = {},
        !.elapsed = -1, !.batches = 0, !.delivered = FALSE,
        !.short = 0, !.quiet = 0]

(* DataLoader.__iter__: an iterator that is not complete closes the loader *)
(* first, one that is leaves its keeper to the next.                       *)
Iterate ==
    LET s == IF route.it # None /\ route.it.state # "ended"
             THEN Closed(route) ELSE route
    IN  /\ ~route.calling
        /\ route' = [s EXCEPT !.it = NewIterator(s), !.short = 0, !.quiet = 0]

Close ==
    /\ ~route.calling
    /\ route' = Closed(route)

(* The consumer forgets its iterator, to which the loader has only a weak  *)
(* reference: nobody is told.                                              *)
Drop ==
    /\ route.config.drops /\ ~route.calling
    /\ route.it # None /\ route.it.state = "live"
    /\ route' = [route EXCEPT !.it = None]

Migrate(cpu) == route' = [route EXCEPT !.cpu = cpu]

Interrupt(cpu) ==
    /\ route.it # None /\ route.config.table
    /\ route' = [route EXCEPT !.it.table.since = @ \cup {cpu}]

Aged(it) ==
    [it EXCEPT !.elapsed = IF @ = -1 THEN @ ELSE AtMost(@ + 1, GaplessLimit)]

(* A tick of the clock, while the keeper has something to count.           *)
Tick ==
    /\ route' = [route EXCEPT
           !.elapsed = IF @ = -1 THEN @ ELSE AtMost(@ + 1, RouteCadence),
           !.quiet = IF route.short > 0 THEN AtMost(@ + 1, GaplessLimit) ELSE @,
           !.it = IF @ = None THEN @ ELSE Aged(@)]

RouteNext ==
    \/ \E long \in BOOLEAN : CallNext(long) \/ KeeperFails(long)
    \/ Answer \/ Iterate \/ Close \/ Drop \/ Tick
    \/ \E cpu \in Cpus : Migrate(cpu) \/ Interrupt(cpu)

-----------------------------------------------------------------------------

Rests(s) ==
    s.keeper # None /\ s.keeper.asked = "gap" =>
        s.it # None /\ s.it.state = "live" /\ ~(s.calling /\ s.expected)

(* control/machine_keeping.py:189, "Park machine keeping and invalidate    *)
(* the wrapped iterator": a keeper that nobody feeds is not left at work.  *)
(* Its last request is to park, at once or later, whenever no iterator     *)
(* lives, and after enough short gaps for long enough, through every       *)
(* change of route, as long as no iterator is dropped unfinished and every *)
(* keeper starts; and the loader never has two keepers.                    *)
KeeperRests ==
    /\ route.open = (IF route.keeper = None THEN 0 ELSE 1)
    /\ ~route.config.drops /\ ~route.config.fails => Rests(route)

(* The same of every loader.                                               *)
KeeperAlwaysRests == Rests(route)

(* control/interrupts.py:31, "Return cores with positive interrupt deltas, *)
(* retaining the last live route": while the loader is open, interrupts    *)
(* that were routed to are not forgotten.                                  *)
RouteRetained ==
    [][route # None /\ route'.keeper # None /\ route.keeper # None =>
        (route.interrupts # {} => route'.interrupts # {})]_route
===============================================================================
