---------------------------- MODULE CalibrationStore ----------------------------
(***************************************************************************)
(* The calibration of a machine: what control/cache.py keeps on disk and   *)
(* gives back, which payloads control/record.py and control/machine.py     *)
(* accept, the shipped prior of control/priors.py, and the losses          *)
(* control/objective.py reads off the curves.  Losses are in steps of      *)
(* 1/Whole.                                                                *)
(***************************************************************************)
EXTENDS Integers, Sequences, FiniteSets, FiniteSetsExt

CONSTANTS
    Machines,           \* hardware identities
    PriorMachines,      \* those the shipped prior matches
    Savers,             \* processes that calibrate
    Whole,              \* a loss of 1.0
    MaxWidth,           \* widths and rates that are scored
    MaxSaves            \* bound on saves and foreign files

VARIABLE store

None == [none |-> TRUE]

Schema == 3

Point(at, loss) == [at |-> at, loss |-> loss]

Curve(shape, provenance, points) ==
    [shape |-> shape, provenance |-> provenance, points |-> points]

-----------------------------------------------------------------------------
(* Payloads.  Scalars are the costs, the taxes, the source and the time.   *)
(* lacks: a key that is read with [] is missing.                           *)

(* A point per core count of the measured grid 1, 2, 4.                    *)
Grid == <<1, 2, 4>>

GridCurve(shape) ==
    Curve(shape, "measured", [i \in 1 .. 3 |-> Point(Grid[i], i)])

Payload(machine) ==
    [machine |-> machine, key |-> machine, schema |-> Schema, lacks |-> FALSE,
     scalars |-> TRUE, steal |-> <<GridCurve("compute"), GridCurve("stream")>>,
     bandwidth |-> <<Point(0, 0), Point(2, 1)>>]

(* Payloads that are almost this one: an older schema, whose curves had no *)
(* provenance or had one, another machine's, curves that are short, out of *)
(* order, doubled, off the grid or lose everything.                        *)
Derived(points) == Curve("compute", "derived-prior", points)

Variants(machine) ==
    LET p == Payload(machine)
        stream == GridCurve("stream")
    IN  {p, [p EXCEPT !.schema = 2], [p EXCEPT !.schema = 2, !.lacks = TRUE],
         [p EXCEPT !.scalars = FALSE], [p EXCEPT !.steal = <<stream>>],
         [p EXCEPT !.steal = @ \o <<stream>>],
         [p EXCEPT !.steal[1].points = <<Point(1, 0), Point(3, 1)>>],
         [p EXCEPT !.bandwidth = <<Point(0, 0), Point(0, 1)>>]}
        \cup {[p EXCEPT !.machine = m] : m \in Machines}
        \cup {[p EXCEPT !.machine = m, !.key = m] : m \in Machines}
        \cup {[p EXCEPT !.steal = <<Derived(points), stream>>] : points \in
                {<<Point(2, 1)>>, <<Point(2, 0), Point(4, 1)>>,
                 <<Point(2, 0), Point(2, 1), Point(4, 2)>>,
                 <<Point(4, 0), Point(1, 1)>>, <<Point(1, 0), Point(4, Whole)>>}}

(* The shipped prior is made of the machine it is asked for.               *)
SparkPrior(machine) ==
    [Payload(machine) EXCEPT
        !.steal[1] = Derived(<<Point(1, 0), Point(4, 2)>>)]

(* Seeded defect: coordinates may repeat.                                  *)
SortedPoints(points) ==
    /\ Len(points) >= 2
    /\ \A i \in 1 .. Len(points) - 1 : points[i].at <= points[i + 1].at

(* _validate_points and _validate_loss.                                    *)
ValidPoints(points) ==
    /\ Len(points) >= 2
    /\ \A i \in 1 .. Len(points) - 1 : points[i].at < points[i + 1].at

ValidLosses(points) == \A i \in DOMAIN points : points[i].loss \in 0 .. Whole - 1

(* StealCurve.__post_init__.                                               *)
ValidCurve(curve) ==
    /\ curve.shape \in {"compute", "stream"}
    /\ ValidPoints(curve.points) /\ ValidLosses(curve.points)
    /\ curve.provenance \in {"measured", "derived-prior"}
    /\ curve.provenance = "measured" =>
           [i \in DOMAIN curve.points |-> curve.points[i].at] = Grid

(* CalibrationRecord.__post_init__ and the checks of from_dict.            *)
ValidRecord(p) ==
    /\ p.key = p.machine
    /\ \A i \in DOMAIN p.steal : ValidCurve(p.steal[i])
    /\ Cardinality({p.steal[i].shape : i \in DOMAIN p.steal}) = Len(p.steal)
    /\ {p.steal[i].shape : i \in DOMAIN p.steal} = {"compute", "stream"}
    /\ ValidPoints(p.bandwidth) /\ ValidLosses(p.bandwidth)
    /\ p.scalars /\ p.schema = Schema

-----------------------------------------------------------------------------
(* ControllerObjective.  A loss is a fraction over the span it lies in.    *)

Segment(points, at) ==
    CHOOSE i \in 2 .. Len(points) :
        at <= points[i].at /\ \A j \in 2 .. i - 1 : at > points[j].at

Interpolated(points, at) ==
    LET last == Len(points)
        right == points[Segment(points, at)]
        left == points[Segment(points, at) - 1]
        span == right.at - left.at
    IN  IF at <= points[1].at THEN [over |-> points[1].loss, span |-> 1]
        ELSE IF at > points[last].at THEN [over |-> points[last].loss, span |-> 1]
        ELSE [over |-> left.loss * span + (at - left.at) * (right.loss - left.loss),
              span |-> span]

Sound(points) ==
    LET losses == {points[i].loss : i \in DOMAIN points}
    IN  /\ \A i \in 2 .. Len(points) : points[i].at > points[i - 1].at
        /\ \A at \in 0 .. MaxWidth :
           LET value == Interpolated(points, at)
           IN  /\ Min(losses) * value.span <= value.over
               /\ value.over <= Max(losses) * value.span
               /\ value.over < Whole * value.span

-----------------------------------------------------------------------------
(* The cache.  The path of a file is the key of its machine.               *)

File(payload, whole) == [payload |-> payload, whole |-> whole]

StoreInit ==
    store = [disk |-> [m \in Machines |-> None],
             savers |-> [s \in Savers |-> None],
             saved |-> [m \in Machines |-> FALSE],
             resolved |-> [m \in Machines |-> None], raised |-> FALSE, spent |-> 0]

StoreUnused == store = None

(* save_calibration: a temporary file of its own, written, then renamed.   *)
BeginSave(s, m) ==
    /\ store.savers[s] = None /\ store.spent < MaxSaves
    /\ store' = [store EXCEPT !.spent = @ + 1, !.savers[s] =
           [machine |-> m, file |-> File(Payload(m), FALSE)]]

Write(s) ==
    /\ store.savers[s] # None /\ ~store.savers[s].file.whole
    /\ store' = [store EXCEPT !.savers[s].file.whole = TRUE]

(* An error unlinks the temporary, a crash leaves it where nothing looks.  *)
GiveUp(s) ==
    /\ store.savers[s] # None
    /\ store' = [store EXCEPT !.savers[s] = None]

(* Seeded defect: the rename comes before the file is closed.              *)
Opened(saver) == TRUE

Written(saver) == saver.file.whole

Replace(s) ==
    LET saver == store.savers[s]
    IN  /\ saver # None /\ Written(saver)
        /\ store' = [store EXCEPT !.savers[s] = None,
               !.disk[saver.machine] = saver.file,
               !.saved[saver.machine] = TRUE]

(* Another version, a copied cache or a disk that lost the data.           *)
Foreign(m) ==
    /\ store.spent < MaxSaves
    /\ \E payload \in Variants(m), whole \in BOOLEAN :
           store' = [store EXCEPT !.spent = @ + 1, !.saved[m] = FALSE,
                                  !.disk[m] = File(payload, whole)]

(* load_calibration.                                                       *)
Loaded(m) ==
    LET file == store.disk[m]
    IN  IF file = None \/ ~file.whole THEN None
        ELSE IF ValidRecord(file.payload) /\ file.payload.machine = m
        THEN file.payload ELSE None

(* from_dict reads a curve's provenance before it looks at the schema, and *)
(* what it raises then is no ValueError.                                   *)
Raises(m) ==
    LET file == store.disk[m]
    IN  /\ file # None /\ file.whole
        /\ file.payload.key = file.payload.machine /\ file.payload.lacks

(* resolve_calibration: the cache, then the prior, then nothing.           *)
Resolve(m) ==
    LET prior == IF m \in PriorMachines THEN SparkPrior(m) ELSE None
    IN  store' = IF Raises(m) THEN [store EXCEPT !.raised = TRUE]
                 ELSE [store EXCEPT !.resolved[m] =
                          IF Loaded(m) # None THEN Loaded(m) ELSE prior]

StoreNext ==
    \/ \E s \in Savers : (\E m \in Machines : BeginSave(s, m))
                         \/ Write(s) \/ GiveUp(s) \/ Replace(s)
    \/ \E m \in Machines : Foreign(m) \/ Resolve(m)

-----------------------------------------------------------------------------

(* control/record.py:119, "Machine-keyed curves used by the resource       *)
(* controller": whatever the cache holds, what is resolved for a machine   *)
(* is its own, and at every width and rate its losses can be scored, lie   *)
(* between those that were measured and stay below one.                    *)
CurvesUsable ==
    \A m \in Machines : store.resolved[m] # None =>
        /\ store.resolved[m].machine = m
        /\ Sound(store.resolved[m].bandwidth)
        /\ \A i \in DOMAIN store.resolved[m].steal :
               Sound(store.resolved[m].steal[i].points)

(* control/cache.py:29, "Atomically persist one validated calibration      *)
(* record": once a machine was calibrated, whatever becomes of later       *)
(* saves, its measured record is what the next loader gets.                *)
MeasuredKept ==
    \A m \in Machines : store.saved[m] => Loaded(m) = Payload(m)

(* control/runtime.py:18, "Load the current machine's record or its        *)
(* narrowly matched measured prior": a loader is not refused for what is   *)
(* in the cache.                                                           *)
ResolveAnswers == ~store.raised
===============================================================================
