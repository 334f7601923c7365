\* One growth region beyond the plan, two reuses of every slot, two views
\* per delivery, and two writers of which either may be declared dead.
SPECIFICATION Spec
CONSTANTS
    Worker = {w1, w2}
    Size = {1, 5}
    Initial <- MCInitial
    StrictError = FALSE
    MaxRegions = 3
    MaxSlots = 2
    MaxReferences = 2
    MaxGeneration = 2
INVARIANTS ReservationsHold ViewsCounted PoisonCounted
