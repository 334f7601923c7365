\* Two producers, two consumers, two slots, up to three positions, one of each
\* side may be killed: slots are reused and both counters are contended.
SPECIFICATION FairSpec
CONSTANTS
    Producer = {p1, p2}
    Consumer = {c1, c2}
    NoFrame = NoFrame
    Capacity = 2
    MaxPushes = 2
    MayDie = {p2, c2}
INVARIANTS ExclusiveFrame
PROPERTIES ImplementsFifo CallsReturn
