SPECIFICATION Spec
CONSTANTS
    None = None
    EpochsPerPeriod = 2
    PrefetchLookahead = 1
    SlotTicks = 3
    SlotsPerEpoch = 2
    GloasEpoch = 1
    Deadlines <- Schedule
    MaxSlot = 2
    Skews <- SkewSet
    MaxEvents = 2
INVARIANTS
    SLTypeOK
    OneHeadPerSlot
    DutiesFresh
PROPERTIES
    SlotsAdvance
    ShutdownStops
CHECK_DEADLOCK FALSE
