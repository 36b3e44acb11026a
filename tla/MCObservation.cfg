CONSTANTS
    w1 = w1
    w2 = w2
    u1 = u1
    u2 = u2
    a = a
    Workers <- MCWorkers
    Users <- MCUsers
    Monitors <- MCMonitors
    MonKinds <- MCMonKinds
    Watches <- MCWatches
    KindOf <- MCKindOf
    Fate <- MCFate
    Forever <- MCForever
    CallBytes = 1
    MaxUses = 2
    MaxCount <- MCMaxCount
    NoMonitor = NoMonitor
    NoReading = NoReading
SPECIFICATION Spec
INVARIANTS
    NoCallbackAfterUnregister
    OneFinishPerStart
    InFlightIsExact
    BusyWithinWall
    TotalsAreExact
PROPERTY ReadingsNeverShrink
SYMMETRY Symmetry
CHECK_DEADLOCK FALSE
