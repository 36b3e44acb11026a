SPECIFICATION Spec
CONSTANTS
    w1 = w1  r1 = r1  s1 = s1
    p1 = p1  p2 = p2  p3 = p3  p4 = p4  p5 = p5  p6 = p6
    Calls <- TheCalls
    Tasks <- TheTasks
    CallOf <- TheCallOf
    Parts <- TheParts
    Start <- TheStart
    PartSize = 1
    Workers = {k1, k2}
    Shortcut = {s1}
    Writes = {w1, s1}
    SyncWrites = {}
    Faults <- NoFaults
    NoTask = NoTask
    InitialSize = 1
    Clients = {c1}
    Overlapping = TRUE
INVARIANT CacheIsCurrent
