SPECIFICATION Spec
CONSTANTS
    r1 = r1
    r2 = r2
    r3 = r3
    i1 = i1
    i2 = i2
    p1 = p1
    c1 = c1
    c2 = c2
    None = None
    Instances = {i1, i2}
    Requests = {r1, r2, r3}
    PgStreams = {p1}
    CsbStreams = {c1, c2}
    Scenes <- Day
    EventsTotal = 3
    MaxEvents = 2
    MaxDownloads = 1
    Window = 1
    MaxTime = 1
    MaxWrites = 2
SYMMETRY FreshIds
CHECK_DEADLOCK FALSE
INVARIANTS
    SeesWhatWasTold
    OneKeyPerStream
    LimitsHold
    UnconfirmedIsFirst
