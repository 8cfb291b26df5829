SPECIFICATION Spec
CONSTANTS
    s1 = s1
    s2 = s2
    r1 = r1
    r2 = r2
    i1 = i1
    i2 = i2
    NoStream = NoStream
    NotCached = NotCached
    Streams = {s1, s2}
    Instances = {i1, i2}
    Requests = {r1, r2}
    InstanceOf <- TwoProcesses
    Payloads <- UpToTwo
    Scenes <- Afternoon
    MaxVotes = 1
    MaxDistricts = 1
    MaxName = 1
INVARIANTS
    OrderNamesEachOnce
    UndisturbedZipAgrees
PROPERTIES
    DeletionKeepsDrawnOrder
