SPECIFICATION FairSpec
CONSTANTS
    p1 = p1
    p2 = p2
    wrong = wrong
    right = right
    a1 = a1
    a2 = a2
    k1 = k1
    k2 = k2
    k3 = k3
    i1 = i1
    i2 = i2
    m1 = m1
    mismatch = mismatch
    Unborn = Unborn
    Deleted = Deleted
    NoDelta = NoDelta
    Unchecked = Unchecked
    NoPerson = NoPerson
    Persons = {p1, p2}
    Values = {wrong, right}
    Rest = {a1, a2}
    Imported <- OneAndUnborn
    Finds <- OneFinds
    Tasks = {k1, k2, k3}
    InstanceOf <- TwoProcesses
    Members = {m1}
    Singles = {m1}
    BatchSize = 1
    Attempts = 2
    Plans <- Sweeps
INVARIANTS
    SweptIsCurrent
PROPERTIES
    HandledStays
    FinishedMeansConsulted
    SweepsEnd
CHECK_DEADLOCK FALSE
