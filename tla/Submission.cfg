SPECIFICATION SubmissionSpec
CONSTANTS
    p1 = p1
    p2 = p2
    p3 = p3
    l1 = l1
    l2 = l2
    k1 = k1
    k2 = k2
    n1 = n1
    n2 = n2
    a1 = a1
    Persons = {p1, p2, p3}
    Keys = {k1, k2}
    Lists = {l1, l2}
    Requests = {r1, r2}
    Settings <- AllSettings
    MaxCandidates = 2
    MaxPersons = 2
    MaxLists = 2
    MaxRows = 2
    MaxEvents = 3
    Start <- Entered
    NoKey = NoKey
    Unborn = Unborn
    Deleted = Deleted
    NoList = NoList
    NoPerson = NoPerson
    Districts = {1, 2}
    Agents = {a1, a2}
    Substitutes = {s1}
    MaxSubstitutes = 1
    Registrations = {g1}
    Names = {n1, n2}
    NoName = NoName
    Unbound = Unbound
    Removed = Removed
    StartForm <- Filled
    StartRegistered <- Registry
    Scenes = {"name", "group", "lists"}
INVARIANTS
    CandidatesExist
    PositionsDistinct
    IdentitiesDistinct
    GateAgrees
PROPERTIES
    NothingLostUnseen
    FormsKeepTheRest
    BoundIsTakenOver
SYMMETRY Perms
CHECK_DEADLOCK FALSE
