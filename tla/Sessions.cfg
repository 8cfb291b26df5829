SPECIFICATION Spec
CONSTANTS
    b1 = b1
    b2 = b2
    g1 = g1
    g2 = g2
    m1 = m1
    e1 = e1
    e2 = e2
    Browsers = {b1, b2}
    Groups = {g1, g2}
    Members = {m1}
    Contexts = {e1, e2}
    Elections = {k1, k2}
    Requests = {r1, r2}
    Idle = 2
    Absolute = 3
    Ttl = 0
    MaxTabs = 2
    MaxCount = 2
    MaxRotations = 2
    Scenes <- AllScenes
    NoContext = NoContext
    NoUser = NoUser
    NoPage = NoPage
INVARIANTS
    SavesLandWhereRendered
    IdleSessionsExpire
    LoginsCountOnce
    LoginsAreOwn
PROPERTIES
    RemovedStaysRemoved
SYMMETRY Perms
CHECK_DEADLOCK FALSE
