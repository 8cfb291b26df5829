SPECIFICATION Spec
CONSTANTS
    d1 = d1
    d2 = d2
    l1 = l1
    l2 = l2
    p1 = p1
    t1 = t1
    r1 = r1
    r2 = r2
    NoPerson = NoPerson
    NoPart = NoPart
    NoOmission = NoOmission
    Districts = {d1, d2}
    Lists = {l1, l2}
    Persons = {p1}
    Texts = {t1}
    Requests = {r1, r2}
    Submitted <- MCSubmitted
    MaxIds = 4
    Scenes <- Examination
SYMMETRY Symmetry
INVARIANTS
    DecidedAlikeIsOne
    UndisturbedDecisionHolds
    ScrappedFollowsDecisions
PROPERTIES
    DecisionsIndependent
    ProgressNeverGrows
CHECK_DEADLOCK FALSE
