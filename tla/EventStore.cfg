SPECIFICATION FairSpec
CONSTANTS
    s1 = s1
    s2 = s2
    r1 = r1
    r2 = r2
    r3 = r3
    plain = plain
    recent = recent
    NoRequest = NoRequest
    Stores = {s1, s2}
    Requests = {r1, r2, r3}
    Kinds = {plain, recent}
    Host <- MCHost
    Reads <- MCReads
    Uses <- MCUses
    Attempts = 2
    MaxWrites <- MCMaxWrites
INVARIANTS
    ProjectionIsPrefix
    DecidedOnPredecessor
    NoAppendPastGap
    AnswersAreTrue
PROPERTIES
    ImplementsEventLog
    RequestsEnd
