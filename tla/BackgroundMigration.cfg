SPECIFICATION Spec
CONSTANTS
    Scenes <- MCProber
    Instances = {i1, i2}
    Callers = {c1}
    Tables = 2
    Keys = {"k1", "k2"}
    Offers <- MCOffers
    MinInterval = 2
    MaxInterval = 4
    MinAge = 3
    DefaultAge = 4
    MaxAge = 5
    Skew = 1
PROPERTIES
    MigratedOnRecovery
