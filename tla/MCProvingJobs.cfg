SPECIFICATION ProvingFairSpec
CONSTANTS
    u1 = u1
    u2 = u2
    j1 = j1
    j2 = j2
    None = None
    Users = {u1, u2}
    Jobs = {j1, j2}
    MaxStops = 1
INVARIANTS
    ProvingTypeOK
    PolledJobIsOwn
    LabelIsHonest
PROPERTIES
    JobsEnd
    PagesEnd
CHECK_DEADLOCK FALSE
