SPECIFICATION ProvingSpec
CONSTANTS
    u1 = u1
    u2 = u2
    j1 = j1
    j2 = j2
    None = None
    Users = {u1}
    Jobs = {j1}
    MaxStops = 0
PROPERTIES
    SavedResultStands
CHECK_DEADLOCK FALSE
