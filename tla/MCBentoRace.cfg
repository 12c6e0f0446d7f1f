SPECIFICATION BentoSpec
CONSTANTS
    t1 = t1
    t2 = t2
    t3 = t3
    api = api
    other = other
    None = None
    Reaper = Reaper
    Provers = {t1, t2, t3}
    Procs = {api, other}
    ProcOf <- MCProcOf
    MaxNodes = 2
    MaxLookups = 2
    MaxStops = 0
    MaxDowns = 0
CHECK_DEADLOCK FALSE
INVARIANTS
    ProvingNodeIsUp
