SPECIFICATION BentoFairSpec
CONSTANTS
    t1 = t1
    t2 = t2
    t3 = t3
    api = api
    other = other
    None = None
    Reaper = Reaper
    Provers = {t1, t2, t3}
    Procs = {api, other}
    ProcOf <- MCProcOf
    MaxNodes = 2
    MaxLookups = 2
    MaxStops = 1
    MaxDowns = 1
CHECK_DEADLOCK FALSE
INVARIANTS
    BentoTypeOK
    OneSession
    OneNode
    TunnelledNodeIsKnown
PROPERTIES
    SessionsEnd
