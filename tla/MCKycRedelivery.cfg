SPECIFICATION KycFlowSpec
CONSTANTS
    w1 = w1
    c1 = c1
    c2 = c2
    n1 = n1
    a1 = a1
    m1 = m1
    vk1 = vk1
    d1 = d1
    d2 = d2
    d3 = d3
    d4 = d4
    None = None
    Wallets = {w1}
    Attestors = {a1}
    Commitments = {c1, c2}
    Models = {m1}
    Nullifiers = {n1}
    IdentityVKs = {vk1}
    IdentityProofs = {}
    GroupScores = {}
    Calls = {d1, d2}
    Deliveries = {d1, d2}
    Event <- MCRedelivery
    Service = a1
    MaxCrashes = 0
INVARIANTS
    SameIdentityIsRecorded
