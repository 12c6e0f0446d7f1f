SPECIFICATION ServiceFairSpec
CONSTANTS
    w1 = w1
    w2 = w2
    c1 = c1
    c2 = c2
    n1 = n1
    a1 = a1
    m1 = m1
    vk1 = vk1
    d1 = d1
    r1 = r1
    r2 = r2
    r3 = r3
    None = None
    Wallets = {w1}
    Attestors = {a1}
    Commitments = {c1}
    Models = {m1}
    Nullifiers = {n1}
    IdentityVKs = {vk1}
    IdentityProofs <- MCProofs
    GroupScores <- MCGroupScores
    Calls = {d1, r1, r2}
    Deliveries = {d1}
    Event <- MCEvent
    Service = a1
    MaxCrashes = 1
    Rescores = {r1, r2}
    UnionBucket <- MCUnionBucket
    CurrentModel = m1
INVARIANTS
    ServiceTypeOK
    AttestorCertifiesOnlyBound
PROPERTIES
    JoinIsFollowedUp
