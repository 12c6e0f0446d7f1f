SPECIFICATION IdentitySpec
CONSTANTS
    w1 = w1
    w2 = w2
    w3 = w3
    c1 = c1
    c2 = c2
    n1 = n1
    n2 = n2
    a1 = a1
    m1 = m1
    vk1 = vk1
    vk2 = vk2
    None = None
    Wallets = {w1, w2, w3}
    Attestors = {a1}
    Commitments = {c1, c2}
    Models = {m1}
    Nullifiers = {n1, n2}
    IdentityVKs = {vk1, vk2}
    IdentityProofs <- MCProofs
    GroupScores <- MCGroupScores
INVARIANTS
    WITypeOK
    MemberCountExact
    ScoredGroupHasMember
    KycFlagBacked
    BoundKycIsRead
PROPERTIES
    JoinIsProven
    ImplementsIdentityGroups
