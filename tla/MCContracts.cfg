SPECIFICATION DeployedSpec
CONSTANTS
    w1 = w1
    w2 = w2
    c1 = c1
    c2 = c2
    n1 = n1
    a1 = a1
    m1 = m1
    vk1 = vk1
    mvk1 = mvk1
    image1 = image1
    image2 = image2
    None = None
    Wallets = {w1, w2}
    Attestors = {a1}
    Commitments = {c1, c2}
    Models = {m1}
    Nullifiers = {n1}
    IdentityVKs = {vk1}
    IdentityProofs <- MCIdentityProofs
    GroupScores <- MCGroupScores
    Images = {image1}
    Receipts <- MCReceipts
    ModelVKs = {mvk1}
    ModelProofs <- MCModelProofs
    SubmittedData <- MCSubmittedData
    MaxNow = 2
INVARIANTS
    ZkRecordIsProven
    RealTermsNeedBoundHuman
    OneHumanOneOffer
    RealTermsBeatThinFile
PROPERTIES
    OnlyNewerReplaces
