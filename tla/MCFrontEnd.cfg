SPECIFICATION FairSpec
CONSTANTS
    w1 = w1
    w2 = w2
    c1 = c1
    None = None
    Wallets <- MCWallets
    Commitments <- MCCommitments
    MaxTxs = 2
    MaxConnects = 2
    MaxAnswers = 2
    ApiFails = TRUE
    LendingDeployed = TRUE
    DefaultTerms = DefaultTerms
INVARIANTS
    FrontTypeOK
    ProgressIsHonest
    PageIsOfOneWallet
    KnownFailureStaysOut
    VerifiedIsEarned
    NoTermsOfAnother
    ResultsAreOfOneAddress
    OneFrameWhenSeen
PROPERTIES
    FlowsRest
    PollingEnds
