\* Transactional unit of work; the client replays its create with the same key while the first is in flight.
CONSTANTS
    q1 = q1
    q2 = q2
    q3 = q3
    k1 = k1
    k2 = k2
    k3 = k3
    NoKey = NoKey
    Requests <- MCRequests
    Keys <- MCKeys
    KindOf <- MCKinds
    KeyOf <- ReplayedKey
    MaxProductId = 6
    MaxAttempts = 3
    MaxFaults = 3
    ProductRepoInTx = TRUE
SPECIFICATION FairSpec
PROPERTY RequestsComplete
