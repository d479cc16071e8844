\* Transactional unit of work; distinct keys; one failure (a commit error).
CONSTANTS
    q1 = q1
    q2 = q2
    q3 = q3
    k1 = k1
    k2 = k2
    k3 = k3
    NoKey = NoKey
    Requests <- MCRequests
    Keys <- MCKeys
    KindOf <- MCKinds
    KeyOf <- DistinctKeys
    MaxProductId = 2
    MaxAttempts = 1
    MaxFaults = 1
    ProductRepoInTx = TRUE
SPECIFICATION Spec
INVARIANT SuccessMeansCommitted
