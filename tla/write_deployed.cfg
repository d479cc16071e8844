\* The deployed unit of work (metrics decorator around the product repository); distinct keys.
CONSTANTS
    q1 = q1
    q2 = q2
    q3 = q3
    k1 = k1
    k2 = k2
    k3 = k3
    NoKey = NoKey
    Requests <- MCRequests
    Keys <- MCKeys
    KindOf <- MCKinds
    KeyOf <- DistinctKeys
    MaxProductId = 6
    MaxAttempts = 3
    MaxFaults = 1
    ProductRepoInTx = FALSE
SPECIFICATION Spec
INVARIANT NoLostEvents
