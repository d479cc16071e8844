\* Two concurrent deletes of the product one create made, in transactions.
CONSTANTS
    q1 = q1
    q2 = q2
    q3 = q3
    k1 = k1
    k2 = k2
    k3 = k3
    NoKey = NoKey
    Requests <- MCRequests
    Keys <- MCKeys
    KindOf <- MCKindsTwoDeletes
    KeyOf <- DistinctKeys
    MaxProductId = 3
    MaxAttempts = 3
    MaxFaults = 3
    ProductRepoInTx = TRUE
SPECIFICATION FairSpec
INVARIANT TypeOK
INVARIANT SingleDeleteEvent
INVARIANT DeleteAtomicity
PROPERTY RequestsComplete
