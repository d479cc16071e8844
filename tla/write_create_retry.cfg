\* Unit of work with the product repository bound to the transaction; distinct keys; failed statements retried.
CONSTANTS
    q1 = q1
    q2 = q2
    q3 = q3
    k1 = k1
    k2 = k2
    k3 = k3
    NoKey = NoKey
    Requests <- MCRequests
    Keys <- MCKeys
    KindOf <- MCKinds
    KeyOf <- DistinctKeys
    MaxProductId = 6
    MaxAttempts = 3
    MaxFaults = 3
    ProductRepoInTx = TRUE
SPECIFICATION Spec
PROPERTY AtomicWriteRefined
