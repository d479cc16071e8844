\* One worker, three rows, a batch of two, one semaphore slot, one retry.
CONSTANTS
    r1 = r1
    r2 = r2
    r3 = r3
    w1 = w1
    w2 = w2
    Rows <- MCRows
    Workers <- MCOneWorker
    BatchSize = 2
    Concurrency = 1
    MaxRetries = 1
    MaxFaults = 2
    MaxRestarts = 1
SPECIFICATION FairSpec
INVARIANT TypeOK
INVARIANT PublishedImpliesDelivered
PROPERTY PendingEventuallyResolved
PROPERTY LifecycleRefined
