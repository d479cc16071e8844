\* One worker, no retries (MaxRetries = 0): the only setting in which the DLQ is reachable.
CONSTANTS
    r1 = r1
    r2 = r2
    r3 = r3
    w1 = w1
    w2 = w2
    Rows <- MCRows
    Workers <- MCOneWorker
    BatchSize = 2
    Concurrency = 2
    MaxRetries = 0
    MaxFaults = 3
    MaxRestarts = 1
SPECIFICATION Spec
INVARIANT DLQConsistency
