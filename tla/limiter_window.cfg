\* The sliding-window limiter: two clients, limit 2 per 2 ticks, sweeps and Stop at any time.
CONSTANTS
    c1 = c1
    c2 = c2
    Clients <- MCClients
    Limit = 2
    Window = 2
    MaxTime = 4
SYMMETRY MCSymmetry
SPECIFICATION Spec
INVARIANT TypeOK
INVARIANT WindowLimit
PROPERTY RefuseOnlyAtLimit
