\* Two calls, one stop or crash; no symmetry, because of the liveness properties.
CONSTANTS
    References = {k1, k2}
    PaymentIDs = {p1}
    Requests   = {r1, r2}
    None       = None
    TTL        = 1
    MaxTime    = 3
    MaxStops   = 1
SPECIFICATION FairSpec
PROPERTIES
    EveryRequestIsAnswered
    ExpiredEntriesAreReclaimed
