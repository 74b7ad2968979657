\* No crash and no expiry: the references of two overlapping calls.
CONSTANTS
    References = {k1}
    PaymentIDs = {p1, p2}
    Requests   = {r1, r2}
    None       = None
    TTL        = 1
    MaxTime    = 1
    MaxStops   = 0
SPECIFICATION Spec
INVARIANT OnePaymentPerReference
