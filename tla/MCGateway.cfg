\* Three calls over two references and two ids, one stop or crash, and a clock
\* that runs past the TTL of an entry recorded at its first reading.
CONSTANTS
    References = {k1, k2}
    PaymentIDs = {p1, p2}
    Requests   = {r1, r2, r3}
    None       = None
    TTL        = 1
    MaxTime    = 2
    MaxStops   = 1
SYMMETRY Symmetry
SPECIFICATION Spec
INVARIANTS
    TypeOK
    AnsweredIDsArePublished
    OnlyCreatedPublishes
    ProducerOutlivesHandlers
PROPERTIES
    LiveReferenceIsNotReissued
    LeaseSpec
