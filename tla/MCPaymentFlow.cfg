\* Two calls with one reference, a clock that runs past its TTL, one stop or
\* crash of the gateway and one of the ledger.
\* The instance stops when both calls are answered and its bounds are used up.
CONSTANTS
    References     = {k1}
    PaymentIDs     = {p1, p2}
    Requests       = {r1, r2}
    None           = None
    TTL            = 1
    MaxTime        = 2
    MaxStops       = 1
    Replicas       = {i1}
    ThePartition   = created
    Partitions    <- MCPartitions
    Placement     <- MCPlacement
    MaxLedgerStops = 1
CHECK_DEADLOCK FALSE
SPECIFICATION FairFlowSpec
INVARIANTS
    SequentialClientPaysOnce
    WorkedAsPublished
PROPERTIES
    AnsweredPaymentIsWorked
    LedgerSpec
