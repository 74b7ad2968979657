\* One crash of the gateway, none of the ledger, no expiry.
CONSTANTS
    References     = {k1}
    PaymentIDs     = {p1, p2}
    Requests       = {r1, r2}
    None           = None
    TTL            = 1
    MaxTime        = 0
    MaxStops       = 1
    Replicas       = {i1}
    ThePartition   = created
    Partitions    <- MCPartitions
    Placement     <- MCPlacement
    MaxLedgerStops = 0
CHECK_DEADLOCK FALSE
SPECIFICATION FlowSpec
INVARIANT LedgerWorksReferenceOnce
