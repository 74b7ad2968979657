\* The instance stops when both records are committed and its bounds are used up.
\* Two replicas share two partitions and two records; one stop, crash or lost
\* subscription and one rebalance fall anywhere.
CONSTANTS
    Replicas   = {i1, i2}
    Partitions = {created, confirmed}
    Events     = {event}
    None       = None
    MaxRecords = 2
    MaxStops   = 1
    MaxMoves   = 1
CHECK_DEADLOCK FALSE
SPECIFICATION FairSpec
INVARIANTS
    TypeOK
    CommittedWasWorked
    WorkedInOrder
PROPERTIES
    OncePerProcess
    EveryRecordIsCommitted
