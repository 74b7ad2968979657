\* Two replicas, one record, one crash: the record comes again to the next
\* process of its replica or to the other replica.
\* The instance stops when the record is committed and its bounds are used up.
CONSTANTS
    Replicas   = {i1, i2}
    Partitions = {created}
    Events     = {event}
    None       = None
    MaxRecords = 1
    MaxStops   = 1
    MaxMoves   = 0
CHECK_DEADLOCK FALSE
SPECIFICATION Spec
INVARIANT EachRecordIsWorkedOnce
