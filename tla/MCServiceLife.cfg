\* A process may run for ever; the instance stops when it is down.
CONSTANTS
    Services     <- MCServices
    Environments <- MCEnvironments
    Hosts        <- MCHosts
CHECK_DEADLOCK FALSE
SPECIFICATION FairSpec
INVARIANTS
    TypeOK
    EndingsHaveTheirCause
    ServicesDoNotCollide
PROPERTIES
    CutOffPassesWereLong
    CancelledLoopsStop
    ServersDoNotLinger
    StalledReadsEnd
