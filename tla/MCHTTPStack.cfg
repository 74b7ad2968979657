\* One request: requests meet only in the clock, which runs past the expiry of a
\* token between any two of its steps.
CONSTANTS
    Requests    = {r1}
    RequestIDs  = {x1, x2}
    Subjects    = {merchant}
    Secrets     = {ours, Altered}
    JWTSecret   = ours
    Keys        = {k1, k2}
    APIKeys     = {k1}
    KeyLifetime = 1
    None        = None
    MaxTime     = 2
CHECK_DEADLOCK FALSE
SPECIFICATION FairSpec
INVARIANTS
    TypeOK
    LoggedStatusIsSent
    EveryAnswerNamesItsRequest
    OnlyTheAdmittedAreHandled
PROPERTY EveryRequestIsAnswered
