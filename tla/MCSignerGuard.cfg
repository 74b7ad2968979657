\* One call, one process.
CONSTANTS
    Requests      = {r1}
    Payments      = {p1}
    ChainNames    = {base}
    Transactions  = {t1}
    Providers    <- MCProviders
    Environments <- MCEnvironments
    None          = None
    MaxStarts     = 1
CHECK_DEADLOCK FALSE
SPECIFICATION Spec
INVARIANT StubSignsOnlyInDevelopment
