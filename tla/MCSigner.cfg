\* Two calls and two processes with any two configurations.
\* The instance stops when both processes are gone.
CONSTANTS
    Requests      = {r1, r2}
    Payments      = {p1, p2}
    ChainNames    = {base}
    Transactions  = {t1, t2}
    Providers    <- MCProviders
    Environments <- MCEnvironments
    None          = None
    MaxStarts     = 2
SYMMETRY Symmetry
CHECK_DEADLOCK FALSE
SPECIFICATION Spec
INVARIANTS
    TypeOK
    SignedMeansPublished
    LocalProviderStaysInDevelopment
