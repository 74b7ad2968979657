\* Amounts of up to five characters, enough for a digit two places behind the
\* point and a space on either side of it; a digit there is read as zero.
CONSTANTS
    Underflow      = 2
    MaxLength      = 5
    EntryRequests <- MCEntryRequests
    ChainNames    <- MCChainNames
SPECIFICATION Spec
INVARIANTS
    TypeOK
    JournalTakesItsEntries
    RoutesFollowTheCatalog
    RouteIsFinalOnTime
