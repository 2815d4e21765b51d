SPECIFICATION Spec
CONSTANTS
    Requests <- MCRequests
    Bounds <- MCBounds
    Faults <- MCFaults
    HeadcountPct = 20
    ArrMultiplier = 2
    FundingTenths = 11
    Year = 27
    PublicSuffix <- MCPublicSuffix
    None = None
INVARIANTS
    TypeOK
    HighIsEarned
    DowngradeMeasured
    OrderIrrelevant
CHECK_DEADLOCK FALSE
