SPECIFICATION FairVerifySpec
CONSTANTS
    Requests <- MCRequests
    Bounds <- MCBounds
    Faults <- MCFaults
    HeadcountPct = 20
    ArrMultiplier = 2
    FundingTenths = 11
    Year = 27
    PublicSuffix = {}
    Url <- MCUrl
    Concurrency = 2
    None = None
INVARIANTS
    TypeOK
    ReportSound
    NetworkNeverFatal
    PermitsRespected
    CitationsJudged
    FailuresExplained
PROPERTIES
    NothingSentAfter
    SilentWithoutClient
    VerifyAnswered
CHECK_DEADLOCK FALSE
