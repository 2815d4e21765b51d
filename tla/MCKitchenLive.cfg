SPECIFICATION FairSpec
CONSTANTS
    r1 = r1
    r2 = r2
    r3 = r3
    exa = exa
    other = other
    Request = {r1, r2}
    Skill = {"scout"}
    NoSkill = "nobody"
    Body <- OneCompany
    Provider = {exa}
    Edition = {1}
    Cap = 1
    RecordedUsd = 0
    OldUsd = {1}
    Shaken = {}
    Registered <- FundingExaOther
    Equipped = {exa, other}
    Mistyped = {other}
    Selection = {exa, other}
    RedisUrl = "set"
    FactTtl = 1
    StaticTtl = 2
    ForeignTtl <- NoEnd
    MaxLate = 0
    Garbage = Garbage
    Alien = Alien
    None = None
    Dsn = "set"
    PoolSize = 1
    Window = 1
    Horizon = 0
PROPERTIES
    EveryRequestAnswered
