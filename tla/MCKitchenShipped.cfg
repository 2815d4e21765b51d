SPECIFICATION Spec
CONSTANTS
    r1 = r1
    r2 = r2
    r3 = r3
    exa = exa
    other = other
    Request = {r1}
    Skill = {"scout"}
    NoSkill = "nobody"
    Body <- OneCompanyOneQuery
    Provider <- ShippedNames
    Edition = {1}
    Cap = 0
    RecordedUsd = 0
    OldUsd = {}
    Shaken = {}
    Registered <- Imported
    Equipped <- ShippedNames
    Mistyped = {}
    Selection <- ShippedNames
    RedisUrl = "unset"
    FactTtl = 1
    StaticTtl = 2
    ForeignTtl <- NoEnd
    MaxLate = 0
    Garbage = Garbage
    Alien = Alien
    None = None
    Dsn = "set"
    PoolSize = 1
    Window = 1
    Horizon = 1
PROPERTIES
    ShippedProvidersServe
