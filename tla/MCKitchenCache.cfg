SPECIFICATION Spec
CONSTANTS
    r1 = r1
    r2 = r2
    r3 = r3
    exa = exa
    other = other
    Request = {r1, r2}
    Skill = {"scout"}
    NoSkill = "nobody"
    Body <- TwoLimits
    Provider = {exa, other}
    Edition = {1}
    Cap = 0
    RecordedUsd = 0
    OldUsd = {}
    Shaken <- OneShaken
    Registered <- SearchExaOther
    Equipped = {exa, other}
    Mistyped = {}
    Selection = {exa, other}
    RedisUrl = "set"
    FactTtl = 1
    StaticTtl = 2
    ForeignTtl <- NoEnd
    MaxLate = 1
    Garbage = Garbage
    Alien = Alien
    None = None
    Dsn = "malformed"
    PoolSize = 1
    Window = 1
    Horizon = 1
SYMMETRY Symmetric
INVARIANTS
    TypeOK
    AnswersGenuine
    FactsExpire
    RefusedUrlCostsOne
PROPERTIES
    KeepsPromise
