SPECIFICATION Spec
CONSTANTS
    c1 = c1
    c2 = c2
    exa = exa
    other = other
    acme = acme
    Caller = {c1, c2}
    Signal = {"search"}
    Provider = {exa, other}
    Payload = {acme}
    Digest <- MCDigest
    Ask <- MCAsk
    Value <- MCValue
    Owner <- MCOwner
    Encodable = {"good", "better"}
    Garbage = Garbage
    Alien = Alien
    None = None
    RedisUrl = "set"
    FactTtl = 1
    StaticTtl = 2
    ForeignTtl <- MCForeignTtl
    MaxLate = 1
SYMMETRY Symmetric
INVARIANTS
    TypeOK
    HitsAnswerTheirAsk
    DisabledIsNoOp
PROPERTIES
    ConnectsOnce
