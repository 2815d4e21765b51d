SPECIFICATION Spec
CONSTANTS
    c1 = c1
    c2 = c2
    Caller = {c1, c2}
    Skill = {"scout", "brief"}
    Usd = {0, 2}
    Note = {"ok"}
    NoNote = NoNote
    Dsn = "set"
    PoolSize = 1
    Window = 1
    MaxRows = 2
    Horizon = 2
SYMMETRY Symmetric
INVARIANTS
    TypeOK
    ChargesOwnRows
    DisabledIsNoOp
PROPERTIES
    ConnectsOnce
