SPECIFICATION Spec
CONSTANTS
    u1 = u1
    u2 = u2
    u3 = u3
    Url = {u1, u2, u3}
    Concurrency = 2
INVARIANTS
    RejectedHeadRetried
CHECK_DEADLOCK FALSE
