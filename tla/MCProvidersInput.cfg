SPECIFICATION Spec
CONSTANTS
    one = one
    two = two
    three = three
    page = page
    Lookup = {one, two, three}
    Menu <- SmallMenu
    World <- SmallWorld
    Workers = 1
    MaxFilings = 2
    Lost = Lost
    Odd = Odd
    NotJson = NotJson
    NotObject = NotObject
    Absent = Absent
    Junk = Junk
    Fails = Fails
    Infinite = Infinite
    None = None
INVARIANTS
    OnlyInputIsRejected
CHECK_DEADLOCK FALSE
