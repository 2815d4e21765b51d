SPECIFICATION FairSpec
CONSTANTS
    one = one
    two = two
    three = three
    page = page
    Lookup = {one, two, three}
    Menu <- SmallMenu
    World <- SmallWorld
    Workers = 1
    MaxFilings = 2
    Lost = Lost
    Odd = Odd
    NotJson = NotJson
    NotObject = NotObject
    Absent = Absent
    Junk = Junk
    Fails = Fails
    Infinite = Infinite
    None = None
INVARIANTS
    TypeOK
    RefusalsNeverAnswer
    MatchJustified
    FilingsTrue
    FailuresNoted
    TrendsHaveADirection
PROPERTIES
    AbandonedIsOver
    EveryLookupEnds
    AnswersAsPromised
CHECK_DEADLOCK FALSE
