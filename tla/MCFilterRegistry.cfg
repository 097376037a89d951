CONSTANTS
    f1 = f1
    f2 = f2
    p1 = p1
    Ids <- MCIds
    BlockIds <- MCBlockIds
    PushIds = {p1}
    MaxEvents = 2
    MaxPolls = 1
SPECIFICATION Spec
INVARIANTS
    NoStuckPoll
    ChangesExact
PROPERTIES
    EventuallyReleased
    PushReleased
