SPECIFICATION PipeSpec
CONSTANTS
    Events = {e1}
    Contents = {c1, c2}
    Linked = {c1, c2}
    Null = Null
    Slots = {p1, p2}
    BatchCap = 1
    Ceiling = 1
    Window = 1
    Period = 2
    MaxClock = 5
INVARIANTS
    PipeTypeOK
    OnlyApprovedCrosses
    PublishedMeansDelivered
CHECK_DEADLOCK FALSE
