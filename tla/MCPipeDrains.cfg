SPECIFICATION FairPipe
CONSTANTS
    Events = {e1, e2}
    Contents = {c1}
    Linked = {c1}
    Null = Null
    Slots = {p1}
    BatchCap = 1
    Ceiling = 2
    Window = 1
    Period = 2
    MaxClock = 6
PROPERTIES
    BacklogDrains
CHECK_DEADLOCK FALSE
