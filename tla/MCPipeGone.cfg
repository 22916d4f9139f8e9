SPECIFICATION FairPipe
CONSTANTS
    Events = {e1}
    Contents = {c1}
    Linked = {c1}
    Null = Null
    Slots = {p1}
    BatchCap = 1
    Ceiling = 1
    Window = 1
    Period = 2
    MaxClock = 5
PROPERTIES
    GoneLeavesApp
CHECK_DEADLOCK FALSE
