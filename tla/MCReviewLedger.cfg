SPECIFICATION Spec
CONSTANTS
    Events = {e1}
    Venues = {v1}
    Reviewers = {ann}
    Components = {scout}
    Rules = {tier1}
    Contents = {bare, linked}
    Linked = {linked}
    Null = Null
    MaxLog = 4
INVARIANTS
    TypeOK
    StatusFollowsLog
    ChainUnbroken
    ApprovalTraced
    NoSideDoor
PROPERTIES
    ApprovedContentFrozen
    KillSwitchHolds
    RejectionSticks
CHECK_DEADLOCK FALSE
