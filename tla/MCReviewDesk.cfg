SPECIFICATION BoundedDesk
CONSTANTS
    Events = {e1, e2}
    Venues = {}
    Reviewers = {ann}
    Components = {scoutActor, linkActor, autoActor}
    Rules = {tier1}
    good = good
    poor = poor
    Contents = {good, poor}
    Linked = {good}
    Null = Null
    MaxLog = 6
    Scout = scoutActor
    LinkChecker = linkActor
    AutoApprover = autoActor
    Rule = tier1
    Passing <- MCPassing
    Near <- MCNear
    Twin <- MCTwin
SYMMETRY Alike
INVARIANTS
    DeskTypeOK
PROPERTIES
    MachineRespectsRejection
    ApprovedAsJudged
    DeskImplementsLedger
CHECK_DEADLOCK FALSE
