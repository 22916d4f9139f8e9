SPECIFICATION DeskSpec
CONSTANTS
    Events = {e1}
    Venues = {}
    Reviewers = {ann, bob}
    Components = {scoutActor, linkActor, autoActor}
    Rules = {tier1}
    good = good
    poor = good
    Contents = {good}
    Linked = {good}
    Null = Null
    MaxLog = 6
    Scout = scoutActor
    LinkChecker = linkActor
    AutoApprover = autoActor
    Rule = tier1
    Passing <- MCPassing
    Near <- MCNear
    Twin <- MCTwin
PROPERTIES
    UndoesOwnDecision
CHECK_DEADLOCK FALSE
