SPECIFICATION Spec
CONSTANTS
    None = None
    ActA = ActA
    ActB = ActB
    Sources <- MCSources
    Enacted <- MCEnacted
    Territories = {}
    RelPaths = {}
    Addr <- OneAddr
    BaseContent <- OneBase
    BaseDate = 1
    LastDate = 4
    Expiries <- NoExpiry
    MaxItems = 3
    OpActions = {"insert", "repeal"}
    EventKinds = {"expire"}
    Payloads <- TextPayload
    RepealForms <- PlainRepeal
    EventScopes <- OneScope
    TextScopes <- Everywhere
PROPERTY EndRevivesNothing
CHECK_DEADLOCK FALSE
