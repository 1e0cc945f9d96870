SPECIFICATION WindowSpec
CONSTANTS
    None = None
    ActA = ActA
    ActB = ActB
    Sources <- MCSources
    Enacted <- MCEnacted
    Territories = {north}
    RelPaths = {}
    Addr <- OneAddr
    BaseContent <- OneBase
    BaseDate = 1
    LastDate = 4
    Expiries <- AllExpiries
    MaxItems = 2
    MaxWindows = 1
    WindowActs = {ActA}
    OpActions = {"heading", "replace", "repeal"}
    EventKinds = {"expire", "set_applicability", "revive"}
    Payloads <- TextPayload
    RepealForms <- EitherRepeal
    EventScopes <- OneScope
    TextScopes <- AnyTerritory
INVARIANTS
    WindowsAreAnswered
    SingleVersionAgrees
PROPERTIES
    PastIsSettled
    WindowsAreLocal
CHECK_DEADLOCK FALSE
