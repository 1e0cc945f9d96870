SPECIFICATION Spec
CONSTANTS
    None = None
    ActA = ActA
    ActB = ActB
    Sources <- MCSources
    Enacted <- MCEnacted
    Territories = {}
    RelPaths <- TreeRelPaths
    Addr <- TreeAddr
    BaseContent <- TreeBase
    BaseDate = 1
    LastDate = 3
    Expiries <- FarExpiries
    MaxItems = 3
    OpActions = {"insert", "replace", "repeal", "renumber"}
    EventKinds = {"expire", "revive"}
    Payloads <- TreePayload
    RepealForms <- PlainRepeal
    EventScopes <- TreeScopes
    TextScopes <- Everywhere
INVARIANTS
    CacheCoherent
PROPERTIES
    PastIsSettled
    ChildDiesWithParent
    VacatingFirstLosesNoText
CHECK_DEADLOCK FALSE
