SPECIFICATION Spec
CONSTANTS
    None = None
    ActA = ActA
    ActB = ActB
    Sources <- MCSources
    Enacted <- MCEnacted
    Territories = {north}
    RelPaths = {}
    Addr <- OneAddr
    BaseContent <- OneBase
    BaseDate = 1
    LastDate = 4
    Expiries <- AllExpiries
    MaxItems = 3
    OpActions = {"insert", "repeal"}
    EventKinds = {"expire", "commence", "revive", "set_applicability"}
    Payloads <- TextPayload
    RepealForms <- PlainRepeal
    EventScopes <- OneScope
    TextScopes <- Everywhere
INVARIANTS
    TypeOK
    CacheCoherent
    NothingEndedReturns
PROPERTIES
    PastIsSettled
    LaterActPrevails
    SortKeepsLaw
    SunsetHolds
CHECK_DEADLOCK FALSE
