SPECIFICATION FairSpec
CONSTANTS
    Programs <- SafePrograms
    Addresses <- SomeAddresses
    Acts = {1, 2}
    Texts <- SomeTexts
    NoWhere = NoWhere
    NoText = NoText
    Laws <- SomeLaws
    NoAnswer = NoAnswer
INVARIANTS
    TypeOK
    VacatedFirst
    LabelsStayUnique
    LegsMoveAtOnce
    VerdictIsExact
PROPERTIES
    NothingInForceIsLost
    ReplayEnds
CHECK_DEADLOCK FALSE
