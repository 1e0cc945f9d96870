SPECIFICATION Spec
CONSTANTS
    Programs <- StayingPrograms
    Addresses <- SomeAddresses
    Acts = {1, 2}
    Texts <- SomeTexts
    NoWhere = NoWhere
    NoText = NoText
    Laws <- WholeLaw
    NoAnswer = NoAnswer
INVARIANT StayingConflictsWithNothing
CHECK_DEADLOCK FALSE
