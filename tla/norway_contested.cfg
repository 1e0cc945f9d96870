SPECIFICATION Spec
CONSTANTS
    Programs <- ContestedPrograms
    Addresses <- SomeAddresses
    Acts = {1, 2}
    Texts <- SomeTexts
    NoWhere = NoWhere
    NoText = NoText
    Laws <- RoomyLaw
    NoAnswer = NoAnswer
INVARIANT ContestedSourceRefused
CHECK_DEADLOCK FALSE
