SPECIFICATION FairSpec
CONSTANTS
    a1 = a1
    a2 = a2
    b1 = b1
    Assertions = {a1, a2}
    Builds = {b1}
    Recorders = {r1}
    Operators = {o1}
    Drawn <- ClaimsDrawn
    Filed = {a1}
    HashOrder <- BySize
    MaxStamp = 2
    MaxCrashes = 0
    Torn = Torn
    NoQuestion = NoQuestion
    NoFile = NoFile
    NoGraph = NoGraph
    NoCommand = NoCommand
PROPERTIES
    RetractionIsReported
    ImplementsLedger
