SPECIFICATION Spec
CONSTANTS
    a1 = a1
    a2 = a2
    b1 = b1
    Assertions = {a1}
    Builds = {b1}
    Recorders = {r1}
    Operators = {o1}
    Drawn <- RaceDrawn
    Filed = {a1}
    HashOrder <- BySize
    MaxStamp = 1
    MaxCrashes = 1
    Torn = Torn
    NoQuestion = NoQuestion
    NoFile = NoFile
    NoGraph = NoGraph
    NoCommand = NoCommand
INVARIANTS
    RetryCompletes
