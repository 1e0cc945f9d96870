SPECIFICATION Spec
CONSTANTS
    a1 = a1
    a2 = a2
    b1 = b1
    Assertions = {a1}
    Builds = {b1}
    Recorders = {r1, r2}
    Operators = {o1}
    Drawn <- RaceDrawn
    Filed = {}
    HashOrder <- BySize
    MaxStamp = 2
    MaxCrashes = 1
    Torn = Torn
    NoQuestion = NoQuestion
    NoFile = NoFile
    NoGraph = NoGraph
    NoCommand = NoCommand
SYMMETRY SymmetricRecorders
INVARIANTS
    RaisesForCause
    TypeOK
    QuietStoreIsExact
PROPERTIES
    ImplementsLedger
