SPECIFICATION FairSpec
CONSTANTS
    Workers = {w1, w2}
    MaxVersion = 2
    MaxFaults = 1
    Starts <- AnyStart
    Missing = Missing
    OldSchema = OldSchema
    Unknown = Unknown
    NoWorker = NoWorker
    NoCall = NoCall
    NoAnswer = NoAnswer
INVARIANTS
    TypeOK
    LabelIsTrue
PROPERTIES
    ImplementsPromise
    IndexNeverGoesBack
    CallEnds
