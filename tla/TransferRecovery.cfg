SPECIFICATION MCFairSpec
CONSTANTS
    File = {f1, f2, f3}
    Old = Old
    New = New
    Long = Long
    Data <- MCData
    Size <- MCSize
    NoFile = NoFile
    Partial = Partial
    Policies <- NoOverwrite
    MissingDir = {f3}
    StalePart = {}
    MaxCrashes = 2
    MaxEdits = 0
    MaxForeign = 0
INVARIANTS
    NeverStuck
    DescriptionTellsTruth
    FinishedSettled
PROPERTIES
    EventuallyFinished
    ImplementsArchiveMove
