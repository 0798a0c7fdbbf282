SPECIFICATION MCSpec
CONSTANTS
    File = {f1}
    Old = Old
    New = New
    Long = Long
    Data <- MCData
    Size <- MCSize
    NoFile = NoFile
    Partial = Partial
    Policies <- OverwriteKeep
    MissingDir = {}
    StalePart = {}
    MaxCrashes = 2
    MaxEdits = 0
    MaxForeign = 0
INVARIANTS
    CommittedComplete
