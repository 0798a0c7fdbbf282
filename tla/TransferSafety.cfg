SPECIFICATION MCSpec
CONSTANTS
    File = {f1}
    Old = Old
    New = New
    Long = Long
    Data <- MCData
    Size <- MCSize
    NoFile = NoFile
    Partial = Partial
    Policies <- AllPolicies
    MissingDir = {}
    StalePart = {}
    MaxCrashes = 2
    MaxEdits = 2
    MaxForeign = 1
INVARIANTS
    TypeOK
    NoLoss
PROPERTIES
    NoClobber
