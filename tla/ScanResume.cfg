SPECIFICATION FairSpec
CONSTANTS
    Last = 6
    Kind <- Tree
    Above <- TreeAbove
    Moved = {2, 3, 4, 5, 6}
    Payload = {2, 4}
    Shaky = {1, 4}
    Workers = 2
    Window = 1
    MaxFaults = 2
INVARIANTS
    CheckpointAgrees
    RegistryComplete
    OneBase
PROPERTIES
    EventuallyFinished
