SPECIFICATION Spec
CONSTANTS
    Last = 2
    Kind <- Reborn
    Above <- RebornAbove
    Moved = {1}
    Payload = {}
    Shaky = {}
    Workers = 1
    Window = 1
    MaxFaults = 1
INVARIANTS
    RegistryComplete
