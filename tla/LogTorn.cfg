SPECIFICATION LogSpec
CONSTANTS
  Ring = 2
  MaxBlocks = 3
  MaxEdits = 1
  Owner = {o1}
  RunFamily = "preview"
  MaxTx = 2
  MaxRecords = 3
  MaxFailures = 2
  Proc = {1, 2}
  Earlier = 0
  None = None
  ArchiveRoot = "archive"
  Offered <- MCOffered
  NoPayload <- MCNoPayload
  Videos = 1
  MaxFaults = 1
  MaxInt = 255
  Orders <- MCOrders
  Spaces = {39, 112, 137, 1000}
  MaxRestarts = 1
  Contender <- MCContender
  Pid <- MCPid
  Host <- MCHost
  Forced = {}
  Gone = {"old"}
  Attempts = 2
  Rereads = 2
  NoLock = NoLock
  TornLock = TornLock
  MaxCrashes = 2
INVARIANTS AckedReadable
