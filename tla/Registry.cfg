SPECIFICATION RegistrySpec
CONSTANTS
  vid = vid
  cad = cad
  Path = {vid, cad}
  KindOf <- MCKindOf
  Offered <- MCOffered
  MaxRuns = 4
  MaxTime = 2
  MaxChanges = 1
  MaxCrashes = 1
  Trees <- MCTrees
  Exclusions <- MCExclusions
  MaxWalks = 3
  Video <- MCVideo
  Texted <- MCTexted
  Extension = {".mp4"}
  NameMax = 4
  Number <- MCNumber
  Bare <- MCBare
  MaxForeign = 2
  MaxMoves = 4
  MaxDeaths = 1
  Clips <- MCClips
  InfoOf <- MCInfo
  Settings <- MCSettings
  Second = 4
  Wide = 1
  MaxSplits = 2
  MaxPlanted = 1
  FileSystems <- MCFileSystems
  Requests <- MCRequests
  Lower <- MCLower
  Payload <- MCPayload
  Masked <- MCMasked
  MaxRestores = 2
  MaxInterrupts = 1
  MaxTouches = 1
INVARIANTS
  RowsTrue OneInventory StatusTruth
  WalkedOnce OneDescription PreviewsSound RootsApart MirrorTidy
PROPERTIES NothingToChange
CHECK_DEADLOCK FALSE
