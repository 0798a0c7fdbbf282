SPECIFICATION SidecarSpec
CONSTANTS
  o1 = o1
  o2 = o2
  p1 = p1
  p2 = p2
  p3 = p3
  Owners <- MCOwners
  Path = {p1, p2, p3}
  PreviewNames <- MCPreviewNames
  TextNames <- MCTextNames
  Crowded = {o1}
  Nothing = Nothing
  MaxRuns = 3
  MaxTroubles = 2
INVARIANTS
  CaughtUp LinksMatch CleanedUp
PROPERTIES
  FilesKept DeletesRestoredOnly SidecarEnds
CHECK_DEADLOCK FALSE
