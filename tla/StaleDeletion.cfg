SPECIFICATION SidecarSpec
CONSTANTS
  o1 = o1
  o2 = o2
  p1 = p1
  p2 = p2
  p3 = p3
  Owners <- MCOneOwner
  Path = {p1, p2, p3}
  PreviewNames <- MCPreviewNames
  TextNames <- MCTextNames
  Crowded = {o1}
  Nothing = Nothing
  MaxRuns = 4
  MaxTroubles = 1
PROPERTY SplitAgainKept
CHECK_DEADLOCK FALSE
