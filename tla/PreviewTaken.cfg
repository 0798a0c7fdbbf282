SPECIFICATION PreviewSpec
CONSTANTS
  Clips <- MCClips
  InfoOf <- MCTwins
  Settings <- MCSettings
  Second = 4
  Wide = 1
  MaxSplits = 3
  MaxPlanted = 0
INVARIANTS
  OthersProtected
CHECK_DEADLOCK FALSE
