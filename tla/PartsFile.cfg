SPECIFICATION FairSpec
CONSTANTS
  Parts <- ShippedParts
  Unlisted <- NoParts
  Files <- NoParts
  PartsFiles <- SomeFiles
  Ids <- SomeIds
INVARIANTS FindsThePart
PROPERTIES Ends
CHECK_DEADLOCK FALSE
