SPECIFICATION Spec
CONSTANTS
  Parts <- EncodedParts
  Unlisted <- NoParts
  Files <- AllFiles
  Refusals <- FewRefusals
  Words <- FewWords
  SlowLine = TRUE
  NoisyLine = FALSE
  Invocations <- SlowInvocations
  MaxStarts = 1
  MaxResets = 0
INVARIANTS InPlace NeverProtected
CHECK_DEADLOCK FALSE
