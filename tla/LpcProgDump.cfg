SPECIFICATION Spec
CONSTANTS
  Parts <- EncodedParts
  Unlisted <- NoParts
  Files <- AllFiles
  Refusals <- FewRefusals
  Words <- FewWords
  SlowLine = FALSE
  NoisyLine = FALSE
  Invocations <- OtherInvocations
  MaxStarts = 1
  MaxResets = 0
INVARIANT DumpIsWhole
CHECK_DEADLOCK FALSE
