SPECIFICATION Spec
CONSTANTS
  Parts <- OnePart
  Unlisted <- NoParts
  Files <- SomeFiles
  Refusals <- FewRefusals
  Words <- FewWords
  SlowLine = FALSE
  NoisyLine = TRUE
  Invocations <- SomeInvocations
INVARIANT OpenedIsSynchronised
CHECK_DEADLOCK FALSE
