SPECIFICATION FairSpec
CONSTANTS
  Parts <- OnePart
  Unlisted <- NoParts
  Files <- SomeFiles
  Refusals <- FewRefusals
  Words <- FewWords
  SlowLine = FALSE
  NoisyLine = TRUE
  Invocations <- SomeInvocations
INVARIANTS TypeOK ReportIsTrue RefusalIsTrue AnsweredMeansReady
PROPERTIES Finishes
CHECK_DEADLOCK FALSE
