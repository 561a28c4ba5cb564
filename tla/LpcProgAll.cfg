SPECIFICATION FairSpec
CONSTANTS
  Parts <- OddParts
  Unlisted <- StrangeParts
  Files <- AllFiles
  Refusals <- FewRefusals
  Words <- FewWords
  SlowLine = FALSE
  NoisyLine = TRUE
  Invocations <- AllInvocations
  MaxStarts = 1
  MaxResets = 1
INVARIANTS TypeOK WritingPrefix ReportIsTrue RightPart
PROPERTIES Finishes
CHECK_DEADLOCK FALSE
