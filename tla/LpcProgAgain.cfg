SPECIFICATION Spec
CONSTANTS
  Parts <- BothParts
  Unlisted <- NoParts
  Files <- AllFiles
  Refusals <- FewRefusals
  Words <- FewWords
  SlowLine = FALSE
  NoisyLine = FALSE
  Invocations <- FewInvocations
  MaxStarts = 3
  MaxResets = 1
INVARIANTS ReportIsTrue EchoOff NeverOutOfOrder
PROPERTIES NoOverprogram ImplementsFlashImage
CHECK_DEADLOCK FALSE
