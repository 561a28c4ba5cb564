SPECIFICATION Spec
CONSTANTS
  Sizes <- SomeSizes
  Texts <- TwoTexts
INVARIANTS TypeOK OnlyEntry7 VerdictIsTrue
CHECK_DEADLOCK FALSE
