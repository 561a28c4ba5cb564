SPECIFICATION Spec
CONSTANTS
  Counts <- TwoBlocks
  MAX_DATA_BLOCK_SIZE = 2
INVARIANT GivesUpAfterThree
CHECK_DEADLOCK FALSE
