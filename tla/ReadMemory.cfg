SPECIFICATION FairSpec
CONSTANTS
  Counts <- SomeCounts
  MAX_DATA_BLOCK_SIZE = 2
  Split = TRUE
  MaxNoise = 4
INVARIANTS TypeOK ReceivedInPlace SameBlock
PROPERTIES Terminates
CHECK_DEADLOCK FALSE
