SPECIFICATION FairSpec
CONSTANTS
  Counts <- SomeCounts
  MAX_DATA_BLOCK_SIZE = 2
INVARIANTS TypeOK DeliveredWhole InStep GivesUpForRefusals NeverShort
PROPERTIES Terminates ImplementsDataTransfer
CHECK_DEADLOCK FALSE
