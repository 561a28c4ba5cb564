SPECIFICATION FairSpec
CONSTANTS
  LINE_DATA_LENGTH = 6
  LINES_PER_BLOCK = 2
  Texts <- SomeTexts
  Blocks <- SomeBlocks
  Reads <- SomeReads
  Writes <- SomeWrites
  Room = 2
  Polls = 1
INVARIANTS TypeOK ReadInOrder SkipsOneLine ShortMeansWaited BlockDecodes
PROPERTIES Ends
