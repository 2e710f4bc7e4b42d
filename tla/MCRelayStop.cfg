SPECIFICATION FairSpec
CONSTANTS
  NoWord = NoWord
  Cells = 6
  MaxByte = 1
  BufferMax = 2
  Oks = 2
  Sizes = {2}
  Images <- MCImages
  MaxCuts = 1
  MaxCommands = 3
  Garbled <- MCGarbled
PROPERTY
  ReadStopsDrive
CHECK_DEADLOCK FALSE
