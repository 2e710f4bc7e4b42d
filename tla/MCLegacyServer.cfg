SPECIFICATION Spec
CONSTANTS
  None = None
  NoWord = NoWord
  Bytes <- MCBytes
  BOF <- MCBOF
  Cassettes <- MCCassettes
  Asks <- MCAsks
  Papers <- MCPapers
  MaxCells <- MCMaxCells
INVARIANTS
  SavedOnExit
PROPERTIES
  IsService
  AgreesWithRev2
  OperationEnds
