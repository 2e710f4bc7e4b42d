SPECIFICATION FairSpec
CONSTANTS
  MaxU32 <- MCMaxU32
  Budget <- MCBudget
  MaxI32 <- MCMaxI32
  Bytes <- MCBytes
  BOF <- MCBOF
  Images <- MCImages
INVARIANT
  NoStaleCommand
PROPERTIES
  TapeOnlyOnOwnCard
  TapeRequestsNotDropped
  TapeRequestEnds
