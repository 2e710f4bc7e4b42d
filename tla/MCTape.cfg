SPECIFICATION FairSpec
CONSTANTS
  Budget <- MCBudget
  MaxI32 <- MCMaxI32
  Images <- MCImages
  Bytes <- MCBytes
  BOF <- MCBOF
INVARIANTS
  NothingSkipped
  HeadJustPast
PROPERTIES
  IsCassetteDrive
  CommandEnds
