SPECIFICATION FairSpec
CONSTANTS
  Cells = 4
  Numeral <- MCNumeral
  Blank <- MCBlank
  Images <- MCImages
  Lines <- MCLines
  MaxCommands = 4
  MaxCuts = 1
INVARIANTS
  ReadFaithful
  WriteFaithful
  AtRest
  
PROPERTY
  CommandEnds
CHECK_DEADLOCK FALSE
