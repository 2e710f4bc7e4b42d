SPECIFICATION Spec
CONSTANTS
  Base = 4
  BOF = 3
  HdrWords = 4
  BotPadding = 1
  EotPadding = 1
  EotSpace = 1
  Grow = 20
  MaxFiles = 3
  MaxNum = 2
  MaxLen = 54
  Spaces <- MCSpaces
  Counts <- MCCounts
  Contents <- MCContents
  Cleanups <- MCCleanups
  Sizes <- MCTightSizes
INVARIANT ShiftsInside
