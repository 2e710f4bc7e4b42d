SPECIFICATION FairSpec
CONSTANTS
  None = None
  Configs <- MCFreeConfigs
  Codes <- MCFreeCodes
  Words <- MCWords
  Serve <- MCServe
  Hold <- MCHold
  Patient = TRUE
PROPERTY
  AlwaysAcknowledged
