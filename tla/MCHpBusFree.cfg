SPECIFICATION Spec
CONSTANTS
  None = None
  Configs <- MCFreeConfigs
  Codes <- MCFreeCodes
  Words <- MCWords
  Serve <- MCFreeServe
  Hold <- MCHold
  Patient = FALSE
INVARIANTS
  WordWhole
