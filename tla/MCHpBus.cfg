SPECIFICATION FairSpec
CONSTANTS
  None = None
  Configs <- MCConfigs
  Codes <- MCCodes
  Words <- MCWords
  Serve <- MCServe
  Hold <- MCHold
  Patient = TRUE
INVARIANTS
  DecodeExclusive
  CaptureIsRequest
PROPERTIES
  KeepsPromise
  OperationAcknowledged
