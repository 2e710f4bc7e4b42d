SPECIFICATION FairSpec
CONSTANT
  MaxU32 <- MCMaxU32
INVARIANTS
  PortContract
  RecordIsTrue
  TransferOnCard
PROPERTIES
  RequestsNotDropped
  NoTransferAfterHandback
  ExclusiveOwnership
  RequestEnds
