\* A ring of two slots, so that it wraps, fills and overflows.
SPECIFICATION FairSpec
CONSTANTS
  Clients = {c1}
  NoClient = NoClient
  Size = 2
  MaxQueries = 4
  Coalesce = TRUE
INVARIANTS
  TypeOK
  RingInSendOrder
  ResultMeetsItsCommand
  BlocksOnlyWhenDrained
  ChainRunsComplete
PROPERTIES
  LossOnlyWhenFull
  ImplementsQueryFifo
  HandledOrOverlooked
CHECK_DEADLOCK FALSE
