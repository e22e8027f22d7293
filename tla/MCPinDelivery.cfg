\* One writer, two signal threads, a receiver from the start and one connected meanwhile.
SPECIFICATION FairSpec
CONSTANTS
  output = output
  early = early
  late = late
  Out = output
  Inputs = {early, late}
  Attached = {early}
  Writers = {writer}
  Connectors = {connector}
  Workers = {w1, w2}
  Detachable = {early}
  Accepts <- MCAccepts
  HasInitial = TRUE
  MaxWrites = 3
INVARIANTS
  TypeOK
  RetainsBalance
  LastDelivered
  FanOutsDoNotOverlap
  EveryDeliveryOneCall
  NewestReachesAll
  ReadersFindLiveData
PROPERTY
  EveryWriteArrives
CHECK_DEADLOCK FALSE
