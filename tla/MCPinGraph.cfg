\* One pin as the code is, two repaired ones; the main thread and another one.
SPECIFICATION FairSpec
CONSTANTS
  plain = plain
  single = single
  multi = multi
  push = push
  pull = pull
  None = None
  InputPins = {plain, single, multi}
  OutputPins = {push, pull}
  PinType <- MCPinType
  PinMode <- MCPinMode
  Threads = {main, worker}
  Main = main
  Multiple = {multi}
  Repaired = {single, multi}
  MaxCalls = 4
INVARIANTS
  TypeOK
  MutualExclusion
  AbandonedOnlyWhenConnected
  LinkAgreement
  SingleProducer
  FlagAgreement
PROPERTIES
  StableFanOut
  SignalsReturn
CHECK_DEADLOCK FALSE
