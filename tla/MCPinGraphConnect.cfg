\* The code as it is: two connects to one input pin.
SPECIFICATION FairSpec
CONSTANTS
  plain = plain
  single = single
  multi = multi
  push = push
  pull = pull
  None = None
  InputPins = {multi}
  OutputPins = {push, pull}
  PinType <- MCPinType
  PinMode <- MCPinMode
  Threads = {main, worker}
  Main = main
  Multiple = {multi}
  Repaired = {}
  MaxCalls = 2
PROPERTY
  ConnectReturns
CHECK_DEADLOCK FALSE
