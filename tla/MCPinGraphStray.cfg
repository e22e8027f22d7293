\* The code as it is: a disconnect of two pins that are not connected.
SPECIFICATION Spec
CONSTANTS
  plain = plain
  single = single
  multi = multi
  push = push
  pull = pull
  None = None
  InputPins = {multi}
  OutputPins = {push, pull}
  PinType <- MCPinType
  PinMode <- MCPinMode
  Threads = {main, worker}
  Main = main
  Multiple = {multi}
  Repaired = {}
  MaxCalls = 2
INVARIANT
  StrayDisconnectHarmless
CHECK_DEADLOCK FALSE
