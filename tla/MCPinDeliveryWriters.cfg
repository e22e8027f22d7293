\* The code as it is: two threads write to one pin.
SPECIFICATION Spec
CONSTANTS
  output = output
  early = early
  late = late
  Out = output
  Inputs = {}
  Attached = {}
  Writers = {writer1, writer2}
  Connectors = {}
  Workers = {w1}
  Detachable = {}
  Accepts <- MCAcceptsAll
  HasInitial = TRUE
  MaxWrites = 4
INVARIANT
  NoOverRelease
CHECK_DEADLOCK FALSE
