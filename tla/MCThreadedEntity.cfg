\* One client; the threads it starts, and what they call themselves.
SPECIFICATION FairSpec
CONSTANTS
  gui = gui
  Clients = {gui}
  MaxWorkers = 3
  MaxCalls = 2
INVARIANTS
  TypeOK
  RefsBalance
  TickingIsStoppable
  StopReachesAll
  TickingIsActive
PROPERTY
  StopsInTheEnd
CHECK_DEADLOCK FALSE
