\* The client stops the entity and starts it again.
SPECIFICATION FairSpec
CONSTANTS
  gui = gui
  Clients = {gui}
  MaxWorkers = 2
  MaxCalls = 2
PROPERTY
  StartStarts
CHECK_DEADLOCK FALSE
