\* The client stops the entity while its first thread begins.
SPECIFICATION FairSpec
CONSTANTS
  gui = gui
  Clients = {gui}
  MaxWorkers = 3
  MaxCalls = 1
PROPERTY
  StopStops
CHECK_DEADLOCK FALSE
