\* One script thread and two timers: does stop come to its end?
SPECIFICATION FairSpec
CONSTANTS
  main = main
  Scripts = {main}
  timers = timers
  TimersThread = timers
  a = a
  OneShots = {a}
  r = r
  Repeating = {r}
  Nobody = Nobody
  NoTimer = NoTimer
PROPERTY
  StopReturns
CHECK_DEADLOCK FALSE
