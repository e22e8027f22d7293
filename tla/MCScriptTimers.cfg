\* One script thread, two timers of setTimeout and one of setInterval.
SPECIFICATION FairSpec
CONSTANTS
  main = main
  Scripts = {main}
  timers = timers
  TimersThread = timers
  a = a
  b = b
  OneShots = {a, b}
  r = r
  Repeating = {r}
  Nobody = Nobody
  NoTimer = NoTimer
INVARIANTS
  TypeOK
  ValidIsListed
PROPERTIES
  OneShotFiresOnce
  ClearedNeverFires
  StoppedStaysQuiet
  DueTimersFire
  StopReturnsOrSticks
CHECK_DEADLOCK FALSE
