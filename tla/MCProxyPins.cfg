\* Two pins, two proxies, two workers beside the main thread.
SPECIFICATION Spec
CONSTANTS
  pinA = pinA
  pinB = pinB
  Pins = {pinA, pinB}
  proxyA = proxyA
  proxyB = proxyB
  Proxies = {proxyA, proxyB}
  script = script
  signal = signal
  Workers = {script, signal}
  Main = Main
  None = None
INVARIANTS
  TypeOK
  NoDanglingProxy
  ObservedIffProxied
  GuiAgrees
  RemovedOnce
CHECK_DEADLOCK FALSE
