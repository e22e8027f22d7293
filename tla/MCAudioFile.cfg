\* Two readers, the offsets wrap after 11 blocks of a file of 4.
SPECIFICATION FairSpec
CONSTANTS
  device = device
  mixer = mixer
  Readers = {device, mixer}
  MaxFillers = 2
  N = 8
  W = 11
  Blocks = 4
  EndZone = 2
INVARIANTS
  TypeOK
  OneFiller
  OffsetsAgree
PROPERTIES
  QueueOfSamples
  BlocksInOrder
  PlayGoesOn
