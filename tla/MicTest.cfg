SPECIFICATION FairSpec
CONSTANTS
  Devices = {beyond, other}
  NoDevice = NoDevice
  NoDetector = NoDetector
  MinSamples = 1
  AutoStopCount = 2
INVARIANTS
  TypeOK
PROPERTIES
  OnlyClearRaces
  TrainingEnds
  DisplayFollows
  DeadCaptureEnds
CHECK_DEADLOCK FALSE
