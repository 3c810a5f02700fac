\* One cover, held longer than the cooldown.
CONSTANTS
  TicksPerMs = 1
  MinDetectionDuration = 0
  CooldownDuration = 1
  Window = 2
  StartHits = 2
  StopHits = 1
  SpikeTicks = 2
  DetectionTimes = {1}
  MaxDetectionTime = 1
  MinSamples = 1
  AutoStopCount = 2
SPECIFICATION EdgeSpec
PROPERTY OneTapPerEdge
