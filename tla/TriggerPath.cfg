\* Half-millisecond ticks, so that truncated deltas lose time; a window of three
\* answers, a cooldown of two milliseconds, detection times of one and two ticks.
CONSTANTS
  TicksPerMs = 2
  MinDetectionDuration = 0
  CooldownDuration = 2
  Window = 3
  StartHits = 2
  StopHits = 1
  SpikeTicks = 2
  DetectionTimes = {1, 2}
  MaxDetectionTime = 2
  MinSamples = 1
  AutoStopCount = 2
SPECIFICATION FairSpec
INVARIANTS
  TypeOK
  DetectionNeedsSpike
PROPERTIES
  TapsSpaced
  CoverTaps
  TrainingEnds
