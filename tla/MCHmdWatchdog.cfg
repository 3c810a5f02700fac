\* Taps that arrive faster than the hold keep re-stamping the press.
CONSTANTS
  MaxDepth = 1
  TapHold = 2
  MaxHold = 3
SPECIFICATION HeldSpec
PROPERTY WatchdogForcesUp
