\* SteamVR updates its file after it was patched; then MicMap is uninstalled.
SPECIFICATION Spec
CONSTANTS
  Driver = Driver
  Cli = Cli
  Missing = Missing
  Torn = Torn
  MaxRev = 2
  MaxTrouble = 2
PROPERTY UnmarkedLeftAlone
