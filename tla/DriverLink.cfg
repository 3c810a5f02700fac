SPECIFICATION FairSpec
CONSTANTS
  LastPort = 2
  Calls = {c1, c2}
  MaxTrouble = 3
INVARIANTS
  TypeOK
  TapsHonest
PROPERTIES
  Reconnects
  ImplementsTapChannel
CHECK_DEADLOCK FALSE
