SPECIFICATION FairSpec
CONSTANTS
  Driver = Driver
  Cli = Cli
  Missing = Missing
  Torn = Torn
  MaxRev = 2
  MaxTrouble = 2
INVARIANTS
  TypeOK
  BackupPristine
  ResultHonest
PROPERTIES
  TornOnly
  ForeignKept
  Recovers
