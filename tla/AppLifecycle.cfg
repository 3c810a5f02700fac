\* One turn of the main loop in two tries to reconnect; the registrar polls once.
CONSTANTS
  PollMaxAttempts = 1
  ReconnectInterval = 2
SPECIFICATION FairSpec
INVARIANTS
  TypeOK
  ExclusiveDriver
  ExclusiveVr
  SessionHeld
  CleanExit
PROPERTIES
  Exits
  Reconnects
