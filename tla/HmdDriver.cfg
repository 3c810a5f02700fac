\* The driver, vrserver and the HTTP thread: three queued taps, a hold of three
\* ticks, a watchdog of six.
CONSTANTS
  MaxDepth = 3
  TapHold = 3
  MaxHold = 6
SPECIFICATION FairSpec
INVARIANTS
  TypeOK
  ReleaseScheduled
  ReadyIsLive
  HostAgrees
PROPERTIES
  ImplementsTapButton
  HostReleased
