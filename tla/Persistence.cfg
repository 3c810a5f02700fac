SPECIFICATION Spec
CONSTANTS
  Absent = Absent
  NoId = NoId
  Ids = {beyond}
  IntMax = 32767
  Missing = Missing
  Torn = Torn
  NoProfile = NoProfile
  Keep = 1
  MaxNow = 1
  MaxProfile = 2
  MaxTrouble = 2
  EditedDurations = {Absent, 65586}
  EditedSizes = {Absent, 1537, 9000}
  Chosen = {1000}
INVARIANTS
  TypeOK
  NothingForgotten
  ProfileOnDisk
  ProfileFits
PROPERTIES
  BalloonOnce
  ImplementsSettingsStore
  NewestKept
