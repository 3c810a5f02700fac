\* One failed registration and its retry.
CONSTANTS
  PollMaxAttempts = 1
  ReconnectInterval = 2
SPECIFICATION Spec
PROPERTY SelfHeals
