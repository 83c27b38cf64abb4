SPECIFICATION Spec
CONSTANTS
  NGates = 3
  FDs <- MCFDs
  QueueMax = 1
PROPERTIES
  EmergencyLast
