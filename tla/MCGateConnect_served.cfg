SPECIFICATION FairSpec
CONSTANTS
  NGates = 2
  FDs <- MCFDs
  QueueMax = 1
PROPERTIES
  ConnectionServed
