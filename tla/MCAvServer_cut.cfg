SPECIFICATION Spec
CONSTANTS
  l1 = l1
  l2 = l2
  w1 = w1
  Lan <- MCLan
  Wan <- MCWan
  MaxLan = 1
  MaxWan = 1
  None = None
  MaxErr = 1
  SleepCovers = TRUE
PROPERTY
  OnlyTheFailedIsCut
