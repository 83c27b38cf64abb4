SPECIFICATION MCSpec
CONSTANTS
  r1 = r1
  r2 = r2
  Readers = {r1}
  Calls <- MCCalls
  NUsers = 1
  MaxEle = 5
  TBlocks = 4
  Needs <- MCNeeds
  MaxSem = 1
  SemMax = 2
  NearStart = 2
  MaxNum = 6
INVARIANTS
  TypeOK
  BlocksAccounted
  ElementsIntact
  SemCountsFrames
  NoLostWakeup
  UsersNumberCounts
PROPERTIES
  FramesInTurn
