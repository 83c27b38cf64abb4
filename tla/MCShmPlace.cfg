SPECIFICATION Spec
CONSTANTS
  r1 = r1
  Readers = {r1}
  Calls = {"GetResource", "GetPacket"}
  NUsers = 2
  MaxEle = 5
  TBlocks = 4
  Needs = {1, 3}
  MaxSem = 1
  SemMax = 2
  NearStart = 2
  MaxNum = 6
INVARIANTS
  PlaceInRing
