SPECIFICATION MCSpec
CONSTANTS
  Cmd <- MCCmd
  Client = {c1}
  Peer = {p1}
  None = None
  NSlots = 1
  NEntries = 2
  NFds = 2
  Expires = TRUE
  AsksAgain = TRUE
  in1 = in1
  in2 = in2
  RegLead = 1
  WireMax = 1
  MaxEvents = 2
  t1 = t1
  t2 = t2
  Key = {k1}
  MaxVer = 2
  MaxRequests = 2
  MaxFaults = 1
  w1 = w1
  w2 = w2
  short = short
  big = big
SYMMETRY MCSymmetry
INVARIANTS
  AllTypeOK
  FilmUnderPlayer
  AlarmFlagHonest
  UnsentIsKnown
  NothingSkipped
PROPERTIES
  SettingsKept
