SPECIFICATION MCSpec
CONSTANTS
  Guest = {g1, g2, g3}
  AplayGuest = {g1, g2}
  NThreads = 2
  Patience = 2
  MaxUsrs = 1
  None = None
INVARIANTS
  TypeOK
  BusyHonest
  OneThreadSpare
  WholeFrames
PROPERTIES
  EveryGuestAnswered
  LostGuestsLeave
  EveryAplayGuestAnswered
  AdmitsAsPromised
