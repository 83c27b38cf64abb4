SPECIFICATION FairSpec
CONSTANTS
  NGates = 3
  FDs <- MCFDs
  QueueMax = 1
INVARIANTS
  TypeOK
  AtMostOneGate
  SlotIsOpen
  ReadsOwnSocket
PROPERTIES
  NoForeignClose
  ReconnectBackoff
  EmergencyOnlyForAlarms
  DeadLinkLeavesSlot

