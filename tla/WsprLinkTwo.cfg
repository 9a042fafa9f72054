\* Two slots, all kinds of call signs.
SPECIFICATION Spec
CONSTANTS
  Hash <- CallHash
  Stations <- TwoSlots
  MaxSlots = 2
INVARIANTS
  DecodedAsSent
  SubtractedAsSent
  ContactsTrue
  ContactsLocated
PROPERTIES
  DroppedByTableOnly
  GridCompleted
  LoggedFromTenUp
\* The bound on slots ends every behaviour.
CHECK_DEADLOCK FALSE
