SPECIFICATION Spec
CONSTANTS
  Hashes <- Two
  LedgerSeq <- MCSeq
  Worlds <- MCWorlds
CHECK_DEADLOCK FALSE
INVARIANTS
  OwnersExact
  NoSilentSession
PROPERTIES
  PhaseFollowsAnchor
  DurableStays
  AnchorIsSticky
  NewSessionsFit
