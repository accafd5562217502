SPECIFICATION FairHandoffSpec
CONSTANTS
  Hashes <- Two
  LedgerSeq <- MCSeq
  Worlds <- MCWorlds
  ChannelCap = 1
  TurnCap = 2
  GateCap = 2
  LaneCap = 1
  ControlCap = 2
  MaxFences = 2
CHECK_DEADLOCK FALSE
INVARIANTS
  OriginsBounded
  OneDelivery
  AdoptedOnce
  GraphsAccounted
PROPERTIES
  DurableIsAdopted
