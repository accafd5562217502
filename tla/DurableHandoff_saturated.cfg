SPECIFICATION FairHandoffSpec
CONSTANTS
  Hashes <- Two
  LedgerSeq <- MCSeq
  Worlds <- Saturated
  ChannelCap = 1
  TurnCap = 2
  GateCap = 2
  LaneCap = 1
  ControlCap = 2
  MaxFences = 1
CHECK_DEADLOCK FALSE
PROPERTY RejectionReported
