SPECIFICATION FaultySpec
CONSTANTS
  a = a
  b = b
  x = x
  StateNodes = {a}
  TxNodes = {}
  OwnedBy <- MCOwned
  MaxSeq = 5
  OnlineDelete = 1
  PruneBatch = 2
  CanDeletes = {5}
  MaxHolds = 1
  Clients = {}
INVARIANTS  RetainedComplete HoldsRespected
CONSTRAINT OneHold
