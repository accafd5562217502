SPECIFICATION Spec
CONSTANTS
  a = a
  b = b
  x = x
  StateNodes = {a}
  TxNodes = {}
  OwnedBy <- MCOwned
  MaxSeq = 5
  OnlineDelete = 2
  PruneBatch = 1
  CanDeletes = {5}
  MaxHolds = 0
  Clients = {}
INVARIANT AdvertisedComplete
