SPECIFICATION Spec
CONSTANTS
  a = a
  b = b
  x = x
  StateNodes = {a}
  TxNodes = {x}
  OwnedBy <- MCOwned
  MaxSeq = 4
  OnlineDelete = 1
  PruneBatch = 1
  CanDeletes = {1, 4}
  MaxHolds = 0
  Clients = {}
INVARIANTS
  NoStrandedRow
  PassExhausts
PROPERTIES
  RefinesRetention
  WorkerProgresses
