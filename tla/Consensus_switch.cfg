SPECIFICATION Spec
CONSTANTS
    p1 = p1
    p2 = p2
    t1 = t1
    t2 = t2
    Peers = {p1}
    Txs = {t1}
    Ledgers = {A, B}
    A = A
    B = B
    Offers <- OfferAny
    Levels = {50}
    MinPct = 80
    RecentLimit = 2
    MaxPropose = 1
    MaxNest = 2
SYMMETRY Symmetry
INVARIANTS
  RoundCoherent
  PlaybackComplete
  PositionsOfThisLedger
  NoDanglingProposal
PROPERTIES
  PeersMoveForward
