SPECIFICATION Spec
CONSTANTS
    p1 = p1
    p2 = p2
    t1 = t1
    t2 = t2
    Peers = {p1, p2}
    Txs = {t1, t2}
    Ledgers = {A}
    A = A
    B = B
    Offers <- OfferEach
    Levels = {50}
    MinPct = 80
    RecentLimit = 1
    MaxPropose = 2
    MaxNest = 1
SYMMETRY Symmetry
INVARIANTS
  VotesFollowPositions
  DifferencesDisputed
PROPERTIES
  ProposalsIncrease
