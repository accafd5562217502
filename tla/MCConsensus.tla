---------------------------- MODULE MCConsensus ----------------------------
(* Instances of Consensus for TLC. *)
EXTENDS Consensus, TLC

CONSTANTS p1, p2, t1, t2, A, B

\* The sets of a disagreement on every transaction.
OfferEach == {{t1}, {t2}}
OfferAny == SUBSET Txs

Symmetry == Permutations(Peers) \cup Permutations(Ledgers) \cup Permutations(Txs)
=============================================================================
