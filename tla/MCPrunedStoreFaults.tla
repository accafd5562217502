------------------------ MODULE MCPrunedStoreFaults ------------------------
(* A small instance of PrunedStoreFaults. *)
EXTENDS PrunedStoreFaults

CONSTANTS a, b, x

\* The second ledger has one transaction node, the others none.
MCOwned == [s \in Seqs |-> IF s = 2 THEN TxNodes ELSE {}]

\* At most one ledger is held at a time.
OneHold == \A s, t \in Seqs : holds[s] > 0 /\ holds[t] > 0 => s = t
=============================================================================
