--------------------------- MODULE MCPrunedStore ---------------------------
(* Small instances of PrunedStore. *)
EXTENDS PrunedStore

CONSTANTS a, b, x

\* The second ledger has one transaction node, the others none.
MCOwned == [s \in Seqs |-> IF s = 2 THEN TxNodes ELSE {}]
=============================================================================
