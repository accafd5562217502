---------------------------- MODULE MCLedgerTrie ----------------------------
(***************************************************************************)
(* An ancestry with a chain and a fork below a fork.  Four supporters fit  *)
(* on the upper fork, enough for two to lead one by the larger id while    *)
(* another is uncommitted.                                                 *)
(***************************************************************************)
EXTENDS LedgerTrie

MCParentOf == (1 :> 0) @@ (2 :> 1) @@ (3 :> 2) @@ (4 :> 2) @@ (5 :> 1)

MCBounds == {[supporters |-> 3, ledgers |-> 0..5], [supporters |-> 4, ledgers |-> {1, 2, 5}]}
=============================================================================
