---------------------------- MODULE MCValidations ----------------------------
(***************************************************************************)
(* Validators on a chain of ledgers, in three worlds explored together.      *)
(***************************************************************************)
EXTENDS Validations, TLC

CONSTANTS n1, n2, n3

MCParentOf == (1 :> 0) @@ (2 :> 1) @@ (3 :> 2) @@ (4 :> 3)

\* Two validators, and a tracker that hears of every change of trust at once.
Pair == [nodes |-> {n1, n2}, named |-> 2..3, trustGap |-> FALSE, maxLapses |-> 0]

\* One validator on a longer chain: support, a proof and a validation that differ.
Chain == [nodes |-> {n3}, named |-> 1..4, trustGap |-> FALSE, maxLapses |-> 0]

\* One validator, whose validations also arrive between the halves of a change of
\* trust and whose enforcer expires once.
Upset == [nodes |-> {n3}, named |-> 1..3, trustGap |-> TRUE, maxLapses |-> 1]

MCWorlds == {Pair, Chain, Upset}
NodeSymmetry == Permutations({n1, n2})
=============================================================================
