--------------------------- MODULE LedgerAncestry ---------------------------
(***************************************************************************)
(* Ledgers and their ancestry, as the TrieLedger trait of                  *)
(* src/xrpld/consensus/src/model/ledger_trie.rs asks for them, and what    *)
(* the trie promises about them: the support of a branch and the preferred *)
(* ledger, defined ledger by ledger without any tree of spans.  A ledger   *)
(* is its id, a natural number; genesis is 0.  All ledgers are within the  *)
(* 256 ancestors that RclValidatedLedger knows of each other.              *)
(***************************************************************************)
EXTENDS Integers, FiniteSetsExt, Functions

CONSTANT ParentOf   \* the parent of every ledger but genesis

ASSUME AncestryAssumption ==
  \A l \in DOMAIN ParentOf : l \in Nat \ {0} /\ ParentOf[l] \in 0..(l - 1)

Genesis == 0
Ledgers == {Genesis} \cup DOMAIN ParentOf

\* A parent has a smaller id, so the recursion ends.
SeqOf[l \in Ledgers] == IF l = Genesis THEN 0 ELSE SeqOf[ParentOf[l]] + 1

\* TrieLedger::ancestor.
AncestorOf[l \in Ledgers] ==
  [s \in 0..SeqOf[l] |-> IF s = SeqOf[l] THEN l ELSE AncestorOf[ParentOf[l]][s]]

\* TrieLedger::mismatch: the first sequence at which two ledgers disagree.
Mismatch == [a, b \in Ledgers |->
  LET common == {s \in 0..SeqOf[a] : s <= SeqOf[b] /\ AncestorOf[a][s] = AncestorOf[b][s]}
  IN Max(common) + 1]

IsAncestor(a, l) == SeqOf[a] <= SeqOf[l] /\ AncestorOf[l][SeqOf[a]] = a

-----------------------------------------------------------------------------
(* What the trie promises, for sup[l] supporters of each ledger l.         *)

Descendants == [l \in Ledgers |-> {d \in Ledgers : IsAncestor(l, d)}]

Branch(sup, l) == SumFunctionOnSet(sup, Descendants[l])

\* Supporters of ledgers before sequence s: they may yet support anything
\* from s on.
Uncommitted(sup, s) == SumFunctionOnSet(sup, {l \in Ledgers : SeqOf[l] < s})

Larger(a, b) == IF a > b THEN a ELSE b

Children(sup, l) == {c \in DOMAIN ParentOf : ParentOf[c] = l /\ Branch(sup, c) > 0}

\* By how much the best child of l leads the next best; an only child leads by
\* all its support, and a tie of support goes to the larger id.
Lead(sup, best, others) ==
  LET rival == CHOOSE c \in others : \A d \in others :
                 \/ Branch(sup, c) > Branch(sup, d)
                 \/ Branch(sup, c) = Branch(sup, d) /\ c >= d
  IN IF others = {} THEN Branch(sup, best)
     ELSE Branch(sup, best) - Branch(sup, rival) + (IF best > rival THEN 1 ELSE 0)

\* From genesis, the walk takes the best child as long as its lead cannot be
\* undone by the supporters who have not committed themselves to this depth.
PreferredFrom(sup, largest) ==
  LET walk[l \in Ledgers] ==
        LET kids == Children(sup, l)
            best == CHOOSE c \in kids : \A d \in kids :
                      \/ Branch(sup, c) > Branch(sup, d)
                      \/ Branch(sup, c) = Branch(sup, d) /\ c >= d
            open == Uncommitted(sup, Larger(SeqOf[l] + 1, largest))
        IN IF kids = {} THEN l
           ELSE IF Lead(sup, best, kids \ {best}) > open \/ open = 0
                THEN walk[best] ELSE l
  IN walk[Genesis]

\* The preferred ledger, or -1 when nothing is supported.
Preferred(sup, largest) ==
  IF Branch(sup, Genesis) = 0 THEN -1 ELSE PreferredFrom(sup, largest)
=============================================================================
