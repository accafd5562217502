----------------------------- MODULE LedgerTrie -----------------------------
(***************************************************************************)
(* The compressed ancestry trie (src/xrpld/consensus/src/model/            *)
(* ledger_trie.rs): an arena of nodes, each a span of one ledger's         *)
(* ancestry, linked by indices, with freed slots reused.  Index 1 is the   *)
(* root (ROOT = 0 in the code).  `sup` is what the caller has inserted and *)
(* not removed; it is only read by the properties.                         *)
(***************************************************************************)
EXTENDS LedgerAncestry, Sequences, FiniteSets, TLC

CONSTANT Bounds   \* the supporters at once: how many, and on which ledgers

VARIABLES nodes, seqSupport, free, sup

vars == <<nodes, seqSupport, free, sup>>

Root == 1
Seqs == {SeqOf[l] : l \in Ledgers}

-----------------------------------------------------------------------------
(* Span: [start, end) of the ancestry of a ledger.                         *)

Clamp(span, v) == IF v < span.start THEN span.start
                  ELSE IF v > span.end THEN span.end ELSE v

\* Span::sub, as a set of at most one span.
Sub(span, from, to) ==
  {[start |-> f, end |-> t, ledger |-> span.ledger] :
     f \in {Clamp(span, from)}, t \in {x \in {Clamp(span, to)} : Clamp(span, from) < x}}

Diff(span, l) == Clamp(span, Mismatch[span.ledger, l])
StartId(span) == AncestorOf[span.ledger][span.start]
TipId(span) == AncestorOf[span.ledger][span.end - 1]

\* Span::merge: the longer span brings the ledger.
Merge(a, b) ==
  [start |-> IF a.start < b.start THEN a.start ELSE b.start,
   end |-> IF a.end < b.end THEN b.end ELSE a.end,
   ledger |-> IF a.end < b.end THEN b.ledger ELSE a.ledger]

GenesisSpan == [start |-> 0, end |-> 1, ledger |-> Genesis]

\* Node::from_span, under parent p (0: none).
NodeOf(span, p) ==
  [span |-> span, tip |-> 0, branch |-> 0, children |-> <<>>, parent |-> p, live |-> TRUE]

Init ==
  /\ nodes = <<NodeOf(GenesisSpan, 0)>>
  /\ seqSupport = [s \in Seqs |-> 0]
  /\ free = <<>>
  /\ sup = [l \in Ledgers |-> 0]

-----------------------------------------------------------------------------
(* find, find_by_ledger_id and the arena.  An arena is a pair of nodes and *)
(* free slots.                                                             *)

Live(ns) == {i \in DOMAIN ns : ns[i].live}

RECURSIVE FindFrom(_, _, _, _)
FindFrom(ns, i, pos, l) ==
  LET kids == ns[i].children
      better == {k \in DOMAIN kids : ns[kids[k]].live /\ Diff(ns[kids[k]].span, l) > pos}
      first == kids[Min(better)]
  IN IF pos # ns[i].span.end \/ better = {} THEN <<i, pos>>
     ELSE FindFrom(ns, first, Diff(ns[first].span, l), l)

Find(ns, l) == FindFrom(ns, Root, Diff(ns[Root].span, l), l)

\* 0 when no live node ends in ledger l.
FindById(ns, l) ==
  LET hits == {i \in Live(ns) : TipId(ns[i].span) = l}
  IN IF hits = {} THEN 0 ELSE Min(hits)

\* alloc: the slot the next node goes to, and the arena with the node in it.
Slot(a) == IF a.free = <<>> THEN Len(a.nodes) + 1 ELSE a.free[Len(a.free)]

Alloc(a, node) ==
  IF a.free = <<>> THEN [a EXCEPT !.nodes = Append(@, node)]
  ELSE [a EXCEPT !.nodes[Slot(a)] = node, !.free = SubSeq(@, 1, Len(@) - 1)]

\* erase_child: the child leaves its parent's list and its slot is free.
EraseChild(a, parent, child) ==
  LET freed == [NodeOf(GenesisSpan, 0) EXCEPT !.live = FALSE]
  IN [nodes |-> [a.nodes EXCEPT ![parent].children = SelectSeq(@, LAMBDA c : c # child),
                                ![child] = freed],
      free |-> Append(a.free, child)]

\* Add n to the branch support of node i and of its ancestors.
RECURSIVE Climb(_, _, _)
Climb(ns, i, n) ==
  IF i = 0 THEN ns
  ELSE Climb([ns EXCEPT ![i].branch = @ + n], ns[i].parent, n)

-----------------------------------------------------------------------------
(* insert *)

\* The node at loc is cut in two: its tail becomes a child of what is left, with
\* the old node's support and its children, which get a new parent.
SplitAs(a, loc, prefix, tail, leftTip, adopted) ==
  LET old == a.nodes[loc]
      new == Slot(a)
      moved == [NodeOf(tail, loc) EXCEPT !.tip = old.tip, !.branch = old.branch,
                                         !.children = old.children]
      b == Alloc(a, moved)
      linked == [i \in DOMAIN b.nodes |->
                   IF i \in adopted THEN [b.nodes[i] EXCEPT !.parent = new] ELSE b.nodes[i]]
  IN [b EXCEPT !.nodes = [linked EXCEPT ![loc].span = prefix, ![loc].tip = leftTip,
                                        ![loc].children = <<new>>]]

\* Variant: the children keep their old parent.
SplitForgetsParents(a, loc, prefix, tail) == SplitAs(a, loc, prefix, tail, 0, {})

\* Variant: the upper half keeps the support of the tip.
SplitKeepsTip(a, loc, prefix, tail) ==
  SplitAs(a, loc, prefix, tail, a.nodes[loc].tip, Range(a.nodes[loc].children))

Split(a, loc, prefix, tail) ==
  SplitAs(a, loc, prefix, tail, 0, Range(a.nodes[loc].children))

InsertInto(a, l) ==
  LET found == Find(a.nodes, l)
      loc == found[1]
      span == a.nodes[loc].span
      prefix == Sub(span, span.start, found[2])
      oldSuffix == Sub(span, found[2], span.end)
      whole == [start |-> 0, end |-> SeqOf[l] + 1, ledger |-> l]
      newSuffix == Sub(whole, found[2], whole.end)
      b == IF oldSuffix = {} THEN a
           ELSE Split(a, loc, CHOOSE p \in prefix : TRUE, CHOOSE t \in oldSuffix : TRUE)
      c == IF newSuffix = {} THEN b
           ELSE LET grown == Alloc(b, NodeOf(CHOOSE t \in newSuffix : TRUE, loc))
                IN [grown EXCEPT !.nodes[loc].children = Append(@, Slot(b))]
      inc == IF newSuffix = {} THEN loc ELSE Slot(b)
  IN [c EXCEPT !.nodes = Climb([c.nodes EXCEPT ![inc].tip = @ + 1], inc, 1)]

Insert(l) ==
  /\ \E b \in Bounds : /\ l \in b.ledgers /\ \A k \in Ledgers \ b.ledgers : sup[k] = 0
                      /\ SumFunction(sup) < b.supporters
  /\ LET a == InsertInto([nodes |-> nodes, free |-> free], l)
     IN nodes' = a.nodes /\ free' = a.free
  /\ seqSupport' = [seqSupport EXCEPT ![SeqOf[l]] = @ + 1]
  /\ sup' = [sup EXCEPT ![l] = @ + 1]

-----------------------------------------------------------------------------
(* remove *)

\* A node without support of its own goes if it has no child, and gives way
\* to its child if it has one; then its parent is looked at.
RECURSIVE Compress(_, _)
Compress(a, loc) ==
  LET node == a.nodes[loc]
      kids == SelectSeq(node.children, LAMBDA c : a.nodes[c].live)
      p == node.parent
      child == kids[1]
      lifted == [a EXCEPT !.nodes[child].span = Merge(node.span, a.nodes[child].span),
                          !.nodes[child].parent = p,
                          !.nodes[p].children = Append(@, child)]
  IN IF node.tip # 0 \/ loc = Root \/ Len(kids) > 1 THEN a
     ELSE IF kids = <<>> THEN Compress(EraseChild(a, p, loc), p)
     ELSE Compress(EraseChild(lifted, p, loc), p)

RemoveFrom(l, loc) ==
  /\ LET down == Climb([nodes EXCEPT ![loc].tip = @ - 1], loc, -1)
         a == Compress([nodes |-> down, free |-> free], loc)
     IN nodes' = a.nodes /\ free' = a.free
  /\ seqSupport' = [seqSupport EXCEPT ![SeqOf[l]] = @ - 1]
  /\ sup' = [sup EXCEPT ![l] = IF @ = 0 THEN 0 ELSE @ - 1]

\* remove(l): nothing happens to a ledger that has no support.
Remove(l) ==
  LET loc == FindById(nodes, l) IN loc # 0 /\ nodes[loc].tip # 0 /\ RemoveFrom(l, loc)

Next == \E l \in Ledgers : Insert(l) \/ Remove(l)

Spec == Init /\ [][Next]_vars

-----------------------------------------------------------------------------
(* tip_support, branch_support, get_preferred *)

TipSupport(l) == LET i == FindById(nodes, l) IN IF i = 0 THEN 0 ELSE nodes[i].tip

BranchSupport(l) ==
  LET i == FindById(nodes, l)
      found == Find(nodes, l)
  IN IF i # 0 THEN nodes[i].branch
     ELSE IF found[2] > SeqOf[l] /\ SeqOf[l] < nodes[found[1]].span.end
          THEN nodes[found[1]].branch ELSE 0

\* The uncommitted support the loops have added up once every sequence below s
\* is behind them.
Below(s) == SumFunctionOnSet(seqSupport, {q \in Seqs : q < s})

\* Inside a span: the first sequence at which the branch's support no longer
\* exceeds the uncommitted support, or the span's end.
RECURSIVE AlongSpan(_, _, _)
AlongSpan(node, next, passed) ==
  LET ahead == {q \in Seqs : q >= passed /\ seqSupport[q] > 0 /\ q < node.span.end}
  IN IF next >= node.span.end \/ node.branch <= Below(passed) THEN <<next, passed>>
     ELSE IF ahead = {} THEN <<node.span.end, passed>>
     ELSE AlongSpan(node, Min(ahead) + 1, Min(ahead) + 1)

\* The children in the order of the code's sort: support, then start id.
Ranked(kids) ==
  SortSeq(kids, LAMBDA a, b :
    \/ nodes[a].branch > nodes[b].branch
    \/ nodes[a].branch = nodes[b].branch /\ StartId(nodes[a].span) > StartId(nodes[b].span))

\* Variant: the tie-break is not worth a supporter.
MarginWithoutTie(ranked) ==
  IF Len(ranked) = 1 THEN nodes[ranked[1]].branch
  ELSE nodes[ranked[1]].branch - nodes[ranked[2]].branch

MarginOf(ranked) ==
  IF Len(ranked) = 1 THEN nodes[ranked[1]].branch
  ELSE nodes[ranked[1]].branch - nodes[ranked[2]].branch
       + (IF StartId(nodes[ranked[1]].span) > StartId(nodes[ranked[2]].span) THEN 1 ELSE 0)

\* Whether the uncommitted supporters cannot undo the lead of the best child.
Settled(margin, open) == margin > open \/ open = 0

RECURSIVE Descend(_, _, _)
Descend(i, passed, largest) ==
  LET node == nodes[i]
      first == Larger(node.span.start + 1, largest)
      along == AlongSpan(node, node.span.start + 1, Larger(passed, first))
      ranked == Ranked(SelectSeq(node.children, LAMBDA c : nodes[c].live))
      open == Below(along[2])
  IN IF along[1] < node.span.end THEN AncestorOf[node.span.ledger][along[1] - 1]
     ELSE IF ranked = <<>> THEN TipId(node.span)
     ELSE IF Settled(MarginOf(ranked), open)
          THEN Descend(ranked[1], along[2], largest)
          ELSE TipId(node.span)

GetPreferred(largest) ==
  IF nodes[Root].branch = 0 THEN -1 ELSE Descend(Root, 0, largest)

-----------------------------------------------------------------------------
(* Properties *)

\* Every variable has its type.
TypeOK ==
  /\ \A i \in DOMAIN nodes : nodes[i].tip \in Nat /\ nodes[i].branch \in Nat
  /\ seqSupport \in [Seqs -> Nat]
  /\ Range(free) \subseteq DOMAIN nodes
  /\ sup \in [Ledgers -> Nat]

\* The arena's links are sound: freed slots are exactly the dead ones, none is
\* reachable, each once; a child's parent link points back; a child's span
\* begins where its parent's ends, on the same ancestry.  And the trie stays
\* compressed: a node other than the root without support of its own has at least
\* two children, so it never outgrows its supporters (insert, remove, erase_child).
ArenaSound ==
  /\ TypeOK
  /\ Range(free) = DOMAIN nodes \ Live(nodes)
  /\ Cardinality(Range(free)) = Len(free)
  /\ \A i \in Live(nodes) :
       /\ \A c \in Range(nodes[i].children) :
            /\ c \in Live(nodes) /\ nodes[c].parent = i
            /\ nodes[c].span.start = nodes[i].span.end
            /\ IsAncestor(TipId(nodes[i].span), TipId(nodes[c].span))
       /\ i # Root => /\ nodes[i].parent \in Live(nodes)
                      /\ i \in Range(nodes[nodes[i].parent].children)
                      /\ nodes[i].tip = 0 => Len(nodes[i].children) >= 2

\* tip_support and branch_support of every ledger, also one inside a span or
\* unknown to the trie, are what the supporters say.
SupportIsExact ==
  \A l \in Ledgers : TipSupport(l) = sup[l] /\ BranchSupport(l) = Branch(sup, l)

\* The walk over spans picks the ledger the definition picks ledger by ledger,
\* whatever the largest sequence this node has issued (get_preferred).
PreferredIsExact ==
  \A s \in Seqs : GetPreferred(s) = Preferred(sup, s)
=============================================================================
