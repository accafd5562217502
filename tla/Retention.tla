----------------------------- MODULE Retention -----------------------------
(***************************************************************************)
(* What a pruned node store promises, after the reference oracle ModelStore: *)
(* ledgers are claimed in increasing order, a ledger leaves the history only *)
(* when the window has passed it and can_delete allows it, and a node is    *)
(* deleted only when no ledger left in the history needs it.                *)
(***************************************************************************)
EXTENDS Integers

CONSTANTS HashSet, LedgerSet, NodesOf(_), Window,
    Caps  \* the values of can_delete

VARIABLES
    history,  \* the ledgers still retained
    newest,   \* sequence of the last claim, 0 if none
    dropped,  \* the newest sequence given up, 0 if none
    stored    \* the nodes on disk

retention == <<history, newest, dropped, stored>>

RequiredNodes(H) == UNION {NodesOf(L) : L \in H}

\* The oldest sequence retained.  ModelStore raises it to its first ledger: below
\* that there is nothing to drop, and this floor is the stricter one.
RetainedFloor(claimed, can_delete) ==
    LET floor == IF claimed >= Window THEN claimed - (Window - 1) ELSE 0
    IN  IF floor <= can_delete THEN floor ELSE can_delete + 1

RetentionInit == history = {} /\ newest = 0 /\ dropped = 0 /\ stored = {}

Store(hs) ==
    /\ stored' = stored \cup hs
    /\ UNCHANGED <<history, newest, dropped>>

Claim(L) ==
    /\ L.seq > newest
    /\ NodesOf(L) \subseteq stored
    /\ history' = history \cup {L}
    /\ newest' = L.seq
    /\ UNCHANGED <<dropped, stored>>

\* A snapshot replaces the content of a store that has claimed nothing.
Adopt(L) ==
    /\ newest = 0
    /\ history' = {L} /\ newest' = L.seq
    /\ stored' = NodesOf(L)
    /\ UNCHANGED dropped

Drop(k, hs) ==
    /\ dropped <= k
    /\ \E can_delete \in Caps : k < RetainedFloor(newest, can_delete)
    /\ dropped' = k
    /\ history' = {L \in history : L.seq > k}
    /\ hs \cap RequiredNodes(history') = {}
    /\ stored' = stored \ hs
    /\ UNCHANGED newest

RetentionNext ==
    \/ \E hs \in SUBSET HashSet : Store(hs)
    \/ \E L \in LedgerSet : Claim(L) \/ Adopt(L)
    \/ \E k \in 0..newest, hs \in SUBSET HashSet : Drop(k, hs)

RetentionSpec == RetentionInit /\ [][RetentionNext]_retention
=============================================================================
