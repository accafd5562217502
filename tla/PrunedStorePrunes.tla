------------------------- MODULE PrunedStorePrunes --------------------------
(***************************************************************************)
(* The inductive invariant of PrunedStore: a prune pass preserves it.      *)
(***************************************************************************)
EXTENDS PrunedStoreTypes

USE BoundsAssumption DEF disk, index, prune, admin

\* The end of a claim, the choice of a target, and a pass that finds no row.
LEMMA BetweenInv ==
    ASSUME Inv, TypeOK', ClaimUnwatch \/ PruneTarget \/ PruneDone
    PROVE  IndexInv'
<1> USE DEF Inv, IndexInv
<1>1. UNCHANGED <<disk, index, job, holds, ledgers, pending>>
  BY DEF ClaimUnwatch, PruneTarget, PruneDone
<1>2. /\ pc \in {"unwatch", "cap", "prune"} /\ pc' \in {"cap", "prune", "settle", "sweep"}
      /\ claimed.seq # 0 /\ job.seq = claimed.seq
  BY DEF ClaimUnwatch, PruneTarget, PruneDone, JobInv
<1>3. pc' = "prune" => target' <= SatSub(claimed.seq, OnlineDelete) /\ \A s \in Held : target' < s
  <2> SUFFICES ASSUME pc' = "prune"
               PROVE  target' <= SatSub(claimed.seq, OnlineDelete) /\ \A s \in Held : target' < s
    OBVIOUS
  <2>1. PICK cap \in EffectivePruneCap : target' = MinNat(WindowK, cap)
    BY DEF ClaimUnwatch, PruneTarget, PruneDone
  <2>2. cap \in Nat /\ \A s \in Held : cap < s
    <3>1. canDelete \in Nat
      BY DEF TypeOK, AdminType
    <3>2. CASE Held = {}
      BY <3>1, <3>2 DEF EffectivePruneCap
    <3>3. CASE Held # {}
      <4>1. PICK t \in OldestHeld : cap = MinNat(canDelete, t - 1)
        BY <3>3 DEF EffectivePruneCap
      <4>2. t \in Seqs /\ Held \subseteq Seqs /\ \A s \in Held : t <= s
        BY <4>1 DEF OldestHeld, Held
      <4> QED BY <3>1, <4>1, <4>2 DEF MinNat, Seqs
    <3> QED BY <3>2, <3>3
  <2>3. WindowK = SatSub(claimed.seq, OnlineDelete) /\ WindowK \in Nat
    BY <1>2 DEF WindowK, SatSub, TypeOK, DiskType
  <2> QED BY <2>1, <2>2, <2>3 DEF MinNat, Held, Seqs
<1>4. RetainedComplete' /\ PendingInv' /\ JobInv'
  BY <1>1, <1>2 DEF RetainedComplete, Complete, PendingInv, JobInv
<1>5. ClaimsInv' /\ DeathInv'
  BY <1>1 DEF ClaimsInv, DeathInv
<1>6. RowInv' /\ PinInv'
  BY <1>1 DEF RowInv, PinInv, NoRow, OwnerBefore
<1>7. ChunkInv'
  BY <1>1, <1>2, <1>3 DEF ChunkInv
<1>8. HoldInv'
  BY <1>1, <1>2, <1>3 DEF HoldInv, HoldsRespected, Held
<1>9. PassExhausts'
  BY DEF ClaimUnwatch, PruneTarget, PruneDone, PassExhausts, Due
<1> QED BY <1>4, <1>5, <1>6, <1>7, <1>8, <1>9

-----------------------------------------------------------------------------
(* Prune *)

\* A chunk is a prefix of the scan, and the last chunk is all that is due.
LEMMA PruneBeginInv ==
    ASSUME Inv, TypeOK', PruneBegin
    PROVE  IndexInv'
<1> USE DEF Inv, IndexInv
<1>1. PICK rows \in SUBSET Due :
        /\ IsChunk(rows) /\ chunk' = rows
        /\ needed' = {h \in Hashes(rows) : watch[h] \in {"Restored", "Rescued"}}
  BY DEF PruneBegin
<1>2. /\ pc = "prune" /\ pc' = "delete" /\ Due # {}
      /\ final' = (Cardinality(Due) < PruneBatch)
      /\ UNCHANGED <<disk, index, job, target, holds, ledgers, pending>>
  BY DEF PruneBegin
<1>3. \A q \in notebook : q.seq \in Nat /\ q.seq > prunedTo
  BY DEF RowInv, TypeOK, DiskType, Rows
<1>4. \A q \in notebook : q \notin Due => q.seq > target
  BY <1>3 DEF Due, TypeOK, PassType, DiskType
<1>6. rows \subseteq notebook /\ \A r \in rows : r.seq <= target
  BY DEF Due
<1>7. \A r \in rows, q \in notebook \ rows : r.seq <= q.seq
  <2> SUFFICES ASSUME NEW r \in rows, NEW q \in notebook \ rows PROVE r.seq <= q.seq
    OBVIOUS
  <2>1. CASE q \in Due
    BY <1>1, <2>1 DEF IsChunk
  <2>2. CASE q \notin Due
    BY <1>3, <1>4, <1>6, <2>2 DEF TypeOK, PassType
  <2> QED BY <2>1, <2>2
<1>8. final' => \A q \in notebook \ rows : q.seq > target
  BY <1>1, <1>2, <1>4, Zenon DEF IsChunk
<1>9. ChunkInv'
  <2>1. \A r, q \in rows : r.hash = q.hash => r = q
    BY <1>6 DEF RowInv
  <2>2. needed' \subseteq Hashes(rows)
    BY <1>1
  <2>3. target <= SatSub(claimed.seq, OnlineDelete)
    BY <1>2 DEF ChunkInv
  <2> QED BY <1>1, <1>2, <1>6, <1>7, <1>8, <2>1, <2>2, <2>3 DEF ChunkInv, Hashes
<1>10. RetainedComplete' /\ PendingInv' /\ JobInv'
  BY <1>2 DEF RetainedComplete, Complete, PendingInv, JobInv
<1>11. ClaimsInv' /\ DeathInv'
  BY <1>2 DEF ClaimsInv, DeathInv
<1>12. RowInv' /\ PinInv'
  BY <1>2 DEF RowInv, PinInv, NoRow, OwnerBefore
<1>13. HoldInv' /\ PassExhausts'
  BY <1>2 DEF HoldInv, HoldsRespected, Held, PassExhausts
<1> QED BY <1>9, <1>10, <1>11, <1>12, <1>13

\* Where the batch of a chunk leaves the cursor: not before any record of the
\* chunk but its last sequence, past no record left, within the target.
LEMMA CursorMove ==
    ASSUME Inv, PruneCommit
    PROVE  /\ prunedTo' \in Nat /\ prunedTo <= prunedTo' /\ prunedTo' <= target
           /\ \A r \in chunk : r.seq <= prunedTo' + 1
           /\ \A q \in notebook \ chunk : prunedTo' < q.seq
           /\ final => prunedTo' = target
<1> USE DEF Inv, IndexInv
<1>1. pc = "delete"
  BY DEF PruneCommit
<1>2. PICK highest \in Highest : prunedTo' = AdvanceTo(highest)
  BY DEF PruneCommit
<1>3. PICK top \in chunk : highest = top.seq /\ \A p \in chunk : p.seq <= highest
  BY DEF Highest
<1>4. /\ \A r \in chunk : r.seq \in Nat /\ prunedTo < r.seq /\ r.seq <= target
      /\ \A q \in notebook \ chunk : q.seq \in Nat /\ highest <= q.seq
      /\ final => \A q \in notebook \ chunk : q.seq > target
  BY <1>1, <1>3 DEF ChunkInv, RowInv, TypeOK, DiskType, Rows
<1>5. prunedTo \in Nat /\ target \in Nat /\ highest \in Nat /\ prunedTo < highest /\ highest <= target
  BY <1>3, <1>4 DEF TypeOK, DiskType, PassType
<1>6. CASE final
  BY <1>2, <1>4, <1>5, <1>6 DEF AdvanceTo
<1>7. CASE ~final
  BY <1>2, <1>3, <1>4, <1>5, <1>7 DEF AdvanceTo
<1> QED BY <1>6, <1>7

\* The batch of a chunk deletes no node a ledger above the cursor needs.
LEMMA PruneCommitInv ==
    ASSUME Inv, TypeOK', PruneCommit
    PROVE  IndexInv'
<1> USE DEF Inv, IndexInv
<1>1. /\ pc = "delete" /\ pc' = "finish"
      /\ nodes' = nodes \ deleted' /\ notebook' = notebook \ chunk
      /\ deleted' = {r.hash : r \in {q \in chunk : Deletable(q)}}
      /\ UNCHANGED <<claimed, job, target, chunk, final, needed, holds, ledgers, pending>>
  BY DEF PruneCommit
<1>2. /\ prunedTo' \in Nat /\ prunedTo <= prunedTo' /\ prunedTo' <= target
      /\ \A r \in chunk : r.seq <= prunedTo' + 1
      /\ \A q \in notebook \ chunk : prunedTo' < q.seq
      /\ final => prunedTo' = target
  BY CursorMove
<1>3. /\ chunk \subseteq notebook /\ needed \subseteq Hashes(chunk) /\ claimed.seq # 0
      /\ target <= SatSub(claimed.seq, OnlineDelete) /\ job.seq = claimed.seq
  BY <1>1 DEF ChunkInv, JobInv
<1>4. /\ \A h \in Nodes : counts'[h] = IF h \in deleted' THEN 0 ELSE counts[h]
      /\ \A h \in Nodes : deadPending'[h] = IF h \in Hashes(chunk) THEN 0 ELSE deadPending[h]
  BY DEF PruneCommit
<1>5. deleted' \subseteq Hashes(chunk)
  BY <1>1 DEF Hashes
<1>6. \A q \in notebook' : q \in notebook /\ q.hash \in Nodes /\ q.hash \notin Hashes(chunk)
  BY <1>1, <1>3 DEF Hashes, RowInv, TypeOK, DiskType, Rows
<1>7. \A r \in chunk : /\ r \in Rows /\ NoRow(r.hash)' /\ r.hash \notin claimed.state
                       /\ OwnerBefore(r.hash, r.seq) /\ OwnerBefore(r.hash, r.seq)'
  BY <1>1, <1>3, <1>6 DEF NoRow, RowInv, OwnerBefore, Hashes, TypeOK, DiskType
<1>8. RetainedComplete'
  <2> SUFFICES ASSUME NEW L \in ledgers, L.seq > prunedTo',
                      NEW h \in L.state \cup OwnedBy[L.seq], h \in deleted'
               PROVE  FALSE
    BY <1>1, <1>2 DEF RetainedComplete, Complete, TypeOK, ClientType, DiskType, Ledgers, Seqs
  <2>1. PICK r \in chunk : r.hash = h /\ Deletable(r)
    BY <1>1
  <2>2. L \in Ledgers /\ r \in Rows /\ r.seq <= L.seq
    BY <1>2, <1>7, <2>1 DEF TypeOK, ClientType, Ledgers, Rows, Seqs
  <2>3. CASE h \in L.state
    <3>1. r.kind = "State"
      BY <1>3, <2>1, <2>2, <2>3, OwnedAssumption DEF RowInv, Ledgers, Rows
    <3>2. counts[h] = r.seq /\ r.seq # 0
      BY <2>1, <2>2, <3>1 DEF Deletable, Rows
    <3>3. counts[h] > L.seq
      BY <2>3, <3>2 DEF DeathInv
    <3> QED BY <2>2, <3>2, <3>3 DEF Ledgers, Rows, Seqs
  <2>4. CASE h \in OwnedBy[L.seq]
    <3>1. L.seq < r.seq
      BY <1>7, <2>1, <2>2, <2>4 DEF OwnerBefore, Ledgers
    <3> QED BY <2>2, <3>1 DEF Ledgers, Rows, Seqs
  <2> QED BY <2>3, <2>4
<1>9. ClaimsInv'
  <2>1. prunedTo' <= SatSub(claimed.seq, OnlineDelete)
    BY <1>2, <1>3 DEF TypeOK, DiskType, PassType, SatSub
  <2> QED BY <1>1, <1>3, <2>1 DEF ClaimsInv
<1>10. PendingInv' /\ JobInv'
  BY <1>1, <1>3 DEF PendingInv, JobInv
<1>11. DeathInv'
  <2>1. \A h \in Nodes : counts'[h] = 0 \/ counts'[h] = counts[h]
    BY <1>4
  <2>2. \A L \in ledgers : L.state \subseteq Nodes
    BY DEF TypeOK, ClientType, Ledgers, Nodes
  <2> QED BY <1>1, <2>1, <2>2 DEF DeathInv, TypeOK, DiskType
<1>12. RowInv'
  <2>1. ASSUME NEW q \in notebook'
        PROVE  counts'[q.hash] = counts[q.hash] /\ deadPending'[q.hash] = deadPending[q.hash]
    BY <1>4, <1>5, <1>6
  <2>2. ASSUME NEW h \in Nodes, deadPending'[h] # 0
        PROVE  Row(deadPending'[h], h, "State") \in notebook'
    <3>1. h \notin Hashes(chunk) /\ deadPending'[h] = deadPending[h]
      BY <1>4, <2>2
    <3>2. Row(deadPending[h], h, "State") \in notebook
      BY <2>2, <3>1 DEF RowInv
    <3>3. Row(deadPending[h], h, "State") \notin chunk
      BY <3>1 DEF Hashes, Row
    <3> QED BY <1>1, <3>1, <3>2, <3>3
  <2> QED BY <1>1, <1>2, <1>6, <2>1, <2>2 DEF RowInv, OwnerBefore
<1>13. PinInv'
  <2> SUFFICES ASSUME NEW h \in Nodes, unclaimed'[h] # Absent
               PROVE  h \notin claimed.state /\ NoRow(h)' /\ OwnerBefore(h, unclaimed[h])'
    BY <1>1 DEF PinInv
  <2>1. CASE unclaimed[h] # Absent
    <3>1. unclaimed'[h] = unclaimed[h]
      BY <2>1 DEF PruneCommit, Pin
    <3> QED BY <1>1, <2>1, <3>1 DEF PinInv, NoRow, OwnerBefore
  <2>2. CASE unclaimed[h] = Absent
    <3>1. h \in needed /\ unclaimed'[h] = RowSeq(h)
      BY <2>2 DEF PruneCommit, Pin
    <3>2. PICK r \in chunk : r.hash = h
      BY <1>3, <3>1 DEF Hashes
    <3>3. RowSeq(h) = r.seq
      BY <1>1, <3>2, RowSeqOf
    <3> QED BY <1>1, <1>7, <3>1, <3>2, <3>3 DEF OwnerBefore
  <2> QED BY <2>1, <2>2
<1>14. ChunkInv'
  BY <1>1, <1>2, <1>3, <1>5, <1>7 DEF ChunkInv, Hashes
<1>15. HoldInv' /\ PassExhausts'
  BY <1>1, <1>2 DEF HoldInv, HoldsRespected, Held, PassExhausts, TypeOK, PassType, Seqs
<1> QED BY <1>8, <1>9, <1>10, <1>11, <1>12, <1>13, <1>14, <1>15

\* finish_delete only reads the watch.
LEMMA PruneFinishInv ==
    ASSUME Inv, TypeOK', PruneFinish
    PROVE  IndexInv'
<1> USE DEF Inv, IndexInv
<1>1. /\ pc = "finish" /\ pc' = "rescue" /\ rescued' \subseteq deleted
      /\ UNCHANGED <<disk, index, job, target, chunk, final, needed, deleted,
                     holds, ledgers, pending>>
  BY DEF PruneFinish
<1>2. RetainedComplete' /\ PendingInv' /\ JobInv'
  BY <1>1 DEF RetainedComplete, Complete, PendingInv, JobInv
<1>3. ClaimsInv' /\ DeathInv'
  BY <1>1 DEF ClaimsInv, DeathInv
<1>4. RowInv' /\ PinInv'
  BY <1>1 DEF RowInv, PinInv, NoRow, OwnerBefore
<1>5. ChunkInv'
  BY <1>1 DEF ChunkInv, NoRow, OwnerBefore, Hashes
<1>6. HoldInv' /\ PassExhausts'
  BY <1>1 DEF HoldInv, HoldsRespected, Held, PassExhausts
<1> QED BY <1>2, <1>3, <1>4, <1>5, <1>6

\* A rescued node is pinned at the sequence of the record it lost.
LEMMA PruneRescueInv ==
    ASSUME Inv, TypeOK', PruneRescue
    PROVE  IndexInv'
<1> USE DEF Inv, IndexInv
<1>1. /\ pc = "rescue" /\ pc' = AfterChunk /\ nodes \subseteq nodes'
      /\ UNCHANGED <<notebook, counts, claimed, prunedTo, deadPending, job, target,
                     final, holds, ledgers, pending>>
  BY DEF PruneRescue
<1>2. pc' \in {"sweep", "prune"} /\ claimed.seq # 0 /\ job.seq = claimed.seq
  BY <1>1 DEF AfterChunk, JobInv
<1>3. RetainedComplete' /\ PendingInv' /\ JobInv'
  BY <1>1, <1>2 DEF RetainedComplete, Complete, PendingInv, JobInv
<1>4. ClaimsInv' /\ DeathInv'
  BY <1>1, <1>2 DEF ClaimsInv, DeathInv
<1>5. RowInv'
  BY <1>1 DEF RowInv, OwnerBefore
<1>6. PinInv'
  <2> SUFFICES ASSUME NEW h \in Nodes, unclaimed'[h] # Absent
               PROVE  h \notin claimed.state /\ NoRow(h)' /\ OwnerBefore(h, unclaimed[h])'
    BY <1>1 DEF PinInv
  <2>1. CASE unclaimed[h] # Absent
    <3>1. unclaimed'[h] = unclaimed[h]
      BY <2>1 DEF PruneRescue, Pin
    <3> QED BY <1>1, <2>1, <3>1 DEF PinInv, NoRow, OwnerBefore
  <2>2. CASE unclaimed[h] = Absent
    <3>1. h \in rescued /\ unclaimed'[h] = RowSeq(h)
      BY <2>2 DEF PruneRescue, Pin
    <3>2. PICK r \in chunk : r.hash = h
      BY <1>1, <3>1 DEF ChunkInv, Hashes
    <3>3. RowSeq(h) = r.seq
      BY <1>1, <3>2, RowSeqOf
    <3> QED BY <1>1, <3>1, <3>2, <3>3 DEF ChunkInv, NoRow, OwnerBefore
  <2> QED BY <2>1, <2>2
<1>7. ChunkInv'
  BY <1>1, <1>2 DEF ChunkInv
<1>8. HoldInv'
  BY <1>1, <1>2 DEF HoldInv, HoldsRespected, Held
<1>9. PassExhausts'
  <2>1. final => prunedTo = target
    BY <1>1 DEF ChunkInv
  <2>2. pc' = "sweep" => final
    BY <1>1 DEF AfterChunk
  <2> QED BY <1>1, <2>1, <2>2 DEF PassExhausts, Due, TypeOK, DiskType, PassType, Rows
<1> QED BY <1>3, <1>4, <1>5, <1>6, <1>7, <1>8, <1>9
=============================================================================
