------------------------- MODULE PrunedStoreProofs --------------------------
(***************************************************************************)
(* The index of PrunedStore is sound for every set of nodes, window, batch *)
(* size and number of threads: every action preserves the invariant, so it *)
(* holds in every reachable state, and the store implements Retention.     *)
(***************************************************************************)
EXTENDS PrunedStoreClaims, PrunedStorePrunes

USE BoundsAssumption DEF disk, index, prune, admin

\* orphan_sweep gives a death record to a pinned node that no retained ledger,
\* and no ledger still to come before its record is due, can need.
LEMMA OrphanSweepInv ==
    ASSUME Inv, TypeOK', OrphanSweep
    PROVE  IndexInv'
<1> USE DEF Inv, IndexInv
<1>1. /\ pc = "sweep" /\ pc' = "settle" /\ claimed.seq # 0 /\ job.seq = claimed.seq
      /\ notebook' = PutRows(notebook, {Row(job.seq, h, "State") : h \in Orphans})
      /\ UNCHANGED <<nodes, claimed, prunedTo, pending, job, prune, holds, ledgers>>
  BY DEF OrphanSweep, JobInv
<1>2. /\ \A h \in Nodes : counts'[h] = IF h \in Orphans THEN job.seq ELSE counts[h]
      /\ \A h \in Nodes : deadPending'[h] = IF h \in Orphans THEN job.seq ELSE deadPending[h]
      /\ \A h \in Nodes : unclaimed'[h] = IF h \in Orphans THEN Absent ELSE unclaimed[h]
  BY DEF OrphanSweep
<1>3. job.seq \in Seqs /\ job.seq > prunedTo /\ WindowK < job.seq /\ WindowK \in Nat
  BY <1>1 DEF ClaimsInv, TypeOK, WorkerType, DiskType, SatSub, WindowK, Seqs
<1>4. \A h \in Orphans : /\ h \in Nodes /\ h \notin claimed.state /\ NoRow(h)
                         /\ unclaimed[h] < job.seq /\ OwnerBefore(h, job.seq)
  BY <1>3 DEF Orphans, PinInv, OwnerBefore, TypeOK, MemoryType, Absent, Seqs
<1>5. \A q \in notebook : q \in notebook' /\ q.hash \in Nodes /\ q.hash \notin Orphans
  <2> SUFFICES ASSUME NEW q \in notebook
               PROVE  q \in notebook' /\ q.hash \in Nodes /\ q.hash \notin Orphans
    OBVIOUS
  <2>1. q.hash \notin Orphans /\ q.hash \in Nodes
    BY <1>4 DEF NoRow, TypeOK, DiskType, Rows
  <2>2. \A r \in {Row(job.seq, h, "State") : h \in Orphans} : r.hash # q.hash
    BY <2>1 DEF Row
  <2>3. <<q.seq, q.hash>> \notin {<<r.seq, r.hash>> : r \in {Row(job.seq, h, "State") : h \in Orphans}}
    BY <2>2
  <2> QED BY <1>1, <2>1, <2>3 DEF PutRows, DropKeys
<1>6. \A q \in notebook' : \/ q \in notebook
                           \/ q.hash \in Orphans /\ q = Row(job.seq, q.hash, "State")
  BY <1>1 DEF PutRows, DropKeys, Row
<1>7. RetainedComplete' /\ PendingInv' /\ JobInv'
  BY <1>1 DEF RetainedComplete, Complete, PendingInv, JobInv
<1>8. ClaimsInv'
  BY <1>1 DEF ClaimsInv
<1>9. DeathInv'
  <2>1. ASSUME NEW L \in ledgers, NEW h \in L.state
        PROVE  counts'[h] = 0 \/ counts'[h] > L.seq
    <3>1. h \in Nodes /\ L \in Ledgers
      BY DEF TypeOK, ClientType, Ledgers, Nodes
    <3>2. CASE h \in Orphans
      <4>1. L.seq < claimed.seq
        BY <1>4, <2>1, <3>1, <3>2 DEF ClaimsInv, Ledgers, Seqs, TypeOK, DiskType
      <4> QED BY <1>1, <1>2, <3>1, <3>2, <4>1
    <3>3. CASE h \notin Orphans
      BY <1>2, <2>1, <3>1, <3>3 DEF DeathInv
    <3> QED BY <3>2, <3>3
  <2>2. ASSUME NEW h \in Nodes PROVE counts'[h] <= claimed.seq
    BY <1>1, <1>2, <1>3 DEF DeathInv, Seqs
  <2> QED BY <1>1, <2>1, <2>2 DEF DeathInv
<1>10. RowInv'
  <2>1. ASSUME NEW q \in notebook'
        PROVE  /\ q.seq > prunedTo
               /\ q.hash \notin claimed.state
               /\ OwnerBefore(q.hash, q.seq)
               /\ q.kind = "State" => counts'[q.hash] = q.seq /\ deadPending'[q.hash] = q.seq
               /\ q.kind = "Owned" => q.hash \in TxNodes
    <3>1. CASE q \in notebook
      BY <1>2, <1>5, <3>1 DEF RowInv
    <3>2. CASE q.hash \in Orphans /\ q = Row(job.seq, q.hash, "State")
      <4>1. q.seq = job.seq /\ q.kind = "State"
        BY <3>2 DEF Row
      <4> QED BY <1>2, <1>3, <1>4, <3>2, <4>1
    <3> QED BY <1>6, <3>1, <3>2
  <2>2. ASSUME NEW r \in notebook', NEW q \in notebook', r.hash = q.hash PROVE r = q
    BY <1>5, <1>6, <2>2 DEF RowInv
  <2>3. ASSUME NEW h \in Nodes, deadPending'[h] # 0
        PROVE  Row(deadPending'[h], h, "State") \in notebook'
    <3>1. CASE h \in Orphans
      BY <1>1, <1>2, <3>1 DEF PutRows
    <3>2. CASE h \notin Orphans
      BY <1>2, <1>5, <2>3, <3>2 DEF RowInv
    <3> QED BY <3>1, <3>2
  <2> QED BY <1>1, <2>1, <2>2, <2>3 DEF RowInv, OwnerBefore
<1>11. PinInv'
  <2> SUFFICES ASSUME NEW h \in Nodes, unclaimed'[h] # Absent
               PROVE  h \notin claimed.state /\ NoRow(h)' /\ OwnerBefore(h, unclaimed[h])'
    BY <1>1 DEF PinInv
  <2>1. h \notin Orphans /\ unclaimed'[h] = unclaimed[h] /\ unclaimed[h] # Absent
    BY <1>2
  <2>2. NoRow(h)'
    BY <1>6, <2>1 DEF PinInv, NoRow
  <2> QED BY <1>1, <2>1, <2>2 DEF PinInv, OwnerBefore
<1>12. ChunkInv' /\ PassExhausts'
  BY <1>1 DEF ChunkInv, PassExhausts
<1>13. HoldInv'
  BY <1>1 DEF HoldInv, HoldsRespected, Held
<1> QED BY <1>7, <1>8, <1>9, <1>10, <1>11, <1>12, <1>13

\* The ledgers below the cursor leave the advertised range.
LEMMA SettleInv ==
    ASSUME Inv, TypeOK', NEW v \in BOOLEAN, Settle(v)
    PROVE  IndexInv'
<1> USE DEF Inv, IndexInv
<1>1. /\ pc = "settle" /\ pc' = "idle" /\ claimed.seq # 0
      /\ ledgers' = {L \in ledgers : L.seq > prunedTo}
      /\ UNCHANGED <<disk, index, holds, pending>>
  BY DEF Settle, JobInv
<1>2. claimed \in ledgers'
  BY <1>1 DEF ClaimsInv, SatSub, TypeOK, DiskType
<1>3. RetainedComplete' /\ PendingInv'
  BY <1>1 DEF RetainedComplete, Complete, PendingInv
<1>4. ClaimsInv' /\ DeathInv'
  BY <1>1, <1>2 DEF ClaimsInv, DeathInv
<1>5. RowInv' /\ PinInv'
  BY <1>1 DEF RowInv, PinInv, NoRow, OwnerBefore
<1>6. JobInv' /\ ChunkInv' /\ PassExhausts'
  BY <1>1 DEF JobInv, ChunkInv, PassExhausts
<1>7. HoldInv'
  BY <1>1 DEF HoldInv, HoldsRespected, Held
<1> QED BY <1>3, <1>4, <1>5, <1>6, <1>7

-----------------------------------------------------------------------------
(* The theorems *)

\* Every step preserves the invariant.
LEMMA NextInv == Inv /\ [Next]_vars => Inv'
<1> SUFFICES ASSUME Inv, [Next]_vars PROVE Inv'
  OBVIOUS
<1>1. TypeOK'
  BY WorkerStepType, EnvironmentType, StutterType DEF Next
<1>2. CASE Worker
  <2>1. CASE TakeClaimed \/ DeltaUnreadable
    BY <1>1, <2>1, ArrivalInv DEF Inv
  <2>2. CASE Anchor
    BY <1>1, <2>2, AnchorInv DEF Inv
  <2>3. CASE ComputeClaimDelta \/ RestoreMissing \/ ClaimWatch
    BY <1>1, <2>3, BeforeClaimInv DEF Inv
  <2>4. CASE ClaimCommit
    BY <1>1, <2>4, ClaimCommitInv DEF Inv
  <2>5. CASE ClaimUnwatch \/ PruneTarget \/ PruneDone
    BY <1>1, <2>5, BetweenInv DEF Inv
  <2>6. CASE PruneBegin
    BY <1>1, <2>6, PruneBeginInv DEF Inv
  <2>7. CASE PruneCommit
    BY <1>1, <2>7, PruneCommitInv DEF Inv
  <2>8. CASE PruneFinish
    BY <1>1, <2>8, PruneFinishInv DEF Inv
  <2>9. CASE PruneRescue
    BY <1>1, <2>9, PruneRescueInv DEF Inv
  <2>10. CASE OrphanSweep
    BY <1>1, <2>10, OrphanSweepInv DEF Inv
  <2>11. CASE \E v \in BOOLEAN : Settle(v)
    BY <1>1, <2>11, SettleInv DEF Inv
  <2> QED BY <1>2, <2>1, <2>2, <2>3, <2>4, <2>5, <2>6, <2>7, <2>8, <2>9, <2>10, <2>11
          DEF Worker
<1>3. CASE Environment
  <2>1. CASE \/ \E h \in Nodes : FetchWatched(h)
             \/ \E c \in Clients : FetchPlain(c)
             \/ \E c \in Clients, h \in Nodes : FetchCheck(c, h) \/ BeforeWrite(c, h)
    BY <1>1, <2>1, ReadInv DEF Inv
  <2>2. CASE \E c \in Clients : WriteNode(c)
    BY <1>1, <2>2, WriteInv DEF Inv
  <2>3. CASE (\E k \in CanDeletes : SetCanDelete(k)) \/ (\E s \in Seqs : DropHold(s))
    BY <1>1, <2>3, AdminInv DEF Inv
  <2>4. CASE \E s \in Seqs : HoldPruningAt(s)
    BY <1>1, <2>4, HoldStepInv DEF Inv
  <2>5. CASE \E s \in Seqs, S \in SUBSET StateNodes : AdoptSnapshot(s, S)
    BY <1>1, <2>5, AnchorInv DEF Inv
  <2>6. CASE \E s \in Seqs, S \in SUBSET StateNodes, b \in SUBSET Nodes : Submit(s, S, b)
    BY <1>1, <2>6, ArrivalInv DEF Inv
  <2>7. CASE CrashRestart
    BY <1>1, <2>7, CrashInv DEF Inv
  <2> QED BY <1>3, <2>1, <2>2, <2>3, <2>4, <2>5, <2>6, <2>7 DEF Environment
<1>4. CASE UNCHANGED vars
  <2>1. /\ UNCHANGED <<disk, index, job, pc, prune, ledgers>>
        /\ UNCHANGED pending /\ UNCHANGED holds
    BY <1>4 DEF vars
  <2>2. PendingInv' /\ \A s \in Held' : s \in Held
    BY <2>1 DEF Inv, IndexInv, PendingInv, Held
  <2> QED BY <1>1, <2>1, <2>2, Untouched DEF Inv
<1> QED BY <1>2, <1>3, <1>4 DEF Next

\* The invariant holds in every reachable state.
THEOREM Invariance == Spec => []Inv
BY InitInv, NextInv, PTL DEF Spec

\* Every variable has its type.
THEOREM TypeCorrect == Spec => []TypeOK
<1>1. Inv => TypeOK
  BY DEF Inv
<1> QED BY <1>1, Invariance, PTL

\* No step of a claim, a prune, a sweep or a restart leaves a hole in a ledger
\* above the prune cursor, whatever the window, the batch size and the threads.
THEOREM NeverPrunesRetained == Spec => []RetainedComplete
<1>1. Inv => RetainedComplete
  BY DEF Inv, IndexInv
<1> QED BY <1>1, Invariance, PTL

\* prune never moves its cursor past a death record it has not handled.
THEOREM NeverStrandsRow == Spec => []NoStrandedRow
<1>1. Inv => NoStrandedRow
  BY DEF Inv, IndexInv, RowInv, NoStrandedRow
<1> QED BY <1>1, Invariance, PTL

\* A hold taken at any moment of a pass keeps its ledger above the cursor.
THEOREM NeverPrunesHeld == Spec => []HoldsRespected
<1>1. Inv => HoldsRespected
  BY DEF Inv, IndexInv, HoldInv
<1> QED BY <1>1, Invariance, PTL

\* The chunked scan of prune handles every record that is due.
THEOREM PassIsExhaustive == Spec => []PassExhausts
<1>1. Inv => PassExhausts
  BY DEF Inv, IndexInv
<1> QED BY <1>1, Invariance, PTL

-----------------------------------------------------------------------------
(* PrunedStore implements Retention: a claim is a claim, an adopted snapshot *)
(* an adoption, the batch of a prune chunk drops ledgers, every write stores, *)
(* and every other step changes nothing the oracle can see.                   *)

\* The oracle sees no difference.
Hidden == UNCHANGED <<nodes, claimed, prunedTo, {L \in ledgers : L.seq > prunedTo}>>

\* Steps that leave the nodes, the claims and the cursor alone.
LEMMA HiddenStep ==
    ASSUME Hidden PROVE UNCHANGED Oracle!retention
BY DEF Hidden, Oracle!retention

\* Writes by threads, by restore_missing and by the rescue of a chunk.
LEMMA StoreStep ==
    ASSUME Inv, Inv', NEW hs \in SUBSET Nodes, nodes' = nodes \cup hs,
           UNCHANGED <<claimed, prunedTo, ledgers>>
    PROVE  Oracle!RetentionNext
BY DEF Oracle!RetentionNext, Oracle!Store

\* The first claim and the batch of every other claim.
LEMMA ClaimStep ==
    ASSUME Inv, Inv', Anchor \/ ClaimCommit
    PROVE  Oracle!RetentionNext
<1>1. /\ claimed' \in Ledgers /\ claimed'.seq > claimed.seq /\ claimed'.seq > prunedTo
      /\ ledgers' = ledgers \cup {claimed'} /\ UNCHANGED <<nodes, prunedTo>>
  BY DEF Inv, IndexInv, TypeOK, DiskType, WorkerType, Anchor, Take, ClaimCommit, ClaimsInv,
         JobInv, Ledgers, Seqs, SatSub
<1>2. NeededBy(claimed') \subseteq nodes
  <2>1. Complete(claimed)'
    BY <1>1 DEF Inv, IndexInv, RetainedComplete
  <2> QED BY <1>1, <2>1 DEF NeededBy, Complete, Owned, Ledgers
<1>3. {L \in ledgers' : L.seq > prunedTo'} = {L \in ledgers : L.seq > prunedTo} \cup {claimed'}
  BY <1>1
<1>4. PICK C \in Ledgers : C = claimed'
  BY <1>1
<1>5. Oracle!Claim(C)
  BY <1>1, <1>2, <1>3, <1>4 DEF Oracle!Claim
<1> QED BY <1>5 DEF Oracle!RetentionNext

\* adopt_snapshot.
LEMMA AdoptStep ==
    ASSUME Inv, Inv', NEW s \in Seqs, NEW S \in SUBSET StateNodes, AdoptSnapshot(s, S)
    PROVE  Oracle!RetentionNext
<1>1. /\ claimed' \in Ledgers /\ claimed.seq = 0 /\ ledgers' = {claimed'} /\ prunedTo' = 0
      /\ prunedTo = 0 /\ claimed'.seq > 0 /\ nodes' = NeededBy(claimed')
  BY DEF AdoptSnapshot, Ledgers, Inv, IndexInv, ClaimsInv, NeededBy, Owned, Seqs
<1>2. {L \in ledgers' : L.seq > prunedTo'} = {claimed'}
  BY <1>1
<1>3. PICK C \in Ledgers : C = claimed'
  BY <1>1
<1>4. Oracle!Adopt(C)
  BY <1>1, <1>2, <1>3 DEF Oracle!Adopt
<1> QED BY <1>4 DEF Oracle!RetentionNext

\* The pass in hand stops at a can_delete the operator gave.
CapInv == \E cap \in CanDeletes : target <= cap

\* Only effective_prune_cap sets a target, and never above can_delete.
LEMMA CapStep ==
    ASSUME Inv, CapInv, [Next]_vars
    PROVE  CapInv'
<1>1. CASE PruneTarget
  <2>1. canDelete \in CanDeletes /\ canDelete \in Nat /\ WindowK \in Nat
    BY BoundsAssumption DEF Inv, TypeOK, AdminType, WorkerType, WindowK, SatSub
  <2>2. PICK cap \in EffectivePruneCap : target' = MinNat(WindowK, cap)
    BY <1>1 DEF PruneTarget
  <2>3. cap \in Int /\ cap <= canDelete
    BY <2>1, <2>2 DEF EffectivePruneCap, OldestHeld, Held, MinNat, Seqs
  <2> QED BY <2>1, <2>2, <2>3 DEF CapInv, MinNat
<1>2. CASE target' = target
  BY <1>2 DEF CapInv
<1>3. CASE target' = 0
  BY <1>3, BoundsAssumption DEF CapInv, Inv, TypeOK, AdminType
<1>4. CASE Worker
  <2>1. CASE TakeClaimed \/ Anchor \/ ComputeClaimDelta \/ DeltaUnreadable \/ RestoreMissing
             \/ ClaimWatch \/ ClaimCommit \/ ClaimUnwatch
    BY <1>2, <2>1 DEF TakeClaimed, Anchor, ComputeClaimDelta, DeltaUnreadable, RestoreMissing,
       ClaimWatch, ClaimCommit, ClaimUnwatch, prune
  <2>2. CASE PruneBegin \/ PruneDone \/ PruneCommit \/ PruneFinish \/ PruneRescue \/ OrphanSweep
    BY <1>2, <2>2 DEF PruneBegin, PruneDone, PruneCommit, PruneFinish, PruneRescue, OrphanSweep,
       prune
  <2>3. CASE \E v \in BOOLEAN : Settle(v)
    BY <1>3, <2>3 DEF Settle
  <2> QED BY <1>1, <1>4, <2>1, <2>2, <2>3 DEF Worker
<1>5. CASE Environment
  <2>1. CASE CrashRestart
    BY <1>3, <2>1 DEF CrashRestart
  <2>2. CASE ~CrashRestart
    BY <1>2, <1>5, <2>2 DEF Environment, FetchWatched, FetchPlain, WriteNode, FetchCheck,
       BeforeWrite, SetCanDelete, HoldPruningAt, DropHold, AdoptSnapshot, Submit, prune
  <2> QED BY <2>1, <2>2
<1>6. CASE UNCHANGED vars
  BY <1>2, <1>6 DEF vars, prune
<1> QED BY <1>4, <1>5, <1>6 DEF Next

\* The batch of a prune chunk.
LEMMA DropStep ==
    ASSUME Inv, Inv', CapInv, PruneCommit
    PROVE  Oracle!RetentionNext
<1>1. /\ prunedTo' \in Nat /\ prunedTo <= prunedTo' /\ prunedTo' <= target
      /\ UNCHANGED <<claimed, ledgers>> /\ nodes' = nodes \ deleted'
  BY CursorMove DEF PruneCommit
<1>2. deleted' \in SUBSET Nodes
  BY DEF Inv, TypeOK, PassType
<1>3. target <= SatSub(claimed.seq, OnlineDelete) /\ target > 0
  <2>1. PICK r \in chunk : TRUE
    BY DEF PruneCommit, Highest
  <2>2. pc = "delete" /\ r \in Rows /\ target \in Nat
    BY DEF PruneCommit, Inv, TypeOK, PassType
  <2> QED BY <2>2 DEF Inv, IndexInv, ChunkInv, Rows
<1>4. prunedTo' \in 0..claimed.seq
      /\ \E cap \in CanDeletes : prunedTo' < Oracle!RetainedFloor(claimed.seq, cap)
  <2>1. PICK cap \in CanDeletes : target <= cap
    BY DEF CapInv
  <2>2. cap \in Nat
    BY <2>1, BoundsAssumption
  <2> QED BY <1>1, <1>3, <2>1, <2>2, BoundsAssumption
          DEF Oracle!RetainedFloor, SatSub, Inv, TypeOK, DiskType, PassType
<1>5. {L \in ledgers' : L.seq > prunedTo'} =
        {L \in {M \in ledgers : M.seq > prunedTo} : L.seq > prunedTo'}
  BY <1>1 DEF Inv, TypeOK, ClientType, DiskType, Ledgers, Seqs
<1>6. ASSUME NEW L \in ledgers', L.seq > prunedTo' PROVE NeededBy(L) \cap deleted' = {}
  BY <1>1, <1>6 DEF Inv, IndexInv, RetainedComplete, Complete, NeededBy, Owned, TypeOK,
     ClientType, Ledgers
<1>7. deleted' \cap Oracle!RequiredNodes({L \in ledgers' : L.seq > prunedTo'}) = {}
  BY <1>6 DEF Oracle!RequiredNodes
<1>8. PICK k \in 0..claimed.seq, hs \in SUBSET Nodes : k = prunedTo' /\ hs = deleted'
  BY <1>2, <1>4
<1>9. Oracle!Drop(k, hs)
  BY <1>1, <1>4, <1>5, <1>7, <1>8, SMTT(20) DEF Oracle!Drop
<1> QED BY <1>9 DEF Oracle!RetentionNext

\* Every step of the store is a step of the oracle or hidden from it.
LEMMA NextRefines ==
    ASSUME Inv, Inv', CapInv, [Next]_vars
    PROVE  [Oracle!RetentionNext]_(Oracle!retention)
<1>1. CASE Anchor \/ ClaimCommit
  BY <1>1, ClaimStep
<1>2. CASE \E s \in Seqs, S \in SUBSET StateNodes : AdoptSnapshot(s, S)
  BY <1>2, AdoptStep
<1>3. CASE PruneCommit
  BY <1>3, DropStep
<1>4. CASE RestoreMissing \/ PruneRescue \/ \E c \in Clients : WriteNode(c)
  <2>1. nodes' \subseteq Nodes
    BY DEF Inv, TypeOK, DiskType
  <2>2. nodes \subseteq nodes' /\ UNCHANGED <<claimed, prunedTo, ledgers>>
    BY <1>4 DEF RestoreMissing, PruneRescue, WriteNode
  <2>3. nodes' = nodes \cup (nodes' \ nodes) /\ nodes' \ nodes \in SUBSET Nodes
    BY <2>1, <2>2, Zenon
  <2> QED BY <2>2, <2>3, StoreStep, Zenon
<1>5. CASE \E v \in BOOLEAN : Settle(v)
  BY <1>5, HiddenStep DEF Hidden, Settle
<1>6. CASE TakeClaimed \/ DeltaUnreadable \/ ComputeClaimDelta \/ ClaimWatch \/ ClaimUnwatch
  BY <1>6, HiddenStep, Zenon DEF Hidden, TakeClaimed, DeltaUnreadable, ComputeClaimDelta,
     ClaimWatch, ClaimUnwatch
<1>7. CASE PruneTarget \/ PruneBegin \/ PruneDone \/ PruneFinish \/ OrphanSweep
  BY <1>7, HiddenStep DEF Hidden, PruneTarget, PruneBegin, PruneDone, PruneFinish, OrphanSweep
<1>8. CASE \/ \E h \in Nodes : FetchWatched(h)
           \/ \E c \in Clients : FetchPlain(c)
           \/ \E c \in Clients, h \in Nodes : FetchCheck(c, h) \/ BeforeWrite(c, h)
  BY <1>8, HiddenStep DEF Hidden, FetchWatched, FetchPlain, FetchCheck, BeforeWrite
<1>9. CASE \/ \E k \in CanDeletes : SetCanDelete(k)
           \/ \E s \in Seqs : HoldPruningAt(s) \/ DropHold(s)
           \/ \E s \in Seqs, S \in SUBSET StateNodes, b \in SUBSET Nodes : Submit(s, S, b)
           \/ CrashRestart
  BY <1>9, HiddenStep DEF Hidden, SetCanDelete, HoldPruningAt, DropHold, Submit, CrashRestart
<1>10. CASE UNCHANGED vars
  BY <1>10, HiddenStep DEF Hidden, vars
<1> QED BY <1>1, <1>2, <1>3, <1>4, <1>5, <1>6, <1>7, <1>8, <1>9, <1>10
        DEF Next, Worker, Environment

\* The store implements the retention oracle, for every window and batch size.
THEOREM Refinement == Spec => RefinesRetention
<1>1. Init => Oracle!RetentionInit
  BY DEF Init, Oracle!RetentionInit
<1>2. Inv /\ Inv' /\ CapInv /\ [Next]_vars => [Oracle!RetentionNext]_(Oracle!retention)
  BY NextRefines
<1>3. Init => CapInv
  BY BoundsAssumption DEF Init, CapInv
<1>4. Inv /\ CapInv /\ [Next]_vars => CapInv'
  BY CapStep
<1> QED BY <1>1, <1>2, <1>3, <1>4, Invariance, PTL
        DEF Spec, RefinesRetention, Oracle!RetentionSpec
=============================================================================
