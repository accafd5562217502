------------------------- MODULE PrunedStoreClaims --------------------------
(***************************************************************************)
(* The inductive invariant of PrunedStore: it holds at first, and reads,   *)
(* writes, operator commands, restarts and claims preserve it.             *)
(***************************************************************************)
EXTENDS PrunedStoreTypes

USE BoundsAssumption DEF disk, index, prune, admin

\* The store starts empty, in the invariant.
LEMMA InitInv == Init => Inv
<1> SUFFICES ASSUME Init PROVE Inv
  OBVIOUS
<1>1. TypeOK
  <2>1. DiskType /\ PassType
    BY DEF Init, DiskType, PassType
  <2>2. MemoryType
    BY DEF Init, MemoryType, Absent, WatchStates
  <2>3. WorkerType
    BY DEF Init, WorkerType, NoLedger, NoJob, Steps
  <2>4. AdminType
    BY DEF Init, AdminType
  <2>5. ClientType
    BY DEF Init, ClientType, Calls, Absent
  <2>6. FlagType
    BY Zenon DEF Init, FlagType
  <2> QED BY <2>1, <2>2, <2>3, <2>4, <2>5, <2>6 DEF TypeOK
<1>2. IndexInv
  BY DEF Init, IndexInv, RetainedComplete, ClaimsInv, DeathInv, RowInv, PinInv,
         JobInv, ChunkInv, PendingInv, HoldInv, HoldsRespected, Held, PassExhausts,
         SatSub, Absent, NoLedger, NoJob
<1> QED BY <1>1, <1>2 DEF Inv

-----------------------------------------------------------------------------
(* Actions the index does not see *)

\* A step that leaves the disk, the index and the worker alone, and adds no
\* hold, keeps the invariant.
LEMMA Untouched ==
    ASSUME Inv, TypeOK', PendingInv', \A s \in Held' : s \in Held,
           UNCHANGED <<disk, index, job, pc, prune, ledgers>>
    PROVE  IndexInv'
<1> USE DEF Inv, IndexInv
<1>1. RetainedComplete'
  BY DEF RetainedComplete, Complete
<1>2. ClaimsInv'
  BY DEF ClaimsInv
<1>4. DeathInv'
  BY DEF DeathInv
<1>5. RowInv'
  BY DEF RowInv, OwnerBefore
<1>6. PinInv'
  BY DEF PinInv, NoRow, OwnerBefore
<1>7. JobInv'
  BY DEF JobInv, Added
<1>8. ChunkInv'
  BY DEF ChunkInv, NoRow, OwnerBefore
<1>9. HoldInv'
  BY DEF HoldInv, HoldsRespected
<1>10. PassExhausts'
  BY DEF PassExhausts, Due
<1> QED BY <1>1, <1>2, <1>4, <1>5, <1>6, <1>7, <1>8, <1>9, <1>10

\* Reads, and the watch steps of reads and writes.
LEMMA ReadInv ==
    ASSUME Inv, TypeOK',
           \/ \E h \in Nodes : FetchWatched(h)
           \/ \E c \in Clients : FetchPlain(c)
           \/ \E c \in Clients, h \in Nodes : FetchCheck(c, h) \/ BeforeWrite(c, h)
    PROVE  IndexInv'
<1>1. UNCHANGED <<disk, index, job, pc, prune, ledgers, pending, holds>>
  BY DEF FetchWatched, FetchPlain, FetchCheck, BeforeWrite
<1>2. PendingInv' /\ \A s \in Held' : s \in Held
  BY <1>1 DEF Inv, IndexInv, PendingInv, Held
<1> QED BY <1>1, <1>2, Untouched

\* can_delete and the end of a hold.
LEMMA AdminInv ==
    ASSUME Inv, TypeOK',
           (\E k \in CanDeletes : SetCanDelete(k)) \/ (\E s \in Seqs : DropHold(s))
    PROVE  IndexInv'
<1>1. UNCHANGED <<disk, index, job, pc, prune, ledgers, pending>>
  BY DEF SetCanDelete, DropHold
<1>2. PendingInv'
  BY <1>1 DEF Inv, IndexInv, PendingInv
<1>3. ASSUME NEW s \in Held' PROVE s \in Held
  BY <1>3 DEF SetCanDelete, DropHold, Held, Inv, TypeOK, AdminType
<1> QED BY <1>1, <1>2, <1>3, Untouched

\* Ledgers that arrive and ledgers the worker drops.
LEMMA ArrivalInv ==
    ASSUME Inv, TypeOK',
           \/ \E s \in Seqs, S \in SUBSET StateNodes, b \in SUBSET Nodes : Submit(s, S, b)
           \/ TakeClaimed \/ DeltaUnreadable
    PROVE  IndexInv'
<1>1. UNCHANGED <<disk, index, job, pc, prune, ledgers, holds>>
  BY DEF Submit, TakeClaimed, DeltaUnreadable
<1>2. PendingInv'
  BY DEF Submit, TakeClaimed, DeltaUnreadable, Take, PendingInv, Owned, NoLedger
<1>3. \A s \in Held' : s \in Held
  BY <1>1 DEF Held
<1> QED BY <1>1, <1>2, <1>3, Untouched

\* Storing nodes loses none.
LEMMA WriteInv ==
    ASSUME Inv, TypeOK', NEW c \in Clients, WriteNode(c)
    PROVE  IndexInv'
<1> USE DEF Inv, IndexInv, WriteNode
<1>1. RetainedComplete'
  BY DEF RetainedComplete, Complete
<1>2. PendingInv'
  BY DEF PendingInv
<1>3. JobInv'
  BY DEF JobInv, Added
<1>4. ClaimsInv' /\ DeathInv'
  BY DEF ClaimsInv, DeathInv
<1>5. RowInv' /\ PinInv'
  BY DEF RowInv, PinInv, NoRow, OwnerBefore
<1>6. ChunkInv'
  BY DEF ChunkInv, NoRow, OwnerBefore
<1>7. HoldInv' /\ PassExhausts'
  BY DEF HoldInv, HoldsRespected, Held, PassExhausts, Due
<1> QED BY <1>1, <1>2, <1>3, <1>4, <1>5, <1>6, <1>7

\* A hold is taken on a ledger inside the window, above what a pass may prune.
LEMMA HoldStepInv ==
    ASSUME Inv, TypeOK', NEW s \in Seqs, HoldPruningAt(s)
    PROVE  IndexInv'
<1> USE DEF Inv, IndexInv, HoldPruningAt
<1>1. \A t \in Held' : t \in Held \/ t = s
  BY DEF Held, TypeOK, AdminType
<1>2. SatSub(claimed.seq, OnlineDelete) < s
  BY DEF SatSub, TypeOK, DiskType, Seqs
<1>3. HoldInv'
  <2>1. \A t \in Held' : t > prunedTo
    BY <1>1, <1>2 DEF HoldInv, HoldsRespected, ClaimsInv, TypeOK, DiskType, SatSub, Held, Seqs
  <2>2. pc \in {"prune", "delete", "finish", "rescue"} => \A t \in Held' : target < t
    BY <1>1, <1>2 DEF HoldInv, ChunkInv, TypeOK, DiskType, PassType, SatSub, Held, Seqs
  <2> QED BY <2>1, <2>2 DEF HoldInv, HoldsRespected
<1>4. RetainedComplete' /\ PendingInv' /\ JobInv'
  BY DEF RetainedComplete, Complete, PendingInv, JobInv, Added
<1>5. ClaimsInv' /\ DeathInv'
  BY DEF ClaimsInv, DeathInv
<1>6. RowInv' /\ PinInv'
  BY DEF RowInv, PinInv, NoRow, OwnerBefore
<1>7. ChunkInv' /\ PassExhausts'
  BY DEF ChunkInv, NoRow, OwnerBefore, PassExhausts, Due
<1> QED BY <1>3, <1>4, <1>5, <1>6, <1>7

-----------------------------------------------------------------------------
(* Anchors and restarts *)

\* The first claim, from the slot or from a snapshot: an index with nothing in
\* it anchors on a ledger that is on disk.
LEMMA AnchorInv ==
    ASSUME Inv, TypeOK',
           Anchor \/ \E s \in Seqs, S \in SUBSET StateNodes : AdoptSnapshot(s, S)
    PROVE  IndexInv'
<1> USE DEF Inv, IndexInv
<1>1. /\ claimed.seq = 0 /\ pc = "idle" /\ claimed' \in Ledgers /\ ledgers' = {claimed'}
      /\ claimed'.state \cup OwnedBy[claimed'.seq] \subseteq nodes'
      /\ pending' = NoLedger \/ pending'.seq = 0
      /\ UNCHANGED <<notebook, counts, prunedTo, index, job, pc, prune, holds>>
  <2>1. CASE Anchor
    <3>1. pending \in [seq : 0..MaxSeq, state : SUBSET StateNodes, backed : SUBSET Nodes]
      BY DEF TypeOK, WorkerType
    <3>2. claimed' = [seq |-> pending.seq, state |-> pending.state] /\ pending.seq \in Seqs
      BY <2>1, <3>1 DEF Anchor, Take, Seqs
    <3>3. pending.state \cup OwnedBy[pending.seq] \subseteq nodes
      BY <2>1, <3>2 DEF Anchor, Take, PendingInv, Owned
    <3> QED BY <2>1, <3>1, <3>2, <3>3 DEF Anchor, Take, Ledgers
  <2>2. CASE \E s \in Seqs, S \in SUBSET StateNodes : AdoptSnapshot(s, S)
    BY <2>2 DEF AdoptSnapshot, Ledgers
  <2> QED BY <2>1, <2>2
<1>2. /\ notebook = {} /\ prunedTo = 0
      /\ \A h \in Nodes : counts[h] = 0 /\ unclaimed[h] = Absent /\ deadPending[h] = 0
  BY <1>1 DEF ClaimsInv, RowInv
<1>3. RetainedComplete' /\ PendingInv'
  BY <1>1 DEF RetainedComplete, Complete, PendingInv, NoLedger, Ledgers, Seqs
<1>4. ClaimsInv'
  BY <1>1, <1>2 DEF ClaimsInv, SatSub, Ledgers, Seqs
<1>5. DeathInv'
  BY <1>1, <1>2 DEF DeathInv, Ledgers, Seqs, Nodes
<1>6. RowInv' /\ PinInv'
  BY <1>1, <1>2 DEF RowInv, PinInv
<1>7. JobInv' /\ ChunkInv' /\ PassExhausts'
  BY <1>1 DEF JobInv, ChunkInv, PassExhausts
<1>8. HoldInv'
  BY <1>1 DEF HoldInv, HoldsRespected, Held
<1> QED BY <1>3, <1>4, <1>5, <1>6, <1>7, <1>8

\* IndexWriter::open rebuilds the mirror of the death rows from the disk.
LEMMA CrashInv ==
    ASSUME Inv, TypeOK', CrashRestart
    PROVE  IndexInv'
<1> USE DEF Inv, IndexInv, CrashRestart
<1>1. RetainedComplete' /\ DeathInv'
  BY DEF RetainedComplete, Complete, DeathInv
<1>2. ClaimsInv' /\ PendingInv'
  BY DEF ClaimsInv, PendingInv, NoLedger
<1>3. RowInv'
  <2>1. ASSUME NEW r \in notebook, r.kind = "State" PROVE deadPending'[r.hash] = r.seq
    <3>1. r \in Rows /\ counts[r.hash] = r.seq /\ r \in OpenRows
      BY <2>1 DEF RowInv, OpenRows, TypeOK, DiskType
    <3>2. Row(counts[r.hash], r.hash, "State") = r /\ r.hash \in Nodes
      BY <2>1, <3>1 DEF Row, Rows
    <3> QED BY <3>1, <3>2
  <2>2. ASSUME NEW h \in Nodes, deadPending'[h] # 0
        PROVE  Row(deadPending'[h], h, "State") \in notebook
    BY <2>2 DEF OpenRows
  <2> QED BY <2>1, <2>2 DEF RowInv, OwnerBefore
<1>4. PinInv'
  BY DEF PinInv
<1>5. JobInv' /\ ChunkInv' /\ PassExhausts'
  BY DEF JobInv, ChunkInv, PassExhausts
<1>6. HoldInv'
  BY DEF HoldInv, HoldsRespected, Held
<1> QED BY <1>1, <1>2, <1>3, <1>4, <1>5, <1>6

-----------------------------------------------------------------------------
(* Claims *)

\* Before a claim reaches the index it only adds nodes and moves the worker.
LEMMA BeforeClaimInv ==
    ASSUME Inv, TypeOK', ComputeClaimDelta \/ RestoreMissing \/ ClaimWatch
    PROVE  IndexInv'
<1> USE DEF Inv, IndexInv
<1>1. /\ nodes \subseteq nodes' /\ pc' \in {"restore", "watch", "commit"}
      /\ UNCHANGED <<notebook, counts, claimed, prunedTo, index, prune, holds, ledgers>>
      /\ claimed.seq # 0
  BY DEF ComputeClaimDelta, RestoreMissing, ClaimWatch, JobInv
<1>2. JobInv'
  <2>1. CASE ComputeClaimDelta
    BY <2>1 DEF ComputeClaimDelta, Take, JobInv
  <2>2. CASE RestoreMissing
    BY <2>2 DEF RestoreMissing, JobInv, Added
  <2>3. CASE ClaimWatch
    BY <2>3 DEF ClaimWatch, JobInv, Added
  <2> QED BY <2>1, <2>2, <2>3, Zenon
<1>3. RetainedComplete' /\ PendingInv'
  BY <1>1 DEF RetainedComplete, Complete, PendingInv
<1>4. ClaimsInv' /\ DeathInv'
  BY <1>1 DEF ClaimsInv, DeathInv
<1>5. RowInv' /\ PinInv'
  BY <1>1 DEF RowInv, PinInv, NoRow, OwnerBefore
<1>6. ChunkInv' /\ PassExhausts'
  BY <1>1 DEF ChunkInv, PassExhausts
<1>7. HoldInv'
  BY <1>1 DEF HoldInv, HoldsRespected, Held
<1> QED BY <1>2, <1>3, <1>4, <1>5, <1>6, <1>7

\* The batch of a claim.
LEMMA ClaimCommitInv ==
    ASSUME Inv, TypeOK', ClaimCommit
    PROVE  IndexInv'
<1> USE DEF Inv, IndexInv
<1>0. Scalars /\ RowFacts(notebook) /\ LedgerFacts /\ EntryFacts
  BY TypeFacts
<1>1. /\ claimed.seq \in Nat /\ job.seq \in Nat /\ prunedTo \in Nat /\ job.seq # 0
      /\ claimed.seq > prunedTo /\ job.seq > claimed.seq
  BY <1>0 DEF Scalars, ClaimCommit, JobInv, ClaimsInv, SatSub
<1>a. /\ job.new = job.state \ claimed.state /\ job.dead = claimed.state \ job.state
      /\ claimed' = [seq |-> job.seq, state |-> job.state]
      /\ ledgers' = ledgers \cup {claimed'} /\ claimed \in ledgers
      /\ prunedTo' = prunedTo /\ nodes' = nodes
  BY <1>1 DEF ClaimCommit, JobInv, ClaimsInv
<1>b. job.seq \in Seqs /\ Owned(job.seq) = OwnedBy[job.seq]
  BY <1>1 DEF TypeOK, WorkerType, Owned, Seqs
<1>c. Added = job.new \cup OwnedBy[job.seq] /\ Added \subseteq nodes
  BY <1>b DEF Added, ClaimCommit, JobInv
<1>7. job.dead \subseteq StateNodes /\ job.new \subseteq StateNodes
      /\ OwnedBy[job.seq] \subseteq TxNodes
  BY <1>b, OwnedAssumption DEF TypeOK, WorkerType
<1>d. job.state \subseteq StateNodes
  BY DEF TypeOK, WorkerType
<1>2. \A r \in notebook :
        /\ r \in Rows /\ r.hash \notin job.dead /\ r.hash \notin OwnedBy[job.seq]
        /\ r.hash \in job.new => r.kind = "State" /\ <<r.seq, r.hash>> \in RevivedKeys
  <2> SUFFICES ASSUME NEW r \in notebook
               PROVE  /\ r \in Rows /\ r.hash \notin job.dead
                      /\ r.hash \notin OwnedBy[job.seq]
                      /\ r.hash \in job.new =>
                            r.kind = "State" /\ <<r.seq, r.hash>> \in RevivedKeys
    OBVIOUS
  <2>1. r \in Rows /\ r.hash \notin job.dead
    BY <1>a DEF RowInv, TypeOK, DiskType
  <2>2. r.hash \notin OwnedBy[job.seq]
    BY <1>1, <1>b DEF RowInv, OwnerBefore
  <2>3. ASSUME r.hash \in job.new PROVE r.kind = "State" /\ <<r.seq, r.hash>> \in RevivedKeys
    <3>1. r.kind = "State"
      BY <1>7, <2>1, <2>3, OwnedAssumption DEF RowInv, Rows
    <3>2. deadPending[r.hash] = r.seq /\ r.seq # 0
      BY <1>0, <3>1 DEF RowInv, RowFacts
    <3> QED BY <2>3, <3>1, <3>2 DEF RevivedKeys, Revived
  <2> QED BY <2>1, <2>2, <2>3
<1>3. \A r \in notebook' : (r \in notebook /\ r.hash \notin job.new) \/ r \in DeathRows
  BY <1>2 DEF ClaimCommit, PutRows, DropKeys
<1>6. \A r \in DeathRows :
        \/ r.hash \in job.dead /\ r = Row(job.seq, r.hash, "State")
        \/ r.hash \in OwnedBy[job.seq] /\ r = Row(job.seq + 1, r.hash, "Owned")
  BY <1>b DEF DeathRows, Row
<1>4. \A r \in notebook : r.hash \notin job.new => r \in notebook'
  <2> SUFFICES ASSUME NEW r \in notebook, r.hash \notin job.new PROVE r \in notebook'
    OBVIOUS
  <2>1. <<r.seq, r.hash>> \notin RevivedKeys
    BY DEF RevivedKeys, Revived
  <2>2. \A q \in DeathRows : q.hash # r.hash
    BY <1>2, <1>6, Zenon
  <2>3. <<r.seq, r.hash>> \notin {<<q.seq, q.hash>> : q \in DeathRows}
    BY <2>2
  <2> QED BY <2>1, <2>3 DEF ClaimCommit, PutRows, DropKeys
<1>5. DeathRows \subseteq notebook'
  BY DEF ClaimCommit, PutRows
<1>8. /\ \A h \in Nodes : counts'[h] = IF h \in job.dead THEN job.seq
                                       ELSE IF h \in job.new THEN 0 ELSE counts[h]
      /\ \A h \in Nodes : deadPending'[h] = IF h \in job.dead THEN job.seq
                                       ELSE IF h \in job.new THEN 0 ELSE deadPending[h]
      /\ \A h \in Nodes : unclaimed'[h] = IF h \in Added THEN Absent ELSE unclaimed[h]
  BY <1>a DEF ClaimCommit, ClaimIndex
<1>9. RetainedComplete'
  <2>1. job.state \subseteq nodes
    BY <1>1, <1>a, <1>c DEF RetainedComplete, Complete
  <2>2. OwnedBy[job.seq] \subseteq nodes
    BY <1>c
  <2> QED BY <1>a, <2>1, <2>2 DEF RetainedComplete, Complete
<1>10. ClaimsInv'
  <2>1. claimed'.seq = job.seq /\ job.seq # 0 /\ claimed' \in ledgers'
    BY <1>1, <1>a
  <2>2. \A L \in ledgers : L.seq \in Nat /\ L.seq < job.seq
    BY <1>0, <1>1 DEF ClaimsInv, LedgerFacts
  <2>3. prunedTo' <= SatSub(job.seq, OnlineDelete)
    BY <1>1, <1>a DEF ClaimsInv, SatSub
  <2> QED BY <1>1, <1>a, <2>1, <2>2, <2>3 DEF ClaimsInv
<1>11. PendingInv'
  BY <1>1, <1>a DEF PendingInv
<1>12. DeathInv'
  <2>1. ASSUME NEW L \in ledgers, NEW h \in L.state
        PROVE  counts'[h] = 0 \/ counts'[h] > L.seq
    <3>1. h \in Nodes /\ L.seq < job.seq
      BY <1>0, <1>1 DEF ClaimsInv, LedgerFacts
    <3> QED BY <1>8, <2>1, <3>1 DEF DeathInv
  <2>2. ASSUME NEW h \in job.state PROVE counts'[h] = 0
    <3>1. h \in Nodes
      BY <1>d DEF Nodes
    <3>2. CASE h \in job.new
      BY <1>a, <1>8, <3>1, <3>2
    <3>3. CASE h \notin job.new
      <4>1. h \in claimed.state /\ h \notin job.dead
        BY <1>a, <3>3
      <4>2. counts[h] = 0
        BY <1>0, <1>1, <1>a, <3>1, <4>1 DEF DeathInv, EntryFacts
      <4> QED BY <1>8, <3>1, <3>3, <4>1, <4>2
    <3> QED BY <3>2, <3>3
  <2>3. ASSUME NEW h \in Nodes PROVE counts'[h] <= job.seq
    BY <1>0, <1>1, <1>8 DEF DeathInv, EntryFacts
  <2> QED BY <1>a, <2>1, <2>2, <2>3 DEF DeathInv
<1>13. RowInv'
  <2>1. ASSUME NEW r \in notebook'
        PROVE  /\ r.seq > prunedTo
               /\ r.hash \notin job.state
               /\ OwnerBefore(r.hash, r.seq)'
               /\ r.kind = "State" => counts'[r.hash] = r.seq /\ deadPending'[r.hash] = r.seq
               /\ r.kind = "Owned" => r.hash \in TxNodes
    <3>1. CASE r \in notebook /\ r.hash \notin job.new
      <4>1. r.hash \notin job.dead /\ r.hash \in Nodes
        BY <1>0, <1>2, <3>1, Zenon DEF RowFacts
      <4>2. r.hash \notin job.state
        BY <1>a, <3>1 DEF RowInv
      <4>3. OwnerBefore(r.hash, r.seq)'
        BY <1>1, <1>a, <3>1 DEF RowInv, OwnerBefore, Seqs
      <4> QED BY <1>8, <3>1, <4>1, <4>2, <4>3 DEF RowInv
    <3>2. CASE r.hash \in job.dead /\ r = Row(job.seq, r.hash, "State")
      <4>1. r.seq = job.seq /\ r.kind = "State" /\ r.hash \in Nodes
        BY <1>7, <3>2 DEF Row, Nodes
      <4>2. OwnerBefore(r.hash, r.seq)'
        BY <1>7, <3>2, OwnedAssumption DEF OwnerBefore
      <4>3. r.seq > prunedTo
        BY <1>1, <4>1
      <4> QED BY <1>a, <1>8, <3>2, <4>1, <4>2, <4>3
    <3>3. CASE r.hash \in OwnedBy[job.seq] /\ r = Row(job.seq + 1, r.hash, "Owned")
      <4>1. r.seq = job.seq + 1 /\ r.kind = "Owned"
        BY <3>3 DEF Row
      <4>2. OwnerBefore(r.hash, r.seq)'
        BY <1>1, <1>a, <1>b, <3>3, <4>1, OwnedAssumption DEF OwnerBefore
      <4>3. r.seq > prunedTo
        BY <1>1, <4>1
      <4> QED BY <1>7, <1>d, <3>3, <4>1, <4>2, <4>3, OwnedAssumption
    <3> QED BY <1>3, <1>6, <3>1, <3>2, <3>3
  <2>2. ASSUME NEW r \in notebook', NEW q \in notebook', r.hash = q.hash PROVE r = q
    <3>1. CASE r \in notebook /\ q \in notebook
      BY <2>2, <3>1 DEF RowInv
    <3>2. CASE r \in notebook /\ q \in DeathRows
      BY <1>2, <1>6, <2>2, <3>2, Zenon
    <3>3. CASE r \in DeathRows /\ q \in notebook
      BY <1>2, <1>6, <2>2, <3>3, Zenon
    <3>4. CASE r \in DeathRows /\ q \in DeathRows
      BY <1>6, <1>7, <2>2, <3>4, OwnedAssumption
    <3> QED BY <1>3, <3>1, <3>2, <3>3, <3>4
  <2>3. ASSUME NEW h \in Nodes, deadPending'[h] # 0
        PROVE  Row(deadPending'[h], h, "State") \in notebook'
    <3>1. CASE h \in job.dead
      BY <1>5, <1>8, <3>1 DEF DeathRows
    <3>2. CASE h \notin job.dead
      <4>1. h \notin job.new /\ deadPending'[h] = deadPending[h]
        BY <1>8, <2>3, <3>2
      <4>2. Row(deadPending[h], h, "State") \in notebook
        BY <2>3, <4>1 DEF RowInv
      <4>3. Row(deadPending[h], h, "State").hash = h
        BY DEF Row
      <4> QED BY <1>4, <4>1, <4>2, <4>3
    <3> QED BY <3>1, <3>2
  <2>4. prunedTo' = prunedTo /\ claimed'.state = job.state
    BY <1>a
  <2> QED BY <2>1, <2>2, <2>3, <2>4, Zenon DEF RowInv
<1>14. PinInv'
  <2> SUFFICES ASSUME NEW h \in Nodes, unclaimed'[h] # Absent
               PROVE  h \notin job.state /\ NoRow(h)' /\ OwnerBefore(h, unclaimed[h])'
    BY <1>a DEF PinInv
  <2>1. h \notin Added /\ unclaimed'[h] = unclaimed[h] /\ unclaimed[h] # Absent
    BY <1>8
  <2>2. h \notin job.state
    BY <1>a, <1>c, <2>1 DEF PinInv
  <2>3. NoRow(h)'
    BY <1>a, <1>c, <1>3, <1>6, <2>1 DEF PinInv, NoRow
  <2>4. OwnerBefore(h, unclaimed[h])'
    BY <1>1, <1>a, <2>1 DEF PinInv, OwnerBefore, Seqs
  <2> QED BY <2>2, <2>3, <2>4
<1>15. JobInv' /\ ChunkInv' /\ PassExhausts'
  BY <1>1, <1>a DEF ClaimCommit, JobInv, ChunkInv, PassExhausts
<1>16. HoldInv'
  BY DEF ClaimCommit, HoldInv, HoldsRespected, Held
<1> QED BY <1>9, <1>10, <1>11, <1>12, <1>13, <1>14, <1>15, <1>16
=============================================================================
