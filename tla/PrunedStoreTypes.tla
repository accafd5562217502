-------------------------- MODULE PrunedStoreTypes --------------------------
(***************************************************************************)
(* Every action of PrunedStore keeps the type of every variable, given the *)
(* inductive invariant of the index.                                       *)
(***************************************************************************)
EXTENDS PrunedStore, TLAPS

\* The inductive invariant.
Inv == TypeOK /\ IndexInv

USE BoundsAssumption, OwnedAssumption DEF disk, index, prune, admin

\* What the types say of the numbers, rows, ledgers and entries of a state.
Scalars == claimed.seq \in Nat /\ job.seq \in Nat /\ prunedTo \in Nat /\ target \in Nat
RowFacts(N) == \A r \in N : r.seq \in Nat /\ r.seq # 0 /\ r.hash \in Nodes
LedgerFacts ==
    \A L \in ledgers : /\ L.seq \in Nat /\ L.seq \in Seqs
                       /\ L.state \subseteq StateNodes /\ L.state \subseteq Nodes
EntryFacts ==
    \A h \in Nodes : counts[h] \in Nat /\ deadPending[h] \in Nat /\ unclaimed[h] \in Int

\* The types give those facts.
LEMMA TypeFacts ==
    ASSUME TypeOK
    PROVE  Scalars /\ RowFacts(notebook) /\ RowFacts(chunk) /\ LedgerFacts /\ EntryFacts
<1> USE DEF TypeOK
<1>1. Scalars
  BY DEF Scalars, DiskType, WorkerType, PassType
<1>2. RowFacts(notebook) /\ RowFacts(chunk)
  BY DEF RowFacts, DiskType, PassType, Rows
<1>3. LedgerFacts
  BY DEF LedgerFacts, ClientType, Ledgers, Seqs, Nodes
<1>4. EntryFacts
  BY DEF EntryFacts, DiskType, MemoryType, Absent
<1> QED BY <1>1, <1>2, <1>3, <1>4

\* The row recorded for a node of the chunk in hand.
LEMMA RowSeqOf ==
    ASSUME TypeOK, ChunkInv, pc \in {"delete", "finish", "rescue"},
           NEW r \in chunk
    PROVE  RowSeq(r.hash) = r.seq
<1>1. {q.seq : q \in {p \in chunk : p.hash = r.hash}} = {r.seq}
  BY DEF ChunkInv
<1>2. \A q \in chunk : q.hash = r.hash => r.seq <= q.seq
  BY DEF ChunkInv, TypeOK, PassType, Rows
<1> QED BY <1>1, <1>2 DEF RowSeq

\* Pinning nodes of the chunk keeps every pin a sequence.
LEMMA PinType ==
    ASSUME Inv, pc \in {"delete", "finish", "rescue"},
           NEW hs, hs \subseteq Hashes(chunk)
    PROVE  Pin(unclaimed, hs) \in [Nodes -> Absent..(MaxSeq + 1)]
<1>1. ASSUME NEW h \in hs PROVE RowSeq(h) \in 1..(MaxSeq + 1)
  <2>1. PICK r \in chunk : r.hash = h
    BY DEF Hashes
  <2>2. RowSeq(h) = r.seq
    BY <2>1, RowSeqOf DEF Inv, IndexInv
  <2> QED BY <2>2 DEF Inv, TypeOK, PassType, Rows
<1> QED BY <1>1 DEF Pin, Inv, TypeOK, MemoryType, Absent

-----------------------------------------------------------------------------
(* Type correctness: one lemma per action, one step per group of variables  *)
(* the action changes.                                                      *)

\* A watched read keeps the types.
LEMMA FetchWatchedType ==
    ASSUME Inv, NEW h \in Nodes, FetchWatched(h)
    PROVE  TypeOK'
<1> USE DEF Inv, TypeOK
<1>1. MemoryType'
  BY DEF FetchWatched, MemoryType, Touched, WatchStates
<1>2. ClientType'
  BY DEF FetchWatched, ClientType, DiskType, Absent
<1> QED BY <1>1, <1>2 DEF FetchWatched, DiskType, WorkerType, PassType,
    AdminType, FlagType

\* The watch check of a read keeps the types.
LEMMA FetchCheckType ==
    ASSUME Inv, NEW c \in Clients, NEW h \in Nodes, FetchCheck(c, h)
    PROVE  TypeOK'
<1> USE DEF Inv, TypeOK
<1>1. ClientType'
  BY DEF FetchCheck, ClientType, DiskType, Calls
<1> QED BY <1>1 DEF FetchCheck, DiskType, MemoryType, WorkerType, PassType,
    AdminType, FlagType

\* The read of an unwatched node keeps the types.
LEMMA FetchPlainType ==
    ASSUME Inv, NEW c \in Clients, FetchPlain(c)
    PROVE  TypeOK'
<1> USE DEF Inv, TypeOK
<1>1. ClientType'
  BY DEF FetchPlain, ClientType, Calls, Idle, Absent
<1> QED BY <1>1 DEF FetchPlain, DiskType, MemoryType, WorkerType, PassType,
    AdminType, FlagType

\* The notice of a write to the restore watch keeps the types.
LEMMA BeforeWriteType ==
    ASSUME Inv, NEW c \in Clients, NEW h \in Nodes, BeforeWrite(c, h)
    PROVE  TypeOK'
<1> USE DEF Inv, TypeOK
<1>1. MemoryType'
  BY DEF BeforeWrite, MemoryType, Touched, WatchStates
<1>2. ClientType'
  BY DEF BeforeWrite, ClientType, DiskType, Calls
<1> QED BY <1>1, <1>2 DEF BeforeWrite, DiskType, WorkerType, PassType,
    AdminType, FlagType

\* The write of a node keeps the types.
LEMMA WriteNodeType ==
    ASSUME Inv, NEW c \in Clients, WriteNode(c)
    PROVE  TypeOK'
<1> USE DEF Inv, TypeOK
<1>1. DiskType'
  BY DEF WriteNode, DiskType, ClientType, Calls, Idle
<1>2. ClientType'
  BY DEF WriteNode, ClientType, Calls, Idle, Absent
<1> QED BY <1>1, <1>2 DEF WriteNode, MemoryType, WorkerType, PassType,
    AdminType, FlagType

\* can_delete keeps the types.
LEMMA SetCanDeleteType ==
    ASSUME Inv, NEW k \in CanDeletes, SetCanDelete(k)
    PROVE  TypeOK'
<1> USE DEF Inv, TypeOK
<1>1. AdminType'
  BY DEF SetCanDelete, AdminType
<1> QED BY <1>1 DEF SetCanDelete, DiskType, MemoryType, WorkerType, PassType,
    ClientType, FlagType

\* Taking a hold keeps the types.
LEMMA HoldPruningAtType ==
    ASSUME Inv, NEW s \in Seqs, HoldPruningAt(s)
    PROVE  TypeOK'
<1> USE DEF Inv, TypeOK
<1>1. AdminType'
  BY DEF HoldPruningAt, AdminType
<1> QED BY <1>1 DEF HoldPruningAt, DiskType, MemoryType, WorkerType, PassType,
    ClientType, FlagType

\* Dropping a hold keeps the types.
LEMMA DropHoldType ==
    ASSUME Inv, NEW s \in Seqs, DropHold(s)
    PROVE  TypeOK'
<1> USE DEF Inv, TypeOK
<1>1. AdminType'
  BY DEF DropHold, AdminType
<1> QED BY <1>1 DEF DropHold, DiskType, MemoryType, WorkerType, PassType,
    ClientType, FlagType

\* submit keeps the types.
LEMMA SubmitType ==
    ASSUME Inv, NEW s \in Seqs, NEW S \in SUBSET StateNodes, NEW b \in SUBSET Nodes, Submit(s, S, b)
    PROVE  TypeOK'
<1> USE DEF Inv, TypeOK
<1>1. WorkerType'
  BY DEF Submit, WorkerType, Seqs
<1> QED BY <1>1 DEF Submit, DiskType, MemoryType, PassType, AdminType,
    ClientType, FlagType

\* adopt_snapshot keeps the types.
LEMMA AdoptSnapshotType ==
    ASSUME Inv, NEW s \in Seqs, NEW S \in SUBSET StateNodes, AdoptSnapshot(s, S)
    PROVE  TypeOK'
<1> USE DEF Inv, TypeOK
<1>1. DiskType'
  BY DEF AdoptSnapshot, DiskType, Nodes, Seqs
<1>2. ClientType'
  BY DEF AdoptSnapshot, ClientType, Ledgers, Absent
<1> QED BY <1>1, <1>2 DEF AdoptSnapshot, MemoryType, WorkerType, PassType,
    AdminType, FlagType

\* A crash and IndexWriter::open keeps the types.
LEMMA CrashRestartType ==
    ASSUME Inv, CrashRestart
    PROVE  TypeOK'
<1> USE DEF Inv, TypeOK
<1>1. MemoryType'
  BY DEF CrashRestart, MemoryType, DiskType, OpenRows, Row, Watched,
      WatchStates, Absent
<1>2. WorkerType'
  BY DEF CrashRestart, WorkerType, NoLedger, NoJob, Steps
<1>3. PassType'
  BY DEF CrashRestart, PassType
<1>4. AdminType'
  BY DEF CrashRestart, AdminType
<1>5. ClientType'
  BY DEF CrashRestart, ClientType, Calls, Absent
<1>6. FlagType'
  BY DEF CrashRestart, FlagType
<1> QED BY <1>1, <1>2, <1>3, <1>4, <1>5, <1>6 DEF CrashRestart, DiskType

\* Skipping a ledger already claimed keeps the types.
LEMMA TakeClaimedType ==
    ASSUME Inv, TakeClaimed
    PROVE  TypeOK'
<1> USE DEF Inv, TypeOK
<1>1. WorkerType'
  BY DEF TakeClaimed, WorkerType, Take, NoLedger
<1> QED BY <1>1 DEF TakeClaimed, Take, DiskType, MemoryType, PassType,
    AdminType, ClientType, FlagType

\* A failed diff keeps the types.
LEMMA DeltaUnreadableType ==
    ASSUME Inv, DeltaUnreadable
    PROVE  TypeOK'
<1> USE DEF Inv, TypeOK
<1>1. WorkerType'
  BY DEF DeltaUnreadable, WorkerType, Take, NoLedger
<1> QED BY <1>1 DEF DeltaUnreadable, Take, DiskType, MemoryType, PassType,
    AdminType, ClientType, FlagType

\* The first claim keeps the types.
LEMMA AnchorType ==
    ASSUME Inv, Anchor
    PROVE  TypeOK'
<1> USE DEF Inv, TypeOK
<1>1. DiskType'
  BY DEF Anchor, DiskType, Take, WorkerType
<1>2. ClientType'
  BY DEF Anchor, ClientType, Take, WorkerType, Ledgers, Seqs
<1>3. WorkerType'
  BY DEF Anchor, WorkerType, Take, NoLedger
<1> QED BY <1>1, <1>2, <1>3 DEF Anchor, Take, MemoryType, PassType, AdminType,
    FlagType

\* compute_claim_delta keeps the types.
LEMMA ComputeClaimDeltaType ==
    ASSUME Inv, ComputeClaimDelta
    PROVE  TypeOK'
<1> USE DEF Inv, TypeOK
<1>1. WorkerType'
  BY DEF ComputeClaimDelta, WorkerType, Take, NoLedger, Steps, DiskType
<1> QED BY <1>1 DEF ComputeClaimDelta, Take, DiskType, MemoryType, PassType,
    AdminType, ClientType, FlagType

\* restore_missing keeps the types.
LEMMA RestoreMissingType ==
    ASSUME Inv, RestoreMissing
    PROVE  TypeOK'
<1> USE DEF Inv, TypeOK
<1>1. DiskType'
  BY DEF RestoreMissing, DiskType, Added, Owned, WorkerType, Nodes
<1>2. WorkerType'
  BY DEF RestoreMissing, WorkerType, Steps
<1> QED BY <1>1, <1>2 DEF RestoreMissing, MemoryType, PassType, AdminType,
    ClientType, FlagType

\* The watch step of a claim keeps the types.
LEMMA ClaimWatchType ==
    ASSUME Inv, ClaimWatch
    PROVE  TypeOK'
<1> USE DEF Inv, TypeOK
<1>1. MemoryType'
  BY DEF ClaimWatch, MemoryType, Watched, WatchStates
<1>2. WorkerType'
  BY DEF ClaimWatch, WorkerType, Steps
<1> QED BY <1>1, <1>2 DEF ClaimWatch, DiskType, PassType, AdminType,
    ClientType, FlagType

\* The batch of a claim keeps the types.
LEMMA ClaimCommitType ==
    ASSUME Inv, ClaimCommit
    PROVE  TypeOK'
<1> USE DEF Inv, TypeOK
<1>1. DiskType'
  <2>1. job.seq \in Seqs
    BY DEF ClaimCommit, IndexInv, JobInv, WorkerType, DiskType, Seqs
  <2>2. DeathRows \subseteq Rows
    BY <2>1 DEF DeathRows, Row, Rows, Owned, WorkerType, Nodes, Seqs
  <2>3. notebook' \subseteq Rows
    BY <2>2 DEF ClaimCommit, DiskType, PutRows, DropKeys
  <2> QED BY <2>1, <2>3 DEF ClaimCommit, DiskType, WorkerType, Seqs
<1>2. MemoryType'
  BY DEF ClaimCommit, MemoryType, ClaimIndex, WorkerType, Absent
<1>3. WorkerType'
  BY DEF ClaimCommit, WorkerType, Steps
<1>4. PassType'
  BY DEF ClaimCommit, PassType, Revived, WorkerType, Nodes
<1>5. ClientType'
  <2>1. job.seq \in Seqs
    BY DEF ClaimCommit, IndexInv, JobInv, WorkerType, DiskType, Seqs
  <2> QED BY <2>1 DEF ClaimCommit, ClientType, WorkerType, Ledgers
<1> QED BY <1>1, <1>2, <1>3, <1>4, <1>5 DEF ClaimCommit, ClaimIndex,
    AdminType, FlagType

\* The unwatch step of a claim keeps the types.
LEMMA ClaimUnwatchType ==
    ASSUME Inv, ClaimUnwatch
    PROVE  TypeOK'
<1> USE DEF Inv, TypeOK
<1>1. MemoryType'
  BY DEF ClaimUnwatch, MemoryType, Unwatched, WatchStates
<1>2. WorkerType'
  BY DEF ClaimUnwatch, WorkerType, Steps
<1>3. PassType'
  BY DEF ClaimUnwatch, PassType
<1> QED BY <1>1, <1>2, <1>3 DEF ClaimUnwatch, DiskType, AdminType, ClientType,
    FlagType

\* The prune target keeps the types.
LEMMA PruneTargetType ==
    ASSUME Inv, PruneTarget
    PROVE  TypeOK'
<1> USE DEF Inv, TypeOK
<1>1. WorkerType'
  BY DEF PruneTarget, WorkerType, Steps
<1>2. PassType'
  <2>1. WindowK \in 0..MaxSeq
    BY DEF WindowK, SatSub, WorkerType
  <2>2. ASSUME NEW cap \in EffectivePruneCap PROVE cap \in Nat
    BY DEF EffectivePruneCap, OldestHeld, Held, MinNat, AdminType, Seqs
  <2>3. target' \in 0..MaxSeq
    BY <2>1, <2>2 DEF PruneTarget, MinNat
  <2> QED BY <2>3 DEF PruneTarget, PassType
<1> QED BY <1>1, <1>2 DEF PruneTarget, DiskType, MemoryType, AdminType,
    ClientType, FlagType

\* Reading a chunk and begin_delete keeps the types.
LEMMA PruneBeginType ==
    ASSUME Inv, PruneBegin
    PROVE  TypeOK'
<1> USE DEF Inv, TypeOK
<1>1. MemoryType'
  BY DEF PruneBegin, MemoryType, BeginDelete, WatchStates
<1>2. WorkerType'
  BY DEF PruneBegin, WorkerType, Steps
<1>3. PassType'
  <2>1. PICK rows \in SUBSET Due :
            /\ chunk' = rows
            /\ needed' = {h \in Hashes(rows) : watch[h] \in {"Restored", "Rescued"}}
    BY DEF PruneBegin
  <2>2. rows \subseteq Rows
    BY DEF Due, DiskType
  <2>3. Hashes(rows) \subseteq Nodes
    BY <2>2 DEF Hashes, Rows
  <2> QED BY <2>1, <2>2, <2>3 DEF PruneBegin, PassType
<1>4. FlagType'
  BY DEF PruneBegin, FlagType
<1> QED BY <1>1, <1>2, <1>3, <1>4 DEF PruneBegin, DiskType, AdminType,
    ClientType

\* The end of a pass keeps the types.
LEMMA PruneDoneType ==
    ASSUME Inv, PruneDone
    PROVE  TypeOK'
<1> USE DEF Inv, TypeOK
<1>1. WorkerType'
  BY DEF PruneDone, WorkerType, Steps
<1> QED BY <1>1 DEF PruneDone, DiskType, MemoryType, PassType, AdminType,
    ClientType, FlagType

\* The batch of a chunk keeps the types.
LEMMA PruneCommitType ==
    ASSUME Inv, PruneCommit
    PROVE  TypeOK'
<1> USE DEF Inv, TypeOK
<1>1. DiskType'
  <2>1. prunedTo' \in 0..MaxSeq
    BY DEF PruneCommit, PassType, Highest, AdvanceTo, Rows
  <2>2. counts' \in [Nodes -> 0..MaxSeq]
    BY DEF PruneCommit, DiskType
  <2>3. nodes' \subseteq Nodes /\ notebook' \subseteq Rows /\ claimed' = claimed
    BY DEF PruneCommit, DiskType
  <2> QED BY <2>1, <2>2, <2>3 DEF DiskType
<1>2. MemoryType'
  <2>1. unclaimed' \in [Nodes -> Absent..(MaxSeq + 1)]
    BY PinType DEF PruneCommit, IndexInv, ChunkInv
  <2>2. deadPending' \in [Nodes -> 0..MaxSeq]
    BY DEF PruneCommit, MemoryType
  <2> QED BY <2>1, <2>2 DEF PruneCommit, MemoryType
<1>3. WorkerType'
  BY DEF PruneCommit, WorkerType, Steps
<1>4. PassType'
  <2>1. deleted' \subseteq Nodes
    BY DEF PruneCommit, PassType, Rows
  <2> QED BY <2>1 DEF PruneCommit, PassType
<1> QED BY <1>1, <1>2, <1>3, <1>4 DEF PruneCommit, AdminType, ClientType,
    FlagType

\* finish_delete keeps the types.
LEMMA PruneFinishType ==
    ASSUME Inv, PruneFinish
    PROVE  TypeOK'
<1> USE DEF Inv, TypeOK
<1>1. MemoryType'
  BY DEF PruneFinish, MemoryType, Unwatched, WatchStates
<1>2. WorkerType'
  BY DEF PruneFinish, WorkerType, Steps
<1>3. PassType'
  BY DEF PruneFinish, PassType
<1> QED BY <1>1, <1>2, <1>3 DEF PruneFinish, DiskType, AdminType, ClientType,
    FlagType

\* Writing back the rescued nodes keeps the types.
LEMMA PruneRescueType ==
    ASSUME Inv, PruneRescue
    PROVE  TypeOK'
<1> USE DEF Inv, TypeOK
<1>1. DiskType'
  BY DEF PruneRescue, DiskType, PassType
<1>2. MemoryType'
  <2>1. rescued \subseteq Hashes(chunk)
    BY DEF PruneRescue, IndexInv, ChunkInv
  <2>2. unclaimed' \in [Nodes -> Absent..(MaxSeq + 1)]
    BY <2>1, PinType DEF PruneRescue
  <2>3. watch' \in [Nodes -> WatchStates]
    BY DEF PruneRescue, MemoryType, Unwatched, WatchStates
  <2> QED BY <2>2, <2>3 DEF PruneRescue, MemoryType
<1>3. WorkerType'
  BY DEF PruneRescue, WorkerType, AfterChunk, Steps
<1>4. PassType'
  BY DEF PruneRescue, PassType
<1> QED BY <1>1, <1>2, <1>3, <1>4 DEF PruneRescue, AdminType, ClientType,
    FlagType

\* orphan_sweep keeps the types.
LEMMA OrphanSweepType ==
    ASSUME Inv, OrphanSweep
    PROVE  TypeOK'
<1> USE DEF Inv, TypeOK
<1>1. DiskType'
  <2>1. job.seq \in Seqs
    BY DEF OrphanSweep, IndexInv, JobInv, WorkerType, Seqs
  <2>2. {Row(job.seq, h, "State") : h \in Orphans} \subseteq Rows
    BY <2>1 DEF Row, Rows, Orphans, Seqs
  <2>3. notebook' \subseteq Rows
    BY <2>2 DEF OrphanSweep, DiskType, PutRows, DropKeys
  <2>4. counts' \in [Nodes -> 0..MaxSeq]
    BY DEF OrphanSweep, DiskType, WorkerType
  <2> QED BY <2>3, <2>4 DEF OrphanSweep, DiskType
<1>2. MemoryType'
  <2>1. unclaimed' \in [Nodes -> Absent..(MaxSeq + 1)]
    BY DEF OrphanSweep, MemoryType, Absent
  <2>2. deadPending' \in [Nodes -> 0..MaxSeq]
    BY DEF OrphanSweep, MemoryType, WorkerType
  <2>3. watch' \in [Nodes -> WatchStates]
    BY DEF OrphanSweep, MemoryType, Watched, WatchStates
  <2> QED BY <2>1, <2>2, <2>3 DEF MemoryType
<1>3. WorkerType'
  BY DEF OrphanSweep, WorkerType, Steps
<1> QED BY <1>1, <1>2, <1>3 DEF OrphanSweep, PassType, AdminType, ClientType,
    FlagType

\* The end of a job keeps the types.
LEMMA SettleType ==
    ASSUME Inv, NEW v \in BOOLEAN, Settle(v)
    PROVE  TypeOK'
<1> USE DEF Inv, TypeOK
<1>1. AdminType'
  BY DEF Settle, AdminType, DiskType
<1>2. ClientType'
  BY DEF Settle, ClientType
<1>3. WorkerType'
  BY DEF Settle, WorkerType, NoJob, Steps
<1>4. PassType'
  BY DEF Settle, PassType
<1>5. FlagType'
  BY DEF Settle, FlagType
<1> QED BY <1>1, <1>2, <1>3, <1>4, <1>5 DEF Settle, DiskType, MemoryType

\* A step of the worker keeps the types.
LEMMA WorkerStepType == ASSUME Inv, Worker PROVE TypeOK'
BY TakeClaimedType, AnchorType, ComputeClaimDeltaType, DeltaUnreadableType,
   RestoreMissingType, ClaimWatchType, ClaimCommitType, ClaimUnwatchType,
   PruneTargetType, PruneBeginType, PruneDoneType, PruneCommitType,
   PruneFinishType, PruneRescueType, OrphanSweepType, SettleType DEF Worker

\* A step of anything around the worker keeps the types.
LEMMA EnvironmentType == ASSUME Inv, Environment PROVE TypeOK'
BY FetchWatchedType, FetchCheckType, FetchPlainType, BeforeWriteType,
   WriteNodeType, SetCanDeleteType, HoldPruningAtType, DropHoldType,
   AdoptSnapshotType, SubmitType, CrashRestartType DEF Environment

\* A stuttering step keeps the types.
LEMMA StutterType == ASSUME Inv, UNCHANGED vars PROVE TypeOK'
BY DEF Inv, TypeOK, vars, DiskType, MemoryType, WorkerType, PassType, AdminType,
       ClientType, FlagType
=============================================================================
