---------------------------- MODULE PrunedStore ----------------------------
(***************************************************************************)
(* The pruned node store: the index writer, the store wrapper around it,   *)
(* the restore watch of the backend and the worker that drives them from   *)
(* the stream of validated ledgers.                                        *)
(*                                                                         *)
(* A node is its hash.  A ledger is its sequence number and the set of its *)
(* state nodes; the transaction tree of ledger s is OwnedBy[s].  The disk  *)
(* is four tables (nodes, notebook, counts, meta) changed only by atomic   *)
(* batches; everything else is memory and is lost in a crash.              *)
(***************************************************************************)
EXTENDS Integers, FiniteSets

CONSTANTS
    StateNodes,    \* hashes of state-tree nodes
    TxNodes,       \* hashes of transaction-tree nodes
    OwnedBy,       \* the transaction tree of each ledger sequence
    MaxSeq,        \* bound on ledger sequences (u32 in the code)
    OnlineDelete,  \* retention window, in ledgers
    PruneBatch,    \* notebook rows per prune batch
    CanDeletes,    \* the values an operator gives can_delete
    MaxHolds,      \* bound on concurrent holds of one ledger
    Clients        \* threads that read and write nodes through the backend

Nodes == StateNodes \cup TxNodes
Seqs == 1..MaxSeq

ASSUME BoundsAssumption ==
    /\ MaxSeq \in Nat \ {0}
    /\ OnlineDelete \in Nat \ {0}
    /\ PruneBatch \in Nat \ {0}
    /\ MaxHolds \in Nat
    /\ CanDeletes \subseteq Nat

ASSUME OwnedAssumption ==
    /\ StateNodes \cap TxNodes = {}
    /\ OwnedBy \in [Seqs -> SUBSET TxNodes]
    /\ \A s, t \in Seqs : s # t => OwnedBy[s] \cap OwnedBy[t] = {}

VARIABLES
    \* disk
    nodes,        \* Keyspace::Nodes
    notebook,     \* Keyspace::Notebook: death records
    counts,       \* Keyspace::Counts: death sequence of a count-0 row, 0 if no row
    claimed,      \* META claimed_seq and claimed_state_root, seq 0 if none
    prunedTo,     \* META pruned_to
    \* memory of the index writer and of the restore watch
    unclaimed,    \* first-seen sequence of each unclaimed node, or Absent
    deadPending,  \* death sequence of each dead-pending node, or 0
    watch,        \* RestoreWatch.map
    \* the driver
    pending,      \* last ledger submitted and not yet picked up, seq 0 if none
    job,          \* the ledger the worker is claiming, with its delta
    pc,           \* where the worker is
    target,       \* prune target K of this pass
    chunk,        \* notebook rows of the prune batch in hand
    final,        \* the batch is the last of the pass
    needed,       \* nodes in hand to keep: revived by the claim, or used since watched
    deleted,      \* chunk nodes the batch deleted
    rescued,      \* deleted nodes to write back
    holds,        \* number of snapshot exports holding each sequence
    canDelete,    \* live advisory cap
    halted,       \* pruning halted by a failed verify
    floor,        \* lowest advertised ledger (complete_ledgers)
    \* threads above the store
    call,         \* the backend call each client is in
    held,         \* nodes obtained from the store, with claimed_seq at the call
    ledgers       \* claimed ledgers at or above the advertised floor

disk == <<nodes, notebook, counts, claimed, prunedTo>>
index == <<unclaimed, deadPending>>
prune == <<target, chunk, final, needed, deleted, rescued>>
admin == <<holds, canDelete>>
vars == <<disk, index, watch, pending, job, pc, prune, admin, halted, floor,
          call, held, ledgers>>

Absent == -1
Row(s, h, k) == [seq |-> s, hash |-> h, kind |-> k]
Rows == [seq : 1..(MaxSeq + 1), hash : Nodes, kind : {"State", "Owned"}]
WatchStates == {"none", "Watching", "Restored", "Deleting", "Rescued"}
NoLedger == [seq |-> 0, state |-> {}, backed |-> {}]
NoJob == [seq |-> 0, state |-> {}, new |-> {}, dead |-> {}]
Idle == [op |-> "idle"]
Steps == {"idle", "restore", "watch", "commit", "unwatch", "cap", "prune",
          "delete", "finish", "rescue", "sweep", "settle"}

Owned(s) == IF s \in Seqs THEN OwnedBy[s] ELSE {}
Complete(L) == L.state \cup OwnedBy[L.seq] \subseteq nodes
Hashes(rows) == {r.hash : r \in rows}
MinNat(a, b) == IF a <= b THEN a ELSE b
SatSub(a, b) == IF a >= b THEN a - b ELSE 0

-----------------------------------------------------------------------------
(* RestoreWatch *)

Watched(W, hs) == [h \in Nodes |-> IF h \in hs /\ W[h] = "none" THEN "Watching" ELSE W[h]]

Unwatched(W, hs) == [h \in Nodes |-> IF h \in hs THEN "none" ELSE W[h]]

\* Variant: a use during the delete is recorded like one before it.
TouchedNoRescue(W, h) ==
    [W EXCEPT ![h] = IF @ = "none" THEN "none" ELSE "Restored"]

Touched(W, h) ==
    [W EXCEPT ![h] = CASE @ \in {"Deleting", "Rescued"} -> "Rescued"
                       [] @ = "none" -> "none"
                       [] OTHER -> "Restored"]

BeginDelete(W, hs) ==
    [h \in Nodes |-> IF h \in hs /\ W[h] \notin {"Restored", "Rescued"}
                     THEN "Deleting" ELSE W[h]]

-----------------------------------------------------------------------------
Init ==
    /\ nodes = {} /\ notebook = {} /\ prunedTo = 0
    /\ counts = [h \in Nodes |-> 0]
    /\ claimed = [seq |-> 0, state |-> {}]
    /\ unclaimed = [h \in Nodes |-> Absent]
    /\ deadPending = [h \in Nodes |-> 0]
    /\ watch = [h \in Nodes |-> "none"]
    /\ pending = NoLedger /\ job = NoJob /\ pc = "idle"
    /\ target = 0 /\ chunk = {} /\ final = TRUE
    /\ needed = {} /\ deleted = {} /\ rescued = {}
    /\ holds = [s \in Seqs |-> 0] /\ canDelete \in CanDeletes
    /\ halted = FALSE /\ floor = 0
    /\ call = [c \in Clients |-> Idle]
    /\ held = [h \in Nodes |-> Absent]
    /\ ledgers = {}

-----------------------------------------------------------------------------
(* Reads and writes through the backend, by threads that assemble ledgers  *)

FetchWatched(h) ==
    /\ watch[h] # "none"
    /\ h \in nodes
    /\ watch' = Touched(watch, h)
    /\ held' = [held EXCEPT ![h] = claimed.seq]
    /\ UNCHANGED <<disk, index, pending, job, pc, prune, admin, halted, floor,
                   call, ledgers>>

FetchCheck(c, h) ==
    /\ call[c].op = "idle"
    /\ watch[h] = "none"
    /\ call' = [call EXCEPT ![c] = [op |-> "read", hash |-> h, since |-> claimed.seq]]
    /\ UNCHANGED <<disk, index, watch, pending, job, pc, prune, admin, halted,
                   floor, held, ledgers>>

FetchPlain(c) ==
    /\ call[c].op = "read"
    /\ call' = [call EXCEPT ![c] = Idle]
    /\ held' = IF call[c].hash \in nodes
               THEN [held EXCEPT ![call[c].hash] = call[c].since] ELSE held
    /\ UNCHANGED <<disk, index, watch, pending, job, pc, prune, admin, halted,
                   floor, ledgers>>

BeforeWrite(c, h) ==
    /\ call[c].op = "idle"
    /\ watch' = Touched(watch, h)
    /\ call' = [call EXCEPT ![c] = [op |-> "write", hash |-> h, since |-> claimed.seq]]
    /\ UNCHANGED <<disk, index, pending, job, pc, prune, admin, halted, floor,
                   held, ledgers>>

WriteNode(c) ==
    /\ call[c].op = "write"
    /\ nodes' = nodes \cup {call[c].hash}
    /\ held' = [held EXCEPT ![call[c].hash] = call[c].since]
    /\ call' = [call EXCEPT ![c] = Idle]
    /\ UNCHANGED <<notebook, counts, claimed, prunedTo, index, watch, pending,
                   job, pc, prune, admin, halted, floor, ledgers>>

-----------------------------------------------------------------------------
(* The operator: advisory deletes and snapshot exports *)

SetCanDelete(k) ==
    /\ canDelete # k
    /\ canDelete' = k
    /\ UNCHANGED <<disk, index, watch, pending, job, pc, prune, holds, halted,
                   floor, call, held, ledgers>>

\* An export pins the validated ledger, which is less than a window behind.
HoldPruningAt(s) ==
    /\ holds[s] < MaxHolds
    /\ claimed.seq # 0 /\ s > claimed.seq - OnlineDelete
    /\ holds' = [holds EXCEPT ![s] = @ + 1]
    /\ UNCHANGED <<disk, index, watch, pending, job, pc, prune, canDelete,
                   halted, floor, call, held, ledgers>>

DropHold(s) ==
    /\ holds[s] > 0
    /\ holds' = [holds EXCEPT ![s] = @ - 1]
    /\ UNCHANGED <<disk, index, watch, pending, job, pc, prune, canDelete,
                   halted, floor, call, held, ledgers>>

-----------------------------------------------------------------------------
(* Validated ledgers arrive *)

\* A ledger is assembled from nodes built in memory and nodes left on disk
\* after they were obtained from it.  Before the first claim nothing is ever
\* deleted and the sync has stored the whole ledger.
Submit(s, S, backed) ==
    /\ backed \subseteq {h \in S \cup OwnedBy[s] : held[h] # Absent}
    /\ claimed.seq = 0 => S \cup OwnedBy[s] \subseteq nodes
    /\ pending' = [seq |-> s, state |-> S, backed |-> backed]
    /\ UNCHANGED <<disk, index, watch, job, pc, prune, admin, halted, floor,
                   call, held, ledgers>>

Take ==
    /\ pc = "idle"
    /\ pending.seq # 0
    /\ pending' = NoLedger

TakeClaimed ==
    /\ Take
    /\ claimed.seq # 0 /\ pending.seq <= claimed.seq
    /\ UNCHANGED <<disk, index, watch, job, pc, prune, admin, halted, floor,
                   call, held, ledgers>>

Anchor ==
    /\ Take
    /\ claimed.seq = 0
    /\ claimed' = [seq |-> pending.seq, state |-> pending.state]
    /\ ledgers' = {claimed'}
    /\ UNCHANGED <<nodes, notebook, counts, prunedTo, index, watch, job, pc,
                   prune, admin, halted, floor, call, held>>

\* PrunedStore::adopt_snapshot: the loader has written the snapshot's nodes;
\* reconcile removes every other node, then the snapshot becomes the anchor.  One
\* step: a crash between the batches of reconcile leaves a store with nothing
\* claimed and fewer of the nodes no ledger needs.
AdoptSnapshot(s, S) ==
    /\ pc = "idle" /\ claimed.seq = 0 /\ pending.seq = 0
    /\ \A c \in Clients : call[c] = Idle
    /\ S \cup OwnedBy[s] \subseteq nodes
    /\ nodes' = S \cup OwnedBy[s]
    /\ claimed' = [seq |-> s, state |-> S]
    /\ ledgers' = {claimed'}
    /\ held' = [h \in Nodes |-> Absent]
    /\ UNCHANGED <<notebook, counts, prunedTo, index, watch, pending, job, pc,
                   prune, admin, halted, floor, call>>

DiffReadable == pending.backed \cup (claimed.state \ pending.state) \subseteq nodes

\* Variant: a replayed ledger is claimed again.
ComputeReplayedDelta ==
    /\ Take
    /\ claimed.seq # 0
    /\ DiffReadable
    /\ job' = [seq |-> pending.seq, state |-> pending.state,
               new |-> pending.state \ claimed.state,
               dead |-> claimed.state \ pending.state]
    /\ pc' = "restore"
    /\ UNCHANGED <<disk, index, watch, prune, admin, halted, floor, call, held,
                   ledgers>>

ComputeClaimDelta ==
    /\ Take
    /\ claimed.seq # 0 /\ pending.seq > claimed.seq
    /\ DiffReadable
    /\ job' = [seq |-> pending.seq, state |-> pending.state,
               new |-> pending.state \ claimed.state,
               dead |-> claimed.state \ pending.state]
    /\ pc' = "restore"
    /\ UNCHANGED <<disk, index, watch, prune, admin, halted, floor, call, held,
                   ledgers>>

DeltaUnreadable ==
    /\ Take
    /\ claimed.seq # 0 /\ pending.seq > claimed.seq
    /\ ~DiffReadable
    /\ UNCHANGED <<disk, index, watch, job, pc, prune, admin, halted, floor,
                   call, held, ledgers>>

-----------------------------------------------------------------------------
(* Claim *)

Added == job.new \cup Owned(job.seq)

\* Variant: the nodes the ledger adds are taken to be on disk.
RestoreNothing ==
    /\ pc = "restore"
    /\ pc' = "watch"
    /\ UNCHANGED <<disk, index, watch, pending, job, prune, admin, halted,
                   floor, call, held, ledgers>>

RestoreMissing ==
    /\ pc = "restore"
    /\ nodes' = nodes \cup Added
    /\ pc' = "watch"
    /\ UNCHANGED <<notebook, counts, claimed, prunedTo, index, watch, pending,
                   job, prune, admin, halted, floor, call, held, ledgers>>

ClaimWatch ==
    /\ pc = "watch"
    /\ watch' = Watched(watch, job.dead \cup Owned(job.seq))
    /\ pc' = "commit"
    /\ UNCHANGED <<disk, index, pending, job, prune, admin, halted, floor, call,
                   held, ledgers>>

Revived == {h \in job.new : deadPending[h] # 0}

\* The keys the claim batch deletes and the rows it puts.  A row's key is its
\* sequence and hash, so a put replaces a row of the other kind.
DropKeys(N, keys) == {r \in N : <<r.seq, r.hash>> \notin keys}
RevivedKeys == {<<deadPending[h], h>> : h \in Revived}
DeathRows == {Row(job.seq, h, "State") : h \in job.dead}
                \cup {Row(job.seq + 1, h, "Owned") : h \in Owned(job.seq)}
PutRows(N, rows) == DropKeys(N, {<<r.seq, r.hash>> : r \in rows}) \cup rows

ClaimIndex ==
    /\ unclaimed' = [h \in Nodes |-> IF h \in Added THEN Absent ELSE unclaimed[h]]
    /\ deadPending' = [h \in Nodes |-> CASE h \in job.dead -> job.seq
                                         [] h \in job.new -> 0
                                         [] OTHER -> deadPending[h]]

ClaimCommit ==
    /\ pc = "commit"
    /\ ClaimIndex
    /\ counts' = [h \in Nodes |-> CASE h \in job.dead -> job.seq
                                    [] h \in job.new -> 0
                                    [] OTHER -> counts[h]]
    /\ notebook' = PutRows(DropKeys(notebook, RevivedKeys), DeathRows)
    /\ claimed' = [seq |-> job.seq, state |-> job.state]
    /\ ledgers' = ledgers \cup {claimed'}
    /\ needed' = Revived
    /\ pc' = "unwatch"
    /\ UNCHANGED <<nodes, prunedTo, watch, pending, job, target, chunk, final,
                   deleted, rescued, admin, halted, floor, call, held>>

ClaimUnwatch ==
    /\ pc = "unwatch"
    /\ watch' = Unwatched(watch, needed)
    /\ needed' = {}
    /\ pc' = "cap"
    /\ UNCHANGED <<disk, index, pending, job, target, chunk, final, deleted,
                   rescued, admin, halted, floor, call, held, ledgers>>

-----------------------------------------------------------------------------
(* Prune *)

Held == {s \in Seqs : holds[s] > 0}
OldestHeld == {s \in Held : \A t \in Held : s <= t}

\* Variant: the cap includes the held ledger.
PruneCapAtHeld ==
    IF Held = {} THEN {canDelete} ELSE {MinNat(canDelete, s) : s \in OldestHeld}

\* The cap, as a one-element set.
EffectivePruneCap ==
    IF Held = {} THEN {canDelete} ELSE {MinNat(canDelete, s - 1) : s \in OldestHeld}

WindowK == SatSub(job.seq, OnlineDelete)

PruneTarget ==
    /\ pc = "cap"
    /\ \E cap \in EffectivePruneCap : target' = MinNat(WindowK, cap)
    /\ pc' = IF halted THEN "settle" ELSE "prune"
    /\ UNCHANGED <<disk, index, watch, pending, job, chunk, final, needed,
                   deleted, rescued, admin, halted, floor, call, held, ledgers>>

Due == {r \in notebook : prunedTo < r.seq /\ r.seq <= target}

\* The first PruneBatch rows of the scan; hashes order rows of one sequence.
IsChunk(rows) ==
    IF Cardinality(Due) < PruneBatch THEN rows = Due
    ELSE /\ Cardinality(rows) = PruneBatch
         /\ \A r \in rows, q \in Due \ rows : r.seq <= q.seq

PruneBegin ==
    /\ pc = "prune"
    /\ Due # {}
    /\ \E rows \in SUBSET Due :
        /\ IsChunk(rows)
        /\ chunk' = rows
        /\ needed' = {h \in Hashes(rows) : watch[h] \in {"Restored", "Rescued"}}
        /\ watch' = BeginDelete(watch, Hashes(rows))
    /\ final' = (Cardinality(Due) < PruneBatch)
    /\ pc' = "delete"
    /\ UNCHANGED <<disk, index, pending, job, target, deleted, rescued, admin,
                   halted, floor, call, held, ledgers>>

PruneDone ==
    /\ pc = "prune"
    /\ Due = {}
    /\ pc' = "sweep"
    /\ UNCHANGED <<disk, index, watch, pending, job, prune, admin, halted,
                   floor, call, held, ledgers>>

RowSeq(h) == CHOOSE s \in {r.seq : r \in {q \in chunk : q.hash = h}} :
                \A r \in chunk : r.hash = h => s <= r.seq
Pin(U, hs) == [h \in Nodes |-> IF h \in hs /\ U[h] = Absent THEN RowSeq(h) ELSE U[h]]

\* Variant: a record deletes its node if the node is dead, from whichever death.
DeletableIfDead(r) ==
    /\ Pin(unclaimed, needed)[r.hash] = Absent
    /\ r.kind = "State" => counts[r.hash] # 0

Deletable(r) ==
    /\ Pin(unclaimed, needed)[r.hash] = Absent
    /\ r.kind = "State" => counts[r.hash] = r.seq

Highest == {r.seq : r \in {q \in chunk : \A p \in chunk : p.seq <= q.seq}}

\* Variant: the cursor moves past a sequence the chunk may have split.
AdvanceToHighest(highest) == IF final THEN target ELSE highest

AdvanceTo(highest) == IF final THEN target ELSE highest - 1

\* Variant: the record of a node that is kept stays in the notebook.
PruneCommitKeepsRecord ==
    /\ pc = "delete"
    /\ deleted' = {r.hash : r \in {q \in chunk : Deletable(q)}}
    /\ nodes' = nodes \ deleted'
    /\ counts' = [h \in Nodes |-> IF h \in deleted' THEN 0 ELSE counts[h]]
    /\ notebook' = {r \in notebook : r \in chunk => ~Deletable(r)}
    /\ \E highest \in Highest : prunedTo' = AdvanceTo(highest)
    /\ unclaimed' = Pin(unclaimed, needed)
    /\ deadPending' = [h \in Nodes |-> IF h \in deleted' THEN 0 ELSE deadPending[h]]
    /\ pc' = "finish"
    /\ UNCHANGED <<claimed, watch, pending, job, target, chunk, final, needed,
                   rescued, admin, halted, floor, call, held, ledgers>>

PruneCommit ==
    /\ pc = "delete"
    /\ deleted' = {r.hash : r \in {q \in chunk : Deletable(q)}}
    /\ nodes' = nodes \ deleted'
    /\ counts' = [h \in Nodes |-> IF h \in deleted' THEN 0 ELSE counts[h]]
    /\ notebook' = notebook \ chunk
    /\ \E highest \in Highest : prunedTo' = AdvanceTo(highest)
    /\ unclaimed' = Pin(unclaimed, needed)
    /\ deadPending' = [h \in Nodes |-> IF h \in Hashes(chunk) THEN 0 ELSE deadPending[h]]
    /\ pc' = "finish"
    /\ UNCHANGED <<claimed, watch, pending, job, target, chunk, final, needed,
                   rescued, admin, halted, floor, call, held, ledgers>>

PruneFinish ==
    /\ pc = "finish"
    /\ rescued' = {h \in deleted : watch[h] = "Rescued"}
    /\ watch' = Unwatched(watch, deleted)
    /\ pc' = "rescue"
    /\ UNCHANGED <<disk, index, pending, job, target, chunk, final, needed,
                   deleted, admin, halted, floor, call, held, ledgers>>

\* Variant: the pass stops after its first chunk.
AfterFirstChunk == "sweep"

AfterChunk == IF final THEN "sweep" ELSE "prune"

PruneRescue ==
    /\ pc = "rescue"
    /\ nodes' = nodes \cup rescued
    /\ unclaimed' = Pin(unclaimed, rescued)
    /\ watch' = Unwatched(watch, Hashes(chunk))
    /\ chunk' = {} /\ needed' = {} /\ deleted' = {} /\ rescued' = {}
    /\ pc' = AfterChunk
    /\ UNCHANGED <<notebook, counts, claimed, prunedTo, deadPending, pending,
                   job, target, final, admin, halted, floor, call, held, ledgers>>

Orphans == {h \in Nodes : unclaimed[h] # Absent /\ unclaimed[h] < WindowK}

OrphanSweep ==
    /\ pc = "sweep"
    /\ counts' = [h \in Nodes |-> IF h \in Orphans THEN job.seq ELSE counts[h]]
    /\ notebook' = PutRows(notebook, {Row(job.seq, h, "State") : h \in Orphans})
    /\ unclaimed' = [h \in Nodes |-> IF h \in Orphans THEN Absent ELSE unclaimed[h]]
    /\ deadPending' = [h \in Nodes |-> IF h \in Orphans THEN job.seq ELSE deadPending[h]]
    /\ watch' = Watched(watch, Orphans)
    /\ pc' = "settle"
    /\ UNCHANGED <<nodes, claimed, prunedTo, pending, job, prune, admin, halted,
                   floor, call, held, ledgers>>

\* on_floor_advanced lowers the advertised range, then a verify may run.  on_prune
\* has caches cleared, which are not modelled; the roots that maybe_verify adds to
\* the nodes of the delta are nodes of this ledger or of the one before.
Settle(verify) ==
    /\ pc = "settle"
    /\ floor' = prunedTo + 1
    /\ ledgers' = {L \in ledgers : L.seq > prunedTo}
    /\ halted' = (halted \/ (verify /\ ~(Added \subseteq nodes)))
    /\ job' = NoJob /\ target' = 0
    /\ pc' = "idle"
    /\ UNCHANGED <<disk, index, watch, pending, chunk, final, needed, deleted,
                   rescued, admin, call, held>>

-----------------------------------------------------------------------------
(* A crash loses the memory; IndexWriter::open rebuilds it from the disk *)

OpenRows == {r \in notebook : r.seq > prunedTo}

CrashRestart ==
    /\ unclaimed' = [h \in Nodes |-> Absent]
    /\ deadPending' = [h \in Nodes |->
            IF Row(counts[h], h, "State") \in OpenRows THEN counts[h] ELSE 0]
    /\ watch' = Watched([h \in Nodes |-> "none"], Hashes(OpenRows))
    /\ pending' = NoLedger /\ job' = NoJob /\ pc' = "idle"
    /\ target' = 0 /\ chunk' = {} /\ final' = TRUE
    /\ needed' = {} /\ deleted' = {} /\ rescued' = {}
    /\ holds' = [s \in Seqs |-> 0] /\ halted' = FALSE
    /\ call' = [c \in Clients |-> Idle]
    /\ held' = [h \in Nodes |-> Absent]
    /\ UNCHANGED <<disk, canDelete, floor, ledgers>>

-----------------------------------------------------------------------------
Worker ==
    \/ TakeClaimed \/ Anchor \/ ComputeClaimDelta \/ DeltaUnreadable
    \/ RestoreMissing \/ ClaimWatch \/ ClaimCommit \/ ClaimUnwatch
    \/ PruneTarget \/ PruneBegin \/ PruneDone \/ PruneCommit \/ PruneFinish
    \/ PruneRescue \/ OrphanSweep \/ (\E v \in BOOLEAN : Settle(v))

Environment ==
    \/ \E h \in Nodes : FetchWatched(h)
    \/ \E c \in Clients : FetchPlain(c) \/ WriteNode(c)
    \/ \E c \in Clients, h \in Nodes : FetchCheck(c, h) \/ BeforeWrite(c, h)
    \/ \E k \in CanDeletes : SetCanDelete(k)
    \/ \E s \in Seqs : HoldPruningAt(s) \/ DropHold(s)
    \/ \E s \in Seqs, S \in SUBSET StateNodes : AdoptSnapshot(s, S)
    \/ \E s \in Seqs, S \in SUBSET StateNodes, b \in SUBSET Nodes : Submit(s, S, b)
    \/ CrashRestart

Next == Worker \/ Environment

Spec == Init /\ [][Next]_vars /\ WF_vars(Worker)

-----------------------------------------------------------------------------
(* Properties *)

Ledgers == [seq : Seqs, state : SUBSET StateNodes]
Calls == {Idle} \cup [op : {"read", "write"}, hash : Nodes, since : 0..MaxSeq]

DiskType ==
    /\ nodes \subseteq Nodes
    /\ notebook \subseteq Rows
    /\ counts \in [Nodes -> 0..MaxSeq]
    /\ claimed \in [seq : 0..MaxSeq, state : SUBSET StateNodes]
    /\ prunedTo \in 0..MaxSeq
MemoryType ==
    /\ unclaimed \in [Nodes -> Absent..(MaxSeq + 1)]
    /\ deadPending \in [Nodes -> 0..MaxSeq]
    /\ watch \in [Nodes -> WatchStates]
WorkerType ==
    /\ pending \in [seq : 0..MaxSeq, state : SUBSET StateNodes, backed : SUBSET Nodes]
    /\ job \in [seq : 0..MaxSeq, state : SUBSET StateNodes,
                new : SUBSET StateNodes, dead : SUBSET StateNodes]
    /\ pc \in Steps
PassType ==
    /\ target \in 0..MaxSeq
    /\ chunk \subseteq Rows
    /\ needed \subseteq Nodes /\ deleted \subseteq Nodes /\ rescued \subseteq Nodes
AdminType ==
    /\ holds \in [Seqs -> 0..MaxHolds]
    /\ canDelete \in CanDeletes
    /\ floor \in 0..(MaxSeq + 1)
ClientType ==
    /\ call \in [Clients -> Calls]
    /\ held \in [Nodes -> Absent..MaxSeq]
    /\ ledgers \subseteq Ledgers
FlagType == final \in BOOLEAN /\ halted \in BOOLEAN

\* Every variable has its type.
TypeOK ==
    /\ DiskType /\ MemoryType /\ WorkerType /\ PassType /\ AdminType
    /\ ClientType /\ FlagType

\* Every claimed ledger above the prune cursor has all its state nodes and its
\* whole transaction tree on disk, at every step of the worker and after every
\* crash: a claim, a chunk of a prune, an orphan sweep and the rebuild of
\* IndexWriter::open never leave a hole in a retained ledger.
RetainedComplete == \A L \in ledgers : L.seq > prunedTo => Complete(L)

\* The store implements the retention oracle: claims go up, the cursor passes
\* only ledgers outside the window and never one above every can_delete the
\* operator gave, and no batch deletes a node that a ledger still retained needs.
NeededBy(L) == L.state \cup Owned(L.seq)
Oracle == INSTANCE Retention WITH
    HashSet <- Nodes, Window <- OnlineDelete, Caps <- CanDeletes,
    LedgerSet <- Ledgers, NodesOf <- NeededBy,
    history <- {L \in ledgers : L.seq > prunedTo}, newest <- claimed.seq,
    dropped <- prunedTo, stored <- nodes
RefinesRetention == Oracle!RetentionSpec

\* A node being deleted whose bytes the restore watch keeps for prune to put back.
BeingRescued(h) == h \in rescued \/ (pc = "finish" /\ h \in deleted /\ watch[h] = "Rescued")

\* A node a thread obtained from the store, or wrote to it, stays readable for a
\* whole retention window of claims, even if it was dead when it was obtained:
\* RestoreWatch and the pins of prune close every race with a delete.
InFlightComplete ==
    \A h \in Nodes :
        held[h] # Absent /\ claimed.seq < held[h] + OnlineDelete
            => h \in nodes \/ BeingRescued(h)

\* No death record is left at or below the prune cursor, where no later scan
\* of prune and no rebuild after a crash would ever find it.
NoStrandedRow == \A r \in notebook : r.seq > prunedTo

\* A ledger held by a snapshot export is above the prune cursor until the
\* export drops its hold.
HoldsRespected == \A s \in Held : s > prunedTo

\* When a prune pass ends, every death record up to its target is gone: the
\* chunked scan of prune misses none.
PassExhausts == pc = "sweep" => Due = {}

\* The verify of the driver never finds a hole, so pruning is never halted: neither
\* by a race of the worker with the threads that read and write nodes, nor by what a
\* failed read or batch left half done.
NeverHalted == ~halted

\* What the design says of complete_ledgers (Case 18): the advertised range never
\* has a ledger whose nodes may already be deleted.
AdvertisedComplete == \A L \in ledgers : L.seq >= floor => Complete(L)

\* The worker finishes the ledger in hand, which needs every batch of a prune to
\* remove the rows it has scanned, and picks up a submitted one, or another that
\* has replaced it (run_worker, prune).
WorkerProgresses ==
    /\ pc # "idle" ~> pc = "idle"
    /\ pending.seq # 0 ~> pending.seq = 0

-----------------------------------------------------------------------------
(* The inductive invariant behind RetainedComplete *)

NoRow(h) == \A r \in notebook : r.hash # h
OwnerBefore(h, s) ==
    \A t \in Seqs : h \in OwnedBy[t] => t < s /\ t <= claimed.seq

\* Nothing is indexed before the first claim, and the last claim is retained.
ClaimsInv ==
    /\ claimed.seq = 0 =>
        /\ ledgers = {} /\ notebook = {} /\ prunedTo = 0
        /\ \A h \in Nodes : counts[h] = 0 /\ unclaimed[h] = Absent
    /\ claimed.seq # 0 => claimed \in ledgers
    /\ \A L \in ledgers : L.seq <= claimed.seq /\ (L.seq = claimed.seq => L = claimed)
    /\ prunedTo <= SatSub(claimed.seq, OnlineDelete)

\* Until the first claim, the ledger to anchor on is on disk.
PendingInv ==
    claimed.seq = 0 /\ pending.seq # 0 =>
        pending.state \cup Owned(pending.seq) \subseteq nodes

\* A node of a claimed ledger has no death row, or died after that ledger.
DeathInv ==
    /\ \A L \in ledgers : \A h \in L.state : counts[h] = 0 \/ counts[h] > L.seq
    /\ \A h \in Nodes : counts[h] <= claimed.seq

\* What a death record says, on disk and in the mirror, and that a node has one.
RowInv ==
    /\ \A r \in notebook :
        /\ r.seq > prunedTo
        /\ r.hash \notin claimed.state
        /\ OwnerBefore(r.hash, r.seq)
        /\ r.kind = "State" => counts[r.hash] = r.seq /\ deadPending[r.hash] = r.seq
        /\ r.kind = "Owned" => r.hash \in TxNodes
    /\ \A r, q \in notebook : r.hash = q.hash => r = q
    /\ \A h \in Nodes : deadPending[h] # 0 => Row(deadPending[h], h, "State") \in notebook

\* A pinned node is not live and has no death record.
PinInv ==
    \A h \in Nodes : unclaimed[h] # Absent =>
        h \notin claimed.state /\ NoRow(h) /\ OwnerBefore(h, unclaimed[h])

\* Where the worker is in a claim.
JobInv ==
    /\ pc \in {"restore", "watch", "commit"} =>
        /\ claimed.seq # 0 /\ job.seq > claimed.seq
        /\ job.new = job.state \ claimed.state /\ job.dead = claimed.state \ job.state
    /\ pc \in {"watch", "commit"} => Added \subseteq nodes
    /\ pc \notin {"idle", "restore", "watch", "commit"} => claimed.seq # 0 /\ job.seq = claimed.seq

\* Where the worker is in a prune pass.
ChunkInv ==
    /\ pc \in {"prune", "delete", "finish", "rescue"} => target <= SatSub(claimed.seq, OnlineDelete)
    /\ pc \in {"delete", "finish", "rescue"} =>
        \A r, q \in chunk : r.hash = q.hash => r = q
    /\ pc = "delete" =>
        /\ chunk \subseteq notebook /\ needed \subseteq Hashes(chunk)
        /\ \A r \in chunk : r.seq <= target
        /\ \A r \in chunk, q \in notebook \ chunk : r.seq <= q.seq
        /\ final => \A q \in notebook \ chunk : q.seq > target
    /\ pc \in {"finish", "rescue"} =>
        /\ deleted \subseteq Hashes(chunk)
        /\ \A r \in chunk : /\ NoRow(r.hash) /\ r.hash \notin claimed.state
                            /\ OwnerBefore(r.hash, r.seq)
    /\ pc = "rescue" => rescued \subseteq deleted
    /\ pc \in {"finish", "rescue"} /\ final => prunedTo = target

\* The pass in hand stops below every held ledger, whenever the hold was taken.
HoldInv ==
    /\ HoldsRespected
    /\ pc \in {"prune", "delete", "finish", "rescue"} => \A s \in Held : target < s

\* The index agrees with the ledgers it was built from.
IndexInv ==
    /\ RetainedComplete /\ ClaimsInv /\ PendingInv /\ DeathInv /\ RowInv /\ PinInv
    /\ JobInv /\ ChunkInv /\ HoldInv /\ PassExhausts
=============================================================================
