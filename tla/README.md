# Verification of the quaxar server

TLA+ models of parts of this server, the TLC runs that check them on small
instances, and TLAPS proofs of the properties that matter most. `PROJECT.json`
maps every definition to the source lines it stands for.

## 1. The system

A quaxar node follows the XRP Ledger: it takes part in (or observes) consensus
on each ledger, acquires ledgers it does not have, keeps their nodes on disk and
serves them to peers and clients.

| Part | State | Operations | What makes it hard |
|---|---|---|---|
| Pruned node store (`nodestore/src/pruned`) | nodes, death notebook, counts and cursors on disk; unclaimed and dead-pending nodes in memory | claim, prune, orphan sweep, anchor, adopt snapshot, reopen | crashes between batches, chunked deletes, revived nodes, failed batches |
| Restore watch (`nodestore/src/backends`) | state per watched node | watch, read, before_write, begin/finish delete | readers and writers racing a delete |
| Pruned driver (`app/src/shamap`) | pending slot, holds, callbacks | submit, worker loop, hold, verify | coalescing, holds taken during a pass, errors half way |
| Consensus engine (`consensus/src/algorithm`) | round, peer positions, disputes, own position | start_round, peer_proposal, got_tx_set, timer_entry | out-of-order proposals, late sets, ledger switches inside a timer |
| Ledger trie (`consensus/src/model`) | arena of spans with supports | insert, remove, get_preferred | splits and merges of spans, reused slots |
| Validations (`consensus/src/rcl_support`) | current validations, trie support, waiters, recovery proofs | add, on_ledger_acquired/unacquired, trust changes | late acquisitions, retractions, trust told late |
| NetworkOps strand (`app/src/network`) | command queue, accept job, adopted ledgers | commands, end-consensus pass, LCL switch, completions | accept jobs and switches in flight |
| Acquisition coordinator (`acquisition/src`) | sessions, service phase, recovery latches, deferred demands | events to effects | sessions that end in a dozen handlers, lost peers, capacity |
| Inbound ledgers (`app/src/ledger/inbound_ledgers`) | origins of demands, handoff port, acknowledgement lanes | demands, publish, acknowledge, reject, drain | full channels, retries, failed persistence |
| Ledger master, history, replay | validated and published heads, ranges | check_accept, try_advance, fill | gaps, out-of-order completions |
| Open ledger, transaction queue | open view, queued transactions | apply, accept | limits, retries |
| Job queue (`app/src/job`) | jobs, counters per type, worker threads | add, run, rendezvous, stop | stop racing wake-ups, deferred jobs |
| Hash router, squelch, overlay | suppression table, slots, peers | messages | duplicates, expiry |
| SHAMap and caches | trees, tree-node and full-below caches | sync, mutate, sweep | stale caches |
| Validator list, votes, load fees | lists, tallies, counters | updates per ledger | expiry, boundaries |
| Transactors, protocol, RPC, databases, tools | – | – | sequential or pure I/O |

How they interact: the strand owns the consensus engine and feeds it proposals,
transaction sets and heartbeats; an accepted round builds a ledger; validations
make the ledger master accept it; a ledger that validations or consensus name and
the node lacks becomes a demand to the coordinator, whose durable ledger is
handed back to the strand; the accepted ledger goes to the pruned driver, whose worker claims it in the index and prunes what left the window;
acquisition and every reader of a ledger use the same backend meanwhile.

Correctness, per part:

* **Store.** A ledger inside the retention window is complete on disk, whatever
  crashes or fails; what a thread obtained stays readable long enough to be
  claimed; nothing that is due is left behind.
* **Consensus engine.** Votes, disputes and our own set agree with the positions
  they are derived from; peers are never left with a proposal we no longer hold;
  switching ledgers loses no proposal and keeps none of the old ledger's.
* **Ledger trie.** Support and preference are those of the definition over
  single ledgers, whatever spans the trie is made of.
* **Validations.** A trusted full validator is counted once, for its latest ledger
  that we have, or waits for it; late news never speaks for a replaced validation.
* **Coordinator.** A ledger is acquired by one session; a latch follows the session
  that does its work; the service phase follows the latch; no session waits for
  ever with peers present; a durable ledger is not given up.
* **Handoff.** A durable ledger is persisted once and its session completes, unless
  the recipient ends or a full lane stops the owner.
* **Jobs.** No type runs above its limit, every job starts, stop and rendezvous
  return.

## 2. Modules

| Module | Models |
|---|---|
| `Retention` | What a pruned store promises, after the reference oracle `pruned/model.rs` |
| `PrunedStore` | Index writer, store, restore watch, driver; implements `Retention` |
| `PrunedStoreFaults` | The same with disk errors at every read and batch |
| `Consensus` | The consensus engine of one node, with arbitrary peers |
| `LedgerAncestry` | Ledgers and their ancestry, and the preferred ledger defined ledger by ledger |
| `LedgerTrie` | The compressed trie, down to its arena |
| `Validations` | The tracker of current validations and its callers |
| `JobQueue` | The application's job queue and its workers |
| `SyncPhase` | The service phase: the transition function of `acquisition/src/phase.rs` |
| `Coordinator` | The coordinator's runner, event by event |
| `HandoffOrigins` | Coordinator, composed with the registry's demands and the origins they register |
| `DurableHandoff` | The same, composed with the handoff port, the lanes of acknowledgements and the strand |
| `PrunedStoreTypes`, `PrunedStoreClaims`, `PrunedStorePrunes`, `PrunedStoreProofs` | Proofs about `PrunedStore`: types, the steps of a claim, those of a prune, the theorems |
| `JobQueueProofs`, `ConsensusProofs` | Proofs about the module of that name |
| `MC*` | Instances for TLC |

Definitions called *Variant* are plausible mistakes, each next to the definition
it deviates from. No specification uses them: they show that a property can fail.

### PrunedStore

*State.* The disk is `nodes`, `notebook` (rows of sequence, hash and kind),
`counts`, `claimed` and `prunedTo`, changed only by atomic batches. A state node
has an explicit count row only while it is dead, because the delta between two
ledgers never adds a live node; `counts[h]` is the death sequence in that row.
`unclaimed`, `deadPending` and `watch` are memory. The rest is the driver
(`pending`, `job`, `pc` and the pass in hand), the operator (`holds`,
`canDelete`), the threads above the store (`call`, `held`) and `ledgers`, the
claimed ledgers that have not left the advertised range.

*Actions.* The worker is one sequential process and each of its actions is what
happens between two points where another thread can see a change: taking the
pending ledger, restoring missing nodes, watching the newly dead, the claim's
batch, unwatching, fixing the prune target, then for each chunk `begin_delete`,
the batch, `finish_delete` and the write-back, and finally the orphan sweep and
the floor callback. Threads read and write through the backend in the steps of
`RestoreWatch::read` and `before_write`: a read of a watched node is atomic, a
read of another node is a check and, later, the read. `CrashRestart` may happen
between any two steps and rebuilds memory as `IndexWriter::open` does.
`AdoptSnapshot` is one step: it runs at start-up, before the worker and the threads
that read the store exist.

*Ledgers.* A ledger is its sequence and the set of its state nodes; its
transaction tree, the nodes only it owns, is `OwnedBy[s]`. A ledger may be
submitted with any set of nodes that were built in memory or obtained from the
store before.

*Faults.* `PrunedStoreFaults` adds, for each point where the worker returns an
error, an action that leaves memory as the code leaves it and the disk as it was.

### Consensus

*State.* The fields of `Consensus` that are not clocks: phase, mode, the id of
the previous ledger and the ledger at hand, acquired sets, current and recent
peer positions, dead nodes, our result (set, sequence number, disputes, compared
sets) and, as a history variable, `sent`, the last sequence number put on the
wire this round.

*Actions.* One per public call (`StartRound`, `PeerProposal`, `GotTxSet`,
`TimerEntry`), and one per part of a call that nests: playback of a proposal,
check of the previous ledger, acquiring it, the phase, the decision. `pc` is the
place in the call, `nest` the timers on the stack; no call begins before the one
in hand returns, since the engine has one owner. A round may start at any moment:
`start_round` itself has no guard.

*Choices.* Stale proposals, thresholds of the avalanche, close-time agreement,
pauses and expiry are arbitrary, as are the answers of the adaptor. They
over-approximate the clocks, so the safety properties hold for every timing.

### LedgerAncestry, LedgerTrie and Validations

`LedgerAncestry` is a tree of ledgers given by `ParentOf`; `Preferred` walks it one
ledger at a time and is the reference for the trie. `LedgerTrie` keeps the arena as
the code does, a sequence of nodes linked by indices, with the slots `free` reused,
and `Insert` and `Remove` split, extend, erase and merge spans as `insert` and
`remove` do. `sup`, what the caller has inserted, is only read by properties.

`Validations` takes from this that the trie is a count of supporters per ledger.
Every operation of the tracker is under one mutex and is one action, together with
the part of the caller that decides it (`handle_new_validation`, `register_ledger`,
`refresh_validator_trust_for_consensus`). The validator list is not under that
mutex: `unl` changes a step before the tracker is `told`. Times are abstracted: a
validation may become stale at any moment, and is signed before or after the one it
would replace; the sequence enforcer may expire (`EnforcerLapses`). All ledgers
are within the 256 ancestors that a validated ledger carries: `Mismatch` leaves out the
case of two ledgers whose known ancestors do not overlap, for which `mismatch` answers 1.

### JobQueue

One step per critical section, and one for each notification sent after the mutex
is dropped. Since `stop` sets its flag without the mutex, a worker's test of the flag
and its wait are two steps. Workers, manual dispatchers (`reserve_next_job`), clients
and the stopper are threads with a `pc`. Sleepers are woken only by notifications;
spurious wake-ups would only add steps that look and sleep again.

### SyncPhase and Coordinator

`SyncPhase` is the transition function of the service phase. In `Coordinator` an
event is one step: `Handle(st)` applies, after the event's handler, the six
reconciliations of `handle_event` in their order. State is a record passed through
operators that carry the names of the functions they stand for. A session is its
hash, reason, phase, timer and flags; what a plan does during a turn (network, yield,
job, persist, invalid) is the outcome of the turn. The phases a session passes
between a finished plan and its durability fence are the phase Persisting.
Binding the recovery latch to a session that waits for a scan permit kicks the scan
queue (`Kicks`), so that reconciliation has several outcomes. `Finish` ends an event:
the sessions the map still has are numbered anew (`Compact`), since their number means
nothing, and a latch may be left `Dangling` on a session that is gone.

### HandoffOrigins and DurableHandoff

Both extend `Coordinator`. `HandoffOrigins` adds the registry's calls, which register
the origin of a demand and then hand the event to the runner, and `session_started`,
which binds an origin to the session. `DurableHandoff` adds two threads:

* the owner, which publishes at a fence and at a retry timer (`publish_durable`),
  drains the control lane (`DrainControl`) and the acknowledgements (`DrainAck`), and
  sends a rejection when the channel is full or has no receiver (`reject`);
* the strand, a loop of receipts, unsent acknowledgements, and one completed ledger
  after the other: `Receive`, `Claim` and `Settle`, until `receipt_budget` is spent.

They meet in the channel and under the coordinator's lock: a step that takes the lock
needs `~blocked`, since a port that waits for room in the control lane waits with the
coordinator locked. The lane is bounded and shared: `OtherProducer` puts facts of other
producers in it, which `DrainControl` takes in turn. The claims are the bounded deduplication
list, whose oldest entry makes room for a new one. Graphs leave the gate with their receipt
and are `kept` while the node has not caught up. Two events come from outside: the strand
ends, and with it the receiver of the channel (`StrandEnds`), and a replay start-up reads
the channel before the strand does (`ReplayDrains`). The two channels the strand reads in
one turn are handled by the same code and are one channel here. A handoff is its ledger and
how many fences that ledger has passed (`MaxFences` bounds them), so a ledger acquired again
after its session was forgotten is another handoff.

Several modules have a constant set of *worlds*: each is a choice of the
environment's events and of capacities, fixed in `Init` by the variable `world`. One
run explores all worlds of its module.

## 3. Runs

| Run | Instance | Distinct states | Shows |
|---|---|---|---|
| index | 1 state and 1 transaction node, 4 ledgers, window 1, chunk 1, 2 caps | 116 thousand | `NoStrandedRow`, `PassExhausts`, `RefinesRetention`, `WorkerProgresses` |
| races | 1 state node, 5 ledgers, window 2, 1 thread | 1.7 million | `InFlightComplete`, `NeverHalted` |
| faults | 1 state node, 5 ledgers, window 1, chunk 2, one hold at a time, every error | 1.1 million | `NeverHalted`, `RetainedComplete`, `HoldsRespected` |
| disputes | 2 peers, 2 transactions, 1 ledger | 660 thousand | `VotesFollowPositions`, `DifferencesDisputed`, `ProposalsIncrease` |
| switch | 1 peer, 1 transaction, 2 ledgers, 2 proposals remembered, timers nested twice | 1.6 million | `RoundCoherent`, `PlaybackComplete`, `PositionsOfThisLedger`, `NoDanglingProposal`, `PeersMoveForward` |
| trie | 6 ledgers with a fork below a fork; 3 supporters anywhere, or 4 on three ledgers | 129 thousand | `ArenaSound`, `SupportIsExact`, `PreferredIsExact` |
| validations | 4 ledgers in a chain; 2 validators on two of them, 1 on all, or 1 on three, told late and with an expiring enforcer | 714 thousand | `SupportExact`, `NoLostVoice`, `SupportIsEarned`, `ExactWaitersInstall` |
| jobs | 2 workers, 2 clients, 1 manual dispatcher, 4 jobs of types limited to 1 and 2 | 159 thousand | `CountersTrue`, `WakeupsCoverJobs`, `StoppedIsDrained`, `JobsStart`, `CallersReturn` |
| coordinator | 2 ledgers, 5 worlds | 188 thousand | `OwnersExact`, `NoSilentSession`, `PhaseFollowsAnchor`, `DurableStays`, `AnchorIsSticky`, `NewSessionsFit` |
| handoff | 2 ledgers, 6 worlds; channel and acknowledgement lane of 1, control lane, gate and turn of 2, 2 fences per ledger | 84 thousand | `OriginsBounded`, `OneDelivery`, `AdoptedOnce`, `GraphsAccounted`, `DurableIsAdopted` |
| advertised | 1 state node, 5 ledgers, window 2 | violation | `AdvertisedComplete` does not hold |
| saturated | world `Busy` of `handoff`, 1 fence per ledger | violation | `RejectionReported` does not hold |

`TypeOK` of each other module is a conjunct of its structural invariant
(`RoundCoherent`, `ArenaSound`, `SupportExact`, `CountersTrue`, `OwnersExact`); that
of `PrunedStore` is the theorem `TypeCorrect`.
`RefinesRetention` includes `RetainedComplete`: the oracle claims only whole ledgers
and drops no node of one it retains. The oracle's cursor stays below the floor of some
`can_delete` the operator may have given (`RetainedFloor`, `Caps`): which one is in force
is not part of its state.

*Why the bounds are enough.* A node's life is born, dead, revived, dead again,
deleted, which takes four or five ledgers with the smallest window. Chunks of one
row split a sequence as soon as two nodes die in it. `races` looks for races
between one thread and the worker, which are the two parties of every transition
of the restore watch; races of several threads with each other are not explored.
`faults` keeps to states with at most one held ledger (`OneHold`): the cap is the
lowest hold, so a second one above it changes nothing and one below it takes its place.
In `faults`, memory and disk disagree after an error, and the check of the death
sequence in `prune` is what protects the store: without it (`DeletableIfDead`)
TLC finds a hole with five ledgers and none with four, and the fault-free runs
find none, as `RowInv` predicts. In `disputes`, two peers against us are the
smallest majority that changes our vote. In `switch`, two ledgers are enough to
leave one and come back. In `trie`, four supporters below a fork let
a lead, a tie-break and uncommitted supporters decide differently. In `validations`, a chain
of three named ledgers lets a proof lie between the support and the current
validation; the two ways to upset the tracker are kept to one validator, since its
state is per validator but for the counts. In `jobs`, four jobs saturate the type
limited to one with two deferred, or fill both types. In `coordinator` and `handoff`,
two ledgers are the latched one and its competitor, with two slots or one. The worlds of
`coordinator` are `Latches` (consensus, validation and recovery demands against the ends
of their sessions), `Peers` (peers and quorum, up to shutdown), `Capacity` (one slot,
expiry, sweeps, rotation), and `Ends` and `Scanners`, in which everything that ends a
session meets a durable one, a scanning one and a bound recovery latch. The worlds of `handoff` are `Delivery` (two
durable ledgers, a recipient that fails, a node that catches up), `Demands` (every demand
of the registry, peers coming and going), `Again` (a ledger acquired again), `Replay`
(a replay start-up), `Last` (the strand ends) and `Busy` (other producers fill the control
lane). With a channel of one a second ledger is turned away; with an acknowledgement lane
of one a second acknowledgement has to wait in `unsent`; with a turn and a gate of two a
pass takes two ledgers, and a gate filled by an earlier pass leaves it none. The
`MaxPropose` and `MaxNest` bounds cut sequences of changes and nested timers, not
kinds of steps. `Consensus` runs use symmetry of
peers, transactions and ledgers, none of which the engine compares other than for
equality.

*Fairness.* `Spec` of `PrunedStore` has weak fairness of the worker as a whole,
and nothing of its environment. `run_worker` is a dedicated thread: it sleeps only
while the slot is empty, and otherwise waits only for mutexes that others hold for
one operation. The safety properties do not depend on it;
`WorkerProgresses` does. Crashes stay possible; a crash empties the slot and ends the pass. The model leaves out
`stop_worker`, after which nothing more is claimed. `FairSpec` of `JobQueue` has weak
fairness of every thread's own steps (workers, finishing jobs, notifications, waiting
callers, stop), none of new jobs or calls: threads are scheduled and jobs end.
`FairHandoffSpec` has weak fairness of the strand's loop and of the owner's lanes and
retry timers, which both threads serve on every pass as long as they get the
coordinator's lock, of the replay start-up's reads, and strong fairness of a persistence
that succeeds: a recipient that fails for ever retries for ever. It has none of demands,
fences, other producers or the end of the strand.
`coordinator` does not check for deadlock, since after shutdown no event does anything;
nor do `handoff` and `saturated`, since a blocked port stops both threads.
`Coordinator`, `Validations`, `LedgerTrie`, `Consensus` and `PrunedStoreFaults` assume
no fairness.

*Disagreements found.*

* `advertised`: the design says the advertised range is lowered in the step that
  moves the cursor and never covers a ledger whose nodes may be deleted. The
  driver lowers it once `maintain` has returned, so during a pass, and after a
  crash in one until the next ledger is handled, it does cover such ledgers.
* `saturated`: the handoff port promises that a ledger the channel has no room for is
  reported as rejected and retried, and the adapter that "a producer never waits on the
  owner that consumes this bounded lane". The port sends the rejection with a blocking
  send into the control lane, from the only thread that drains it and with the
  coordinator locked: when other producers have filled the lane, it waits for ever.

*Where comments and code part.* The following statements of comments and documents do
not hold as written. No run is devoted to them; the properties the runs check are the
ones that do hold, and say in their comments what they leave out.

* Store. The design says nodes of ledgers that are never validated are reclaimed by the
  orphan sweep. The sweep sees only nodes noted by `note_stored`, which is called from
  `PrunedStore::store`, and nothing but tests calls that.
* Validations. "Ancestry trie over trusted validated ledgers": a validator removed from
  the list while its newest ledger is being acquired keeps its older support, because
  `remove_trie` drops resident support only for the validation it removes.
  "Live exact waiters install support as in rippled": `on_ledger_acquired` applies the
  conditions of a recovery proof to live waiters that are also in the proof, which can
  cost one its support once its enforcer has expired (`ExactWaitersInstall` asks for
  `lapses = 0`). A validation that arrives between the change of the list and the
  tracker hearing of it can leave a wait behind (`SupportExact` asks for `~TrustGap`).
* Coordinator. `recovery_anchor_session`: observations "cannot preempt this owner while
  it remains viable", but a session acquired for a Generic reason and then bound by a
  divergence can be preempted by a recovery demand at capacity. A session whose expiry
  timer fired before it was bound is removed by the next registry sweep, against "Keep
  its registry ownership alive". When peers return before the quorum, a retained
  demand is taken, refused and not put back, against "not disposable work". A recovery
  latch on a tombstone re-arms that tombstone's retention after every event, so the
  demand stays latched, against "replayed by the TerminalRetention event".
  Two clauses carry exceptions for the same reasons: an anchor may leave a target for
  which the same event has started a session (`AnchorIsSticky`), and a detached session
  that is demanded again takes a slot without asking for one (`NewSessionsFit`). The
  recovery latch may name a session that failed in the turn its binding gave it, one that
  a shutdown cancelled, or one that has left the map (`OwnersExact`). `network_admitted`
  ("at most one waiting session per currently usable peer") and `on_connectivity` ("never
  ... rearm their paused timers") describe an earlier policy: all paused sessions are
  granted together and get their deadline back (`NoSilentSession`).
* Origins. Of two preferred targets named without peers the runner keeps the first and
  the port the origin of the second, so the first one's ledger is later dropped as
  `unknown_session`. A validation the runner suppresses has already displaced a pending
  ordinary origin, which it "must not overwrite". The origin of a candidate promoted to recovery target is still a
  candidate's, and the next candidate or withdrawal removes it. Hence `OneDelivery` and
  `DurableIsAdopted` speak of registered sessions, and `OriginsBounded` bounds the origins
  without saying whose they are.
* Handoff. A replay start-up empties the completed-ledger channel, looking for one ledger,
  and neither acknowledges nor rejects the others: their sessions stay DurablePending
  (`OneDelivery` and `DurableIsAdopted` except them). A ledger that fails to persist is
  registered and put to `checkAccept` all the same, once per attempt (`AdoptedOnce` counts
  persistence).

## 4. Proofs

### PrunedStore

`PrunedStoreProofs` proves, for every window, chunk size, set of nodes, set of
threads and bound on sequences:

* `TypeCorrect`, `NeverPrunesRetained`, `NeverStrandsRow`, `NeverPrunesHeld`,
  `PassIsExhaustive`: the invariants `TypeOK`, `RetainedComplete`,
  `NoStrandedRow`, `HoldsRespected`, `PassExhausts`;
* `Refinement`: `PrunedStore` implements `Retention`.

*Assumptions.* `BoundsAssumption`: the window and the chunk size are positive.
`OwnedAssumption`: state and transaction nodes are disjoint, and no two ledgers
share a transaction node. The index depends on the latter (an `OWNED` record
deletes its node without a count), and the design states it: "Each ledger has its own tx tree,
which no later ledger reuses"
(`docs/design/2026-10-07-fjall-pruned-nodestore.md`, Case 2).

Two more assumptions are guards of the environment's actions, which the driver
itself does not check. `HoldPruningAt`: a hold is taken on a ledger inside the
window, as an export does with the validated ledger; `NeverPrunesHeld` needs it.
`Submit`: the first ledger, on which the store anchors without walking it, is
whole on disk, since the sync has stored it; `NeverPrunesRetained` needs it.

*Argument.* `RetainedComplete` says nothing of the index, so it is not inductive.
`IndexInv` adds what the index means:

* `DeathInv`: a node of a claimed ledger is not dead, or died after that ledger;
* `RowInv`: each node has at most one death record; a state record agrees with
  its count row and with the mirror in memory, an owned record is for a
  transaction node; no record is for a live node or behind the cursor;
* `PinInv`: a pinned node is not live and has no record;
* `ClaimsInv`, `PendingInv`, `JobInv`: the last claim, the pending ledger and the
  claim in hand fit together;
* `ChunkInv`: the chunk in hand is a prefix of what is due, and its target is
  outside the window;
* `HoldInv`: the target is below every hold, whenever the hold was taken;
* `CapInv`, for the refinement: the target is within a `can_delete` the operator gave.

A prune batch deletes a node only if its record is at or below the target and its
count row has that very death; by `DeathInv` every ledger that has the node is
then at or below the cursor. `PrunedStoreTypes` proves the type invariant, `PrunedStoreClaims`
the steps of a claim, `PrunedStorePrunes` those of a prune, and `PrunedStoreProofs` combines
them; facts about steps that leave the index alone are proved once.

### JobQueue

`JobQueueProofs` proves `CountersAreTrue`, `NoWakeupLost` and `StopDrains` (the invariants
`CountersTrue`, `WakeupsCoverJobs`, `StoppedIsDrained`) for any finite sets of clients,
workers, dispatchers and types, any limits and any number of jobs (`JobConstants`).
`IInv` adds to the three: a thread runs a job exactly while it holds one (`HeldInv`), the
queue is finite and its jobs were numbered one by one (`IndexInv`), nothing has become
runnable since a worker that is about to sleep looked (`ParkInv`), and the stages of stop
imply what they have established (`StopInv`). The hard case is the end of a job: it may
free a slot for a deferred job, and the worker that finished is the one to look for it,
unless a signal is sent in its place.

### Consensus

`ConsensusProofs` proves `RoundStaysCoherent`, `NoProposalDangles`, `PositionsAreCurrent`,
`PlaybackIsComplete`, `VotesAreTrue`, `AllDifferencesDisputed`, `PeersOnlyMoveForward` and
`OurProposalsIncrease` for any finite set of peers and any ledgers, transactions, offers,
avalanche levels and bounds (`ParmsAssumption`). The invariant has three layers, each
proved from the ones before: `RoundInv` (types, the stack of nested timers, what the phase
implies for the result, what was sent), `PlayInv` (which peers a playback in progress has
visited) and `DisputeInv` (our votes, the compared sets, the peers' votes). `CompareInv`
carries the argument of `DifferencesDisputed`: a set once compared with ours differs from
it only in disputed transactions, also after our position has changed, because a change
only flips disputes.

### What is not proved

*Only model-checked.* `InFlightComplete` and `NeverHalted`, which are about threads that
race the worker and need an invariant over what each has read; `WorkerProgresses`,
`JobsStart`, `CallersReturn` and `DurableIsAdopted`, since the prover has no rules for
fairness; everything with disk errors (`faults`); `Coordinator`, `HandoffOrigins` and
`DurableHandoff`, of which an event is a handler and six reconciliations, checked on two
ledgers; `LedgerTrie` and `Validations`, whose reference definitions are recursive
operators, which the prover does not handle, and whose properties are by induction over a
tree.

## 5. Not modelled

* Of the store: `PrunedStore::store` (called by tests only), dry-run mode, metrics,
  counts of two or more (no delta produces them) and hence `verify_window`, which
  looks at nothing else; `record_completed` and the unwatched reads of the trusted
  restart baseline; an engine that fails to persist a batch it has applied.
* Of the consensus engine: clocks and close times, the order in which playback
  visits peers (any order is allowed), ledger contents.
* Of validations: `by_ledger`, `by_sequence` and their expiry, whose content only feeds
  counts and the reported status; `flush`, which only tests call.
* Of the coordinator: what a plan does (node requests, credits, reads and writes, their
  stale completions), the number and choice of peers, fetch packs, traces and metrics.
  The plan is a state machine over a tree of nodes; its outcome is a choice here.
* Of the inbound ledgers: the read broker, the persistence port before its fence, packet
  lanes and routes.
* Of the strand: the command queue, the accept job and the switch of the last closed
  ledger.
* Of jobs: `xrpl_core`'s own queue with its pausable workers, closure counter and
  coroutines, which no crate of the server uses; load statistics.
* The other parts of section 1; `PROJECT.json` gives the reason for each. Tree
  algorithms, transactors and encodings are sequential code over data far larger
  than TLC can enumerate; together with RPC, storage drivers and tools they are by far
  the largest part of the source, so the modelled share of its lines is small.
