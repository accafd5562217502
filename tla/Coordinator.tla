----------------------------- MODULE Coordinator -----------------------------
(***************************************************************************)
(* The acquisition coordinator (src/xrpld/acquisition/src/runner.rs): one  *)
(* owner task that turns typed events into sessions, one per ledger hash,  *)
(* and decides which ledger the node is recovering.                        *)
(*                                                                         *)
(* handle_event runs the event's handler and then, always, the same chain  *)
(* of reconciliations; an event is one step.  State is threaded through    *)
(* the handlers as a record with the names of the variables.               *)
(*                                                                         *)
(* Sessions are kept in the order of their ids, oldest first.  A target is *)
(* its hash (its sequence is known); peers are present or absent.  What a  *)
(* plan does inside a turn is the outcome of the turn.  Sessions cancelled *)
(* for reasons no later demand looks at are forgotten when the event ends. *)
(* No code enters the phase Dormant.                                       *)
(***************************************************************************)
EXTENDS SyncPhase, Sequences, FiniteSets

CONSTANTS
  Hashes,      \* the ledgers, as positive integers
  LedgerSeq,   \* their sequences
  Worlds       \* the configurations and environments of a run

\* The phases of the service.
ServicePhases ==
  {Disconnected, Connected, Stopping}
    \cup {Syncing(h) : h \in Hashes} \cup {Tracking(h) : h \in Hashes}
    \cup {Full(h, g) : h, g \in Hashes}

\* The phases StartupMode may seed, the events that happen, the AcquireReasons of
\* AcquireRequested, what a plan turn may end in, BudgetState::max_sessions and
\* max_generic_in_flight.
ASSUME CoordinatorConstants ==
  /\ Hashes \subseteq Nat \ {None}
  /\ LedgerSeq \in [Hashes -> Nat]
  /\ \A w \in Worlds :
       /\ DOMAIN w = {"start", "inputs", "reasons", "outcomes", "maxLive", "maxGeneric"}
       /\ w.start \subseteq ServicePhases
       /\ w.reasons \subseteq {"Consensus", "Generic", "History"}
       /\ w.outcomes \subseteq {"job", "yield", "network", "persist", "invalid"}
       /\ w.maxLive \in Nat \ {0} /\ w.maxGeneric \in Nat

VARIABLES
  sessions,    \* CoordinatorState::sessions
  phase,       \* phase
  peers,       \* peer_view.has_usable_peer_capability()
  quorum,      \* consensus_quorum_available
  latest,      \* latest_consensus_target
  deferred,    \* deferred_consensus_acquire
  peerless,    \* deferred_acquires
  anchor,      \* recovery_anchor_target, recovery_anchor_session
  recovery,    \* validation_recovery_target, _session and _candidate
  installed,   \* last_installed_lcl.is_some()
  started,     \* the hashes of the SessionStarted effects of the last event
  world        \* the world this behaviour is in

vars == <<sessions, phase, peers, quorum, latest, deferred, peerless, anchor,
          recovery, installed, started, world>>

MaxLive == world.maxLive
MaxGeneric == world.maxGeneric

Now == [sessions |-> sessions, phase |-> phase, peers |-> peers,
        quorum |-> quorum, latest |-> latest, deferred |-> deferred,
        peerless |-> peerless, anchor |-> anchor, recovery |-> recovery,
        installed |-> installed, started |-> {}]

Become(st) ==
  /\ sessions' = st.sessions
  /\ phase' = st.phase
  /\ peers' = st.peers
  /\ quorum' = st.quorum
  /\ latest' = st.latest
  /\ deferred' = st.deferred
  /\ peerless' = st.peerless
  /\ anchor' = st.anchor
  /\ recovery' = st.recovery
  /\ installed' = st.installed
  /\ started' = st.started
  /\ UNCHANGED world

\* A world of the runs.
World(start, inputs, reasons, outcomes, maxLive, maxGeneric) ==
  [start |-> start, inputs |-> inputs, reasons |-> reasons, outcomes |-> outcomes,
   maxLive |-> maxLive, maxGeneric |-> maxGeneric]

-----------------------------------------------------------------------------
(* Sessions. *)

\* A cancelled session is "Obsolete" when its ledger was installed or
\* superseded, which later demands coalesce with; "Cancelled" otherwise.
\* "Gone" marks a session removed from the map.
LivePhases == {"Active", "Persisting", "DurablePending"}
Tombstones == {"Complete", "Failed", "Obsolete"}

\* pending_timer: the acquire deadline, a handoff retry, or the retention of a
\* terminal session, "Ripe" once its minute is over.
Timers == {"None", "Acquire", "Retry", "Young", "Ripe"}

\* What a local scan holds: nothing, the header read, or a scan permit, a place
\* among the waiters or an incremental write.
Scans == {"none", "header", "job"}

Session == [hash : Hashes, reason : {"Consensus", "Generic", "History"},
            phase : LivePhases \cup Tombstones, admitted : BOOLEAN,
            timer : Timers, idle : BOOLEAN, scan : Scans, swept : BOOLEAN]

NewSession(h, reason) ==
  [hash |-> h, reason |-> reason, phase |-> "Active", admitted |-> TRUE,
   timer |-> "Acquire", idle |-> FALSE, scan |-> "header", swept |-> FALSE]

\* A latch may name a session that has left the map.
Dangling == -1

Mint(st, s) == [st EXCEPT !.sessions = Append(@, s), !.started = @ \cup {s.hash}]

IsLive(s) == s.phase \in LivePhases
LiveFor(st, h) ==
  {i \in DOMAIN st.sessions : IsLive(st.sessions[i]) /\ st.sessions[i].hash = h}

\* A latched session is in the map and has not ended.
OwnerLives(st, i) == i \in DOMAIN st.sessions /\ IsLive(st.sessions[i])

Oldest(S) == IF S = {} THEN None ELSE CHOOSE i \in S : \A j \in S : i <= j

viable_session_for_target(st, h) == Oldest(LiveFor(st, h))

\* counts_toward_live_capacity
Counted(st) ==
  {i \in DOMAIN st.sessions : IsLive(st.sessions[i]) /\ ~st.sessions[i].swept}

\* A session that has ended keeps nothing but its retention timer.
Ended(s, ph) ==
  [s EXCEPT !.phase = ph, !.admitted = FALSE, !.timer = "Young",
            !.idle = FALSE, !.scan = "none", !.swept = FALSE]

\* session_phase_transition lets a session be cancelled or fail before its
\* durable handoff, and not after.
EndSession(st, i, ph) ==
  IF st.sessions[i].phase \in {"Active", "Persisting"}
  THEN [st EXCEPT !.sessions[i] = Ended(@, ph)]
  ELSE st

\* Variant: durable sessions are cancelled as well.
EndEvenDurable(st, S, ph) ==
  [st EXCEPT !.sessions = [i \in DOMAIN @ |->
     IF i \in S /\ IsLive(@[i]) THEN Ended(@[i], ph) ELSE @[i]]]

EndAll(st, S, ph) ==
  [st EXCEPT !.sessions = [i \in DOMAIN @ |->
     IF i \in S /\ @[i].phase \in {"Active", "Persisting"}
     THEN Ended(@[i], ph) ELSE @[i]]]

fail_session(st, i) == EndSession(st, i, "Failed")
cancel_session(st, i) == EndSession(st, i, "Cancelled")

Touched(s) ==
  [s EXCEPT !.swept = FALSE, !.idle = IF s.phase = "Active" THEN FALSE ELSE @]
touch_session_expiry(st, i) == [st EXCEPT !.sessions[i] = Touched(@)]

\* run_plan_turn: more reads, an incremental write or a place in the queue for a
\* scan permit ("job"); the end of a slice ("yield"); nothing to do but wait for
\* peers ("network"), where a swept session ends; the final batch; a broken tree.
Turned(s, outcome) ==
  CASE outcome = "job" -> [s EXCEPT !.scan = "job"]
    [] outcome = "yield" -> [s EXCEPT !.scan = "none", !.swept = FALSE]
    [] outcome = "network" ->
         [s EXCEPT !.scan = "none", !.phase = IF s.swept THEN "Gone" ELSE @]
    [] outcome = "persist" ->
         [s EXCEPT !.scan = "none", !.swept = FALSE, !.phase = "Persisting", !.timer = "None"]
    [] outcome = "invalid" -> Ended(s, "Failed")

\* The sessions in S take a turn each.
TakeTurns(st, S, out) ==
  [st EXCEPT !.sessions = [i \in DOMAIN @ |->
     IF i \in S THEN Turned(@[i], out[i]) ELSE @[i]]]

\* At the end of an event the sessions that no longer matter leave the map: those
\* that stay close ranks, in the same order, and the owners are renumbered.
Kept(st) ==
  SelectSeq([i \in DOMAIN st.sessions |-> i],
            LAMBDA i : st.sessions[i].phase \in LivePhases \cup Tombstones)
Renumbered(order, i) ==
  IF i = None THEN None
  ELSE IF \E k \in DOMAIN order : order[k] = i THEN CHOOSE k \in DOMAIN order : order[k] = i
  ELSE Dangling
Compact(st) ==
  LET order == Kept(st)
  IN [st EXCEPT !.sessions = [k \in DOMAIN order |-> st.sessions[order[k]]],
                !.anchor.session = Renumbered(order, @),
                !.recovery.session = Renumbered(order, @)]

\* The end of an event that left the state st.
Finish(st) == \E new \in {Compact(st)} : Become(new)

-----------------------------------------------------------------------------
(* Demands. *)

\* retain_peerless_acquire: the newest demand of each class, preferred and
\* ordinary.  A repeat of a retained target keeps its stronger claims.
retain_peerless_acquire(st, h, reason, preferred, neutral) ==
  LET same == {d \in st.peerless : d.hash = h}
      wasPreferred == \E d \in same : d.preferred
      entry == [hash |-> h,
                reason |-> IF preferred \/ ~wasPreferred THEN reason
                           ELSE (CHOOSE d \in same : TRUE).reason,
                preferred |-> preferred \/ wasPreferred,
                neutral |-> neutral /\ \A d \in same : d.neutral]
      others == {d \in st.peerless : d.hash # h /\ d.preferred # entry.preferred}
  IN [st EXCEPT !.peerless = others \cup {entry}]

ApplyFact(st, fact) == [st EXCEPT !.phase = After(@, fact)]

HasLcl(st) == st.phase.mode \in {"Tracking", "Full"}

\* Only the two latched targets have the authority of recovery.
IsRecoveryDemand(st, h, reason, neutral) ==
  reason = "Consensus" /\ ~neutral /\ st.anchor.target = h
IsValidationRecoveryDemand(st, h, reason, neutral) ==
  reason = "Consensus" /\ neutral /\ st.recovery.target = h

\* Who is cancelled for a recovery demand at capacity: History before Generic,
\* the oldest first.
Preemptable(st) ==
  {i \in Counted(st) : /\ st.sessions[i].reason \in {"History", "Generic"}
                       /\ st.sessions[i].phase \in {"Active", "Persisting"}}
Preempted(st) ==
  LET history == {i \in Preemptable(st) : st.sessions[i].reason = "History"}
  IN Oldest(IF history # {} THEN history ELSE Preemptable(st))

\* Variant: the capacity is compared one too late.
RoomForOneMore(st, reason, stable) ==
  \/ Cardinality(Counted(st)) > MaxLive
  \/ /\ reason = "Generic" /\ MaxGeneric # 0
     /\ Cardinality({i \in Counted(st) : st.sessions[i].reason = "Generic"}) >= MaxGeneric
  \/ ~stable /\ st.deferred # None

NoRoom(st, reason, stable) ==
  \/ Cardinality(Counted(st)) >= MaxLive
  \/ /\ reason = "Generic" /\ MaxGeneric # 0
     /\ Cardinality({i \in Counted(st) : st.sessions[i].reason = "Generic"}) >= MaxGeneric
  \/ ~stable /\ st.deferred # None

\* The end of on_acquire, for a demand that is admitted: the phase follows it
\* unless it is phase-neutral, an LCL is installed or another target is
\* preferred; a demand the phase refuses is dropped.
Admit(st, h, reason, neutral, own) ==
  LET steers == /\ ~neutral
                /\ ~HasLcl(st)
                /\ IsRecoveryDemand(st, h, reason, neutral) \/ st.latest = None
      st1 == IF steers THEN ApplyFact(st, TargetRequired(h)) ELSE st
  IN IF steers /\ ~Legal(st.phase, TargetRequired(h)) THEN st
     ELSE IF own # None THEN touch_session_expiry(st1, own)
     ELSE Mint(st1, NewSession(h, reason))

\* A demand that found no room: the anchor's is kept, and still moves the phase.
Refuse(st, h, reason, neutral) ==
  IF ~IsRecoveryDemand(st, h, reason, neutral) THEN st
  ELSE LET st1 == [st EXCEPT !.deferred = h]
       IN IF HasLcl(st) THEN st1 ELSE ApplyFact(st1, TargetRequired(h))

AcquireWithPeers(st, h, reason, neutral) ==
  LET own == viable_session_for_target(st, h)
      retained == {i \in DOMAIN st.sessions :
                     st.sessions[i].hash = h /\ st.sessions[i].phase = "Obsolete"}
      stable == \/ IsRecoveryDemand(st, h, reason, neutral)
                \/ IsValidationRecoveryDemand(st, h, reason, neutral)
      full == own = None /\ NoRoom(st, reason, stable)
      victim == IF full /\ stable THEN Preempted(st) ELSE None
  IN IF own = None /\ retained # {}
     THEN [st EXCEPT !.sessions[Oldest(retained)].timer = "Young"]
     ELSE IF full /\ victim = None THEN Refuse(st, h, reason, neutral)
     ELSE Admit(IF victim = None THEN st ELSE cancel_session(st, victim),
                h, reason, neutral, own)

\* on_acquire: the validation-recovery gate, the tombstone of a finished
\* session, peerless retention, and only then a session.
on_acquire(st, h, reason, preferred, neutral) ==
  LET recoveryDemand == IsRecoveryDemand(st, h, reason, neutral)
      ended == {i \in DOMAIN st.sessions :
                  st.sessions[i].hash = h /\ st.sessions[i].phase \in {"Complete", "Failed"}}
      endedAs == st.sessions[Oldest(ended)].phase
      moving == preferred /\ st.anchor.target \notin {None, h}
  IN IF reason = "Consensus" /\ st.recovery.target \notin {None, h}
     THEN IF preferred \/ recoveryDemand THEN [st EXCEPT !.deferred = h] ELSE st
     ELSE IF ended # {}
     THEN IF endedAs = "Failed" /\ (preferred \/ recoveryDemand)
          THEN [st EXCEPT !.deferred = h]
          ELSE IF endedAs = "Complete" /\ IsValidationRecoveryDemand(st, h, reason, neutral)
          THEN [st EXCEPT !.recovery = [@ EXCEPT !.target = None, !.session = None]]
          ELSE st
     ELSE IF ~st.peers
     THEN IF moving THEN st
          ELSE retain_peerless_acquire(st, h, reason, recoveryDemand, neutral)
     ELSE AcquireWithPeers(st, h, reason, neutral)

\* deferred_acquires, one demand of each class at most, is replayed in the order
\* of the targets.
ReplayPeerless(st) ==
  LET D == st.peerless
      first == CHOOSE d \in D : \A e \in D : d.hash <= e.hash
      second == CHOOSE d \in D : d # first
      replay(s, d) == on_acquire(s, d.hash, d.reason, d.preferred, d.neutral)
      cleared == [st EXCEPT !.peerless = {}]
  IN IF D = {} THEN cleared
     ELSE IF D = {first} THEN replay(cleared, first)
     ELSE replay(replay(cleared, first), second)

-----------------------------------------------------------------------------
(* The reconciliations at the end of every event. *)

\* The states in which some of S have taken a turn.
SomeTurn(st, S) ==
  UNION {{TakeTurns(st, T, out) : out \in [T -> world.outcomes]} : T \in SUBSET S}

\* The sessions that hold or wait for a scan permit.
Scanning(st) ==
  {i \in DOMAIN st.sessions :
     st.sessions[i].phase = "Active" /\ st.sessions[i].scan = "job"}

\* Binding an existing session that waits for a scan permit kicks the queue: it,
\* or whoever ranks before it, may take a turn.
Kicks(st) ==
  IF st.recovery.session \in Scanning(st) THEN SomeTurn(st, Scanning(st)) ELSE {st}

\* What else happens inside a step from st to new: a session that started may be
\* seeded from a resident tree and take its first turn, and a permit given up
\* passes to the next in the queue, whose turn may give it up again
\* (release_local_scan_permit).
Passes(st, new) ==
  LET fresh == DOMAIN new.sessions \ DOMAIN st.sessions
      freed == fresh # {} \/ Scanning(st) \ Scanning(new) # {}
  IN IF freed THEN SomeTurn(new, fresh \cup Scanning(new)) ELSE {new}

BindRecovery(st, h) ==
  [st EXCEPT !.recovery.session = viable_session_for_target(st, h)]

\* The states this may end in.
reconcile_validation_recovery_owner(st) ==
  LET owner == st.recovery.session
      released == owner # None /\ ~OwnerLives(st, owner)
      st1 == IF released
             THEN [st EXCEPT !.recovery = [target |-> @.next, session |-> None, next |-> None]]
             ELSE st
      target == st1.recovery.target
  IN IF (owner # None /\ ~released) \/ target = None THEN {st1}
     ELSE IF viable_session_for_target(st1, target) # None THEN Kicks(BindRecovery(st1, target))
     ELSE {BindRecovery(new, target) :
             new \in Passes(st1, on_acquire(st1, target, "Consensus", FALSE, TRUE))}

replay_deferred_consensus(st) ==
  IF ~st.peers \/ Cardinality(Counted(st)) >= MaxLive \/ st.deferred = None THEN st
  ELSE on_acquire([st EXCEPT !.deferred = None, !.latest = st.deferred],
                  st.deferred, "Consensus", TRUE, FALSE)

\* A target latched before its session exists is bound as soon as it does.
BindAnchor(st) ==
  IF st.anchor.target = None THEN st
  ELSE [st EXCEPT !.anchor.session = viable_session_for_target(st, st.anchor.target)]

\* Variant: a failed owner stays bound.
KeepFailedOwner(st) ==
  LET owner == st.anchor.session
  IN IF owner = None THEN BindAnchor(st)
     ELSE IF OwnerLives(st, owner) \/ st.sessions[owner].phase = "Failed" THEN st
     ELSE [st EXCEPT !.anchor = [target |-> None, session |-> None]]

reconcile_recovery_anchor(st) ==
  LET owner == st.anchor.session
      s == st.sessions[owner]
      successor == IF st.latest = None THEN None
                   ELSE viable_session_for_target(st, st.latest)
  IN IF owner = None THEN BindAnchor(st)
     ELSE IF IsLive(s) /\ s.hash = st.anchor.target THEN st
     ELSE IF s.phase = "Complete" THEN [st EXCEPT !.anchor.session = None]
     ELSE [st EXCEPT !.anchor =
             [target |-> IF successor = None THEN None ELSE st.latest,
              session |-> successor]]

\* Variant: with a ledger installed the phase does not follow the anchor.
EnforceWithoutLcl(st) ==
  IF st.anchor.target = None \/ ~st.peers \/ HasLcl(st) \/ st.phase.mode = "Disconnected"
  THEN st
  ELSE [st EXCEPT !.phase = Syncing(st.anchor.target)]

enforce_recovery_anchor_phase(st) ==
  IF st.anchor.target = None \/ ~st.peers \/ st.phase.mode \in {"Disconnected", "Stopping"}
  THEN st
  ELSE [st EXCEPT !.phase = Syncing(st.anchor.target)]

has_viable_target_work(st, h) ==
  \/ LiveFor(st, h) # {}
  \/ st.deferred = h
  \/ \E d \in st.peerless : d.hash = h

promote_latest_viable_syncing_anchor(st) ==
  IF /\ st.anchor.target = None
     /\ st.phase.mode = "Syncing"
     /\ ~has_viable_target_work(st, st.phase.hash)
     /\ st.latest # None
     /\ has_viable_target_work(st, st.latest)
  THEN [st EXCEPT !.phase = Syncing(st.latest)]
  ELSE st

\* handle_event, once the handler has left the state st: one reconciliation
\* after the other.
Handle(st) ==
  \E s0 \in Passes(Now, st) :
  \E s1 \in reconcile_validation_recovery_owner(s0) :
  \E s2 \in Passes(s1, replay_deferred_consensus(s1)) :
  \E s3 \in {reconcile_recovery_anchor(s2)} :
  \E s4 \in {enforce_recovery_anchor_phase(s3)} :
  \E s5 \in {promote_latest_viable_syncing_anchor(s4)} : Finish(s5)

-----------------------------------------------------------------------------
(* Events. *)

Happens(name) == name \in world.inputs /\ phase.mode # "Stopping"

Shuts ==
  /\ Happens("Shutdown")
  /\ Finish(reconcile_recovery_anchor(
       EndAll(ApplyFact(Now, Shutdown), DOMAIN sessions, "Cancelled")))

\* pause_live_sessions_for_peer_loss
Pause(st) ==
  [st EXCEPT !.sessions = [i \in DOMAIN @ |->
     IF @[i].phase = "Active" THEN [@[i] EXCEPT !.admitted = FALSE, !.timer = "None"]
     ELSE @[i]]]

grant_recovered_session(s) ==
  IF s.phase = "Active" /\ ~s.admitted
  THEN [s EXCEPT !.admitted = TRUE, !.timer = IF @ = "None" THEN "Acquire" ELSE @]
  ELSE s

\* resume_live_sessions_after_peer_recovery
ResumeUnarmed(st) ==
  [st EXCEPT !.sessions = [i \in DOMAIN @ |-> [@[i] EXCEPT !.admitted = TRUE]]]

Resume(st) ==
  LET st1 == IF st.anchor.session = None THEN st
             ELSE ApplyFact(st, TargetRequired(st.sessions[st.anchor.session].hash))
  IN [st1 EXCEPT !.sessions = [i \in DOMAIN @ |-> grant_recovered_session(@[i])]]

on_connectivity(st, up, neutral) ==
  LET st1 == [st EXCEPT !.peers = up]
  IN IF ~up
     THEN IF ~st.peers THEN st
          ELSE Pause(IF neutral THEN st1 ELSE ApplyFact(st1, PeerCapabilityLost))
     ELSE ReplayPeerless(Resume(
            IF st.peers \/ neutral \/ ~st.quorum THEN st1
            ELSE ApplyFact(st1, PeerCapabilityAvailable)))

Connectivity(up) ==
  /\ Happens(IF up THEN "PeersUp" ELSE "PeersDown")
  /\ Handle(on_connectivity(Now, up, FALSE))

\* on_transport_connectivity puts the phase back.
TransportConnectivity(up) ==
  /\ Happens("Transport")
  /\ Handle([on_connectivity(Now, up, TRUE) EXCEPT !.phase = phase])

QuorumLost ==
  /\ Happens("Quorum")
  /\ Handle(IF quorum THEN ApplyFact([Now EXCEPT !.quorum = FALSE], ConsensusQuorumLost)
            ELSE Now)

QuorumAvailable ==
  /\ Happens("Quorum")
  /\ Handle(IF quorum /\ phase.mode # "Disconnected" THEN Now
            ELSE ApplyFact([Now EXCEPT !.quorum = TRUE], ConsensusQuorumAvailable))

AcquireRequested(h, reason) ==
  /\ Happens("Acquire")
  /\ Handle(on_acquire(Now, h, reason, FALSE, FALSE))

ValidationTarget(h) ==
  /\ Happens("Validation")
  /\ Handle(on_acquire(Now, h, "Consensus", FALSE, TRUE))

\* on_validation_recovery_target: h is None when the accepted boundary saw no
\* ledger to recover.
ValidationRecoveryTarget(h) ==
  LET owner == recovery.session
      candidate(c) == [Now EXCEPT !.recovery.next = c]
      demand(st) == on_acquire(st, h, "Consensus", FALSE, TRUE)
  IN /\ Happens("Recovery")
     /\ Handle(
          IF h = None THEN candidate(None)
          ELSE IF recovery.target = None
          THEN demand([Now EXCEPT !.recovery.target = h, !.recovery.next = None])
          ELSE IF \/ recovery.target # h
                  \/ owner \in DOMAIN sessions /\ ~IsLive(sessions[owner])
          THEN candidate(h)
          ELSE demand(candidate(None)))

\* observe_consensus_target
ObserveMoving(st, h, latch) ==
  [st EXCEPT !.latest = h, !.anchor.target = IF latch THEN h ELSE @]

Observe(st, h, latch) ==
  [st EXCEPT !.latest = h,
             !.anchor.target = IF latch /\ @ = None THEN h ELSE @]

ConsensusTarget(h) ==
  LET latch == phase.mode = "Syncing" \/ (~installed /\ ~HasLcl(Now))
      st == Observe(Now, h, latch)
  IN /\ Happens("Consensus")
     /\ Handle(on_acquire([st EXCEPT !.deferred = IF @ = h THEN None ELSE @],
                          h, "Consensus", TRUE, FALSE))

ViewChange ==
  /\ Happens("ViewChange")
  /\ Handle(ApplyFact(Now, ConsensusViewChange))

Divergence(h) ==
  /\ Happens("Divergence")
  /\ Handle(IF peers THEN ApplyFact(Observe(Now, h, TRUE), PreferredLclDivergence(h))
            ELSE Now)

Reconciled(h) ==
  /\ Happens("Reconciled")
  /\ Handle(ApplyFact(
       [Now EXCEPT !.installed = TRUE,
                   !.anchor = [target |-> None, session |-> None],
                   !.recovery = [target |-> None, session |-> None, next |-> None],
                   !.latest = None, !.deferred = None],
       PreferredLclReconciled(h)))

Blocked ==
  /\ Happens("Blocked")
  /\ Handle(ApplyFact(Now, BlockedWithNoTarget))

\* on_lcl_installed: the phase follows the LCL forward; sessions for the ledger,
\* and consensus sessions below the published ledger, are obsolete.
LclInstalled(h) ==
  LET newer == LedgerSeq[h] > LedgerSeq[phase.hash]
      ph == CASE phase.mode = "Syncing" /\ phase.hash = h -> After(phase, TargetInstalledAsLcl(h))
              [] phase.mode = "Connected" -> After(phase, TargetInstalledAsLcl(h))
              [] phase.mode = "Tracking" /\ newer -> Tracking(h)
              [] phase.mode = "Full" /\ newer -> Full(h, phase.published)
              [] OTHER -> phase
      superseded ==
        {i \in DOMAIN sessions :
           /\ ph.mode = "Full"
           /\ sessions[i].reason = "Consensus"
           /\ LedgerSeq[sessions[i].hash] < LedgerSeq[ph.published]}
      st == [Now EXCEPT !.installed = TRUE, !.phase = ph,
                        !.anchor = IF @.target = h THEN [target |-> None, session |-> None] ELSE @,
                        !.latest = IF @ = h THEN None ELSE @]
  IN /\ Happens("Lcl")
     /\ Handle(EndAll(st, LiveFor(Now, h) \cup superseded, "Obsolete"))

PublicationCommitted(h, fresh) ==
  /\ Happens("Publication")
  /\ Handle(
       CASE phase.mode = "Full" /\ LedgerSeq[h] > LedgerSeq[phase.published] ->
              [Now EXCEPT !.phase = Full(phase.hash, h)]
         [] phase.mode = "Tracking" /\ fresh ->
              ApplyFact(Now, ChainContiguous(phase.hash, h))
         [] OTHER -> Now)

\* A rotation to a new generation: every session was minted against an old one.
StoreRotated ==
  /\ Happens("Rotation")
  /\ Handle(EndAll(Now, DOMAIN sessions, "Cancelled"))

\* on_heartbeat republishes the phase.  Heartbeats are far more frequent than
\* the minute of retention, so a retention timer is over only after one.
Heartbeat ==
  /\ Happens("Heartbeat")
  /\ Handle([Now EXCEPT !.sessions = [i \in DOMAIN @ |->
       IF @[i].timer = "Young" THEN [@[i] EXCEPT !.timer = "Ripe"] ELSE @[i]]])

-----------------------------------------------------------------------------
(* Sessions at work. *)

\* A packet, a read, an incremental write, a slice or a fetch pack gives some
\* sessions a turn; so does a permit that passes from one to the next.
Turns ==
  LET active == {i \in DOMAIN sessions : sessions[i].phase = "Active"}
  IN /\ Happens("Turns")
     /\ \E S \in SUBSET active \ {{}} : \E out \in [S -> world.outcomes] :
          Handle(TakeTurns(Now, S, out))

\* on_write and on_durability: the final batch passes its fence, fails, or
\* belonged to a rotated store.
PersistEnds(i, ph) ==
  /\ Happens("Turns")
  /\ sessions[i].phase = "Persisting"
  /\ Handle(IF ph = "DurablePending"
            THEN [Now EXCEPT !.sessions[i].phase = ph, !.sessions[i].timer = "None"]
            ELSE EndSession(Now, i, ph))

HandoffAcknowledged(i) ==
  /\ Happens("Turns")
  /\ sessions[i].phase = "DurablePending"
  /\ Handle([Now EXCEPT !.sessions[i] = Ended(@, "Complete")])

HandoffRejected(i) ==
  /\ Happens("Turns")
  /\ sessions[i].phase = "DurablePending" /\ sessions[i].timer = "None"
  /\ Handle([Now EXCEPT !.sessions[i].timer = "Retry"])

RetryFires(i) ==
  /\ phase.mode # "Stopping"
  /\ sessions[i].timer = "Retry"
  /\ Handle([Now EXCEPT !.sessions[i].timer = "None"])

\* Another interval after the acquire deadline: a session without progress may be
\* seeded from a resident tree and take a turn at once; the deadline is armed again
\* whatever came of that; and a session still active takes its turn.
Rearmed(s) == IF s.phase = "Gone" THEN s ELSE [s EXCEPT !.timer = "Acquire"]
NextInterval(s, seeding, outcome) ==
  LET armed == Rearmed(IF seeding = "none" THEN s ELSE Turned(s, seeding))
  IN IF armed.phase = "Active" THEN Turned(armed, outcome) ELSE armed

\* on_timer, the acquire deadline: put off while a scan runs, dropped while
\* recovery is withheld, and otherwise another interval or the last one.
AcquireTimeout(i) ==
  /\ Happens("Timeout")
  /\ sessions[i].phase = "Active" /\ sessions[i].timer = "Acquire"
  /\ IF sessions[i].scan # "none" THEN Handle(Now)
     ELSE IF ~sessions[i].admitted \/ ~peers
     THEN Handle([Now EXCEPT !.sessions[i].timer = "None"])
     ELSE \/ Handle(fail_session(Now, i))
          \/ \E seeding \in world.outcomes \cup {"none"}, out \in world.outcomes :
               Handle([Now EXCEPT !.sessions[i] = NextInterval(@, seeding, out)])

\* A session nobody asked for in a minute may be swept, unless it is bound.
SessionExpiry(i) ==
  /\ Happens("Expiry")
  /\ sessions[i].phase = "Active" /\ ~sessions[i].idle
  /\ Handle(IF i \in {anchor.session, recovery.session}
            THEN touch_session_expiry(Now, i)
            ELSE [Now EXCEPT !.sessions[i].idle = TRUE])

\* on_registry_sweep: a session whose scan is under way is only detached.
RegistrySweep ==
  /\ Happens("Sweep")
  /\ Handle([Now EXCEPT !.sessions = [i \in DOMAIN @ |->
       IF ~(@[i].idle /\ @[i].phase = "Active") THEN @[i]
       ELSE IF @[i].swept \/ @[i].scan = "job" THEN [@[i] EXCEPT !.swept = TRUE]
       ELSE [@[i] EXCEPT !.phase = "Gone"]]])

RetentionEnds(i) ==
  /\ phase.mode # "Stopping"
  /\ sessions[i].timer = "Ripe"
  /\ Handle([Now EXCEPT !.sessions[i].phase = "Gone"])

-----------------------------------------------------------------------------

\* on_startup_mode has seeded the phase; peers are absent until the first
\* connectivity fact.
Init ==
  /\ sessions = <<>>
  /\ world \in Worlds
  /\ phase \in world.start
  /\ peers = FALSE
  /\ quorum = TRUE
  /\ latest = None
  /\ deferred = None
  /\ peerless = {}
  /\ anchor = [target |-> IF phase.mode = "Syncing" THEN phase.hash ELSE None,
               session |-> None]
  /\ recovery = [target |-> None, session |-> None, next |-> None]
  /\ installed = FALSE
  /\ started = {}

ServiceFact ==
  \/ Shuts
  \/ \E up \in BOOLEAN : Connectivity(up) \/ TransportConnectivity(up)
  \/ QuorumLost
  \/ QuorumAvailable
  \/ ViewChange
  \/ Blocked
  \/ StoreRotated

LedgerFact ==
  \/ \E h \in Hashes, reason \in world.reasons : AcquireRequested(h, reason)
  \/ \E h \in Hashes : \/ ValidationTarget(h)
                       \/ ConsensusTarget(h)
                       \/ Divergence(h)
                       \/ Reconciled(h)
                       \/ LclInstalled(h)
                       \/ \E fresh \in BOOLEAN : PublicationCommitted(h, fresh)
  \/ \E h \in Hashes \cup {None} : ValidationRecoveryTarget(h)

PlanEvent ==
  \/ Turns
  \/ \E i \in DOMAIN sessions :
       \/ \E ph \in {"Failed", "Cancelled"} : PersistEnds(i, ph)
       \/ AcquireTimeout(i)
       \/ SessionExpiry(i)
       \/ RetentionEnds(i)
  \/ RegistrySweep
  \/ Heartbeat

\* What a session does with its durable ledger depends on the port and on the
\* recipient.
HandoffEvent ==
  \E i \in DOMAIN sessions :
    \/ PersistEnds(i, "DurablePending")
    \/ HandoffAcknowledged(i)
    \/ HandoffRejected(i)
    \/ RetryFires(i)

Next == ServiceFact \/ LedgerFact \/ PlanEvent \/ HandoffEvent

Spec == Init /\ [][Next]_vars

-----------------------------------------------------------------------------
(* Properties. *)

\* Every variable has the shape the runner gives it.
TypeOK ==
  /\ sessions \in Seq(Session)
  /\ phase \in ServicePhases
  /\ {peers, quorum, installed} \subseteq BOOLEAN
  /\ {latest, deferred} \subseteq Hashes \cup {None}
  /\ \A d \in peerless : d.hash \in Hashes /\ {d.preferred, d.neutral} \subseteq BOOLEAN
  /\ \A d, e \in peerless : d.preferred = e.preferred => d = e
  /\ anchor.target \in Hashes \cup {None} /\ anchor.session \in 0..Len(sessions)
  /\ {recovery.target, recovery.next} \subseteq Hashes \cup {None}
  /\ recovery.session \in {Dangling} \cup 0..Len(sessions)
  /\ started \subseteq Hashes

\* Between events a hash has at most one session, live or remembered, and the
\* anchor is bound to the live session for its own target exactly when there is
\* one: scheduling never favours a session that has ended or acquires something
\* else, and never overlooks the one that does the work, whichever of a dozen
\* handlers ended or started it (reconcile_recovery_anchor).  The recovery latch
\* overlooks no session either while it is unbound, and is bound to a session for
\* its target.  That session is not always a live one between events: it may have
\* failed or expired in a turn that the binding, or the replay after it, gave it
\* (reconcile_validation_recovery_owner), and a shutdown cancels it and leaves the
\* latch alone.
OwnersExact ==
  /\ TypeOK
  /\ \A i, j \in DOMAIN sessions : sessions[i].hash = sessions[j].hash => i = j
  /\ anchor.session = viable_session_for_target(Now, anchor.target)
  /\ recovery.session = None => LiveFor(Now, recovery.target) = {}
  /\ recovery.session \in DOMAIN sessions =>
       /\ sessions[recovery.session].hash = recovery.target
       /\ sessions[recovery.session].phase \in LivePhases \cup {"Failed"}

\* While peers are usable, every active session is admitted and has its deadline
\* armed; without peers none is (pause_live_sessions_for_peer_loss,
\* grant_recovered_session).  A session with peers and no deadline never ends.  All
\* paused sessions are granted together: "peer availability is not an exclusive
\* lease that may strand sessions beyond peer count".  The comments of
\* network_admitted ("at most one waiting session per currently usable peer") and
\* of on_connectivity ("never ... rearm their paused timers") describe an earlier
\* policy.
NoSilentSession ==
  \A i \in DOMAIN sessions :
    sessions[i].phase = "Active" =>
      (sessions[i].admitted = peers) /\ (sessions[i].timer = "Acquire") = peers

\* While an anchor is latched and the service is connected, the phase is Syncing
\* on that anchor, whatever consensus and validation have observed since; and a
\* node with an installed LCL goes back to Syncing only for a latched anchor, never
\* because some ledger is being fetched (enforce_recovery_anchor_phase,
\* on_consensus).
PhaseFollowsAnchor ==
  [][/\ HasLcl(Now) /\ phase'.mode = "Syncing" => anchor'.target # None
     /\ (anchor.target # None /\ peers /\ phase.mode \notin {"Disconnected", "Stopping"} =>
           phase = Syncing(anchor.target))']_vars

\* A finished acquisition is never revoked: neither a sweep, a rotation, an
\* installed LCL, a preemption nor a shutdown takes a session out of
\* DurablePending, only its acknowledgement does.
DurableStays ==
  [][\A h \in Hashes :
       (\E i \in LiveFor(Now, h) : sessions[i].phase = "DurablePending") =>
         \E i \in DOMAIN sessions' :
           sessions'[i].hash = h /\ sessions'[i].phase \in {"DurablePending", "Complete"}]_vars

\* The anchor moves from one target to another only from a target that was bound,
\* at an event that ends its session before completion: no observation replaces the
\* target itself, and a target whose session has not started, or whose ledger is
\* complete, is not replaced at all (reconcile_recovery_anchor).  What is live for
\* the old target afterwards was started by the same event.  An observation may be
\* the event that ends the session: a Generic session bound to the anchor is
\* preempted at capacity for a validation-recovery target, which the comment of
\* recovery_anchor_session rules out ("cannot preempt this owner while it remains
\* viable").
AnchorIsSticky ==
  [][\A h \in Hashes :
       anchor.target = h /\ anchor'.target \notin {h, None} =>
         /\ anchor.session # None
         /\ \A i \in DOMAIN sessions' :
              sessions'[i].hash = h => sessions'[i].phase \in {"Failed", "Obsolete"} \/ h \in started'
    ]_vars

\* Live sessions that are swept while their scan is under way hold no slot.
Detached(st) ==
  {i \in DOMAIN st.sessions :
     /\ IsLive(st.sessions[i])
     /\ st.sessions[i].swept \/ (st.sessions[i].idle /\ st.sessions[i].scan = "job")}

\* New sessions never take the sessions that hold a slot past the capacity, or past
\* where they were: only sessions a sweep has detached come on top, when they are
\* demanded again or give up their permit (on_acquire, replay_deferred_consensus,
\* touch_session_expiry, release_local_scan_permit).
NewSessionsFit ==
  [][LET counted == Cardinality(Counted(Now))
     IN Cardinality(Counted(Now)') <=
          (IF counted > MaxLive THEN counted ELSE MaxLive) + Cardinality(Detached(Now))]_vars
=============================================================================
