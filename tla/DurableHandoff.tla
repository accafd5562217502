--------------------------- MODULE DurableHandoff ---------------------------
(***************************************************************************)
(* From a passed durability fence to an adopted ledger: the coordinator    *)
(* publishes the ledger of a DurablePending session through the handoff    *)
(* port into the completed-ledger channel, the NetworkOps strand persists  *)
(* and registers it, keeps its graphs, and acknowledges or rejects; the    *)
(* coordinator completes the session and returns a receipt for the graphs. *)
(* (coordinator_handoff.rs, coordinator_adapter.rs, coordinator_ports.rs   *)
(* and registry.rs of src/xrpld/app/src/ledger/inbound_ledgers, and        *)
(* src/xrpld/app/src/network/network_ops_strand.rs.)                       *)
(*                                                                         *)
(* Owner and strand are two threads that meet at the coordinator's lock: a *)
(* step is what one of them does under the lock, or in the channel.  The   *)
(* id a fence gives its handoff is never given again: a handoff is its     *)
(* ledger and the number of the ledger's fences so far.                    *)
(***************************************************************************)
EXTENDS HandoffOrigins, FiniteSetsExt, Functions

CONSTANTS
  ChannelCap,  \* capacity of the completed-ledger channel
  TurnCap,     \* MAX_LEDGER_COMPLETIONS_PER_TURN
  GateCap,     \* MAX_PENDING_DURABLE_ACKS and MAX_COORDINATOR_HANDOFF_DEDUP
  LaneCap,     \* CONTROL_EVENT_QUEUE_CAPACITY, of priority_durable_acks
  ControlCap,  \* CONTROL_EVENT_QUEUE_CAPACITY, of the control lane
  MaxFences    \* bound on the fences of one ledger

ASSUME HandoffConstants ==
  {ChannelCap, TurnCap, GateCap, LaneCap, ControlCap, MaxFences} \subseteq Nat \ {0}

VARIABLES
  fences,      \* of each ledger, how many durability fences have passed
  published,   \* CoordinatorHandoffPort::published
  channel,     \* the completed-ledger channel
  lane,        \* the control lane: DurableHandoffRejected events, and other facts
  blocked,     \* the port waits for room in the lane, with the coordinator locked
  acks,        \* priority_durable_acks
  receipts,    \* processed_durable_acks
  turn,        \* where the strand is in its loop
  budget,      \* how many completed ledgers it may still take in this pass
  item,        \* the completed ledger it is processing
  claimed,     \* coordinator_handoff_dedup, in the order of the claims
  graphs,      \* pending_durable_graphs
  kept,        \* deferred_graph_releases
  discarded,   \* the handoffs a replay start-up took from the channel
  unsent,      \* pending_durable_acks
  offered,     \* the handoffs registered and put to checkAccept
  adopted      \* how often the ledger of each handoff was persisted

port == <<published, channel, lane, blocked>>
books == <<claimed, graphs, kept, discarded, unsent, offered, adopted>>
strand == <<turn, budget, item, books>>
handoffvars == <<allvars, fences, port, acks, receipts, strand>>

Handoff(h, n) == [hash |-> h, id |-> n]
Handoffs == [hash : Hashes, id : 1..MaxFences]

\* No handoff: an idle strand, and a fact of another producer in the lane.
Nothing == Handoff(None, 0)

\* The sessions whose pending_handoff is d.
Pending(d) ==
  {i \in LiveFor(Now, d.hash) : sessions[i].phase = "DurablePending" /\ fences[d.hash] = d.id}

-----------------------------------------------------------------------------
(* The owner thread. *)

\* reject: send waits for room in a lane that only the caller drains.
reject(d) ==
  IF Len(lane) < ControlCap THEN lane' = Append(lane, d) /\ UNCHANGED blocked
  ELSE blocked' = TRUE /\ UNCHANGED lane

\* A handoff already published is a duplicate, one of an unregistered session is
\* dropped; a full channel, or one without a receiver, sends the coordinator a
\* rejection.
publish_durable(d) ==
  IF d \in published \/ d.hash \notin registered THEN UNCHANGED port
  ELSE IF Len(channel) < ChannelCap /\ turn # "ended"
  THEN /\ channel' = Append(channel, d)
       /\ published' = published \cup {d}
       /\ UNCHANGED <<lane, blocked>>
  ELSE reject(d) /\ UNCHANGED <<published, channel>>

FencePasses(i) ==
  LET h == sessions[i].hash
  IN /\ fences[h] < MaxFences
     /\ handle_fact(PersistEnds(i, "DurablePending"))
     /\ publish_durable(Handoff(h, fences[h] + 1))
     /\ fences' = [fences EXCEPT ![h] = @ + 1]
     /\ UNCHANGED <<acks, receipts, strand>>

RetryPublishes(i) ==
  /\ handle_fact(RetryFires(i))
  /\ publish_durable(Handoff(sessions[i].hash, fences[sessions[i].hash]))
  /\ UNCHANGED <<fences, acks, receipts, strand>>

\* on_handoff_rejected, stale when a retry is already armed.
Rejected(d) ==
  handle_fact(IF \E i \in Pending(d) : sessions[i].timer = "None"
              THEN \E i \in Pending(d) : HandoffRejected(i)
              ELSE Handle(Now))

\* drain takes the next fact of the lane.  What the facts of other producers do is
\* OtherFact; here they only take room.
DrainControl ==
  /\ lane # <<>>
  /\ Rejected(Head(lane))
  /\ lane' = Tail(lane)
  /\ UNCHANGED <<fences, published, channel, blocked, acks, receipts, strand>>

\* submit_control_fact and the retained completions: try_send, without the lock.
OtherProducer ==
  /\ "Busy" \in world.inputs
  /\ Len(lane) < ControlCap
  /\ lane' = Append(lane, Nothing)
  /\ UNCHANGED <<allvars, fences, published, channel, blocked, acks, receipts, strand>>

\* Variant: the session completes without a receipt.
DrainWithoutReceipt ==
  /\ acks # <<>>
  /\ IF Pending(Head(acks)) # {}
     THEN handle_fact(\E i \in Pending(Head(acks)) : HandoffAcknowledged(i))
     ELSE handle_fact(Handle(Now))
  /\ acks' = Tail(acks)
  /\ UNCHANGED <<fences, port, receipts, strand>>

\* drain takes an acknowledgement; handle_fact returns a receipt for it only if
\* it completed its session.
DrainAck ==
  /\ acks # <<>>
  /\ LET d == Head(acks)
     IN IF Pending(d) # {}
        THEN /\ handle_fact(\E i \in Pending(d) : HandoffAcknowledged(i))
             /\ receipts' = receipts \cup {d}
        ELSE handle_fact(Handle(Now)) /\ UNCHANGED receipts
  /\ acks' = Tail(acks)
  /\ UNCHANGED <<fences, port, strand>>

-----------------------------------------------------------------------------
(* The strand. *)

\* acknowledge_coordinator_durable_handoff, and whether it returns true.
Retainable(d) == Pending(d) # {} /\ (d \in Range(acks) \/ Len(acks) < LaneCap)
retain_durable_handoff_ack(d) ==
  acks' = IF Retainable(d) /\ d \notin Range(acks) THEN Append(acks, d) ELSE acks

\* The operating mode is at least Tracking.
caught_up == HasLcl(Now)

\* The receipts that have come take their graphs out of the gate: to be released,
\* with all that were kept before, once the node has caught up, and to be kept
\* until then.  A pass of the loop with nothing to do is left out.
TakeReceipts ==
  /\ turn = "head"
  /\ receipts # {} \/ unsent # <<>> \/ channel # <<>> \/ (caught_up /\ kept # {})
  /\ graphs' = graphs \ receipts
  /\ kept' = IF caught_up THEN {} ELSE kept \cup (graphs \cap receipts)
  /\ receipts' = {}
  /\ turn' = "acks"
  /\ UNCHANGED <<allvars, fences, port, acks, budget, item, claimed, discarded, unsent, offered,
                 adopted>>

\* What is left for this pass when the retries are over.
receipt_budget == Min({TurnCap, GateCap - Len(unsent), GateCap - Cardinality(graphs)})

\* Variant: acknowledgements that did not fit are forgotten.
NoRetries ==
  /\ turn = "acks"
  /\ turn' = "receive"
  /\ budget' = receipt_budget
  /\ UNCHANGED <<allvars, fences, port, acks, receipts, item, books>>

\* Acknowledgements that could not be retained are tried again, oldest first,
\* until one fails.
RetryAcks ==
  /\ turn = "acks"
  /\ IF unsent # <<>> /\ Retainable(Head(unsent))
     THEN /\ retain_durable_handoff_ack(Head(unsent))
          /\ unsent' = Tail(unsent)
          /\ UNCHANGED <<turn, budget>>
     ELSE /\ turn' = "receive"
          /\ budget' = receipt_budget
          /\ UNCHANGED <<acks, unsent>>
  /\ UNCHANGED <<allvars, fences, port, receipts, item, claimed, graphs, kept, discarded,
                 offered, adopted>>

\* drain_bounded takes one ledger after the other.
Receive ==
  /\ turn = "receive"
  /\ IF budget = 0 \/ channel = <<>>
     THEN turn' = "head" /\ budget' = 0 /\ UNCHANGED <<channel, item>>
     ELSE /\ item' = Head(channel)
          /\ channel' = Tail(channel)
          /\ budget' = budget - 1
          /\ turn' = "claim"
  /\ UNCHANGED <<allvars, fences, published, lane, blocked, acks, receipts, books>>

\* process_coordinator_completed_inbound_ledger up to its claim: a handoff that is
\* no longer pending, or is already claimed, is skipped.  The oldest claim makes
\* room for a new one.
Claim ==
  LET order == Append(claimed, item)
  IN /\ turn = "claim"
     /\ IF Pending(item) = {} \/ item \in Range(claimed)
        THEN turn' = "receive" /\ item' = Nothing /\ UNCHANGED claimed
        ELSE /\ claimed' = IF Len(order) > GateCap THEN Tail(order) ELSE order
             /\ turn' = "settle"
             /\ UNCHANGED item
     /\ UNCHANGED <<allvars, fences, port, acks, receipts, budget, graphs, kept, discarded, unsent,
                    offered, adopted>>

\* Variant: the port is not told that it may publish again.
RejectsWithoutReopening(d) ==
  /\ claimed' = SelectSeq(claimed, LAMBDA c : c # d)
  /\ IF d.hash \in registered /\ d \in published THEN Rejected(d) ELSE UNCHANGED allvars
  /\ UNCHANGED published

\* recipient_rejected_durable_handoff: a handoff that was not published, or whose
\* session is unknown, is not reopened.
RecipientRejects(d) ==
  /\ claimed' = SelectSeq(claimed, LAMBDA c : c # d)
  /\ IF d.hash \in registered /\ d \in published
     THEN published' = published \ {d} /\ Rejected(d)
     ELSE UNCHANGED <<allvars, published>>

\* Variant: a ledger that failed to persist is acknowledged all the same.
SettleUnpersisted(persisted) ==
  /\ turn = "settle"
  /\ persisted \/ "History" \in world.reasons
  /\ graphs' = graphs \cup {item}
  /\ retain_durable_handoff_ack(item)
  /\ unsent' = IF Retainable(item) THEN unsent ELSE Append(unsent, item)
  /\ adopted' = IF persisted THEN [adopted EXCEPT ![item] = @ + 1] ELSE adopted
  /\ offered' = offered \cup {item}
  /\ turn' = "receive" /\ item' = Nothing
  /\ UNCHANGED <<allvars, fences, port, receipts, budget, claimed, kept, discarded>>

\* The rest of it.  Persisting a History ledger may fail; the ledger is registered
\* and put to checkAccept all the same.
Settle(persisted) ==
  /\ turn = "settle"
  /\ persisted \/ "History" \in world.reasons
  /\ IF persisted /\ Cardinality(graphs) < GateCap
     THEN /\ graphs' = graphs \cup {item}
          /\ retain_durable_handoff_ack(item)
          /\ unsent' = IF ~Retainable(item) /\ Len(unsent) < GateCap
                       THEN Append(unsent, item) ELSE unsent
          /\ UNCHANGED <<allvars, published, claimed>>
     ELSE RecipientRejects(item) /\ UNCHANGED <<graphs, acks, unsent>>
  /\ adopted' = IF persisted THEN [adopted EXCEPT ![item] = @ + 1] ELSE adopted
  /\ offered' = offered \cup {item}
  /\ turn' = "receive" /\ item' = Nothing
  /\ UNCHANGED <<fences, channel, lane, blocked, receipts, budget, kept, discarded>>

\* recover_deferred_replay_parent, before the strand is started: it empties the
\* channel, looking only for the ledger whose replay waits for it, and leaves the
\* rest to the strand once that has come.
ReplayDrains ==
  /\ turn = "replay"
  /\ channel # <<>>
  /\ discarded' = discarded \cup Range(channel)
  /\ channel' = <<>>
  /\ turn' \in {"replay", "head"}
  /\ UNCHANGED <<allvars, fences, published, lane, blocked, acks, receipts, budget, item, claimed,
                 graphs, kept, unsent, offered, adopted>>

\* The strand leaves its loop, and the channel loses its receiver.
StrandEnds ==
  /\ "Stop" \in world.inputs
  /\ turn = "head"
  /\ turn' = "ended"
  /\ channel' = <<>>
  /\ UNCHANGED <<allvars, fences, published, lane, blocked, acks, receipts, budget, item, books>>

-----------------------------------------------------------------------------

HandoffInit ==
  /\ OriginsInit
  /\ fences = [h \in Hashes |-> 0]
  /\ published = {} /\ channel = <<>> /\ lane = <<>> /\ blocked = FALSE
  /\ acks = <<>> /\ receipts = {}
  /\ turn = (IF "Replay" \in world.inputs THEN "replay" ELSE "head")
  /\ budget = 0 /\ item = Nothing /\ discarded = {}
  /\ claimed = <<>> /\ graphs = {} /\ kept = {} /\ unsent = <<>> /\ offered = {}
  /\ adopted = [d \in Handoffs |-> 0]

OwnerDelivers ==
  \/ \E i \in DOMAIN sessions : FencePasses(i) \/ RetryPublishes(i)
  \/ DrainControl
  \/ DrainAck

\* The steps of the strand that take the coordinator's lock.
StrandLocks ==
  \/ TakeReceipts \/ RetryAcks \/ Claim
  \/ \E persisted \in BOOLEAN : Settle(persisted)

HandoffNext ==
  \/ /\ ~blocked
     /\ \/ Demand /\ UNCHANGED <<fences, port, acks, receipts, strand>>
        \/ handle_fact(OtherFact) /\ UNCHANGED <<fences, port, acks, receipts, strand>>
        \/ OwnerDelivers
        \/ StrandLocks
  \/ Receive
  \/ ReplayDrains
  \/ StrandEnds
  \/ OtherProducer

HandoffSpec == HandoffInit /\ [][HandoffNext]_handoffvars

\* The owner drains its lanes and its timers fire, the strand loops, and a ledger
\* that failed to persist does not fail for ever.
HandoffFairness ==
  /\ WF_handoffvars(~blocked /\ StrandLocks)
  /\ WF_handoffvars(Receive)
  /\ WF_handoffvars(ReplayDrains)
  /\ WF_handoffvars(~blocked /\ DrainAck)
  /\ WF_handoffvars(~blocked /\ DrainControl)
  /\ \A d \in Handoffs :
       /\ WF_handoffvars(~blocked /\ \E i \in Pending(d) : RetryPublishes(i))
       /\ SF_handoffvars(~blocked /\ Settle(TRUE) /\ item = d)
FairHandoffSpec == HandoffSpec /\ HandoffFairness

-----------------------------------------------------------------------------
(* Properties. *)

Count(q, d) == Cardinality({k \in DOMAIN q : q[k] = d})
Times(P) == IF P THEN 1 ELSE 0

\* While the strand runs and the port is not blocked, a handoff is in exactly one
\* place as long as its session is DurablePending and registered: in the channel,
\* with the strand, in a lane of rejections or acknowledgements, or behind a retry
\* timer.  It is neither lost between them nor delivered twice, and nothing of it is
\* left once its session completes.  The exception is what a replay start-up took
\* from the channel: nobody acknowledges or rejects it, and it is nowhere else.
OneDelivery ==
  turn # "ended" /\ ~blocked =>
    \A d \in Handoffs :
      Count(channel, d) + Times(item = d) + Count(acks, d) + Count(unsent, d) + Count(lane, d)
        + Times(\E i \in Pending(d) : sessions[i].timer = "Retry") + Times(d \in discarded)
      = Times(Pending(d) # {} /\ d.hash \in registered)

\* The recipient persists a ledger once: never twice for one handoff, whatever is
\* retried, and never not at all for a session that completes.  Registration and
\* checkAccept are repeated with every attempt, also one that failed to persist: a
\* ledger that is offered to them and not persisted is one the coordinator still
\* delivers.
AdoptedOnce ==
  /\ \A d \in Handoffs : adopted[d] <= 1
  /\ \A i \in DOMAIN sessions : sessions[i].phase = "Complete" =>
       adopted[Handoff(sessions[i].hash, fences[sessions[i].hash])] = 1
  /\ \A d \in offered : adopted[d] = 1 \/ Pending(d) # {}

\* The gate holds the graphs of exactly the ledgers whose acknowledgement or
\* receipt is on its way: "Only a later receipt emitted by the coordinator after
\* processing this exact (handoff, session) may release either SHAMap graph", and
\* no place of the gate is taken that no receipt will free.  What is kept while the
\* node catches up has left the gate and belongs to a completed session.  The
\* receipt budget leaves room for every ledger taken: its graphs and its
\* acknowledgement are never turned away (durable_handoff_graph_retention_full is
\* logged as unexpected).
GraphsAccounted ==
  /\ graphs = receipts \cup Range(acks) \cup Range(unsent)
  /\ \A d \in kept : d \notin graphs /\ Pending(d) = {}
  /\ turn = "settle" => Cardinality(graphs) < GateCap /\ Len(unsent) < GateCap

\* A durable ledger of a registered session is adopted and its session completes, as
\* long as the strand runs, no replay start-up has taken it from the channel (the
\* session of such a ledger stays DurablePending) and the port does not wait for room
\* in the control lane (see RejectionReported): a full channel, a full lane of
\* acknowledgements, rejections and retries only delay it.
DurableIsAdopted ==
  \A d \in Handoffs :
    d.hash \in registered /\ Pending(d) # {}
      ~> Pending(d) = {} \/ turn = "ended" \/ d \in discarded \/ blocked

\* A ledger the channel has no room for is reported and retried: "a try_send
\* Full/Disconnected outcome leaves the handoff unpublished and reports a typed
\* DurableHandoffRejected to the coordinator, which owns retry timing and
\* re-publishes the exact same handoff id" (coordinator_handoff.rs).  Not so when
\* the control lane is full: the port waits for room on the only thread that drains
\* the lane, with the coordinator locked.
RejectionReported ==
  \A d \in Handoffs :
    d.hash \in registered /\ Pending(d) # {} /\ d \notin published
      ~> \/ d \in Range(lane) \cup published
         \/ \E i \in Pending(d) : sessions[i].timer = "Retry"
=============================================================================
