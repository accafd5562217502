-------------------------- MODULE MCDurableHandoff --------------------------
(***************************************************************************)
(* Acquisition and handoff of two ledgers, in a few worlds.                *)
(***************************************************************************)
EXTENDS DurableHandoff

Two == {1, 2}
MCSeq == [h \in Two |-> h]

\* Two durable ledgers on their way to a recipient that may fail, before and after
\* the node has caught up.
Delivery ==
  World({Connected}, {"PeersUp", "Acquire", "Lcl", "Turns"}, {"History"}, {"persist"}, 2, 0)

\* Every demand of the registry, with peers coming and going.
Demands ==
  World({Connected}, {"PeersUp", "PeersDown", "Acquire", "Validation", "Consensus", "Recovery"},
        {"Generic"}, {"network"}, 1, 0)

\* A ledger whose session has completed and been forgotten is acquired and handed
\* over again.
Again ==
  World({Connected}, {"PeersUp", "Acquire", "Turns", "Heartbeat"}, {"History"}, {"persist"}, 1, 0)

\* A start-up that replays a ledger, before the strand is started.
Replay ==
  World({Connected}, {"PeersUp", "Acquire", "Turns", "Replay"}, {"Generic"}, {"persist"}, 2, 0)

\* The strand ends.
Last ==
  World({Connected}, {"PeersUp", "Acquire", "Turns", "Stop"}, {"Generic"}, {"persist"}, 1, 0)

\* Other producers fill the control lane.
Busy ==
  World({Connected}, {"PeersUp", "Acquire", "Turns", "Busy"}, {"Generic"}, {"persist"}, 2, 0)

MCWorlds == {Delivery, Demands, Again, Replay, Last, Busy}
Saturated == {Busy}
=============================================================================
