---------------------------- MODULE MCCoordinator ----------------------------
(***************************************************************************)
(* The acquisition coordinator with two ledgers, in five worlds explored   *)
(* together: in each, the events that bear on one concern.                 *)
(***************************************************************************)
EXTENDS Coordinator

Two == {1, 2}
MCSeq == [h \in Two |-> h]

\* Consensus, validation and recovery demands against the ends of their sessions.
Latches ==
  World({Connected}, {"PeersUp", "Acquire", "Validation", "Recovery", "Consensus", "Divergence",
                      "Reconciled", "Lcl", "Turns", "Timeout"},
        {"Consensus"}, {"network", "persist"}, 2, 0)

\* Peers and the quorum come and go, up to shutdown.
Peers ==
  World({Connected, Full(1, 1)}, {"PeersUp", "PeersDown", "Transport", "Quorum", "Acquire",
                                  "Consensus", "Divergence", "Lcl", "Publication", "ViewChange",
                                  "Blocked", "Shutdown", "Turns", "Timeout"},
        {"Generic"}, {"network"}, 2, 1)

\* One slot, with idle expiry, sweeps, broken trees and a rotation.
Capacity ==
  World({Connected}, {"PeersUp", "Acquire", "Consensus", "Recovery", "Divergence", "Expiry",
                      "Sweep", "Turns", "Rotation"},
        {"Generic"}, {"job", "yield", "network", "invalid"}, 1, 0)

\* Durable sessions and the recovery latch against everything that ends sessions:
\* expiry, sweeps, a rotation, preemption, lost peers, forgetting and shutdown.
Ends ==
  World({Connected}, {"PeersUp", "PeersDown", "Acquire", "Recovery", "Expiry", "Sweep",
                      "Turns", "Rotation", "Heartbeat", "Shutdown"},
        {"Generic", "History"}, {"persist", "invalid"}, 1, 0)

\* The same against sessions that scan, but for expiry, which Capacity has.
Scanners ==
  World({Connected}, {"PeersUp", "PeersDown", "Acquire", "Recovery", "Sweep", "Turns",
                      "Rotation", "Heartbeat", "Shutdown"},
        {"Generic"}, {"job", "persist", "invalid"}, 1, 0)

MCWorlds == {Latches, Peers, Capacity, Ends, Scanners}
=============================================================================
