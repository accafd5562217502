------------------------------ MODULE SyncPhase ------------------------------
(***************************************************************************)
(* The service phase of the acquisition coordinator and its transition     *)
(* table (src/xrpld/acquisition/src/phase.rs).  A ledger identity is its   *)
(* hash; `None` stands where a phase carries no ledger.                    *)
(***************************************************************************)
EXTENDS Integers

None == 0

Phase(mode, hash, published) ==
  [mode |-> mode, hash |-> hash, published |-> published]

Disconnected == Phase("Disconnected", None, None)
Connected == Phase("Connected", None, None)
Syncing(target) == Phase("Syncing", target, None)
Tracking(lcl) == Phase("Tracking", lcl, None)
Full(lcl, published) == Phase("Full", lcl, published)
Stopping == Phase("Stopping", None, None)

\* TransitionFact: its name and the ledgers it carries.
Fact(name, hash, published) ==
  [name |-> name, hash |-> hash, published |-> published]

PeerCapabilityAvailable == Fact("PeerCapabilityAvailable", None, None)
PeerCapabilityLost == Fact("PeerCapabilityLost", None, None)
ConsensusQuorumLost == Fact("ConsensusQuorumLost", None, None)
ConsensusQuorumAvailable == Fact("ConsensusQuorumAvailable", None, None)
TargetRequired(target) == Fact("TargetRequired", target, None)
TargetInstalledAsLcl(lcl) == Fact("TargetInstalledAsLcl", lcl, None)
ChainContiguous(lcl, published) == Fact("ChainContiguous", lcl, published)
ConsensusViewChange == Fact("ConsensusViewChange", None, None)
PreferredLclDivergence(target) == Fact("PreferredLclDivergence", target, None)
PreferredLclReconciled(lcl) == Fact("PreferredLclReconciled", lcl, None)
BlockedWithNoTarget == Fact("BlockedWithNoTarget", None, None)
Shutdown == Fact("Shutdown", None, None)

\* The rows of phase_transition: the phases a fact is legal in.
LegalFrom(fact) ==
  CASE fact.name \in {"PeerCapabilityAvailable", "ConsensusQuorumAvailable"} ->
         {"Disconnected"}
    [] fact.name \in {"PeerCapabilityLost", "ConsensusQuorumLost",
                      "TargetRequired", "PreferredLclDivergence"} ->
         {"Connected", "Syncing", "Tracking", "Full"}
    [] fact.name = "TargetInstalledAsLcl" -> {"Connected", "Syncing"}
    [] fact.name = "PreferredLclReconciled" -> {"Syncing"}
    [] fact.name = "ChainContiguous" -> {"Tracking"}
    [] fact.name = "ConsensusViewChange" -> {"Tracking", "Full"}
    [] fact.name = "BlockedWithNoTarget" -> {"Full"}
    [] fact.name = "Shutdown" ->
         {"Disconnected", "Connected", "Syncing", "Tracking", "Full"}

Legal(phase, fact) == phase.mode \in LegalFrom(fact)

\* phase_transition, and the unchanged phase where it refuses: a caller that
\* tells a refusal apart asks Legal first.  Syncing keeps its target, and an
\* ordinary demand leaves an installed LCL alone.
After(phase, fact) ==
  IF ~Legal(phase, fact) THEN phase
  ELSE CASE fact.name \in {"PeerCapabilityAvailable", "ConsensusQuorumAvailable",
                           "ConsensusViewChange", "BlockedWithNoTarget"} -> Connected
         [] fact.name \in {"PeerCapabilityLost", "ConsensusQuorumLost"} -> Disconnected
         [] fact.name = "TargetRequired" ->
              IF phase.mode = "Connected" THEN Syncing(fact.hash) ELSE phase
         [] fact.name = "PreferredLclDivergence" ->
              IF phase.mode = "Syncing" THEN phase ELSE Syncing(fact.hash)
         [] fact.name \in {"TargetInstalledAsLcl", "PreferredLclReconciled"} ->
              Tracking(fact.hash)
         [] fact.name = "ChainContiguous" -> Full(fact.hash, fact.published)
         [] fact.name = "Shutdown" -> Stopping
=============================================================================
