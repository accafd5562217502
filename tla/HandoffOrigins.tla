--------------------------- MODULE HandoffOrigins ---------------------------
(***************************************************************************)
(* The provenance of acquisitions                                          *)
(* (src/xrpld/app/src/ledger/inbound_ledgers/coordinator_handoff.rs and    *)
(* registry.rs): InboundLedgers registers the origin of a demand with the  *)
(* handoff port before the coordinator sees the demand, and the port binds *)
(* the origin to the session the demand starts, now or much later.  The    *)
(* durable ledger of a session without an origin is dropped by the port.   *)
(*                                                                         *)
(* A call of the registry holds the coordinator's lock and first reports   *)
(* the peers, which is the step Connectivity or TransportConnectivity; the *)
(* rest of the call is one step here.  Acquisition ids only make a key     *)
(* exact: an origin is its target and its class.                           *)
(***************************************************************************)
EXTENDS Coordinator

VARIABLES
  origins,    \* pending_session_origins
  registered  \* the ledgers whose live session is in CoordinatorHandoffPort::sessions

allvars == <<vars, origins, registered>>

-----------------------------------------------------------------------------
(* The port. *)

\* preferred_target, validation_recovery with and without
\* validation_recovery_anchor, and neither, in the order session_started looks.
Classes == <<"preferred", "anchor", "candidate", "ordinary">>

Origin(h, class) == [hash |-> h, class |-> class]
Of(class) == {o \in origins : o.class = class}
Recoveries == Of("anchor") \cup Of("candidate")

\* An ordinary demand for the preferred target joins it.
Joins(h) == Origin(h, "preferred") \in origins

\* Variant: the previous preferred origin is not replaced.
RegisterKeepingPreferred(h, preferred) ==
  IF preferred THEN {o \in origins : o.hash # h} \cup {Origin(h, "preferred")}
  ELSE IF Joins(h) THEN origins
  ELSE Recoveries \cup Of("preferred") \cup {Origin(h, "ordinary")}

register_pending_session_origin(h, preferred) ==
  IF preferred
  THEN Recoveries \cup {o \in Of("ordinary") : o.hash # h} \cup {Origin(h, "preferred")}
  ELSE IF Joins(h) THEN origins
  ELSE Recoveries \cup Of("preferred") \cup {Origin(h, "ordinary")}

register_pending_validation_recovery_origin(h, isAnchor) ==
  IF isAnchor THEN (origins \ Recoveries) \cup {Origin(h, "anchor")}
  ELSE (origins \ Of("candidate")) \cup {Origin(h, "candidate")}

\* The origin a session for h is bound to.
Bound(os, h) ==
  Origin(h, Classes[CHOOSE k \in DOMAIN Classes :
    /\ Origin(h, Classes[k]) \in os
    /\ \A j \in 1..(k - 1) : Origin(h, Classes[j]) \notin os])

\* session_started, for the sessions the event has started, when the pending
\* origins are os: what is left of them, and which sessions are registered.
Found(os) == {h \in started' : \E o \in os : o.hash = h}
Rest(os) == os \ {Bound(os, h) : h \in Found(os)}
session_started(os) ==
  registered' = {h \in (registered \ started') \cup Found(os) : (LiveFor(Now, h) # {})'}

-----------------------------------------------------------------------------
(* The registry. *)

\* retains_session_origin_for_hash, after the event.  Whether a live session has
\* its engine yet is not modelled.
Retains(h, rootless) ==
  (\/ rootless /\ LiveFor(Now, h) # {}
   \/ \E d \in peerless : d.hash = h
   \/ deferred = h
   \/ anchor.session = None /\ anchor.target = h
   \/ recovery.session = None /\ recovery.target = h
   \/ recovery.next = h)'

coordinator_acquire_locked(h, event) ==
  LET os == register_pending_session_origin(h, FALSE)
  IN /\ event
     /\ session_started(os)
     /\ \E rootless \in BOOLEAN :
          origins' = IF started' = {} /\ ~Retains(h, rootless) /\ ~Joins(h)
                     THEN Rest(os) \ {Origin(h, "ordinary")} ELSE Rest(os)

coordinator_consensus_target(h) ==
  LET os == register_pending_session_origin(h, TRUE)
  IN /\ ConsensusTarget(h)
     /\ session_started(os)
     /\ origins' = IF peers /\ h \notin started' /\ deferred' # h
                   THEN Rest(os) \ {Origin(h, "preferred")} ELSE Rest(os)

coordinator_validation_recovery_target(h) ==
  LET isAnchor == recovery.target \in {None, h}
      os == IF h = None THEN origins \ Of("candidate")
            ELSE register_pending_validation_recovery_origin(h, isAnchor)
      retained == IF isAnchor THEN recovery'.target = h /\ recovery'.session = None
                  ELSE recovery'.next = h
  IN /\ ValidationRecoveryTarget(h)
     /\ session_started(os)
     /\ origins' = IF h # None /\ h \notin started' /\ ~retained
                   THEN Rest(os) \ {Origin(h, IF isAnchor THEN "anchor" ELSE "candidate")}
                   ELSE Rest(os)

\* Every other event reaches the coordinator with no demand of the registry.
handle_fact(event) ==
  /\ event
  /\ session_started(origins)
  /\ origins' = Rest(origins)

OtherFact ==
  \/ ServiceFact
  \/ \E h \in Hashes : \/ Divergence(h) \/ Reconciled(h) \/ LclInstalled(h)
                       \/ \E fresh \in BOOLEAN : PublicationCommitted(h, fresh)
  \/ PlanEvent

OriginsInit == Init /\ origins = {} /\ registered = {}

Demand ==
  \/ \E h \in Hashes : \/ \E reason \in world.reasons :
                            coordinator_acquire_locked(h, AcquireRequested(h, reason))
                       \/ coordinator_acquire_locked(h, ValidationTarget(h))
                       \/ coordinator_consensus_target(h)
  \/ \E h \in Hashes \cup {None} : coordinator_validation_recovery_target(h)

-----------------------------------------------------------------------------
(* Properties. *)

\* The port keeps at most one pending origin of each class, whatever demands come
\* and go unserved (MAX_PENDING_SESSION_ORIGINS).  It is not always the origin of
\* the demand the runner retains: an ordinary demand replaces the ordinary origin
\* before it is known whether the runner takes it, although it "must not overwrite a
\* genuine peerless Generic origin" (coordinator_acquire_locked).
OriginsBounded ==
  \A o, p \in origins : o.class = p.class => o = p
=============================================================================
