------------------------- MODULE PrunedStoreFaults -------------------------
(***************************************************************************)
(* The pruned store when the disk returns errors.  A read or a batch that  *)
(* fails leaves the disk as it was, and the error ends the handler of the  *)
(* ledger in hand (PrunedDriver::run_worker logs it and waits for the next *)
(* ledger).  What the handler already changed in memory stays: the index   *)
(* then disagrees with the disk until the next restart.                    *)
(*                                                                         *)
(* A prune pass that fails after its batch keeps the old pruned_to in      *)
(* memory while the disk has the new one.  The rows between the two are    *)
(* gone, so the scan of the next pass finds the same rows from either.     *)
(***************************************************************************)
EXTENDS PrunedStore

GiveUp ==
    /\ pc' = "idle" /\ job' = NoJob /\ target' = 0 /\ final' = TRUE
    /\ chunk' = {} /\ needed' = {} /\ deleted' = {} /\ rescued' = {}
    /\ UNCHANGED <<disk, pending, admin, halted, floor, call, held, ledgers>>

\* The delta, the presence check or the write-back of the ledger's new nodes.
RestoreFails ==
    /\ pc = "restore"
    /\ GiveUp
    /\ UNCHANGED <<index, watch>>

\* A count row cannot be read: the nodes before it are done, in memory only.
ClaimReadFails(new, dead) ==
    /\ pc = "watch"
    /\ new \subseteq job.new /\ dead \subseteq job.dead
    /\ dead # {} => new = job.new
    /\ <<new, dead>> # <<job.new, job.dead>>
    /\ unclaimed' = [h \in Nodes |-> IF h \in new THEN Absent ELSE unclaimed[h]]
    /\ deadPending' = [h \in Nodes |-> CASE h \in dead -> job.seq
                                         [] h \in new -> 0
                                         [] OTHER -> deadPending[h]]
    /\ GiveUp
    /\ UNCHANGED watch

ClaimWriteFails ==
    /\ pc = "commit"
    /\ ClaimIndex
    /\ GiveUp
    /\ UNCHANGED watch

PruneScanFails ==
    /\ pc = "prune"
    /\ GiveUp
    /\ UNCHANGED <<index, watch>>

\* A count row cannot be read after the rows of done, or, with the whole chunk
\* done, the batch cannot be written.  The candidates stay Deleting.
PruneFails(done) ==
    /\ pc = "delete"
    /\ done \subseteq chunk
    /\ \A r \in done, q \in chunk \ done : r.seq <= q.seq
    /\ unclaimed' = Pin(unclaimed, needed \cap Hashes(done))
    /\ deadPending' = [h \in Nodes |-> IF h \in Hashes(done) THEN 0 ELSE deadPending[h]]
    /\ GiveUp
    /\ UNCHANGED watch

\* The bytes of the rescued nodes cannot be written back.
RescueWriteFails ==
    /\ pc = "rescue" /\ rescued # {}
    /\ unclaimed' = Pin(unclaimed, rescued)
    /\ GiveUp
    /\ UNCHANGED <<deadPending, watch>>

SweepWriteFails ==
    /\ pc = "sweep" /\ Orphans # {}
    /\ unclaimed' = [h \in Nodes |-> IF h \in Orphans THEN Absent ELSE unclaimed[h]]
    /\ deadPending' = [h \in Nodes |-> IF h \in Orphans THEN job.seq ELSE deadPending[h]]
    /\ watch' = Watched(watch, Orphans)
    /\ GiveUp

Fault ==
    \/ RestoreFails \/ ClaimWriteFails \/ PruneScanFails \/ RescueWriteFails
    \/ SweepWriteFails
    \/ \E new, dead \in SUBSET StateNodes : ClaimReadFails(new, dead)
    \/ \E done \in SUBSET chunk : PruneFails(done)

FaultyNext == Next \/ Fault

FaultySpec == Init /\ [][FaultyNext]_vars
=============================================================================
