---------------------------- MODULE Validations ----------------------------
(***************************************************************************)
(* The tracker of current validations                                      *)
(* (src/xrpld/consensus/src/rcl_support/validations.rs) with its callers:  *)
(* handle_new_validation, register_ledger/unregister_ledger and            *)
(* refresh_validator_trust_for_consensus.  Every operation holds the one   *)
(* mutex, so each is a step; what is not under it is the validator list,   *)
(* which changes one step before the tracker hears of it.  The trie is     *)
(* what LedgerTrie shows it to be: a count of supporters for each ledger.  *)
(* Sign times are abstracted to whether a validation was signed after the  *)
(* one it would replace, and freshness to the set `stale`.                 *)
(***************************************************************************)
EXTENDS LedgerAncestry, FiniteSets

CONSTANTS Closed,   \* ledgers this server may have closed last
          Worlds    \* the settings explored, one of which holds throughout a
                    \* behaviour

ASSUME ValidationsAssumption ==
  /\ Closed \subseteq Ledgers
  /\ \A w \in Worlds :
       /\ w.named \subseteq Ledgers \ {Genesis} /\ IsFiniteSet(w.nodes)
       /\ w.trustGap \in BOOLEAN /\ w.maxLapses \in Nat

VARIABLE world

Nodes == world.nodes           \* validators
TrustGap == world.trustGap     \* whether a validation may come between the two
                               \* halves of a change of trust
MaxLapses == world.maxLapses   \* bound on the enforcers that expire

NoLedger == -1
NoVal == [ledger |-> NoLedger, trusted |-> FALSE, full |-> FALSE]
NoProof == [ledger |-> NoLedger, nodes |-> {}]

VARIABLES
  current,      \* the current validation of each node, or NoVal
  stale,        \* nodes whose current validation is no longer fresh
  enforcer,     \* the largest sequence each node has validated
  lastLedger,   \* the ledger each node supports in the trie, or NoLedger
  trie,         \* supporters of each ledger
  acquiring,    \* nodes that wait for each ledger
  anchor, candidate,   \* the two recovery proofs
  resolvable,   \* ledgers the adaptor's acquire returns
  unl,          \* nodes the validator list trusts
  told,         \* nodes the tracker has been told to trust
  lapses

vars == <<world, current, stale, enforcer, lastLedger, trie, acquiring, anchor,
          candidate, resolvable, unl, told, lapses>>

Seqs == {SeqOf[l] : l \in Ledgers}
Named == world.named   \* ledgers a validation can name
Trusted(n) == current[n].trusted

Init ==
  /\ world \in Worlds
  /\ current = [n \in Nodes |-> NoVal]
  /\ stale = {}
  /\ enforcer = [n \in Nodes |-> 0]
  /\ lastLedger = [n \in Nodes |-> NoLedger]
  /\ trie = [l \in Ledgers |-> 0]
  /\ acquiring = [l \in Ledgers |-> {}]
  /\ anchor = NoProof /\ candidate = NoProof
  /\ resolvable = {Genesis}
  /\ unl \in SUBSET Nodes /\ told = unl
  /\ lapses = 0

-----------------------------------------------------------------------------
(* The helpers of Inner, on the part of the state they change:             *)
(* t = [last, trie, acq, anchor, cand].                                    *)

Tracked == [last |-> lastLedger, trie |-> trie, acq |-> acquiring,
            anchor |-> anchor, cand |-> candidate]

SetTracked(t) ==
  /\ lastLedger' = t.last /\ trie' = t.trie /\ acquiring' = t.acq
  /\ anchor' = t.anchor /\ candidate' = t.cand

\* LedgerTrie::remove of one supporter: nothing happens at zero.
TrieRemove(tr, l) == [tr EXCEPT ![l] = IF @ = 0 THEN 0 ELSE @ - 1]

\* Variant: the previous support is not removed.
UpdateTrieLedgerKeeping(t, n, l) ==
  [t EXCEPT !.last[n] = l, !.trie[l] = @ + 1]

\* update_trie_ledger
UpdateTrieLedger(t, n, l) ==
  LET left == IF t.last[n] = NoLedger THEN t.trie ELSE TrieRemove(t.trie, t.last[n])
  IN [t EXCEPT !.last[n] = l, !.trie = [left EXCEPT ![l] = @ + 1]]

RECURSIVE UpdateAll(_, _, _)
UpdateAll(t, ns, l) ==
  IF ns = {} THEN t
  ELSE LET n == CHOOSE x \in ns : TRUE
       IN UpdateAll(UpdateTrieLedger(t, n, l), ns \ {n}, l)

\* check_acquired: the pending keys in the order of the map.
RECURSIVE CheckKeys(_, _)
CheckKeys(t, keys) ==
  IF keys = {} THEN t
  ELSE LET l == Min(keys)
       IN CheckKeys([UpdateAll(t, t.acq[l], l) EXCEPT !.acq[l] = {}], keys \ {l})

CheckAcquired(t) == CheckKeys(t, {l \in resolvable : t.acq[l] # {}})

\* prune_validation_recovery_signer: the anchor's proof, else the candidate's.
Prune(t, n, l) ==
  IF t.anchor.ledger = l THEN [t EXCEPT !.anchor.nodes = @ \ {n}]
  ELSE IF t.cand.ledger = l THEN [t EXCEPT !.cand.nodes = @ \ {n}]
  ELSE t

\* remove_trie: the node no longer waits for, proves or supports this very
\* ledger; support of an older ledger stays.
RemoveTrie(t, n, v) ==
  LET exact == t.last[n] = v.ledger
  IN [Prune(t, n, v.ledger) EXCEPT
        !.last[n] = IF exact THEN NoLedger ELSE @,
        !.trie = IF exact THEN TrieRemove(@, v.ledger) ELSE @,
        !.acq[v.ledger] = @ \ {n}]

\* Join the waiters of l, take its support at once, or be the first waiter.
Resolve(t, n, l) ==
  IF t.acq[l] = {} /\ l \in resolvable THEN UpdateTrieLedger(t, n, l)
  ELSE [t EXCEPT !.acq[l] = @ \cup {n}]

\* update_trie_validation, prior = NoLedger when the caller has none.
UpdateTrieValidation(t, n, l, prior) ==
  LET left == IF prior = NoLedger THEN t ELSE [t EXCEPT !.acq[prior] = @ \ {n}]
  IN Resolve(CheckAcquired(left), n, l)

\* current_live: stale validations are evicted with their support.
RECURSIVE RemoveAll(_, _)
RemoveAll(t, ns) ==
  IF ns = {} THEN t
  ELSE LET n == CHOOSE x \in ns : TRUE IN RemoveAll(RemoveTrie(t, n, current[n]), ns \ {n})

Live == [n \in Nodes |-> IF n \in stale THEN NoVal ELSE current[n]]

EvictStale == current' = Live /\ stale' = {}

-----------------------------------------------------------------------------
(* add *)

\* A validation of ledger l arrives; `later` says whether it was signed after
\* the one it would replace (a stale one always was).  Its trust is what the
\* validator list says now.  A validation at or below the enforcer's sequence
\* changes nothing; one signed earlier only moves the enforcer.
Add(n, l, full, later) ==
  LET v == [ledger |-> l, trusted |-> n \in unl, full |-> full]
      old == current[n].ledger
  IN /\ SeqOf[l] > enforcer[n]
     /\ old = NoLedger \/ n \in stale => later
     /\ enforcer' = [enforcer EXCEPT ![n] = SeqOf[l]]
     /\ current' = IF later THEN [current EXCEPT ![n] = v] ELSE current
     /\ stale' = IF later THEN stale \ {n} ELSE stale
     /\ SetTracked(IF later /\ v.trusted THEN UpdateTrieValidation(Tracked, n, l, old)
                   ELSE Tracked)
     /\ UNCHANGED <<resolvable, unl, told, lapses, world>>

-----------------------------------------------------------------------------
(* Ledgers become available and are withdrawn *)

\* take_validation_recovery_nodes, with the nodes it returns.
ProofNodes(t, l) ==
  IF t.anchor.ledger = l THEN t.anchor.nodes
  ELSE IF t.cand.ledger = l THEN t.cand.nodes ELSE {}

TakeProof(t, l) ==
  IF t.anchor.ledger = l THEN [t EXCEPT !.anchor = t.cand, !.cand = NoProof]
  ELSE IF t.cand.ledger = l THEN [t EXCEPT !.cand = NoProof]
  ELSE t

\* Variant: a proof counts whatever its node does now.
EligibleAnyway(t, n, l, proved) == Live[n].trusted

\* Variant: the conditions of proofs apply to every waiter.
EligibleOnlyFull(t, n, l, proved) == Live[n].trusted /\ Live[n].full

\* Whether node n, a waiter or a prover of l, may still support it.
Eligible(t, n, l, proved) ==
  /\ Live[n].trusted
  /\ n \in proved => /\ Live[n].full /\ SeqOf[Live[n].ledger] >= SeqOf[l]
                     /\ t.last[n] # NoLedger => SeqOf[t.last[n]] < SeqOf[l]

OnLedgerAcquired(t, l) ==
  LET proved == ProofNodes(t, l)
      freed == [TakeProof(t, l) EXCEPT !.acq[l] = {}]
  IN UpdateAll(freed, {n \in t.acq[l] \cup proved : Eligible(t, n, l, proved)}, l)

\* register_ledger: the adaptor's map, then on_ledger_acquired.
RegisterLedger(l) ==
  /\ resolvable' = resolvable \cup {l}
  /\ EvictStale
  /\ SetTracked(OnLedgerAcquired(RemoveAll(Tracked, stale), l))
  /\ UNCHANGED <<enforcer, unl, told, lapses, world>>

\* Variant: supporters of a withdrawn ledger do not wait for it again.
RECURSIVE WithdrawOnly(_, _, _)
WithdrawOnly(t, ns, l) ==
  IF ns = {} THEN t
  ELSE LET n == CHOOSE x \in ns : TRUE
       IN WithdrawOnly([t EXCEPT !.last[n] = NoLedger, !.trie = TrieRemove(@, l)], ns \ {n}, l)

\* Each node that supports l falls back on its current trusted validation.
RECURSIVE Withdraw(_, _, _)
Withdraw(t, ns, l) ==
  IF ns = {} THEN t
  ELSE LET n == CHOOSE x \in ns : TRUE
           left == [t EXCEPT !.last[n] = NoLedger, !.trie = TrieRemove(@, l)]
           v == Live[n]
           next == IF ~v.trusted THEN left
                   ELSE IF left.acq[v.ledger] = {} /\ v.ledger \in resolvable'
                        THEN UpdateTrieLedger(left, n, v.ledger)
                        ELSE [left EXCEPT !.acq[v.ledger] = @ \cup {n}]
       IN Withdraw(next, ns \ {n}, l)

\* unregister_ledger: out of the adaptor's map, then on_ledger_unacquired.
UnregisterLedger(l) ==
  LET t == RemoveAll(Tracked, stale)
  IN /\ resolvable' = resolvable \ {l}
     /\ EvictStale
     /\ SetTracked(Withdraw(t, {n \in Nodes : t.last[n] = l}, l))
     /\ UNCHANGED <<enforcer, unl, told, lapses, world>>

\* The ledger master finds a ledger that was never registered here, or the
\* window of registered ledgers and its caches let one go.
LedgerAppears(l) ==
  /\ l \notin resolvable
  /\ resolvable' = resolvable \cup {l}
  /\ UNCHANGED <<current, stale, enforcer, lastLedger, trie, acquiring,
                 anchor, candidate, unl, told, lapses, world>>

LedgerFades(l) ==
  /\ l \in resolvable
  /\ resolvable' = resolvable \ {l}
  /\ UNCHANGED <<current, stale, enforcer, lastLedger, trie, acquiring,
                 anchor, candidate, unl, told, lapses, world>>

-----------------------------------------------------------------------------
(* Trust *)

RECURSIVE Retrust(_, _, _, _, _)
Retrust(t, cur, ns, added, removed) ==
  IF ns = {} THEN t
  ELSE LET n == CHOOSE x \in ns : TRUE
           v == cur[n]
       IN Retrust(IF n \in added THEN UpdateTrieValidation(t, n, v.ledger, NoLedger)
                  ELSE IF n \in removed THEN RemoveTrie(t, n, v) ELSE t,
                  cur, ns \ {n}, added, removed)

\* trust_changed, on the current validations cur: nodes without one are not
\* touched.
TrustChangedTo(new, t, cur) ==
  LET known == {n \in Nodes : cur[n] # NoVal}
  IN /\ current' = [n \in Nodes |->
                      IF n \in known /\ (n \in new) # (n \in told)
                      THEN [cur[n] EXCEPT !.trusted = n \in new] ELSE cur[n]]
     /\ SetTracked(Retrust(t, cur, known, new \ told, told \ new))
     /\ told' = new
     /\ UNCHANGED <<enforcer, resolvable, lapses, world>>

\* refresh_validator_trust_for_consensus: stale validations are evicted, the
\* validator list changes, and the tracker hears of it, in one step or in two.
RefreshTrust(new) ==
  /\ ~TrustGap /\ new # unl
  /\ unl' = new
  /\ stale' = {}
  /\ TrustChangedTo(new, RemoveAll(Tracked, stale), Live)

UpdateTrusted(new) ==
  /\ TrustGap /\ told = unl /\ new # unl
  /\ unl' = new
  /\ EvictStale
  /\ SetTracked(RemoveAll(Tracked, stale))
  /\ UNCHANGED <<enforcer, resolvable, told, lapses, world>>

TrustChanged ==
  /\ told # unl
  /\ TrustChangedTo(unl, Tracked, current)
  /\ UNCHANGED <<unl, stale>>

-----------------------------------------------------------------------------
(* get_preferred_lcl_diagnostic and the recovery proofs *)

\* The nodes that wait for l and whose current validation is a trusted full one
\* of l.
Backers(t, l) ==
  {n \in t.acq[l] : Live[n].trusted /\ Live[n].full /\ Live[n].ledger = l}

\* acquiring_quorum_candidate: of the ledgers with a strict majority of the
\* trusted full validations behind them, the best backed, the latest.
MajorityTarget(t) ==
  LET full == {n \in Nodes : Live[n].trusted /\ Live[n].full}
      able == {l \in Named : Cardinality(Backers(t, l)) > Cardinality(full) \div 2}
  IN {l \in able : \A m \in able :
        \/ Cardinality(Backers(t, l)) > Cardinality(Backers(t, m))
        \/ Cardinality(Backers(t, l)) = Cardinality(Backers(t, m)) /\ l >= m}

\* What getPreferredLCL makes of the trie's preferred ledger p.
Working(p, lcl) ==
  IF SeqOf[p] = SeqOf[lcl] + 1 /\ IsAncestor(lcl, p) THEN lcl
  ELSE IF SeqOf[p] > SeqOf[lcl] \/ ~IsAncestor(p, lcl) THEN p ELSE lcl

\* The recovery target: the majority's ledger when it is more than one past our
\* closed ledger and the trie's preference keeps us on that closed ledger.
RecoveryTarget(t, lcl, minSeq, largest) ==
  LET p == Preferred(t.trie, largest)
      stays == p # NoLedger /\ (Working(p, lcl) = lcl \/ SeqOf[Working(p, lcl)] < minSeq)
  IN {l \in MajorityTarget(t) : stays /\ SeqOf[l] >= minSeq /\ SeqOf[l] - 1 > SeqOf[lcl]}

\* observe_validation_recovery
Observe(t, target) ==
  LET seen == [ledger |-> CHOOSE l \in target : TRUE,
               nodes |-> Backers(t, CHOOSE l \in target : TRUE)]
  IN IF target = {} THEN [t EXCEPT !.cand = NoProof]
     ELSE IF t.anchor = NoProof THEN [t EXCEPT !.anchor = seen]
     ELSE IF t.anchor.ledger = seen.ledger THEN [t EXCEPT !.anchor.nodes = @ \cup seen.nodes]
     ELSE IF t.cand.ledger = seen.ledger THEN [t EXCEPT !.cand.nodes = @ \cup seen.nodes]
     ELSE [t EXCEPT !.cand = seen]

\* `largest` is the local enforcer's sequence (can_validate_seq).
PreferredLcl(lcl, minSeq, largest) ==
  LET t == CheckAcquired(RemoveAll(Tracked, stale))
  IN /\ EvictStale
     /\ SetTracked(Observe(t, RecoveryTarget(t, lcl, minSeq, largest)))
     /\ UNCHANGED <<enforcer, resolvable, unl, told, lapses, world>>

\* reconcile_validation_recovery_latch with what the acquisition runner holds; a
\* key without a proof is as good as none.
ReconcileLatch(a, c) ==
  LET proof(l) == IF l = NoLedger THEN NoProof
                  ELSE IF anchor.ledger = l THEN anchor
                  ELSE IF candidate.ledger = l THEN candidate ELSE NoProof
  IN /\ anchor' = proof(a)
     /\ candidate' = IF c = a THEN NoProof ELSE proof(c)
     /\ UNCHANGED <<current, stale, enforcer, lastLedger, trie, acquiring,
                    resolvable, unl, told, lapses, world>>

-----------------------------------------------------------------------------
(* Time *)

GoStale(n) ==
  /\ current[n] # NoVal /\ n \notin stale
  /\ stale' = stale \cup {n}
  /\ UNCHANGED <<current, enforcer, lastLedger, trie, acquiring, anchor,
                 candidate, resolvable, unl, told, lapses, world>>

\* current_live without more: get_current_node_ids, laggards, current_trusted.
Sweep ==
  /\ stale # {}
  /\ EvictStale
  /\ SetTracked(RemoveAll(Tracked, stale))
  /\ UNCHANGED <<enforcer, resolvable, unl, told, lapses, world>>

\* The ten minutes of an enforcer are over; a validation is fresh for less.
EnforcerLapses(n) ==
  /\ lapses < MaxLapses
  /\ enforcer[n] # 0 /\ (n \in stale \/ current[n] = NoVal)
  /\ enforcer' = [enforcer EXCEPT ![n] = 0]
  /\ lapses' = lapses + 1
  /\ UNCHANGED <<current, stale, lastLedger, trie, acquiring, anchor,
                 candidate, resolvable, unl, told, world>>

Next ==
  \/ \E n \in Nodes, l \in Named, full, later \in BOOLEAN : Add(n, l, full, later)
  \/ \E l \in Named : \/ RegisterLedger(l) \/ UnregisterLedger(l)
                      \/ LedgerAppears(l) \/ LedgerFades(l)
  \/ \E new \in SUBSET Nodes : RefreshTrust(new) \/ UpdateTrusted(new)
  \/ TrustChanged
  \/ \E lcl \in Closed : \E minSeq, largest \in {0, SeqOf[lcl]} :
       PreferredLcl(lcl, minSeq, largest)
  \/ \E a, c \in {NoLedger, anchor.ledger, candidate.ledger} : ReconcileLatch(a, c)
  \/ \E n \in Nodes : GoStale(n) \/ EnforcerLapses(n)
  \/ Sweep

Spec == Init /\ [][Next]_vars

-----------------------------------------------------------------------------
(* Properties *)

Proofs == [ledger : Named, nodes : SUBSET Nodes] \cup {NoProof}

\* Every variable has its type.
TypeOK ==
  /\ current \in [Nodes -> [ledger : Named, trusted : BOOLEAN, full : BOOLEAN] \cup {NoVal}]
  /\ stale \subseteq {n \in Nodes : current[n] # NoVal}
  /\ enforcer \in [Nodes -> Seqs]
  /\ lastLedger \in [Nodes -> Named \cup {NoLedger}]
  /\ trie \in [Ledgers -> Nat]
  /\ acquiring \in [Ledgers -> SUBSET Nodes]
  /\ anchor \in Proofs /\ candidate \in Proofs
  /\ resolvable \subseteq Ledgers
  /\ unl \subseteq Nodes /\ told \subseteq Nodes

\* The trie holds one supporter for each node's last ledger and nobody else, and
\* a node waits for at most the ledger of its current trusted validation, whatever
\* order acquisitions, withdrawals and evictions come in: a late arrival cannot
\* speak for a validation that was replaced or evicted (update_trie_ledger,
\* remove_trie, on_ledger_unacquired, update_trie_validation's prior).  A
\* validation that comes between the two halves of a change of trust can leave a
\* wait behind, so the second part is about a tracker told at once.
SupportExact ==
  /\ TypeOK
  /\ \A l \in Ledgers : trie[l] = Cardinality({n \in Nodes : lastLedger[n] = l})
  /\ ~TrustGap => \A l \in Ledgers : \A n \in acquiring[l] :
                   Trusted(n) /\ current[n].ledger = l

\* No trusted full validator is ever unheard: one with a current trusted full
\* validation supports a ledger or waits for the one it validated (add,
\* trust_changed, on_ledger_acquired, on_ledger_unacquired).
NoLostVoice ==
  \A n \in Nodes : Trusted(n) /\ current[n].full =>
    lastLedger[n] # NoLedger \/ n \in acquiring[current[n].ledger]

\* New support is the node's current trusted validation, or a proven older one
\* of a node that is still trusted and full and that does not set the node back
\* (on_ledger_acquired, check_acquired).  Told late, the tracker may first let a
\* wait from before the change of trust end in support.
SupportIsEarned ==
  [][~TrustGap => \A n \in Nodes :
       lastLedger'[n] \notin {lastLedger[n], NoLedger} =>
         /\ current'[n].trusted
         /\ \/ lastLedger'[n] = current'[n].ledger
            \/ /\ lastLedger'[n] \in {anchor.ledger, candidate.ledger}
               /\ current'[n].full
               /\ SeqOf[lastLedger'[n]] < SeqOf[current'[n].ledger]
               /\ lastLedger[n] # NoLedger => SeqOf[lastLedger'[n]] > SeqOf[lastLedger[n]]]_vars

\* "Live exact waiters install support": a node whose current trusted validation
\* waited for a ledger supports it when the wait ends (on_ledger_acquired,
\* check_acquired).  After its enforcer has expired a node may wait for the ledger
\* of an older proof of its own, whose conditions then apply to it.
ExactWaitersInstall ==
  [][lapses = 0 => \A n \in Nodes :
       LET l == current[n].ledger
       IN (Trusted(n) /\ current'[n] = current[n] /\ n \in acquiring[l] \ acquiring'[l])
            => lastLedger'[n] = l]_vars
=============================================================================
