----------------------------- MODULE Consensus -----------------------------
(***************************************************************************)
(* The consensus engine of one node: the round it is in, the positions of  *)
(* its peers, the transactions in dispute and its own position.            *)
(*                                                                         *)
(* A ledger is its id and a transaction set its set of transactions.  What *)
(* the clocks decide (is a proposal stale, has the round lasted long       *)
(* enough, which avalanche threshold applies) and what the adaptor answers *)
(* (the preferred ledger, the ledgers and sets at hand) is arbitrary.      *)
(*                                                                         *)
(* The engine is used under a lock.  A call that nests (start_round plays  *)
(* back proposals and may run the timer, the timer may start a round) is   *)
(* several steps here, with pc the place in the call: no other call begins *)
(* until pc is idle again.                                                 *)
(***************************************************************************)
EXTENDS Integers, FiniteSets, Sequences

CONSTANTS
    Peers,        \* the trusted validators we hear from
    Txs,          \* transactions
    Offers,       \* the transaction sets that open ledgers and peers start from
    Ledgers,      \* ledger ids
    Levels,       \* the percentages of the avalanche table
    MinPct,       \* min_consensus_pct
    RecentLimit,  \* proposals remembered per peer (10 in the code)
    MaxPropose,   \* bound on propose_seq (u32 in the code)
    MaxNest       \* bound on timer_entry calls nested in one another

ASSUME ParmsAssumption ==
    /\ IsFiniteSet(Peers)
    /\ Offers \subseteq SUBSET Txs
    /\ Levels \subseteq 0..100 /\ Levels # {}
    /\ MinPct \in 0..100
    /\ RecentLimit \in Nat \ {0} /\ MaxPropose \in Nat /\ MaxNest \in Nat \ {0}

Absent == -1
Leave == MaxPropose + 1
TxSets == SUBSET Txs
Proposals == [prev : Ledgers, seq : 0..Leave, set : Offers]
NoPosition == [seq |-> Absent]

VARIABLES
    phase, mode,
    prevId,         \* prev_ledger_id
    prevLedger,     \* id of previous_ledger
    acquired,       \* transaction sets at hand
    prevProposers,  \* peers with a position when the last round was accepted
    curr,           \* curr_peer_positions
    recent,         \* recent_peer_positions
    dead,           \* dead_nodes
    hasResult,      \* result is set: our ledger is closed
    txns,           \* result.txns, the set of our position
    seq,            \* propose_seq of our position
    disputed,       \* domain of result.disputes
    ourVote,        \* the transactions in dispute for which we vote
    votes,          \* the peers' votes on each transaction in dispute
    compares,       \* result.compares
    closeAgreed,    \* have_close_time_consensus
    sent,           \* propose_seq of our last proposal on the wire this round
    pc,             \* where the engine is in a call
    nest,           \* timer_entry calls on the stack
    after,          \* what called playback_proposals
    todo            \* proposals still to be played back

round == <<phase, mode, prevId, prevLedger, prevProposers>>
peers == <<curr, dead>>
position == <<hasResult, txns, seq, sent>>
disputes == <<disputed, ourVote, votes, compares>>
stack == <<pc, nest, after, todo>>
vars == <<round, acquired, peers, recent, position, disputes, closeAgreed, stack>>

Present(C, p) == C[p].seq # Absent
Joined(C) == {p \in Peers : Present(C, p)}
At(C, X) == {p \in Joined(C) : C[p].set = X}
SymDiff(A, B) == (A \ B) \cup (B \ A)
VoteOn(X, t) == IF t \in X THEN "yes" ELSE "no"
NoVotes == [t \in Txs |-> [p \in Peers |-> "none"]]
Nobody == [p \in Peers |-> NoPosition]
Nothing == [p \in Peers |-> <<>>]

-----------------------------------------------------------------------------
Init ==
    /\ phase = "Accepted" /\ mode = "Observing"
    /\ prevId \in Ledgers /\ prevLedger = prevId
    /\ acquired = {} /\ prevProposers = 0
    /\ curr = Nobody /\ recent = Nothing /\ dead = {}
    /\ hasResult = FALSE /\ txns = {} /\ seq = 0 /\ sent = Absent
    /\ disputed = {} /\ ourVote = {} /\ votes = NoVotes
    /\ compares = {} /\ closeAgreed = FALSE
    /\ pc = "idle" /\ nest = 0 /\ after = "started" /\ todo = Nothing

-----------------------------------------------------------------------------
(* Disputes *)

UnVote(V, P) == [t \in Txs |-> [p \in Peers |-> IF p \in P THEN "none" ELSE V[t][p]]]

\* Variant: only the disputes that are new learn the vote of a peer that moves.
CastOnNew(V, new, C, A, P, X) ==
    [t \in Txs |-> [p \in Peers |->
        IF t \in new /\ Present(C, p) /\ C[p].set \in A THEN VoteOn(C[p].set, t)
        ELSE V[t][p]]]

\* The votes once the disputes of new exist and the peers P are at X.
Cast(V, new, C, A, P, X) ==
    [t \in Txs |-> [p \in Peers |->
        CASE t \in disputed \cup new /\ p \in P -> VoteOn(X, t)
          [] t \in new /\ p \notin P /\ Present(C, p) /\ C[p].set \in A ->
                VoteOn(C[p].set, t)
          [] OTHER -> V[t][p]]]

\* Variant: a set is compared with our position only once it was ours.
CreateDisputesLate(X) == IF X \in compares \/ X \in acquired THEN {} ELSE SymDiff(txns, X) \ disputed

CreateDisputes(X) == IF X \in compares THEN {} ELSE SymDiff(txns, X) \ disputed

\* update_disputes for the peers P, which are at X; C and A are the positions
\* and the sets by then.
UpdateDisputes(C, A, P, X) ==
    /\ compares' = compares \cup {X}
    /\ disputed' = disputed \cup CreateDisputes(X)
    /\ ourVote' = ourVote \cup (CreateDisputes(X) \cap txns)
    /\ votes' = Cast(votes, CreateDisputes(X), C, A, P, X)

\* got_tx_set with the positions C.
SetAcquired(C, X) ==
    /\ acquired' = acquired \cup {X}
    /\ IF hasResult /\ At(C, X) # {}
       THEN UpdateDisputes(C, acquired', At(C, X), X)
       ELSE UNCHANGED disputes

-----------------------------------------------------------------------------
(* Proposals of peers *)

\* Variant: a proposal that repeats the sequence of the last one replaces it.
IgnoredIfOlder(p, q) ==
    \/ phase = "Accepted" \/ q.prev # prevId \/ p \in dead
    \/ Present(curr, p) /\ q.seq < curr[p].seq

\* Variant: a proposal on another ledger counts.
IgnoredOnAnyLedger(p, q) ==
    \/ phase = "Accepted" \/ p \in dead
    \/ Present(curr, p) /\ q.seq <= curr[p].seq

Ignored(p, q) ==
    \/ phase = "Accepted" \/ q.prev # prevId \/ p \in dead
    \/ Present(curr, p) /\ q.seq <= curr[p].seq

BowOut(p) ==
    /\ votes' = UnVote(votes, {p})
    /\ curr' = [curr EXCEPT ![p] = NoPosition]
    /\ dead' = dead \cup {p}
    /\ UNCHANGED <<acquired, disputed, ourVote, compares>>

\* The peer takes position q; fetched says whether acquire_tx_set has the set.
Adopt(p, q, fetched) ==
    /\ curr' = [curr EXCEPT ![p] = q]
    /\ CASE q.set \notin acquired /\ fetched -> SetAcquired(curr', q.set)
         [] q.set \in acquired /\ hasResult ->
                UpdateDisputes(curr', acquired, {p}, q.set) /\ UNCHANGED acquired
         [] OTHER -> UNCHANGED <<acquired, disputes>>
    /\ UNCHANGED dead

\* peer_proposal_internal
Handle(p, q, fetched) ==
    /\ CASE Ignored(p, q) -> UNCHANGED <<acquired, peers, disputes>>
         [] ~Ignored(p, q) /\ q.seq = Leave -> BowOut(p)
         [] OTHER -> Adopt(p, q, fetched)
    /\ UNCHANGED <<round, position, closeAgreed>>

Remembered(s, q) ==
    IF Len(s) >= RecentLimit THEN Append(Tail(s), q) ELSE Append(s, q)

PeerProposal(p, q, fetched) ==
    /\ pc = "idle"
    /\ recent' = [recent EXCEPT ![p] = Remembered(@, q)]
    /\ Handle(p, q, fetched)
    /\ UNCHANGED stack

GotTxSet(X) ==
    /\ pc = "idle"
    /\ phase # "Accepted" /\ X \notin acquired
    /\ SetAcquired(curr, X)
    /\ UNCHANGED <<round, peers, recent, position, closeAgreed, stack>>

-----------------------------------------------------------------------------
(* Rounds *)

\* start_round_internal up to the playback, with R the proposals remembered
Restart(id, ledger, m, R) ==
    /\ phase' = "Open" /\ mode' = m /\ prevId' = id /\ prevLedger' = ledger
    /\ acquired' = {} /\ curr' = Nobody /\ dead' = {}
    /\ hasResult' = FALSE /\ txns' = {} /\ seq' = 0 /\ sent' = Absent
    /\ disputed' = {} /\ ourVote' = {} /\ votes' = NoVotes
    /\ compares' = {} /\ closeAgreed' = FALSE
    /\ pc' = "play" /\ after' = "started" /\ todo' = R
    /\ UNCHANGED prevProposers

StartMode(id, ledger, proposing) ==
    CASE ledger # id -> "WrongLedger"
      [] ledger = id /\ proposing -> "Proposing"
      [] OTHER -> "Observing"

\* ledger is the previous ledger at hand: id itself unless it cannot be acquired.
StartRound(id, ledger, untrusted, proposing) ==
    /\ pc = "idle"
    /\ recent' = [p \in Peers |-> IF p \in untrusted THEN <<>> ELSE recent[p]]
    /\ Restart(id, ledger, StartMode(id, ledger, proposing), recent')
    /\ UNCHANGED nest

PlaybackStep(p, fetched) ==
    /\ pc = "play"
    /\ todo[p] # <<>>
    /\ Handle(p, Head(todo[p]), fetched)
    /\ todo' = [todo EXCEPT ![p] = Tail(@)]
    /\ UNCHANGED <<recent, pc, nest, after>>

\* Back to the caller: the phase of an outer timer_entry, or out of the engine.
ReturnTo(n) == IF n > 0 THEN "phase" ELSE "idle"

RunTimer == Cardinality(Joined(curr)) > prevProposers \div 2 /\ nest < MaxNest

PlaybackDone ==
    /\ pc = "play"
    /\ todo = Nothing
    /\ pc' = CASE after = "wrong" -> "acquire"
               [] after = "started" /\ RunTimer -> "check"
               [] OTHER -> ReturnTo(nest)
    /\ nest' = IF pc' = "check" THEN nest + 1 ELSE nest
    /\ UNCHANGED <<round, acquired, peers, recent, position, disputes,
                   closeAgreed, after, todo>>

TimerEntry ==
    /\ pc = "idle" /\ phase # "Accepted"
    /\ pc' = "check" /\ nest' = 1
    /\ UNCHANGED <<round, acquired, peers, recent, position, disputes,
                   closeAgreed, after, todo>>

-----------------------------------------------------------------------------
(* The previous ledger *)

\* Variant: we stop proposing and do not tell our peers.
LeaveSilently ==
    /\ mode' = IF mode = "Proposing" THEN "Observing" ELSE mode
    /\ UNCHANGED <<seq, sent>>

LeaveConsensus ==
    /\ mode' = IF mode = "Proposing" THEN "Observing" ELSE mode
    /\ seq' = IF mode = "Proposing" /\ hasResult THEN Leave ELSE seq
    /\ sent' = IF mode = "Proposing" /\ hasResult /\ seq # Leave THEN Leave ELSE sent

\* check_ledger finds our previous ledger is the preferred one.
LedgerRight ==
    /\ pc = "check"
    /\ prevLedger = prevId
    /\ pc' = "phase"
    /\ UNCHANGED <<round, acquired, peers, recent, position, disputes,
                   closeAgreed, nest, after, todo>>

\* Variant: a peer that left the old round stays out of the new one.
LedgerChangedKeepsDead(id) ==
    /\ pc = "check"
    /\ id # prevId
    /\ LeaveConsensus
    /\ prevId' = id
    /\ disputed' = {} /\ votes' = NoVotes /\ ourVote' = {}
    /\ compares' = {} /\ curr' = Nobody /\ UNCHANGED dead
    /\ pc' = "play" /\ after' = "wrong" /\ todo' = recent
    /\ UNCHANGED <<phase, prevLedger, prevProposers, acquired, recent, hasResult,
                   txns, closeAgreed, nest>>

\* The preferred ledger is another one: its proposals are played back.
LedgerChanged(id) ==
    /\ pc = "check"
    /\ id # prevId
    /\ LeaveConsensus
    /\ prevId' = id
    /\ disputed' = {} /\ votes' = NoVotes /\ ourVote' = {}
    /\ compares' = {} /\ curr' = Nobody /\ dead' = {}
    /\ pc' = "play" /\ after' = "wrong" /\ todo' = recent
    /\ UNCHANGED <<phase, prevLedger, prevProposers, acquired, recent, hasResult,
                   txns, closeAgreed, nest>>

\* It is the one we are waiting for.
LedgerMissing ==
    /\ pc = "check"
    /\ prevLedger # prevId
    /\ LeaveConsensus
    /\ pc' = "acquire"
    /\ UNCHANGED <<phase, prevId, prevLedger, prevProposers, acquired, peers,
                   recent, hasResult, txns, disputes, closeAgreed, nest, after,
                   todo>>

AcquireSkip ==
    /\ pc = "acquire"
    /\ prevLedger = prevId
    /\ pc' = "phase"
    /\ UNCHANGED <<round, acquired, peers, recent, position, disputes,
                   closeAgreed, nest, after, todo>>

\* Variant: the ledger is switched in place and only the phase restarts.
AcquireLedgerInPlace ==
    /\ pc = "acquire"
    /\ prevLedger # prevId
    /\ phase' = "Open" /\ mode' = "SwitchedLedger" /\ prevLedger' = prevId
    /\ pc' = "phase"
    /\ UNCHANGED <<prevId, prevProposers, acquired, peers, recent, position,
                   disputes, closeAgreed, nest, after, todo>>

AcquireLedger ==
    /\ pc = "acquire"
    /\ prevLedger # prevId
    /\ Restart(prevId, prevId, "SwitchedLedger", recent)
    /\ UNCHANGED <<recent, nest>>

AcquireFails ==
    /\ pc = "acquire"
    /\ prevLedger # prevId
    /\ mode' = "WrongLedger"
    /\ pc' = "phase"
    /\ UNCHANGED <<phase, prevId, prevLedger, prevProposers, acquired, peers,
                   recent, position, disputes, closeAgreed, nest, after, todo>>

-----------------------------------------------------------------------------
(* Phases *)

TimerDone ==
    /\ pc' = ReturnTo(nest - 1)
    /\ nest' = nest - 1
    /\ UNCHANGED <<after, todo>>

\* The ledger stays open, it is too early to move, or nothing is left to do.
PhaseWaits ==
    /\ pc = "phase"
    /\ TimerDone
    /\ UNCHANGED <<round, acquired, peers, recent, position, disputes, closeAgreed>>

\* close_ledger: X is the set of the open ledger.
CloseLedger(X) ==
    LET others == {curr[p].set : p \in Joined(curr)} \cap acquired' IN
    /\ pc = "phase" /\ phase = "Open"
    /\ phase' = "Establish"
    /\ hasResult' = TRUE /\ txns' = X /\ seq' = 0
    /\ sent' = IF mode = "Proposing" THEN 0 ELSE sent
    /\ acquired' = acquired \cup {X}
    /\ compares' = others
    /\ disputed' = UNION {SymDiff(X, Y) : Y \in others}
    /\ ourVote' = disputed' \cap X
    /\ votes' = [t \in Txs |-> [p \in Peers |->
            IF t \in disputed' /\ Present(curr, p) /\ curr[p].set \in acquired'
            THEN VoteOn(curr[p].set, t) ELSE "none"]]
    /\ TimerDone
    /\ UNCHANGED <<mode, prevId, prevLedger, prevProposers, peers, recent, closeAgreed>>

\* Integer percentage
Pct(part, whole) == (part * 100) \div whole

Count(V, t, v) == Cardinality({p \in Peers : V[t][p] = v})

\* DisputedTx::update_vote with the votes V and the threshold pct.
NewVote(V, t, pct) ==
    LET yays == Count(V, t, "yes")
        nays == Count(V, t, "no")
        self == IF t \in ourVote THEN 1 ELSE 0
    IN CASE t \in ourVote /\ nays = 0 -> TRUE
         [] t \notin ourVote /\ yays = 0 -> FALSE
         [] mode = "Proposing" -> Pct(yays + self, nays + yays + 1) > pct
         [] OTHER -> yays > nays

Flipped(X, off, on) == (X \ off) \cup on

\* Variant: our position changes under the sequence number it had.
KeptSeq(s) == s

\* change_position
NextSeq(s) == IF s # Leave THEN s + 1 ELSE s

\* update_our_positions.  stale are the peers whose proposal is too old, pcts
\* the thresholds, and refresh says that our close time moves or our proposal
\* is due for renewal.
UpdateOurPositions(stale, pcts, refresh, agreed) ==
    LET C == [p \in Peers |-> IF p \in stale THEN NoPosition ELSE curr[p]]
        V == UnVote(votes, stale)
        vote == {t \in disputed : NewVote(V, t, pcts[t])}
        off == ourVote \ vote
        on == vote \ ourVote
        X == Flipped(txns, off, on)
        moves == refresh \/ off \cup on # {}
        adopters == IF X \in acquired THEN {} ELSE At(C, X)
    IN
    /\ pc = "phase" /\ phase = "Establish"
    /\ stale \subseteq Joined(curr)
    /\ moves => seq # MaxPropose
    /\ curr' = C
    /\ ourVote' = vote
    /\ closeAgreed' = (agreed \/ Joined(C) = {})
    /\ txns' = X
    /\ seq' = IF moves THEN NextSeq(seq) ELSE seq
    /\ sent' = IF moves /\ seq # Leave /\ mode = "Proposing" THEN NextSeq(seq) ELSE sent
    /\ acquired' = IF moves THEN acquired \cup {X} ELSE acquired
    /\ compares' = IF moves /\ adopters # {} THEN compares \cup {X} ELSE compares
    /\ votes' = IF moves /\ adopters # {} THEN Cast(V, {}, C, acquired', adopters, X) ELSE V
    /\ pc' = "decide"
    /\ UNCHANGED <<round, recent, dead, hasResult, disputed, nest, after, todo>>

\* check_consensus_reached with the agreeing and all peers, and us if self is 1.
Reached(agreeing, total, self) ==
    total # 0 => Pct(agreeing + self, total + self) >= MinPct

\* Every dispute is settled one way or the other (DisputedTx::stalled).
Stalled ==
    /\ closeAgreed /\ disputed # {}
    /\ \A t \in disputed :
        LET self == IF mode = "Proposing" THEN 1 ELSE 0
            yays == Count(votes, t, "yes")
            total == yays + Count(votes, t, "no") + self
            support == yays + (IF t \in ourVote THEN self ELSE 0)
        IN total # 0 /\ (Pct(support, total) > MinPct \/ Pct(support, total) < 100 - MinPct)

\* Alone, or with enough peers at our position.
Agreed == Reached(Cardinality(At(curr, txns)), Cardinality(Joined(curr)),
                  IF mode = "Proposing" THEN 1 ELSE 0)

\* No consensus yet, no agreement on the close time, or a pause for laggards.
Undecided ==
    /\ pc = "decide"
    /\ TimerDone
    /\ UNCHANGED <<round, acquired, peers, recent, position, disputes, closeAgreed>>

Accepting ==
    /\ phase' = "Accepted"
    /\ prevProposers' = Cardinality(Joined(curr))
    /\ TimerDone
    /\ UNCHANGED <<prevId, prevLedger, acquired, peers, recent, hasResult, txns,
                   disputes, closeAgreed>>

\* We agree with enough peers, nobody will move any more, or enough peers
\* (finished of them) have validated a later ledger.
Accept(finished) ==
    /\ pc = "decide" /\ closeAgreed
    /\ Agreed \/ Stalled \/ Reached(finished, Cardinality(Joined(curr)), 0)
    /\ Accepting
    /\ UNCHANGED <<mode, seq, sent>>

\* The round has lasted too long: we stop proposing, and end it once the close
\* time is agreed.
Expire ==
    /\ pc = "decide" /\ ~Agreed
    /\ LeaveConsensus
    /\ IF closeAgreed THEN Accepting
       ELSE /\ TimerDone
            /\ UNCHANGED <<phase, prevId, prevLedger, prevProposers, acquired, peers,
                           recent, hasResult, txns, disputes, closeAgreed>>

-----------------------------------------------------------------------------
Timer ==
    \/ LedgerRight \/ (\E id \in Ledgers : LedgerChanged(id)) \/ LedgerMissing
    \/ AcquireSkip \/ AcquireLedger \/ AcquireFails
    \/ PhaseWaits \/ (\E X \in Offers : CloseLedger(X))
    \/ \E stale \in SUBSET Peers, pcts \in [Txs -> Levels], refresh, agreed \in BOOLEAN :
            UpdateOurPositions(stale, pcts, refresh, agreed)
    \/ Undecided \/ (\E finished \in 0..Cardinality(Peers) : Accept(finished)) \/ Expire
    \/ \E p \in Peers, fetched \in BOOLEAN : PlaybackStep(p, fetched)
    \/ PlaybackDone

Call ==
    \/ \E p \in Peers, q \in Proposals, fetched \in BOOLEAN : PeerProposal(p, q, fetched)
    \/ \E X \in Offers : GotTxSet(X)
    \/ \E id, ledger \in Ledgers, untrusted \in SUBSET Peers, proposing \in BOOLEAN :
            StartRound(id, ledger, untrusted, proposing)
    \/ TimerEntry

Next == Timer \/ Call

Spec == Init /\ [][Next]_vars

-----------------------------------------------------------------------------
(* Properties *)

\* Every variable has the values the engine gives it.
TypeOK ==
    /\ phase \in {"Open", "Establish", "Accepted"}
    /\ mode \in {"Proposing", "Observing", "WrongLedger", "SwitchedLedger"}
    /\ prevId \in Ledgers /\ prevLedger \in Ledgers
    /\ acquired \subseteq TxSets /\ compares \subseteq TxSets
    /\ prevProposers \in Nat
    /\ curr \in [Peers -> Proposals \cup {NoPosition}] /\ dead \subseteq Peers
    /\ recent \in [Peers -> Seq(Proposals)] /\ todo \in [Peers -> Seq(Proposals)]
    /\ \A p \in Peers : Len(recent[p]) <= RecentLimit
    /\ hasResult \in BOOLEAN /\ txns \in TxSets
    /\ seq \in 0..Leave /\ sent \in Absent..Leave
    /\ disputed \subseteq Txs /\ ourVote \subseteq disputed
    /\ votes \in [Txs -> [Peers -> {"yes", "no", "none"}]]
    /\ closeAgreed \in BOOLEAN
    /\ pc \in {"idle", "play", "check", "acquire", "phase", "decide"}
    /\ nest \in 0..MaxNest /\ after \in {"started", "wrong"}

\* A peer without a position has no vote, and on every dispute a peer whose
\* set is at hand votes as that set does: bow-outs, stale proposals, sets that
\* arrive late and our own changes keep the tallies of DisputedTx right.  Our own
\* vote is what the set of our position says, so that the set we propose and
\* accept is the one the votes decided.
VotesFollowPositions ==
    \A t \in disputed :
        /\ t \in ourVote <=> t \in txns
        /\ \A p \in Peers :
             /\ ~Present(curr, p) => votes[t][p] = "none"
             /\ Present(curr, p) /\ curr[p].set \in acquired =>
                     votes[t][p] = VoteOn(curr[p].set, t)

\* Every transaction on which we differ from a peer whose set is at hand is in
\* dispute, whatever our position was when the two sets were compared.
DifferencesDisputed ==
    hasResult => \A p \in Joined(curr) :
        curr[p].set \in acquired => SymDiff(txns, curr[p].set) \subseteq disputed

\* What peers last heard from us this round is our position while we propose,
\* and a bow-out once we stop (leave_consensus): no proposal is left standing.
NoDanglingProposal ==
    /\ mode = "Proposing" /\ hasResult => sent = seq
    /\ mode # "Proposing" => sent \in {Absent, Leave}

\* The round stays coherent through timers that start rounds inside timers: a
\* result exists as close_ledger and phase_establish assert, and we propose only
\* on top of a previous ledger we have.
RoundCoherent ==
    /\ TypeOK
    /\ phase = "Open" => ~hasResult
    /\ phase = "Establish" => hasResult
    /\ mode = "Proposing" => prevLedger = prevId

\* The positions we count were taken on our previous ledger by peers that have
\* not left, across switches of that ledger.
PositionsOfThisLedger ==
    \A p \in Joined(curr) : curr[p].prev = prevId /\ p \notin dead /\ curr[p].seq # Leave

\* When playback ends, the remembered proposals for the previous ledger count:
\* a peer is out if it left there, and otherwise at its latest of them.
PlaybackComplete ==
    pc = "play" /\ todo = Nothing => \A p \in Peers :
        LET here == {i \in 1..Len(recent[p]) : recent[p][i].prev = prevId} IN
        /\ p \in dead <=> \E i \in here : recent[p][i].seq = Leave
        /\ p \notin dead => \A i \in here :
                Present(curr, p) /\ recent[p][i].seq <= curr[p].seq

\* A peer's position is only ever replaced by one it took later, in whatever
\* order its proposals arrive.
PeersMoveForward ==
    [][\A p \in Peers : Present(curr, p) /\ Present(curr, p)' /\ curr'[p] # curr[p]
            => curr'[p].seq > curr[p].seq]_vars

\* Within a round our proposals carry increasing sequence numbers, none follows
\* a bow-out, and a change of the set we propose goes out under a new number:
\* peers ignore a proposal that repeats the last one's.
ProposalsIncrease ==
    [][/\ sent' # sent => sent' > sent \/ pc' = "play"
       /\ mode = "Proposing" /\ hasResult /\ hasResult' /\ txns' # txns => sent' > sent]_vars
=============================================================================
