--------------------------- MODULE ConsensusProofs ---------------------------
(***************************************************************************)
(* The invariants of the consensus engine, for every set of peers, of      *)
(* transactions and of ledgers and however deep timers nest.               *)
(***************************************************************************)
EXTENDS Consensus, FiniteSetTheorems, SequenceTheorems, TLAPS

-----------------------------------------------------------------------------
(* The inductive invariant *)

\* A call that returns into timer_entry is nested in one.
NestInv ==
    pc \in {"check", "acquire", "phase", "decide"} \/ (pc = "play" /\ after = "wrong")
        => nest > 0

\* The round is not over while its ledger is looked at and proposals are played
\* back; a timer that finds it over does nothing else.
PhaseInv ==
    /\ pc \in {"play", "check"} => phase # "Accepted"
    /\ pc = "decide" => phase = "Establish"

\* Until our ledger is closed we have said nothing in this round, and the
\* sequence of a proposer is not that of a bow-out.
SentInv ==
    /\ ~hasResult => sent = Absent
    /\ mode = "Proposing" => seq # Leave

\* The proposals of p that the playback has handled.
Handled(p) == Len(recent[p]) - Len(todo[p])

\* What is left to play of p is the end of what is remembered of it, and what
\* PlaybackComplete asks for holds of the part that was handled.
PlayedSoFar(p) ==
    /\ Handled(p) >= 0
    /\ \A i \in 1..Len(todo[p]) : todo[p][i] = recent[p][Handled(p) + i]
    /\ p \in dead <=> \E i \in 1..Handled(p) :
            recent[p][i].prev = prevId /\ recent[p][i].seq = Leave
    /\ p \notin dead => \A i \in 1..Handled(p) : recent[p][i].prev = prevId =>
            Present(curr, p) /\ recent[p][i].seq <= curr[p].seq

PlayInv == pc = "play" => \A p \in Peers : PlayedSoFar(p)

\* Without a result there is nothing to vote on, and with one our votes are what
\* our set says.
OurVotes ==
    /\ ~hasResult => disputed = {}
    /\ ourVote = disputed \cap txns

\* A set that was compared with our position differs from it only in disputes,
\* whatever our position has become since.
CompareInv == \A X \in compares : SymDiff(txns, X) \subseteq disputed

\* A peer without a position votes on nothing.  The set of one with a position,
\* if it is at hand, was compared with ours and is what the peer votes.
PeerVotes(p) ==
    /\ ~Present(curr, p) => \A t \in Txs : votes[t][p] = "none"
    /\ Present(curr, p) /\ curr[p].set \in acquired =>
            /\ \A t \in disputed : votes[t][p] = VoteOn(curr[p].set, t)
            /\ hasResult => curr[p].set \in compares

RoundInv ==
    /\ RoundCoherent
    /\ NestInv
    /\ PhaseInv
    /\ SentInv
    /\ NoDanglingProposal
    /\ PositionsOfThisLedger

DisputeInv ==
    /\ OurVotes
    /\ CompareInv
    /\ \A p \in Peers : PeerVotes(p)

IInv == RoundInv /\ PlayInv /\ DisputeInv

-----------------------------------------------------------------------------
(* Types, part by part *)

RoundTypes ==
    /\ phase \in {"Open", "Establish", "Accepted"}
    /\ mode \in {"Proposing", "Observing", "WrongLedger", "SwitchedLedger"}
    /\ prevId \in Ledgers /\ prevLedger \in Ledgers
    /\ prevProposers \in Nat

PeerTypes == curr \in [Peers -> Proposals \cup {NoPosition}] /\ dead \subseteq Peers

MemoryTypes ==
    /\ recent \in [Peers -> Seq(Proposals)] /\ todo \in [Peers -> Seq(Proposals)]
    /\ \A p \in Peers : Len(recent[p]) <= RecentLimit

PositionTypes ==
    /\ hasResult \in BOOLEAN /\ closeAgreed \in BOOLEAN
    /\ seq \in 0..Leave /\ sent \in Absent..Leave

SetTypes ==
    /\ acquired \subseteq TxSets /\ compares \subseteq TxSets
    /\ txns \in TxSets /\ disputed \subseteq Txs /\ ourVote \subseteq disputed

VoteTypes == votes \in [Txs -> [Peers -> {"yes", "no", "none"}]]

StackTypes ==
    /\ pc \in {"idle", "play", "check", "acquire", "phase", "decide"}
    /\ nest \in 0..MaxNest /\ after \in {"started", "wrong"}

\* The type invariant is its parts.
LEMMA TypesByPart ==
    TypeOK <=> /\ RoundTypes /\ PeerTypes /\ MemoryTypes /\ PositionTypes
               /\ SetTypes /\ VoteTypes /\ StackTypes
BY SMTT(30) DEF TypeOK, RoundTypes, PeerTypes, MemoryTypes, PositionTypes, SetTypes, VoteTypes,
       StackTypes

\* What the fields of a ConsensusProposal are; a peer without one has none.
LEMMA ProposalFacts ==
    /\ \A q \in Proposals : q.seq \in 0..Leave /\ q.seq # Absent /\ q.set \in TxSets
                            /\ q.set \in Offers /\ q.prev \in Ledgers
    /\ NoPosition.seq = Absent /\ Leave \in Nat /\ Leave # Absent
BY ParmsAssumption DEF Proposals, NoPosition, Absent, Leave, TxSets

\* A peer is in curr_peer_positions just when what we have of it is a proposal.
LEMMA PresentIsProposal ==
    ASSUME PeerTypes, NEW p \in Peers
    PROVE  Present(curr, p) <=> curr[p] \in Proposals
BY ProposalFacts DEF PeerTypes, Present

\* The number of peers with a position.
LEMMA JoinedCount == Cardinality(Joined(curr)) \in Nat
<1>1. IsFiniteSet(Joined(curr))
  BY ParmsAssumption, FS_Subset DEF Joined
<1>2. QED
  BY <1>1, FS_CardinalityType

-----------------------------------------------------------------------------
(* What the steps that share code do *)

\* The three outcomes of a proposal.
LEMMA HandleCases ==
    ASSUME NEW p, NEW q, NEW fetched, Handle(p, q, fetched)
    PROVE  /\ \/ Ignored(p, q) /\ UNCHANGED <<acquired, peers, disputes>>
              \/ ~Ignored(p, q) /\ q.seq = Leave /\ BowOut(p)
              \/ ~Ignored(p, q) /\ q.seq # Leave /\ Adopt(p, q, fetched)
           /\ UNCHANGED <<round, position, closeAgreed>>
BY DEF Handle

\* A new position is compared with ours, counted with the others at its set, or
\* just noted.
LEMMA AdoptCases ==
    ASSUME NEW p, NEW q, NEW fetched, Adopt(p, q, fetched)
    PROVE  /\ curr' = [curr EXCEPT ![p] = q]
           /\ \/ /\ q.set \notin acquired /\ hasResult /\ At(curr', q.set) # {}
                 /\ acquired' = acquired \cup {q.set}
                 /\ UpdateDisputes(curr', acquired', At(curr', q.set), q.set)
              \/ /\ q.set \notin acquired /\ (~hasResult \/ At(curr', q.set) = {})
                 /\ acquired' = acquired \cup {q.set}
                 /\ UNCHANGED disputes
              \/ /\ q.set \in acquired /\ hasResult
                 /\ acquired' = acquired
                 /\ UpdateDisputes(curr', acquired', {p}, q.set)
              \/ /\ q.set \in acquired => ~hasResult
                 /\ UNCHANGED <<acquired, disputes>>
           /\ UNCHANGED dead
<1>1. curr' = [curr EXCEPT ![p] = q] /\ UNCHANGED dead
  BY DEF Adopt
<1>2. CASE q.set \notin acquired /\ fetched
  BY Zenon, <1>1, <1>2 DEF Adopt, SetAcquired
<1>3. CASE q.set \in acquired /\ hasResult
  BY <1>1, <1>3 DEF Adopt
<1>4. CASE ~(q.set \notin acquired /\ fetched) /\ ~(q.set \in acquired /\ hasResult)
  BY <1>1, <1>4 DEF Adopt
<1>5. QED
  BY <1>2, <1>3, <1>4

Hears == \E p \in Peers, q \in Proposals, fetched \in BOOLEAN : Handle(p, q, fetched)

\* A round starts, from outside or on top of a ledger that arrived.
Restarts ==
    \E id, ledger \in Ledgers, m \in {"Proposing", "Observing", "WrongLedger", "SwitchedLedger"} :
        /\ m = "Proposing" => id = ledger
        /\ Restart(id, ledger, m, recent')
        /\ \A p \in Peers : recent'[p] \in {recent[p], <<>>}
        /\ recent' = [p \in Peers |-> recent'[p]]
        /\ UNCHANGED nest

\* Only the place in the call changes.
Quiet == UNCHANGED <<round, acquired, peers, recent, position, disputes, closeAgreed>>

Updates ==
    \E stale \in SUBSET Peers, pcts \in [Txs -> Levels], refresh, agreed \in BOOLEAN :
        UpdateOurPositions(stale, pcts, refresh, agreed)

\* What update_our_positions leaves alone.
LEMMA UpdatesFacts ==
    ASSUME Updates
    PROVE  /\ pc = "phase" /\ phase = "Establish" /\ pc' = "decide"
           /\ UNCHANGED <<round, recent, dead, hasResult, disputed, nest, after, todo>>
<1>1. PICK stale \in SUBSET Peers, pcts \in [Txs -> Levels], refresh \in BOOLEAN,
           agreed \in BOOLEAN : UpdateOurPositions(stale, pcts, refresh, agreed)
  BY DEF Updates
<1>2. QED
  BY <1>1 DEF UpdateOurPositions

\* What a step is, with the steps that differ only in the place in the call
\* taken together.
LEMMA StepKinds ==
    ASSUME MemoryTypes, RoundTypes, [Next]_vars
    PROVE  \/ Hears
           \/ \E X \in Offers : GotTxSet(X)
           \/ Restarts
           \/ \E id \in Ledgers : LedgerChanged(id)
           \/ LedgerMissing
           \/ AcquireFails
           \/ \E X \in Offers : CloseLedger(X)
           \/ Updates
           \/ \E finished \in 0..Cardinality(Peers) : Accept(finished)
           \/ Expire
           \/ Quiet
<1>1. CASE UNCHANGED vars
  BY <1>1 DEF vars, Quiet
<1>2. CASE Call
  <2>1. ASSUME NEW p \in Peers, NEW q \in Proposals, NEW fetched \in BOOLEAN,
               PeerProposal(p, q, fetched)
        PROVE  Hears
    BY <2>1 DEF PeerProposal, Hears
  <2>2. ASSUME NEW id \in Ledgers, NEW ledger \in Ledgers, NEW untrusted \in SUBSET Peers,
               NEW proposing \in BOOLEAN, StartRound(id, ledger, untrusted, proposing)
        PROVE  Restarts
    <3>1. /\ StartMode(id, ledger, proposing) \in
                 {"Proposing", "Observing", "WrongLedger", "SwitchedLedger"}
          /\ StartMode(id, ledger, proposing) = "Proposing" => id = ledger
      BY DEF StartMode
    <3>2. QED
      BY <2>2, <3>1 DEF StartRound, Restarts
  <2>3. CASE TimerEntry
    BY <2>3 DEF TimerEntry, Quiet
  <2>4. QED
    BY <1>2, <2>1, <2>2, <2>3 DEF Call
<1>3. CASE Timer
  <2>1. ASSUME NEW p \in Peers, NEW fetched \in BOOLEAN, PlaybackStep(p, fetched)
        PROVE  Hears
    <3>1. todo[p] \in Seq(Proposals) /\ todo[p] # <<>>
      BY <2>1 DEF PlaybackStep, MemoryTypes
    <3>2. Head(todo[p]) \in Proposals
      BY <3>1, HeadTailProperties
    <3>3. QED
      BY <2>1, <3>2 DEF PlaybackStep, Hears
  <2>2. CASE AcquireLedger
    <3>1. Restart(prevId, prevId, "SwitchedLedger", recent') /\ recent' = recent /\ UNCHANGED nest
      BY <2>2 DEF AcquireLedger, Restart
    <3>2. recent' = [p \in Peers |-> recent'[p]] /\ prevId \in Ledgers
      BY <3>1 DEF MemoryTypes, RoundTypes
    <3>3. QED
      BY <3>1, <3>2 DEF Restarts
  <2>3. CASE LedgerRight \/ AcquireSkip \/ PhaseWaits \/ Undecided \/ PlaybackDone
    BY <2>3 DEF LedgerRight, AcquireSkip, PhaseWaits, Undecided, PlaybackDone, Quiet
  <2>4. QED
    BY <1>3, <2>1, <2>2, <2>3 DEF Timer, Updates
<1>4. QED
  BY <1>1, <1>2, <1>3 DEF Next

-----------------------------------------------------------------------------
(* Every step keeps the types *)

\* Every step keeps the types of the round.
LEMMA RoundTypesStep ==
    ASSUME MemoryTypes, RoundTypes, [Next]_vars
    PROVE  RoundTypes'
<1> USE DEF RoundTypes
<1>1. CASE Hears \/ \E X \in Offers : GotTxSet(X)
  BY <1>1, HandleCases DEF Hears, GotTxSet, round
<1>2. CASE Restarts
  BY <1>2 DEF Restarts, Restart
<1>3. CASE \/ \E id \in Ledgers : LedgerChanged(id)
           \/ LedgerMissing \/ AcquireFails
           \/ \E X \in Offers : CloseLedger(X)
  BY <1>3 DEF LedgerChanged, LedgerMissing, AcquireFails, CloseLedger, LeaveConsensus
<1>4. CASE Updates
  BY <1>4 DEF Updates, UpdateOurPositions, round
<1>5. CASE Expire \/ \E finished \in 0..Cardinality(Peers) : Accept(finished)
  BY <1>5, JoinedCount DEF Expire, Accept, Accepting, LeaveConsensus
<1>6. CASE Quiet
  BY <1>6 DEF Quiet, round
<1>7. QED
  BY <1>1, <1>2, <1>3, <1>4, <1>5, <1>6, StepKinds

\* Every step keeps those of the peers' positions: proposals or none.
LEMMA PeerTypesStep ==
    ASSUME MemoryTypes, RoundTypes, PeerTypes, [Next]_vars
    PROVE  PeerTypes'
<1> USE DEF PeerTypes
<1>1. CASE Hears
  <2>1. PICK p \in Peers, q \in Proposals, fetched \in BOOLEAN : Handle(p, q, fetched)
    BY <1>1 DEF Hears
  <2>2. \/ UNCHANGED peers
        \/ curr' = [curr EXCEPT ![p] = NoPosition] /\ dead' = dead \cup {p}
        \/ curr' = [curr EXCEPT ![p] = q] /\ UNCHANGED dead
    BY Zenon, <2>1, HandleCases DEF BowOut, Adopt
  <2>3. QED
    BY <2>2 DEF peers
<1>2. CASE Restarts \/ \E id \in Ledgers : LedgerChanged(id)
  BY <1>2 DEF Restarts, Restart, LedgerChanged, Nobody
<1>3. CASE Updates
  <2>1. PICK stale \in SUBSET Peers, pcts \in [Txs -> Levels], refresh \in BOOLEAN,
             agreed \in BOOLEAN : UpdateOurPositions(stale, pcts, refresh, agreed)
    BY SMTT(30), <1>3 DEF Updates
  <2>2. /\ curr' = [p \in Peers |-> IF p \in stale THEN NoPosition ELSE curr[p]]
        /\ UNCHANGED dead
    BY <2>1 DEF UpdateOurPositions
  <2>3. QED
    BY <2>2
<1>4. CASE \/ \E X \in Offers : GotTxSet(X)
           \/ LedgerMissing \/ AcquireFails
           \/ \E X \in Offers : CloseLedger(X)
           \/ \E finished \in 0..Cardinality(Peers) : Accept(finished)
           \/ Expire \/ Quiet
  <2>1. UNCHANGED peers
    BY Zenon, <1>4 DEF GotTxSet, LedgerMissing, AcquireFails, CloseLedger, Accept, Expire,
                Accepting, Quiet
  <2>2. QED
    BY <2>1 DEF peers
<1>5. QED
  BY <1>1, <1>2, <1>3, <1>4, StepKinds

\* The proposals remembered of a peer stay within their limit.
LEMMA RememberedFacts ==
    ASSUME NEW s \in Seq(Proposals), NEW q \in Proposals, Len(s) <= RecentLimit
    PROVE  Remembered(s, q) \in Seq(Proposals) /\ Len(Remembered(s, q)) <= RecentLimit
<1>1. Len(s) \in Nat /\ RecentLimit \in Nat /\ RecentLimit >= 1
  BY ParmsAssumption
<1>2. CASE Len(s) >= RecentLimit
  <2>1. s # <<>>
    BY <1>1, <1>2
  <2>2. Tail(s) \in Seq(Proposals) /\ Len(Tail(s)) = Len(s) - 1
    BY <2>1, HeadTailProperties
  <2>3. QED
    BY <1>1, <1>2, <2>2, AppendProperties DEF Remembered
<1>3. CASE Len(s) < RecentLimit
  BY <1>1, <1>3, AppendProperties DEF Remembered
<1>4. QED
  BY <1>1, <1>2, <1>3

\* The proposals remembered, and those left to play back, are bounded sequences.
LEMMA MemoryTypesStep ==
    ASSUME MemoryTypes, [Next]_vars
    PROVE  MemoryTypes'
<1> USE DEF MemoryTypes
<1>1. ASSUME NEW p \in Peers, NEW q \in Proposals, NEW fetched \in BOOLEAN,
             PeerProposal(p, q, fetched)
      PROVE  MemoryTypes'
  <2>1. recent' = [recent EXCEPT ![p] = Remembered(recent[p], q)] /\ UNCHANGED todo
    BY <1>1 DEF PeerProposal, stack
  <2>2. QED
    BY <2>1, RememberedFacts
<1>2. ASSUME NEW p \in Peers, NEW fetched \in BOOLEAN, PlaybackStep(p, fetched)
      PROVE  MemoryTypes'
  <2>1. /\ todo' = [todo EXCEPT ![p] = Tail(todo[p])] /\ UNCHANGED recent
        /\ todo[p] \in Seq(Proposals) /\ todo[p] # <<>>
    BY <1>2 DEF PlaybackStep
  <2>2. Tail(todo[p]) \in Seq(Proposals)
    BY <2>1, HeadTailProperties
  <2>3. QED
    BY <2>1, <2>2
<1>3. ASSUME NEW id \in Ledgers, NEW ledger \in Ledgers, NEW untrusted \in SUBSET Peers,
             NEW proposing \in BOOLEAN, StartRound(id, ledger, untrusted, proposing)
      PROVE  MemoryTypes'
  <2>1. <<>> \in Seq(Proposals) /\ Len(<<>>) = 0 /\ RecentLimit >= 0
    BY ParmsAssumption
  <2>2. /\ recent' = [p \in Peers |-> IF p \in untrusted THEN <<>> ELSE recent[p]]
        /\ todo' = recent'
    BY <1>3 DEF StartRound, Restart
  <2>3. QED
    BY <2>1, <2>2
<1>4. CASE AcquireLedger \/ \E id \in Ledgers : LedgerChanged(id)
  BY <1>4 DEF AcquireLedger, Restart, LedgerChanged
<1>5. ASSUME UNCHANGED <<recent, todo>> PROVE MemoryTypes'
  BY <1>5
<1>6. CASE Call
  BY Zenon, <1>1, <1>3, <1>5, <1>6 DEF Call, GotTxSet, TimerEntry, stack
<1>7. CASE Timer
  <2>1. CASE LedgerRight \/ LedgerMissing \/ AcquireSkip \/ AcquireFails \/ PlaybackDone
    BY <1>5, <2>1 DEF LedgerRight, LedgerMissing, AcquireSkip, AcquireFails, PlaybackDone
  <2>2. CASE PhaseWaits \/ (\E X \in Offers : CloseLedger(X)) \/ Undecided
    BY <1>5, <2>2 DEF PhaseWaits, CloseLedger, Undecided, TimerDone
  <2>3. CASE Expire \/ \E finished \in 0..Cardinality(Peers) : Accept(finished)
    BY <1>5, <2>3 DEF Accept, Accepting, Expire, TimerDone
  <2>4. CASE Updates
    BY <1>5, <2>4, UpdatesFacts
  <2>5. QED
    BY Zenon, <1>2, <1>4, <1>7, <2>1, <2>2, <2>3, <2>4 DEF Timer, Updates
<1>8. CASE UNCHANGED vars
  BY <1>5, <1>8 DEF vars, stack
<1>9. QED
  BY <1>6, <1>7, <1>8 DEF Next

\* The place in the call, the depth of timers and the phase fit together.
LEMMA StackStep ==
    ASSUME StackTypes, NestInv, PhaseInv, RoundTypes, [Next]_vars
    PROVE  StackTypes' /\ NestInv' /\ PhaseInv'
<1> USE ParmsAssumption DEF StackTypes, NestInv, PhaseInv, RoundTypes
<1>1. CASE Call
  <2>1. CASE \E p \in Peers, q \in Proposals, fetched \in BOOLEAN : PeerProposal(p, q, fetched)
    BY <2>1 DEF PeerProposal, Handle, stack, round
  <2>2. CASE \E X \in Offers : GotTxSet(X)
    BY <2>2 DEF GotTxSet, stack, round
  <2>3. CASE \E id, ledger \in Ledgers, untrusted \in SUBSET Peers, proposing \in BOOLEAN :
                StartRound(id, ledger, untrusted, proposing)
    BY <2>3 DEF StartRound, Restart
  <2>4. CASE TimerEntry
    BY <2>4 DEF TimerEntry, round
  <2>5. QED
    BY <1>1, <2>1, <2>2, <2>3, <2>4 DEF Call
<1>2. ASSUME TimerDone, pc \in {"phase", "decide"},
             phase' = phase \/ phase' \in {"Establish", "Accepted"}
      PROVE  StackTypes' /\ NestInv' /\ PhaseInv'
  BY <1>2 DEF TimerDone, ReturnTo
<1>3. CASE Timer
  <2>1. CASE LedgerRight \/ LedgerMissing \/ (\E id \in Ledgers : LedgerChanged(id))
             \/ AcquireSkip \/ AcquireFails
    BY <2>1 DEF LedgerRight, LedgerMissing, LedgerChanged, AcquireSkip, AcquireFails, round
  <2>2. CASE AcquireLedger
    BY <2>2 DEF AcquireLedger, Restart
  <2>3. CASE PhaseWaits \/ (\E X \in Offers : CloseLedger(X)) \/ Undecided
             \/ (\E finished \in 0..Cardinality(Peers) : Accept(finished)) \/ Expire
    BY <1>2, <2>3 DEF PhaseWaits, CloseLedger, Undecided, Accept, Expire, Accepting, round
  <2>4. CASE Updates
    BY <2>4, UpdatesFacts DEF round
  <2>5. CASE \E p \in Peers, fetched \in BOOLEAN : PlaybackStep(p, fetched)
    BY <2>5 DEF PlaybackStep, Handle, round
  <2>6. CASE PlaybackDone
    BY <2>6 DEF PlaybackDone, ReturnTo, RunTimer, round
  <2>7. QED
    BY SMTT(30), <1>3, <2>1, <2>2, <2>3, <2>4, <2>5, <2>6 DEF Timer, Updates
<1>4. CASE UNCHANGED vars
  BY <1>4 DEF vars, stack, round
<1>5. QED
  BY <1>1, <1>3, <1>4 DEF Next

\* Sets and disputes are of transactions.
LEMMA SetTypesStep ==
    ASSUME MemoryTypes, RoundTypes, PeerTypes, SetTypes, [Next]_vars
    PROVE  SetTypes'
<1> USE ParmsAssumption DEF SetTypes, TxSets
<1>1. ASSUME NEW C, NEW A, NEW P, NEW X \in SUBSET Txs, UpdateDisputes(C, A, P, X),
             acquired' \subseteq SUBSET Txs, UNCHANGED txns
      PROVE  SetTypes'
  BY <1>1 DEF UpdateDisputes, CreateDisputes, SymDiff
<1>2. CASE Hears
  <2>1. PICK p \in Peers, q \in Proposals, fetched \in BOOLEAN : Handle(p, q, fetched)
    BY <1>2 DEF Hears
  <2>2. q.set \in SUBSET Txs /\ UNCHANGED txns
    BY Zenon, <2>1, ProposalFacts, HandleCases DEF position
  <2>3. CASE UNCHANGED <<acquired, disputes>> \/ BowOut(p)
    BY SMTT(30), <2>2, <2>3 DEF BowOut, disputes
  <2>4. CASE Adopt(p, q, fetched)
    <3>1. /\ acquired' = acquired \/ acquired' = acquired \cup {q.set}
          /\ \/ \E P : UpdateDisputes(curr', acquired', P, q.set)
             \/ UNCHANGED disputes
      BY <2>4, AdoptCases, Zenon
    <3>2. acquired' \subseteq SUBSET Txs
      BY Zenon, <2>2, <3>1
    <3>3. QED
      BY <1>1, <2>2, <3>1, <3>2 DEF disputes
  <2>5. QED
    BY <2>1, <2>3, <2>4, HandleCases
<1>3. CASE \E X \in Offers : GotTxSet(X)
  <2>1. PICK X \in SUBSET Txs : GotTxSet(X)
    BY <1>3
  <2>2. acquired' \subseteq SUBSET Txs /\ UNCHANGED txns
    BY <2>1 DEF GotTxSet, SetAcquired, position
  <2>3. CASE hasResult /\ At(curr, X) # {}
    BY <1>1, <2>1, <2>2, <2>3 DEF GotTxSet, SetAcquired
  <2>4. CASE ~(hasResult /\ At(curr, X) # {})
    BY <2>1, <2>2, <2>4 DEF GotTxSet, SetAcquired, disputes
  <2>5. QED
    BY <2>3, <2>4
<1>4. CASE Restarts
  BY <1>4 DEF Restarts, Restart
<1>5. CASE \E id \in Ledgers : LedgerChanged(id)
  BY <1>5 DEF LedgerChanged
<1>6. CASE \E X \in Offers : CloseLedger(X)
  <2>1. PICK X \in Offers : CloseLedger(X)
    BY SMTT(30), <1>6
  <2>2. /\ acquired' = acquired \cup {X} /\ txns' = X
        /\ compares' = {curr[p].set : p \in Joined(curr)} \cap acquired'
        /\ disputed' = UNION {SymDiff(X, Y) : Y \in compares'}
        /\ ourVote' \subseteq disputed'
    BY <2>1 DEF CloseLedger
  <2>3. acquired' \subseteq SUBSET Txs /\ compares' \subseteq SUBSET Txs /\ txns' \in SUBSET Txs
    BY <2>2
  <2>4. ASSUME NEW Y \in compares' PROVE SymDiff(X, Y) \subseteq Txs
    BY <2>3 DEF SymDiff
  <2>5. disputed' \subseteq Txs
    BY <2>2, <2>4
  <2>6. QED
    BY <2>2, <2>3, <2>5
<1>7. CASE Updates
  <2>1. PICK stale \in SUBSET Peers, pcts \in [Txs -> Levels], refresh \in BOOLEAN,
             agreed \in BOOLEAN : UpdateOurPositions(stale, pcts, refresh, agreed)
    BY <1>7 DEF Updates
  <2>2. /\ txns' \in SUBSET Txs
        /\ acquired' = acquired \/ acquired' = acquired \cup {txns'}
        /\ compares' = compares \/ compares' = compares \cup {txns'}
        /\ UNCHANGED disputed /\ ourVote' \subseteq disputed
    BY Zenon, <2>1 DEF UpdateOurPositions, Flipped
  <2>3. QED
    BY <2>2
<1>8. CASE LedgerMissing \/ AcquireFails \/ Expire \/ Quiet
           \/ \E finished \in 0..Cardinality(Peers) : Accept(finished)
  BY <1>8 DEF LedgerMissing, AcquireFails, Expire, Accept, Accepting, Quiet, position, disputes
<1>9. QED
  BY <1>2, <1>3, <1>4, <1>5, <1>6, <1>7, <1>8, StepKinds

\* Votes stay votes.
LEMMA VoteTypesStep ==
    ASSUME MemoryTypes, RoundTypes, VoteTypes, [Next]_vars
    PROVE  VoteTypes'
<1> USE DEF VoteTypes
<1>1. ASSUME NEW V \in [Txs -> [Peers -> {"yes", "no", "none"}]], NEW new, NEW C, NEW A,
             NEW P, NEW X
      PROVE  Cast(V, new, C, A, P, X) \in [Txs -> [Peers -> {"yes", "no", "none"}]]
  BY DEF Cast, VoteOn
<1>2. ASSUME NEW P PROVE UnVote(votes, P) \in [Txs -> [Peers -> {"yes", "no", "none"}]]
  BY DEF UnVote
<1>3. ASSUME NEW C, NEW A, NEW P, NEW X, UpdateDisputes(C, A, P, X) PROVE VoteTypes'
  BY <1>1, <1>3 DEF UpdateDisputes
<1>4. ASSUME UNCHANGED disputes PROVE VoteTypes'
  BY <1>4 DEF disputes
<1>5. CASE Hears
  <2>1. PICK p \in Peers, q \in Proposals, fetched \in BOOLEAN : Handle(p, q, fetched)
    BY <1>5 DEF Hears
  <2>2. CASE BowOut(p)
    BY <1>2, <2>2 DEF BowOut
  <2>3. CASE Adopt(p, q, fetched)
    BY Zenon, <1>3, <1>4, <2>3, AdoptCases
  <2>4. QED
    BY <1>4, <2>1, <2>2, <2>3, HandleCases
<1>6. CASE \E X \in Offers : GotTxSet(X)
  BY <1>3, <1>4, <1>6 DEF GotTxSet, SetAcquired
<1>7. CASE Restarts
  BY <1>7 DEF Restarts, Restart, NoVotes
<1>8. CASE \E id \in Ledgers : LedgerChanged(id)
  BY <1>8 DEF LedgerChanged, NoVotes
<1>9. CASE \E X \in Offers : CloseLedger(X)
  BY <1>9 DEF CloseLedger, VoteOn
<1>10. CASE Updates
  <2>1. PICK stale \in SUBSET Peers, pcts \in [Txs -> Levels], refresh \in BOOLEAN,
             agreed \in BOOLEAN : UpdateOurPositions(stale, pcts, refresh, agreed)
    BY <1>10 DEF Updates
  <2>2. \/ votes' = UnVote(votes, stale)
        \/ \E C, A, P, X : votes' = Cast(UnVote(votes, stale), {}, C, A, P, X)
    BY Zenon, <2>1 DEF UpdateOurPositions
  <2>3. QED
    BY <1>1, <1>2, <2>2
<1>11. CASE LedgerMissing \/ AcquireFails \/ Expire \/ Quiet
           \/ \E finished \in 0..Cardinality(Peers) : Accept(finished)
  BY SMTT(30), <1>4, <1>11 DEF LedgerMissing, AcquireFails, Expire, Accept, Accepting, Quiet
<1>12. QED
  BY <1>5, <1>6, <1>7, <1>8, <1>9, <1>10, <1>11, StepKinds

-----------------------------------------------------------------------------
(* Our own position *)

\* RoundCoherent without the types.
Coherent ==
    /\ phase = "Open" => ~hasResult
    /\ phase = "Establish" => hasResult
    /\ mode = "Proposing" => prevLedger = prevId

OwnInv == PositionTypes /\ Coherent /\ SentInv /\ NoDanglingProposal

\* Every step keeps what we say in line with where we are.
LEMMA OwnStep ==
    ASSUME MemoryTypes, RoundTypes, OwnInv, PhaseInv, [Next]_vars
    PROVE  OwnInv'
<1> USE ParmsAssumption
      DEF OwnInv, RoundTypes, PositionTypes, Coherent, SentInv, NoDanglingProposal, Absent, Leave
<1>1. ASSUME UNCHANGED <<round, position>>, closeAgreed' \in BOOLEAN PROVE OwnInv'
  BY SMTT(30), <1>1 DEF round, position
<1>2. CASE Hears \/ \E X \in Offers : GotTxSet(X)
  BY SMTT(30), <1>1, <1>2, HandleCases DEF Hears, GotTxSet
<1>3. CASE Restarts
  <2>1. /\ phase' = "Open" /\ (mode' = "Proposing" => prevLedger' = prevId')
        /\ hasResult' = FALSE /\ seq' = 0 /\ sent' = Absent /\ closeAgreed' = FALSE
    <3>1. PICK id, ledger \in Ledgers,
               m \in {"Proposing", "Observing", "WrongLedger", "SwitchedLedger"} :
            (m = "Proposing" => id = ledger) /\ Restart(id, ledger, m, recent')
      BY <1>3 DEF Restarts
    <3>2. QED
      BY <3>1 DEF Restart
  <2>2. PositionTypes'
    <3>1. hasResult' \in BOOLEAN /\ closeAgreed' \in BOOLEAN
      BY <2>1, Zenon
    <3>2. seq' \in 0..Leave /\ sent' \in Absent..Leave
      BY <2>1
    <3>3. QED
      BY <3>1, <3>2, Zenon
  <2>3. Coherent' /\ SentInv'
    BY <2>1
  <2>4. NoDanglingProposal'
    BY <2>1
  <2>5. QED
    BY SMTT(30), <2>2, <2>3, <2>4
<1>4. CASE \E id \in Ledgers : LedgerChanged(id)
  BY <1>4 DEF LedgerChanged, LeaveConsensus
<1>5. CASE LedgerMissing
  BY <1>5 DEF LedgerMissing, LeaveConsensus
<1>6. CASE AcquireFails
  BY SMTT(30), <1>6 DEF AcquireFails, position
<1>7. CASE \E X \in Offers : CloseLedger(X)
  BY <1>7 DEF CloseLedger
<1>8. CASE Updates
  <2>1. PICK stale \in SUBSET Peers, pcts \in [Txs -> Levels], refresh \in BOOLEAN,
             agreed \in BOOLEAN : UpdateOurPositions(stale, pcts, refresh, agreed)
    BY <1>8 DEF Updates
  <2>2. /\ phase = "Establish" /\ UNCHANGED <<round, hasResult>>
        /\ closeAgreed' \in BOOLEAN
        /\ \/ seq # MaxPropose /\ seq' = NextSeq(seq)
              /\ sent' = IF seq # Leave /\ mode = "Proposing" THEN NextSeq(seq) ELSE sent
           \/ UNCHANGED <<seq, sent>>
    BY Zenon, <2>1 DEF UpdateOurPositions
  <2>3. QED
    BY <2>2 DEF NextSeq, round
<1>9. CASE \E finished \in 0..Cardinality(Peers) : Accept(finished)
  BY <1>9 DEF Accept, Accepting
<1>10. CASE Expire
  <2>1. /\ LeaveConsensus /\ UNCHANGED <<prevId, prevLedger, hasResult, closeAgreed>>
        /\ phase' \in {phase, "Accepted"}
    BY <1>10 DEF Expire, Accepting
  <2>2. QED
    BY <2>1 DEF LeaveConsensus
<1>11. CASE Quiet
  BY SMTT(30), <1>1, <1>11 DEF Quiet
<1>12. QED
  BY Zenon, <1>2, <1>3, <1>4, <1>5, <1>6, <1>7, <1>8, <1>9, <1>10, <1>11, StepKinds

\* Proposals of a round increase, and a changed set goes out under a new number
\* (change_position, leave_consensus).
LEMMA OwnMoves ==
    ASSUME MemoryTypes, RoundTypes, OwnInv, PhaseInv, [Next]_vars
    PROVE  /\ sent' # sent => sent' > sent \/ pc' = "play"
           /\ mode = "Proposing" /\ hasResult /\ hasResult' /\ txns' # txns => sent' > sent
<1> DEFINE Goal ==
      /\ sent' # sent => sent' > sent \/ pc' = "play"
      /\ mode = "Proposing" /\ hasResult /\ hasResult' /\ txns' # txns => sent' > sent
<1> SUFFICES Goal
  OBVIOUS
<1> USE ParmsAssumption
      DEF OwnInv, RoundTypes, PositionTypes, Coherent, SentInv, NoDanglingProposal, Absent, Leave
<1>1. ASSUME UNCHANGED <<sent, txns>> PROVE Goal
  BY SMTT(30), <1>1
<1>2. CASE Hears \/ (\E X \in Offers : GotTxSet(X)) \/ Quiet \/ AcquireFails
           \/ \E finished \in 0..Cardinality(Peers) : Accept(finished)
  BY <1>1, <1>2, HandleCases DEF Hears, GotTxSet, Quiet, AcquireFails, Accept, Accepting, position
<1>3. CASE Restarts
  BY <1>3 DEF Restarts, Restart
<1>4. CASE \E id \in Ledgers : LedgerChanged(id)
  BY <1>4 DEF LedgerChanged, LeaveConsensus
<1>5. CASE LedgerMissing
  BY SMTT(30), <1>5 DEF LedgerMissing, LeaveConsensus
<1>6. CASE \E X \in Offers : CloseLedger(X)
  BY <1>6 DEF CloseLedger
<1>7. CASE Updates
  <2>1. PICK stale \in SUBSET Peers, pcts \in [Txs -> Levels], refresh \in BOOLEAN,
             agreed \in BOOLEAN : UpdateOurPositions(stale, pcts, refresh, agreed)
    BY <1>7 DEF Updates
  <2>2. \E off, on :
        /\ txns' = Flipped(txns, off, on)
        /\ \/ sent' = IF seq # Leave /\ mode = "Proposing" THEN NextSeq(seq) ELSE sent
           \/ off \cup on = {} /\ UNCHANGED sent
    BY Zenon, <2>1 DEF UpdateOurPositions
  <2>3. phase = "Establish"
    BY Zenon, <2>1 DEF UpdateOurPositions
  <2>4. QED
    BY <2>2, <2>3 DEF NextSeq, Flipped
<1>8. CASE Expire
  <2>1. LeaveConsensus /\ UNCHANGED <<hasResult, txns>>
    BY SMTT(30), <1>8 DEF Expire, Accepting
  <2>2. QED
    BY <2>1 DEF LeaveConsensus
<1>9. QED
  BY <1>2, <1>3, <1>4, <1>5, <1>6, <1>7, <1>8, StepKinds

-----------------------------------------------------------------------------
(* The positions of peers *)

\* The positions that count are of this ledger, of peers that have not left, and
\* each peer only moves forward (peer_proposal_internal).
LEMMA PeersStep ==
    ASSUME MemoryTypes, RoundTypes, PeerTypes, PositionsOfThisLedger, [Next]_vars
    PROVE  /\ PositionsOfThisLedger'
           /\ \A p \in Peers : Present(curr, p) /\ Present(curr, p)' /\ curr'[p] # curr[p]
                                => curr'[p].seq > curr[p].seq
<1> DEFINE Forward == \A p \in Peers :
        Present(curr, p) /\ Present(curr, p)' /\ curr'[p] # curr[p] => curr'[p].seq > curr[p].seq
<1>1. PeerTypes'
  BY PeerTypesStep
<1> USE DEF PositionsOfThisLedger, Joined, Present, PeerTypes
<1>2. ASSUME UNCHANGED <<prevId, peers>> PROVE PositionsOfThisLedger' /\ Forward
  BY <1>2 DEF peers
<1>3. CASE Hears
  <2>1. PICK p \in Peers, q \in Proposals, fetched \in BOOLEAN : Handle(p, q, fetched)
    BY <1>3 DEF Hears
  <2>2. UNCHANGED prevId
    BY SMTT(30), <2>1, HandleCases DEF round
  <2>3. CASE UNCHANGED peers
    BY <1>2, <2>2, <2>3
  <2>4. CASE BowOut(p)
    BY <2>2, <2>4, ProposalFacts DEF BowOut
  <2>5. CASE ~Ignored(p, q) /\ q.seq # Leave /\ Adopt(p, q, fetched)
    <3>1. curr' = [curr EXCEPT ![p] = q] /\ UNCHANGED dead
      BY <2>5 DEF Adopt
    <3>2. /\ q.prev = prevId /\ p \notin dead
          /\ ~(curr[p].seq # Absent /\ q.seq <= curr[p].seq)
      BY <2>5 DEF Ignored
    <3>3. PositionsOfThisLedger'
      BY <2>2, <2>5, <3>1, <3>2
    <3>4. curr[p].seq # Absent => curr[p].seq \in Nat
      BY PresentIsProposal, ProposalFacts
    <3>5. q.seq \in Nat
      BY ProposalFacts
    <3>6. Forward
      BY SMTT(30), <3>1, <3>2, <3>4, <3>5
    <3>7. QED
      BY <3>3, <3>6
  <2>6. QED
    BY Zenon, <2>1, <2>3, <2>4, <2>5, HandleCases
<1>4. CASE Restarts \/ \E id \in Ledgers : LedgerChanged(id)
  BY <1>4, ProposalFacts DEF Restarts, Restart, LedgerChanged, Nobody
<1>5. CASE Updates
  <2>1. PICK stale \in SUBSET Peers, pcts \in [Txs -> Levels], refresh \in BOOLEAN,
             agreed \in BOOLEAN : UpdateOurPositions(stale, pcts, refresh, agreed)
    BY <1>5 DEF Updates
  <2>2. /\ curr' = [p \in Peers |-> IF p \in stale THEN NoPosition ELSE curr[p]]
        /\ UNCHANGED <<prevId, dead>>
    BY Zenon, <2>1 DEF UpdateOurPositions, round
  <2>3. QED
    BY <2>2, ProposalFacts
<1>6. CASE \/ \E X \in Offers : GotTxSet(X)
           \/ LedgerMissing \/ AcquireFails
           \/ \E X \in Offers : CloseLedger(X)
           \/ \E finished \in 0..Cardinality(Peers) : Accept(finished)
           \/ Expire \/ Quiet
  <2>1. UNCHANGED <<prevId, peers>>
    BY Zenon, <1>6 DEF GotTxSet, LedgerMissing, AcquireFails, CloseLedger, Accept, Expire,
                Accepting, Quiet, round
  <2>2. QED
    BY <1>2, <2>1
<1>7. QED
  BY Zenon, <1>3, <1>4, <1>5, <1>6, StepKinds

-----------------------------------------------------------------------------
(* Playback *)

\* A playback begins with everything to do.
LEMMA PlayBegins ==
    ASSUME MemoryTypes', todo' = recent', dead' = {}
    PROVE  PlayInv'
<1> SUFFICES ASSUME NEW p \in Peers PROVE PlayedSoFar(p)'
  BY DEF PlayInv
<1>1. todo'[p] = recent'[p] /\ Len(recent'[p]) \in Nat /\ Handled(p)' = 0
  BY DEF MemoryTypes, Handled
<1>2. QED
  BY <1>1 DEF PlayedSoFar

\* One more proposal of p is handled, those of the other peers are as they were.
LEMMA PlayStep ==
    ASSUME MemoryTypes, RoundTypes, PeerTypes, PositionsOfThisLedger, PhaseInv, PlayInv,
           NEW p \in Peers, NEW fetched \in BOOLEAN, PlaybackStep(p, fetched)
    PROVE  PlayInv'
<1> DEFINE q == Head(todo[p])
           k == Handled(p)
<1>1. /\ pc = "play" /\ todo[p] # <<>> /\ Handle(p, q, fetched)
      /\ todo' = [todo EXCEPT ![p] = Tail(todo[p])] /\ UNCHANGED recent
  BY DEF PlaybackStep
<1>2. UNCHANGED prevId /\ phase # "Accepted"
  BY <1>1, HandleCases DEF round, PhaseInv
<1>3. /\ todo[p] \in Seq(Proposals) /\ recent[p] \in Seq(Proposals)
      /\ Len(todo[p]) \in Nat /\ Len(recent[p]) \in Nat
  BY DEF MemoryTypes
<1>4. /\ q \in Proposals /\ Len(Tail(todo[p])) = Len(todo[p]) - 1 /\ Len(todo[p]) >= 1
      /\ \A i \in 1..Len(Tail(todo[p])) : Tail(todo[p])[i] = todo[p][i + 1]
      /\ q = todo[p][1]
  BY <1>1, <1>3, HeadTailProperties
<1>5. \A r \in Peers : PlayedSoFar(r)
  BY <1>1 DEF PlayInv
<1>6. k \in Nat /\ Handled(p)' = k + 1
  <2>1. todo'[p] = Tail(todo[p]) /\ recent'[p] = recent[p]
    BY SMTT(30), <1>1 DEF MemoryTypes
  <2>2. k >= 0
    BY <1>5 DEF PlayedSoFar
  <2>3. k = Len(recent[p]) - Len(todo[p])
    BY DEF Handled
  <2>4. Handled(p)' = Len(recent[p]) - Len(Tail(todo[p]))
    BY <2>1 DEF Handled
  <2>5. \A a, b \in Nat : a - b >= 0 => a - b \in Nat /\ a - (b - 1) = (a - b) + 1
    OBVIOUS
  <2>6. Len(todo[p]) \in Nat /\ Len(recent[p]) \in Nat /\ Len(Tail(todo[p])) = Len(todo[p]) - 1
    BY SMTT(30), <1>3, <1>4
  <2> HIDE DEF k
  <2>7. QED
    BY <2>2, <2>3, <2>4, <2>5, <2>6, Zenon
<1>7. q = recent[p][k + 1]
  BY <1>3, <1>4, <1>5 DEF PlayedSoFar
<1>8. todo'[p] = Tail(todo[p])
  BY SMTT(30), <1>1 DEF MemoryTypes
<1>9. \A i \in 1..Len(todo'[p]) : todo'[p][i] = recent'[p][Handled(p)' + i]
  <2> SUFFICES ASSUME NEW i \in 1..Len(todo'[p])
               PROVE  todo'[p][i] = recent'[p][Handled(p)' + i]
    OBVIOUS
  <2>1. todo'[p][i] = todo[p][i + 1] /\ i + 1 \in 1..Len(todo[p])
    BY SMTT(30), <1>3, <1>4, <1>8
  <2>2. todo[p][i + 1] = recent[p][k + (i + 1)]
    BY <1>5, <2>1 DEF PlayedSoFar
  <2>3. k + (i + 1) = Handled(p)' + i
    BY SMTT(30), <1>6
  <2>4. QED
    BY <1>1, <2>1, <2>2, <2>3
<1> HIDE DEF q, k
<1>10. /\ p \in dead <=> \E i \in 1..k : recent[p][i].prev = prevId /\ recent[p][i].seq = Leave
       /\ p \notin dead => \A i \in 1..k : recent[p][i].prev = prevId =>
                Present(curr, p) /\ recent[p][i].seq <= curr[p].seq
  BY <1>5 DEF PlayedSoFar, k
<1>11. \A i \in 1..(k + 1) : i \in 1..k \/ i = k + 1
  BY <1>6
<1>12. k + 1 \in 1..(k + 1) /\ 1..k \subseteq 1..(k + 1)
  BY <1>6
<1>13. \A i \in 1..(k + 1) : recent[p][i] \in Proposals
  BY SMTT(30), <1>3, <1>4, <1>6, ElementOfSeq DEF Handled, k
<1>14. Present(curr, p) => curr[p].seq \in 0..Leave /\ curr[p].seq # Leave /\ curr[p].prev = prevId
  BY SMTT(30), PresentIsProposal, ProposalFacts DEF PositionsOfThisLedger, Joined
<1>15. \A i \in 1..(k + 1) : recent[p][i].seq \in 0..Leave
  BY SMTT(30), <1>13, ProposalFacts
<1>16. q.seq \in 0..Leave /\ q.seq # Absent /\ Leave \in Nat
  BY SMTT(30), <1>4, ProposalFacts
<1> DEFINE Done ==
      /\ p \in dead' <=> \E i \in 1..(k + 1) :
            recent[p][i].prev = prevId /\ recent[p][i].seq = Leave
      /\ p \notin dead' => \A i \in 1..(k + 1) : recent[p][i].prev = prevId =>
            Present(curr', p) /\ recent[p][i].seq <= curr'[p].seq
<1>17. \/ Ignored(p, q) /\ UNCHANGED peers
       \/ ~Ignored(p, q) /\ q.seq = Leave /\ BowOut(p)
       \/ ~Ignored(p, q) /\ q.seq # Leave /\ Adopt(p, q, fetched)
  BY Zenon, <1>1, HandleCases DEF q
<1>18. Done
  <2>1. CASE Ignored(p, q) /\ UNCHANGED peers
    <3>1. UNCHANGED <<curr, dead>>
      BY SMTT(30), <2>1 DEF peers
    <3>2. CASE p \in dead
      BY SMTT(30), <1>10, <1>12, <3>1, <3>2
    <3>3. CASE q.prev # prevId
      BY Zenon, <1>7, <1>10, <1>11, <1>12, <3>1, <3>3
    <3>4. CASE p \notin dead /\ q.prev = prevId
      <4>1. Present(curr, p) /\ q.seq <= curr[p].seq
        BY SMTT(30), <1>2, <2>1, <3>4 DEF Ignored
      <4>2. q.seq # Leave
        BY SMTT(30), <1>14, <1>16, <4>1
      <4>3. QED
        BY Zenon, <1>7, <1>10, <1>11, <1>12, <3>1, <3>4, <4>1, <4>2
    <3>5. QED
      BY Zenon, <3>2, <3>3, <3>4
  <2>2. CASE ~Ignored(p, q) /\ q.seq = Leave /\ BowOut(p)
    <3>1. q.prev = prevId /\ p \in dead'
      BY SMTT(30), <2>2 DEF Ignored, BowOut
    <3>2. QED
      BY Zenon, <1>7, <1>12, <2>2, <3>1
  <2>3. CASE ~Ignored(p, q) /\ q.seq # Leave /\ Adopt(p, q, fetched)
    <3>1. q.prev = prevId /\ p \notin dead /\ ~(Present(curr, p) /\ q.seq <= curr[p].seq)
      BY <2>3 DEF Ignored
    <3>2. curr'[p] = q /\ UNCHANGED dead
      BY SMTT(30), <2>3 DEF Adopt, PeerTypes
    <3>3. Present(curr', p)
      BY SMTT(30), <1>16, <3>2 DEF Present
    <3>4. ASSUME NEW i \in 1..k, recent[p][i].prev = prevId PROVE recent[p][i].seq <= q.seq
      <4>1. Present(curr, p) /\ recent[p][i].seq <= curr[p].seq
        BY Zenon, <1>10, <3>1, <3>4
      <4>2. curr[p].seq \in 0..Leave /\ recent[p][i].seq \in 0..Leave /\ ~(q.seq <= curr[p].seq)
        BY Zenon, <1>12, <1>14, <1>15, <3>1, <4>1
      <4>3. QED
        BY SMTT(30), <1>16, <4>1, <4>2
    <3>5. ASSUME NEW i \in 1..(k + 1), recent[p][i].prev = prevId PROVE recent[p][i].seq <= q.seq
      BY SMTT(30), <1>7, <1>11, <1>16, <3>4, <3>5
    <3>6. \A i \in 1..(k + 1) : recent[p][i].prev = prevId => recent[p][i].seq # Leave
      BY Zenon, <1>7, <1>10, <1>11, <2>3, <3>1
    <3>7. QED
      BY Zenon, <3>1, <3>2, <3>3, <3>5, <3>6
  <2>4. QED
    BY Zenon, <1>17, <2>1, <2>2, <2>3
<1>19. PlayedSoFar(p)'
  <2>1. recent' = recent /\ prevId' = prevId /\ Handled(p)' = k + 1 /\ Handled(p)' >= 0
    BY SMTT(30), <1>1, <1>2, <1>6
  <2>2. p \in dead' <=> \E i \in 1..Handled(p)' :
            recent'[p][i].prev = prevId' /\ recent'[p][i].seq = Leave
    BY Zenon, <1>18, <2>1
  <2>3. p \notin dead' => \A i \in 1..Handled(p)' : recent'[p][i].prev = prevId' =>
            Present(curr', p) /\ recent'[p][i].seq <= curr'[p].seq
    BY Zenon, <1>18, <2>1
  <2>4. QED
    BY <1>9, <2>1, <2>2, <2>3, Zenon DEF PlayedSoFar, Present
<1>20. ASSUME NEW r \in Peers \ {p} PROVE PlayedSoFar(r)'
  <2>1. curr'[r] = curr[r] /\ (r \in dead' <=> r \in dead)
    BY SMTT(30), <1>17 DEF BowOut, Adopt, peers, PeerTypes
  <2>2. Handled(r)' = Handled(r) /\ todo'[r] = todo[r] /\ recent'[r] = recent[r]
    BY <1>1 DEF Handled, MemoryTypes
  <2>3. PlayedSoFar(r)
    BY <1>5
  <2>4. QED
    BY Zenon, <1>2, <2>1, <2>2, <2>3 DEF PlayedSoFar, Present
<1>21. QED
  BY <1>19, <1>20 DEF PlayInv

\* Every other step starts a playback, leaves it alone or is not in one.
LEMMA PlayInvStep ==
    ASSUME MemoryTypes, MemoryTypes', RoundTypes, PeerTypes, StackTypes, NestInv,
           PositionsOfThisLedger, PhaseInv, PlayInv, [Next]_vars
    PROVE  PlayInv'
<1>1. ASSUME pc' # "play" PROVE PlayInv'
  BY <1>1 DEF PlayInv
<1>2. CASE Call
  <2>1. CASE \/ \E p \in Peers, q \in Proposals, fetched \in BOOLEAN : PeerProposal(p, q, fetched)
             \/ \E X \in Offers : GotTxSet(X)
             \/ TimerEntry
    BY SMTT(30), <1>1, <2>1 DEF PeerProposal, GotTxSet, TimerEntry, stack
  <2>2. CASE \E id, ledger \in Ledgers, untrusted \in SUBSET Peers, proposing \in BOOLEAN :
                StartRound(id, ledger, untrusted, proposing)
    BY <2>2, PlayBegins DEF StartRound, Restart
  <2>3. QED
    BY <1>2, <2>1, <2>2 DEF Call
<1>3. CASE Timer
  <2>1. CASE LedgerRight \/ LedgerMissing \/ AcquireSkip \/ AcquireFails
    BY <1>1, <2>1 DEF LedgerRight, LedgerMissing, AcquireSkip, AcquireFails
  <2>2. CASE AcquireLedger \/ \E id \in Ledgers : LedgerChanged(id)
    BY <2>2, PlayBegins DEF AcquireLedger, Restart, LedgerChanged
  <2>3. CASE PhaseWaits \/ (\E X \in Offers : CloseLedger(X)) \/ Undecided
             \/ (\E finished \in 0..Cardinality(Peers) : Accept(finished)) \/ Expire
    <3>1. TimerDone
      BY Zenon, <2>3 DEF PhaseWaits, CloseLedger, Undecided, Accept, Expire, Accepting
    <3>2. QED
      BY <1>1, <3>1 DEF TimerDone, ReturnTo
  <2>4. CASE Updates
    BY <1>1, <2>4, UpdatesFacts
  <2>5. CASE \E p \in Peers, fetched \in BOOLEAN : PlaybackStep(p, fetched)
    BY <2>5, PlayStep
  <2>6. CASE PlaybackDone
    BY <1>1, <2>6 DEF PlaybackDone, ReturnTo
  <2>7. QED
    BY SMTT(30), <1>3, <2>1, <2>2, <2>3, <2>4, <2>5, <2>6 DEF Timer, Updates
<1>4. CASE UNCHANGED vars
  <2>1. UNCHANGED <<pc, todo, recent, curr, dead, prevId>>
    BY <1>4 DEF vars, stack, round, peers
  <2>2. QED
    BY Zenon, <2>1 DEF PlayInv, PlayedSoFar, Handled, Present
<1>5. QED
  BY <1>2, <1>3, <1>4 DEF Next

\* Once nothing is left to play, all that is remembered was handled.
LEMMA PlayedIsComplete ==
    ASSUME MemoryTypes, PlayInv
    PROVE  PlaybackComplete
<1> SUFFICES ASSUME pc = "play", todo = Nothing, NEW p \in Peers
             PROVE  PlayedSoFar(p) /\ Handled(p) = Len(recent[p])
  BY DEF PlaybackComplete, PlayedSoFar
<1>1. Len(todo[p]) = 0 /\ Len(recent[p]) \in Nat
  BY DEF Nothing, MemoryTypes
<1>2. QED
  BY <1>1 DEF PlayInv, Handled

-----------------------------------------------------------------------------
(* Disputes *)

\* What update_disputes does to the disputes themselves.
Disputes(X) ==
    /\ compares' = compares \cup {X}
    /\ disputed' = disputed \cup CreateDisputes(X)
    /\ ourVote' = ourVote \cup (CreateDisputes(X) \cap txns)

\* A proposal or a set that arrives compares a set with ours, once there is a
\* result, or leaves the disputes alone.
LEMMA Compares ==
    ASSUME Hears \/ \E X \in Offers : GotTxSet(X)
    PROVE  /\ UNCHANGED <<hasResult, txns>>
           /\ \/ UNCHANGED <<disputed, ourVote, compares>>
              \/ hasResult /\ \E X \in Offers : Disputes(X)
<1>1. ASSUME NEW p \in Peers, NEW q \in Proposals, NEW fetched \in BOOLEAN,
             Handle(p, q, fetched)
      PROVE  /\ UNCHANGED <<hasResult, txns>>
             /\ \/ UNCHANGED <<disputed, ourVote, compares>>
                \/ hasResult /\ Disputes(q.set)
  <2>1. UNCHANGED <<hasResult, txns>>
    BY <1>1, HandleCases DEF position
  <2>2. CASE UNCHANGED disputes \/ BowOut(p)
    BY <2>1, <2>2 DEF disputes, BowOut
  <2>3. CASE Adopt(p, q, fetched)
    <3>1. \/ UNCHANGED disputes
          \/ hasResult /\ \E P : UpdateDisputes(curr', acquired', P, q.set)
      BY <2>3, AdoptCases, Zenon
    <3>2. QED
      BY <2>1, <3>1 DEF disputes, UpdateDisputes, Disputes
  <2>4. QED
    BY <1>1, <2>2, <2>3, HandleCases
<1>2. ASSUME NEW X \in Offers, GotTxSet(X)
      PROVE  /\ UNCHANGED <<hasResult, txns>>
             /\ \/ UNCHANGED <<disputed, ourVote, compares>>
                \/ hasResult /\ Disputes(X)
  BY <1>2 DEF GotTxSet, SetAcquired, position, disputes, UpdateDisputes, Disputes
<1>3. \A q \in Proposals : q.set \in Offers
  BY ProposalFacts
<1>4. QED
  BY <1>1, <1>2, <1>3 DEF Hears

\* Our votes follow our set, and the differences stay in dispute as it changes.
LEMMA OurVotesStep ==
    ASSUME MemoryTypes, RoundTypes, SetTypes, OurVotes, CompareInv, [Next]_vars
    PROVE  OurVotes' /\ CompareInv'
<1> USE DEF OurVotes, CompareInv, SymDiff
<1>1. CASE Hears \/ \E X \in Offers : GotTxSet(X)
  <2>1. CASE UNCHANGED <<disputed, ourVote, compares>>
    BY <1>1, <2>1, Compares
  <2>2. ASSUME NEW X \in Offers, hasResult, Disputes(X) PROVE OurVotes' /\ CompareInv'
    BY Zenon, <1>1, <2>2, Compares DEF Disputes, CreateDisputes
  <2>3. QED
    BY <1>1, <2>1, <2>2, Compares
<1>2. CASE Restarts
  BY <1>2 DEF Restarts, Restart
<1>3. CASE \E id \in Ledgers : LedgerChanged(id)
  BY <1>3 DEF LedgerChanged
<1>4. CASE \E X \in Offers : CloseLedger(X)
  <2>1. PICK X \in Offers : CloseLedger(X)
    BY <1>4
  <2>2. /\ hasResult' /\ txns' = X /\ ourVote' = disputed' \cap X
        /\ disputed' = UNION {SymDiff(X, Y) : Y \in compares'}
    BY <2>1 DEF CloseLedger
  <2>3. QED
    BY <2>2
<1>5. CASE Updates
  <2>1. PICK stale \in SUBSET Peers, pcts \in [Txs -> Levels], refresh \in BOOLEAN,
             agreed \in BOOLEAN : UpdateOurPositions(stale, pcts, refresh, agreed)
    BY <1>5 DEF Updates
  <2>2. /\ UNCHANGED <<hasResult, disputed>> /\ ourVote' \subseteq disputed
        /\ txns' = (txns \ (ourVote \ ourVote')) \cup (ourVote' \ ourVote)
        /\ compares' \subseteq compares \cup {txns'}
    BY Zenon, <2>1 DEF UpdateOurPositions, Flipped
  <2>3. QED
    BY <2>2
<1>6. CASE LedgerMissing \/ AcquireFails \/ Expire \/ Quiet
           \/ \E finished \in 0..Cardinality(Peers) : Accept(finished)
  <2>1. UNCHANGED <<hasResult, txns, disputed, ourVote, compares>>
    BY <1>6 DEF LedgerMissing, AcquireFails, Expire, Accept, Accepting, Quiet, position, disputes
  <2>2. QED
    BY <2>1
<1>7. QED
  BY <1>1, <1>2, <1>3, <1>4, <1>5, <1>6, StepKinds

\* W is V after the peers P moved to X and the disputes of new were created: the
\* vote of a peer that moved, and of every peer on a new dispute, is that of its
\* set, and otherwise the one it had.
CastAs(W, V, new, P, X) ==
    \A t \in Txs, p \in Peers :
        /\ t \in disputed \cup new /\ p \in P => W[t][p] = VoteOn(X, t)
        /\ t \in new /\ p \notin P /\ Present(curr', p) /\ curr'[p].set \in acquired'
                => W[t][p] = VoteOn(curr'[p].set, t)
        /\ t \notin new /\ p \notin P => W[t][p] = V[t][p]
        /\ p \notin P /\ ~Present(curr', p) => W[t][p] = V[t][p]

\* What Cast does to the votes.
LEMMA CastFacts ==
    ASSUME NEW V, NEW new, NEW P, NEW X, votes' = Cast(V, new, curr', acquired', P, X)
    PROVE  CastAs(votes', V, new, P, X)
<1> SUFFICES ASSUME NEW t \in Txs, NEW p \in Peers
             PROVE  /\ t \in disputed \cup new /\ p \in P => votes'[t][p] = VoteOn(X, t)
                    /\ t \in new /\ p \notin P /\ Present(curr', p) /\ curr'[p].set \in acquired'
                            => votes'[t][p] = VoteOn(curr'[p].set, t)
                    /\ t \notin new /\ p \notin P => votes'[t][p] = V[t][p]
                    /\ p \notin P /\ ~Present(curr', p) => votes'[t][p] = V[t][p]
  BY Zenon DEF CastAs
<1>1. votes'[t][p] =
        CASE t \in disputed \cup new /\ p \in P -> VoteOn(X, t)
          [] t \in new /\ p \notin P /\ Present(curr', p) /\ curr'[p].set \in acquired' ->
                VoteOn(curr'[p].set, t)
          [] OTHER -> V[t][p]
  BY DEF Cast
<1>2. QED
  BY <1>1

\* update_disputes for the peers that are at X keeps the votes of all peers right,
\* if the others neither moved nor see their set arrive.
LEMMA UpdateVotes ==
    ASSUME SetTypes, \A p \in Peers : PeerVotes(p),
           NEW X \in TxSets, NEW P \in SUBSET Peers, UpdateDisputes(curr', acquired', P, X),
           \A p \in P : Present(curr', p) /\ curr'[p].set = X,
           \A p \in Peers \ P :
                /\ curr'[p] = curr[p]
                /\ Present(curr, p) /\ curr[p].set \in acquired' => curr[p].set \in acquired,
           UNCHANGED hasResult
    PROVE  \A p \in Peers : PeerVotes(p)'
<1> DEFINE new == CreateDisputes(X)
<1>1. new \subseteq Txs /\ disputed \subseteq Txs
  BY Zenon DEF SetTypes, CreateDisputes, SymDiff, TxSets
<1>2. /\ compares' = compares \cup {X} /\ disputed' = disputed \cup new
      /\ votes' = Cast(votes, new, curr', acquired', P, X)
  BY DEF UpdateDisputes
<1> HIDE DEF new
<1>3. CastAs(votes', votes, new, P, X)
  BY <1>2, CastFacts
<1>4. ASSUME NEW p \in P PROVE PeerVotes(p)'
  <2>1. \A t \in disputed' : votes'[t][p] = VoteOn(X, t)
    BY Zenon, <1>1, <1>2, <1>3 DEF CastAs
  <2>2. QED
    BY Zenon, <1>2, <2>1 DEF PeerVotes, Present
<1>5. ASSUME NEW p \in Peers \ P PROVE PeerVotes(p)'
  <2>1. PeerVotes(p) /\ curr'[p] = curr[p]
    OBVIOUS
  <2>2. CASE ~Present(curr, p)
    <3>1. ~Present(curr', p)
      BY <2>1, <2>2 DEF Present
    <3>2. \A t \in Txs : votes'[t][p] = votes[t][p]
      BY Zenon, <1>3, <3>1 DEF CastAs
    <3>3. QED
      BY Zenon, <2>1, <2>2, <3>1, <3>2 DEF PeerVotes, Present
  <2>3. CASE Present(curr, p) /\ curr[p].set \in acquired'
    <3>1. Present(curr', p) /\ curr[p].set \in acquired
      BY Zenon, <2>1, <2>3 DEF Present
    <3>2. ASSUME NEW t \in disputed' PROVE votes'[t][p] = VoteOn(curr[p].set, t)
      <4>1. CASE t \in new
        BY Zenon, <1>1, <1>3, <2>1, <2>3, <3>1, <4>1 DEF CastAs
      <4>2. CASE t \notin new
        <5>1. t \in disputed /\ t \in Txs
          BY <1>1, <1>2, <4>2
        <5>2. votes'[t][p] = votes[t][p]
          BY Zenon, <1>3, <4>2, <5>1 DEF CastAs
        <5>3. QED
          BY Zenon, <2>1, <2>3, <3>1, <5>1, <5>2 DEF PeerVotes
      <4>3. QED
        BY <4>1, <4>2
    <3>3. QED
      BY Zenon, <1>2, <2>1, <3>1, <3>2 DEF PeerVotes, Present
  <2>4. CASE Present(curr, p) /\ curr[p].set \notin acquired'
    BY Zenon, <2>1, <2>4 DEF PeerVotes, Present
  <2>5. QED
    BY <2>2, <2>3, <2>4
<1>6. QED
  BY SMTT(30), <1>4, <1>5

\* The votes stay right when nothing they depend on changes, or nothing is in
\* dispute yet.
LEMMA VotesKept ==
    ASSUME OurVotes, UNCHANGED <<disputes, hasResult>>, NEW p \in Peers, PeerVotes(p),
           \/ curr'[p] = curr[p] \/ Present(curr', p),
           \/ ~hasResult
           \/ Present(curr', p) /\ curr'[p].set \in acquired'
                    => curr'[p] = curr[p] /\ curr[p].set \in acquired
    PROVE  PeerVotes(p)'
<1> USE DEF PeerVotes, Present, disputes
<1>1. CASE ~hasResult
  BY <1>1 DEF OurVotes
<1>2. CASE Present(curr', p) /\ curr'[p].set \in acquired'
                    => curr'[p] = curr[p] /\ curr[p].set \in acquired
  BY <1>2
<1>3. QED
  BY Zenon, <1>1, <1>2

\* A proposal keeps the votes right, whichever way it goes.
LEMMA HearsVotes ==
    ASSUME PeerTypes, SetTypes, OurVotes, \A p \in Peers : PeerVotes(p), Hears
    PROVE  \A p \in Peers : PeerVotes(p)'
<1>1. PICK p \in Peers, q \in Proposals, fetched \in BOOLEAN : Handle(p, q, fetched)
  BY DEF Hears
<1>2. /\ UNCHANGED hasResult /\ q.set \in TxSets /\ q.seq # Absent
  BY <1>1, HandleCases, ProposalFacts DEF position
<1>3. CASE UNCHANGED <<acquired, peers, disputes>>
  BY <1>2, <1>3, VotesKept DEF peers
<1>4. CASE BowOut(p)
  <2>1. ASSUME NEW r \in Peers \ {p} PROVE PeerVotes(r)'
    <3>1. curr'[r] = curr[r] /\ \A t \in Txs : votes'[t][r] = votes[t][r]
      BY Zenon, <1>4 DEF BowOut, UnVote, PeerTypes
    <3>2. PeerVotes(r) /\ UNCHANGED <<acquired, disputed, compares, hasResult>>
      BY <1>2, <1>4 DEF BowOut
    <3>3. disputed \subseteq Txs
      BY DEF SetTypes
    <3>4. QED
      BY <3>1, <3>2, <3>3 DEF PeerVotes, Present
  <2>2. PeerVotes(p)'
    <3>1. curr'[p] = NoPosition /\ \A t \in Txs : votes'[t][p] = "none"
      BY Zenon, <1>4 DEF BowOut, UnVote, PeerTypes
    <3>2. QED
      BY Zenon, <3>1, ProposalFacts DEF PeerVotes, Present
  <2>3. QED
    BY SMTT(30), <2>1, <2>2
<1>5. CASE Adopt(p, q, fetched)
  <2>1. /\ curr'[p] = q /\ Present(curr', p)
        /\ \A r \in Peers \ {p} : curr'[r] = curr[r]
    BY <1>2, <1>5 DEF Adopt, PeerTypes, Present
  <2>2. CASE /\ q.set \notin acquired /\ hasResult /\ At(curr', q.set) # {}
             /\ acquired' = acquired \cup {q.set}
             /\ UpdateDisputes(curr', acquired', At(curr', q.set), q.set)
    <3> DEFINE P == At(curr', q.set)
    <3>1. P \subseteq Peers /\ p \in P /\ \A r \in P : Present(curr', r) /\ curr'[r].set = q.set
      BY <2>1 DEF At, Joined
    <3>2. ASSUME NEW r \in Peers \ P
          PROVE  /\ curr'[r] = curr[r]
                 /\ Present(curr, r) /\ curr[r].set \in acquired' => curr[r].set \in acquired
      BY Zenon, <2>1, <2>2, <3>1, <3>2 DEF At, Joined, Present
    <3>3. UpdateDisputes(curr', acquired', P, q.set)
      BY SMTT(30), <2>2
    <3> HIDE DEF P
    <3>4. QED
      BY Zenon, <1>2, <3>1, <3>2, <3>3, UpdateVotes
  <2>3. CASE /\ q.set \notin acquired /\ (~hasResult \/ At(curr', q.set) = {})
             /\ acquired' = acquired \cup {q.set}
             /\ UNCHANGED disputes
    <3>1. p \in At(curr', q.set)
      BY <2>1 DEF At, Joined
    <3>2. ~hasResult
      BY <2>3, <3>1
    <3>3. UNCHANGED <<disputes, hasResult>>
      BY <1>2, <2>3
    <3>4. ASSUME NEW r \in Peers PROVE PeerVotes(r)'
      <4>1. curr'[r] = curr[r] \/ Present(curr', r)
        BY Zenon, <2>1
      <4>2. QED
        BY Zenon, <3>2, <3>3, <4>1, VotesKept
    <3>5. QED
      BY Zenon, <3>4
  <2>4. CASE /\ q.set \in acquired /\ hasResult
             /\ acquired' = acquired
             /\ UpdateDisputes(curr', acquired', {p}, q.set)
    BY <1>2, <2>1, <2>4, UpdateVotes
  <2>5. CASE /\ q.set \in acquired => ~hasResult
             /\ UNCHANGED <<acquired, disputes>>
    BY Zenon, <1>2, <2>1, <2>5, VotesKept
  <2>6. QED
    BY <1>5, <2>2, <2>3, <2>4, <2>5, AdoptCases, Zenon
<1>6. QED
  BY <1>1, <1>3, <1>4, <1>5, HandleCases

\* So does every other step: sets that arrive, closing, our own changes.
LEMMA PeerVotesStep ==
    ASSUME MemoryTypes, RoundTypes, PeerTypes, SetTypes, OurVotes,
           \A p \in Peers : PeerVotes(p), [Next]_vars
    PROVE  \A p \in Peers : PeerVotes(p)'
<1>1. CASE \E X \in Offers : GotTxSet(X)
  <2>1. PICK X \in Offers : GotTxSet(X)
    BY <1>1
  <2>2. /\ UNCHANGED <<curr, hasResult>> /\ X \in TxSets /\ X \notin acquired
        /\ acquired' = acquired \cup {X}
    BY <2>1, ParmsAssumption DEF GotTxSet, SetAcquired, position, peers, TxSets
  <2>3. \A p \in Peers \ At(curr, X) :
            Present(curr, p) /\ curr[p].set \in acquired' => curr[p].set \in acquired
    BY <2>2 DEF At, Joined
  <2>4. CASE hasResult /\ At(curr, X) # {}
    <3>1. UpdateDisputes(curr', acquired', At(curr, X), X)
      BY <2>1, <2>2, <2>4 DEF GotTxSet, SetAcquired
    <3>2. /\ At(curr, X) \in SUBSET Peers
          /\ \A p \in At(curr, X) : Present(curr', p) /\ curr'[p].set = X
      BY Zenon, <2>2 DEF At, Joined
    <3>3. QED
      BY Zenon, <2>2, <2>3, <3>1, <3>2, UpdateVotes
  <2>5. CASE ~(hasResult /\ At(curr, X) # {})
    <3>1. UNCHANGED disputes
      BY SMTT(30), <2>1, <2>5 DEF GotTxSet, SetAcquired
    <3>2. QED
      BY <2>2, <2>3, <2>5, <3>1, VotesKept
  <2>6. QED
    BY <2>4, <2>5
<1>2. CASE Restarts \/ \E id \in Ledgers : LedgerChanged(id)
  <2>1. curr' = Nobody /\ votes' = NoVotes
    BY <1>2 DEF Restarts, Restart, LedgerChanged
  <2>2. QED
    BY <2>1, ProposalFacts DEF PeerVotes, Present, Nobody, NoVotes
<1>3. CASE \E X \in Offers : CloseLedger(X)
  <2>1. PICK X \in Offers : CloseLedger(X)
    BY <1>3
  <2>2. SetTypes'
    BY SetTypesStep
  <2>3. /\ UNCHANGED curr
        /\ compares' = {curr[p].set : p \in Joined(curr)} \cap acquired'
        /\ votes' = [t \in Txs |-> [p \in Peers |->
                IF t \in disputed' /\ Present(curr, p) /\ curr[p].set \in acquired'
                THEN VoteOn(curr[p].set, t) ELSE "none"]]
    BY Zenon, <2>1 DEF CloseLedger, peers
  <2>4. ASSUME NEW p \in Peers PROVE PeerVotes(p)'
    <3>1. ~Present(curr, p) => \A t \in Txs : votes'[t][p] = "none"
      BY Zenon, <2>3
    <3>2. ASSUME Present(curr, p), curr[p].set \in acquired'
          PROVE  /\ \A t \in disputed' : votes'[t][p] = VoteOn(curr[p].set, t)
                 /\ curr[p].set \in compares'
      BY Zenon, <2>2, <2>3, <3>2 DEF SetTypes, Joined
    <3>3. QED
      BY Zenon, <2>3, <3>1, <3>2 DEF PeerVotes, Present
  <2>5. QED
    BY <2>4
<1>4. CASE Updates
  <2>1. PICK stale \in SUBSET Peers, pcts \in [Txs -> Levels], refresh \in BOOLEAN,
             agreed \in BOOLEAN : UpdateOurPositions(stale, pcts, refresh, agreed)
    BY <1>4 DEF Updates
  <2> DEFINE V == UnVote(votes, stale)
             X == txns'
             adopters == IF X \in acquired THEN {} ELSE At(curr', X)
  <2>2. /\ curr' = [p \in Peers |-> IF p \in stale THEN NoPosition ELSE curr[p]]
        /\ UNCHANGED <<hasResult, disputed>>
    BY Zenon, <2>1 DEF UpdateOurPositions
  <2>3. \/ /\ adopters # {} /\ acquired' = acquired \cup {X} /\ compares' = compares \cup {X}
           /\ votes' = Cast(V, {}, curr', acquired', adopters, X)
        \/ /\ adopters = {} /\ acquired' = acquired \cup {X} /\ compares' = compares
           /\ votes' = V
        \/ UNCHANGED <<acquired, compares>> /\ votes' = V
    BY Zenon, <2>1 DEF UpdateOurPositions
  <2>4. /\ \A t \in Txs, p \in stale : V[t][p] = "none"
        /\ \A t \in Txs, p \in Peers \ stale : V[t][p] = votes[t][p]
    BY DEF UnVote
  <2>5. disputed \subseteq Txs
    BY DEF SetTypes
  <2>6. adopters \subseteq {p \in Peers : Present(curr', p) /\ curr'[p].set = X}
    BY DEF At, Joined
  <2>7. \A t \in Txs, p \in Peers \ adopters : votes'[t][p] = V[t][p]
    <3> HIDE DEF V, adopters, X
    <3>1. CASE votes' = Cast(V, {}, curr', acquired', adopters, X)
      <4>1. CastAs(votes', V, {}, adopters, X)
        BY <3>1, CastFacts
      <4>2. QED
        BY Zenon, <4>1 DEF CastAs
    <3>2. QED
      BY <2>3, <3>1
  <2>8. ASSUME NEW p \in Peers \ adopters, Present(curr', p), curr'[p].set \in acquired'
        PROVE  curr'[p].set \in acquired
    BY Zenon, <2>3, <2>8 DEF At, Joined
  <2>9. ASSUME NEW p \in adopters, curr'[p].set \in acquired'
        PROVE  /\ \A t \in disputed : votes'[t][p] = VoteOn(X, t)
               /\ X \in compares'
    <3>1. curr'[p].set = X /\ X \notin acquired /\ p \in Peers
      BY <2>6
    <3>2. compares' = compares \cup {X} /\ votes' = Cast(V, {}, curr', acquired', adopters, X)
      BY Zenon, <2>3, <2>9, <3>1
    <3> HIDE DEF V, adopters, X
    <3>3. CastAs(votes', V, {}, adopters, X)
      BY <3>2, CastFacts
    <3>4. QED
      BY Zenon, <2>5, <3>1, <3>2, <3>3 DEF CastAs
  <2> HIDE DEF V, X, adopters
  <2>10. ASSUME NEW p \in adopters PROVE PeerVotes(p)'
    BY Zenon, <2>2, <2>6, <2>9 DEF PeerVotes, Present
  <2>11. ASSUME NEW p \in Peers \ adopters PROVE PeerVotes(p)'
    <3>1. CASE p \in stale
      <4>1. curr'[p] = NoPosition /\ \A t \in Txs : votes'[t][p] = "none"
        BY <2>2, <2>4, <2>7, <3>1
      <4>2. QED
        BY Zenon, <4>1, ProposalFacts DEF PeerVotes, Present
    <3>2. CASE p \notin stale
      <4>1. curr'[p] = curr[p] /\ \A t \in Txs : votes'[t][p] = votes[t][p]
        BY Zenon, <2>2, <2>4, <2>7, <3>2
      <4>2. PeerVotes(p) /\ compares \subseteq compares'
        BY <2>3
      <4>3. QED
        BY Zenon, <2>2, <2>5, <2>8, <4>1, <4>2 DEF PeerVotes, Present
    <3>3. QED
      BY <3>1, <3>2
  <2>12. QED
    BY <2>6, <2>10, <2>11
<1>5. CASE LedgerMissing \/ AcquireFails \/ Expire \/ Quiet
           \/ \E finished \in 0..Cardinality(Peers) : Accept(finished)
  <2>1. UNCHANGED <<hasResult, disputes, curr, acquired>>
    BY <1>5 DEF LedgerMissing, AcquireFails, Expire, Accept, Accepting, Quiet, position, peers
  <2>2. QED
    BY SMTT(30), <2>1, VotesKept
<1>6. QED
  BY <1>1, <1>2, <1>3, <1>4, <1>5, HearsVotes, StepKinds

-----------------------------------------------------------------------------
(* The theorems *)

\* The inductive invariant, in the parts the lemmas are about.
LEMMA InvByPart ==
    IInv <=> /\ RoundTypes /\ PeerTypes /\ MemoryTypes /\ SetTypes /\ VoteTypes /\ StackTypes
             /\ OwnInv /\ NestInv /\ PhaseInv /\ PositionsOfThisLedger
             /\ PlayInv
             /\ OurVotes /\ CompareInv /\ \A p \in Peers : PeerVotes(p)
BY TypesByPart DEF IInv, RoundInv, DisputeInv, RoundCoherent, Coherent, OwnInv

\* The engine starts in the invariant, between two rounds.
LEMMA InitIInv == Init => IInv
<1> SUFFICES ASSUME Init PROVE IInv
  OBVIOUS
<1>1. RoundTypes /\ SetTypes /\ StackTypes
  <2>1. RoundTypes /\ SetTypes
    BY DEF Init, RoundTypes, SetTypes, TxSets
  <2>2. pc = "idle" /\ nest = 0 /\ after = "started" /\ 0 \in 0..MaxNest
    BY ParmsAssumption DEF Init
  <2>3. QED
    BY <2>1, <2>2 DEF StackTypes
<1>2. PeerTypes /\ VoteTypes
  BY DEF Init, PeerTypes, VoteTypes, Nobody, NoVotes
<1>3. MemoryTypes
  <2>1. <<>> \in Seq(Proposals) /\ Len(<<>>) = 0 /\ 0 <= RecentLimit
    BY ParmsAssumption
  <2>2. recent = [p \in Peers |-> <<>>] /\ todo = [p \in Peers |-> <<>>]
    BY DEF Init, Nothing
  <2>3. QED
    BY <2>1, <2>2 DEF MemoryTypes
<1>4. OwnInv
  <2>1. hasResult \in BOOLEAN /\ closeAgreed \in BOOLEAN
    BY Zenon DEF Init
  <2>2. /\ phase = "Accepted" /\ mode = "Observing" /\ ~hasResult
        /\ seq = 0 /\ sent = Absent
    BY DEF Init
  <2>3. 0 \in 0..Leave /\ Absent \in Absent..Leave
    BY ParmsAssumption DEF Absent, Leave
  <2>4. PositionTypes
    BY <2>1, <2>2, <2>3 DEF PositionTypes
  <2>5. QED
    BY <2>2, <2>4 DEF OwnInv, Coherent, SentInv, NoDanglingProposal
<1>5. NestInv /\ PhaseInv /\ PlayInv
  BY SMTT(30) DEF Init, NestInv, PhaseInv, PlayInv
<1>6. PositionsOfThisLedger /\ OurVotes /\ CompareInv /\ \A p \in Peers : PeerVotes(p)
  <2>1. ASSUME NEW p \in Peers PROVE ~Present(curr, p)
    BY ProposalFacts DEF Init, Nobody, Present
  <2>2. disputed = {} /\ ourVote = {} /\ compares = {}
    BY DEF Init
  <2>3. \A t \in Txs, p \in Peers : votes[t][p] = "none"
    BY DEF Init, NoVotes
  <2>4. QED
    BY Zenon, <2>1, <2>2, <2>3 DEF PositionsOfThisLedger, OurVotes, CompareInv, PeerVotes, Joined
<1>7. QED
  BY <1>1, <1>2, <1>3, <1>4, <1>5, <1>6, InvByPart

\* Every step of the engine keeps it.
LEMMA NextIInv == IInv /\ [Next]_vars => IInv'
<1> SUFFICES ASSUME IInv, [Next]_vars PROVE IInv'
  OBVIOUS
<1>1. /\ RoundTypes /\ PeerTypes /\ MemoryTypes /\ SetTypes /\ VoteTypes /\ StackTypes
      /\ OwnInv /\ NestInv /\ PhaseInv /\ PositionsOfThisLedger /\ PlayInv
      /\ OurVotes /\ CompareInv /\ \A p \in Peers : PeerVotes(p)
  BY InvByPart
<1>2. RoundTypes' /\ PeerTypes' /\ MemoryTypes' /\ SetTypes' /\ VoteTypes'
  BY SMTT(30), <1>1, RoundTypesStep, PeerTypesStep, MemoryTypesStep, SetTypesStep, VoteTypesStep
<1>3. StackTypes' /\ NestInv' /\ PhaseInv' /\ OwnInv' /\ PositionsOfThisLedger'
  BY <1>1, StackStep, OwnStep, PeersStep
<1>4. PlayInv'
  BY <1>1, <1>2, PlayInvStep
<1>5. OurVotes' /\ CompareInv' /\ \A p \in Peers : PeerVotes(p)'
  BY <1>1, OurVotesStep, PeerVotesStep
<1>6. QED
  <2>1. (/\ RoundTypes /\ PeerTypes /\ MemoryTypes /\ SetTypes /\ VoteTypes /\ StackTypes
         /\ OwnInv /\ NestInv /\ PhaseInv /\ PositionsOfThisLedger /\ PlayInv
         /\ OurVotes /\ CompareInv /\ \A p \in Peers : PeerVotes(p))' => IInv'
    BY InvByPart, PTL
  <2>2. QED
    BY <1>2, <1>3, <1>4, <1>5, <2>1

\* The invariant holds throughout, however rounds, timers and proposals interleave.
THEOREM Invariance == Spec => []IInv
<1>1. Init => IInv
  BY InitIInv
<1>2. IInv /\ [Next]_vars => IInv'
  BY NextIInv
<1>3. QED
  BY <1>1, <1>2, PTL DEF Spec

\* The round stays coherent, through timers that start rounds inside timers: the
\* result that close_ledger and phase_establish assert is there, or is not.
THEOREM RoundStaysCoherent == Spec => []RoundCoherent
<1>1. IInv => RoundCoherent
  BY DEF IInv, RoundInv
<1>2. QED
  BY <1>1, Invariance, PTL

\* What peers last heard from us is our position while we propose and a bow-out
\* once leave_consensus has run.
THEOREM NoProposalDangles == Spec => []NoDanglingProposal
<1>1. IInv => NoDanglingProposal
  BY DEF IInv, RoundInv
<1>2. QED
  BY <1>1, Invariance, PTL

\* The positions counted are positions on our previous ledger of peers that have
\* not left, across the switches of that ledger in check_ledger.
THEOREM PositionsAreCurrent == Spec => []PositionsOfThisLedger
<1>1. IInv => PositionsOfThisLedger
  BY DEF IInv, RoundInv
<1>2. QED
  BY <1>1, Invariance, PTL

\* playback_proposals leaves every peer at the latest position it took on the new
\* previous ledger, or out if it left there.
THEOREM PlaybackIsComplete == Spec => []PlaybackComplete
<1>1. IInv => PlaybackComplete
  BY SMTT(30), PlayedIsComplete, InvByPart
<1>2. QED
  BY <1>1, Invariance, PTL

\* The tallies of every DisputedTx are the votes of the peers' sets and of ours.
THEOREM VotesAreTrue == Spec => []VotesFollowPositions
<1>1. IInv => VotesFollowPositions
  <2> SUFFICES ASSUME IInv PROVE VotesFollowPositions
    OBVIOUS
  <2>1. SetTypes /\ OurVotes /\ \A p \in Peers : PeerVotes(p)
    BY SMTT(30), InvByPart
  <2>2. QED
    BY <2>1 DEF SetTypes, OurVotes, PeerVotes, VotesFollowPositions
<1>2. QED
  BY <1>1, Invariance, PTL

\* What we and a peer whose set is at hand disagree on is in dispute, whatever our
\* position was when update_disputes compared the sets.
THEOREM AllDifferencesDisputed == Spec => []DifferencesDisputed
<1>1. IInv => DifferencesDisputed
  <2> SUFFICES ASSUME IInv PROVE DifferencesDisputed
    OBVIOUS
  <2>1. CompareInv /\ \A p \in Peers : PeerVotes(p)
    BY InvByPart
  <2>2. QED
    BY <2>1 DEF CompareInv, PeerVotes, DifferencesDisputed, Joined
<1>2. QED
  BY <1>1, Invariance, PTL

\* A peer's position gives way only to one it took later, in whatever order
\* peer_proposal receives its proposals.
THEOREM PeersOnlyMoveForward == Spec => PeersMoveForward
<1> DEFINE Forward ==
      \A p \in Peers : Present(curr, p) /\ Present(curr, p)' /\ curr'[p] # curr[p]
            => curr'[p].seq > curr[p].seq
<1>1. IInv /\ [Next]_vars => Forward
  BY InvByPart, PeersStep
<1>2. QED
  BY <1>1, Invariance, PTL DEF Spec, PeersMoveForward

\* Our proposals of one round carry increasing sequence numbers and a change of
\* our set always goes out under a new one.
THEOREM OurProposalsIncrease == Spec => ProposalsIncrease
<1> DEFINE Increase ==
      /\ sent' # sent => sent' > sent \/ pc' = "play"
      /\ mode = "Proposing" /\ hasResult /\ hasResult' /\ txns' # txns => sent' > sent
<1>1. IInv /\ [Next]_vars => Increase
  BY InvByPart, OwnMoves
<1>2. QED
  BY <1>1, Invariance, PTL DEF Spec, ProposalsIncrease
=============================================================================
