------------------------- MODULE BullsharkProposer -------------------------
(***************************************************************************)
(* The proposer in Bullshark mode (primary/src/proposer.rs) with the part  *)
(* of its Core that feeds it: the CertificatesVecAggregator of each round  *)
(* (primary/src/aggregators.rs), which is not reset at a quorum, so that   *)
(* every certificate after the quorum sends a signal of its own.           *)
(*                                                                         *)
(* One authority is modelled, and the certificates its Core processes: one *)
(* per author and round, after its parents (PrimaryCore, CausalDelivery).  *)
(* A certificate of an odd round has or has not the leader of the round    *)
(* before among its parents: the other parents do not matter here.  The    *)
(* leaders follow a schedule; with the common coin the leader is known     *)
(* when the parents are a quorum, which they are whenever there are any.   *)
(***************************************************************************)
EXTENDS Committee, Sequences

CONSTANTS
    name,        \* the authority
    leader_of,   \* the leaders of the even rounds
    gc_depth,
    MaxRound     \* bound: the last round that is proposed

VARIABLES
    delivered,         \* the certificates the Core has processed
    aggregators,       \* certificates_vec_aggregators, by round
    consensus_round,   \* the highest round committed
    gc_round,
    signals,           \* the channel from the Core: ProposerSignal
    proposer,          \* the Proposer
    made               \* the headers it has made

vars == <<delivered, aggregators, consensus_round, gc_round, signals, proposer, made>>

Odd(r) == r % 2 = 1

Rounds == 1 .. MaxRound - 1

Origins(S) == {c.origin : c \in S}
AtRound(r) == {c \in delivered : c.round = r}

(* Certificate::genesis                                                    *)
genesis(committee) == [origin : committee, round : {0}, votes : {FALSE}]

(* CertificatesVecAggregator::new                                          *)
EmptyAggregator == [used |-> {}, certificates |-> {}]

(* Proposer::spawn: Bullshark starts in round 0, on the genesis. none or   *)
(* one certificate is last_leader.                                         *)
Init ==
    /\ delivered = genesis(Authority)
    /\ aggregators = [r \in Rounds |-> EmptyAggregator]
    /\ consensus_round = 0
    /\ gc_round = 0
    /\ signals = <<>>
    /\ proposer = [round |-> 0, last_parent_certs |-> genesis(Authority),
                   last_leader |-> {}, advance |-> TRUE]
    /\ made = <<>>

-----------------------------------------------------------------------------
(* The Core.                                                               *)

(* CertificatesVecAggregator::append: parents are those of the signal.     *)
append(a, c) ==
    LET used == a.used \cup {c.origin}
        certificates == a.certificates \cup {c}
    IN IF c.origin \in a.used THEN [aggregator |-> a, parents |-> {}]
       ELSE IF HasQuorum(used)
       THEN [aggregator |-> [used |-> used, certificates |-> {}], parents |-> certificates]
       ELSE [aggregator |-> [used |-> used, certificates |-> certificates], parents |-> {}]

(* The headers of the other authorities: their parents are a quorum that   *)
(* was processed before, with the leader or without.                       *)
Voted(c) ==
    LET before == AtRound(c.round - 1)
        leader == {p \in before : p.origin = leader_of[c.round - 1]}
    IN IF c.votes THEN leader # {} ELSE HasQuorum(Origins(before \ leader))

(* The certificates that may be processed: again, or for the first time.   *)
CanProcess(c) ==
    \/ c \in delivered
    \/ /\ c.origin \notin Origins(AtRound(c.round))
       /\ HasQuorum(Origins(AtRound(c.round - 1)))
       /\ IF Odd(c.round) /\ c.round > 1 THEN Voted(c) ELSE ~c.votes
       /\ c.origin = name =>
             \E i \in DOMAIN made :
                /\ made[i].round = c.round
                /\ Odd(c.round) /\ c.round > 1 =>
                      c.votes = (leader_of[c.round - 1] \in Origins(made[i].parents))

(* process_certificate in Bullshark mode, and the clean up of run.         *)
ProcessCertificate(c) ==
    LET result == append(aggregators[c.round], c)
        gc == IF consensus_round > gc_depth THEN consensus_round - gc_depth ELSE gc_round
    IN /\ CanProcess(c)
       /\ delivered' = delivered \cup {c}
       /\ signals' = IF result.parents = {} THEN signals
                     ELSE Append(signals, [round |-> c.round,
                                           certificates |-> result.parents])
       /\ aggregators' = [r \in Rounds |->
                            IF r < gc THEN EmptyAggregator
                            ELSE IF r = c.round THEN result.aggregator
                            ELSE aggregators[r]]
       /\ gc_round' = gc
       /\ UNCHANGED <<consensus_round, proposer, made>>

(* GarbageCollector: the consensus commits a certificate it was sent.      *)
AdvanceConsensus(r) ==
    /\ r > consensus_round /\ AtRound(r) # {}
    /\ consensus_round' = r
    /\ UNCHANGED <<delivered, aggregators, gc_round, signals, proposer, made>>

-----------------------------------------------------------------------------
(* The proposer.                                                           *)

Leader(s) == {c \in s.last_parent_certs : c.origin = leader_of[s.round]}

(* enough_votes                                                            *)
enough_votes(s) ==
    LET votes == {c \in s.last_parent_certs :
                    c.votes /\ \E l \in s.last_leader : l.round = c.round - 1}
    IN \/ s.last_leader = {}
       \/ HasQuorum(Origins(votes))
       \/ HasValidity(Origins(s.last_parent_certs \ votes))

(* Mutant of Advanced: the last leader is forgotten only when there is a   *)
(* new one.                                                                *)
AdvancedKeepingLeader(s) ==
    IF Odd(s.round) THEN [s EXCEPT !.advance = enough_votes(s)]
    ELSE [s EXCEPT !.last_leader = IF Leader(s) = {} THEN @ ELSE Leader(s),
                   !.advance = @ \/ Leader(s) # {}]

(* update_leader in even rounds, enough_votes in odd ones.                 *)
Advanced(s) ==
    IF Odd(s.round) THEN [s EXCEPT !.advance = enough_votes(s)]
    ELSE [s EXCEPT !.last_leader = Leader(s), !.advance = Leader(s) # {}]

(* A signal for the round of the proposer extends the parents, one for a   *)
(* later round replaces them.                                              *)
ReceiveSignal ==
    LET signal == Head(signals)
        moved == [proposer EXCEPT !.round = signal.round,
                                  !.last_parent_certs = signal.certificates]
        extended == [proposer EXCEPT !.last_parent_certs = @ \cup signal.certificates]
    IN /\ signals # <<>>
       /\ signals' = Tail(signals)
       /\ proposer' = Advanced(IF signal.round > proposer.round THEN moved
                               ELSE IF signal.round = proposer.round THEN extended
                               ELSE proposer)
       /\ UNCHANGED <<delivered, aggregators, consensus_round, gc_round, made>>

(* The timer has expired, or there is enough payload and we may advance.   *)
MakeHeader(timer) ==
    /\ proposer.last_parent_certs # {}
    /\ timer \/ proposer.advance
    /\ proposer.round < MaxRound
    /\ made' = Append(made, [round |-> proposer.round + 1, timer |-> timer,
                             parents |-> proposer.last_parent_certs])
    /\ proposer' = [proposer EXCEPT !.round = @ + 1, !.last_parent_certs = {}]
    /\ UNCHANGED <<delivered, aggregators, consensus_round, gc_round, signals>>

Certificate == [origin : Authority, round : Rounds, votes : BOOLEAN]

Next ==
    \/ \E c \in Certificate : ProcessCertificate(c)
    \/ \E r \in Rounds : AdvanceConsensus(r)
    \/ ReceiveSignal
    \/ \E timer \in BOOLEAN : MakeHeader(timer)

Spec == Init /\ [][Next]_vars

-----------------------------------------------------------------------------
(* Properties.                                                             *)

(* Every header rests on a quorum of the round before it, of certificates  *)
(* that are stored, and no round is proposed in twice, although signals    *)
(* with single certificates follow the quorum and come late.               *)
QuorumParents ==
    \A i \in DOMAIN made :
       /\ \A c \in made[i].parents : c.round + 1 = made[i].round /\ c \in delivered
       /\ HasQuorum(Origins(made[i].parents))
       /\ \A j \in 1 .. i - 1 : made[j].round < made[i].round

(* A header that did not wait for the timer waited for the leader of an    *)
(* even round; and in an odd round, if the header before had the leader as *)
(* a parent, for a quorum of votes for the leader or f + 1 against it.     *)
LeaderAwaited ==
    \A i \in DOMAIN made :
       LET h == made[i]
       IN ~h.timer /\ h.round > 2 =>
            IF Odd(h.round)
            THEN leader_of[h.round - 1] \in Origins(h.parents)
            ELSE \A j \in DOMAIN made :
                   /\ made[j].round = h.round - 1
                   /\ leader_of[h.round - 2] \in Origins(made[j].parents)
                   => \/ HasQuorum(Origins({c \in h.parents : c.votes}))
                      \/ HasValidity(Origins({c \in h.parents : ~c.votes}))

(* The parents are never extended by a certificate they hold already, as   *)
(* aggregators that were collected and start again would make them: stake  *)
(* would be counted twice.                                                 *)
ExtendedOnce ==
    signals # <<>> /\ Head(signals).round = proposer.round =>
       Head(signals).certificates \cap proposer.last_parent_certs = {}

(* The proposer never signs a header that lacks a quorum of parents, that  *)
(* repeats a round or that overtakes the leader or its votes, whatever     *)
(* signals are replaced, extended or dropped in between.                   *)
BullsharkProposals == QuorumParents /\ LeaderAwaited /\ ExtendedOnce
=============================================================================
