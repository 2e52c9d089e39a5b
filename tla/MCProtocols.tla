---------------------------- MODULE MCProtocols ----------------------------
(* What the DagProtocols other than Narwhal and Wahoo add, for TLC: a      *)
(* behaviour runs the consensus of Shortfin, that of Mahi-Mahi, or the     *)
(* proposer of Bullshark.  The instances are those of the modules that     *)
(* prove theorems about the two components, so that the theorems hold of   *)
(* them; ProtocolsProofs draws the conclusions.                            *)
EXTENDS MCShortfin, MahiDags

VARIABLES
    protocol,                       \* DagProtocol
    world, mahi, output, panicked,  \* of MahiMahi
    delivered, aggregators, consensus_round, gc_round, signals, proposer,
    made                            \* of BullsharkProposer

M == INSTANCE MahiProofs WITH
        World <- MahiWorld, wave_length <- 4, leader_of <- MahiLeaderOf,
        CommonCoin <- TRUE

ASSUME WorldsWellFormed == M!MahiAssumption

SomeWorld == CHOOSE t \in MahiWorld : TRUE

(* a, b and c have 1, 2 and 1 of the stake: a quorum is b and one of the   *)
(* others, so that a round may pass without the leader c or without a, and *)
(* a third certificate follows the quorum.  The total is that of the other *)
(* instances, as TLC keeps constants such as quorum_threshold between them.*)
Three == {"a", "b", "c"}
ThreeStake == [X \in SUBSET Three |-> Cardinality(X) + Cardinality(X \cap {"b"})]

ASSUME SameTotal == ThreeStake[Three] = total_votes

P == INSTANCE BullsharkProofs WITH
        Authority <- Three, Byzantine <- {"c"}, Weight <- ThreeStake, name <- "a",
        leader_of <- [r \in {0, 2, 4} |-> "c"], gc_depth <- 1, MaxRound <- 4

mahi_vars == <<world, mahi, output, panicked>>
bullshark_vars == <<delivered, aggregators, consensus_round, gc_round, signals,
                    proposer, made>>

MCInit ==
    /\ protocol \in {"Shortfin", "MahiMahi", "Bullshark"}
    /\ Init
    /\ M!Init
    /\ P!Init
    /\ protocol # "MahiMahi" => world = SomeWorld

MCNext ==
    \/ protocol = "Shortfin" /\ Next /\ UNCHANGED <<protocol, mahi_vars, bullshark_vars>>
    \/ protocol = "MahiMahi" /\ M!Next /\ UNCHANGED <<protocol, vars, bullshark_vars>>
    \/ protocol = "Bullshark" /\ P!Next /\ UNCHANGED <<protocol, vars, mahi_vars>>

MCSpec == MCInit /\ [][MCNext]_<<protocol, vars, mahi_vars, bullshark_vars>>

(* Whatever order the blocks arrive in, equivocations included, Mahi-Mahi  *)
(* decides every slot as the whole DAG does: see MahiMahi.                 *)
MahiAgreement == protocol = "MahiMahi" => M!Agreement

(* No slot of Mahi-Mahi ever has two certified candidates, the case in     *)
(* which the committer panics with "Mahi-Mahi safety violation".           *)
MahiNoPanic == M!NoPanic

(* Neither protocol outputs a block twice, although the histories of the   *)
(* leaders it commits overlap.                                             *)
UncertifiedOutputOnce == OutputOnce /\ M!OutputOnce

(* In Bullshark mode every header has a quorum of parents and the leader,  *)
(* or the votes, it had to wait for: see BullsharkProposer.                *)
BullsharkProposals == P!BullsharkProposals
=============================================================================
