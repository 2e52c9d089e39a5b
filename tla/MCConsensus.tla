---------------------------- MODULE MCConsensus ----------------------------
(* Instances of Consensus for TLC: two authorities that receive the DAG    *)
(* independently of each other, and so are interchangeable.  The DAG is    *)
(* the one given by the constants, or the one where an author lags behind, *)
(* with a garbage collection depth of one round and a schedule of leaders. *)
EXTENDS Consensus, LeaderDags

CONSTANTS m, n

VARIABLE dag

Two == {m, n}
Symmetry == Permutations(Two)

LaggingHeader  == DOMAIN Lagging9
LaggingAuthor  == AuthorOf(Lagging9)
LaggingRound   == RoundOf(Lagging9)
LaggingParents == ParentsOf(Lagging9)

SkippedHeader  == DOMAIN Skipped9
SkippedAuthor  == AuthorOf(Skipped9)
SkippedRound   == RoundOf(Skipped9)
SkippedParents == ParentsOf(Skipped9)

L == INSTANCE Consensus WITH
    Header <- LaggingHeader, author <- LaggingAuthor, round <- LaggingRound,
    parents <- LaggingParents, gc_depth <- 1, CommonCoin <- FALSE

MCInit == ProtocolInit /\ dag \in {"given", "lagging"}

(* Bound: a genesis certificate that was pruned is sent again in Bullshark  *)
(* only (in Narwhal it counts as late), and to one of the two, before the  *)
(* other one begins.                                                       *)
GenesisReturns ==
    \A x \in Node :
       Genesis \cap (state'[x].dag \ state[x].dag) # {}
          => /\ protocol = "Bullshark"
             /\ \A y \in Node \ {x} : received[y] = Genesis

MCNext ==
    /\ \/ dag = "given" /\ ProtocolNext
       \/ dag = "lagging" /\ L!ProtocolNext
    /\ GenesisReturns
    /\ UNCHANGED dag

MCSpec == MCInit /\ [][MCNext]_<<vars, protocol, dag>>

(* SupportedLeaderNotSkipped, for the DAG of the behaviour: a leader with  *)
(* f + 1 support, which some authority may have committed, is committed by *)
(* every authority that gets past its round.                               *)
LeadersKept ==
    /\ dag = "given" => SupportedLeaderNotSkipped
    /\ dag = "lagging" => L!SupportedLeaderNotSkipped
=============================================================================
