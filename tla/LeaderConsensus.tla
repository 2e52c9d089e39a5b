-------------------------- MODULE LeaderConsensus --------------------------
(***************************************************************************)
(* What the Narwhal and Bullshark consensus tasks have in common           *)
(* (consensus/src/lib.rs and the helpers both protocol files repeat): the  *)
(* election of leaders and the flattening of a leader's sub-dag.           *)
(*                                                                         *)
(* The DAG is given: Header is the set of certificates that exist, with    *)
(* at most one per author and round (CertifiedDag), each with the parents  *)
(* that Header::verify and process_header ask for.  Each authority         *)
(* receives them from its primary one at a time, each after its parents    *)
(* (PrimaryCore!CausalDelivery), in an order of its own, and perhaps more  *)
(* than once (process_certificate does not look for duplicates); so may    *)
(* genesis certificates, which are there from the start, come again.  The  *)
(* consensus sends nothing that changes the DAG, so authorities do not     *)
(* influence each other, and observing two of them covers every pair.      *)
(*                                                                         *)
(* order_dag sorts a sub-dag by round, and inside a round by the order of  *)
(* a depth-first search that only looks at the certificates it returns: a  *)
(* sub-dag is modelled as a set, and equal sets mean equal sequences.      *)
(***************************************************************************)
EXTENDS ConsensusState, SequencesExt

CONSTANTS
    Node,         \* the honest authorities whose consensus is observed
    leader_of,    \* the authority the coin selects for each leader round
    CommonCoin,   \* whether the coin needs the shares of a quorum
    MaxLate       \* bound: late certificates per authority, when sent again

ASSUME ConsensusAssumption ==
    /\ IsFiniteSet(Node)
    /\ CommonCoin \in BOOLEAN
    /\ MaxLate \in Nat
    /\ \A g, h \in Header : ~Conflicting(g, h)
    /\ \A h \in Header : ValidParents(h)

VARIABLES
    state,      \* the State of the consensus task of each authority
    received,   \* the genesis and the certificates its primary has sent it
    sequence,   \* its output: the leaders it committed and their sub-dags
    late,       \* the certificates that arrived below last_committed
    panicked    \* authorities whose consensus task has panicked

vars == <<state, received, sequence, late, panicked>>

Init ==
    /\ state = [n \in Node |-> NewState]
    /\ received = [n \in Node |-> Genesis]
    /\ sequence = [n \in Node |-> <<>>]
    /\ late = [n \in Node |-> {}]
    /\ panicked = {}

-----------------------------------------------------------------------------
(* The DAG in memory.                                                      *)

(* dag.entry(round).insert(origin, ...): the newest of a slot is kept.     *)
Insert(s, h) ==
    [s EXCEPT !.dag = {g \in @ : slot(g) # slot(h)} \cup {h}]

-----------------------------------------------------------------------------
(* Leaders.                                                                *)

(* Consensus::leader: the certificate of the leader of round r, if the     *)
(* coin is known and the certificate is there.                             *)
leader(s, r, coin_round) ==
    IF CommonCoin /\ ~HasQuorum(Authors(At(s, coin_round))) THEN {}
    ELSE {h \in At(s, r) : author[h] = leader_of[r]}

(* The stake of the certificates of round r that name h as a parent.       *)
Support(s, h, r) == Weight[Authors({x \in At(s, r) : h \in parents[x]})]

(* linked: a path from certificate l down to certificate p                 *)
linked(s, l, p) ==
    LET reach[r \in round[p] .. round[l]] ==
          IF r = round[l] THEN {l}
          ELSE {x \in At(s, r) : \E y \in reach[r + 1] : x \in parents[y]}
    IN p \in reach[round[p]]

-----------------------------------------------------------------------------
(* Sub-dags.                                                               *)

(* Mutant of Flatten: every certificate not yet committed below the leader *)
(* is taken, whether the leader has a path to it or not.                   *)
FlattenWholeRounds(s, l) ==
    {l} \cup {x \in s.dag : /\ round[x] < round[l]
                            /\ s.last_committed[author[x]] < round[x]}

(* The search of order_dag: the ancestors of l that are in the dag and on  *)
(* a path that avoids the last committed certificate of every authority.   *)
Flatten(s, l) ==
    LET level[r \in 0 .. round[l]] ==
          IF r = round[l] THEN {l}
          ELSE {x \in At(s, r) : /\ \E y \in level[r + 1] : x \in parents[y]
                                 /\ s.last_committed[author[x]] # r}
    IN UNION {level[r] : r \in 0 .. round[l]}

-----------------------------------------------------------------------------
(* What the two order_leaders share.  Past leaders are looked at from the  *)
(* newest to the oldest; one that the last leader kept has a path to is    *)
(* kept in turn.                                                           *)

(* Mutant of Chain: `current` is not updated.                              *)
ChainFromLast(s, l, past) ==
    LET keep[r \in s.last_committed_round .. round[l]] ==
          IF r = round[l] THEN <<l>>
          ELSE SetToSeq({p \in past : round[p] = r /\ linked(s, l, p)})
                 \o keep[r + 1]
    IN keep[s.last_committed_round]

(* The leaders to commit with l, oldest first, given the leaders of past   *)
(* rounds (at most one per round).                                         *)
Chain(s, l, past) ==
    LET keep[r \in s.last_committed_round .. round[l]] ==
          IF r = round[l] THEN <<l>>
          ELSE SetToSeq({p \in past : /\ round[p] = r
                                      /\ linked(s, Head(keep[r + 1]), p)})
                 \o keep[r + 1]
    IN keep[s.last_committed_round]

(* Mutant of PastRounds: the newest past leader is not looked at.          *)
PastRoundsOffByOne(s, l) ==
    {r \in s.last_committed_round + 2 .. round[l] - 3 : (round[l] - r) % 2 = 0}

(* The rounds whose leaders order_leaders looks at.                        *)
PastRounds(s, l) ==
    {r \in s.last_committed_round + 2 .. round[l] - 2 : (round[l] - r) % 2 = 0}

(* linked expects every round between two leaders it compares.             *)
MissingHistory(s, l, past) ==
    \E p \in past : \E r \in round[p] .. round[l] - 1 : At(s, r) = {}

-----------------------------------------------------------------------------
(* The turns of the loop of run.                                           *)

(* h is older than what the authority has committed of its author.         *)
BelowCommitted(n, h) == round[h] < state[n].last_committed[author[h]]

(* Mutant of CanReceive: the primary does not wait for the parents.        *)
CanReceiveEarly(n, h) == n \notin panicked /\ h \notin received[n]

(* The primary of n may send it certificate h.                             *)
CanReceive(n, h) ==
    /\ n \notin panicked
    /\ parents[h] \subseteq received[n]
    /\ h \in received[n] /\ BelowCommitted(n, h) => Cardinality(late[n]) < MaxLate

(* What every delivery of h to n records.                                  *)
Receives(n, h, is_late) ==
    /\ received' = [received EXCEPT ![n] = @ \cup {h}]
    /\ late' = IF is_late THEN [late EXCEPT ![n] = @ \cup {h}] ELSE late

(* The certificate just inserted into s commits nothing.                   *)
Inserts(n, s) ==
    /\ state' = [state EXCEPT ![n] = s]
    /\ UNCHANGED <<sequence, panicked>>

(* An expect of the code fails, in state s.                                *)
PanicsIn(n, s) ==
    /\ panicked' = panicked \cup {n}
    /\ state' = [state EXCEPT ![n] = s]
    /\ UNCHANGED sequence

(* Authority n has committed leaders: acc holds its state and its output   *)
(* after the last of them.                                                 *)
CommitsAll(n, acc) ==
    /\ state' = [state EXCEPT ![n] = acc.state]
    /\ sequence' = [sequence EXCEPT ![n] = acc.output]
    /\ UNCHANGED panicked

-----------------------------------------------------------------------------
(* Properties.                                                             *)

leaders(n) == [i \in DOMAIN sequence[n] |-> sequence[n][i].leader]

(* Authorities commit the same leaders in the same order, whatever the     *)
(* order in which each of them saw the DAG.                                *)
LeaderAgreement ==
    \A m, n \in Node :
       IsPrefix(leaders(m), leaders(n)) \/ IsPrefix(leaders(n), leaders(m))

(* They also output the same certificates in the same order, as long as    *)
(* none of them receives a certificate that others may have pruned before  *)
(* it is ordered: order_dag skips a certificate only when its round is     *)
(* equal to last_committed, so a late one is output.                       *)
SequenceAgreement ==
    \A m, n \in Node :
       late[m] = {} /\ late[n] = {} =>
          IsPrefix(sequence[m], sequence[n]) \/ IsPrefix(sequence[n], sequence[m])

(* A leader that f + 1 certificates of the DAG support is jumped over by   *)
(* no authority, whichever of them it has received when it commits a later *)
(* leader.                                                                 *)
SupportedLeaderNotSkipped ==
    \A n \in Node : \A h \in Header :
       /\ round[h] > 0 /\ round[h] % 2 = 0
       /\ author[h] = leader_of[round[h]]
       /\ HasValidity(Authors({x \in Header : h \in parents[x]}))
       /\ round[h] <= state[n].last_committed_round
       => h \in ToSet(leaders(n))

(* The consensus never misses a round it needs ("We should have the whole  *)
(* history by now").                                                       *)
WholeHistory == panicked = {}

(* A certificate is output once, as long as it is not sent again after a   *)
(* later one of its author was committed: garbage collection never makes   *)
(* an authority forget what it has output.                                 *)
OutputOnce ==
    \A n \in Node : \A i, j \in DOMAIN sequence[n] :
       i # j => sequence[n][i].certificates \cap sequence[n][j].certificates
                  \subseteq late[n]

(* No certificate is output twice (State::last_committed, "ensure we don't *)
(* commit twice the same certificate").                                    *)
NoDoubleCommit ==
    \A n \in Node : \A i, j \in DOMAIN sequence[n] :
       i # j => sequence[n][i].certificates \cap sequence[n][j].certificates = {}
=============================================================================
