------------------------------ MODULE MahiMahi ------------------------------
(***************************************************************************)
(* The Mahi-Mahi consensus task (consensus/src/mahi_mahi.rs): a committer  *)
(* over an uncertified DAG that keeps the equivocations.  Every round has  *)
(* two leader slots.  A slot is committed or skipped directly, from the    *)
(* votes and certificates that the blocks of the next rounds imply, or     *)
(* through an anchor, a leader committed after its wave; the longest       *)
(* decided prefix of the slots is output.                                  *)
(*                                                                         *)
(* A block is delivered after its parents (Synchronizer::                  *)
(* deliver_certificate), so the history of a block in the dag is in the    *)
(* dag and the "incomplete" answers of find_support, is_certificate and    *)
(* linked do not occur.  The caches of these functions hold final answers  *)
(* only and are not modelled.  The blocks a leader outputs are sorted by   *)
(* round, origin and digest: a set of them stands for the sequence.        *)
(***************************************************************************)
EXTENDS Committee, FiniteSetsExt, SequencesExt

CONSTANTS
    Node,          \* the honest authorities whose consensus is observed
    World,         \* the DAGs that may be built: see WellFormed
    wave_length,   \* DagProtocol::mahi_mahi_wave_length: 4 or 5
    leader_of,     \* leader_of[r]: the authorities of the slots of round r
    CommonCoin     \* whether the coin needs the shares of a quorum

VARIABLES
    world,     \* the DAG of this behaviour: its blocks and their fields
    mahi,      \* the MahiCommitter of each authority
    output,    \* its output: the blocks of each leader it committed
    panicked   \* authorities whose consensus task has panicked

vars == <<world, mahi, output, panicked>>

origin(h)     == world[h].author
round_of(h)   == world[h].round
parents_of(h) == world[h].parents
digest_of(h)  == world[h].digest
Blocks        == DOMAIN world
Authors(S)    == {origin(h) : h \in S}
genesis       == {h \in Blocks : round_of(h) = 0}

LEADER_COUNT == 2

(* validate_mahi_parents and the Mahi-Mahi case of Header::verify: parents *)
(* of lower rounds only, with a quorum of authors in the previous round.   *)
validate_mahi_parents(t, h) ==
    \/ t[h].round = 0 /\ t[h].parents = {}
    \/ /\ \A p \in t[h].parents : t[p].round < t[h].round
       /\ HasQuorum({t[p].author : p \in {q \in t[h].parents :
                                            t[q].round + 1 = t[h].round}})

(* The blocks of a DAG, the genesis blocks among them, are valid, and only *)
(* Byzantine authorities sign two blocks for a round.                      *)
WellFormed(t) ==
    /\ IsFiniteSet(DOMAIN t)
    /\ \E h \in DOMAIN t : t[h].round = 0
    /\ \A h \in DOMAIN t :
          /\ t[h].author \in Authority
          /\ t[h].round \in Nat
          /\ t[h].parents \subseteq DOMAIN t
          /\ validate_mahi_parents(t, h)
          /\ \A g \in DOMAIN t \ {h} :
                /\ t[g].digest # t[h].digest
                /\ t[g].author = t[h].author /\ t[g].round = t[h].round =>
                      t[h].author \in Byzantine

(* What the theorems assume of the constants: DagProtocol has the two      *)
(* lengths of a wave.                                                      *)
MahiAssumption ==
    /\ wave_length \in {4, 5}
    /\ \A t \in World : WellFormed(t)

(* MahiCommitter::new.  Slots are numbered from 1 in the order of SlotId;  *)
(* last_decided is 0 for None.                                             *)
NewCommitter ==
    [dag |-> genesis, decisions |-> << >>, last_decided |-> 0, emitted |-> genesis]

Init ==
    /\ world \in World
    /\ mahi = [n \in Node |-> NewCommitter]
    /\ output = [n \in Node |-> <<>>]
    /\ panicked = {}

-----------------------------------------------------------------------------
(* Slots.                                                                  *)

slot_round(i) == 1 + (i - 1) \div LEADER_COUNT
authority(i) == leader_of[slot_round(i)][((i - 1) % LEADER_COUNT) + 1]
decision_round(i) == slot_round(i) + wave_length - 1
vote_round(i) == slot_round(i) + wave_length - 2

(* MahiDag::round_digests, slot_digests                                    *)
round_digests(s, r) == {h \in s.dag : round_of(h) = r}
slot_digests(s, i) ==
    {h \in round_digests(s, slot_round(i)) : origin(h) = authority(i)}

-----------------------------------------------------------------------------
(* Votes and certificates.                                                 *)

(* find_support: the block of authority a and round r that a depth-first   *)
(* search from h, over parents in the order of their digests, meets first; *)
(* none is the empty set.                                                  *)
find_support(from, a, r) ==
    LET found[h \in Blocks] ==
          IF round_of(h) <= r THEN {}
          ELSE LET hits == {<<p, IF round_of(p) = r /\ origin(p) = a THEN {p}
                                 ELSE found[p]>> : p \in parents_of(h)}
                   met == {x \in hits : x[2] # {}}
               IN UNION {x[2] : x \in {y \in met : \A z \in met :
                                         digest_of(y[1]) <= digest_of(z[1])}}
    IN found[from]

(* Mutant of is_vote: a block supports every leader block it has seen.     *)
IsVoteForAll(vote, leader) ==
    leader \in parents_of(vote) \cup UNION {parents_of(p) : p \in parents_of(vote)}

is_vote(vote, leader) ==
    find_support(vote, origin(leader), round_of(leader)) = {leader}

(* is_certificate: the direct parents in the vote round of a quorum.       *)
is_certificate(certificate, leader) ==
    HasQuorum(Authors({p \in parents_of(certificate) :
                         /\ round_of(p) + 1 = round_of(certificate)
                         /\ is_vote(p, leader)}))

(* The blocks on the paths from h that avoid the blocks of stop: what      *)
(* linked and linearize search.                                            *)
Reachable(h, stop) ==
    LET reach[r \in 0 .. round_of(h)] ==
          IF r = round_of(h) THEN {h} \ stop
          ELSE LET above == reach[r + 1]
               IN above \cup {p \in (UNION {parents_of(x) : x \in above}) \ stop :
                                round_of(p) = r}
    IN reach[0]

-----------------------------------------------------------------------------
(* LeaderDecision.                                                         *)

Commit(h) == <<"Commit", h>>
Skip      == <<"Skip">>
Undecided == <<"Undecided">>
Panic     == <<"Panic">>      \* an assertion fails

(* The candidates of slot i certified by a quorum of the decision round.   *)
Supported(s, i) ==
    {c \in slot_digests(s, i) :
       HasQuorum(Authors({d \in round_digests(s, decision_round(i)) :
                            is_certificate(d, c)}))}

(* The authors of the vote round with a block that supports no candidate.  *)
NonVoters(s, i) ==
    Authors({v \in round_digests(s, vote_round(i)) :
               find_support(v, authority(i), slot_round(i)) = {}})

(* The outcome for a slot with these certified candidates.                 *)
Outcome(certified, otherwise) ==
    IF Cardinality(certified) > 1 THEN Panic
    ELSE IF certified # {} THEN Commit(CHOOSE c \in certified : TRUE)
    ELSE otherwise

(* Mutant of direct_decision: f + 1 authors without a vote skip the slot.  *)
DirectSkipEarly(s, i) ==
    Outcome(Supported(s, i), IF HasValidity(NonVoters(s, i)) THEN Skip ELSE Undecided)

(* direct_decision                                                         *)
direct_decision(s, i) ==
    Outcome(Supported(s, i), IF HasQuorum(NonVoters(s, i)) THEN Skip ELSE Undecided)

(* decide_from_anchor                                                      *)
decide_from_anchor(s, i, anchor) ==
    LET decided == round_digests(s, decision_round(i)) \cap Reachable(anchor, {})
    IN Outcome({c \in slot_digests(s, i) : \E d \in decided : is_certificate(d, c)}, Skip)

(* The later slots that indirect_decision does not pass over.              *)
Later(i, records) ==
    {j \in DOMAIN records : slot_round(j) > decision_round(i) /\ records[j] # Skip}

(* indirect_decision: records holds the decisions on the later slots.      *)
indirect_decision(s, i, records) ==
    LET later == Later(i, records)
        first == records[Min(later)]
    IN IF later = {} THEN Undecided
       ELSE IF first \in {Undecided, Panic} THEN first
       ELSE decide_from_anchor(s, i, first[2])

-----------------------------------------------------------------------------
(* One turn of the loop of run.                                            *)

(* pending_slots: from the first undecided slot to the last whose wave has *)
(* ended, as far as the coin is known.                                     *)
pending_slots(s) ==
    LET highest == Max({round_of(h) : h \in s.dag})
        Known(i) == \/ ~CommonCoin
                    \/ HasQuorum(Authors(round_digests(s, decision_round(i))))
    IN {i \in s.last_decided + 1 .. LEADER_COUNT * (highest - (wave_length - 1)) :
          \A j \in s.last_decided + 1 .. i : Known(j)}

OrElse(decision, other) == IF decision # Undecided THEN decision ELSE other

(* The decision of try_decide on slot i, given those on the later ones.    *)
Decision(s, i, records) ==
    IF i \in DOMAIN s.decisions THEN s.decisions[i]
    ELSE OrElse(direct_decision(s, i), indirect_decision(s, i, records))

(* The loop of try_decide over the pending slots, the newest first.        *)
Records(s) ==
    LET pending == pending_slots(s)
        last == Max(pending)
        from[i \in s.last_decided + 1 .. last + 1] ==
          LET later == from[i + 1]
          IN [j \in i .. last |-> IF j = i THEN Decision(s, i, later) ELSE later[j]]
    IN IF pending = {} THEN <<>> ELSE from[s.last_decided + 1]

(* The last slot before the first undecided one.                           *)
LastDecided(s, records) ==
    Max({s.last_decided} \cup
        {i \in DOMAIN records :
           \A j \in s.last_decided + 1 .. i : records[j] # Undecided})

(* Mutant of linearize: what earlier leaders output is output again.       *)
LinearizeAll(leader, emitted) == Reachable(leader, genesis)

(* linearize                                                               *)
linearize(leader, emitted) == Reachable(leader, emitted)

(* What try_decide outputs on reaching slot i.                             *)
Emit(acc, i, records) ==
    IF records[i][1] # "Commit" THEN acc
    ELSE LET blocks == linearize(records[i][2], acc.emitted)
         IN [emitted |-> acc.emitted \cup blocks,
             output  |-> Append(acc.output, blocks)]

(* The decided slots are kept, and their prefix output.                    *)
Decide(s, out, records) ==
    LET decided == {i \in DOMAIN records : records[i] # Undecided}
        last    == LastDecided(s, records)
        acc[i \in s.last_decided .. last] ==
          IF i = s.last_decided THEN [emitted |-> s.emitted, output |-> out]
          ELSE LET before == acc[i - 1] IN Emit(before, i, records)
        end == acc[last]
    IN [panic |-> \E i \in DOMAIN records : records[i] = Panic,
        mahi |-> [s EXCEPT !.decisions = [i \in decided \cup DOMAIN @ |->
                                             IF i \in decided THEN records[i] ELSE @[i]],
                           !.last_decided = last,
                           !.emitted = end.emitted],
        output |-> end.output]

(* try_decide, and what run sends to the output.                           *)
try_decide(s, out) == Decide(s, out, Records(s))

(* The primary of n sends it block h, after the parents of h.  A block     *)
(* that is already in the dag changes nothing.                             *)
CanReceive(n, h) ==
    /\ n \notin panicked
    /\ h \notin mahi[n].dag
    /\ parents_of(h) \subseteq mahi[n].dag

Becomes(n, t) ==
    /\ panicked' = panicked \cup {m \in {n} : t.panic}
    /\ mahi' = IF t.panic THEN mahi ELSE [mahi EXCEPT ![n] = t.mahi]
    /\ output' = IF t.panic THEN output ELSE [output EXCEPT ![n] = t.output]
    /\ UNCHANGED world

(* One turn of the loop of run, for block h.                               *)
ReceiveBlock(n, h) ==
    /\ CanReceive(n, h)
    /\ Becomes(n, try_decide([mahi[n] EXCEPT !.dag = @ \cup {h}], output[n]))

Next == \E n \in Node, h \in Blocks : ReceiveBlock(n, h)

Spec == Init /\ [][Next]_vars

-----------------------------------------------------------------------------
(* Properties.  Whole is what a committer decides that looks at the whole  *)
(* DAG at once and has decided nothing before: every authority gets there. *)

Whole == try_decide([NewCommitter EXCEPT !.dag = Blocks], <<>>)

Agrees(n, whole) ==
    /\ \A i \in DOMAIN mahi[n].decisions :
          /\ i \in DOMAIN whole.mahi.decisions
          /\ mahi[n].decisions[i] = whole.mahi.decisions[i]
    /\ IsPrefix(output[n], whole.output)

(* What an authority has decided on a slot, directly or through an anchor, *)
(* from the part of the DAG it had, and has kept since, is what the whole  *)
(* DAG decides, and its output is a prefix of that of the whole DAG: two   *)
(* authorities never decide a slot differently, in whatever order they     *)
(* receive the blocks of an equivocating leader.                           *)
Agreement == \A n \in Node : Agrees(n, Whole)

(* No slot has two certified candidates ("Mahi-Mahi safety violation").    *)
NoPanic == panicked = {}

(* No block is output twice.                                               *)
OutputOnce ==
    \A n \in Node : \A i, j \in DOMAIN output[n] :
       i # j => output[n][i] \cap output[n][j] = {}
=============================================================================
