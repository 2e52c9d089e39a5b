------------------------------ MODULE Shortfin ------------------------------
(***************************************************************************)
(* The Shortfin consensus task (consensus/src/shortfin.rs), the default    *)
(* protocol of the repository: waves of four rounds whose leader, of the   *)
(* first round, is committed by a chain b3, b2, b1 of its own blocks, each *)
(* carrying the QC of the one before; with it goes every certified block   *)
(* that the frontier of the wave reaches.                                  *)
(*                                                                         *)
(* The DAG is given: Header is the set of blocks that exist, equivocations *)
(* included, and Certified those a quorum voted for, at most one per slot. *)
(* A block reaches the consensus as a structural record (empty votes) and, *)
(* once its QC and payload are known, as a certified one.  Parents may be  *)
(* of any round: a Shortfin block refers to the latest block of every      *)
(* author.  The blocks a wave outputs are sorted by round and digest, so a *)
(* wave is modelled as a set: equal sets mean equal sequences.  Signatures *)
(* and the shares of the coin are not modelled; the coin is only asked for *)
(* once a quorum of the boundary is there, and then answers leader_of.     *)
(***************************************************************************)
EXTENDS ConsensusState, Sequences

CONSTANTS
    Node,          \* the honest authorities whose consensus is observed
    Certified,     \* the blocks for which a quorum voted
    qc,            \* Header::qc: the target of the QC a header carries, if any
    voter_round,   \* the highest voter round among the votes of that QC
    digest,        \* the order of the digests of the headers
    leader_of      \* the authority the coin selects for each leader round

ASSUME ShortfinAssumption ==
    /\ Node \subseteq Honest
    /\ Certified \subseteq Header \ Genesis
    /\ \A g, h \in Certified : ~Conflicting(g, h)
    /\ qc \in [Header -> SUBSET Certified]
    /\ \A h \in Header : Cardinality(qc[h]) <= 1
    /\ \A h \in Header : \A t \in qc[h] : /\ author[t] = author[h]
                                          /\ round[t] + 1 = round[h]
    /\ voter_round \in [Header -> Nat]
    /\ digest \in [Header -> Nat]
    /\ \A g, h \in Header : g # h => digest[g] # digest[h]

VARIABLES
    state,      \* State, records and processed_boundaries of each authority
    sent,       \* the records its primary has sent it, structural or certified
    upgraded,   \* those it has sent with the votes of the QC
    sequence    \* the waves it has committed

vars == <<state, sent, upgraded, sequence>>

(* The length of a wave.                                                   *)
WAVE == 4

(* The variables of run before its loop.  certified holds the records with *)
(* a non-empty vote set.                                                   *)
NewShortfin ==
    [last_committed_round |-> NewState.last_committed_round,
     last_committed       |-> NewState.last_committed,
     dag                  |-> NewState.dag,
     records              |-> Genesis,
     certified            |-> {},
     processed_boundaries |-> {}]

Init ==
    /\ state = [n \in Node |-> NewShortfin]
    /\ sent = [n \in Node |-> {}]
    /\ upgraded = [n \in Node |-> {}]
    /\ sequence = [n \in Node |-> <<>>]

-----------------------------------------------------------------------------
(* Records.                                                                *)

(* The discard of blocks at or below the last committed of their author.   *)
Discarded(s, h) == s.last_committed[author[h]] >= round[h]

(* insert_record: every branch is kept in records, the first of a slot in  *)
(* the dag; a record gains its votes and never loses them.                 *)
insert_record(s, h, has_votes) ==
    [s EXCEPT !.records   = @ \cup {h},
              !.certified = IF has_votes THEN @ \cup {h} ELSE @,
              !.dag = IF \E g \in @ : slot(g) = slot(h) THEN @ ELSE @ \cup {h}]

records_at_round(s, r) == {h \in s.records : round[h] = r}

(* round_ended: our own block of round r and those of a quorum.            *)
round_ended(n, s, r) ==
    /\ n \in Authors(At(s, r))
    /\ HasQuorum(Authors(At(s, r)))

-----------------------------------------------------------------------------
(* The chain of the leader.                                                *)

(* Mutant of embedded_qc_links: the target of the QC is not compared.      *)
EmbeddedQcAnyTarget(child, parent, r) ==
    /\ \E t \in qc[child] : round[t] = round[parent]
    /\ round[parent] < r
    /\ voter_round[child] < r

(* Consensus::embedded_qc_links                                            *)
embedded_qc_links(child, parent, r) ==
    /\ parent \in qc[child]
    /\ round[parent] < r
    /\ voter_round[child] < r

(* The chains <<b3, b2, b1>> of the leader of boundary r.                  *)
Chains(s, r) ==
    LET of(k) == {h \in records_at_round(s, k) : author[h] = leader_of[r - 3]}
    IN {c \in of(r - 3) \X of(r - 2) \X of(r - 1) :
          /\ embedded_qc_links(c[2], c[1], r)
          /\ embedded_qc_links(c[3], c[2], r)}

(* The order in which verify_leader_chain tries them.                      *)
Before(c, d) ==
    \/ digest[c[1]] < digest[d[1]]
    \/ c[1] = d[1] /\ digest[c[2]] < digest[d[2]]
    \/ c[1] = d[1] /\ c[2] = d[2] /\ digest[c[3]] < digest[d[3]]

(* verify_leader_chain: the first chain.                                   *)
verify_leader_chain(s, r) ==
    CHOOSE c \in Chains(s, r) : \A d \in Chains(s, r) \ {c} : Before(c, d)

-----------------------------------------------------------------------------
(* The wave.                                                               *)

(* Blocks that f + 1 authors of the boundary refer to.                     *)
Anchored(s, r) ==
    {p \in s.records :
       Cardinality(Authors({h \in records_at_round(s, r) : p \in parents[h]}))
         >= validity_threshold}

(* The blocks of records that collect_wave may traverse or output.         *)
Index(s, r) == {h \in s.records : round[h] < r /\ ~Discarded(s, h)}

(* Mutant of causal_reachability: nothing below the lowest seed.           *)
ReachabilityFromLeader(s, seeds, index) ==
    LET floor == Min({round[h] : h \in seeds})
        Visited(S) == {h \in S : round[h] >= floor /\ ~Discarded(s, h)}
        reach[i \in 0 .. Cardinality(index)] ==
          IF i = 0 THEN Visited(seeds)
          ELSE LET near == reach[i - 1]
               IN near \cup Visited(index \cap UNION {parents[h] : h \in near})
    IN reach[Cardinality(index)]

(* causal_reachability: from the seeds along parents in the index, down to *)
(* 100 rounds below the lowest seed.                                       *)
causal_reachability(s, seeds, index) ==
    LET floor == Min({round[h] : h \in seeds}) - 100
        Visited(S) == {h \in S : round[h] >= floor /\ ~Discarded(s, h)}
        reach[i \in 0 .. Cardinality(index)] ==
          IF i = 0 THEN Visited(seeds)
          ELSE LET near == reach[i - 1]
               IN near \cup Visited(index \cap UNION {parents[h] : h \in near})
    IN reach[Cardinality(index)]

(* Mutant of collect_wave: only the boundary exposes QCs.                  *)
CollectBoundaryTargets(s, r, chain) ==
    LET anchored  == {h \in Anchored(s, r) : round[h] = r - 1}
        reachable == causal_reachability(s, {chain[i] : i \in 1 .. 3} \cup anchored,
                                         Index(s, r))
        targets   == UNION {qc[h] : h \in records_at_round(s, r)}
    IN {h \in Index(s, r) \cap targets \cap s.certified :
          IF round[h] = r - 1 THEN h \in anchored ELSE h \in reachable}

(* collect_wave: the certified blocks that the frontier of boundary r, the *)
(* chain of its leader and the anchored blocks of round r - 1, reaches.    *)
collect_wave(s, r, chain) ==
    LET index     == Index(s, r)
        anchored  == {h \in Anchored(s, r) : round[h] = r - 1}
        reachable == causal_reachability(s, {chain[i] : i \in 1 .. 3} \cup anchored,
                                         index)
        certified_targets == UNION {qc[h] : h \in (index \cap reachable)
                                                    \cup records_at_round(s, r)}
    IN {h \in index \cap certified_targets \cap s.certified :
          IF round[h] = r - 1 THEN h \in anchored ELSE h \in reachable}

(* The clean up after a wave.                                              *)
Retained(s, xs) ==
    LET u    == IF xs = {} THEN s ELSE update(s, xs)
        live == {h \in u.records : round[h] + gc_depth >= u.last_committed_round}
    IN [u EXCEPT !.records = live, !.certified = @ \cap live]

-----------------------------------------------------------------------------
(* One turn of the loop of run.                                            *)

(* processed_boundaries.retain at the start of the turn.                   *)
Begin(s) ==
    [s EXCEPT !.processed_boundaries =
                 {r \in @ : r + gc_depth >= s.last_committed_round}]

(* The primary of n has, or is about to get, the QC of block h: h is its   *)
(* own, or a block that carries the QC can be processed, or h is fetched   *)
(* as a missing parent from an authority that stores it with its votes.    *)
LearnsQc(n, h) ==
    \/ author[h] = n
    \/ h \notin sent[n]
    \/ \E k \in Header \ sent[n] : h \in qc[k] /\ parents[k] \subseteq sent[n] \cup Genesis

(* The primary of n may send it the record of h: after those of its        *)
(* parents and the certified record of the target of its QC, and once in   *)
(* each of the two forms (emit_shortfin_record).                           *)
CanReceive(n, h, has_votes) ==
    /\ h \notin Genesis
    /\ parents[h] \subseteq sent[n] \cup Genesis
    /\ qc[h] \subseteq upgraded[n]
    /\ IF has_votes THEN h \in Certified \ upgraded[n] /\ LearnsQc(n, h)
                    ELSE h \notin sent[n]

(* Whether boundary r is to be decided: the gate of the wave, the end of   *)
(* the round, a leader not committed yet and a chain.                      *)
Decides(n, s, r) ==
    /\ r >= WAVE /\ r % WAVE = 0
    /\ r \notin s.processed_boundaries
    /\ round_ended(n, s, r)
    /\ r - 3 > s.last_committed_round
    /\ Chains(s, r) # {}

(* The record that n receives decides boundary r.                          *)
Commit(n, s, r) ==
    LET chain == verify_leader_chain(s, r)
        t     == [s EXCEPT !.processed_boundaries = @ \cup {r}]
        xs    == collect_wave(t, r, chain)
    IN /\ state' = [state EXCEPT ![n] = Retained(t, xs)]
       /\ sequence' = [sequence EXCEPT
             ![n] = Append(@, [boundary |-> r, chain |-> chain, blocks |-> xs])]

(* One turn of the loop of run, for a record of h.                         *)
ReceiveRecord(n, h, has_votes) ==
    LET b == Begin(state[n])
        s == insert_record(b, h, has_votes)
    IN /\ CanReceive(n, h, has_votes)
       /\ sent' = [sent EXCEPT ![n] = @ \cup {h}]
       /\ upgraded' = IF has_votes THEN [upgraded EXCEPT ![n] = @ \cup {h}]
                                   ELSE upgraded
       /\ \/ Discarded(b, h) /\ state' = [state EXCEPT ![n] = b] /\ UNCHANGED sequence
          \/ /\ ~Discarded(b, h) /\ ~Decides(n, s, round[h])
             /\ state' = [state EXCEPT ![n] = s]
             /\ UNCHANGED sequence
          \/ ~Discarded(b, h) /\ Decides(n, s, round[h]) /\ Commit(n, s, round[h])

Next ==
    \E n \in Node, h \in Header, has_votes \in BOOLEAN :
       ReceiveRecord(n, h, has_votes)

Spec == Init /\ [][Next]_vars

-----------------------------------------------------------------------------
(* Properties.                                                             *)

Waves(n) == {sequence[n][i] : i \in DOMAIN sequence[n]}
Output(n) == UNION {w.blocks : w \in Waves(n)}

(* No block is output twice, although a block stays in records, and        *)
(* reachable, after its wave.                                              *)
OutputOnce ==
    \A n \in Node : \A i, j \in DOMAIN sequence[n] :
       i # j => sequence[n][i].blocks \cap sequence[n][j].blocks = {}

(* The blocks of an honest author are output in the order of their rounds  *)
(* without gaps: the discard of blocks below last_committed loses none.    *)
AuthorOrder ==
    \A n \in Node : \A i \in DOMAIN sequence[n] :
       \A h \in sequence[n][i].blocks : author[h] \in Honest =>
          \A t \in qc[h] : \E j \in 1 .. i : t \in sequence[n][j].blocks

(* The leaders that the chain of some authority may commit.                *)
CommittableLeaders ==
    {b3 \in Header :
       /\ round[b3] % WAVE = 1 /\ author[b3] = leader_of[round[b3]]
       /\ \E b2 \in Header : /\ embedded_qc_links(b2, b3, round[b3] + 3)
                            /\ \E b1 \in Header :
                                  embedded_qc_links(b1, b2, round[b3] + 3)}

(* A leader whose chain exists, so that some authority may have committed  *)
(* it, has been output by every authority that commits a later wave, the   *)
(* ones that could not verify the chain in its own wave included.          *)
LeaderNotLost ==
    \A n \in Node : \A w \in Waves(n) :
       \A l \in CommittableLeaders : round[l] + 3 < w.boundary => l \in Output(n)

(* The leader a boundary commits, and the second block of its chain, are   *)
(* the ones a quorum voted for, whatever else the leader signed: any two   *)
(* authorities that commit a boundary commit the same leader.              *)
CertifiedChain ==
    \A n \in Node : \A w \in Waves(n) : {w.chain[1], w.chain[2]} \subseteq Certified

(* All honest authorities output the same blocks in the same order         *)
(* ("guarantees that all honest nodes reproduce exactly the same           *)
(* sequence", comment of collect_wave).                                    *)
SequenceAgreement ==
    LET out(n) == [i \in DOMAIN sequence[n] |-> sequence[n][i].blocks]
    IN \A m, n \in Node :
          Len(sequence[m]) <= Len(sequence[n]) =>
             \A i \in DOMAIN sequence[m] : out(m)[i] = out(n)[i]
=============================================================================
