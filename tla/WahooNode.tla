----------------------------- MODULE WahooNode -----------------------------
(***************************************************************************)
(* The Wahoo node (primary/src/wahoo/node.rs): its dag, its rounds, the    *)
(* election of the leaders of odd rounds and the commit of their blocks.   *)
(*                                                                         *)
(* The broadcasts of WahooBroadcast are used through what they promise: a  *)
(* slot <<author, round>> has one block, whose author makes a certificate  *)
(* of it that delivers it to everybody.  An odd block needs a quorum whose *)
(* dags hold its parents, an even one any quorum.  The proposals and the   *)
(* votes are not messages here: a certificate may take any time to form.   *)
(*                                                                         *)
(* A certificate or Elect goes to all the others, and those of a sender    *)
(* arrive in the order it sent them (ReliableSender).  The Done that an    *)
(* author sends after the certificate of its odd block finds everything    *)
(* done and is left out, and so are RECP and the leader links, which the   *)
(* commit rule does not read.  Every authority follows the code here, but  *)
(* fewer than f + 1 of them may stop, each at any moment.                  *)
(***************************************************************************)
EXTENDS Committee, FiniteSets, SequencesExt

CONSTANTS
    MaxRound,   \* bound: no authority enters a later round
    Coin        \* the leaders the coin may elect

VARIABLES
    state,      \* the Node of each authority
    parents,    \* the parents of the block of each slot that was broadcast
    sent,       \* the certificates and Elects each authority has sent
    received,   \* received[n][m]: how many of those of m have reached n
    coin,       \* the leader of each odd round in this behaviour
    stopped     \* the authorities that have crashed

node_vars == <<state, parents, sent, received, coin, stopped>>

Odd(r)  == r % 2 = 1
Even(r) == r % 2 = 0

ASSUME WahooAssumption ==
    /\ IsFiniteSet(Authority)
    /\ MaxRound \in Nat \ {0}
    /\ Coin \subseteq [{r \in 1 .. MaxRound : Odd(r)} -> Authority]

author(h) == h[1]
round(h)  == h[2]
Leader(r) == <<coin[r], r>>

node_num   == Cardinality(Authority)
quorum_num == (2 * node_num + 2) \div 3

(* Node::new.  done holds the odd blocks delivered, elect the senders of   *)
(* the Elects of a round, leader the rounds whose leader is elected, chain *)
(* the committed blocks; committed lists the leaders and output the levels *)
(* of blocks sent to tx_committed.                                         *)
NewNode ==
    [round |-> 1, dag |-> {}, pending_blocks |-> {}, done |-> {},
     elect |-> [r \in 1 .. MaxRound |-> {}], leader |-> {},
     chain_round |-> 0, chain |-> {}, committed |-> <<>>, output |-> <<>>]

(* Every authority has started, and broadcast its block of round 1.        *)
NodeInit ==
    /\ state = [n \in Authority |-> NewNode]
    /\ parents = [h \in Authority \X {1} |-> {}]
    /\ sent = [n \in Authority |-> <<>>]
    /\ received = [n \in Authority |-> [m \in Authority |-> 0]]
    /\ coin \in Coin
    /\ stopped = {}

(* The handlers are compositions of steps on w, the state of authority n   *)
(* with the blocks broadcast and what n has sent.                          *)
NodeWorld(n) == [s |-> state[n], parents |-> parents, sent |-> sent[n]]

(* select_previous_blocks                                                  *)
Level(s, r) == {h \in s.dag : round(h) = r}

(* Mutant of check_whether_can_add_to_dag: parents are not looked up.      *)
CanAddAnything(w, h) == TRUE

(* check_whether_can_add_to_dag                                            *)
check_whether_can_add_to_dag(w, h) ==
    IF w.parents[h] = {} THEN Level(w.s, round(h) - 1) = {}
    ELSE /\ w.parents[h] \subseteq w.s.dag
         /\ \A p \in w.parents[h] : round(p) = round(h) - 1

-----------------------------------------------------------------------------
(* The commit pipeline.                                                    *)

(* The levels of the walk from h that skips the blocks of stop.            *)
Walk(w, h, stop) ==
    LET level[r \in 0 .. round(h)] ==
          IF r = round(h) THEN {h}
          ELSE LET above == level[r + 1]
               IN ((UNION {w.parents[x] : x \in above}) \cap w.s.dag) \ stop
    IN level

(* commit_ancestor_blocks: what it sends, for leader block h in the chain, *)
(* from h down.  Of an empty level it sends nothing.                       *)
commit_ancestor_blocks(w, h) ==
    LET level == Walk(w, h, w.s.chain) IN [i \in 1 .. round(h) |-> level[round(h) - i]]

(* Leader block h and its ancestors join the chain and the output.         *)
CommitLeader(w, h, direct) ==
    LET s == [w.s EXCEPT !.chain = @ \cup {h}, !.chain_round = round(h)]
        levels == commit_ancestor_blocks([w EXCEPT !.s = s], h)
        output == IF direct THEN levels \o <<{h}>> ELSE <<{h}>> \o levels
        after == [s EXCEPT !.chain = @ \cup UNION {levels[i] : i \in DOMAIN levels},
                           !.committed = Append(@, h), !.output = @ \o output]
    IN [w EXCEPT !.s = after]

(* find_valid_leader: the rounds of the elected leaders in the history of  *)
(* h, down to the round of the chain.                                      *)
find_valid_leader(w, h) ==
    LET level == Walk(w, h, {})
    IN {r \in w.s.chain_round + 1 .. round(h) :
          Odd(r) /\ r \in w.s.leader /\ Leader(r) \in level[r]}

(* Mutant of try_to_commit_ancestor_leader: earlier leaders are ancestors. *)
CommitNoAncestorLeader(w, h) == w

(* try_to_commit_ancestor_leader, after each round in ascending order.     *)
AfterAncestors(w, h) ==
    LET valid == find_valid_leader(w, h)
        after[r \in 0 .. round(h) - 1] ==
          IF r = 0 THEN w
          ELSE IF r \in valid THEN CommitLeader(after[r - 1], Leader(r), FALSE)
          ELSE after[r - 1]
    IN after

try_to_commit_ancestor_leader(w, h) ==
    IF round(h) - 2 <= w.s.chain_round THEN w ELSE AfterAncestors(w, h)[round(h) - 1]

(* try_to_commit_leader: the leader is elected, delivered and in the dag.  *)
try_to_commit_leader(w, r) ==
    IF /\ r > w.s.chain_round
       /\ r \in w.s.leader
       /\ Leader(r) \in w.s.done \cap w.s.dag
    THEN CommitLeader(try_to_commit_ancestor_leader(w, Leader(r)), Leader(r), TRUE)
    ELSE w

-----------------------------------------------------------------------------
(* Election and rounds.                                                    *)

(* handle_elect, with store_elect and try_to_elect_leader.                 *)
handle_elect(w, m, r) ==
    LET stored == [w EXCEPT !.s.elect[r] = @ \cup {m}]
    IN IF \/ r - 1 \in w.s.leader
          \/ Cardinality(stored.s.elect[r]) < quorum_num
       THEN stored
       ELSE try_to_commit_leader([stored EXCEPT !.s.leader = @ \cup {r - 1}], r - 1)

(* broadcast_elect                                                         *)
broadcast_elect(w, n, r) ==
    LET handled == handle_elect(w, n, r)
    IN [handled EXCEPT !.sent = Append(@, <<"Elect", r>>)]

(* broadcast_block                                                         *)
broadcast_block(w, n, r) ==
    LET slot == <<n, r>>
        blocks == [x \in {slot} \cup DOMAIN w.parents |->
                     IF x = slot THEN Level(w.s, r - 1) ELSE w.parents[x]]
        block == [w EXCEPT !.parents = blocks]
    IN IF Even(r) THEN broadcast_elect(block, n, r) ELSE block

(* move_round: Dones in odd rounds, blocks of the dag in even ones.        *)
MoveRound(s, r) ==
    Cardinality(IF Odd(r) THEN {h \in s.done : round(h) = r} ELSE Level(s, r))

(* try_to_next_round calls itself: what it leaves after each round.        *)
AfterRounds(w, n) ==
    LET after[r \in w.s.round - 1 .. MaxRound - 1] ==
          IF r = w.s.round - 1 THEN w
          ELSE LET u == after[r - 1]
               IN IF u.s.round # r \/ MoveRound(u.s, r) < quorum_num THEN u
                  ELSE broadcast_block([u EXCEPT !.s.round = r + 1], n, r + 1)
    IN after

try_to_next_round(w, n, r) ==
    IF r # w.s.round THEN w ELSE AfterRounds(w, n)[MaxRound - 1]

-----------------------------------------------------------------------------
(* The dag.  try_to_update_dag and try_to_update_dag_from_pending call     *)
(* each other: c holds a world and the blocks they have still to be called *)
(* for, the next one first.  A block waits in pending_blocks until it is   *)
(* added, and order is that of the iteration over pending_blocks.          *)

(* Mutant of FromPending: what waited for this block is left waiting.      *)
FromPendingNothing(r, order) == <<>>

(* try_to_update_dag_from_pending                                          *)
FromPending(r, order) == [i \in DOMAIN order |-> <<order[i], r>>]

AddToDag(w, n, h) ==
    LET s == [w.s EXCEPT !.dag = @ \cup {h}, !.pending_blocks = @ \ {h}]
        added == [w EXCEPT !.s = s]
    IN IF Even(round(h)) THEN try_to_next_round(added, n, round(h))
       ELSE try_to_commit_leader(added, round(h))

NextCall(c, n, order) ==
    LET h == Head(c.calls)
    IN IF c.calls = <<>> THEN c
       ELSE IF h \in c.w.s.pending_blocks /\ check_whether_can_add_to_dag(c.w, h)
       THEN [w |-> AddToDag(c.w, n, h),
             calls |-> FromPending(round(h) + 1, order) \o Tail(c.calls)]
       ELSE [c EXCEPT !.calls = Tail(@)]

(* A block that is added leads to a call for each block of order at most,  *)
(* and those that can be added are h and the pending ones.                 *)
AfterCalls(w, n, h, order) ==
    LET waiting == [w EXCEPT !.s.pending_blocks = @ \cup {h}]
        size == Cardinality(waiting.s.pending_blocks)
        after[i \in 0 .. size * size] ==
          IF i = 0 THEN [w |-> waiting, calls |-> <<h>>]
          ELSE NextCall(after[i - 1], n, order)
    IN after

(* try_to_update_dag                                                       *)
try_to_update_dag(w, n, h, order) ==
    LET size == Cardinality(w.s.pending_blocks \cup {h})
    IN AfterCalls(w, n, h, order)[size * size].w

(* handle_done, with store_done.                                           *)
handle_done(w, n, h) ==
    LET stored == [w EXCEPT !.s.done = @ \cup {h}]
    IN try_to_commit_leader(try_to_next_round(stored, n, round(h)), round(h))

(* handle_epbc_certificate for Ts2 and Tf, and handle_pb_output.           *)
handle_delivered(w, n, h, order) ==
    LET updated == try_to_update_dag(w, n, h, order)
    IN IF Odd(round(h)) THEN handle_done(updated, n, h) ELSE updated

-----------------------------------------------------------------------------
(* Actions.                                                                *)

NodeBecomes(n, w) ==
    /\ state' = [state EXCEPT ![n] = w.s]
    /\ parents' = w.parents
    /\ sent' = [sent EXCEPT ![n] = w.sent]
    /\ UNCHANGED <<coin, stopped>>

Orders(n) == SetToSeqs({author(h) : h \in state[n].pending_blocks})

(* The authorities that vote for block h, sooner or later.                 *)
VotersFor(h) ==
    {n \in Authority : Odd(round(h)) =>
                          check_whether_can_add_to_dag(NodeWorld(n), h) \/ h \in state[n].dag}

(* The votes for block h make a certificate: its author n sends it to the  *)
(* others and handles it.                                                  *)
CanCertify(n, h) ==
    /\ n \notin stopped
    /\ h \in DOMAIN parents /\ author(h) = n
    /\ <<"Certificate", round(h)>> \notin Range(sent[n])
    /\ HasQuorum(VotersFor(h))

Certify(n, h) ==
    /\ CanCertify(n, h)
    /\ LET w == [NodeWorld(n) EXCEPT !.sent = Append(@, <<"Certificate", round(h)>>)]
       IN \E order \in Orders(n) : NodeBecomes(n, handle_delivered(w, n, h, order))
    /\ UNCHANGED received

(* The next message of m reaches n: handle_message.                        *)
CanReceive(n, m) == n \notin stopped \cup {m} /\ received[n][m] < Len(sent[m])

Receive(n, m) ==
    LET i == received[n][m] + 1
        kind == sent[m][i][1]
        r == sent[m][i][2]
    IN /\ CanReceive(n, m)
       /\ \/ /\ kind = "Certificate"
             /\ \E order \in Orders(n) :
                   NodeBecomes(n, handle_delivered(NodeWorld(n), n, <<m, r>>, order))
          \/ /\ kind = "Elect"
             /\ NodeBecomes(n, handle_elect(NodeWorld(n), m, r))
       /\ received' = [received EXCEPT ![n][m] = i]

(* A crash.  What n has sent may still arrive, or be lost.                 *)
Stop(n) ==
    /\ n \notin stopped
    /\ ~HasValidity(stopped \cup {n})
    /\ stopped' = stopped \cup {n}
    /\ UNCHANGED <<state, parents, sent, received, coin>>

NodeNext ==
    \/ \E n \in Authority, h \in DOMAIN parents : Certify(n, h)
    \/ \E n, m \in Authority : Receive(n, m)
    \/ \E n \in Authority : Stop(n)

(* What is sure to happen in the end: the votes of a quorum that has not   *)
(* stopped arrive (EventuallyDelivered in WahooBroadcast), and so does a   *)
(* message between authorities that have not stopped (ReliableSender).     *)
SureToForm(h) == CanCertify(author(h), h) /\ HasQuorum(VotersFor(h) \ stopped)
SureToArrive(n, m) == m \notin stopped /\ CanReceive(n, m)

NodeSpec == NodeInit /\ [][NodeNext]_node_vars

-----------------------------------------------------------------------------
(* Properties.                                                             *)

(* The blocks of each round in the history of h.                           *)
History(h) ==
    LET level[r \in 0 .. round(h)] ==
          IF r = round(h) THEN {h} ELSE UNION {parents[x] : x \in level[r + 1]}
    IN level

Committed(n) == Range(state[n].committed)

(* What an authority outputs is closed under parents and holds no block    *)
(* twice, although leaders are committed directly or as the ancestors of a *)
(* later one and their histories overlap.                                  *)
OutputWhole ==
    \A n \in Authority :
       LET output == state[n].output
       IN /\ \A i, j \in DOMAIN output : i # j => output[i] \cap output[j] = {}
          /\ \A h \in UNION Range(output) : parents[h] \subseteq UNION Range(output)

(* The leaders an authority commits, directly or as the ancestors of later *)
(* ones, are of ascending rounds, and no leader it goes past is in the     *)
(* history of the one it commits next: whatever order certificates, Elects *)
(* and blocks come in, the leaders of the earlier rounds are known by then.*)
LinkedLeaderKept ==
    \A n \in Authority : \A i \in DOMAIN state[n].committed :
       LET h == state[n].committed[i]
           last == IF i = 1 THEN 0 ELSE round(state[n].committed[i - 1])
       IN /\ last < round(h)
          /\ \A r \in last + 1 .. round(h) - 1 : Odd(r) => Leader(r) \notin History(h)[r]

(* A leader that some authority has committed is committed by every        *)
(* authority that commits a later leader: no authority goes past it.       *)
CommittedLeaderKept ==
    \A m, n \in Authority : \A h \in Committed(m), k \in Committed(n) :
       round(h) <= round(k) => h \in Committed(n)

(* When nothing more is sure to happen, every authority that has not       *)
(* stopped is in the last round: nobody is left waiting for a parent or a  *)
(* quorum, although others may have stopped and blocks come before their   *)
(* parents.  A behaviour is finite, so it gets there.  Those that stopped  *)
(* must have sent nothing: there is no request for a missing block, and a  *)
(* certificate that reached only some of the authorities before its author *)
(* stopped may hold up the others for ever.                                *)
NobodyStalls ==
    \/ \E h \in DOMAIN parents : SureToForm(h)
    \/ \E n, m \in Authority : SureToArrive(n, m)
    \/ \E n \in stopped : sent[n] # <<>>
    \/ \A n \in Authority \ stopped : state[n].round = MaxRound
=============================================================================
