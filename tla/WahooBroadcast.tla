--------------------------- MODULE WahooBroadcast ---------------------------
(***************************************************************************)
(* The two broadcasts of the Wahoo node, for one slot, the block of one    *)
(* author and round: EPBC in odd rounds (primary/src/wahoo/node.rs) and    *)
(* PBC in even ones (primary/src/wahoo/pb.rs).                             *)
(*                                                                         *)
(* In PBC every authority votes for the first proposal it sees, and the    *)
(* votes of a quorum are a certificate that delivers it.  In EPBC a        *)
(* proposal is voted for, in phases Ts1 and Tf at once, only when its      *)
(* parents are in the local dag; a quorum of Ts1 votes makes a certificate *)
(* that is voted for in phase Ts2.  A quorum of Ts2 votes, or the Tf votes *)
(* of everybody, deliver the block.                                        *)
(*                                                                         *)
(* Messages are sets that are never emptied: a message may be late, and    *)
(* may come again.  The votes go to the origin of the slot.  Byzantine     *)
(* authorities vote for everything: their votes are there from the start.  *)
(* A Byzantine origin shows each authority what it likes and makes any     *)
(* certificate it has the votes for.  Signatures and the tags of headers   *)
(* are not modelled.                                                       *)
(***************************************************************************)
EXTENDS Committee

CONSTANTS
    Block,     \* the blocks that may be signed for the slot
    Origin     \* the origins of a slot: one is chosen for a behaviour

VARIABLES
    origin,        \* the author of the slot
    even,          \* whether the round of the slot is even
    node,          \* the state of the slot at each honest authority
    votes,         \* the votes sent: <<voter, phase, block>>
    certificates   \* the certificates broadcast: <<phase, block>>

vars == <<origin, even, node, votes, certificates>>

Phase == {"Ts1", "Ts2", "Tf", "Pbc"}

(* The threshold of a phase, in WahooVotesAggregator::append and again in  *)
(* verify_wahoo_certificate.                                               *)
threshold(phase) == IF phase = "Tf" THEN total_votes ELSE quorum_threshold

(* The blocks the origin signs: a correct one signs one.                   *)
Proposed == IF origin \in Byzantine THEN Block ELSE {CHOOSE h \in Block : TRUE}

(* The entries of Node and Pb for the slot: the block kept for it (none or *)
(* one), the blocks whose parents are in the dag, sent_votes, the votes    *)
(* counted by an aggregator, the block delivered and the one in the dag.   *)
NewSlot ==
    [block      |-> {},
     ready      |-> {},
     sent_votes |-> [phase \in Phase |-> {}],
     used       |-> [phase \in Phase |-> {}],
     delivered  |-> {},
     dag        |-> {}]

Init ==
    /\ origin \in Origin
    /\ even \in BOOLEAN
    /\ node = [n \in Honest |-> NewSlot]
    /\ votes = Byzantine \X Phase \X Block
    /\ certificates = {}

(* The proposal may reach n: a correct origin handles it first.            *)
CanPropose(n, h) ==
    /\ h \in Proposed
    /\ n # origin /\ origin \in Honest => node[origin].block # {}

-----------------------------------------------------------------------------
(* The handlers are compositions of steps on w, the state of authority n   *)
(* with the messages: [slot, votes, certificates].                         *)

World(n) == [slot |-> node[n], votes |-> votes, certificates |-> certificates]

Becomes(n, w) ==
    /\ node' = [node EXCEPT ![n] = w.slot]
    /\ votes' = w.votes
    /\ certificates' = w.certificates
    /\ UNCHANGED <<origin, even>>

(* Mutant of should_send_vote: only a repeated vote is refused.            *)
ShouldSendEveryDigest(slot, phase, h) == h \notin slot.sent_votes[phase]

(* should_send_vote: one digest per phase.                                 *)
should_send_vote(slot, phase, h) == slot.sent_votes[phase] = {}

(* try_to_update_dag, for the block of the slot itself: it enters the dag  *)
(* when its parents are there, and waits in pending_blocks otherwise.      *)
update_dag(w) ==
    [w EXCEPT !.slot.dag = @ \cup (w.slot.delivered \cap w.slot.ready)]

(* Ts2 and Tf in handle_epbc_certificate: the first delivers the block.    *)
Deliver(w, h) ==
    IF w.slot.delivered # {} THEN w
    ELSE update_dag([w EXCEPT !.slot.delivered = {h}])

(* WahooVotesAggregator::append at the origin, and epbc_cert_sent: the     *)
(* vote that completes the quorum makes a certificate, once.               *)
AppendVote(w, n, phase, h) ==
    LET fresh == /\ h \in w.slot.block
                 /\ <<phase, h>> \notin w.certificates
                 /\ n \notin w.slot.used[phase]
        used == w.slot.used[phase] \cup {n}
    IN IF ~fresh THEN w
       ELSE [w EXCEPT !.slot.used[phase] = used,
                      !.certificates = IF Weight[used] < threshold(phase) THEN @
                                       ELSE @ \cup {<<phase, h>>}]

(* The certificate that append has just completed is delivered at once.    *)
DeliverNew(w, v, phase, h) ==
    IF w.certificates = v.certificates THEN w ELSE Deliver(w, h)

(* send_epbc_vote, for Ts2 and Tf: the origin counts its own vote at once. *)
SendVote(w, n, phase, h) ==
    LET sent == [w EXCEPT !.slot.sent_votes[phase] = {h},
                          !.votes = @ \cup {<<n, phase, h>>}]
    IN IF ~should_send_vote(w.slot, phase, h) THEN w
       ELSE IF n # origin THEN sent
       ELSE DeliverNew(AppendVote(sent, n, phase, h), sent, phase, h)

(* Ts1 in handle_epbc_certificate: a vote for the certificate.             *)
VoteTs2(w, n, h) == SendVote([w EXCEPT !.slot.block = {h}], n, "Ts2", h)

(* What the origin does on counting a Ts1 vote of voter v.                 *)
CountTs1(w, n, v, h) ==
    LET counted == AppendVote(w, v, "Ts1", h)
    IN IF counted.certificates = w.certificates THEN counted
       ELSE VoteTs2(counted, n, h)

SendTs1(w, n, h) ==
    LET sent == [w EXCEPT !.slot.sent_votes["Ts1"] = {h},
                          !.votes = @ \cup {<<n, "Ts1", h>>}]
    IN IF ~should_send_vote(w.slot, "Ts1", h) THEN w
       ELSE IF n # origin THEN sent ELSE CountTs1(sent, n, n, h)

(* The two votes for a proposal.                                           *)
VoteBoth(w, n, h) == SendVote(SendTs1(w, n, h), n, "Tf", h)

(* Mutant of retry_pending_epbc: the deferred proposal is forgotten.       *)
RetryNothing(w, n) == w

(* retry_pending_epbc: the proposal that was kept is voted for, once its   *)
(* parents are in the dag.                                                 *)
retry_pending_epbc(w, n) ==
    LET now == w.slot.block \cap w.slot.ready
    IN IF now = {} THEN w ELSE VoteBoth(w, n, CHOOSE h \in now : TRUE)

-----------------------------------------------------------------------------
(* EPBC, odd rounds.                                                       *)

(* handle_fast_block: the first proposal is kept; one whose parents are    *)
(* not in the dag is not voted for.                                        *)
handle_fast_block(n, h) ==
    LET w    == World(n)
        kept == IF w.slot.block = {} THEN [w EXCEPT !.slot.block = {h}] ELSE w
    IN /\ ~even /\ CanPropose(n, h)
       /\ Becomes(n, IF h \in w.slot.ready THEN VoteBoth(kept, n, h) ELSE kept)

(* The last parent of h enters the dag of n (the end of try_to_update_dag  *)
(* of that parent): the blocks and proposals that waited are tried again.  *)
ParentsArrive(n, h) ==
    /\ h \in Proposed \ node[n].ready
    /\ LET w == update_dag([World(n) EXCEPT !.slot.ready = @ \cup {h}])
       IN Becomes(n, IF even THEN w ELSE retry_pending_epbc(w, n))

(* handle_epbc_vote, at the origin.                                        *)
handle_epbc_vote(n, v, phase, h) ==
    LET w == World(n)
    IN /\ ~even /\ n = origin /\ <<v, phase, h>> \in votes
       /\ Becomes(n, IF phase = "Ts1" THEN CountTs1(w, n, v, h)
                     ELSE DeliverNew(AppendVote(w, v, phase, h), w, phase, h))

(* handle_epbc_certificate                                                 *)
handle_epbc_certificate(n, phase, h) ==
    /\ ~even /\ <<phase, h>> \in certificates
    /\ Becomes(n, IF phase = "Ts1" THEN VoteTs2(World(n), n, h)
                  ELSE Deliver([World(n) EXCEPT !.slot.block = {h}], h))

-----------------------------------------------------------------------------
(* PBC, even rounds.                                                       *)

(* Pb::try_to_output, where a certificate for the slot has been stored.    *)
try_to_output(w) ==
    IF w.slot.delivered # {} THEN w
    ELSE update_dag([w EXCEPT !.slot.delivered = w.slot.block])

(* Pb::handle_block: a vote for the first proposal, parents or not.        *)
handle_block(n, h) ==
    LET w    == World(n)
        kept == IF w.slot.block = {} THEN [w EXCEPT !.slot.block = {h}] ELSE w
        sent == [kept EXCEPT !.slot.sent_votes["Pbc"] = {h},
                             !.votes = @ \cup {<<n, "Pbc", h>>}]
    IN /\ even /\ CanPropose(n, h)
       /\ Becomes(n, IF should_send_vote(w.slot, "Pbc", h) THEN sent ELSE kept)

(* Pb::handle_vote                                                         *)
handle_vote(n, v, h) ==
    LET w == World(n)
        counted == AppendVote(w, v, "Pbc", h)
    IN /\ even /\ n = origin /\ <<v, "Pbc", h>> \in votes
       /\ Becomes(n, IF counted.certificates = w.certificates THEN counted
                     ELSE try_to_output(counted))

(* Pb::handle_certificate: the certified block replaces the one kept.      *)
handle_certificate(n, h) ==
    /\ even /\ <<"Pbc", h>> \in certificates
    /\ Becomes(n, try_to_output([World(n) EXCEPT !.slot.block = {h}]))

-----------------------------------------------------------------------------
(* A Byzantine origin collects the votes itself.                           *)
ByzantineCertificate(phase, h) ==
    /\ origin \in Byzantine
    /\ (phase = "Pbc") = even
    /\ Weight[{v \in Authority : <<v, phase, h>> \in votes}] >= threshold(phase)
    /\ certificates' = certificates \cup {<<phase, h>>}
    /\ UNCHANGED <<origin, even, node, votes>>

(* A proposal reaches n.                                                   *)
Proposal(n) == \E h \in Block : handle_fast_block(n, h) \/ handle_block(n, h)

(* Anything else does.                                                     *)
Handles(n, From) ==
    \/ \E h \in Block : ParentsArrive(n, h)
    \/ \E v \in From, phase \in Phase, h \in Block : handle_epbc_vote(n, v, phase, h)
    \/ \E phase \in Phase, h \in Block : handle_epbc_certificate(n, phase, h)
    \/ \E v \in From, h \in Block : handle_vote(n, v, h)
    \/ \E h \in Block : handle_certificate(n, h)

Next ==
    \/ \E n \in Honest : Proposal(n) \/ Handles(n, Authority)
    \/ \E phase \in Phase, h \in Block : ByzantineCertificate(phase, h)

(* The messages between correct authorities are retransmitted until they   *)
(* are acknowledged (ReliableSender), and the parents of the block of a    *)
(* correct origin are themselves delivered.  A proposal that was handled   *)
(* need not come again.                                                    *)
Fair(n) ==
    /\ origin \in Honest
    /\ (node[n].block = {} /\ Proposal(n)) \/ Handles(n, Honest)

Fairness == \A n \in Honest : WF_vars(Fair(n))

Spec == Init /\ [][Next]_vars /\ Fairness

-----------------------------------------------------------------------------
(* Properties.                                                             *)

(* No two correct authorities deliver different blocks for a slot, through *)
(* whichever certificate (Ts2, Tf or Pbc) and whatever proposal each of    *)
(* them saw first.                                                         *)
SlotAgreement ==
    \A m, n \in Honest : \A g \in node[m].delivered, h \in node[n].delivered : g = h

(* The block of a correct origin enters the dag of every correct authority *)
(* even if its proposal comes before its parents and the Byzantine         *)
(* authorities never vote: a deferred vote is sent in the end.             *)
EventuallyDelivered ==
    origin \in Honest => <>(\A n \in Honest : node[n].dag = Proposed)
=============================================================================
