---------------------------- MODULE WahooProofs ----------------------------
(***************************************************************************)
(* Wahoo, for every committee and every distribution of stake.             *)
(*                                                                         *)
(* Agreement of the two broadcasts, for every set of blocks: a handler is  *)
(* a composition of steps on w, the state of one authority with the        *)
(* messages.  WorldOK says what w keeps to between two of those steps;     *)
(* each operator of WahooBroadcast has a lemma that it preserves WorldOK,  *)
(* and BecomesOK carries it over to the invariant.                         *)
(*                                                                         *)
(* What a node outputs and which leaders it commits, for every number of   *)
(* rounds and every coin: NodeOK is kept in the same way between the steps *)
(* of the handlers of WahooNode.  The recursive functions of the model     *)
(* exist (UpwardRecursion, DownwardRecursion), and what their steps keep   *)
(* holds of all they compute (UpwardInvariance, DownwardInduction).        *)
(***************************************************************************)
EXTENDS WahooBroadcast, WahooNode, CommitteeProofs, SequenceTheorems, FiniteSetTheorems, TLAPS

-----------------------------------------------------------------------------
(* The broadcasts.                                                         *)

(* The states of a slot at an authority.                                   *)
Slots == [block      : SUBSET Block,
          ready      : SUBSET Block,
          sent_votes : [Phase -> SUBSET Block],
          used       : [Phase -> SUBSET Authority],
          delivered  : SUBSET Block,
          dag        : SUBSET Block]

(* The states a handler works on.                                          *)
Worlds == [slot         : Slots,
           votes        : SUBSET (Authority \X Phase \X Block),
           certificates : SUBSET (Phase \X Block)]

(* The types of the variables.                                             *)
TypeOK ==
    /\ even \in BOOLEAN
    /\ node \in [Honest -> Slots]
    /\ votes \subseteq Authority \X Phase \X Block
    /\ certificates \subseteq Phase \X Block

(* The authorities that voted for h in a phase, by the votes V.            *)
Voters(V, phase, h) == {v \in Authority : <<v, phase, h>> \in V}

(* The votes V reach the threshold of the phase for h.                     *)
Certifies(V, phase, h) == Weight[Voters(V, phase, h)] >= threshold(phase)

(* The phases of an odd round are Ts1, Ts2 and Tf, that of an even one is  *)
(* Pbc.                                                                    *)
InRound(phase) == (phase = "Pbc") = even

(* Authority n, whose slot is s, votes for one block in a phase, in the    *)
(* phases of the round.                                                    *)
VotesOnce(n, s, V) ==
    \A phase \in Phase, h \in Block :
       <<n, phase, h>> \in V => /\ s.sent_votes[phase] = {h}
                                /\ InRound(phase)

(* A Ts2 vote is for a block with a Ts1 certificate.                       *)
Ts2Certified(s, C) == \A h \in s.sent_votes["Ts2"] : <<"Ts1", h>> \in C

(* Every certificate of C has the votes of its threshold among V.          *)
CertificatesVoted(V, C) ==
    \A phase \in Phase, h \in Block : <<phase, h>> \in C => Certifies(V, phase, h)

(* What is delivered has a certificate that delivers: Ts2, Tf or Pbc.      *)
DeliveredCertified(s, C) ==
    \A h \in s.delivered : \E phase \in Phase \ {"Ts1"} : <<phase, h>> \in C

(* Around a correct origin everything is about the one block it proposed,  *)
(* and its aggregators count votes that were sent.                         *)
CorrectOrigin(s, V, C) ==
    origin \in Honest =>
       /\ s.block \subseteq Proposed
       /\ \A phase \in Phase, h \in Block : <<phase, h>> \in C => h \in Proposed
       /\ \A phase \in Phase, h \in Proposed :
             s.used[phase] \subseteq Voters(V, phase, h)

(* What the slot s of authority n keeps to, next to the votes V and the    *)
(* certificates C, in the middle of a handler too.                         *)
Sound(n, s, V, C) ==
    /\ VotesOnce(n, s, V)
    /\ Ts2Certified(s, C)
    /\ DeliveredCertified(s, C)
    /\ CorrectOrigin(s, V, C)

(* Between two handlers, the Ts1 and the Tf vote of an authority are for   *)
(* the same block, or neither was sent.                                    *)
SentTogether(s) == s.sent_votes["Ts1"] = s.sent_votes["Tf"]

(* The inductive invariant.                                                *)
Inv ==
    /\ TypeOK
    /\ CertificatesVoted(votes, certificates)
    /\ \A n \in Honest : /\ Sound(n, node[n], votes, certificates)
                         /\ SentTogether(node[n])

(* w may be the state of n in the middle of a handler: it only adds votes  *)
(* of n and certificates to what was sent.                                 *)
WorldOK(n, w) ==
    /\ w \in Worlds
    /\ votes \subseteq w.votes
    /\ \A m \in Honest : m # n => \A phase \in Phase, h \in Block :
           <<m, phase, h>> \in w.votes => <<m, phase, h>> \in votes
    /\ certificates \subseteq w.certificates
    /\ CertificatesVoted(w.votes, w.certificates)
    /\ Sound(n, w.slot, w.votes, w.certificates)

(* The votes for the proposal itself are the same in a and w.              *)
SameProposalVotes(a, w) ==
    /\ a.slot.sent_votes["Ts1"] = w.slot.sent_votes["Ts1"]
    /\ a.slot.sent_votes["Tf"] = w.slot.sent_votes["Tf"]

(* sent_votes with a vote for h in a phase.                                *)
Voted(f, phase, h) == [f EXCEPT ![phase] = {h}]

(* The updates of w that the handlers are made of: s replaces the slot.    *)
WithSlot(w, s) == [w EXCEPT !.slot = s]

(* The block kept for the slot is replaced.                                *)
Kept(w, h) == [w EXCEPT !.slot.block = {h}]

(* The first proposal is kept.                                             *)
FirstKept(w, h) == IF w.slot.block = {} THEN Kept(w, h) ELSE w

(* The parents of h are in the dag.                                        *)
Ready(w, h) == [w EXCEPT !.slot.ready = @ \cup {h}]

(* The blocks B are delivered.                                             *)
Delivered(w, B) == [w EXCEPT !.slot.delivered = B]

(* n votes for h in a phase.                                               *)
Sent(w, n, phase, h) ==
    [w EXCEPT !.slot.sent_votes[phase] = {h},
              !.votes = @ \cup {<<n, phase, h>>}]

-----------------------------------------------------------------------------
(* Correct authorities are authorities.                                    *)
LEMMA HonestType == Honest \subseteq Authority
  BY DEF Honest

(* A correct origin proposes one block.                                    *)
LEMMA ProposedSingle ==
    ASSUME origin \in Honest, NEW g \in Proposed, NEW h \in Proposed
    PROVE  g = h
  BY DEF Proposed, Honest

(* More votes certify no less.                                             *)
LEMMA CertifiesMonotone ==
    ASSUME NEW V, NEW W, V \subseteq W, NEW phase, NEW h, Certifies(V, phase, h)
    PROVE  Certifies(W, phase, h)
<1>1. Voters(V, phase, h) \subseteq Voters(W, phase, h)
  BY DEF Voters
<1>2. /\ Weight[Voters(V, phase, h)] <= Weight[Voters(W, phase, h)]
      /\ Weight[Voters(V, phase, h)] \in Nat /\ Weight[Voters(W, phase, h)] \in Nat
  BY <1>1, WeightMonotone DEF Voters
<1>3. threshold(phase) \in Nat
  BY Thresholds DEF threshold
<1>. QED
  BY <1>2, <1>3 DEF Certifies

(* AppendVote keeps w sound: a certificate the origin makes has the votes  *)
(* it counted, because a correct origin counts votes for its only block.   *)
LEMMA AppendVoteOK ==
    ASSUME NEW n \in Honest, n = origin, NEW w, WorldOK(n, w),
           NEW v \in Authority, NEW phase \in Phase, NEW h \in Block,
           <<v, phase, h>> \in w.votes
    PROVE  LET a == AppendVote(w, v, phase, h)
           IN /\ WorldOK(n, a)
              /\ a.slot.sent_votes = w.slot.sent_votes
              /\ a.slot.block = w.slot.block
              /\ a.certificates # w.certificates =>
                    <<phase, h>> \in a.certificates /\ h \in w.slot.block
<1>. DEFINE a == AppendVote(w, v, phase, h)
            used == w.slot.used[phase] \cup {v}
            fresh == /\ h \in w.slot.block
                     /\ <<phase, h>> \notin w.certificates
                     /\ v \notin w.slot.used[phase]
            C == IF Weight[used] < threshold(phase) THEN w.certificates
                 ELSE w.certificates \cup {<<phase, h>>}
<1>1. CASE ~fresh
  BY <1>1 DEF AppendVote
<1>2. CASE fresh
  <2>1. a = [w EXCEPT !.slot.used[phase] = used, !.certificates = C]
    BY <1>2 DEF AppendVote
  <2>2. w \in Worlds /\ used \in SUBSET Authority /\ C \in SUBSET (Phase \X Block)
    BY DEF WorldOK, Worlds, Slots
  <2>3. /\ a \in Worlds
        /\ a.votes = w.votes /\ a.certificates = C
        /\ a.slot.sent_votes = w.slot.sent_votes
        /\ a.slot.block = w.slot.block
        /\ a.slot.delivered = w.slot.delivered
        /\ a.slot.used = [w.slot.used EXCEPT ![phase] = used]
    <3>1. /\ a.votes = w.votes /\ a.certificates = C
          /\ a.slot = [w.slot EXCEPT !.used[phase] = used]
          /\ a = [w EXCEPT !.slot = a.slot, !.certificates = C]
      BY <2>1, <2>2 DEF Worlds, Slots
    <3>2. w.slot \in Slots
      BY <2>2 DEF Worlds
    <3>3. /\ a.slot \in Slots
          /\ a.slot.sent_votes = w.slot.sent_votes
          /\ a.slot.block = w.slot.block
          /\ a.slot.delivered = w.slot.delivered
          /\ a.slot.used = [w.slot.used EXCEPT ![phase] = used]
      BY <2>2, <3>1, <3>2 DEF Slots
    <3>. HIDE DEF a, used, C
    <3>4. a \in Worlds
      BY <2>2, <3>1, <3>3 DEF Worlds
    <3>. QED
      BY <3>1, <3>3, <3>4
  <2>4. h \in Proposed /\ used \subseteq Voters(w.votes, phase, h)
    BY <1>2 DEF WorldOK, Sound, CorrectOrigin, Voters
  <2>5. Weight[used] >= threshold(phase) => Certifies(w.votes, phase, h)
    <3>1. /\ Weight[used] <= Weight[Voters(w.votes, phase, h)]
          /\ Weight[used] \in Nat /\ Weight[Voters(w.votes, phase, h)] \in Nat
      BY <2>2, <2>4, WeightMonotone DEF Voters
    <3>. QED
      BY <3>1, Thresholds DEF Certifies, threshold
  <2>6. CertificatesVoted(w.votes, C)
    <3>1. CertificatesVoted(w.votes, w.certificates)
      BY DEF WorldOK
    <3>2. /\ Weight[used] \in Nat /\ threshold(phase) \in Nat
      BY <2>2, WeightAssumption, Thresholds DEF threshold
    <3>. QED
      BY <2>5, <3>1, <3>2 DEF CertificatesVoted
  <2>7. VotesOnce(n, a.slot, w.votes)
    BY <2>3 DEF WorldOK, Sound, VotesOnce
  <2>8. Ts2Certified(a.slot, C) /\ DeliveredCertified(a.slot, C)
    BY <2>3 DEF WorldOK, Sound, Ts2Certified, DeliveredCertified
  <2>9. CorrectOrigin(a.slot, w.votes, C)
    <3>1. CorrectOrigin(w.slot, w.votes, w.certificates)
      BY DEF WorldOK, Sound
    <3>2. \A p \in Phase, g \in Proposed : a.slot.used[p] \subseteq Voters(w.votes, p, g)
      BY <2>3, <2>4, <3>1, <2>2, ProposedSingle DEF CorrectOrigin, Worlds, Slots
    <3>. QED
      BY <2>3, <2>4, <3>1, <3>2 DEF CorrectOrigin
  <2>10. WorldOK(n, a)
    BY <2>3, <2>6, <2>7, <2>8, <2>9 DEF WorldOK, Sound
  <2>. QED
    BY <1>2, <2>3, <2>10
<1>. QED
  BY <1>1, <1>2

(* A vote of n in a phase it had not voted in keeps w sound.               *)
LEMMA SentOK ==
    ASSUME NEW n \in Honest, NEW w, WorldOK(n, w),
           NEW phase \in Phase, NEW h \in Block,
           w.slot.sent_votes[phase] = {},
           InRound(phase),
           phase = "Ts2" => <<"Ts1", h>> \in w.certificates
    PROVE  LET a == Sent(w, n, phase, h)
           IN /\ WorldOK(n, a)
              /\ a.slot.sent_votes = Voted(w.slot.sent_votes, phase, h)
              /\ a.slot.block = w.slot.block
              /\ a.certificates = w.certificates
              /\ <<n, phase, h>> \in a.votes
<1>. DEFINE a == Sent(w, n, phase, h)
            s == [w.slot EXCEPT !.sent_votes[phase] = {h}]
<1>1. w \in Worlds /\ w.slot \in Slots /\ n \in Authority
  BY HonestType DEF WorldOK, Worlds
<1>2. a = [w EXCEPT !.slot = s, !.votes = w.votes \cup {<<n, phase, h>>}]
  BY <1>1 DEF Sent, Worlds
<1>. HIDE DEF a
<1>3. /\ s \in Slots
      /\ s.sent_votes = Voted(w.slot.sent_votes, phase, h)
      /\ s.block = w.slot.block
      /\ s.delivered = w.slot.delivered
      /\ s.used = w.slot.used
  BY <1>1 DEF Slots, Voted
<1>. HIDE DEF s
<1>4. /\ a \in Worlds /\ a.slot = s
      /\ a.votes = w.votes \cup {<<n, phase, h>>}
      /\ a.certificates = w.certificates
  <2>. DEFINE V == w.votes \cup {<<n, phase, h>>}
  <2>1. V \in SUBSET (Authority \X Phase \X Block)
    BY <1>1 DEF Worlds
  <2>2. a = [w EXCEPT !.slot = s, !.votes = V]
    BY <1>2
  <2>. HIDE DEF V
  <2>3. a \in Worlds /\ a.slot = s /\ a.votes = V /\ a.certificates = w.certificates
    BY <1>1, <1>3, <2>1, <2>2 DEF Worlds
  <2>. QED
    BY <2>3 DEF V
<1>5. CertificatesVoted(a.votes, a.certificates)
  BY <1>4, CertifiesMonotone DEF WorldOK, CertificatesVoted
<1>6. VotesOnce(n, s, a.votes)
  <2>1. \A p \in Phase : s.sent_votes[p] = IF p = phase THEN {h}
                                           ELSE w.slot.sent_votes[p]
    BY <1>1, <1>3 DEF Slots, Voted
  <2>2. VotesOnce(n, w.slot, w.votes)
    BY DEF WorldOK, Sound
  <2>3. \A g \in Block : <<n, phase, g>> \notin w.votes
    BY <2>2 DEF VotesOnce
  <2>. QED
    BY <1>4, <2>1, <2>2, <2>3 DEF VotesOnce
<1>7. Ts2Certified(s, a.certificates)
  <2>1. s.sent_votes["Ts2"] = IF phase = "Ts2" THEN {h}
                              ELSE w.slot.sent_votes["Ts2"]
    BY <1>1, <1>3 DEF Slots, Phase, Voted
  <2>. QED
    BY <1>4, <2>1 DEF WorldOK, Sound, Ts2Certified
<1>8. DeliveredCertified(s, a.certificates)
  BY <1>3, <1>4 DEF WorldOK, Sound, DeliveredCertified
<1>9. CorrectOrigin(s, a.votes, a.certificates)
  BY <1>3, <1>4 DEF WorldOK, Sound, CorrectOrigin, Voters
<1>10. \A m \in Honest : m # n => \A p \in Phase, g \in Block :
          <<m, p, g>> \in a.votes => <<m, p, g>> \in votes
  BY <1>4 DEF WorldOK
<1>11. WorldOK(n, a)
  BY <1>3, <1>4, <1>5, <1>6, <1>7, <1>8, <1>9, <1>10 DEF WorldOK, Sound
<1>. QED
  BY <1>3, <1>4, <1>11 DEF a

(* Changes of a slot that touch neither votes nor aggregators.             *)
LEMMA SlotOK ==
    ASSUME NEW n \in Honest, NEW w, WorldOK(n, w), NEW s \in Slots,
           s.sent_votes = w.slot.sent_votes,
           s.used = w.slot.used,
           DeliveredCertified(s, w.certificates),
           origin \in Honest => s.block \subseteq Proposed
    PROVE  LET a == WithSlot(w, s)
           IN /\ WorldOK(n, a)
              /\ a.slot = s /\ a.votes = w.votes /\ a.certificates = w.certificates
<1>. DEFINE a == WithSlot(w, s)
<1>1. /\ a \in Worlds
      /\ a.slot = s /\ a.votes = w.votes /\ a.certificates = w.certificates
  BY DEF WorldOK, Worlds, WithSlot
<1>. HIDE DEF a
<1>2. VotesOnce(n, s, w.votes)
  BY DEF WorldOK, Sound, VotesOnce
<1>3. Ts2Certified(s, w.certificates)
  BY DEF WorldOK, Sound, Ts2Certified
<1>4. CorrectOrigin(s, w.votes, w.certificates)
  BY DEF WorldOK, Sound, CorrectOrigin
<1>5. WorldOK(n, a)
  BY <1>1, <1>2, <1>3, <1>4 DEF WorldOK, Sound
<1>. QED
  BY <1>1, <1>5 DEF a

(* update_dag changes the dag and nothing the invariant reads.             *)
LEMMA UpdateDagOK ==
    ASSUME NEW n \in Honest, NEW w, WorldOK(n, w)
    PROVE  LET a == update_dag(w)
           IN /\ WorldOK(n, a)
              /\ a.slot.sent_votes = w.slot.sent_votes
              /\ a.slot.block = w.slot.block
              /\ a.votes = w.votes
              /\ a.certificates = w.certificates
<1>. DEFINE s == [w.slot EXCEPT !.dag = @ \cup (w.slot.delivered \cap w.slot.ready)]
<1>1. w \in Worlds /\ w.slot \in Slots
  BY DEF WorldOK, Worlds
<1>2. update_dag(w) = WithSlot(w, s)
  BY <1>1 DEF update_dag, Worlds, WithSlot
<1>3. /\ s \in Slots
      /\ s.sent_votes = w.slot.sent_votes /\ s.used = w.slot.used
      /\ s.block = w.slot.block /\ s.delivered = w.slot.delivered
  BY <1>1 DEF Slots
<1>. HIDE DEF s
<1>4. DeliveredCertified(s, w.certificates)
  BY <1>3 DEF WorldOK, Sound, DeliveredCertified
<1>5. origin \in Honest => s.block \subseteq Proposed
  BY <1>3 DEF WorldOK, Sound, CorrectOrigin
<1>. QED
  BY <1>2, <1>3, <1>4, <1>5, SlotOK

(* Blocks with a delivering certificate may be delivered.                  *)
LEMMA DeliveredOK ==
    ASSUME NEW n \in Honest, NEW w, WorldOK(n, w), NEW B \in SUBSET Block,
           \A h \in B : \E phase \in Phase \ {"Ts1"} : <<phase, h>> \in w.certificates
    PROVE  LET a == update_dag(Delivered(w, B))
           IN /\ WorldOK(n, a)
              /\ a.slot.sent_votes = w.slot.sent_votes
<1>. DEFINE s == [w.slot EXCEPT !.delivered = B]
<1>1. w \in Worlds /\ w.slot \in Slots
  BY DEF WorldOK, Worlds
<1>2. Delivered(w, B) = WithSlot(w, s)
  BY <1>1 DEF Worlds, Delivered, WithSlot
<1>3. /\ s \in Slots
      /\ s.sent_votes = w.slot.sent_votes /\ s.used = w.slot.used
      /\ s.block = w.slot.block /\ s.delivered = B
  BY <1>1 DEF Slots
<1>. HIDE DEF s
<1>4. DeliveredCertified(s, w.certificates)
  BY <1>3 DEF DeliveredCertified
<1>5. origin \in Honest => s.block \subseteq Proposed
  BY <1>3 DEF WorldOK, Sound, CorrectOrigin
<1>6. WorldOK(n, Delivered(w, B)) /\ Delivered(w, B).slot = s
  BY <1>2, <1>3, <1>4, <1>5, SlotOK
<1>. QED
  BY <1>3, <1>6, UpdateDagOK

(* Deliver, on a certificate of a phase other than Ts1, keeps w sound.     *)
LEMMA DeliverOK ==
    ASSUME NEW n \in Honest, NEW w, WorldOK(n, w),
           NEW phase \in Phase \ {"Ts1"}, NEW h \in Block,
           <<phase, h>> \in w.certificates
    PROVE  LET a == Deliver(w, h)
           IN /\ WorldOK(n, a)
              /\ a.slot.sent_votes = w.slot.sent_votes
<1>1. Deliver(w, h) = IF w.slot.delivered # {} THEN w
                      ELSE update_dag(Delivered(w, {h}))
  BY DEF Deliver, Delivered
<1>. QED
  BY <1>1, DeliveredOK

(* Pb::try_to_output keeps w sound when the block kept is certified.       *)
LEMMA OutputOK ==
    ASSUME NEW n \in Honest, NEW w, WorldOK(n, w),
           \A h \in w.slot.block : <<"Pbc", h>> \in w.certificates
    PROVE  LET a == try_to_output(w)
           IN /\ WorldOK(n, a)
              /\ a.slot.sent_votes = w.slot.sent_votes
<1>1. try_to_output(w) = IF w.slot.delivered # {} THEN w
                         ELSE update_dag(Delivered(w, w.slot.block))
  BY DEF try_to_output, Delivered
<1>2. w.slot.block \in SUBSET Block
  BY DEF WorldOK, Worlds, Slots
<1>3. "Pbc" \in Phase \ {"Ts1"}
  BY DEF Phase
<1>. QED
  BY <1>1, <1>2, <1>3, DeliveredOK

(* Another block may be kept for the slot: with a correct origin it is the *)
(* proposed one.                                                           *)
LEMMA BlockOK ==
    ASSUME NEW n \in Honest, NEW w, WorldOK(n, w), NEW h \in Block,
           origin \in Honest => h \in Proposed
    PROVE  LET a == Kept(w, h)
           IN /\ WorldOK(n, a)
              /\ a.slot.sent_votes = w.slot.sent_votes
              /\ a.slot.block = {h}
              /\ a.certificates = w.certificates
<1>. DEFINE s == [w.slot EXCEPT !.block = {h}]
<1>1. w \in Worlds /\ w.slot \in Slots
  BY DEF WorldOK, Worlds
<1>2. Kept(w, h) = WithSlot(w, s)
  BY <1>1 DEF Worlds, Kept, WithSlot
<1>3. /\ s \in Slots
      /\ s.sent_votes = w.slot.sent_votes /\ s.used = w.slot.used
      /\ s.block = {h} /\ s.delivered = w.slot.delivered
  BY <1>1 DEF Slots
<1>. HIDE DEF s
<1>4. DeliveredCertified(s, w.certificates)
  BY <1>3 DEF WorldOK, Sound, DeliveredCertified
<1>. QED
  BY <1>2, <1>3, <1>4, SlotOK

(* The arrival of parents keeps w sound.                                   *)
LEMMA ReadyOK ==
    ASSUME NEW n \in Honest, NEW w, WorldOK(n, w), NEW h \in Block
    PROVE  LET a == Ready(w, h)
           IN WorldOK(n, a) /\ a.slot.sent_votes = w.slot.sent_votes
<1>. DEFINE s == [w.slot EXCEPT !.ready = @ \cup {h}]
<1>1. w \in Worlds /\ w.slot \in Slots
  BY DEF WorldOK, Worlds
<1>2. Ready(w, h) = WithSlot(w, s)
  BY <1>1 DEF Worlds, Ready, WithSlot
<1>3. /\ s \in Slots
      /\ s.sent_votes = w.slot.sent_votes /\ s.used = w.slot.used
      /\ s.block = w.slot.block /\ s.delivered = w.slot.delivered
  BY <1>1 DEF Slots
<1>. HIDE DEF s
<1>4. DeliveredCertified(s, w.certificates)
  BY <1>3 DEF WorldOK, Sound, DeliveredCertified
<1>5. origin \in Honest => s.block \subseteq Proposed
  BY <1>3 DEF WorldOK, Sound, CorrectOrigin
<1>. QED
  BY <1>2, <1>3, <1>4, <1>5, SlotOK

(* send_epbc_vote for Ts2 and Tf keeps w sound, whether or not the origin  *)
(* counts its own vote and delivers at once; it votes in that phase only.  *)
LEMMA SendVoteOK ==
    ASSUME NEW n \in Honest, NEW w, WorldOK(n, w),
           NEW phase \in {"Ts2", "Tf"}, NEW h \in Block, even = FALSE,
           phase = "Ts2" => <<"Ts1", h>> \in w.certificates
    PROVE  LET a == SendVote(w, n, phase, h)
           IN /\ WorldOK(n, a)
              /\ a.slot.sent_votes = IF w.slot.sent_votes[phase] = {}
                                     THEN Voted(w.slot.sent_votes, phase, h)
                                     ELSE w.slot.sent_votes
<1>1. CASE w.slot.sent_votes[phase] # {}
  BY <1>1 DEF SendVote, should_send_vote
<1>2. CASE w.slot.sent_votes[phase] = {}
  <2>. DEFINE next == Sent(w, n, phase, h)
              c == AppendVote(next, n, phase, h)
  <2>1. phase \in Phase /\ phase # "Ts1" /\ InRound(phase)
    BY DEF Phase, InRound
  <2>2. /\ WorldOK(n, next)
        /\ next.slot.sent_votes = Voted(w.slot.sent_votes, phase, h)
        /\ <<n, phase, h>> \in next.votes
    BY <1>2, <2>1, SentOK
  <2>3. SendVote(w, n, phase, h) = IF n # origin THEN next
                                   ELSE DeliverNew(c, next, phase, h)
    BY <1>2 DEF SendVote, should_send_vote, Sent
  <2>. HIDE DEF next
  <2>4. CASE n = origin
    <3>1. /\ WorldOK(n, c)
          /\ c.slot.sent_votes = next.slot.sent_votes
          /\ c.certificates # next.certificates => <<phase, h>> \in c.certificates
      BY <2>1, <2>2, <2>4, AppendVoteOK, HonestType
    <3>2. /\ WorldOK(n, DeliverNew(c, next, phase, h))
          /\ DeliverNew(c, next, phase, h).slot.sent_votes = next.slot.sent_votes
      <4>. HIDE DEF c
      <4>. QED
        BY <2>1, <3>1, DeliverOK DEF DeliverNew
    <3>. QED
      BY <1>2, <2>2, <2>3, <2>4, <3>2
  <2>. QED
    BY <1>2, <2>2, <2>3, <2>4
<1>. QED
  BY <1>1, <1>2

(* The vote for a Ts1 certificate keeps w sound and leaves the votes for   *)
(* the proposal alone.                                                     *)
LEMMA VoteTs2OK ==
    ASSUME NEW n \in Honest, NEW w, WorldOK(n, w), NEW h \in Block, even = FALSE,
           <<"Ts1", h>> \in w.certificates
    PROVE  LET a == VoteTs2(w, n, h)
           IN /\ WorldOK(n, a)
              /\ SameProposalVotes(a, w)
<1>. DEFINE b == Kept(w, h)
<1>1. origin \in Honest => h \in Proposed
  BY DEF WorldOK, Sound, CorrectOrigin, Phase
<1>2. /\ WorldOK(n, b)
      /\ b.slot.sent_votes = w.slot.sent_votes
      /\ b.certificates = w.certificates
  BY <1>1, BlockOK
<1>3. VoteTs2(w, n, h) = SendVote(b, n, "Ts2", h)
  BY DEF VoteTs2, Kept
<1>. HIDE DEF b
<1>4. /\ WorldOK(n, SendVote(b, n, "Ts2", h))
      /\ SendVote(b, n, "Ts2", h).slot.sent_votes =
            IF b.slot.sent_votes["Ts2"] = {}
            THEN Voted(b.slot.sent_votes, "Ts2", h) ELSE b.slot.sent_votes
  BY <1>2, SendVoteOK
<1>5. b.slot.sent_votes \in [Phase -> SUBSET Block]
  BY <1>2 DEF WorldOK, Worlds, Slots
<1>. QED
  BY <1>2, <1>3, <1>4, <1>5 DEF Phase, Voted, SameProposalVotes

(* So does the count of a Ts1 vote at the origin, with the Ts2 vote that   *)
(* follows the certificate it makes.                                       *)
LEMMA CountTs1OK ==
    ASSUME NEW n \in Honest, n = origin, NEW w, WorldOK(n, w),
           NEW v \in Authority, NEW h \in Block, even = FALSE,
           <<v, "Ts1", h>> \in w.votes
    PROVE  LET a == CountTs1(w, n, v, h)
           IN /\ WorldOK(n, a)
              /\ SameProposalVotes(a, w)
<1>. DEFINE c == AppendVote(w, v, "Ts1", h)
<1>1. /\ WorldOK(n, c)
      /\ c.slot.sent_votes = w.slot.sent_votes
      /\ c.certificates # w.certificates => <<"Ts1", h>> \in c.certificates
  BY AppendVoteOK DEF Phase
<1>2. CountTs1(w, n, v, h) = IF c.certificates = w.certificates THEN c
                             ELSE VoteTs2(c, n, h)
  BY DEF CountTs1
<1>. HIDE DEF c
<1>3. CASE c.certificates = w.certificates
  BY <1>1, <1>2, <1>3 DEF SameProposalVotes
<1>4. CASE c.certificates # w.certificates
  <2>1. /\ WorldOK(n, VoteTs2(c, n, h))
        /\ SameProposalVotes(VoteTs2(c, n, h), c)
    BY <1>1, <1>4, VoteTs2OK
  <2>. QED
    BY <1>1, <1>2, <1>4, <2>1 DEF SameProposalVotes
<1>. QED
  BY <1>3, <1>4

(* The Ts1 vote for a proposal keeps w sound and leaves the Tf vote alone. *)
LEMMA SendTs1OK ==
    ASSUME NEW n \in Honest, NEW w, WorldOK(n, w), NEW h \in Block, even = FALSE
    PROVE  LET a == SendTs1(w, n, h)
           IN /\ WorldOK(n, a)
              /\ a.slot.sent_votes["Ts1"] = IF w.slot.sent_votes["Ts1"] = {} THEN {h}
                                            ELSE w.slot.sent_votes["Ts1"]
              /\ a.slot.sent_votes["Tf"] = w.slot.sent_votes["Tf"]
<1>1. CASE w.slot.sent_votes["Ts1"] # {}
  BY <1>1 DEF SendTs1, should_send_vote
<1>2. CASE w.slot.sent_votes["Ts1"] = {}
  <2>. DEFINE next == Sent(w, n, "Ts1", h)
  <2>1. /\ WorldOK(n, next)
        /\ next.slot.sent_votes = Voted(w.slot.sent_votes, "Ts1", h)
        /\ <<n, "Ts1", h>> \in next.votes
    <3>. DEFINE phase == "Ts1"
    <3>1. /\ phase \in Phase /\ InRound(phase) /\ phase # "Ts2"
          /\ w.slot.sent_votes[phase] = {}
      BY <1>2 DEF Phase, InRound
    <3>. HIDE DEF phase
    <3>2. /\ WorldOK(n, Sent(w, n, phase, h))
          /\ Sent(w, n, phase, h).slot.sent_votes
                = Voted(w.slot.sent_votes, phase, h)
          /\ <<n, phase, h>> \in Sent(w, n, phase, h).votes
      BY <3>1, SentOK
    <3>. QED
      BY <3>2 DEF phase
  <2>2. w.slot.sent_votes \in [Phase -> SUBSET Block]
    BY DEF WorldOK, Worlds, Slots
  <2>3. /\ next.slot.sent_votes["Ts1"] = {h}
        /\ next.slot.sent_votes["Tf"] = w.slot.sent_votes["Tf"]
    <3>. HIDE DEF next
    <3>. QED
      BY <2>1, <2>2 DEF Phase, Voted
  <2>4. SendTs1(w, n, h) = IF n # origin THEN next ELSE CountTs1(next, n, n, h)
    BY <1>2 DEF SendTs1, should_send_vote, Sent
  <2>. HIDE DEF next
  <2>5. CASE n # origin
    BY <1>2, <2>1, <2>3, <2>4, <2>5
  <2>6. CASE n = origin
    <3>1. /\ WorldOK(n, CountTs1(next, n, n, h))
          /\ SameProposalVotes(CountTs1(next, n, n, h), next)
      <4>1. n \in Authority
        BY HonestType
      <4>. QED
        BY <2>1, <2>6, <4>1, CountTs1OK
    <3>. QED
      BY <1>2, <2>3, <2>4, <2>6, <3>1 DEF SameProposalVotes
  <2>. QED
    BY <2>5, <2>6
<1>. QED
  BY <1>1, <1>2

(* After the two votes for a proposal, the Ts1 and Tf votes are again for  *)
(* the same block, though the first of them may have been counted,         *)
(* certified and voted for in between.                                     *)
LEMMA VoteBothOK ==
    ASSUME NEW n \in Honest, NEW w, WorldOK(n, w), SentTogether(w.slot),
           NEW h \in Block, even = FALSE
    PROVE  LET a == VoteBoth(w, n, h)
           IN WorldOK(n, a) /\ SentTogether(a.slot)
<1>. DEFINE b == SendTs1(w, n, h)
            a == SendVote(b, n, "Tf", h)
<1>1. /\ WorldOK(n, b)
      /\ b.slot.sent_votes["Ts1"] = IF w.slot.sent_votes["Ts1"] = {} THEN {h}
                                    ELSE w.slot.sent_votes["Ts1"]
      /\ b.slot.sent_votes["Tf"] = w.slot.sent_votes["Tf"]
  BY SendTs1OK
<1>. HIDE DEF b
<1>2. /\ WorldOK(n, a)
      /\ a.slot.sent_votes = IF b.slot.sent_votes["Tf"] = {}
                             THEN Voted(b.slot.sent_votes, "Tf", h)
                             ELSE b.slot.sent_votes
  BY <1>1, SendVoteOK
<1>3. b.slot.sent_votes \in [Phase -> SUBSET Block]
  BY <1>1 DEF WorldOK, Worlds, Slots
<1>4. SentTogether(a.slot)
  <2>. HIDE DEF a
  <2>. QED
    BY <1>1, <1>2, <1>3 DEF SentTogether, Phase, Voted
<1>5. VoteBoth(w, n, h) = a
  BY DEF VoteBoth, b
<1>. HIDE DEF a
<1>. QED
  BY <1>2, <1>4, <1>5

(* retry_pending_epbc keeps w sound.                                       *)
LEMMA RetryOK ==
    ASSUME NEW n \in Honest, NEW w, WorldOK(n, w), SentTogether(w.slot), even = FALSE
    PROVE  LET a == retry_pending_epbc(w, n)
           IN WorldOK(n, a) /\ SentTogether(a.slot)
<1>. DEFINE now == w.slot.block \cap w.slot.ready
            h == CHOOSE h \in now : TRUE
<1>1. now \subseteq Block
  BY DEF WorldOK, Worlds, Slots
<1>2. now # {} => h \in Block
  BY <1>1
<1>3. retry_pending_epbc(w, n) = IF now = {} THEN w ELSE VoteBoth(w, n, h)
  BY DEF retry_pending_epbc
<1>. HIDE DEF now, h
<1>. QED
  BY <1>2, <1>3, VoteBothOK

(* A handler starts from a sound w.                                        *)
LEMMA WorldIsOK ==
    ASSUME Inv, NEW n \in Honest
    PROVE  /\ WorldOK(n, World(n)) /\ SentTogether(World(n).slot)
           /\ World(n).slot = node[n] /\ World(n).votes = votes
           /\ World(n).certificates = certificates
<1>1. World(n) \in Worlds
  BY DEF Inv, TypeOK, World, Worlds
<1>. QED
  BY <1>1 DEF Inv, WorldOK, World

(* A handler that ends in a sound w preserves the invariant, of the other  *)
(* authorities too.                                                        *)
LEMMA BecomesOK ==
    ASSUME Inv, NEW n \in Honest, NEW w, WorldOK(n, w), SentTogether(w.slot),
           Becomes(n, w)
    PROVE  Inv'
<1>1. /\ node' = [node EXCEPT ![n] = w.slot]
      /\ votes' = w.votes /\ certificates' = w.certificates
      /\ origin' = origin /\ even' = even /\ Proposed' = Proposed
  BY DEF Becomes, Proposed
<1>2. w.slot \in Slots /\ w \in Worlds
  BY DEF WorldOK, Worlds
<1>3. TypeOK'
  BY <1>1, <1>2 DEF Inv, TypeOK, Worlds
<1>4. CertificatesVoted(votes, certificates)'
  BY <1>1 DEF WorldOK, CertificatesVoted, Certifies, Voters
<1>5. ASSUME NEW m \in Honest
      PROVE  /\ Sound(m, node[m], votes, certificates)'
             /\ SentTogether(node[m])'
  <2>1. CASE m = n
    <3>1. node'[n] = w.slot
      BY <1>1 DEF Inv, TypeOK
    <3>2. Sound(n, w.slot, w.votes, w.certificates)
      BY DEF WorldOK
    <3>. QED
      BY <1>1, <2>1, <3>1, <3>2 DEF Sound, SentTogether, VotesOnce, Ts2Certified,
           DeliveredCertified, CorrectOrigin, Voters, InRound
  <2>2. CASE m # n
    <3>1. node'[m] = node[m]
      BY <1>1, <2>2 DEF Inv, TypeOK
    <3>2. Sound(m, node[m], votes, certificates) /\ SentTogether(node[m])
      BY DEF Inv
    <3>3. /\ votes \subseteq w.votes /\ certificates \subseteq w.certificates
          /\ \A phase \in Phase, h \in Block :
                <<m, phase, h>> \in w.votes => <<m, phase, h>> \in votes
      BY <2>2 DEF WorldOK
    <3>4. VotesOnce(m, node[m], votes)'
      BY <1>1, <3>1, <3>2, <3>3 DEF Sound, VotesOnce, InRound
    <3>5. Ts2Certified(node[m], certificates)'
      BY <1>1, <3>1, <3>2, <3>3 DEF Sound, Ts2Certified
    <3>6. DeliveredCertified(node[m], certificates)'
      BY <1>1, <3>1, <3>2, <3>3 DEF Sound, DeliveredCertified
    <3>7. CorrectOrigin(node[m], votes, certificates)'
      <4>1. CorrectOrigin(w.slot, w.votes, w.certificates)
        BY DEF WorldOK, Sound
      <4>. QED
        BY <1>1, <3>1, <3>2, <3>3, <4>1 DEF Sound, CorrectOrigin, Voters
    <3>. QED
      BY <1>1, <3>1, <3>2, <3>4, <3>5, <3>6, <3>7 DEF Sound, SentTogether
  <2>. QED
    BY <2>1, <2>2
<1>. QED
  BY <1>3, <1>4, <1>5 DEF Inv

(* The invariant holds initially.                                          *)
LEMMA InitOK == Init => Inv
<1>. SUFFICES ASSUME Init PROVE Inv
  OBVIOUS
<1>. USE DEF Init
<1>1. NewSlot \in Slots
  BY DEF NewSlot, Slots
<1>2. TypeOK
  BY <1>1, ByzantineAssumption DEF TypeOK
<1>3. CertificatesVoted(votes, certificates)
  BY DEF CertificatesVoted
<1>4. ASSUME NEW n \in Honest
      PROVE  Sound(n, node[n], votes, certificates) /\ SentTogether(node[n])
  <2>1. /\ node[n] = NewSlot
        /\ NewSlot.block = {} /\ NewSlot.delivered = {}
        /\ \A phase \in Phase : NewSlot.sent_votes[phase] = {} /\ NewSlot.used[phase] = {}
    BY DEF NewSlot
  <2>2. \A phase \in Phase, h \in Block : <<n, phase, h>> \notin votes
    BY DEF Honest
  <2>3. VotesOnce(n, node[n], votes)
    BY <2>2 DEF VotesOnce
  <2>4. Ts2Certified(node[n], certificates) /\ SentTogether(node[n])
    BY <2>1 DEF Ts2Certified, SentTogether, Phase
  <2>5. DeliveredCertified(node[n], certificates)
    BY <2>1 DEF DeliveredCertified
  <2>6. CorrectOrigin(node[n], votes, certificates)
    BY <2>1 DEF CorrectOrigin
  <2>. QED
    BY <2>3, <2>4, <2>5, <2>6 DEF Sound
<1>. QED
  BY <1>2, <1>3, <1>4 DEF Inv

(* The proposal kept by handle_fast_block and handle_block keeps w sound.  *)
LEMMA FirstKeptOK ==
    ASSUME NEW n \in Honest, NEW w, WorldOK(n, w), NEW h \in Proposed, h \in Block
    PROVE  LET a == FirstKept(w, h)
           IN /\ WorldOK(n, a)
              /\ a.slot.sent_votes = w.slot.sent_votes
              /\ a.certificates = w.certificates
  BY BlockOK DEF FirstKept

(* handle_fast_block preserves the invariant.                              *)
LEMMA FastBlockStep ==
    ASSUME Inv, NEW n \in Honest, NEW h \in Block, handle_fast_block(n, h)
    PROVE  Inv'
<1>. DEFINE w == World(n)
            kept == FirstKept(w, h)
            a == IF h \in w.slot.ready THEN VoteBoth(kept, n, h) ELSE kept
<1>1. even = FALSE /\ h \in Proposed /\ Becomes(n, a)
  BY DEF handle_fast_block, FirstKept, Kept, CanPropose, Inv, TypeOK
<1>2. WorldOK(n, w) /\ SentTogether(w.slot)
  BY WorldIsOK
<1>. HIDE DEF w
<1>3. WorldOK(n, kept) /\ kept.slot.sent_votes = w.slot.sent_votes
  BY <1>1, <1>2, FirstKeptOK
<1>. HIDE DEF kept
<1>4. SentTogether(kept.slot)
  BY <1>2, <1>3 DEF SentTogether
<1>5. WorldOK(n, a) /\ SentTogether(a.slot)
  BY <1>1, <1>3, <1>4, VoteBothOK
<1>. HIDE DEF a
<1>. QED
  BY <1>1, <1>5, BecomesOK

(* The arrival of parents, with the retries it triggers, preserves it.     *)
LEMMA ParentsStep ==
    ASSUME Inv, NEW n \in Honest, NEW h \in Block, ParentsArrive(n, h)
    PROVE  Inv'
<1>. DEFINE r == Ready(World(n), h)
            w == update_dag(r)
            a == IF even THEN w ELSE retry_pending_epbc(w, n)
<1>1. Becomes(n, a) /\ even \in BOOLEAN
  BY DEF ParentsArrive, Ready, Inv, TypeOK
<1>2. WorldOK(n, World(n)) /\ SentTogether(World(n).slot)
  BY WorldIsOK
<1>3. WorldOK(n, r) /\ r.slot.sent_votes = World(n).slot.sent_votes
  BY <1>2, ReadyOK
<1>. HIDE DEF r
<1>4. WorldOK(n, w) /\ w.slot.sent_votes = r.slot.sent_votes
  BY <1>3, UpdateDagOK
<1>. HIDE DEF w
<1>5. SentTogether(w.slot)
  BY <1>2, <1>3, <1>4 DEF SentTogether
<1>6. WorldOK(n, a) /\ SentTogether(a.slot)
  <2>1. CASE even = TRUE
    BY <1>4, <1>5, <2>1
  <2>2. CASE even = FALSE
    BY <1>4, <1>5, <2>2, RetryOK
  <2>. QED
    BY <1>1, <2>1, <2>2
<1>. HIDE DEF a
<1>. QED
  BY <1>1, <1>6, BecomesOK

(* handle_epbc_vote preserves it.                                          *)
LEMMA EpbcVoteStep ==
    ASSUME Inv, NEW n \in Honest, NEW v \in Authority, NEW phase \in Phase,
           NEW h \in Block, handle_epbc_vote(n, v, phase, h)
    PROVE  Inv'
<1>. DEFINE w == World(n)
            c == AppendVote(w, v, phase, h)
            a == IF phase = "Ts1" THEN CountTs1(w, n, v, h)
                 ELSE DeliverNew(c, w, phase, h)
<1>1. /\ even = FALSE /\ n = origin /\ <<v, phase, h>> \in votes
      /\ Becomes(n, a)
  BY DEF handle_epbc_vote, Inv, TypeOK
<1>2. WorldOK(n, w) /\ SentTogether(w.slot) /\ w.votes = votes
  BY WorldIsOK
<1>. HIDE DEF w
<1>3. CASE phase = "Ts1"
  <2>1. WorldOK(n, CountTs1(w, n, v, h)) /\ SameProposalVotes(CountTs1(w, n, v, h), w)
    BY <1>1, <1>2, <1>3, CountTs1OK
  <2>2. a = CountTs1(w, n, v, h)
    BY <1>3
  <2>. HIDE DEF a
  <2>3. WorldOK(n, a) /\ SentTogether(a.slot)
    BY <1>2, <2>1, <2>2 DEF SameProposalVotes, SentTogether
  <2>. QED
    BY <1>1, <2>3, BecomesOK
<1>4. CASE phase # "Ts1"
  <2>1. /\ WorldOK(n, c) /\ c.slot.sent_votes = w.slot.sent_votes
        /\ c.certificates # w.certificates => <<phase, h>> \in c.certificates
    BY <1>1, <1>2, AppendVoteOK
  <2>2. a = IF c.certificates = w.certificates THEN c ELSE Deliver(c, h)
    BY <1>4 DEF DeliverNew
  <2>. HIDE DEF a, c
  <2>3. WorldOK(n, a) /\ a.slot.sent_votes = w.slot.sent_votes
    BY <1>4, <2>1, <2>2, DeliverOK
  <2>4. SentTogether(a.slot)
    BY <1>2, <2>3 DEF SentTogether
  <2>. QED
    BY <1>1, <2>3, <2>4, BecomesOK
<1>. QED
  BY <1>3, <1>4

(* handle_epbc_certificate preserves it.                                   *)
LEMMA EpbcCertificateStep ==
    ASSUME Inv, NEW n \in Honest, NEW phase \in Phase, NEW h \in Block,
           handle_epbc_certificate(n, phase, h)
    PROVE  Inv'
<1>. DEFINE w == World(n)
            b == Kept(w, h)
            a == IF phase = "Ts1" THEN VoteTs2(w, n, h) ELSE Deliver(b, h)
<1>1. /\ even = FALSE /\ <<phase, h>> \in certificates
      /\ Becomes(n, a)
  BY DEF handle_epbc_certificate, Inv, TypeOK, Kept
<1>2. WorldOK(n, w) /\ SentTogether(w.slot) /\ w.certificates = certificates
  BY WorldIsOK
<1>. HIDE DEF w
<1>3. CASE phase = "Ts1"
  <2>1. WorldOK(n, VoteTs2(w, n, h)) /\ SameProposalVotes(VoteTs2(w, n, h), w)
    BY <1>1, <1>2, <1>3, VoteTs2OK
  <2>2. a = VoteTs2(w, n, h)
    BY <1>3
  <2>. HIDE DEF a
  <2>3. WorldOK(n, a) /\ SentTogether(a.slot)
    BY <1>2, <2>1, <2>2 DEF SameProposalVotes, SentTogether
  <2>. QED
    BY <1>1, <2>3, BecomesOK
<1>4. CASE phase # "Ts1"
  <2>1. origin \in Honest => h \in Proposed
    BY <1>1, <1>2 DEF WorldOK, Sound, CorrectOrigin
  <2>2. /\ WorldOK(n, b) /\ b.slot.sent_votes = w.slot.sent_votes
        /\ b.certificates = w.certificates
    BY <1>2, <2>1, BlockOK
  <2>3. a = Deliver(b, h)
    BY <1>4
  <2>. HIDE DEF a, b
  <2>4. WorldOK(n, a) /\ a.slot.sent_votes = w.slot.sent_votes
    BY <1>1, <1>2, <1>4, <2>2, <2>3, DeliverOK
  <2>5. SentTogether(a.slot)
    BY <1>2, <2>4 DEF SentTogether
  <2>. QED
    BY <1>1, <2>4, <2>5, BecomesOK
<1>. QED
  BY <1>3, <1>4

(* Pb::handle_block preserves it.                                          *)
LEMMA BlockStep ==
    ASSUME Inv, NEW n \in Honest, NEW h \in Block, handle_block(n, h)
    PROVE  Inv'
<1>. DEFINE w == World(n)
            kept == FirstKept(w, h)
            next == Sent(kept, n, "Pbc", h)
            a == IF should_send_vote(w.slot, "Pbc", h) THEN next ELSE kept
<1>1. even = TRUE /\ h \in Proposed /\ Becomes(n, a)
  BY DEF handle_block, FirstKept, Kept, CanPropose, Inv, TypeOK, Sent
<1>2. WorldOK(n, w) /\ SentTogether(w.slot)
  BY WorldIsOK
<1>. HIDE DEF w
<1>3. WorldOK(n, kept) /\ kept.slot.sent_votes = w.slot.sent_votes
  BY <1>1, <1>2, FirstKeptOK
<1>. HIDE DEF kept
<1>4. CASE w.slot.sent_votes["Pbc"] = {}
  <2>1. "Pbc" \in Phase /\ InRound("Pbc") /\ kept.slot.sent_votes["Pbc"] = {}
    BY <1>1, <1>3, <1>4 DEF Phase, InRound
  <2>2. WorldOK(n, next) /\ next.slot.sent_votes = Voted(kept.slot.sent_votes, "Pbc", h)
    <3>. DEFINE phase == "Pbc"
    <3>1. /\ phase \in Phase /\ InRound(phase) /\ phase # "Ts2"
          /\ kept.slot.sent_votes[phase] = {}
      BY <2>1
    <3>. HIDE DEF phase
    <3>2. /\ WorldOK(n, Sent(kept, n, phase, h))
          /\ Sent(kept, n, phase, h).slot.sent_votes = Voted(kept.slot.sent_votes, phase, h)
      BY <1>3, <3>1, SentOK
    <3>. QED
      BY <3>2 DEF phase
  <2>3. a = next
    BY <1>4 DEF should_send_vote
  <2>. HIDE DEF a, next
  <2>4. kept.slot.sent_votes \in [Phase -> SUBSET Block]
    BY <1>3 DEF WorldOK, Worlds, Slots
  <2>5. SentTogether(a.slot)
    BY <1>2, <1>3, <2>2, <2>3, <2>4 DEF SentTogether, Voted, Phase
  <2>. QED
    BY <1>1, <2>2, <2>3, <2>5, BecomesOK
<1>5. CASE w.slot.sent_votes["Pbc"] # {}
  <2>1. a = kept
    BY <1>5 DEF should_send_vote
  <2>2. SentTogether(kept.slot)
    BY <1>2, <1>3 DEF SentTogether
  <2>. QED
    BY <1>1, <1>3, <2>1, <2>2, BecomesOK
<1>. QED
  BY <1>4, <1>5

(* Pb::handle_vote preserves it.                                           *)
LEMMA VoteStep ==
    ASSUME Inv, NEW n \in Honest, NEW v \in Authority, NEW h \in Block,
           handle_vote(n, v, h)
    PROVE  Inv'
<1>. DEFINE w == World(n)
            c == AppendVote(w, v, "Pbc", h)
            a == IF c.certificates = w.certificates THEN c ELSE try_to_output(c)
<1>1. /\ n = origin /\ <<v, "Pbc", h>> \in votes
      /\ Becomes(n, a)
  BY DEF handle_vote
<1>2. WorldOK(n, w) /\ SentTogether(w.slot) /\ w.votes = votes
  BY WorldIsOK
<1>. HIDE DEF w
<1>3. /\ WorldOK(n, c) /\ c.slot.sent_votes = w.slot.sent_votes
      /\ c.slot.block = w.slot.block
      /\ c.certificates # w.certificates =>
            <<"Pbc", h>> \in c.certificates /\ h \in w.slot.block
  <2>1. "Pbc" \in Phase
    BY DEF Phase
  <2>. QED
    BY <1>1, <1>2, <2>1, AppendVoteOK
<1>. HIDE DEF c
<1>4. c.certificates # w.certificates => \A g \in c.slot.block : <<"Pbc", g>> \in c.certificates
  <2>1. c.slot.block \subseteq Proposed
    BY <1>1, <1>3 DEF WorldOK, Sound, CorrectOrigin
  <2>. QED
    BY <1>1, <1>3, <2>1, ProposedSingle
<1>5. WorldOK(n, a) /\ a.slot.sent_votes = w.slot.sent_votes
  BY <1>3, <1>4, OutputOK
<1>. HIDE DEF a
<1>6. SentTogether(a.slot)
  BY <1>2, <1>5 DEF SentTogether
<1>. QED
  BY <1>1, <1>5, <1>6, BecomesOK

(* Pb::handle_certificate preserves it.                                    *)
LEMMA CertificateStep ==
    ASSUME Inv, NEW n \in Honest, NEW h \in Block, handle_certificate(n, h)
    PROVE  Inv'
<1>. DEFINE w == World(n)
            b == Kept(w, h)
            a == try_to_output(b)
<1>1. <<"Pbc", h>> \in certificates /\ Becomes(n, a)
  BY DEF handle_certificate, Kept
<1>2. WorldOK(n, w) /\ SentTogether(w.slot) /\ w.certificates = certificates
  BY WorldIsOK
<1>. HIDE DEF w
<1>3. origin \in Honest => h \in Proposed
  BY <1>1, <1>2 DEF WorldOK, Sound, CorrectOrigin, Phase
<1>4. /\ WorldOK(n, b) /\ b.slot.sent_votes = w.slot.sent_votes
      /\ b.slot.block = {h} /\ b.certificates = w.certificates
  BY <1>2, <1>3, BlockOK
<1>. HIDE DEF b
<1>5. WorldOK(n, a) /\ a.slot.sent_votes = w.slot.sent_votes
  BY <1>1, <1>2, <1>4, OutputOK
<1>. HIDE DEF a
<1>6. SentTogether(a.slot)
  BY <1>2, <1>5 DEF SentTogether
<1>. QED
  BY <1>1, <1>5, <1>6, BecomesOK

(* The certificate of a Byzantine origin preserves it.                     *)
LEMMA ByzantineCertificateStep ==
    ASSUME Inv, NEW phase \in Phase, NEW h \in Block, ByzantineCertificate(phase, h)
    PROVE  Inv'
<1>1. /\ origin \notin Honest
      /\ certificates' = certificates \cup {<<phase, h>>}
      /\ node' = node /\ votes' = votes /\ origin' = origin /\ even' = even
      /\ Certifies(votes, phase, h)
  BY DEF ByzantineCertificate, Honest, Certifies, Voters
<1>2. TypeOK'
  BY <1>1 DEF Inv, TypeOK
<1>3. CertificatesVoted(votes, certificates)'
  BY <1>1 DEF Inv, CertificatesVoted, Certifies, Voters
<1>4. ASSUME NEW n \in Honest
      PROVE  Sound(n, node[n], votes, certificates)' /\ SentTogether(node[n])'
  <2>1. Sound(n, node[n], votes, certificates) /\ SentTogether(node[n])
    BY DEF Inv
  <2>2. VotesOnce(n, node[n], votes)'
    BY <1>1, <2>1 DEF Sound, VotesOnce, InRound
  <2>3. Ts2Certified(node[n], certificates)' /\ SentTogether(node[n])'
    BY <1>1, <2>1 DEF Sound, Ts2Certified, SentTogether
  <2>4. DeliveredCertified(node[n], certificates)'
    BY <1>1, <2>1 DEF Sound, DeliveredCertified
  <2>5. CorrectOrigin(node[n], votes, certificates)'
    BY <1>1 DEF CorrectOrigin
  <2>. QED
    BY <2>2, <2>3, <2>4, <2>5 DEF Sound
<1>. QED
  BY <1>2, <1>3, <1>4 DEF Inv

(* A step that changes nothing preserves it.                               *)
LEMMA StutterStep ==
    ASSUME Inv, UNCHANGED vars
    PROVE  Inv'
<1>1. /\ origin' = origin /\ even' = even /\ node' = node /\ votes' = votes
      /\ certificates' = certificates
  BY DEF vars
<1>2. TypeOK' /\ CertificatesVoted(votes, certificates)'
  BY <1>1 DEF Inv, TypeOK, CertificatesVoted, Certifies, Voters
<1>3. ASSUME NEW n \in Honest
      PROVE  Sound(n, node[n], votes, certificates)' /\ SentTogether(node[n])'
  BY <1>1 DEF Inv, Sound, VotesOnce, InRound, Ts2Certified, SentTogether,
       DeliveredCertified, CorrectOrigin, Proposed, Voters
<1>. QED
  BY <1>2, <1>3 DEF Inv

(* Every step preserves the invariant.                                     *)
LEMMA NextStep == Inv /\ [Next]_vars => Inv'
<1>. SUFFICES ASSUME Inv, [Next]_vars PROVE Inv'
  OBVIOUS
<1>1. CASE UNCHANGED vars
  BY <1>1, StutterStep
<1>2. ASSUME NEW n \in Honest, Proposal(n)
      PROVE  Inv'
  BY <1>2, FastBlockStep, BlockStep DEF Proposal
<1>3. ASSUME NEW n \in Honest, Handles(n, Authority)
      PROVE  Inv'
  BY <1>3, ParentsStep, EpbcVoteStep, EpbcCertificateStep, VoteStep, CertificateStep
     DEF Handles
<1>4. ASSUME NEW phase \in Phase, NEW h \in Block, ByzantineCertificate(phase, h)
      PROVE  Inv'
  BY <1>4, ByzantineCertificateStep
<1>. QED
  BY <1>1, <1>2, <1>3, <1>4 DEF Next

(* The inductive invariant holds throughout every behaviour of the two     *)
(* broadcasts.                                                             *)
THEOREM BroadcastInvariance == Spec => []Inv
<1>1. Init => Inv
  BY InitOK
<1>2. Inv /\ [Next]_vars => Inv'
  BY NextStep
<1>. QED
  BY <1>1, <1>2, PTL DEF Spec

-----------------------------------------------------------------------------
(* The votes of a certificate, of any phase, come from a quorum: for Tf    *)
(* they come from everybody, and somebody has stake.                       *)
LEMMA CertificateHasQuorum ==
    ASSUME Inv, NEW phase \in Phase, NEW h \in Block, <<phase, h>> \in certificates
    PROVE  HasQuorum(Voters(votes, phase, h))
<1>1. Weight[Voters(votes, phase, h)] >= threshold(phase)
  BY DEF Inv, CertificatesVoted, Certifies
<1>2. /\ Weight[Voters(votes, phase, h)] \in Nat /\ total_votes \in Nat
      /\ Weight[Byzantine] \in Nat
  BY WeightAssumption, ByzantineAssumption DEF Voters, total_votes
<1>3. total_votes >= 1
  BY <1>2, FaultAssumption DEF validity_threshold
<1>4. total_votes >= quorum_threshold /\ quorum_threshold \in Nat
  BY <1>2, <1>3 DEF quorum_threshold
<1>. QED
  BY <1>1, <1>2, <1>4 DEF threshold, HasQuorum

(* Some correct authority voted for both of two certificates.              *)
LEMMA CommonVoter ==
    ASSUME Inv, NEW p \in Phase, NEW q \in Phase, NEW g \in Block, NEW h \in Block,
           <<p, g>> \in certificates, <<q, h>> \in certificates
    PROVE  \E n \in Honest : <<n, p, g>> \in votes /\ <<n, q, h>> \in votes
<1>1. /\ HasQuorum(Voters(votes, p, g)) /\ HasQuorum(Voters(votes, q, h))
      /\ Voters(votes, p, g) \in SUBSET Authority
      /\ Voters(votes, q, h) \in SUBSET Authority
  BY CertificateHasQuorum DEF Voters
<1>2. PICK n \in Honest : n \in Voters(votes, p, g) \cap Voters(votes, q, h)
  BY <1>1, QuorumIntersection
<1>. QED
  BY <1>2 DEF Voters

(* Two delivering certificates of a slot are for the same block. Of the    *)
(* same phase, a correct authority voted for both and it votes once in a   *)
(* phase. Ts2 against Tf: the Ts2 block has a Ts1 certificate, and the     *)
(* correct authority that voted for it in Ts1 voted for the same block in  *)
(* Tf. Pbc belongs to even rounds and the others to odd ones.              *)
LEMMA CertificatesAgree ==
    ASSUME Inv, NEW p \in Phase \ {"Ts1"}, NEW q \in Phase \ {"Ts1"},
           NEW g \in Block, NEW h \in Block,
           <<p, g>> \in certificates, <<q, h>> \in certificates
    PROVE  g = h
<1>. DEFINE Once(n) == \A r \in Phase, b \in Block :
                          <<n, r, b>> \in votes =>
                             node[n].sent_votes[r] = {b} /\ InRound(r)
<1>1. \A n \in Honest : Once(n)
  BY DEF Inv, Sound, VotesOnce
<1>2. ASSUME NEW b \in Block, NEW c \in Block,
             <<"Ts2", b>> \in certificates, <<"Tf", c>> \in certificates
      PROVE  b = c
  <2>1. "Ts1" \in Phase /\ "Ts2" \in Phase /\ "Tf" \in Phase
    BY DEF Phase
  <2>2. PICK m \in Honest : <<m, "Ts2", b>> \in votes
    BY <1>2, <2>1, CommonVoter
  <2>3. node[m].sent_votes["Ts2"] = {b}
    BY <1>1, <2>1, <2>2
  <2>4. <<"Ts1", b>> \in certificates
    BY <2>3 DEF Inv, Sound, Ts2Certified
  <2>5. PICK n \in Honest : <<n, "Ts1", b>> \in votes /\ <<n, "Tf", c>> \in votes
    BY <1>2, <2>1, <2>4, CommonVoter
  <2>6. node[n].sent_votes["Ts1"] = {b} /\ node[n].sent_votes["Tf"] = {c}
    BY <1>1, <2>1, <2>5
  <2>7. node[n].sent_votes["Ts1"] = node[n].sent_votes["Tf"]
    BY DEF Inv, SentTogether
  <2>. QED
    BY <2>6, <2>7
<1>3. PICK n \in Honest : <<n, p, g>> \in votes /\ <<n, q, h>> \in votes
  BY CommonVoter
<1>4. /\ node[n].sent_votes[p] = {g} /\ node[n].sent_votes[q] = {h}
      /\ InRound(p) /\ InRound(q)
  BY <1>1, <1>3
<1>5. CASE p = q
  BY <1>4, <1>5
<1>6. CASE p # q
  <2>1. (p = "Pbc") = (q = "Pbc")
    BY <1>4 DEF InRound
  <2>2. \/ p = "Ts2" /\ q = "Tf"
        \/ p = "Tf" /\ q = "Ts2"
    BY <1>6, <2>1 DEF Phase
  <2>. QED
    BY <1>2, <2>2
<1>. QED
  BY <1>5, <1>6

(* The invariant implies agreement.                                        *)
LEMMA InvSlotAgreement == Inv => SlotAgreement
<1>. SUFFICES ASSUME Inv, NEW m \in Honest, NEW n \in Honest,
                     NEW g \in node[m].delivered, NEW h \in node[n].delivered
              PROVE  g = h
  BY DEF SlotAgreement
<1>1. g \in Block /\ h \in Block
  BY DEF Inv, TypeOK, Slots
<1>2. PICK p \in Phase \ {"Ts1"} : <<p, g>> \in certificates
  BY DEF Inv, Sound, DeliveredCertified
<1>3. PICK q \in Phase \ {"Ts1"} : <<q, h>> \in certificates
  BY DEF Inv, Sound, DeliveredCertified
<1>. QED
  BY <1>1, <1>2, <1>3, CertificatesAgree

(* No two correct authorities deliver different blocks for a slot, through *)
(* EPBC (Ts2 or the fast path Tf) or PBC, for every committee, every stake *)
(* distribution and every set of blocks a Byzantine origin signs.          *)
THEOREM SlotAgreementHolds == Spec => []SlotAgreement
  BY BroadcastInvariance, InvSlotAgreement, PTL

-----------------------------------------------------------------------------
(* The node.                                                               *)

-----------------------------------------------------------------------------
(* The values the state of a node can have.                                *)

Rounds == 1 .. MaxRound

(* The slots of blocks.                                                    *)
Slot == Authority \X Rounds

(* Parents, for the slots of a set.                                        *)
BlockMap == UNION {[D -> SUBSET Slot] : D \in SUBSET Slot}

Message == {"Certificate", "Elect"} \X Rounds

NodeState ==
    [round : Rounds, dag : SUBSET Slot, pending_blocks : SUBSET Slot, done : SUBSET Slot,
     elect : [Rounds -> SUBSET Authority], leader : SUBSET Rounds,
     chain_round : 0 .. MaxRound, chain : SUBSET Slot,
     committed : Seq(Slot), output : Seq(SUBSET Slot)]

NodeWorlds == [s : NodeState, parents : BlockMap, sent : Seq(Message)]

(* The blocks of a sequence of sets.                                       *)
BlocksOf(t) == {x \in Slot : \E i \in 1 .. Len(t) : x \in t[i]}

Disjoint(t) == \A i, j \in 1 .. Len(t) : i # j => t[i] \cap t[j] = {}

(* S holds the parents of its members.                                     *)
Closed(P, S) == \A x \in S : P[x] \subseteq S

-----------------------------------------------------------------------------
(* Recursive functions.                                                    *)

(* A recursive function that is defined from a up to b exists.             *)
UpFrom(f, a, b, v, G) == f[a] = v /\ \A r \in a + 1 .. b : f[r] = G[<<r, f[r - 1]>>]

(* A recursion upwards over a range of integers has a solution.            *)
LEMMA UpwardRecursion ==
    ASSUME NEW a \in Int, NEW b \in Int, a <= b, NEW V, NEW v \in V,
           NEW G \in [(a .. b) \X V -> V]
    PROVE  \E f \in [a .. b -> V] : UpFrom(f, a, b, v, G)
<1>. DEFINE H == [x \in ((-b) .. (-a)) \X V |-> G[<<-x[1], x[2]>>]]
<1>1. /\ -b \in Int /\ -a \in Int /\ -b <= -a
      /\ \A r \in (-b) .. (-a) : -r \in a .. b /\ -(-r) = r
      /\ \A r \in a .. b : -r \in (-b) .. (-a) /\ -(-r) = r
  OBVIOUS
<1>2. H \in [((-b) .. (-a)) \X V -> V]
  BY <1>1
<1>3. PICK g \in [(-b) .. (-a) -> V] : DownFrom(g, -b, -a, v, H)
  <2>. HIDE DEF H
  <2>. QED
    BY <1>1, <1>2, DownwardRecursion
<1>. DEFINE f == [r \in a .. b |-> g[-r]]
<1>4. f \in [a .. b -> V]
  BY <1>1
<1>5. f[a] = v
  BY <1>3 DEF DownFrom
<1>6. ASSUME NEW r \in a + 1 .. b PROVE f[r] = G[<<r, f[r - 1]>>]
  <2>1. /\ r \in a .. b /\ r - 1 \in a .. b /\ -r \in (-b) .. (-a) - 1
        /\ -(r - 1) = -r + 1 /\ -r \in (-b) .. (-a) /\ -r + 1 \in (-b) .. (-a)
        /\ -(-r) = r
    OBVIOUS
  <2>2. g[-r] = H[<<-r, g[-r + 1]>>]
    BY <1>3, <2>1 DEF DownFrom
  <2>3. g[-r + 1] \in V
    BY <2>1
  <2>4. H[<<-r, g[-r + 1]>>] = G[<<r, g[-r + 1]>>]
    BY <2>1, <2>3
  <2>. HIDE DEF H
  <2>. QED
    BY <2>1, <2>2, <2>4
<1>. QED
  BY <1>4, <1>5, <1>6 DEF UpFrom

(* The members of a recursive function whose steps stay in V are in V.     *)
LEMMA UpwardInvariance ==
    ASSUME NEW a \in Int, NEW b \in Int, a <= b, NEW V, NEW f,
           f[a] \in V,
           \A r \in a + 1 .. b : f[r - 1] \in V => f[r] \in V
    PROVE  \A r \in a .. b : f[r] \in V
<1>. DEFINE T == {i \in Nat : a + i \in a .. b => f[a + i] \in V}
<1>1. 0 \in T
  OBVIOUS
<1>2. ASSUME NEW i \in T PROVE i + 1 \in T
  <2>1. SUFFICES ASSUME a + (i + 1) \in a .. b PROVE f[a + (i + 1)] \in V
    OBVIOUS
  <2>2. a + i \in a .. b /\ a + (i + 1) \in a + 1 .. b /\ a + (i + 1) - 1 = a + i
    BY <2>1
  <2>. QED
    BY <2>2
<1>3. T = Nat
  <2>. HIDE DEF T
  <2>. QED
    BY <1>1, <1>2, SetInduction, T \in SUBSET Nat DEF T
<1>4. ASSUME NEW r \in a .. b PROVE f[r] \in V
  <2>1. r - a \in Nat /\ a + (r - a) = r
    OBVIOUS
  <2>. QED
    BY <1>3, <2>1
<1>. QED
  BY <1>4

(* Induction downwards, for the set of the numbers with the property.      *)
LEMMA DownwardInduction ==
    ASSUME NEW a \in Int, NEW b \in Int, a <= b, NEW Q, b \in Q,
           \A r \in a .. b - 1 : r + 1 \in Q => r \in Q
    PROVE  a .. b \subseteq Q
<1>. DEFINE T == {i \in Nat : b - i \in a .. b => b - i \in Q}
<1>1. 0 \in T
  OBVIOUS
<1>2. ASSUME NEW i \in T PROVE i + 1 \in T
  <2>1. SUFFICES ASSUME b - (i + 1) \in a .. b PROVE b - (i + 1) \in Q
    OBVIOUS
  <2>2. b - i \in a .. b /\ b - (i + 1) \in a .. b - 1 /\ b - (i + 1) + 1 = b - i
    BY <2>1
  <2>. QED
    BY <2>2
<1>3. T = Nat
  <2>. HIDE DEF T
  <2>. QED
    BY <1>1, <1>2, SetInduction, T \in SUBSET Nat DEF T
<1>4. ASSUME NEW r \in a .. b PROVE r \in Q
  <2>1. b - r \in Nat /\ b - (b - r) = r
    OBVIOUS
  <2>2. b - r \in T
    BY <1>3, <2>1
  <2>. QED
    BY <2>1, <2>2
<1>. QED
  BY <1>4

-----------------------------------------------------------------------------
(* Walks.                                                                  *)

(* A slot is of an authority and a round.                                  *)
LEMMA SlotFacts ==
    ASSUME NEW h \in Slot
    PROVE  /\ author(h) \in Authority /\ round(h) \in Rounds /\ round(h) \in Nat
           /\ MaxRound \in Nat /\ round(h) >= 1 /\ round(h) <= MaxRound
           /\ h = <<author(h), round(h)>>
BY WahooAssumption DEF Slot, Rounds, author, round

(* The equation of Walk.                                                   *)
IsWalk(f, w, h, stop) ==
    f = [r \in 0 .. round(h) |->
           IF r = round(h) THEN {h}
           ELSE LET above == f[r + 1]
                IN ((UNION {w.parents[x] : x \in above}) \cap w.s.dag) \ stop]

(* Walk is a choice among the solutions of its recursion.                  *)
LEMMA WalkIs ==
    ASSUME NEW w, NEW h, NEW stop
    PROVE  Walk(w, h, stop) = CHOOSE f : IsWalk(f, w, h, stop)
  BY DEF Walk, IsWalk

(* The recursion of Walk defines a function.                               *)
LEMMA WalkExists ==
    ASSUME NEW w, w.s.dag \subseteq Slot, NEW h \in Slot, NEW stop
    PROVE  \E f : IsWalk(f, w, h, stop)
<1>. DEFINE below(A) == ((UNION {w.parents[x] : x \in A}) \cap w.s.dag) \ stop
            G == [y \in (0 .. round(h)) \X (SUBSET Slot) |-> below(y[2])]
<1>1. round(h) \in Int /\ 0 <= round(h) /\ 0 \in Int
  BY SlotFacts
<1>2. {h} \in SUBSET Slot
  OBVIOUS
<1>3. \A A : below(A) \in SUBSET Slot
  OBVIOUS
<1>. HIDE DEF below
<1>4. G \in [(0 .. round(h)) \X (SUBSET Slot) -> SUBSET Slot]
  BY <1>3
<1>5. PICK f \in [0 .. round(h) -> SUBSET Slot] : DownFrom(f, 0, round(h), {h}, G)
  <2>. HIDE DEF G
  <2>. QED
    BY <1>1, <1>2, <1>4, DownwardRecursion
<1>6. ASSUME NEW r \in 0 .. round(h), r # round(h) PROVE f[r] = below(f[r + 1])
  <2>1. r \in 0 .. round(h) - 1 /\ r + 1 \in 0 .. round(h)
    BY <1>1, <1>6
  <2>2. f[r] = G[<<r, f[r + 1]>>]
    BY <1>5, <2>1 DEF DownFrom
  <2>3. f[r + 1] \in SUBSET Slot
    BY <2>1
  <2>. QED
    BY <2>2, <2>3
<1>7. f[round(h)] = {h}
  BY <1>5 DEF DownFrom
<1>8. f = [r \in 0 .. round(h) |-> IF r = round(h) THEN {h} ELSE below(f[r + 1])]
  BY <1>6, <1>7
<1>. QED
  BY <1>8 DEF IsWalk, below

(* The levels of a walk are those of the equation.                         *)
LEMMA WalkLevels ==
    ASSUME NEW w, w.s.dag \subseteq Slot, NEW h \in Slot, NEW stop
    PROVE  /\ Walk(w, h, stop)[round(h)] = {h}
           /\ \A r \in 0 .. round(h) - 1 : \A x :
                 x \in Walk(w, h, stop)[r] <=>
                    /\ \E y \in Walk(w, h, stop)[r + 1] : x \in w.parents[y]
                    /\ x \in w.s.dag
                    /\ x \notin stop
<1>. DEFINE f == Walk(w, h, stop)
<1>1. IsWalk(f, w, h, stop)
  BY WalkIs, WalkExists
<1>2. round(h) \in Nat
  BY SlotFacts
<1>. HIDE DEF f
<1>3. f[round(h)] = {h}
  BY <1>1, <1>2 DEF IsWalk
<1>4. ASSUME NEW r \in 0 .. round(h) - 1
      PROVE  f[r] = ((UNION {w.parents[x] : x \in f[r + 1]}) \cap w.s.dag) \ stop
  BY <1>1, <1>2 DEF IsWalk
<1>5. ASSUME NEW r \in 0 .. round(h) - 1, NEW x
      PROVE  x \in f[r] <=> /\ \E y \in f[r + 1] : x \in w.parents[y]
                            /\ x \in w.s.dag
                            /\ x \notin stop
  BY <1>4
<1>. QED
  BY <1>3, <1>5 DEF f

(* The dag of a node: the parents of its blocks, of the round before, are  *)
(* in it.                                                                  *)
DagOK(w) ==
    /\ DOMAIN w.parents \subseteq Slot
    /\ \A x \in DOMAIN w.parents : \A p \in w.parents[x] :
          p \in DOMAIN w.parents /\ round(p) = round(x) - 1
    /\ w.s.dag \subseteq DOMAIN w.parents
    /\ Closed(w.parents, w.s.dag)

(* A walk from a block of the dag finds, at every level, blocks of the dag *)
(* of that round.                                                          *)
LEMMA WalkRounds ==
    ASSUME NEW w, DagOK(w), NEW h \in w.s.dag, NEW stop
    PROVE  \A r \in 0 .. round(h) : \A x \in Walk(w, h, stop)[r] :
              x \in w.s.dag /\ round(x) = r /\ r # 0
<1>. DEFINE f == Walk(w, h, stop)
            Q == {r \in 0 .. round(h) : \A x \in f[r] : x \in w.s.dag /\ round(x) = r}
<1>1. h \in Slot /\ w.s.dag \subseteq Slot
  BY DEF DagOK
<1>2. round(h) \in Nat
  BY <1>1, SlotFacts
<1>3. /\ f[round(h)] = {h}
      /\ \A r \in 0 .. round(h) - 1 : \A x \in f[r] :
            (\E y \in f[r + 1] : x \in w.parents[y]) /\ x \in w.s.dag
  BY <1>1, WalkLevels
<1>. HIDE DEF f
<1>4. round(h) \in Q
  BY <1>2, <1>3
<1>5. ASSUME NEW r \in 0 .. round(h) - 1, r + 1 \in Q PROVE r \in Q
  <2>1. ASSUME NEW x \in f[r] PROVE x \in w.s.dag /\ round(x) = r
    <3>1. PICK y \in f[r + 1] : x \in w.parents[y]
      BY <1>3
    <3>2. y \in w.s.dag /\ round(y) = r + 1
      BY <1>5
    <3>3. round(x) = (r + 1) - 1
      BY <3>1, <3>2 DEF DagOK
    <3>. QED
      BY <1>3, <3>3
  <2>. QED
    BY <2>1, <1>2
<1>6. 0 .. round(h) \subseteq Q
  <2>. HIDE DEF Q
  <2>. QED
    BY <1>2, <1>4, <1>5, DownwardInduction
<1>7. ASSUME NEW r \in 0 .. round(h), NEW x \in f[r]
      PROVE  x \in w.s.dag /\ round(x) = r /\ r # 0
  <2>1. x \in w.s.dag /\ round(x) = r
    BY <1>6
  <2>2. x \in Slot
    BY <1>1, <2>1
  <2>. QED
    BY <2>1, <2>2, SlotFacts
<1>. QED
  BY <1>7 DEF f

-----------------------------------------------------------------------------
(* The commit of one leader.                                               *)

(* What a sequence of sets holds, for two sequences one after the other.   *)
LEMMA BlocksOfConcat ==
    ASSUME NEW s \in Seq(SUBSET Slot), NEW t \in Seq(SUBSET Slot)
    PROVE  /\ s \o t \in Seq(SUBSET Slot)
           /\ BlocksOf(s \o t) = BlocksOf(s) \cup BlocksOf(t)
           /\ Disjoint(s) /\ Disjoint(t) /\ BlocksOf(s) \cap BlocksOf(t) = {}
                 => Disjoint(s \o t)
<1>. DEFINE o == s \o t
<1>1. /\ o \in Seq(SUBSET Slot)
      /\ Len(o) = Len(s) + Len(t) /\ Len(s) \in Nat /\ Len(t) \in Nat
      /\ \A i \in 1 .. Len(s) : o[i] = s[i]
      /\ \A i \in 1 .. Len(t) : o[Len(s) + i] = t[i]
  OBVIOUS
<1>2. /\ \A i \in 1 .. Len(s) : s[i] \subseteq BlocksOf(s)
      /\ \A i \in 1 .. Len(t) : t[i] \subseteq BlocksOf(t)
  <2>1. /\ \A i \in 1 .. Len(s) : s[i] \subseteq Slot
        /\ \A i \in 1 .. Len(t) : t[i] \subseteq Slot
    OBVIOUS
  <2>. QED
    BY <2>1 DEF BlocksOf
<1>. HIDE DEF o
<1>3. \A i \in 1 .. Len(o) : \/ i \in 1 .. Len(s) /\ o[i] = s[i]
                             \/ i - Len(s) \in 1 .. Len(t) /\ o[i] = t[i - Len(s)]
  <2>. TAKE i \in 1 .. Len(o)
  <2>1. CASE i <= Len(s)
    BY <1>1, <2>1
  <2>2. CASE i > Len(s)
    <3>1. i - Len(s) \in 1 .. Len(t) /\ Len(s) + (i - Len(s)) = i
      BY <1>1, <2>2
    <3>. QED
      BY <1>1, <3>1
  <2>. QED
    BY <1>1, <2>1, <2>2
<1>4. BlocksOf(o) = BlocksOf(s) \cup BlocksOf(t)
  <2>1. ASSUME NEW x \in Slot, NEW i \in 1 .. Len(o), x \in o[i]
        PROVE  x \in BlocksOf(s) \cup BlocksOf(t)
    BY <1>2, <1>3, <2>1
  <2>2. ASSUME NEW x \in Slot, NEW i \in 1 .. Len(s), x \in s[i]
        PROVE  i \in 1 .. Len(o) /\ x \in o[i]
    BY <1>1, <2>2
  <2>3. ASSUME NEW x \in Slot, NEW i \in 1 .. Len(t), x \in t[i]
        PROVE  Len(s) + i \in 1 .. Len(o) /\ x \in o[Len(s) + i]
    BY <1>1, <2>3
  <2>. QED
    BY <2>1, <2>2, <2>3 DEF BlocksOf
<1>5. ASSUME Disjoint(s), Disjoint(t), BlocksOf(s) \cap BlocksOf(t) = {}
      PROVE  Disjoint(o)
  <2>1. SUFFICES ASSUME NEW i \in 1 .. Len(o), NEW j \in 1 .. Len(o), i # j
                 PROVE  o[i] \cap o[j] = {}
    BY DEF Disjoint
  <2>2. CASE i \in 1 .. Len(s) /\ o[i] = s[i] /\ j \in 1 .. Len(s) /\ o[j] = s[j]
    BY <1>5, <2>1, <2>2 DEF Disjoint
  <2>3. CASE /\ i - Len(s) \in 1 .. Len(t) /\ o[i] = t[i - Len(s)]
             /\ j - Len(s) \in 1 .. Len(t) /\ o[j] = t[j - Len(s)]
    <3>1. i - Len(s) # j - Len(s)
      BY <1>1, <2>1
    <3>. QED
      BY <1>5, <2>3, <3>1 DEF Disjoint
  <2>4. CASE i \in 1 .. Len(s) /\ o[i] = s[i] /\ j - Len(s) \in 1 .. Len(t) /\ o[j] = t[j - Len(s)]
    BY <1>2, <1>5, <2>4
  <2>5. CASE j \in 1 .. Len(s) /\ o[j] = s[j] /\ i - Len(s) \in 1 .. Len(t) /\ o[i] = t[i - Len(s)]
    BY <1>2, <1>5, <2>5
  <2>. QED
    BY <1>3, <2>2, <2>3, <2>4, <2>5
<1>. QED
  BY <1>1, <1>4, <1>5 DEF o

(* A sequence of one set.                                                  *)
LEMMA BlocksOfOne ==
    ASSUME NEW h \in Slot
    PROVE  <<{h}>> \in Seq(SUBSET Slot) /\ BlocksOf(<<{h}>>) = {h} /\ Disjoint(<<{h}>>)
<1>1. /\ <<{h}>> \in Seq(SUBSET Slot) /\ Len(<<{h}>>) = 1 /\ <<{h}>>[1] = {h}
  OBVIOUS
<1>2. 1 .. 1 = {1}
  OBVIOUS
<1>. QED
  BY <1>1, <1>2 DEF BlocksOf, Disjoint

(* The ancestors of h that are not in the chain, level by level: with the  *)
(* chain they are closed under parents.                                    *)
LEMMA AncestorLevels ==
    ASSUME NEW w, DagOK(w), NEW h \in w.s.dag
    PROVE  LET levels == commit_ancestor_blocks(w, h)
           IN /\ levels \in Seq(SUBSET Slot) /\ Len(levels) = round(h) /\ Disjoint(levels)
              /\ UNION {levels[i] : i \in DOMAIN levels} = BlocksOf(levels)
              /\ BlocksOf(levels) \cap w.s.chain = {}
              /\ \A x \in BlocksOf(levels) : x \in w.s.dag /\ round(x) < round(h)
              /\ \A x \in {h} \cup BlocksOf(levels) :
                    w.parents[x] \subseteq w.s.chain \cup BlocksOf(levels)
<1>. DEFINE f == Walk(w, h, w.s.chain)
            levels == commit_ancestor_blocks(w, h)
<1>1. h \in Slot /\ w.s.dag \subseteq Slot
  BY DEF DagOK
<1>2. round(h) \in Nat /\ round(h) >= 1
  BY <1>1, SlotFacts
<1>3. \A r \in 0 .. round(h) : \A x \in f[r] : x \in w.s.dag /\ round(x) = r /\ r # 0
  BY WalkRounds
<1>4. /\ f[round(h)] = {h}
      /\ \A r \in 0 .. round(h) - 1 : \A x :
            x \in f[r] <=> /\ \E y \in f[r + 1] : x \in w.parents[y]
                           /\ x \in w.s.dag
                           /\ x \notin w.s.chain
  BY <1>1, WalkLevels
<1>5. levels = [i \in 1 .. round(h) |-> f[round(h) - i]]
  BY DEF commit_ancestor_blocks
<1>. HIDE DEF f, levels
<1>6. \A i \in 1 .. round(h) : /\ round(h) - i \in 0 .. round(h) - 1
                               /\ round(h) - i \in 0 .. round(h)
  BY <1>2
<1>7. ASSUME NEW i \in 1 .. round(h)
      PROVE  levels[i] \in SUBSET Slot /\ levels[i] = f[round(h) - i]
  <2>1. levels[i] = f[round(h) - i]
    BY <1>5
  <2>. QED
    BY <1>1, <1>3, <1>6, <2>1
<1>8. levels \in Seq(SUBSET Slot) /\ Len(levels) = round(h) /\ DOMAIN levels = 1 .. round(h)
  BY <1>2, <1>5, <1>7
<1>9. Disjoint(levels)
  <2>1. ASSUME NEW i \in 1 .. round(h), NEW j \in 1 .. round(h), i # j,
               NEW x \in levels[i], x \in levels[j]
        PROVE  FALSE
    <3>1. round(x) = round(h) - i /\ round(x) = round(h) - j
      BY <1>3, <1>6, <1>7, <2>1
    <3>. QED
      BY <1>2, <2>1, <3>1
  <2>. QED
    BY <1>8, <2>1 DEF Disjoint
<1>10. \A x : x \in BlocksOf(levels) <=> \E i \in 1 .. round(h) : x \in levels[i]
  BY <1>7, <1>8 DEF BlocksOf
<1>11. UNION {levels[i] : i \in DOMAIN levels} = BlocksOf(levels)
  BY <1>8, <1>10
<1>12. \A x \in BlocksOf(levels) : /\ x \in w.s.dag /\ round(x) \in 0 .. round(h) - 1
                                   /\ x \in f[round(x)] /\ round(x) # 0
                                   /\ x \notin w.s.chain
  <2>. TAKE x \in BlocksOf(levels)
  <2>1. PICK i \in 1 .. round(h) : x \in levels[i]
    BY <1>10
  <2>2. x \in f[round(h) - i] /\ round(h) - i \in 0 .. round(h) - 1 /\ round(h) - i \in 0 .. round(h)
    BY <1>6, <1>7, <2>1, <1>2
  <2>. QED
    BY <1>3, <1>4, <2>2
<1>13. ASSUME NEW x \in {h} \cup BlocksOf(levels), NEW p \in w.parents[x], p \notin w.s.chain
       PROVE  p \in BlocksOf(levels)
  <2>1. x \in w.s.dag /\ round(x) \in 1 .. round(h) /\ x \in f[round(x)]
    BY <1>2, <1>4, <1>12
  <2>2. p \in w.s.dag
    BY <1>13, <2>1 DEF DagOK, Closed
  <2>3. round(x) - 1 \in 0 .. round(h) - 1 /\ (round(x) - 1) + 1 = round(x)
    BY <2>1, <1>2
  <2>4. p \in f[round(x) - 1]
    BY <1>4, <1>13, <2>1, <2>2, <2>3
  <2>5. /\ round(h) - (round(x) - 1) \in 1 .. round(h)
        /\ round(h) - (round(h) - (round(x) - 1)) = round(x) - 1
    BY <2>1, <1>2
  <2>6. p \in levels[round(h) - (round(x) - 1)]
    BY <1>7, <2>4, <2>5
  <2>. QED
    BY <1>10, <2>5, <2>6
<1>14. \A x \in {h} \cup BlocksOf(levels) :
          w.parents[x] \subseteq w.s.chain \cup BlocksOf(levels)
  BY <1>13
<1>15. \A x \in BlocksOf(levels) : x \in w.s.dag /\ round(x) < round(h) /\ x \notin w.s.chain
  BY <1>2, <1>12
<1>. QED
  BY <1>8, <1>9, <1>11, <1>14, <1>15 DEF levels

(* The chain of a node: closed under parents, not above chain_round, and   *)
(* what was output, each block once.                                       *)
ChainOK(w) ==
    /\ w.s.chain \subseteq w.s.dag
    /\ Closed(w.parents, w.s.chain)
    /\ \A x \in w.s.chain : round(x) <= w.s.chain_round
    /\ BlocksOf(w.s.output) = w.s.chain
    /\ Disjoint(w.s.output)

(* With coin c, no block of the history of h is the leader of an odd round *)
(* after last and before that of h: some closed set that holds h has none  *)
(* of them.                                                                *)
NothingPassed(c, P, h, last) ==
    \E S \in SUBSET DOMAIN P :
       /\ h \in S
       /\ Closed(P, S)
       /\ \A r \in last + 1 .. round(h) - 1 : Odd(r) => <<c[r], r>> \notin S

(* The round of the i-th leader, 0 if there is none.                       *)
RoundAt(s, i) == IF i = 0 THEN 0 ELSE round(s[i])

(* The committed leaders.                                                  *)
LeadersOK(c, w) ==
    /\ w.s.chain_round = RoundAt(w.s.committed, Len(w.s.committed))
    /\ \A i \in 1 .. Len(w.s.committed) :
          LET h == w.s.committed[i]
              last == RoundAt(w.s.committed, i - 1)
          IN last < round(h) /\ NothingPassed(c, w.parents, h, last)

CommitOK(c, w) == DagOK(w) /\ ChainOK(w) /\ LeadersOK(c, w)

(* Nothing but the commit state of v and w differs.                        *)
SameButCommit(w, v) ==
    /\ v \in NodeWorlds
    /\ v.parents = w.parents /\ v.sent = w.sent
    /\ v.s.round = w.s.round /\ v.s.dag = w.s.dag
    /\ v.s.pending_blocks = w.s.pending_blocks /\ v.s.done = w.s.done
    /\ v.s.elect = w.s.elect /\ v.s.leader = w.s.leader

(* v is w with leader h committed, and its ancestors by levels.            *)
Committing(w, h, direct, v, levels) ==
    /\ SameButCommit(w, v)
    /\ v.s.chain_round = round(h)
    /\ v.s.committed = Append(w.s.committed, h)
    /\ Disjoint(levels)
    /\ BlocksOf(levels) \cap ({h} \cup w.s.chain) = {}
    /\ \A x \in BlocksOf(levels) : x \in w.s.dag /\ round(x) < round(h)
    /\ \A x \in {h} \cup BlocksOf(levels) :
          w.parents[x] \subseteq {h} \cup w.s.chain \cup BlocksOf(levels)
    /\ v.s.chain = {h} \cup w.s.chain \cup BlocksOf(levels)
    /\ v.s.output = w.s.output \o (IF direct THEN levels \o <<{h}>> ELSE <<{h}>> \o levels)

(* Changes of the commit state of a node.                                  *)
WithChain(s, c, r) == [s EXCEPT !.chain = c, !.chain_round = r]
WithOutput(s, c, m, o) == [s EXCEPT !.chain = c, !.committed = m, !.output = o]
WithState(w, x) == [w EXCEPT !.s = x]

(* What a change of the chain leaves.                                      *)
LEMMA ChainChanged ==
    ASSUME NEW s \in NodeState, NEW c \in SUBSET Slot, NEW r \in 0 .. MaxRound
    PROVE  LET v == WithChain(s, c, r) IN
           /\ v \in NodeState
           /\ v.chain = c /\ v.chain_round = r
           /\ v.round = s.round /\ v.dag = s.dag
           /\ v.pending_blocks = s.pending_blocks /\ v.done = s.done
           /\ v.elect = s.elect /\ v.leader = s.leader
           /\ v.committed = s.committed /\ v.output = s.output
<1>1. WithChain(s, c, r) \in NodeState
  BY DEF NodeState, WithChain
<1>. DEFINE v == WithChain(s, c, r)
<1>2. /\ v.chain = c /\ v.chain_round = r
      /\ v.round = s.round /\ v.dag = s.dag
      /\ v.pending_blocks = s.pending_blocks /\ v.done = s.done
      /\ v.elect = s.elect /\ v.leader = s.leader
      /\ v.committed = s.committed /\ v.output = s.output
  BY DEF NodeState, WithChain
<1>. QED
  BY <1>1, <1>2

(* What a change of the output leaves.                                     *)
LEMMA OutputChanged ==
    ASSUME NEW s \in NodeState, NEW c \in SUBSET Slot, NEW m \in Seq(Slot),
           NEW o \in Seq(SUBSET Slot)
    PROVE  LET v == WithOutput(s, c, m, o) IN
           /\ v \in NodeState
           /\ v.chain = c /\ v.committed = m /\ v.output = o
           /\ v.round = s.round /\ v.dag = s.dag
           /\ v.pending_blocks = s.pending_blocks /\ v.done = s.done
           /\ v.elect = s.elect /\ v.leader = s.leader
           /\ v.chain_round = s.chain_round
<1>1. WithOutput(s, c, m, o) \in NodeState
  BY DEF NodeState, WithOutput
<1>. DEFINE v == WithOutput(s, c, m, o)
<1>2. /\ v.chain = c /\ v.committed = m /\ v.output = o
      /\ v.round = s.round /\ v.dag = s.dag
      /\ v.pending_blocks = s.pending_blocks /\ v.done = s.done
      /\ v.elect = s.elect /\ v.leader = s.leader
      /\ v.chain_round = s.chain_round
  BY DEF NodeState, WithOutput
<1>. QED
  BY <1>1, <1>2

(* The world of a node with another state.                                 *)
LEMMA StateChanged ==
    ASSUME NEW w \in NodeWorlds, NEW x \in NodeState
    PROVE  LET v == WithState(w, x) IN
           v \in NodeWorlds /\ v.s = x /\ v.parents = w.parents /\ v.sent = w.sent
BY DEF NodeWorlds, WithState

(* What CommitLeader does.                                                 *)
LEMMA CommitLeaderIs ==
    ASSUME NEW w \in NodeWorlds, DagOK(w), NEW h \in w.s.dag, NEW direct \in BOOLEAN
    PROVE  \E levels \in Seq(SUBSET Slot) :
              Committing(w, h, direct, CommitLeader(w, h, direct), levels)
<1>. DEFINE c == w.s.chain \cup {h}
            s == WithChain(w.s, c, round(h))
            a == WithState(w, s)
            levels == commit_ancestor_blocks(a, h)
            new == IF direct THEN levels \o <<{h}>> ELSE <<{h}>> \o levels
            cc == s.chain \cup UNION {levels[i] : i \in DOMAIN levels}
            m == Append(s.committed, h)
            o == s.output \o new
            x == WithOutput(s, cc, m, o)
            v == WithState(w, x)
<1>0. CommitLeader(w, h, direct) = v
  BY DEF CommitLeader, WithChain, WithOutput, WithState
<1>1. w.s \in NodeState
  BY DEF NodeWorlds
<1>2. h \in Slot /\ round(h) \in 0 .. MaxRound /\ c \in SUBSET Slot
  <2>1. h \in Slot
    BY DEF DagOK
  <2>. QED
    BY <1>1, <2>1, SlotFacts DEF NodeState
<1>. HIDE DEF c
<1>3. /\ s \in NodeState /\ s.dag = w.s.dag /\ s.chain = c
      /\ s.chain_round = round(h) /\ s.round = w.s.round
      /\ s.pending_blocks = w.s.pending_blocks /\ s.done = w.s.done
      /\ s.elect = w.s.elect /\ s.leader = w.s.leader
      /\ s.committed = w.s.committed /\ s.output = w.s.output
  BY <1>1, <1>2, ChainChanged
<1>. HIDE DEF s
<1>4. a \in NodeWorlds /\ a.s = s /\ a.parents = w.parents /\ a.sent = w.sent
  BY <1>3, StateChanged
<1>. HIDE DEF a
<1>5. DagOK(a) /\ h \in a.s.dag
  BY <1>3, <1>4 DEF DagOK
<1>6. /\ levels \in Seq(SUBSET Slot) /\ Disjoint(levels)
      /\ UNION {levels[i] : i \in DOMAIN levels} = BlocksOf(levels)
      /\ BlocksOf(levels) \cap a.s.chain = {}
      /\ \A y \in BlocksOf(levels) : y \in a.s.dag /\ round(y) < round(h)
      /\ \A y \in {h} \cup BlocksOf(levels) :
            a.parents[y] \subseteq a.s.chain \cup BlocksOf(levels)
  BY <1>5, AncestorLevels
<1>. HIDE DEF levels
<1>7. cc = c \cup BlocksOf(levels) /\ cc \in SUBSET Slot
  BY <1>2, <1>3, <1>6 DEF BlocksOf
<1>. HIDE DEF cc
<1>8. new \in Seq(SUBSET Slot)
  <2>1. <<{h}>> \in Seq(SUBSET Slot)
    BY <1>2, BlocksOfOne
  <2>2. levels \o <<{h}>> \in Seq(SUBSET Slot) /\ <<{h}>> \o levels \in Seq(SUBSET Slot)
    BY <1>6, <2>1
  <2>. QED
    BY <2>2
<1>9. new = IF direct THEN levels \o <<{h}>> ELSE <<{h}>> \o levels
  OBVIOUS
<1>. HIDE DEF new
<1>10. m \in Seq(Slot) /\ o \in Seq(SUBSET Slot)
  <2>1. s.committed \in Seq(Slot) /\ s.output \in Seq(SUBSET Slot)
    BY <1>3 DEF NodeState
  <2>. QED
    BY <1>2, <1>8, <2>1
<1>11. m = Append(w.s.committed, h) /\ o = w.s.output \o new
  BY <1>3
<1>. HIDE DEF m, o
<1>12. /\ x \in NodeState
       /\ x.chain = cc /\ x.committed = m /\ x.output = o
       /\ x.round = s.round /\ x.dag = s.dag
       /\ x.pending_blocks = s.pending_blocks /\ x.done = s.done
       /\ x.elect = s.elect /\ x.leader = s.leader
       /\ x.chain_round = s.chain_round
  BY <1>3, <1>7, <1>10, OutputChanged
<1>. HIDE DEF x
<1>13. v \in NodeWorlds /\ v.s = x /\ v.parents = w.parents /\ v.sent = w.sent
  BY <1>12, StateChanged
<1>. HIDE DEF v
<1>14. /\ SameButCommit(w, v)
       /\ v.s.chain = c \cup BlocksOf(levels)
       /\ v.s.chain_round = round(h)
       /\ v.s.committed = Append(w.s.committed, h) /\ v.s.output = w.s.output \o new
  BY <1>3, <1>7, <1>11, <1>12, <1>13 DEF SameButCommit
<1>15. /\ \A y \in BlocksOf(levels) : y \in w.s.dag /\ round(y) < round(h)
       /\ \A y \in {h} \cup BlocksOf(levels) :
             w.parents[y] \subseteq c \cup BlocksOf(levels)
       /\ BlocksOf(levels) \cap c = {}
  BY <1>3, <1>4, <1>6
<1>16. Committing(w, h, direct, v, levels)
  BY <1>6, <1>9, <1>14, <1>15 DEF Committing, c
<1>. QED
  BY <1>0, <1>6, <1>16

(* A leader above the chain is committed with the blocks of its history    *)
(* that are not in the chain.                                              *)
LEMMA CommitLeaderOK ==
    ASSUME NEW c, NEW w \in NodeWorlds, CommitOK(c, w), NEW h \in w.s.dag, NEW direct \in BOOLEAN,
           w.s.chain_round < round(h), NothingPassed(c, w.parents, h, w.s.chain_round)
    PROVE  LET v == CommitLeader(w, h, direct)
           IN SameButCommit(w, v) /\ CommitOK(c, v) /\ v.s.chain_round = round(h)
<1>. DEFINE v == CommitLeader(w, h, direct)
<1>0. PICK levels \in Seq(SUBSET Slot) : Committing(w, h, direct, v, levels)
  BY CommitLeaderIs DEF CommitOK
<1>. HIDE DEF v
<1>1. /\ SameButCommit(w, v)
      /\ v.s.chain_round = round(h)
      /\ v.s.committed = Append(w.s.committed, h)
  BY <1>0 DEF Committing
<1>2. /\ Disjoint(levels)
      /\ BlocksOf(levels) \cap ({h} \cup w.s.chain) = {}
      /\ \A x \in BlocksOf(levels) : x \in w.s.dag /\ round(x) < round(h)
      /\ \A x \in {h} \cup BlocksOf(levels) :
            w.parents[x] \subseteq {h} \cup w.s.chain \cup BlocksOf(levels)
      /\ v.s.chain = {h} \cup w.s.chain \cup BlocksOf(levels)
      /\ v.s.output = w.s.output \o (IF direct THEN levels \o <<{h}>>
                                    ELSE <<{h}>> \o levels)
  BY <1>0 DEF Committing
<1>3. /\ h \in Slot /\ round(h) \in Nat /\ w.s.dag \subseteq Slot
      /\ w.s.chain_round \in Nat
      /\ w.s.output \in Seq(SUBSET Slot) /\ w.s.committed \in Seq(Slot)
  <2>1. w.s.dag \subseteq Slot
    BY DEF CommitOK, DagOK
  <2>. QED
    BY <2>1, SlotFacts, WahooAssumption DEF NodeWorlds, NodeState
<1>4. DagOK(v)
  BY <1>1 DEF CommitOK, DagOK, SameButCommit
<1>5. ChainOK(v)
  <2>1. v.s.chain \subseteq v.s.dag
    BY <1>1, <1>2 DEF CommitOK, ChainOK, SameButCommit
  <2>2. Closed(v.parents, v.s.chain)
    BY <1>1, <1>2 DEF CommitOK, ChainOK, SameButCommit, Closed
  <2>3. \A x \in v.s.chain : round(x) <= v.s.chain_round
    <3>. TAKE x \in v.s.chain
    <3>1. round(x) \in Nat
      BY <1>1, <1>3, <2>1, SlotFacts DEF SameButCommit
    <3>2. CASE x \in w.s.chain
      <4>1. round(x) <= w.s.chain_round
        BY <3>2 DEF CommitOK, ChainOK
      <4>. QED
        BY <1>1, <1>3, <3>1, <4>1
    <3>. QED
      BY <1>1, <1>2, <1>3, <3>1, <3>2
  <2>4. h \notin w.s.chain
    BY <1>3 DEF CommitOK, ChainOK
  <2>. DEFINE new == IF direct THEN levels \o <<{h}>> ELSE <<{h}>> \o levels
  <2>5. /\ new \in Seq(SUBSET Slot) /\ Disjoint(new)
        /\ BlocksOf(new) = {h} \cup BlocksOf(levels)
    <3>. DEFINE one == <<{h}>>
    <3>1. one \in Seq(SUBSET Slot) /\ BlocksOf(one) = {h} /\ Disjoint(one)
      BY <1>3, BlocksOfOne
    <3>2. BlocksOf(levels) \cap BlocksOf(one) = {} /\ Disjoint(levels)
      BY <1>2, <3>1
    <3>. HIDE DEF one
    <3>3. /\ levels \o one \in Seq(SUBSET Slot) /\ Disjoint(levels \o one)
          /\ BlocksOf(levels \o one) = {h} \cup BlocksOf(levels)
      BY <3>1, <3>2, BlocksOfConcat
    <3>4. /\ one \o levels \in Seq(SUBSET Slot) /\ Disjoint(one \o levels)
          /\ BlocksOf(one \o levels) = {h} \cup BlocksOf(levels)
      BY <3>1, <3>2, BlocksOfConcat
    <3>5. new = IF direct THEN levels \o one ELSE one \o levels
      BY DEF one
    <3>. HIDE DEF new
    <3>. QED
      BY <3>3, <3>4, <3>5
  <2>6. v.s.output = w.s.output \o new
    BY <1>2
  <2>. HIDE DEF new
  <2>7. BlocksOf(w.s.output) = w.s.chain /\ Disjoint(w.s.output)
    BY DEF CommitOK, ChainOK
  <2>8. BlocksOf(w.s.output) \cap BlocksOf(new) = {}
    BY <1>2, <2>4, <2>5, <2>7
  <2>9. BlocksOf(v.s.output) = v.s.chain /\ Disjoint(v.s.output)
    <3>1. /\ BlocksOf(w.s.output \o new) = BlocksOf(w.s.output) \cup BlocksOf(new)
          /\ Disjoint(w.s.output \o new)
      BY <1>3, <2>5, <2>7, <2>8, BlocksOfConcat
    <3>. QED
      BY <1>2, <2>5, <2>6, <2>7, <3>1
  <2>. QED
    BY <2>1, <2>2, <2>3, <2>9 DEF ChainOK
<1>6. LeadersOK(c, v)
  <2>. DEFINE s == w.s.committed
  <2>1. /\ Len(s) \in Nat /\ Len(v.s.committed) = Len(s) + 1
        /\ v.s.committed[Len(s) + 1] = h
        /\ \A i \in 1 .. Len(s) : v.s.committed[i] = s[i]
    BY <1>1, <1>3
  <2>2. /\ w.s.chain_round = RoundAt(s, Len(s))
        /\ \A i \in 1 .. Len(s) :
              /\ RoundAt(s, i - 1) < round(s[i])
              /\ NothingPassed(c, w.parents, s[i], RoundAt(s, i - 1))
    BY DEF CommitOK, LeadersOK
  <2>. HIDE DEF s
  <2>3. \A i \in 0 .. Len(s) : RoundAt(v.s.committed, i) = RoundAt(s, i)
    BY <2>1 DEF RoundAt
  <2>4. v.s.chain_round = RoundAt(v.s.committed, Len(v.s.committed))
    BY <1>1, <2>1 DEF RoundAt
  <2>5. ASSUME NEW i \in 1 .. Len(s)
        PROVE  /\ RoundAt(v.s.committed, i - 1) < round(v.s.committed[i])
               /\ NothingPassed(c, v.parents, v.s.committed[i], RoundAt(v.s.committed, i - 1))
    <3>1. i - 1 \in 0 .. Len(s)
      BY <2>1
    <3>2. RoundAt(v.s.committed, i - 1) = RoundAt(s, i - 1) /\ v.s.committed[i] = s[i]
      BY <2>1, <2>3, <3>1
    <3>. QED
      BY <1>1, <2>2, <3>2 DEF SameButCommit
  <2>6. /\ RoundAt(v.s.committed, Len(s)) = w.s.chain_round
        /\ RoundAt(v.s.committed, Len(s)) < round(h)
        /\ NothingPassed(c, v.parents, h, RoundAt(v.s.committed, Len(s)))
    <3>1. Len(s) \in 0 .. Len(s)
      BY <2>1
    <3>. QED
      BY <1>1, <2>2, <2>3, <3>1 DEF SameButCommit
  <2>7. \A i \in 1 .. Len(v.s.committed) : i \in 1 .. Len(s) \/ i = Len(s) + 1
    BY <2>1
  <2>8. (Len(s) + 1) - 1 = Len(s)
    BY <2>1
  <2>. QED
    BY <2>1, <2>4, <2>5, <2>6, <2>7, <2>8 DEF LeadersOK
<1>. QED
  BY <1>1, <1>4, <1>5, <1>6 DEF CommitOK, v

-----------------------------------------------------------------------------
(* A leader is elected by a quorum of Elects for the next round, and who   *)
(* sent an Elect sent those of the earlier rounds.                         *)
Elections(w) ==
    /\ \A q \in w.s.leader : Odd(q) /\ q + 1 \in Rounds
    /\ \A r \in Rounds : Even(r) =>
          (r - 1 \in w.s.leader <=> Cardinality(w.s.elect[r]) >= quorum_num)
    /\ \A r \in Rounds : Even(r) /\ r > 2 => w.s.elect[r] \subseteq w.s.elect[r - 2]

(* The senders of Elects can be counted.                                   *)
LEMMA ElectFinite ==
    ASSUME NEW S \in SUBSET Authority
    PROVE  IsFiniteSet(S) /\ Cardinality(S) \in Nat
<1>1. IsFiniteSet(S)
  BY WahooAssumption, FS_Subset
<1>. QED
  BY <1>1, FS_CardinalityType

(* The quorum of the node is a number.                                     *)
LEMMA QuorumNat == quorum_num \in Nat
<1>1. node_num \in Nat
  BY WahooAssumption, FS_CardinalityType DEF node_num
<1>. QED
  BY <1>1 DEF quorum_num

(* The leaders of the earlier odd rounds are elected first.                *)
LEMMA LeaderPrefix ==
    ASSUME NEW w \in NodeWorlds, Elections(w), NEW q \in w.s.leader
    PROVE  \A r \in 1 .. q : Odd(r) => r \in w.s.leader
<1>1. q \in Nat /\ q >= 1 /\ q <= MaxRound /\ MaxRound \in Nat /\ q + 1 <= MaxRound /\ q % 2 = 1
  BY WahooAssumption DEF NodeWorlds, NodeState, Rounds, Elections, Odd
<1>. DEFINE Q == {r \in 1 .. q : \A k \in r .. q : Odd(k) => k \in w.s.leader}
<1>2. q \in Q
  BY <1>1
<1>3. \A r \in 1 .. q - 1 : r + 1 \in Q => r \in Q
  <2>. SUFFICES ASSUME NEW r \in 1 .. q - 1, r + 1 \in Q PROVE r \in Q
    OBVIOUS
  <2>1. SUFFICES ASSUME Odd(r) PROVE r \in w.s.leader
    BY <1>1
  <2>2. r \in Nat /\ r % 2 = 1
    BY <1>1, <2>1 DEF Odd
  <2>3. r + 2 \in r + 1 .. q /\ (r + 2) % 2 = 1
    BY <1>1, <2>2
  <2>4. r + 2 \in w.s.leader
    BY <2>3 DEF Odd
  <2>5. r + 3 \in Rounds /\ r + 1 \in Rounds
    BY <1>1, <2>2, <2>3 DEF Rounds
  <2>6. Even(r + 3) /\ Even(r + 1)
    BY <2>2 DEF Even
  <2>7. (r + 3) - 1 = r + 2 /\ (r + 3) - 2 = r + 1 /\ (r + 1) - 1 = r /\ r + 3 > 2
    BY <2>2
  <2>8. Cardinality(w.s.elect[r + 3]) >= quorum_num
    BY <2>4, <2>5, <2>6, <2>7 DEF Elections
  <2>9. w.s.elect[r + 3] \subseteq w.s.elect[r + 1]
    BY <2>5, <2>6, <2>7 DEF Elections
  <2>10. w.s.elect[r + 1] \in SUBSET Authority /\ w.s.elect[r + 3] \in SUBSET Authority
    BY <2>5 DEF NodeWorlds, NodeState
  <2>11. Cardinality(w.s.elect[r + 3]) <= Cardinality(w.s.elect[r + 1])
    BY <2>9, <2>10, ElectFinite, FS_Subset
  <2>12. Cardinality(w.s.elect[r + 1]) >= quorum_num
    BY <2>8, <2>10, <2>11, ElectFinite, QuorumNat
  <2>. QED
    BY <2>5, <2>6, <2>7, <2>12 DEF Elections
<1>4. 1 .. q \subseteq Q
  <2>1. 1 \in Int /\ q \in Int /\ 1 <= q
    BY <1>1
  <2>. HIDE DEF Q
  <2>. QED
    BY <1>2, <1>3, <2>1, DownwardInduction
<1>5. 1 \in Q
  BY <1>1, <1>4
<1>. QED
  BY <1>5

-----------------------------------------------------------------------------
(* The commit of a leader and of those of its history.                     *)

(* The history of a block of the dag: what a walk finds.                   *)
LEMMA HistorySet ==
    ASSUME NEW w, DagOK(w), NEW h \in w.s.dag
    PROVE  \E S \in SUBSET DOMAIN w.parents :
              /\ h \in S
              /\ Closed(w.parents, S)
              /\ \A x \in S : round(x) \in 0 .. round(h) /\ x \in Walk(w, h, {})[round(x)]
              /\ \A r \in 0 .. round(h) : Walk(w, h, {})[r] \subseteq S
<1>. DEFINE f == Walk(w, h, {})
            S == {x \in w.s.dag : round(x) \in 0 .. round(h) /\ x \in f[round(x)]}
<1>1. h \in Slot /\ w.s.dag \subseteq Slot /\ w.s.dag \subseteq DOMAIN w.parents
  BY DEF DagOK
<1>2. round(h) \in Nat
  BY <1>1, SlotFacts
<1>3. \A r \in 0 .. round(h) : \A x \in f[r] : x \in w.s.dag /\ round(x) = r /\ r # 0
  BY WalkRounds
<1>4. /\ f[round(h)] = {h}
      /\ \A r \in 0 .. round(h) - 1 : \A x :
            x \in f[r] <=> /\ \E y \in f[r + 1] : x \in w.parents[y]
                           /\ x \in w.s.dag
                           /\ x \notin {}
  BY <1>1, WalkLevels
<1>. HIDE DEF f
<1>5. h \in S
  BY <1>2, <1>4
<1>6. ASSUME NEW x \in S, NEW p \in w.parents[x] PROVE p \in S
  <2>1. p \in w.s.dag /\ round(p) = round(x) - 1
    BY <1>1, <1>6 DEF DagOK, Closed
  <2>2. round(p) \in Nat /\ round(x) \in Nat
    BY <1>1, <2>1, SlotFacts
  <2>3. round(x) - 1 \in 0 .. round(h) - 1 /\ (round(x) - 1) + 1 = round(x)
    BY <1>2, <2>1, <2>2
  <2>4. p \in f[round(x) - 1]
    BY <1>4, <2>1, <2>3
  <2>. QED
    BY <1>2, <2>1, <2>3, <2>4
<1>7. \A r \in 0 .. round(h) : f[r] \subseteq S
  BY <1>3
<1>. QED
  BY <1>1, <1>5, <1>6, <1>7 DEF f, Closed

(* What the steps of try_to_commit_ancestor_leader leave after round r:    *)
(* no leader of the rounds from that of the chain to r is in history S.    *)
NonePassed(c, w, S, r, a) ==
    /\ SameButCommit(w, a)
    /\ CommitOK(c, a)
    /\ w.s.chain_round <= a.s.chain_round
    /\ a.s.chain_round <= r \/ a.s.chain_round = w.s.chain_round
    /\ \A q \in a.s.chain_round + 1 .. r : Odd(q) => <<c[q], q>> \notin S

(* S is the history of leader block h in the dag of w, its earlier leaders *)
(* are elected, and valid has those in S of the rounds after the chain.    *)
LeadersIn(w, h, S, valid) ==
    /\ S \in SUBSET DOMAIN w.parents
    /\ Closed(w.parents, S)
    /\ \A r \in valid : /\ w.s.chain_round < r /\ Odd(r)
                        /\ <<coin[r], r>> \in S \cap w.s.dag
    /\ \A r \in w.s.chain_round + 1 .. round(h) - 1 :
          Odd(r) /\ <<coin[r], r>> \in S => r \in valid

(* Two commits change no more than one.                                    *)
LEMMA SameTransitive ==
    ASSUME NEW w, NEW v, NEW u, SameButCommit(w, v), SameButCommit(v, u)
    PROVE  SameButCommit(w, u)
BY DEF SameButCommit

(* The round of the chain is a number.                                     *)
LEMMA ChainRoundNat ==
    ASSUME NEW w \in NodeWorlds
    PROVE  w.s.chain_round \in Nat
BY WahooAssumption DEF NodeWorlds, NodeState

(* One round of it.                                                        *)
LEMMA NonePassedStep ==
    ASSUME NEW w \in NodeWorlds, NEW h \in Slot, NEW S, NEW valid,
           LeadersIn(w, h, S, valid),
           NEW r \in 1 .. round(h) - 1, NEW a \in NodeWorlds, NonePassed(coin, w, S, r - 1, a)
    PROVE  NonePassed(coin, w, S, r, IF r \in valid THEN CommitLeader(a, Leader(r), FALSE) ELSE a)
<1>1. /\ round(h) \in Nat /\ r \in Nat /\ a.s.chain_round \in Nat /\ w.s.chain_round \in Nat
  BY SlotFacts, ChainRoundNat
<1>2. /\ SameButCommit(w, a) /\ CommitOK(coin, a)
      /\ w.s.chain_round <= a.s.chain_round
      /\ a.s.chain_round <= r - 1 \/ a.s.chain_round = w.s.chain_round
      /\ \A q \in a.s.chain_round + 1 .. r - 1 : Odd(q) => <<coin[q], q>> \notin S
  BY DEF NonePassed
<1>3. CASE r \in valid
  <2>. DEFINE k == Leader(r)
              v == CommitLeader(a, k, FALSE)
  <2>1. w.s.chain_round < r /\ k \in S /\ k \in w.s.dag /\ round(k) = r
    BY <1>3 DEF LeadersIn, Leader, round
  <2>2. a.s.chain_round < r /\ k \in a.s.dag /\ a.parents = w.parents
    BY <1>1, <1>2, <2>1 DEF SameButCommit
  <2>. HIDE DEF k
  <2>3. NothingPassed(coin, a.parents, k, a.s.chain_round)
    BY <1>2, <2>1, <2>2 DEF NothingPassed, LeadersIn
  <2>4. SameButCommit(a, v) /\ CommitOK(coin, v) /\ v.s.chain_round = r
    BY <1>2, <2>1, <2>2, <2>3, CommitLeaderOK
  <2>. HIDE DEF v
  <2>5. SameButCommit(w, v)
    BY <1>2, <2>4, SameTransitive
  <2>6. NonePassed(coin, w, S, r, v)
    BY <1>1, <1>2, <2>1, <2>4, <2>5 DEF NonePassed
  <2>. QED
    BY <1>3, <2>6 DEF v, k
<1>4. CASE r \notin valid
  <2>1. ASSUME NEW q \in a.s.chain_round + 1 .. r, Odd(q) PROVE <<coin[q], q>> \notin S
    <3>1. CASE q \in a.s.chain_round + 1 .. r - 1
      BY <1>2, <2>1, <3>1
    <3>2. CASE q = r
      <4>1. r \in w.s.chain_round + 1 .. round(h) - 1
        BY <1>1, <1>2, <2>1, <3>2
      <4>. QED
        BY <1>4, <2>1, <3>2, <4>1 DEF LeadersIn
    <3>. QED
      BY <1>1, <3>1, <3>2
  <2>2. NonePassed(coin, w, S, r, a)
    BY <1>1, <1>2, <2>1 DEF NonePassed
  <2>. QED
    BY <1>4, <2>2
<1>. QED
  BY <1>3, <1>4

(* The equation of AfterAncestors.                                         *)
IsAfterAncestors(f, w, h, valid) ==
    f = [r \in 0 .. round(h) - 1 |->
           IF r = 0 THEN w
           ELSE IF r \in valid THEN CommitLeader(f[r - 1], Leader(r), FALSE)
           ELSE f[r - 1]]

(* AfterAncestors is a choice among the solutions of its recursion.        *)
LEMMA AfterAncestorsIs ==
    ASSUME NEW w, NEW h
    PROVE  AfterAncestors(w, h)
              = CHOOSE f : IsAfterAncestors(f, w, h, find_valid_leader(w, h))
BY DEF AfterAncestors, IsAfterAncestors

(* The recursion of try_to_commit_ancestor_leader has a solution when      *)
(* valid holds rounds of leaders in the history of h.                      *)
LEMMA AfterAncestorsExists ==
    ASSUME NEW w \in NodeWorlds, DagOK(w), NEW h \in Slot, NEW S, NEW valid,
           LeadersIn(w, h, S, valid)
    PROVE  \E f : IsAfterAncestors(f, w, h, valid)
<1>. DEFINE b == round(h) - 1
            V == {v \in NodeWorlds : SameButCommit(w, v)}
            step(r, v) == IF r \in valid THEN CommitLeader(v, Leader(r), FALSE) ELSE v
            G == [y \in (0 .. b) \X V |-> step(y[1], y[2])]
<1>1. b \in Int /\ 0 \in Int /\ 0 <= b
  BY SlotFacts
<1>2. w \in V
  BY DEF SameButCommit
<1>3. ASSUME NEW r, NEW v \in V PROVE step(r, v) \in V
  <2>1. CASE r \in valid
    <3>1. DagOK(v) /\ Leader(r) \in v.s.dag
      BY <2>1 DEF SameButCommit, DagOK, LeadersIn, Leader
    <3>. DEFINE u == CommitLeader(v, Leader(r), FALSE)
    <3>2. PICK levels : Committing(v, Leader(r), FALSE, u, levels)
      BY <3>1, CommitLeaderIs
    <3>. HIDE DEF u
    <3>3. SameButCommit(v, u)
      BY <3>2 DEF Committing
    <3>4. SameButCommit(w, u) /\ u \in NodeWorlds
      BY <3>3 DEF SameButCommit
    <3>. QED
      BY <2>1, <3>4 DEF u
  <2>2. CASE r \notin valid
    BY <2>2
  <2>. QED
    BY <2>1, <2>2
<1>. HIDE DEF V, b
<1>4. G \in [(0 .. b) \X V -> V]
  <2>. HIDE DEF step
  <2>. QED
    BY <1>3
<1>5. PICK f \in [0 .. b -> V] : UpFrom(f, 0, b, w, G)
  <2>. HIDE DEF G
  <2>. QED
    BY <1>1, <1>2, <1>4, UpwardRecursion
<1>6. ASSUME NEW r \in 0 .. b, r # 0 PROVE f[r] = step(r, f[r - 1])
  <2>1. r \in 0 + 1 .. b /\ r - 1 \in 0 .. b
    BY <1>1, <1>6
  <2>2. f[r - 1] \in V
    BY <2>1
  <2>. HIDE DEF step
  <2>. QED
    BY <1>5, <2>1, <2>2 DEF UpFrom
<1>7. f = [r \in 0 .. b |-> IF r = 0 THEN w ELSE step(r, f[r - 1])]
  <2>. HIDE DEF step
  <2>. QED
    BY <1>5, <1>6 DEF UpFrom
<1>. QED
  BY <1>7 DEF IsAfterAncestors, b

(* All the rounds of it.                                                   *)
LEMMA NonePassedAtAll ==
    ASSUME NEW w \in NodeWorlds, CommitOK(coin, w), NEW h \in Slot, NEW S, NEW valid,
           LeadersIn(w, h, S, valid), NEW f, IsAfterAncestors(f, w, h, valid)
    PROVE  NonePassed(coin, w, S, round(h) - 1, f[round(h) - 1])
<1>. DEFINE b == round(h) - 1
            V == {y \in (0 .. b) \X NodeWorlds : NonePassed(coin, w, S, y[1], y[2])}
            g == [r \in 0 .. b |-> <<r, f[r]>>]
<1>1. b \in Nat /\ 0 \in Int /\ b \in Int /\ 0 <= b
  BY SlotFacts
<1>2. \A r \in 0 .. b : f[r] = IF r = 0 THEN w
                               ELSE IF r \in valid THEN CommitLeader(f[r - 1], Leader(r), FALSE)
                               ELSE f[r - 1]
  BY DEF IsAfterAncestors
<1>3. g[0] \in V
  <2>1. NonePassed(coin, w, S, 0, w)
    BY ChainRoundNat DEF NonePassed, SameButCommit
  <2>2. 0 \in 0 .. b
    BY <1>1
  <2>3. f[0] = w
    BY <1>2, <2>2
  <2>4. g[0] = <<0, w>>
    BY <2>2, <2>3
  <2>5. <<0, w>> \in V
    BY <2>1, <2>2
  <2>. HIDE DEF V, g
  <2>. QED
    BY <2>4, <2>5
<1>4. ASSUME NEW r \in 0 + 1 .. b, g[r - 1] \in V PROVE g[r] \in V
  <2>1. r - 1 \in 0 .. b /\ r \in 0 .. b /\ r # 0 /\ r \in 1 .. b
    BY <1>1
  <2>. DEFINE a == f[r - 1]
  <2>2. a \in NodeWorlds /\ NonePassed(coin, w, S, r - 1, a)
    BY <1>4, <2>1
  <2>3. f[r] = IF r \in valid THEN CommitLeader(a, Leader(r), FALSE) ELSE a
    BY <1>2, <2>1
  <2>. HIDE DEF a
  <2>4. NonePassed(coin, w, S, r, f[r])
    BY <2>1, <2>2, <2>3, NonePassedStep
  <2>5. f[r] \in NodeWorlds
    BY <2>4 DEF NonePassed, SameButCommit
  <2>. QED
    BY <2>1, <2>4, <2>5
<1>5. \A r \in 0 .. b : g[r] \in V
  <2>. HIDE DEF V, b, g
  <2>. QED
    BY <1>1, <1>3, <1>4, UpwardInvariance
<1>6. g[b] \in V /\ g[b] = <<b, f[b]>>
  BY <1>1, <1>5
<1>. QED
  BY <1>6

(* try_to_commit_ancestor_leader commits the earlier leaders in the        *)
(* history of h.                                                           *)
LEMMA CommitAncestors ==
    ASSUME NEW w \in NodeWorlds, CommitOK(coin, w), Elections(w),
           NEW h \in w.s.dag, h = Leader(round(h)), round(h) \in w.s.leader,
           w.s.chain_round < round(h)
    PROVE  LET a == try_to_commit_ancestor_leader(w, h)
           IN /\ SameButCommit(w, a) /\ CommitOK(coin, a)
              /\ a.s.chain_round < round(h)
              /\ NothingPassed(coin, a.parents, h, a.s.chain_round)
<1>1. DagOK(w) /\ h \in Slot /\ w.s.chain_round \in Nat /\ round(h) \in Nat /\ round(h) >= 1
  <2>1. DagOK(w) /\ h \in Slot
    BY DEF CommitOK, DagOK
  <2>. QED
    BY <2>1, SlotFacts, ChainRoundNat
<1>2. PICK S \in SUBSET DOMAIN w.parents :
              /\ h \in S
              /\ Closed(w.parents, S)
              /\ \A x \in S : round(x) \in 0 .. round(h) /\ x \in Walk(w, h, {})[round(x)]
              /\ \A r \in 0 .. round(h) : Walk(w, h, {})[r] \subseteq S
  BY <1>1, HistorySet
<1>3. Odd(round(h)) /\ \A r \in 1 .. round(h) : Odd(r) => r \in w.s.leader
  BY LeaderPrefix DEF Elections
<1>. DEFINE valid == find_valid_leader(w, h)
<1>4. \A r \in valid : /\ w.s.chain_round < r /\ Odd(r)
                       /\ <<coin[r], r>> \in S \cap w.s.dag
  <2>. TAKE r \in valid
  <2>1. /\ r \in w.s.chain_round + 1 .. round(h) /\ Odd(r)
        /\ Leader(r) \in Walk(w, h, {})[r]
    BY DEF find_valid_leader
  <2>2. r \in 0 .. round(h) /\ w.s.chain_round < r
    BY <1>1, <2>1
  <2>. QED
    BY <1>1, <1>2, <2>1, <2>2, WalkRounds DEF Leader
<1>5. \A r \in w.s.chain_round + 1 .. round(h) - 1 :
          Odd(r) /\ <<coin[r], r>> \in S => r \in valid
  <2>. TAKE r \in w.s.chain_round + 1 .. round(h) - 1
  <2>. HAVE Odd(r) /\ <<coin[r], r>> \in S
  <2>1. r \in w.s.chain_round + 1 .. round(h) /\ r \in 1 .. round(h)
    BY <1>1
  <2>2. <<coin[r], r>> \in Walk(w, h, {})[r]
    BY <1>2 DEF round
  <2>. QED
    BY <1>3, <2>1, <2>2 DEF find_valid_leader, Leader
<1>6. LeadersIn(w, h, S, valid)
  BY <1>2, <1>4, <1>5 DEF LeadersIn
<1>7. CASE round(h) - 2 <= w.s.chain_round
  <2>1. try_to_commit_ancestor_leader(w, h) = w
    BY <1>7 DEF try_to_commit_ancestor_leader
  <2>2. \A r \in w.s.chain_round + 1 .. round(h) - 1 : ~Odd(r)
    BY <1>1, <1>3, <1>7 DEF Odd
  <2>3. NothingPassed(coin, w.parents, h, w.s.chain_round)
    BY <1>2, <2>2 DEF NothingPassed
  <2>4. SameButCommit(w, w)
    BY DEF SameButCommit
  <2>. QED
    BY <2>1, <2>3, <2>4
<1>8. CASE ~(round(h) - 2 <= w.s.chain_round)
  <2>. DEFINE f == AfterAncestors(w, h)
              a == f[round(h) - 1]
  <2>1. IsAfterAncestors(f, w, h, valid)
    <3>1. \E g : IsAfterAncestors(g, w, h, valid)
      BY <1>1, <1>6, AfterAncestorsExists
    <3>. QED
      BY <3>1, AfterAncestorsIs
  <2>2. try_to_commit_ancestor_leader(w, h) = a
    BY <1>8 DEF try_to_commit_ancestor_leader
  <2>. HIDE DEF f, valid
  <2>3. NonePassed(coin, w, S, round(h) - 1, a)
    BY <1>1, <1>6, <2>1, NonePassedAtAll
  <2>. HIDE DEF a
  <2>4. a.s.chain_round < round(h)
    BY <1>1, <1>8, <2>3, ChainRoundNat DEF NonePassed, SameButCommit
  <2>5. NothingPassed(coin, a.parents, h, a.s.chain_round)
    BY <1>2, <2>3 DEF NothingPassed, NonePassed, SameButCommit
  <2>. QED
    BY <2>2, <2>3, <2>4, <2>5 DEF NonePassed
<1>. QED
  BY <1>7, <1>8

(* try_to_commit_leader keeps what holds of the committed leaders.         *)
LEMMA TryToCommit ==
    ASSUME NEW w \in NodeWorlds, CommitOK(coin, w), Elections(w), NEW r
    PROVE  LET v == try_to_commit_leader(w, r)
           IN SameButCommit(w, v) /\ CommitOK(coin, v)
<1>. DEFINE h == Leader(r)
            a == try_to_commit_ancestor_leader(w, h)
            v == CommitLeader(a, h, TRUE)
<1>1. CASE r > w.s.chain_round /\ r \in w.s.leader /\ Leader(r) \in w.s.done \cap w.s.dag
  <2>1. h \in w.s.dag /\ round(h) = r /\ h = Leader(round(h)) /\ r \in Nat
    BY <1>1, WahooAssumption DEF Leader, round, NodeWorlds, NodeState, Rounds
  <2>2. try_to_commit_leader(w, r) = v
    BY <1>1 DEF try_to_commit_leader
  <2>. HIDE DEF h
  <2>3. w.s.chain_round < round(h) /\ round(h) \in w.s.leader
    BY <1>1, <2>1, ChainRoundNat
  <2>4. /\ SameButCommit(w, a) /\ CommitOK(coin, a)
        /\ a.s.chain_round < round(h)
        /\ NothingPassed(coin, a.parents, h, a.s.chain_round)
    BY <2>1, <2>3, CommitAncestors
  <2>. HIDE DEF a
  <2>5. a \in NodeWorlds /\ h \in a.s.dag
    BY <2>1, <2>4 DEF SameButCommit
  <2>6. SameButCommit(a, v) /\ CommitOK(coin, v)
    BY <2>4, <2>5, CommitLeaderOK
  <2>. HIDE DEF v
  <2>7. SameButCommit(w, v)
    BY <2>4, <2>6, SameTransitive
  <2>. QED
    BY <2>2, <2>6, <2>7
<1>2. CASE ~(r > w.s.chain_round /\ r \in w.s.leader /\ Leader(r) \in w.s.done \cap w.s.dag)
  <2>1. try_to_commit_leader(w, r) = w
    BY <1>2 DEF try_to_commit_leader
  <2>2. SameButCommit(w, w)
    BY DEF SameButCommit
  <2>. QED
    BY <2>1, <2>2
<1>. QED
  BY <1>1, <1>2

WithElect(w, m, r) == [w EXCEPT !.s.elect[r] = @ \cup {m}]
WithLeader(w, r) == [w EXCEPT !.s.leader = @ \cup {r}]

(* What store_elect leaves.                                                *)
LEMMA ElectChanged ==
    ASSUME NEW w \in NodeWorlds, NEW m \in Authority, NEW r \in Rounds
    PROVE  LET v == WithElect(w, m, r) IN
           /\ v \in NodeWorlds
           /\ v.s.elect = [w.s.elect EXCEPT ![r] = @ \cup {m}]
           /\ v.parents = w.parents /\ v.sent = w.sent
           /\ v.s.round = w.s.round /\ v.s.dag = w.s.dag
           /\ v.s.pending_blocks = w.s.pending_blocks /\ v.s.done = w.s.done
           /\ v.s.leader = w.s.leader /\ v.s.chain_round = w.s.chain_round
           /\ v.s.chain = w.s.chain
           /\ v.s.committed = w.s.committed /\ v.s.output = w.s.output
<1>. DEFINE v == WithElect(w, m, r)
<1>1. v \in NodeWorlds
  BY DEF NodeWorlds, NodeState, WithElect
<1>2. v.parents = w.parents /\ v.sent = w.sent /\ v.s = [w.s EXCEPT !.elect[r] = @ \cup {m}]
  BY DEF NodeWorlds, NodeState, WithElect
<1>3. v.s.elect = [w.s.elect EXCEPT ![r] = @ \cup {m}]
  BY <1>2 DEF NodeWorlds, NodeState
<1>4.      /\ v.s.round = w.s.round /\ v.s.dag = w.s.dag
           /\ v.s.pending_blocks = w.s.pending_blocks /\ v.s.done = w.s.done
           /\ v.s.leader = w.s.leader /\ v.s.chain_round = w.s.chain_round
           /\ v.s.chain = w.s.chain
           /\ v.s.committed = w.s.committed /\ v.s.output = w.s.output
  BY <1>2 DEF NodeWorlds, NodeState
<1>. HIDE DEF v
<1>. QED BY <1>1, <1>2, <1>3, <1>4 DEF v

(* What the election of a leader leaves.                                   *)
LEMMA LeaderChanged ==
    ASSUME NEW w \in NodeWorlds, NEW r \in Rounds
    PROVE  LET v == WithLeader(w, r) IN
           /\ v \in NodeWorlds
           /\ v.s.leader = w.s.leader \cup {r}
           /\ v.parents = w.parents /\ v.sent = w.sent
           /\ v.s.round = w.s.round /\ v.s.dag = w.s.dag
           /\ v.s.pending_blocks = w.s.pending_blocks /\ v.s.done = w.s.done
           /\ v.s.elect = w.s.elect /\ v.s.chain_round = w.s.chain_round
           /\ v.s.chain = w.s.chain
           /\ v.s.committed = w.s.committed /\ v.s.output = w.s.output
<1>. DEFINE v == WithLeader(w, r)
<1>1. v \in NodeWorlds
  BY DEF NodeWorlds, NodeState, WithLeader
<1>2. v.parents = w.parents /\ v.sent = w.sent /\ v.s = [w.s EXCEPT !.leader = @ \cup {r}]
  BY DEF NodeWorlds, NodeState, WithLeader
<1>3. v.s.leader = w.s.leader \cup {r}
  BY <1>2 DEF NodeWorlds, NodeState
<1>4.      /\ v.s.round = w.s.round /\ v.s.dag = w.s.dag
           /\ v.s.pending_blocks = w.s.pending_blocks /\ v.s.done = w.s.done
           /\ v.s.elect = w.s.elect /\ v.s.chain_round = w.s.chain_round
           /\ v.s.chain = w.s.chain
           /\ v.s.committed = w.s.committed /\ v.s.output = w.s.output
  BY <1>2 DEF NodeWorlds, NodeState
<1>. HIDE DEF v
<1>. QED BY <1>1, <1>2, <1>3, <1>4 DEF v

-----------------------------------------------------------------------------
(* Election.                                                               *)

(* What holds of a node between the steps of its handlers.                 *)
Core(c, w) ==
    /\ w \in NodeWorlds
    /\ CommitOK(c, w)
    /\ Elections(w)
    /\ w.s.pending_blocks \subseteq DOMAIN w.parents

(* The commits and the elections of v and w may differ, nothing else.      *)
SameButElect(w, v) ==
    /\ v.parents = w.parents /\ v.sent = w.sent
    /\ v.s.round = w.s.round /\ v.s.dag = w.s.dag
    /\ v.s.pending_blocks = w.s.pending_blocks /\ v.s.done = w.s.done

(* handle_elect: m sent the Elect of the round before, if there is one.    *)
LEMMA HandleElect ==
    ASSUME NEW w, Core(coin, w), NEW m \in Authority, NEW r \in Rounds,
           Even(r), r > 2 => m \in w.s.elect[r - 2]
    PROVE  LET v == handle_elect(w, m, r)
           IN /\ Core(coin, v)
              /\ SameButElect(w, v)
              /\ v.s.elect = [w.s.elect EXCEPT ![r] = @ \cup {m}]
<1>. DEFINE a == WithElect(w, m, r)
            b == WithLeader(a, r - 1)
            v == try_to_commit_leader(b, r - 1)
<1>1. /\ w \in NodeWorlds /\ CommitOK(coin, w) /\ Elections(w)
      /\ w.s.pending_blocks \subseteq DOMAIN w.parents
  BY DEF Core
<1>2. /\ a \in NodeWorlds
      /\ a.s.elect = [w.s.elect EXCEPT ![r] = @ \cup {m}]
      /\ a.parents = w.parents /\ a.sent = w.sent
      /\ a.s.round = w.s.round /\ a.s.dag = w.s.dag
      /\ a.s.pending_blocks = w.s.pending_blocks /\ a.s.done = w.s.done
      /\ a.s.leader = w.s.leader /\ a.s.chain_round = w.s.chain_round
      /\ a.s.chain = w.s.chain
      /\ a.s.committed = w.s.committed /\ a.s.output = w.s.output
  BY <1>1, ElectChanged
<1>3. handle_elect(w, m, r)
         = IF r - 1 \in w.s.leader \/ Cardinality(a.s.elect[r]) < quorum_num THEN a ELSE v
  BY DEF handle_elect, WithElect, WithLeader
<1>. HIDE DEF a
<1>4. CommitOK(coin, a)
  BY <1>1, <1>2 DEF CommitOK, DagOK, ChainOK, LeadersOK
<1>5. r \in Nat /\ r >= 2 /\ r - 1 \in Rounds /\ Odd(r - 1) /\ (r - 1) + 1 = r
      /\ (r > 2 => r - 2 \in Rounds) /\ r <= MaxRound /\ MaxRound \in Nat
  BY WahooAssumption DEF Rounds, Even, Odd
<1>6. w.s.elect \in [Rounds -> SUBSET Authority] /\ w.s.leader \in SUBSET Rounds
  BY <1>1 DEF NodeWorlds, NodeState
<1>7. /\ a.s.elect \in [Rounds -> SUBSET Authority]
      /\ \A q \in Rounds : a.s.elect[q] = IF q = r THEN w.s.elect[q] \cup {m} ELSE w.s.elect[q]
  <2>1. a.s.elect = [w.s.elect EXCEPT ![r] = w.s.elect[r] \cup {m}]
    BY <1>2
  <2>2. w.s.elect[r] \cup {m} \in SUBSET Authority
    BY <1>6
  <2>. QED
    BY <1>6, <2>1, <2>2
<1>8. \A q \in Rounds : Even(q) /\ q > 2 => a.s.elect[q] \subseteq a.s.elect[q - 2]
  <2>. TAKE q \in Rounds
  <2>. HAVE Even(q) /\ q > 2
  <2>1. q - 2 \in Rounds
    BY WahooAssumption DEF Rounds
  <2>2. w.s.elect[q] \subseteq w.s.elect[q - 2]
    BY <1>1 DEF Elections
  <2>3. q = r => m \in w.s.elect[q - 2]
    OBVIOUS
  <2>4. w.s.elect[q - 2] \subseteq a.s.elect[q - 2]
    BY <1>7, <2>1
  <2>. QED
    BY <1>7, <2>2, <2>3, <2>4
<1>9. \A q \in a.s.leader : Odd(q) /\ q + 1 \in Rounds
  BY <1>1, <1>2 DEF Elections
<1>10. \A q \in Rounds : Even(q) /\ q # r =>
          (q - 1 \in a.s.leader <=> Cardinality(a.s.elect[q]) >= quorum_num)
  BY <1>1, <1>2, <1>7 DEF Elections
<1>11. Cardinality(a.s.elect[r]) \in Nat /\ quorum_num \in Nat
       /\ (Cardinality(w.s.elect[r]) >= quorum_num => Cardinality(a.s.elect[r]) >= quorum_num)
  <2>1. w.s.elect[r] \subseteq a.s.elect[r] /\ w.s.elect[r] \in SUBSET Authority
        /\ a.s.elect[r] \in SUBSET Authority
    BY <1>6, <1>7
  <2>2. Cardinality(w.s.elect[r]) <= Cardinality(a.s.elect[r])
    BY <2>1, ElectFinite, FS_Subset
  <2>. QED
    BY <2>1, <2>2, ElectFinite, QuorumNat
<1>12. CASE r - 1 \in w.s.leader \/ Cardinality(a.s.elect[r]) < quorum_num
  <2>1. r - 1 \in w.s.leader => Cardinality(a.s.elect[r]) >= quorum_num
    BY <1>1, <1>11 DEF Elections
  <2>2. r - 1 \in a.s.leader <=> Cardinality(a.s.elect[r]) >= quorum_num
    BY <1>2, <1>11, <1>12, <2>1
  <2>3. Elections(a)
    BY <1>8, <1>9, <1>10, <2>2 DEF Elections
  <2>4. Core(coin, a) /\ SameButElect(w, a)
    BY <1>1, <1>2, <1>4, <2>3 DEF Core, SameButElect
  <2>. QED
    BY <1>2, <1>3, <1>12, <2>4
<1>13. CASE ~(r - 1 \in w.s.leader \/ Cardinality(a.s.elect[r]) < quorum_num)
  <2>1. /\ b \in NodeWorlds
        /\ b.s.leader = a.s.leader \cup {r - 1}
        /\ b.parents = a.parents /\ b.sent = a.sent
        /\ b.s.round = a.s.round /\ b.s.dag = a.s.dag
        /\ b.s.pending_blocks = a.s.pending_blocks /\ b.s.done = a.s.done
        /\ b.s.elect = a.s.elect /\ b.s.chain_round = a.s.chain_round
        /\ b.s.chain = a.s.chain
        /\ b.s.committed = a.s.committed /\ b.s.output = a.s.output
    BY <1>2, <1>5, LeaderChanged
  <2>. HIDE DEF b
  <2>2. CommitOK(coin, b)
    BY <1>4, <2>1 DEF CommitOK, DagOK, ChainOK, LeadersOK
  <2>3. \A q \in b.s.leader : Odd(q) /\ q + 1 \in Rounds
    BY <1>5, <1>9, <2>1
  <2>4. \A q \in Rounds : Even(q) =>
          (q - 1 \in b.s.leader <=> Cardinality(b.s.elect[q]) >= quorum_num)
    <3>. TAKE q \in Rounds
    <3>. HAVE Even(q)
    <3>1. CASE q = r
      BY <1>11, <1>13, <2>1, <3>1
    <3>2. CASE q # r
      <4>1. q - 1 # r - 1
        BY <3>2, <1>5 DEF Rounds
      <4>. QED
        BY <1>10, <2>1, <3>2, <4>1
    <3>. QED
      BY <3>1, <3>2
  <2>5. Elections(b)
    BY <1>8, <2>1, <2>3, <2>4 DEF Elections
  <2>6. SameButCommit(b, v) /\ CommitOK(coin, v)
    BY <2>1, <2>2, <2>5, TryToCommit
  <2>. HIDE DEF v
  <2>7. Elections(v)
    BY <2>5, <2>6 DEF Elections, SameButCommit
  <2>8. Core(coin, v) /\ SameButElect(w, v) /\ v.s.elect = a.s.elect
    BY <1>1, <1>2, <2>1, <2>6, <2>7 DEF Core, SameButElect, SameButCommit
  <2>. QED
    BY <1>2, <1>3, <1>13, <2>8
<1>. QED
  BY <1>12, <1>13

-----------------------------------------------------------------------------
(* The blocks that are broadcast.                                          *)

ParentsOK(P) ==
    /\ DOMAIN P \subseteq Slot
    /\ \A x \in DOMAIN P : \A p \in P[x] : p \in DOMAIN P /\ round(p) = round(x) - 1

(* R holds the blocks of P.                                                *)
Extends(P, R) == DOMAIN P \subseteq DOMAIN R /\ \A x \in DOMAIN P : R[x] = P[x]

(* A later block does not change what earlier commits went past.           *)
LEMMA NothingPassedKept ==
    ASSUME NEW c, NEW P, NEW R, Extends(P, R), NEW h, NEW last, NothingPassed(c, P, h, last)
    PROVE  NothingPassed(c, R, h, last)
<1>1. PICK S \in SUBSET DOMAIN P :
         /\ h \in S
         /\ Closed(P, S)
         /\ \A r \in last + 1 .. round(h) - 1 : Odd(r) => <<c[r], r>> \notin S
  BY DEF NothingPassed
<1>2. S \in SUBSET DOMAIN R /\ Closed(R, S)
  BY <1>1 DEF Closed, Extends
<1>. QED
  BY <1>1, <1>2 DEF NothingPassed

(* More blocks change nothing for a node.                                  *)
LEMMA CoreKept ==
    ASSUME NEW c, NEW w, Core(c, w), NEW v \in NodeWorlds, v.s = w.s,
           ParentsOK(v.parents), Extends(w.parents, v.parents)
    PROVE  Core(c, v)
<1>1. /\ w \in NodeWorlds /\ DagOK(w) /\ ChainOK(w) /\ LeadersOK(c, w) /\ Elections(w)
      /\ w.s.pending_blocks \subseteq DOMAIN w.parents
  BY DEF Core, CommitOK
<1>2. w.s.dag \subseteq DOMAIN w.parents /\ w.s.chain \subseteq w.s.dag
  BY <1>1 DEF DagOK, ChainOK
<1>3. \A x \in w.s.dag : v.parents[x] = w.parents[x]
  BY <1>2 DEF Extends
<1>4. DagOK(v)
  BY <1>1, <1>2, <1>3 DEF DagOK, ParentsOK, Extends, Closed
<1>5. ChainOK(v)
  BY <1>1, <1>2, <1>3 DEF ChainOK, Closed
<1>6. LeadersOK(c, v)
  <2>1. v.s.chain_round = RoundAt(v.s.committed, Len(v.s.committed))
    BY <1>1 DEF LeadersOK
  <2>2. ASSUME NEW i \in 1 .. Len(v.s.committed)
        PROVE  LET h == v.s.committed[i]
                   last == RoundAt(v.s.committed, i - 1)
               IN last < round(h) /\ NothingPassed(c, v.parents, h, last)
    BY <1>1, NothingPassedKept DEF LeadersOK
  <2>. QED
    BY <2>1, <2>2 DEF LeadersOK
<1>7. Elections(v) /\ v.s.pending_blocks \subseteq DOMAIN v.parents
  BY <1>1 DEF Elections, Extends
<1>. QED
  BY <1>4, <1>5, <1>6, <1>7 DEF Core, CommitOK

(* Whoever sends an Elect has sent that of two rounds before.              *)
ElectsInOrder(s) ==
    \A i \in 1 .. Len(s) : \A q :
       s[i] = <<"Elect", q>> =>
          /\ Even(q)
          /\ q > 2 => \E j \in 1 .. i - 1 : s[j] = <<"Elect", q - 2>>

(* What holds of node n and its blocks and messages.                       *)
OwnOK(n, w) ==
    /\ \A q \in Rounds : <<n, q>> \in DOMAIN w.parents <=> q <= w.s.round
    /\ \A q \in Rounds : Even(q) /\ q <= w.s.round =>
          /\ n \in w.s.elect[q]
          /\ \E i \in 1 .. Len(w.sent) : w.sent[i] = <<"Elect", q>>
    /\ ElectsInOrder(w.sent)
    /\ \A i \in 1 .. Len(w.sent) : \A q :
          w.sent[i] = <<"Certificate", q>> => <<n, q>> \in DOMAIN w.parents

NodeOK(c, n, w) == Core(c, w) /\ OwnOK(n, w)

(* What the steps of a handler of n do to what others see of n.            *)
Grows(n, w, v) ==
    /\ Extends(w.parents, v.parents)
    /\ \A x \in DOMAIN v.parents : x \in DOMAIN w.parents \/ author(x) = n
    /\ Len(w.sent) <= Len(v.sent)
    /\ \A i \in 1 .. Len(w.sent) : v.sent[i] = w.sent[i]
    /\ \A r \in Rounds : w.s.elect[r] \subseteq v.s.elect[r]

(* What two steps of a handler do to what others see of n.                 *)
LEMMA GrowsTransitive ==
    ASSUME NEW n, NEW u \in NodeWorlds, NEW v \in NodeWorlds, NEW w \in NodeWorlds,
           Grows(n, u, v), Grows(n, v, w)
    PROVE  Grows(n, u, w)
<1>1. Len(u.sent) \in Nat /\ Len(v.sent) \in Nat /\ Len(w.sent) \in Nat
  BY DEF NodeWorlds
<1>2. Extends(u.parents, w.parents)
  BY DEF Grows, Extends
<1>3. \A i \in 1 .. Len(u.sent) : i \in 1 .. Len(v.sent)
  BY <1>1 DEF Grows
<1>4. Len(u.sent) <= Len(w.sent) /\ \A i \in 1 .. Len(u.sent) : w.sent[i] = u.sent[i]
  BY <1>1, <1>3 DEF Grows
<1>5. \A x \in DOMAIN w.parents : x \in DOMAIN u.parents \/ author(x) = n
  BY DEF Grows
<1>6. \A r \in Rounds : u.s.elect[r] \subseteq w.s.elect[r]
  BY DEF Grows
<1>. QED
  BY <1>2, <1>4, <1>5, <1>6 DEF Grows

(* A step that does nothing is one of those.                               *)
LEMMA GrowsReflexive ==
    ASSUME NEW n, NEW w \in NodeWorlds
    PROVE  Grows(n, w, w)
<1>1. Len(w.sent) \in Nat
  BY DEF NodeWorlds
<1>. QED
  BY <1>1 DEF Grows, Extends

-----------------------------------------------------------------------------
(* Rounds.                                                                 *)

(* The changes of broadcast_block.                                         *)
WithRound(w, r) == [w EXCEPT !.s.round = r]
MoreBlocks(P, h, S) == [x \in {h} \cup DOMAIN P |-> IF x = h THEN S ELSE P[x]]
WithBlock(w, h, S) == [w EXCEPT !.parents = MoreBlocks(@, h, S)]
WithMessage(w, x) == [w EXCEPT !.sent = Append(@, x)]

(* What the move to another round leaves.                                  *)
LEMMA RoundChanged ==
    ASSUME NEW w \in NodeWorlds, NEW r \in Rounds
    PROVE  LET v == WithRound(w, r) IN
           /\ v \in NodeWorlds
           /\ v.s.round = r
           /\ v.parents = w.parents /\ v.sent = w.sent
           /\ v.s.elect = w.s.elect /\ v.s.dag = w.s.dag
           /\ v.s.pending_blocks = w.s.pending_blocks /\ v.s.done = w.s.done
           /\ v.s.leader = w.s.leader /\ v.s.chain_round = w.s.chain_round
           /\ v.s.chain = w.s.chain
           /\ v.s.committed = w.s.committed /\ v.s.output = w.s.output
<1>. DEFINE v == WithRound(w, r)
<1>1. v \in NodeWorlds
  BY DEF NodeWorlds, NodeState, WithRound
<1>2. v.parents = w.parents /\ v.sent = w.sent /\ v.s = [w.s EXCEPT !.round = r]
  BY DEF NodeWorlds, NodeState, WithRound
<1>3. v.s.round = r
  BY <1>2 DEF NodeWorlds, NodeState
<1>4. /\ v.s.elect = w.s.elect /\ v.s.dag = w.s.dag
      /\ v.s.pending_blocks = w.s.pending_blocks /\ v.s.done = w.s.done
      /\ v.s.leader = w.s.leader /\ v.s.chain_round = w.s.chain_round
      /\ v.s.chain = w.s.chain
      /\ v.s.committed = w.s.committed /\ v.s.output = w.s.output
  BY <1>2 DEF NodeWorlds, NodeState
<1>. HIDE DEF v
<1>. QED
  BY <1>1, <1>2, <1>3, <1>4 DEF v

(* One more block has its parents, and the others keep theirs.             *)
LEMMA MapExtended ==
    ASSUME NEW P \in BlockMap, NEW h \in Slot, h \notin DOMAIN P, NEW S \in SUBSET Slot
    PROVE  LET R == MoreBlocks(P, h, S)
           IN /\ R \in BlockMap /\ DOMAIN R = DOMAIN P \cup {h}
              /\ R[h] = S /\ Extends(P, R)
<1>. DEFINE R == MoreBlocks(P, h, S)
<1>1. PICK D \in SUBSET Slot : P \in [D -> SUBSET Slot]
  BY DEF BlockMap
<1>2. R = [x \in D \cup {h} |-> IF x = h THEN S ELSE P[x]]
  BY <1>1 DEF MoreBlocks
<1>. HIDE DEF R
<1>3. R \in [D \cup {h} -> SUBSET Slot] /\ D \cup {h} \in SUBSET Slot
  BY <1>1, <1>2
<1>4. R \in BlockMap
  BY <1>3 DEF BlockMap
<1>5. R[h] = S /\ DOMAIN R = DOMAIN P \cup {h} /\ Extends(P, R)
  BY <1>1, <1>2 DEF Extends
<1>. QED
  BY <1>4, <1>5 DEF R

(* What the broadcast of a block leaves.                                   *)
LEMMA BlockChanged ==
    ASSUME NEW w \in NodeWorlds, NEW h \in Slot, h \notin DOMAIN w.parents,
           NEW S \in SUBSET Slot
    PROVE  LET v == WithBlock(w, h, S) IN
           /\ v \in NodeWorlds /\ v.s = w.s /\ v.sent = w.sent
           /\ DOMAIN v.parents = DOMAIN w.parents \cup {h}
           /\ v.parents[h] = S /\ Extends(w.parents, v.parents)
<1>. DEFINE R == MoreBlocks(w.parents, h, S)
            v == WithBlock(w, h, S)
<1>1. R \in BlockMap /\ DOMAIN R = DOMAIN w.parents \cup {h}
      /\ R[h] = S /\ Extends(w.parents, R)
  BY MapExtended DEF NodeWorlds
<1>2. v = [w EXCEPT !.parents = R]
  BY DEF WithBlock
<1>. HIDE DEF R, v
<1>3. v \in NodeWorlds /\ v.s = w.s /\ v.sent = w.sent /\ v.parents = R
  BY <1>1, <1>2 DEF NodeWorlds
<1>. QED
  BY <1>1, <1>3 DEF v

(* What the sending of a message leaves.                                   *)
LEMMA MessageChanged ==
    ASSUME NEW w \in NodeWorlds, NEW x \in Message
    PROVE  LET v == WithMessage(w, x) IN
           /\ v \in NodeWorlds /\ v.s = w.s /\ v.parents = w.parents
           /\ Len(w.sent) \in Nat /\ Len(v.sent) = Len(w.sent) + 1
           /\ v.sent[Len(w.sent) + 1] = x
           /\ \A i \in 1 .. Len(w.sent) : v.sent[i] = w.sent[i]
<1>. DEFINE v == WithMessage(w, x)
            t == Append(w.sent, x)
<1>1. /\ w.sent \in Seq(Message) /\ t \in Seq(Message)
      /\ Len(w.sent) \in Nat /\ Len(t) = Len(w.sent) + 1
      /\ t[Len(w.sent) + 1] = x
      /\ \A i \in 1 .. Len(w.sent) : t[i] = w.sent[i]
  BY DEF NodeWorlds
<1>2. v = [w EXCEPT !.sent = t]
  BY DEF WithMessage
<1>. HIDE DEF t, v
<1>3. v \in NodeWorlds /\ v.s = w.s /\ v.parents = w.parents /\ v.sent = t
  BY <1>1, <1>2 DEF NodeWorlds
<1>. QED
  BY <1>1, <1>3 DEF v

(* A block of the next round, and in even rounds the Elect of its author.  *)
LEMMA NextRound ==
    ASSUME NEW n \in Authority, NEW w, NodeOK(coin, n, w), w.s.round < MaxRound
    PROVE  LET r == w.s.round
               v == broadcast_block([w EXCEPT !.s.round = r + 1], n, r + 1)
           IN NodeOK(coin, n, v) /\ Grows(n, w, v)
<1>. DEFINE r == w.s.round
            h == <<n, r + 1>>
            u == WithRound(w, r + 1)
            S == Level(u.s, (r + 1) - 1)
            b == WithBlock(u, h, S)
            e == handle_elect(b, n, r + 1)
            x == <<"Elect", r + 1>>
            v == broadcast_block([w EXCEPT !.s.round = r + 1], n, r + 1)
<1>1. Core(coin, w) /\ OwnOK(n, w) /\ w \in NodeWorlds
  BY DEF NodeOK, Core
<1>2. r \in Rounds /\ r \in Nat /\ r + 1 \in Rounds /\ MaxRound \in Nat /\ r >= 1
      /\ (r + 1) - 1 = r /\ (r + 1) - 2 = r - 1
  BY <1>1, WahooAssumption DEF NodeWorlds, NodeState, Rounds
<1>3. v = IF Even(r + 1) THEN WithMessage(e, x) ELSE b
  BY DEF broadcast_block, broadcast_elect, WithRound, WithBlock, WithMessage, MoreBlocks
<1>. HIDE DEF v, r, h
<1>4. /\ u \in NodeWorlds
      /\ u.s.round = r + 1
      /\ u.parents = w.parents /\ u.sent = w.sent
      /\ u.s.elect = w.s.elect /\ u.s.dag = w.s.dag
      /\ u.s.pending_blocks = w.s.pending_blocks /\ u.s.done = w.s.done
      /\ u.s.leader = w.s.leader /\ u.s.chain_round = w.s.chain_round
      /\ u.s.chain = w.s.chain
      /\ u.s.committed = w.s.committed /\ u.s.output = w.s.output
  BY <1>1, <1>2, RoundChanged
<1>. HIDE DEF u
<1>5. Core(coin, u)
  BY <1>1, <1>4 DEF Core, CommitOK, DagOK, ChainOK, LeadersOK, Elections
<1>6. /\ h \in Slot /\ round(h) = r + 1 /\ author(h) = n
      /\ h \notin DOMAIN w.parents
  BY <1>1, <1>2 DEF h, Slot, round, author, OwnOK, r
<1>7. DagOK(u) /\ S \in SUBSET Slot /\ \A p \in S : p \in DOMAIN u.parents /\ round(p) = r
  <2>1. DagOK(u)
    BY <1>5 DEF Core, CommitOK
  <2>. QED
    BY <1>2, <2>1 DEF DagOK, Level
<1>. HIDE DEF S
<1>8. /\ b \in NodeWorlds /\ b.s = u.s /\ b.sent = u.sent
      /\ DOMAIN b.parents = DOMAIN u.parents \cup {h}
      /\ b.parents[h] = S /\ Extends(u.parents, b.parents)
  BY <1>4, <1>6, <1>7, BlockChanged
<1>. HIDE DEF b
<1>9. ParentsOK(b.parents)
  <2>1. DOMAIN b.parents \subseteq Slot
    BY <1>6, <1>7, <1>8 DEF DagOK
  <2>2. ASSUME NEW y \in DOMAIN b.parents, NEW p \in b.parents[y]
        PROVE  p \in DOMAIN b.parents /\ round(p) = round(y) - 1
    <3>1. CASE y = h
      BY <1>2, <1>6, <1>7, <1>8, <2>2, <3>1
    <3>2. CASE y \in DOMAIN u.parents
      BY <1>7, <1>8, <2>2, <3>2 DEF DagOK, Extends
    <3>. QED
      BY <1>8, <3>1, <3>2
  <2>. QED
    BY <2>1, <2>2 DEF ParentsOK
<1>10. Core(coin, b)
  BY <1>5, <1>8, <1>9, CoreKept
<1>11. \A q \in Rounds : <<n, q>> \in DOMAIN b.parents <=> q <= r + 1
  <2>. TAKE q \in Rounds
  <2>1. <<n, q>> = h <=> q = r + 1
    BY DEF h
  <2>2. <<n, q>> \in DOMAIN u.parents <=> q <= r
    BY <1>1, <1>4 DEF OwnOK, r
  <2>. QED
    BY <1>2, <1>8, <2>1, <2>2 DEF Rounds
<1>12. Len(w.sent) \in Nat
  BY <1>1 DEF NodeWorlds
<1>13. CASE ~Even(r + 1)
  <2>1. v = b
    BY <1>3, <1>13
  <2>2. \A q \in Rounds : Even(q) /\ q <= r + 1 => q <= r
    BY <1>2, <1>13 DEF Rounds
  <2>3. OwnOK(n, b)
    <3>1. \A q \in Rounds : Even(q) /\ q <= b.s.round =>
          /\ n \in b.s.elect[q]
          /\ \E i \in 1 .. Len(b.sent) : b.sent[i] = <<"Elect", q>>
      BY <1>1, <1>4, <1>8, <2>2 DEF OwnOK, r
    <3>2. b.s.round = r + 1 /\ b.sent = w.sent /\ DOMAIN w.parents \subseteq DOMAIN b.parents
      BY <1>4, <1>8
    <3>3. ElectsInOrder(w.sent)
      BY <1>1 DEF OwnOK
    <3>4. \A i \in 1 .. Len(w.sent) : \A q :
             w.sent[i] = <<"Certificate", q>> => <<n, q>> \in DOMAIN w.parents
      BY <1>1 DEF OwnOK
    <3>. QED
      BY <1>11, <3>1, <3>2, <3>3, <3>4 DEF OwnOK
  <2>4. Grows(n, w, b)
    BY <1>4, <1>6, <1>8, <1>12 DEF Grows
  <2>. QED
    BY <1>10, <2>1, <2>3, <2>4 DEF NodeOK, v, r
<1>14. CASE Even(r + 1)
  <2>1. v = WithMessage(e, x)
    BY <1>3, <1>14
  <2>2. r + 1 > 2 => n \in b.s.elect[(r + 1) - 2]
    <3>1. r + 1 > 2 => r - 1 \in Rounds /\ Even(r - 1) /\ r - 1 <= r
      BY <1>2, <1>14 DEF Rounds, Even
    <3>2. r + 1 > 2 => n \in w.s.elect[r - 1]
      BY <1>1, <3>1 DEF OwnOK, r
    <3>. QED
      BY <1>2, <1>4, <1>8, <3>2
  <2>3. /\ Core(coin, e)
        /\ SameButElect(b, e)
        /\ e.s.elect = [b.s.elect EXCEPT ![r + 1] = @ \cup {n}]
    BY <1>2, <1>10, <1>14, <2>2, HandleElect
  <2>. HIDE DEF e
  <2>4. e \in NodeWorlds /\ e.sent = w.sent /\ e.s.round = r + 1
        /\ e.parents = b.parents
    BY <1>4, <1>8, <2>3 DEF Core, SameButElect
  <2>5. x \in Message
    BY <1>2 DEF Message
  <2>. DEFINE z == WithMessage(e, x)
  <2>6. /\ z \in NodeWorlds /\ z.s = e.s /\ z.parents = e.parents
        /\ Len(z.sent) = Len(w.sent) + 1
        /\ z.sent[Len(w.sent) + 1] = x
        /\ \A i \in 1 .. Len(w.sent) : z.sent[i] = w.sent[i]
    <3>1. /\ z \in NodeWorlds /\ z.s = e.s /\ z.parents = e.parents
          /\ Len(z.sent) = Len(e.sent) + 1
          /\ z.sent[Len(e.sent) + 1] = x
          /\ \A i \in 1 .. Len(e.sent) : z.sent[i] = e.sent[i]
      BY <2>4, <2>5, MessageChanged
    <3>. QED
      BY <2>4, <3>1
  <2>. HIDE DEF z
  <2>7. Core(coin, z)
    BY <2>3, <2>6 DEF Core, CommitOK, DagOK, ChainOK, LeadersOK, Elections
  <2>8. /\ b.s.elect \in [Rounds -> SUBSET Authority]
        /\ \A q \in Rounds : z.s.elect[q] = IF q = r + 1 THEN w.s.elect[q] \cup {n}
                                            ELSE w.s.elect[q]
    <3>1. b.s.elect \in [Rounds -> SUBSET Authority]
      BY <1>8 DEF NodeWorlds, NodeState
    <3>2. \A q \in Rounds : e.s.elect[q] = IF q = r + 1 THEN b.s.elect[q] \cup {n}
                                            ELSE b.s.elect[q]
      BY <1>2, <2>3, <3>1
    <3>3. z.s.elect = e.s.elect /\ b.s.elect = w.s.elect
      BY <1>4, <1>8, <2>6
    <3>. QED
      BY <3>1, <3>2, <3>3
  <2>9. \A i \in 1 .. Len(z.sent) : \/ i \in 1 .. Len(w.sent) /\ z.sent[i] = w.sent[i]
                                    \/ i = Len(w.sent) + 1 /\ z.sent[i] = x
    BY <1>12, <2>6
  <2>10. \A q \in Rounds : Even(q) /\ q <= r =>
            /\ n \in w.s.elect[q]
            /\ \E i \in 1 .. Len(w.sent) : w.sent[i] = <<"Elect", q>>
    BY <1>1 DEF OwnOK, r
  <2>11. \A i \in 1 .. Len(w.sent) : i \in 1 .. Len(z.sent)
    BY <1>12, <2>6
  <2>12. \A q \in Rounds : Even(q) /\ q <= r + 1 =>
            /\ n \in z.s.elect[q]
            /\ \E i \in 1 .. Len(z.sent) : z.sent[i] = <<"Elect", q>>
    <3>. TAKE q \in Rounds
    <3>. HAVE Even(q) /\ q <= r + 1
    <3>1. CASE q = r + 1
      <4>1. Len(w.sent) + 1 \in 1 .. Len(z.sent)
        BY <1>12, <2>6
      <4>. QED
        BY <2>6, <2>8, <3>1, <4>1
    <3>2. CASE q # r + 1
      <4>1. q <= r
        BY <1>2, <3>2 DEF Rounds
      <4>. QED
        BY <2>6, <2>8, <2>10, <2>11, <4>1
    <3>. QED
      BY <3>1, <3>2
  <2>13. ASSUME NEW i \in 1 .. Len(z.sent), NEW q, z.sent[i] = <<"Elect", q>>
         PROVE  Even(q) /\ (q > 2 => \E j \in 1 .. i - 1 : z.sent[j] = <<"Elect", q - 2>>)
    <3>1. CASE i \in 1 .. Len(w.sent) /\ z.sent[i] = w.sent[i]
      <4>1. Even(q) /\ (q > 2 => \E j \in 1 .. i - 1 : w.sent[j] = <<"Elect", q - 2>>)
        BY <1>1, <2>13, <3>1 DEF OwnOK, ElectsInOrder
      <4>2. \A j \in 1 .. i - 1 : j \in 1 .. Len(w.sent)
        BY <1>12, <3>1
      <4>. QED
        BY <2>6, <4>1, <4>2
    <3>2. CASE i = Len(w.sent) + 1 /\ z.sent[i] = x
      <4>1. q = r + 1
        BY <2>13, <3>2
      <4>2. q > 2 => r - 1 \in Rounds /\ Even(r - 1) /\ r - 1 <= r
        BY <1>2, <1>14, <4>1 DEF Rounds, Even
      <4>3. q > 2 => \E j \in 1 .. Len(w.sent) : w.sent[j] = <<"Elect", r - 1>>
        BY <2>10, <4>2
      <4>4. i - 1 = Len(w.sent) /\ q - 2 = r - 1
        BY <1>2, <1>12, <3>2, <4>1
      <4>. QED
        BY <1>14, <2>6, <4>1, <4>3, <4>4
    <3>. QED
      BY <2>9, <3>1, <3>2
  <2>14. ASSUME NEW i \in 1 .. Len(z.sent), NEW q, z.sent[i] = <<"Certificate", q>>
         PROVE  <<n, q>> \in DOMAIN z.parents
    <3>1. i \in 1 .. Len(w.sent) /\ z.sent[i] = w.sent[i]
      BY <2>9, <2>14
    <3>2. <<n, q>> \in DOMAIN w.parents
      BY <1>1, <2>14, <3>1 DEF OwnOK
    <3>. QED
      BY <1>4, <1>8, <2>4, <2>6, <3>2
  <2>15. OwnOK(n, z)
    <3>1. ElectsInOrder(z.sent)
      BY <2>13 DEF ElectsInOrder
    <3>. QED
      BY <1>11, <2>4, <2>6, <2>12, <2>14, <3>1 DEF OwnOK
  <2>16. Grows(n, w, z)
    <3>1. Extends(w.parents, z.parents)
      BY <1>4, <1>8, <2>4, <2>6
    <3>2. \A y \in DOMAIN z.parents : y \in DOMAIN w.parents \/ author(y) = n
      BY <1>4, <1>6, <1>8, <2>4, <2>6
    <3>3. Len(w.sent) <= Len(z.sent)
      BY <1>12, <2>6
    <3>. QED
      BY <2>6, <2>8, <3>1, <3>2, <3>3 DEF Grows
  <2>. QED
    BY <2>1, <2>7, <2>15, <2>16 DEF NodeOK, z, v, r
<1>. QED
  BY <1>13, <1>14

(* What the steps of a handler of n can leave of world w.                  *)
After(n, w) == {v \in NodeWorlds : NodeOK(coin, n, v) /\ Grows(n, w, v)}

(* Steps of a handler compose.                                             *)
LEMMA AfterAfter ==
    ASSUME NEW n, NEW w, NodeOK(coin, n, w), NEW v \in After(n, w), NEW u \in After(n, v)
    PROVE  u \in After(n, w)
<1>1. w \in NodeWorlds /\ v \in NodeWorlds /\ u \in NodeWorlds
  BY DEF After, NodeOK, Core
<1>. QED
  BY <1>1, GrowsTransitive DEF After

(* A handler may do nothing.                                               *)
LEMMA AfterNothing ==
    ASSUME NEW n, NEW w, NodeOK(coin, n, w)
    PROVE  w \in After(n, w)
BY GrowsReflexive DEF After, NodeOK, Core

(* OwnOK reads the blocks, messages, round and Elects only.                *)
LEMMA OwnKept ==
    ASSUME NEW n, NEW w, OwnOK(n, w), NEW v,
           v.parents = w.parents, v.sent = w.sent,
           v.s.round = w.s.round, v.s.elect = w.s.elect
    PROVE  OwnOK(n, v)
<1>1. \A q \in Rounds : <<n, q>> \in DOMAIN v.parents <=> q <= v.s.round
  BY DEF OwnOK
<1>2. \A q \in Rounds : Even(q) /\ q <= v.s.round =>
          /\ n \in v.s.elect[q]
          /\ \E i \in 1 .. Len(v.sent) : v.sent[i] = <<"Elect", q>>
  BY DEF OwnOK
<1>3. ElectsInOrder(v.sent)
  BY DEF OwnOK
<1>4. \A i \in 1 .. Len(v.sent) : \A q :
          v.sent[i] = <<"Certificate", q>> => <<n, q>> \in DOMAIN v.parents
  BY DEF OwnOK
<1>. QED
  BY <1>1, <1>2, <1>3, <1>4 DEF OwnOK

(* A commit.                                                               *)
LEMMA AfterCommit ==
    ASSUME NEW n, NEW w, NodeOK(coin, n, w), NEW r
    PROVE  try_to_commit_leader(w, r) \in After(n, w)
<1>. DEFINE v == try_to_commit_leader(w, r)
<1>1. Core(coin, w) /\ OwnOK(n, w) /\ w \in NodeWorlds
  BY DEF NodeOK, Core
<1>2. SameButCommit(w, v) /\ CommitOK(coin, v)
  BY <1>1, TryToCommit DEF Core
<1>. HIDE DEF v
<1>3. Core(coin, v)
  BY <1>1, <1>2 DEF Core, SameButCommit, Elections
<1>4. OwnOK(n, v)
  BY <1>1, <1>2, OwnKept DEF SameButCommit
<1>5. Grows(n, w, w)
  BY <1>1, GrowsReflexive
<1>6. Grows(n, w, v)
  BY <1>2, <1>5 DEF Grows, SameButCommit
<1>. QED
  BY <1>3, <1>4, <1>6 DEF After, NodeOK, Core, v

(* The equation of AfterRounds, and its steps.                             *)
RoundStep(n, r, u) ==
    IF u.s.round # r \/ MoveRound(u.s, r) < quorum_num THEN u
    ELSE broadcast_block([u EXCEPT !.s.round = r + 1], n, r + 1)

IsAfterRounds(f, w, n) ==
    f = [r \in w.s.round - 1 .. MaxRound - 1 |->
           IF r = w.s.round - 1 THEN w ELSE RoundStep(n, r, f[r - 1])]

(* AfterRounds is a choice among the solutions of its recursion.           *)
LEMMA AfterRoundsIs ==
    ASSUME NEW w, NEW n
    PROVE  AfterRounds(w, n) = CHOOSE f : IsAfterRounds(f, w, n)
BY DEF AfterRounds, IsAfterRounds, RoundStep

(* One round of try_to_next_round.                                         *)
LEMMA RoundStepOK ==
    ASSUME NEW n \in Authority, NEW w, NodeOK(coin, n, w), NEW u \in After(n, w),
           NEW r \in Int, r < MaxRound
    PROVE  RoundStep(n, r, u) \in After(n, w)
<1>1. CASE u.s.round # r \/ MoveRound(u.s, r) < quorum_num
  BY <1>1 DEF RoundStep
<1>2. CASE ~(u.s.round # r \/ MoveRound(u.s, r) < quorum_num)
  <2>. DEFINE v == broadcast_block([u EXCEPT !.s.round = r + 1], n, r + 1)
  <2>1. NodeOK(coin, n, u) /\ u.s.round = r
    BY <1>2 DEF After
  <2>2. NodeOK(coin, n, v) /\ Grows(n, u, v)
    BY <2>1, NextRound
  <2>3. RoundStep(n, r, u) = v
    BY <1>2 DEF RoundStep
  <2>. HIDE DEF v
  <2>4. v \in After(n, u)
    BY <2>2 DEF After, NodeOK, Core
  <2>. QED
    BY <2>3, <2>4, AfterAfter
<1>. QED
  BY <1>1, <1>2

(* try_to_next_round                                                       *)
LEMMA AfterNextRound ==
    ASSUME NEW n \in Authority, NEW w, NodeOK(coin, n, w), NEW q
    PROVE  try_to_next_round(w, n, q) \in After(n, w)
<1>. DEFINE a == w.s.round - 1
            b == MaxRound - 1
            V == After(n, w)
            G == [y \in (a .. b) \X V |-> RoundStep(n, y[1], y[2])]
<1>1. a \in Int /\ b \in Int /\ a <= b /\ MaxRound \in Nat
  BY WahooAssumption DEF NodeOK, Core, NodeWorlds, NodeState, Rounds
<1>2. w \in V
  BY AfterNothing
<1>3. \A r \in a .. b : \A u \in V : RoundStep(n, r, u) \in V
  <2>. TAKE r \in a .. b
  <2>. TAKE u \in V
  <2>1. r \in Int /\ r < MaxRound
    BY <1>1
  <2>. QED
    BY <2>1, RoundStepOK
<1>. HIDE DEF a, b, V
<1>4. G \in [(a .. b) \X V -> V]
  BY <1>3
<1>5. PICK f \in [a .. b -> V] : UpFrom(f, a, b, w, G)
  <2>. HIDE DEF G
  <2>. QED
    BY <1>1, <1>2, <1>4, UpwardRecursion
<1>6. ASSUME NEW r \in a .. b, r # a PROVE f[r] = RoundStep(n, r, f[r - 1])
  <2>1. r \in a + 1 .. b /\ r - 1 \in a .. b
    BY <1>1, <1>6
  <2>2. f[r - 1] \in V
    BY <2>1
  <2>. QED
    BY <1>5, <2>1, <2>2 DEF UpFrom
<1>7. f = [r \in a .. b |-> IF r = a THEN w ELSE RoundStep(n, r, f[r - 1])]
  BY <1>5, <1>6 DEF UpFrom
<1>8. \E g : IsAfterRounds(g, w, n)
  BY <1>7 DEF IsAfterRounds, a, b
<1>. DEFINE g == AfterRounds(w, n)
<1>9. IsAfterRounds(g, w, n)
  BY <1>8, AfterRoundsIs
<1>. HIDE DEF g
<1>10. g = [r \in a .. b |-> IF r = a THEN w ELSE RoundStep(n, r, g[r - 1])]
  BY <1>9 DEF IsAfterRounds, a, b
<1>11. g[a] \in V
  BY <1>1, <1>2, <1>10
<1>12. ASSUME NEW r \in a + 1 .. b, g[r - 1] \in V PROVE g[r] \in V
  <2>1. r \in a .. b /\ r # a
    BY <1>1
  <2>2. g[r] = RoundStep(n, r, g[r - 1])
    BY <1>10, <2>1
  <2>. QED
    BY <1>3, <1>12, <2>1, <2>2
<1>13. \A r \in a .. b : g[r] \in V
  BY <1>1, <1>11, <1>12, UpwardInvariance
<1>14. g[b] \in V
  BY <1>1, <1>13
<1>15. CASE q # w.s.round
  BY <1>2, <1>15 DEF try_to_next_round, V
<1>16. CASE q = w.s.round
  BY <1>14, <1>16 DEF try_to_next_round, V, b, g
<1>. QED
  BY <1>15, <1>16

-----------------------------------------------------------------------------
(* Deliveries.                                                             *)

WithDag(s, D, Q) == [s EXCEPT !.dag = D, !.pending_blocks = Q]
WithPending(w, h) == [w EXCEPT !.s.pending_blocks = @ \cup {h}]
WithDone(w, h) == [w EXCEPT !.s.done = @ \cup {h}]

(* What a change of the dag and of pending_blocks leaves.                  *)
LEMMA DagChanged ==
    ASSUME NEW s \in NodeState, NEW D \in SUBSET Slot, NEW Q \in SUBSET Slot
    PROVE  LET v == WithDag(s, D, Q) IN
           /\ v \in NodeState
           /\ v.dag = D /\ v.pending_blocks = Q
           /\ v.round = s.round /\ v.done = s.done
           /\ v.elect = s.elect /\ v.leader = s.leader
           /\ v.chain_round = s.chain_round /\ v.chain = s.chain
           /\ v.committed = s.committed /\ v.output = s.output
<1>1. WithDag(s, D, Q) \in NodeState
  BY DEF NodeState, WithDag
<1>. DEFINE v == WithDag(s, D, Q)
<1>2. /\ v.dag = D /\ v.pending_blocks = Q
      /\ v.round = s.round /\ v.done = s.done
      /\ v.elect = s.elect /\ v.leader = s.leader
      /\ v.chain_round = s.chain_round /\ v.chain = s.chain
      /\ v.committed = s.committed /\ v.output = s.output
  BY DEF NodeState, WithDag
<1>. QED
  BY <1>1, <1>2

(* v is w, whose blocks may wait or be done otherwise.                     *)
SameButBlocks(w, v) ==
    /\ v \in NodeWorlds
    /\ v.parents = w.parents /\ v.sent = w.sent
    /\ v.s.round = w.s.round /\ v.s.dag = w.s.dag
    /\ v.s.elect = w.s.elect /\ v.s.leader = w.s.leader
    /\ v.s.chain_round = w.s.chain_round /\ v.s.chain = w.s.chain
    /\ v.s.committed = w.s.committed /\ v.s.output = w.s.output

(* What store_pending_block leaves.                                        *)
LEMMA PendingChanged ==
    ASSUME NEW w \in NodeWorlds, NEW h \in Slot
    PROVE  LET v == WithPending(w, h) IN
           SameButBlocks(w, v) /\ v.s.pending_blocks = w.s.pending_blocks \cup {h}
<1>. DEFINE v == WithPending(w, h)
<1>1. v \in NodeWorlds
  BY DEF NodeWorlds, NodeState, WithPending
<1>2. /\ v.parents = w.parents /\ v.sent = w.sent
      /\ v.s = [w.s EXCEPT !.pending_blocks = @ \cup {h}]
  BY DEF NodeWorlds, NodeState, WithPending
<1>3. v.s.pending_blocks = w.s.pending_blocks \cup {h}
  BY <1>2 DEF NodeWorlds, NodeState
<1>4. /\ v.s.round = w.s.round /\ v.s.dag = w.s.dag
      /\ v.s.elect = w.s.elect /\ v.s.leader = w.s.leader
      /\ v.s.chain_round = w.s.chain_round /\ v.s.chain = w.s.chain
      /\ v.s.committed = w.s.committed /\ v.s.output = w.s.output
  BY <1>2 DEF NodeWorlds, NodeState
<1>. HIDE DEF v
<1>. QED
  BY <1>1, <1>2, <1>3, <1>4 DEF v, SameButBlocks

(* What store_done leaves.                                                 *)
LEMMA DoneChanged ==
    ASSUME NEW w \in NodeWorlds, NEW h \in Slot
    PROVE  LET v == WithDone(w, h) IN
           SameButBlocks(w, v) /\ v.s.pending_blocks = w.s.pending_blocks
<1>. DEFINE v == WithDone(w, h)
<1>1. v \in NodeWorlds
  BY DEF NodeWorlds, NodeState, WithDone
<1>2. /\ v.parents = w.parents /\ v.sent = w.sent
      /\ v.s = [w.s EXCEPT !.done = @ \cup {h}]
  BY DEF NodeWorlds, NodeState, WithDone
<1>3. v.s.pending_blocks = w.s.pending_blocks
  BY <1>2 DEF NodeWorlds, NodeState
<1>4. /\ v.s.round = w.s.round /\ v.s.dag = w.s.dag
      /\ v.s.elect = w.s.elect /\ v.s.leader = w.s.leader
      /\ v.s.chain_round = w.s.chain_round /\ v.s.chain = w.s.chain
      /\ v.s.committed = w.s.committed /\ v.s.output = w.s.output
  BY <1>2 DEF NodeWorlds, NodeState
<1>. HIDE DEF v
<1>. QED
  BY <1>1, <1>2, <1>3, <1>4 DEF v, SameButBlocks

(* More pending or done blocks: NodeOK holds of what they leave.           *)
LEMMA AfterBlocks ==
    ASSUME NEW n, NEW w, NodeOK(coin, n, w), NEW v, SameButBlocks(w, v),
           v.s.pending_blocks \subseteq DOMAIN w.parents
    PROVE  v \in After(n, w)
<1>1. /\ Core(coin, w) /\ OwnOK(n, w) /\ w \in NodeWorlds
      /\ CommitOK(coin, w) /\ Elections(w)
  BY DEF NodeOK, Core
<1>2. CommitOK(coin, v)
  BY <1>1 DEF SameButBlocks, CommitOK, DagOK, ChainOK, LeadersOK
<1>3. Elections(v)
  BY <1>1 DEF SameButBlocks, Elections
<1>4. Core(coin, v)
  BY <1>2, <1>3 DEF Core, SameButBlocks
<1>5. OwnOK(n, v)
  BY <1>1, OwnKept DEF SameButBlocks
<1>6. Grows(n, w, w)
  BY <1>1, GrowsReflexive
<1>7. Grows(n, w, v)
  BY <1>6 DEF Grows, SameButBlocks
<1>. QED
  BY <1>4, <1>5, <1>7 DEF After, NodeOK, SameButBlocks

(* A block that waits is added to the dag, when its parents are in it.     *)
LEMMA AfterAdding ==
    ASSUME NEW n \in Authority, NEW w, NodeOK(coin, n, w), NEW h \in w.s.pending_blocks,
           check_whether_can_add_to_dag(w, h)
    PROVE  AddToDag(w, n, h) \in After(n, w)
<1>. DEFINE D == w.s.dag \cup {h}
            Q == w.s.pending_blocks \ {h}
            s == WithDag(w.s, D, Q)
            v == WithState(w, s)
<1>1. /\ Core(coin, w) /\ OwnOK(n, w) /\ w \in NodeWorlds /\ w.s \in NodeState
      /\ CommitOK(coin, w) /\ Elections(w) /\ DagOK(w)
      /\ w.s.pending_blocks \subseteq DOMAIN w.parents
  BY DEF NodeOK, Core, CommitOK, NodeWorlds
<1>2. D \in SUBSET Slot /\ Q \in SUBSET Slot /\ h \in DOMAIN w.parents
  BY <1>1 DEF DagOK
<1>3. w.parents[h] \subseteq w.s.dag
  BY DEF check_whether_can_add_to_dag
<1>4. AddToDag(w, n, h) = IF Even(round(h)) THEN try_to_next_round(v, n, round(h))
                          ELSE try_to_commit_leader(v, round(h))
  BY DEF AddToDag, WithDag, WithState
<1>. HIDE DEF D, Q
<1>5. /\ s \in NodeState
      /\ s.dag = D /\ s.pending_blocks = Q
      /\ s.round = w.s.round /\ s.done = w.s.done
      /\ s.elect = w.s.elect /\ s.leader = w.s.leader
      /\ s.chain_round = w.s.chain_round /\ s.chain = w.s.chain
      /\ s.committed = w.s.committed /\ s.output = w.s.output
  BY <1>1, <1>2, DagChanged
<1>. HIDE DEF s
<1>6. v \in NodeWorlds /\ v.s = s /\ v.parents = w.parents /\ v.sent = w.sent
  BY <1>1, <1>5, StateChanged
<1>. HIDE DEF v
<1>7. DagOK(v)
  BY <1>1, <1>2, <1>3, <1>5, <1>6 DEF DagOK, Closed, D
<1>8. ChainOK(v)
  <2>1. ChainOK(w)
    BY <1>1 DEF CommitOK
  <2>. QED
    BY <1>5, <1>6, <2>1 DEF ChainOK, D
<1>9. LeadersOK(coin, v)
  BY <1>1, <1>5, <1>6 DEF CommitOK, LeadersOK
<1>10. Elections(v)
  BY <1>1, <1>5, <1>6 DEF Elections
<1>11. Core(coin, v)
  BY <1>1, <1>5, <1>6, <1>7, <1>8, <1>9, <1>10 DEF Core, CommitOK, Q
<1>12. OwnOK(n, v)
  BY <1>1, <1>5, <1>6, OwnKept
<1>13. Grows(n, w, w)
  BY <1>1, GrowsReflexive
<1>14. Grows(n, w, v)
  BY <1>5, <1>6, <1>13 DEF Grows
<1>15. NodeOK(coin, n, v) /\ v \in After(n, w)
  BY <1>6, <1>11, <1>12, <1>14 DEF After, NodeOK
<1>16. /\ try_to_next_round(v, n, round(h)) \in After(n, v)
       /\ try_to_commit_leader(v, round(h)) \in After(n, v)
  BY <1>15, AfterNextRound, AfterCommit
<1>17. AddToDag(w, n, h) \in After(n, v)
  BY <1>4, <1>16
<1>. QED
  BY <1>15, <1>17, AfterAfter

(* The calls of try_to_update_dag, and what they leave.                    *)
Calls(W) == [w : W, calls : Seq(Authority \X Nat)]

(* One call of try_to_update_dag.                                          *)
LEMMA NextCallOK ==
    ASSUME NEW n \in Authority, NEW w, NodeOK(coin, n, w), NEW order \in Seq(Authority),
           NEW c \in Calls(After(n, w))
    PROVE  NextCall(c, n, order) \in Calls(After(n, w))
<1>. DEFINE h == Head(c.calls)
            more == FromPending(round(h) + 1, order)
            v == AddToDag(c.w, n, h)
            W == After(n, w)
            K == Seq(Authority \X Nat)
<1>1. c.w \in W /\ c.calls \in K /\ c = [w |-> c.w, calls |-> c.calls]
  BY DEF Calls
<1>2. NodeOK(coin, n, c.w)
  BY <1>1 DEF After
<1>3. CASE c.calls = <<>>
  BY <1>3 DEF NextCall
<1>4. CASE c.calls # <<>>
  <2>1. h \in Authority \X Nat /\ Tail(c.calls) \in K
    BY <1>1, <1>4
  <2>2. CASE h \in c.w.s.pending_blocks /\ check_whether_can_add_to_dag(c.w, h)
    <3>1. v \in After(n, c.w)
      BY <1>2, <2>2, AfterAdding
    <3>2. v \in W
      BY <1>1, <3>1, AfterAfter
    <3>3. more \in K
      <4>1. round(h) + 1 \in Nat
        BY <2>1 DEF round
      <4>2. DOMAIN order = 1 .. Len(order) /\ Len(order) \in Nat
            /\ \A i \in 1 .. Len(order) : order[i] \in Authority
        OBVIOUS
      <4>. DEFINE k == round(h) + 1
      <4>. HIDE DEF h
      <4>3. more = [i \in 1 .. Len(order) |-> <<order[i], k>>]
        BY <4>2 DEF FromPending
      <4>. HIDE DEF k, more
      <4>4. \A i \in 1 .. Len(order) : <<order[i], k>> \in Authority \X Nat
        BY <4>1, <4>2 DEF k
      <4>. QED
        BY <4>2, <4>3, <4>4
    <3>4. more \o Tail(c.calls) \in K
      BY <2>1, <3>3
    <3>5. NextCall(c, n, order) = [w |-> v, calls |-> more \o Tail(c.calls)]
      BY <1>4, <2>2 DEF NextCall
    <3>. HIDE DEF v, more, h
    <3>. QED
      BY <3>2, <3>4, <3>5 DEF Calls
  <2>3. CASE ~(h \in c.w.s.pending_blocks /\ check_whether_can_add_to_dag(c.w, h))
    <3>1. NextCall(c, n, order) = [c EXCEPT !.calls = Tail(@)]
      BY <1>4, <2>3 DEF NextCall
    <3>2. [c EXCEPT !.calls = Tail(@)] \in Calls(W)
      BY <1>1, <2>1 DEF Calls
    <3>. QED
      BY <3>1, <3>2
  <2>. QED
    BY <2>2, <2>3
<1>. QED
  BY <1>3, <1>4

(* The slots can be counted.                                               *)
LEMMA SlotsFinite ==
    ASSUME NEW S \in SUBSET Slot
    PROVE  IsFiniteSet(S) /\ Cardinality(S) \in Nat
<1>1. IsFiniteSet(Rounds)
  BY FS_Interval, WahooAssumption DEF Rounds
<1>2. IsFiniteSet(Slot)
  BY <1>1, FS_Product, WahooAssumption DEF Slot
<1>3. IsFiniteSet(S)
  BY <1>2, FS_Subset
<1>. QED
  BY <1>3, FS_CardinalityType

IsAfterCalls(f, b, c, n, order) ==
    f = [i \in 0 .. b |-> IF i = 0 THEN c ELSE NextCall(f[i - 1], n, order)]

(* AfterCalls is a choice among the solutions of its recursion.            *)
LEMMA AfterCallsIs ==
    ASSUME NEW w, NEW n, NEW h, NEW order
    PROVE  LET v == WithPending(w, h)
               size == Cardinality(v.s.pending_blocks)
           IN AfterCalls(w, n, h, order)
                 = CHOOSE f : IsAfterCalls(f, size * size, [w |-> v, calls |-> <<h>>], n, order)
BY DEF AfterCalls, IsAfterCalls, WithPending

(* try_to_update_dag                                                       *)
LEMMA AfterUpdate ==
    ASSUME NEW n \in Authority, NEW w, NodeOK(coin, n, w), NEW order \in Seq(Authority),
           NEW h \in DOMAIN w.parents
    PROVE  try_to_update_dag(w, n, h, order) \in After(n, w)
<1>. DEFINE v == WithPending(w, h)
            size == Cardinality(v.s.pending_blocks)
            b == size * size
            c == [w |-> v, calls |-> <<h>>]
            V == Calls(After(n, w))
            G == [y \in (0 .. b) \X V |-> NextCall(y[2], n, order)]
<1>1. w \in NodeWorlds /\ DagOK(w) /\ h \in Slot /\ w.s.pending_blocks \subseteq DOMAIN w.parents
  BY DEF NodeOK, Core, CommitOK, DagOK
<1>2. SameButBlocks(w, v) /\ v.s.pending_blocks = w.s.pending_blocks \cup {h}
  BY <1>1, PendingChanged
<1>3. v \in After(n, w)
  BY <1>1, <1>2, AfterBlocks
<1>. HIDE DEF v
<1>4. c \in V
  <2>1. h \in Authority \X Nat
    BY <1>1 DEF Slot, Rounds
  <2>2. <<h>> \in Seq(Authority \X Nat)
    BY <2>1
  <2>. QED
    BY <1>3, <2>2 DEF Calls
<1>5. size \in Nat /\ size = Cardinality(w.s.pending_blocks \cup {h})
  <2>1. v.s.pending_blocks \in SUBSET Slot
    BY <1>2 DEF SameButBlocks, NodeWorlds, NodeState
  <2>. QED
    BY <1>2, <2>1, SlotsFinite
<1>. HIDE DEF size
<1>6. b \in Int /\ 0 \in Int /\ 0 <= b
  BY <1>5
<1>7. \A i : \A d \in V : NextCall(d, n, order) \in V
  BY NextCallOK
<1>. HIDE DEF b, V, c
<1>8. G \in [(0 .. b) \X V -> V]
  BY <1>7
<1>9. PICK f \in [0 .. b -> V] : UpFrom(f, 0, b, c, G)
  <2>. HIDE DEF G
  <2>. QED
    BY <1>4, <1>6, <1>8, UpwardRecursion
<1>10. ASSUME NEW i \in 0 .. b, i # 0 PROVE f[i] = NextCall(f[i - 1], n, order)
  <2>1. i \in 0 + 1 .. b /\ i - 1 \in 0 .. b
    BY <1>6, <1>10
  <2>2. f[i - 1] \in V
    BY <2>1
  <2>. QED
    BY <1>9, <2>1, <2>2 DEF UpFrom
<1>11. IsAfterCalls(f, b, c, n, order)
  BY <1>9, <1>10 DEF UpFrom, IsAfterCalls
<1>. DEFINE g == AfterCalls(w, n, h, order)
<1>12. IsAfterCalls(g, b, c, n, order)
  <2>1. g = CHOOSE f1 : IsAfterCalls(f1, b, c, n, order)
    BY AfterCallsIs DEF v, size, b, c
  <2>. QED
    BY <1>11, <2>1
<1>13. try_to_update_dag(w, n, h, order) = g[b].w
  BY <1>5 DEF try_to_update_dag, b
<1>. HIDE DEF g
<1>14. g[0] \in V
  BY <1>4, <1>6, <1>12 DEF IsAfterCalls
<1>15. ASSUME NEW i \in 0 + 1 .. b, g[i - 1] \in V PROVE g[i] \in V
  <2>1. i \in 0 .. b /\ i # 0
    BY <1>6
  <2>2. g[i] = NextCall(g[i - 1], n, order)
    BY <1>12, <2>1 DEF IsAfterCalls
  <2>. QED
    BY <1>7, <1>15, <2>2
<1>16. \A i \in 0 .. b : g[i] \in V
  BY <1>6, <1>14, <1>15, UpwardInvariance
<1>17. g[b] \in V
  BY <1>6, <1>16
<1>. QED
  BY <1>13, <1>17 DEF V, Calls

(* handle_delivered                                                        *)
LEMMA AfterDelivered ==
    ASSUME NEW n \in Authority, NEW w, NodeOK(coin, n, w), NEW order \in Seq(Authority),
           NEW h \in DOMAIN w.parents
    PROVE  handle_delivered(w, n, h, order) \in After(n, w)
<1>. DEFINE u == try_to_update_dag(w, n, h, order)
            d == WithDone(u, h)
            e == try_to_next_round(d, n, round(h))
            v == try_to_commit_leader(e, round(h))
<1>1. u \in After(n, w)
  BY AfterUpdate
<1>2. handle_delivered(w, n, h, order) = IF Odd(round(h)) THEN v ELSE u
  BY DEF handle_delivered, handle_done, WithDone
<1>. HIDE DEF u
<1>3. NodeOK(coin, n, u) /\ u \in NodeWorlds
  BY <1>1 DEF After
<1>4. h \in Slot
  BY DEF NodeOK, Core, CommitOK, DagOK
<1>5. SameButBlocks(u, d) /\ d.s.pending_blocks = u.s.pending_blocks
  BY <1>3, <1>4, DoneChanged
<1>6. u.s.pending_blocks \subseteq DOMAIN u.parents
  BY <1>3 DEF NodeOK, Core
<1>7. d \in After(n, u)
  BY <1>3, <1>5, <1>6, AfterBlocks
<1>. HIDE DEF d
<1>8. d \in After(n, w) /\ NodeOK(coin, n, d)
  BY <1>1, <1>7, AfterAfter DEF After
<1>9. e \in After(n, d)
  BY <1>8, AfterNextRound
<1>. HIDE DEF e
<1>10. e \in After(n, w) /\ NodeOK(coin, n, e)
  BY <1>8, <1>9, AfterAfter DEF After
<1>11. v \in After(n, e)
  BY <1>10, AfterCommit
<1>. HIDE DEF v
<1>12. v \in After(n, w)
  BY <1>10, <1>11, AfterAfter
<1>. QED
  BY <1>1, <1>2, <1>12

-----------------------------------------------------------------------------
(* The inductive invariant.                                                *)

NodeTypes ==
    /\ state \in [Authority -> NodeState]
    /\ parents \in BlockMap
    /\ sent \in [Authority -> Seq(Message)]
    /\ received \in [Authority -> [Authority -> Nat]]
    /\ coin \in Coin

(* An authority has stored the Elects that have reached it.                *)
ElectsStored ==
    \A n, m \in Authority : n # m =>
       /\ received[n][m] <= Len(sent[m])
       /\ \A i \in 1 .. received[n][m] : \A q \in Rounds :
             sent[m][i] = <<"Elect", q>> => m \in state[n].elect[q]

NodeInv ==
    /\ NodeTypes
    /\ \A n \in Authority : NodeOK(coin, n, NodeWorld(n))
    /\ ElectsStored

(* Nothing is elected without an Elect.                                    *)
LEMMA QuorumPositive ==
    ASSUME NEW n \in Authority
    PROVE  quorum_num \in Nat /\ quorum_num >= 1
<1>1. node_num \in Nat /\ node_num # 0
  BY WahooAssumption, FS_CardinalityType, FS_EmptySet DEF node_num
<1>2. (2 * node_num + 2) \div 3 >= 1
  BY <1>1
<1>. QED
  BY <1>1, <1>2, QuorumNat DEF quorum_num

(* Node::new: the invariant holds when the authorities have started.       *)
LEMMA NodeInitInv == NodeInit => NodeInv
<1>. SUFFICES ASSUME NodeInit PROVE NodeInv
  OBVIOUS
<1>. USE DEF NodeInit
<1>1. 1 \in Rounds /\ MaxRound \in Nat
  BY WahooAssumption DEF Rounds
<1>2. NewNode \in NodeState
  <2>1. <<>> \in Seq(Slot) /\ <<>> \in Seq(SUBSET Slot)
    OBVIOUS
  <2>2. [r \in 1 .. MaxRound |-> {}] \in [Rounds -> SUBSET Authority]
    BY DEF Rounds
  <2>. QED
    BY <1>1, <2>1, <2>2 DEF NewNode, NodeState
<1>3. Authority \X {1} \in SUBSET Slot
  BY <1>1 DEF Slot
<1>4. parents \in [Authority \X {1} -> SUBSET Slot] /\ parents \in BlockMap
  <2>. DEFINE D == Authority \X {1}
  <2>1. parents \in [D -> SUBSET Slot]
    OBVIOUS
  <2>2. D \in SUBSET Slot
    BY <1>3
  <2>. HIDE DEF D
  <2>3. parents \in BlockMap
    BY <2>1, <2>2 DEF BlockMap
  <2>. QED
    BY <2>1, <2>3 DEF D
<1>5. NodeTypes
  BY <1>2, <1>4 DEF NodeTypes
<1>6. ASSUME NEW n \in Authority PROVE NodeOK(coin, n, NodeWorld(n))
  <2>. DEFINE w == NodeWorld(n)
  <2>1. w.s = NewNode /\ w.parents = parents /\ w.sent = <<>> /\ w \in NodeWorlds
    BY <1>2, <1>4 DEF NodeWorld, NodeWorlds
  <2>. HIDE DEF w
  <2>2. /\ w.s.round = 1 /\ w.s.dag = {} /\ w.s.pending_blocks = {}
        /\ w.s.elect = [r \in Rounds |-> {}] /\ w.s.leader = {}
        /\ w.s.chain_round = 0 /\ w.s.chain = {}
        /\ w.s.committed = <<>> /\ w.s.output = <<>>
    BY <2>1 DEF NewNode, Rounds
  <2>3. DagOK(w)
    BY <1>3, <1>4, <2>1, <2>2 DEF DagOK, Closed
  <2>4. ChainOK(w)
    BY <2>2 DEF ChainOK, Closed, BlocksOf, Disjoint
  <2>5. LeadersOK(coin, w)
    BY <2>2 DEF LeadersOK, RoundAt
  <2>6. Elections(w)
    <3>1. \A r \in Rounds : Cardinality(w.s.elect[r]) = 0
      BY <2>2, FS_EmptySet
    <3>. QED
      BY <2>2, <3>1, QuorumPositive DEF Elections
  <2>7. \A q \in Rounds : <<n, q>> \in DOMAIN w.parents <=> q <= w.s.round
    BY <1>4, <2>1, <2>2 DEF Rounds
  <2>8. \A q \in Rounds : ~(Even(q) /\ q <= w.s.round)
    <3>. SUFFICES ASSUME NEW q \in Rounds, Even(q), q <= w.s.round PROVE FALSE
      OBVIOUS
    <3>1. q = 1
      BY <1>1, <2>2 DEF Rounds
    <3>. QED
      BY <3>1 DEF Even
  <2>9. OwnOK(n, w)
    BY <2>1, <2>7, <2>8 DEF OwnOK, ElectsInOrder
  <2>10. Core(coin, w)
    BY <2>1, <2>2, <2>3, <2>4, <2>5, <2>6 DEF Core, CommitOK
  <2>. QED
    BY <2>9, <2>10 DEF NodeOK, w
<1>7. ElectsStored
  BY DEF ElectsStored
<1>. QED
  BY <1>5, <1>6, <1>7 DEF NodeInv

(* The other authorities, when n broadcasts more.                          *)
LEMMA OthersKept ==
    ASSUME NEW c, NEW n, NEW w, NEW u \in NodeWorlds, DagOK(u), Grows(n, w, u),
           NEW k, k # n, NEW x, NodeOK(c, k, x), x.parents = w.parents,
           NEW y \in NodeWorlds, y.s = x.s, y.sent = x.sent, y.parents = u.parents
    PROVE  NodeOK(c, k, y)
<1>1. ParentsOK(u.parents)
  BY DEF DagOK, ParentsOK
<1>2. Extends(x.parents, y.parents)
  BY DEF Grows
<1>3. Core(c, x) /\ OwnOK(k, x)
  BY DEF NodeOK
<1>4. Core(c, y)
  BY <1>1, <1>2, <1>3, CoreKept
<1>5. \A q \in Rounds : <<k, q>> \in DOMAIN y.parents <=> q <= y.s.round
  <2>. TAKE q \in Rounds
  <2>1. author(<<k, q>>) # n
    BY DEF author
  <2>2. <<k, q>> \in DOMAIN y.parents <=> <<k, q>> \in DOMAIN x.parents
    BY <1>2, <2>1 DEF Grows, Extends
  <2>. QED
    BY <1>3, <2>2 DEF OwnOK
<1>6. \A q \in Rounds : Even(q) /\ q <= y.s.round =>
          /\ k \in y.s.elect[q]
          /\ \E i \in 1 .. Len(y.sent) : y.sent[i] = <<"Elect", q>>
  BY <1>3 DEF OwnOK
<1>7. \A i \in 1 .. Len(y.sent) : \A q :
          y.sent[i] = <<"Certificate", q>> => <<k, q>> \in DOMAIN y.parents
  BY <1>2, <1>3 DEF OwnOK, Extends
<1>8. OwnOK(k, y)
  BY <1>3, <1>5, <1>6, <1>7 DEF OwnOK
<1>. QED
  BY <1>4, <1>8 DEF NodeOK

(* After a step of n that leaves u the Elects that have reached the others *)
(* are stored.                                                             *)
StoredNext(n, u) ==
    \A k, m \in Authority : k # m =>
       /\ received'[k][m] <= Len(sent[m])
       /\ \A i \in 1 .. received'[k][m] : \A q \in Rounds :
             sent[m][i] = <<"Elect", q>> => m \in (IF k = n THEN u.s ELSE state[k]).elect[q]

(* The step of a handler of n that leaves u.                               *)
LEMMA BecomesInv ==
    ASSUME NodeInv, NEW n \in Authority, NEW u, NodeOK(coin, n, u),
           Grows(n, NodeWorld(n), u), NodeBecomes(n, u),
           received' \in [Authority -> [Authority -> Nat]],
           StoredNext(n, u)
    PROVE  NodeInv'
<1>1. /\ NodeTypes /\ ElectsStored
      /\ \A k \in Authority : NodeOK(coin, k, NodeWorld(k))
  BY DEF NodeInv
<1>2. /\ u \in NodeWorlds /\ DagOK(u) /\ u.s \in NodeState
      /\ u.parents \in BlockMap /\ u.sent \in Seq(Message)
  BY DEF NodeOK, Core, CommitOK, NodeWorlds
<1>3. /\ state' = [state EXCEPT ![n] = u.s]
      /\ parents' = u.parents
      /\ sent' = [sent EXCEPT ![n] = u.sent]
      /\ coin' = coin
  BY DEF NodeBecomes
<1>4. NodeTypes'
  BY <1>1, <1>2, <1>3 DEF NodeTypes
<1>5. /\ \A k \in Authority : state'[k] = IF k = n THEN u.s ELSE state[k]
      /\ \A k \in Authority : sent'[k] = IF k = n THEN u.sent ELSE sent[k]
  BY <1>1, <1>3 DEF NodeTypes
<1>6. ASSUME NEW k \in Authority PROVE NodeOK(coin, k, NodeWorld(k)')
  <2>. DEFINE y == [s |-> state'[k], parents |-> parents', sent |-> sent'[k]]
              x == NodeWorld(k)
  <2>1. NodeWorld(k)' = y
    BY DEF NodeWorld
  <2>2. CASE k = n
    <3>1. y = u
      BY <1>2, <1>3, <1>5, <2>2 DEF NodeWorlds
    <3>. QED
      BY <2>1, <2>2, <3>1
  <2>3. CASE k # n
    <3>1. x.s = state[k] /\ x.sent = sent[k] /\ x.parents = NodeWorld(n).parents
      BY DEF NodeWorld
    <3>2. y.s = x.s /\ y.sent = x.sent /\ y.parents = u.parents /\ y \in NodeWorlds
      <4>1. state[k] \in NodeState /\ sent[k] \in Seq(Message)
        BY <1>1 DEF NodeTypes
      <4>. QED
        BY <1>2, <1>3, <1>5, <2>3, <3>1, <4>1 DEF NodeWorlds
    <3>3. NodeOK(coin, k, x)
      BY <1>1
    <3>. HIDE DEF x, y
    <3>4. NodeOK(coin, k, y)
      BY <1>2, <2>3, <3>1, <3>2, <3>3, OthersKept
    <3>. QED
      BY <2>1, <3>4
  <2>. QED
    BY <2>2, <2>3
<1>7. ElectsStored'
  <2>1. SUFFICES ASSUME NEW k \in Authority, NEW m \in Authority, k # m
                 PROVE  /\ received'[k][m] <= Len(sent'[m])
                        /\ \A i \in 1 .. received'[k][m] : \A q \in Rounds :
                              sent'[m][i] = <<"Elect", q>> => m \in state'[k].elect[q]
    BY DEF ElectsStored
  <2>2. /\ Len(sent[m]) \in Nat /\ Len(sent'[m]) \in Nat /\ Len(sent[m]) <= Len(sent'[m])
        /\ \A i \in 1 .. Len(sent[m]) : sent'[m][i] = sent[m][i]
    <3>1. Len(sent[m]) \in Nat /\ Len(u.sent) \in Nat
      <4>1. sent[m] \in Seq(Message)
        BY <1>1 DEF NodeTypes
      <4>2. u.sent \in Seq(Message)
        BY <1>2
      <4>. QED
        BY <4>1, <4>2
    <3>2. Len(sent[n]) <= Len(u.sent) /\ \A i \in 1 .. Len(sent[n]) : u.sent[i] = sent[n][i]
      BY DEF Grows, NodeWorld
    <3>3. CASE m = n
      <4>1. sent'[m] = u.sent
        BY <1>5, <3>3
      <4>. QED
        BY <3>1, <3>2, <3>3, <4>1
    <3>4. CASE m # n
      <4>1. sent'[m] = sent[m]
        BY <1>5, <3>4
      <4>. QED
        BY <3>1, <4>1
    <3>. QED
      BY <3>3, <3>4
  <2>3. received'[k][m] \in Nat /\ received'[k][m] <= Len(sent[m])
    BY <2>1 DEF StoredNext
  <2>4. ASSUME NEW i \in 1 .. received'[k][m], NEW q \in Rounds, sent'[m][i] = <<"Elect", q>>
        PROVE  m \in state'[k].elect[q]
    <3>1. i \in 1 .. Len(sent[m])
      BY <2>2, <2>3
    <3>2. sent[m][i] = <<"Elect", q>>
      BY <2>2, <2>4, <3>1
    <3>. QED
      BY <1>5, <2>1, <2>4, <3>2 DEF StoredNext
  <2>5. received'[k][m] <= Len(sent'[m])
    BY <2>2, <2>3
  <2>. QED
    BY <2>4, <2>5
<1>. QED
  BY <1>3, <1>4, <1>6, <1>7 DEF NodeInv

(* The iteration over pending_blocks goes over authors.                    *)
LEMMA OrderType ==
    ASSUME NodeTypes, NEW n \in Authority, NEW order \in Orders(n)
    PROVE  order \in Seq(Authority)
<1>. DEFINE S == {author(h) : h \in state[n].pending_blocks}
<1>1. state[n].pending_blocks \in SUBSET Slot
  BY DEF NodeTypes, NodeState
<1>2. S \in SUBSET Authority
  BY <1>1, SlotFacts
<1>3. order \in [1 .. Cardinality(S) -> S]
  BY DEF Orders, SetToSeqs
<1>. HIDE DEF S
<1>4. Cardinality(S) \in Nat
  BY <1>2, ElectFinite
<1>5. order \in [1 .. Cardinality(S) -> Authority]
  BY <1>2, <1>3
<1>. QED
  BY <1>4, <1>5

(* An author certifies its block.                                          *)
LEMMA CertifyInv ==
    ASSUME NodeInv, NEW n \in Authority, NEW h \in DOMAIN parents, Certify(n, h)
    PROVE  NodeInv'
<1>. DEFINE a == NodeWorld(n)
            x == <<"Certificate", round(h)>>
            w == WithMessage(a, x)
<1>1. NodeTypes /\ ElectsStored /\ NodeOK(coin, n, a)
  BY DEF NodeInv
<1>2. author(h) = n /\ received' = received
  BY DEF Certify, CanCertify
<1>3. PICK order \in Orders(n) : NodeBecomes(n, handle_delivered(w, n, h, order))
  BY DEF Certify, WithMessage
<1>4. a.s = state[n] /\ a.parents = parents /\ a.sent = sent[n]
  BY DEF NodeWorld
<1>. HIDE DEF a
<1>5. a \in NodeWorlds /\ Core(coin, a) /\ OwnOK(n, a) /\ DagOK(a)
  BY <1>1 DEF NodeOK, Core, CommitOK
<1>6. h \in Slot /\ h = <<n, round(h)>> /\ round(h) \in Rounds
  BY <1>2, <1>4, <1>5, SlotFacts DEF DagOK
<1>7. x \in Message
  BY <1>6 DEF Message
<1>8. /\ w \in NodeWorlds /\ w.s = a.s /\ w.parents = a.parents
      /\ Len(a.sent) \in Nat /\ Len(w.sent) = Len(a.sent) + 1
      /\ w.sent[Len(a.sent) + 1] = x
      /\ \A i \in 1 .. Len(a.sent) : w.sent[i] = a.sent[i]
  BY <1>5, <1>7, MessageChanged
<1>. HIDE DEF w
<1>9. \A i \in 1 .. Len(w.sent) : \/ i \in 1 .. Len(a.sent) /\ w.sent[i] = a.sent[i]
                                  \/ w.sent[i] = x
  BY <1>8
<1>10. Core(coin, w)
  BY <1>5, <1>8 DEF Core, CommitOK, DagOK, ChainOK, LeadersOK, Elections
<1>11. OwnOK(n, w)
  <2>1. \A q \in Rounds : <<n, q>> \in DOMAIN w.parents <=> q <= w.s.round
    BY <1>5, <1>8 DEF OwnOK
  <2>2. \A i \in 1 .. Len(a.sent) : i \in 1 .. Len(w.sent)
    BY <1>8
  <2>3. \A q \in Rounds : Even(q) /\ q <= w.s.round =>
          /\ n \in w.s.elect[q]
          /\ \E i \in 1 .. Len(w.sent) : w.sent[i] = <<"Elect", q>>
    BY <1>5, <1>8, <2>2 DEF OwnOK
  <2>4. ASSUME NEW i \in 1 .. Len(w.sent), NEW q, w.sent[i] = <<"Elect", q>>
        PROVE  Even(q) /\ (q > 2 => \E j \in 1 .. i - 1 : w.sent[j] = <<"Elect", q - 2>>)
    <3>1. i \in 1 .. Len(a.sent) /\ w.sent[i] = a.sent[i]
      BY <1>9, <2>4
    <3>2. Even(q) /\ (q > 2 => \E j \in 1 .. i - 1 : a.sent[j] = <<"Elect", q - 2>>)
      BY <1>5, <2>4, <3>1 DEF OwnOK, ElectsInOrder
    <3>3. \A j \in 1 .. i - 1 : j \in 1 .. Len(a.sent)
      BY <1>8, <3>1
    <3>. QED
      BY <1>8, <3>2, <3>3
  <2>5. ASSUME NEW i \in 1 .. Len(w.sent), NEW q, w.sent[i] = <<"Certificate", q>>
        PROVE  <<n, q>> \in DOMAIN w.parents
    <3>1. CASE i \in 1 .. Len(a.sent) /\ w.sent[i] = a.sent[i]
      BY <1>5, <1>8, <2>5, <3>1 DEF OwnOK
    <3>2. CASE w.sent[i] = x
      BY <1>4, <1>6, <1>8, <2>5, <3>2
    <3>. QED
      BY <1>9, <3>1, <3>2
  <2>6. ElectsInOrder(w.sent)
    BY <2>4 DEF ElectsInOrder
  <2>. QED
    BY <2>1, <2>3, <2>5, <2>6 DEF OwnOK
<1>12. NodeOK(coin, n, w)
  BY <1>10, <1>11 DEF NodeOK
<1>13. Grows(n, a, w)
  BY <1>8 DEF Grows, Extends
<1>14. order \in Seq(Authority)
  BY <1>1, OrderType
<1>. DEFINE u == handle_delivered(w, n, h, order)
<1>15. u \in After(n, w)
  BY <1>4, <1>8, <1>12, <1>14, AfterDelivered
<1>. HIDE DEF u
<1>16. NodeOK(coin, n, u) /\ u \in NodeWorlds /\ Grows(n, w, u)
  BY <1>15 DEF After
<1>17. Grows(n, a, u)
  BY <1>5, <1>8, <1>13, <1>16, GrowsTransitive
<1>18. NodeBecomes(n, u)
  BY <1>3 DEF u
<1>19. received' \in [Authority -> [Authority -> Nat]]
  BY <1>1, <1>2 DEF NodeTypes
<1>20. \A q \in Rounds : state[n].elect[q] \subseteq u.s.elect[q]
  BY <1>4, <1>17 DEF Grows
<1>21. StoredNext(n, u)
  BY <1>1, <1>2, <1>20 DEF ElectsStored, StoredNext
<1>. QED
  BY <1>16, <1>17, <1>18, <1>19, <1>21, BecomesInv DEF a

(* What the Elect of m that comes next finds at n.                         *)
LEMMA ElectArrives ==
    ASSUME NodeInv, NEW n \in Authority, NEW m \in Authority, n # m,
           NEW i, i = received[n][m] + 1, i <= Len(sent[m]),
           NEW r, sent[m][i] = <<"Elect", r>>
    PROVE  /\ r \in Rounds /\ Even(r)
           /\ r > 2 => m \in state[n].elect[r - 2]
<1>1. NodeTypes /\ ElectsStored /\ OwnOK(m, NodeWorld(m))
  BY DEF NodeInv, NodeOK
<1>2. received[n][m] \in Nat /\ i \in 1 .. Len(sent[m]) /\ sent[m] \in Seq(Message)
  BY <1>1 DEF NodeTypes
<1>3. <<"Elect", r>> \in Message
  <2>1. sent[m][i] \in Message
    BY <1>2
  <2>. QED
    BY <2>1
<1>4. r \in Rounds /\ r \in Nat
  BY <1>3, WahooAssumption DEF Message, Rounds
<1>5. ElectsInOrder(sent[m])
  BY <1>1 DEF OwnOK, NodeWorld
<1>6. Even(r) /\ (r > 2 => \E j \in 1 .. i - 1 : sent[m][j] = <<"Elect", r - 2>>)
  BY <1>2, <1>5 DEF ElectsInOrder
<1>7. ASSUME r > 2 PROVE m \in state[n].elect[r - 2]
  <2>1. PICK j \in 1 .. i - 1 : sent[m][j] = <<"Elect", r - 2>>
    BY <1>6, <1>7
  <2>2. j \in 1 .. received[n][m]
    BY <1>2
  <2>3. r - 2 \in Rounds
    BY <1>4, <1>7, WahooAssumption DEF Rounds
  <2>. QED
    BY <1>1, <2>1, <2>2, <2>3 DEF ElectsStored
<1>. QED
  BY <1>4, <1>6, <1>7

(* The i-th message of m reaches n.                                        *)
Counted(n, m, i) == received' = [received EXCEPT ![n][m] = i]

(* In u authority n has stored it, if it is an Elect, and all it had.      *)
StoredThen(n, m, i, u) ==
    /\ \A q \in Rounds : state[n].elect[q] \subseteq u.s.elect[q]
    /\ \A q \in Rounds : sent[m][i] = <<"Elect", q>> => m \in u.s.elect[q]

(* The Elects that have reached the authorities, when one more message     *)
(* reaches n.                                                              *)
LEMMA StoredKept ==
    ASSUME NodeTypes, ElectsStored, NEW n \in Authority, NEW m \in Authority, n # m,
           NEW i, i = received[n][m] + 1, i <= Len(sent[m]),
           Counted(n, m, i),
           NEW u, StoredThen(n, m, i, u)
    PROVE  /\ received' \in [Authority -> [Authority -> Nat]]
           /\ StoredNext(n, u)
<1>1. received \in [Authority -> [Authority -> Nat]]
  BY DEF NodeTypes
<1>2. i \in Nat
  BY <1>1
<1>3. /\ received' \in [Authority -> [Authority -> Nat]]
      /\ \A k, l \in Authority :
            received'[k][l] = IF k = n /\ l = m THEN i ELSE received[k][l]
  BY <1>1, <1>2 DEF Counted
<1>4. ASSUME NEW k \in Authority, NEW l \in Authority, k # l
      PROVE  /\ received'[k][l] <= Len(sent[l])
             /\ \A j \in 1 .. received'[k][l] : \A q \in Rounds :
                   sent[l][j] = <<"Elect", q>> =>
                      l \in (IF k = n THEN u.s ELSE state[k]).elect[q]
  <2>1. /\ received[k][l] <= Len(sent[l])
        /\ \A j \in 1 .. received[k][l] : \A q \in Rounds :
              sent[l][j] = <<"Elect", q>> => l \in state[k].elect[q]
    BY <1>4 DEF ElectsStored
  <2>2. \A j \in 1 .. received[k][l] : \A q \in Rounds :
              sent[l][j] = <<"Elect", q>> =>
                 l \in (IF k = n THEN u.s ELSE state[k]).elect[q]
    BY <2>1 DEF StoredThen
  <2>3. CASE k = n /\ l = m
    <3>0. \A q \in Rounds : sent[m][i] = <<"Elect", q>> => m \in u.s.elect[q]
      BY DEF StoredThen
    <3>1. \A j \in 1 .. i : j \in 1 .. received[k][l] \/ j = i
      BY <1>1, <1>2, <2>3
    <3>. QED
      BY <1>3, <2>2, <2>3, <3>0, <3>1
  <2>4. CASE ~(k = n /\ l = m)
    BY <1>3, <2>1, <2>2, <2>4
  <2>. QED
    BY <2>3, <2>4
<1>. QED
  BY <1>3, <1>4 DEF StoredNext

(* A message reaches n.                                                    *)
LEMMA ReceiveInv ==
    ASSUME NodeInv, NEW n \in Authority, NEW m \in Authority, Receive(n, m)
    PROVE  NodeInv'
<1>. DEFINE a == NodeWorld(n)
            i == received[n][m] + 1
            kind == sent[m][i][1]
            r == sent[m][i][2]
<1>1. NodeTypes /\ ElectsStored /\ NodeOK(coin, n, a) /\ OwnOK(m, NodeWorld(m))
  BY DEF NodeInv, NodeOK
<1>2. /\ n # m /\ received[n][m] < Len(sent[m])
      /\ Counted(n, m, i)
  BY DEF Receive, CanReceive, Counted
<1>3. \/ kind = "Certificate" /\ \E order \in Orders(n) :
                                    NodeBecomes(n, handle_delivered(a, n, <<m, r>>, order))
      \/ kind = "Elect" /\ NodeBecomes(n, handle_elect(a, m, r))
  BY DEF Receive
<1>4. a.s = state[n] /\ a.parents = parents /\ a.sent = sent[n]
  BY DEF NodeWorld
<1>5. /\ received[n][m] \in Nat /\ sent[m] \in Seq(Message)
      /\ i \in 1 .. Len(sent[m]) /\ i <= Len(sent[m])
  BY <1>1, <1>2 DEF NodeTypes
<1>6. sent[m][i] \in Message
  BY <1>5
<1>7. sent[m][i] = <<kind, r>> /\ r \in Rounds
  BY <1>6 DEF Message
<1>. HIDE DEF a, i, kind, r
<1>8. i = received[n][m] + 1
  BY DEF i
<1>9. a \in NodeWorlds /\ Core(coin, a) /\ OwnOK(n, a)
  BY <1>1 DEF NodeOK, Core
<1>10. CASE kind = "Certificate"
  <2>1. PICK order \in Orders(n) : NodeBecomes(n, handle_delivered(a, n, <<m, r>>, order))
    BY <1>3, <1>10
  <2>2. <<m, r>> \in DOMAIN a.parents
    BY <1>1, <1>4, <1>5, <1>7, <1>10 DEF OwnOK, NodeWorld
  <2>3. order \in Seq(Authority)
    BY <1>1, OrderType
  <2>. DEFINE h == <<m, r>>
              u == handle_delivered(a, n, h, order)
  <2>4. u \in After(n, a)
    <3>. HIDE DEF h
    <3>. QED
      BY <1>1, <2>2, <2>3, AfterDelivered DEF h
  <2>5. NodeBecomes(n, u)
    BY <2>1
  <2>. HIDE DEF u
  <2>6. NodeOK(coin, n, u) /\ Grows(n, a, u)
    BY <2>4 DEF After
  <2>7. \A q \in Rounds : state[n].elect[q] \subseteq u.s.elect[q]
    BY <1>4, <2>6 DEF Grows
  <2>8. \A q \in Rounds : sent[m][i] = <<"Elect", q>> => m \in u.s.elect[q]
    BY <1>7, <1>10
  <2>9. /\ received' \in [Authority -> [Authority -> Nat]]
        /\ StoredNext(n, u)
    <3>1. StoredThen(n, m, i, u)
      BY <2>7, <2>8 DEF StoredThen
    <3>. QED
      BY <1>1, <1>2, <1>5, <1>8, <3>1, StoredKept
  <2>. QED
    BY <2>5, <2>6, <2>9, BecomesInv DEF a
<1>11. CASE kind = "Elect"
  <2>. DEFINE u == handle_elect(a, m, r)
  <2>1. Even(r) /\ (r > 2 => m \in a.s.elect[r - 2])
    BY <1>2, <1>4, <1>5, <1>7, <1>8, <1>11, ElectArrives
  <2>2. /\ Core(coin, u)
        /\ SameButElect(a, u)
        /\ u.s.elect = [a.s.elect EXCEPT ![r] = @ \cup {m}]
    BY <1>7, <1>9, <2>1, HandleElect
  <2>3. NodeBecomes(n, u)
    BY <1>3, <1>11
  <2>. HIDE DEF u
  <2>4. a.s.elect \in [Rounds -> SUBSET Authority]
    BY <1>9 DEF NodeWorlds, NodeState
  <2>5. /\ \A q \in Rounds : a.s.elect[q] \subseteq u.s.elect[q]
        /\ m \in u.s.elect[r]
    BY <1>7, <2>2, <2>4
  <2>6. u.parents = a.parents /\ u.sent = a.sent /\ u.s.round = a.s.round
    BY <2>2 DEF SameButElect
  <2>7. OwnOK(n, u)
    <3>1. \A q \in Rounds : <<n, q>> \in DOMAIN u.parents <=> q <= u.s.round
      BY <1>9, <2>6 DEF OwnOK
    <3>2. \A q \in Rounds : Even(q) /\ q <= u.s.round =>
            /\ n \in u.s.elect[q]
            /\ \E j \in 1 .. Len(u.sent) : u.sent[j] = <<"Elect", q>>
      BY <1>9, <2>5, <2>6 DEF OwnOK
    <3>3. ElectsInOrder(u.sent)
      BY <1>9, <2>6 DEF OwnOK
    <3>4. \A j \in 1 .. Len(u.sent) : \A q :
             u.sent[j] = <<"Certificate", q>> => <<n, q>> \in DOMAIN u.parents
      BY <1>9, <2>6 DEF OwnOK
    <3>. QED
      BY <3>1, <3>2, <3>3, <3>4 DEF OwnOK
  <2>8. Grows(n, a, u)
    <3>1. Grows(n, a, a)
      BY <1>9, GrowsReflexive
    <3>. QED
      BY <2>5, <2>6, <3>1 DEF Grows
  <2>9. NodeOK(coin, n, u)
    BY <2>2, <2>7 DEF NodeOK
  <2>10. \A q \in Rounds : state[n].elect[q] \subseteq u.s.elect[q]
    BY <1>4, <2>5
  <2>11. \A q \in Rounds : sent[m][i] = <<"Elect", q>> => m \in u.s.elect[q]
    BY <1>7, <2>5
  <2>12. /\ received' \in [Authority -> [Authority -> Nat]]
         /\ StoredNext(n, u)
    <3>1. StoredThen(n, m, i, u)
      BY <2>10, <2>11 DEF StoredThen
    <3>. QED
      BY <1>1, <1>2, <1>5, <1>8, <3>1, StoredKept
  <2>. QED
    BY <2>3, <2>8, <2>9, <2>12, BecomesInv DEF a
<1>. QED
  BY <1>3, <1>10, <1>11

(* Every step keeps the invariant.                                         *)
LEMMA NodeNextInv == NodeInv /\ [NodeNext]_node_vars => NodeInv'
<1>. SUFFICES ASSUME NodeInv, [NodeNext]_node_vars PROVE NodeInv'
  OBVIOUS
<1>1. CASE \E n \in Authority, h \in DOMAIN parents : Certify(n, h)
  BY <1>1, CertifyInv
<1>2. CASE \E n, m \in Authority : Receive(n, m)
  BY <1>2, ReceiveInv
<1>3. ASSUME state' = state, parents' = parents, sent' = sent, received' = received, coin' = coin
      PROVE  NodeInv'
  <2>1. NodeTypes'
    BY <1>3 DEF NodeInv, NodeTypes
  <2>2. ElectsStored'
    BY <1>3 DEF NodeInv, ElectsStored
  <2>3. \A n \in Authority : NodeWorld(n)' = NodeWorld(n)
    BY <1>3 DEF NodeWorld
  <2>4. \A n \in Authority : NodeOK(coin', n, NodeWorld(n)')
    BY <1>3, <2>3 DEF NodeInv
  <2>. QED
    BY <2>1, <2>2, <2>4 DEF NodeInv
<1>4. CASE \E n \in Authority : Stop(n)
  BY <1>3, <1>4 DEF Stop
<1>5. CASE UNCHANGED node_vars
  BY <1>3, <1>5 DEF node_vars
<1>. QED
  BY <1>1, <1>2, <1>4, <1>5 DEF NodeNext

(* Whatever order certificates and Elects arrive in and whoever stops,     *)
(* every node keeps to NodeOK: its chain is what it has output and is      *)
(* closed under parents, its leaders are those with a quorum of Elects,    *)
(* and who sent an Elect for a round sent those of the earlier rounds      *)
(* (try_to_next_round).                                                    *)
THEOREM NodeInvariant == NodeSpec => []NodeInv
<1>1. NodeInit => NodeInv
  BY NodeInitInv
<1>2. NodeInv /\ [NodeNext]_node_vars => NodeInv'
  BY NodeNextInv
<1>. QED
  BY <1>1, <1>2, PTL DEF NodeSpec

-----------------------------------------------------------------------------
(* Theorems.                                                               *)

IsHistory(f, h) ==
    f = [r \in 0 .. round(h) |->
           IF r = round(h) THEN {h} ELSE UNION {parents[x] : x \in f[r + 1]}]

(* History is a choice among the solutions of its recursion.               *)
LEMMA HistoryIs ==
    ASSUME NEW h
    PROVE  History(h) = CHOOSE f : IsHistory(f, h)
BY DEF History, IsHistory

(* The recursion of History has a solution for every block.                *)
LEMMA HistoryExists ==
    ASSUME ParentsOK(parents), NEW h \in DOMAIN parents
    PROVE  \E f : IsHistory(f, h)
<1>. DEFINE V == SUBSET DOMAIN parents
            below(A) == UNION {parents[x] : x \in A}
            G == [y \in (0 .. round(h)) \X V |-> below(y[2])]
<1>1. round(h) \in Int /\ 0 <= round(h) /\ 0 \in Int
  BY SlotFacts DEF ParentsOK
<1>2. {h} \in V
  OBVIOUS
<1>3. \A A \in V : below(A) \in V
  BY DEF ParentsOK
<1>. HIDE DEF below, V
<1>4. G \in [(0 .. round(h)) \X V -> V]
  BY <1>3
<1>5. PICK f \in [0 .. round(h) -> V] : DownFrom(f, 0, round(h), {h}, G)
  <2>. HIDE DEF G
  <2>. QED
    BY <1>1, <1>2, <1>4, DownwardRecursion
<1>6. ASSUME NEW r \in 0 .. round(h), r # round(h) PROVE f[r] = below(f[r + 1])
  <2>1. r \in 0 .. round(h) - 1 /\ r + 1 \in 0 .. round(h)
    BY <1>1, <1>6
  <2>2. f[r + 1] \in V
    BY <2>1
  <2>. QED
    BY <1>5, <2>1, <2>2 DEF DownFrom
<1>7. f = [r \in 0 .. round(h) |-> IF r = round(h) THEN {h} ELSE below(f[r + 1])]
  BY <1>5, <1>6 DEF DownFrom
<1>. QED
  BY <1>7 DEF IsHistory, below

(* A closed set that holds a block holds its history.                      *)
LEMMA HistoryInside ==
    ASSUME ParentsOK(parents), NEW S \in SUBSET DOMAIN parents, Closed(parents, S), NEW h \in S
    PROVE  \A r \in 0 .. round(h) : History(h)[r] \subseteq S
<1>. DEFINE f == History(h)
            Q == {r \in 0 .. round(h) : f[r] \subseteq S}
<1>1. IsHistory(f, h)
  BY HistoryIs, HistoryExists
<1>2. round(h) \in Int /\ 0 <= round(h) /\ 0 \in Int
  BY SlotFacts DEF ParentsOK
<1>. HIDE DEF f
<1>3. round(h) \in Q
  BY <1>1, <1>2 DEF IsHistory
<1>4. \A r \in 0 .. round(h) - 1 : r + 1 \in Q => r \in Q
  <2>. SUFFICES ASSUME NEW r \in 0 .. round(h) - 1, r + 1 \in Q PROVE r \in Q
    OBVIOUS
  <2>1. f[r] = UNION {parents[x] : x \in f[r + 1]}
    BY <1>1, <1>2 DEF IsHistory
  <2>2. f[r + 1] \subseteq S
    OBVIOUS
  <2>3. f[r] \subseteq S
    BY <2>1, <2>2 DEF Closed
  <2>. QED
    BY <1>2, <2>3
<1>5. 0 .. round(h) \subseteq Q
  <2>. HIDE DEF Q
  <2>. QED
    BY <1>2, <1>3, <1>4, DownwardInduction
<1>. QED
  BY <1>5 DEF f

(* What an authority outputs is its chain, which is closed under parents,  *)
(* and each commit outputs only what is not in it.                         *)
LEMMA OutputIsWhole == NodeInv => OutputWhole
<1>. SUFFICES ASSUME NodeInv, NEW n \in Authority
              PROVE  LET output == state[n].output
                     IN /\ \A i, j \in DOMAIN output : i # j => output[i] \cap output[j] = {}
                        /\ \A h \in UNION Range(output) : parents[h] \subseteq UNION Range(output)
  BY DEF OutputWhole
<1>. DEFINE w == NodeWorld(n)
            o == state[n].output
<1>1. ChainOK(w) /\ w.s.output = o /\ w.parents = parents /\ w \in NodeWorlds
  BY DEF NodeInv, NodeOK, Core, CommitOK, NodeWorld
<1>. HIDE DEF w, o
<1>2. o \in Seq(SUBSET Slot) /\ DOMAIN o = 1 .. Len(o)
  BY <1>1 DEF NodeWorlds, NodeState
<1>3. UNION Range(o) = BlocksOf(o)
  <2>1. \A i \in 1 .. Len(o) : o[i] \subseteq Slot
    BY <1>2
  <2>. QED
    BY <1>2, <2>1 DEF Range, BlocksOf
<1>4. \A h \in UNION Range(o) : parents[h] \subseteq UNION Range(o)
  BY <1>1, <1>3 DEF ChainOK, Closed
<1>5. \A i, j \in DOMAIN o : i # j => o[i] \cap o[j] = {}
  BY <1>1, <1>2 DEF ChainOK, Disjoint
<1>. QED
  BY <1>4, <1>5 DEF o

(* The i-th leader an authority commits is past that before it, and its    *)
(* history is in a set that has no leader in between.                      *)
LEMMA LeadersAreLinked == NodeInv => LinkedLeaderKept
<1>. SUFFICES ASSUME NodeInv, NEW n \in Authority, NEW i \in DOMAIN state[n].committed
              PROVE  LET h == state[n].committed[i]
                         last == IF i = 1 THEN 0 ELSE round(state[n].committed[i - 1])
                     IN /\ last < round(h)
                        /\ \A r \in last + 1 .. round(h) - 1 :
                              Odd(r) => Leader(r) \notin History(h)[r]
  BY DEF LinkedLeaderKept
<1>. DEFINE w == NodeWorld(n)
            s == state[n].committed
            h == s[i]
            last == IF i = 1 THEN 0 ELSE round(s[i - 1])
<1>1. /\ LeadersOK(coin, w) /\ DagOK(w) /\ w.s.committed = s /\ w.parents = parents
      /\ w \in NodeWorlds
  BY DEF NodeInv, NodeOK, Core, CommitOK, NodeWorld
<1>. HIDE DEF w, s
<1>2. s \in Seq(Slot)
  BY <1>1 DEF NodeWorlds, NodeState
<1>3. i \in 1 .. Len(s) /\ Len(s) \in Nat
  BY <1>2 DEF s
<1>4. last = RoundAt(s, i - 1)
  BY <1>3 DEF RoundAt
<1>5. last \in Nat
  <2>1. CASE i = 1
    BY <2>1
  <2>2. CASE i # 1
    <3>1. i - 1 \in 1 .. Len(s)
      BY <1>3, <2>2
    <3>2. s[i - 1] \in Slot
      BY <1>2, <3>1
    <3>. QED
      BY <2>2, <3>2, SlotFacts
  <2>. QED
    BY <2>1, <2>2
<1>6. last < round(h) /\ NothingPassed(coin, parents, h, last)
  BY <1>1, <1>3, <1>4 DEF LeadersOK
<1>7. ParentsOK(parents)
  BY <1>1 DEF DagOK, ParentsOK
<1>. HIDE DEF last, h
<1>8. PICK S \in SUBSET DOMAIN parents :
         /\ h \in S
         /\ Closed(parents, S)
         /\ \A r \in last + 1 .. round(h) - 1 : Odd(r) => <<coin[r], r>> \notin S
  BY <1>6 DEF NothingPassed
<1>9. \A r \in 0 .. round(h) : History(h)[r] \subseteq S
  BY <1>7, <1>8, HistoryInside
<1>10. round(h) \in Nat
  BY <1>7, <1>8, SlotFacts DEF ParentsOK
<1>11. \A r \in last + 1 .. round(h) - 1 : r \in 0 .. round(h)
  BY <1>5, <1>10
<1>12. \A r \in last + 1 .. round(h) - 1 : Odd(r) => Leader(r) \notin History(h)[r]
  BY <1>8, <1>9, <1>11 DEF Leader
<1>. QED
  BY <1>6, <1>12 DEF h, last, s

(* commit_ancestor_blocks: what a node outputs is closed under parents and *)
(* holds no block twice, for every committee, number of rounds and coin.   *)
THEOREM OutputIsAlwaysWhole == NodeSpec => []OutputWhole
BY NodeInvariant, OutputIsWhole, PTL

(* try_to_commit_ancestor_leader: a node commits leaders in ascending      *)
(* rounds and never goes past one in the history of the next, for every    *)
(* committee, number of rounds and coin.                                   *)
THEOREM LeadersAreAlwaysLinked == NodeSpec => []LinkedLeaderKept
BY NodeInvariant, LeadersAreLinked, PTL
=============================================================================
