-------------------------- MODULE BullsharkProofs ---------------------------
(***************************************************************************)
(* Theorems about the proposer in Bullshark mode: what it signs, whatever  *)
(* signals are replaced, extended or dropped on their way to it.           *)
(***************************************************************************)
EXTENDS BullsharkProposer, CommitteeProofs, TLAPS

(* The constants are numbers.                                              *)
ConstantsOK == gc_depth \in Nat /\ MaxRound \in Nat

(* What the Core may have processed: certificates, and those of the        *)
(* genesis.                                                                *)
AnyCertificate == Certificate \cup genesis(Authority)

(* ProposerSignal                                                          *)
Signal == [round : Rounds, certificates : SUBSET Certificate]

(* The fields of the Proposer.                                             *)
ProposerState == [round : Nat, last_parent_certs : SUBSET AnyCertificate,
                  last_leader : SUBSET AnyCertificate, advance : BOOLEAN]

(* A header, with what made the proposer sign it.                          *)
SignedHeader == [round : Nat, timer : BOOLEAN, parents : SUBSET AnyCertificate]

(* The values the state can have.                                          *)
TypeOK ==
    /\ delivered \in SUBSET AnyCertificate
    /\ aggregators \in [Rounds -> [used : SUBSET Authority, certificates : SUBSET Certificate]]
    /\ consensus_round \in Nat
    /\ gc_round \in Nat
    /\ signals \in Seq(Signal)
    /\ proposer \in ProposerState
    /\ made \in Seq(SignedHeader)

(* An aggregator holds what no signal took: all it counted before its      *)
(* quorum, nothing after it.                                               *)
AggregatorOK(a) ==
    IF HasQuorum(a.used) THEN a.certificates = {} ELSE Origins(a.certificates) = a.used

(* Every aggregator is one, over certificates of its own round.            *)
AggregatorsSound ==
    \A r \in Rounds :
       /\ aggregators[r].certificates \subseteq AtRound(r)
       /\ AggregatorOK(aggregators[r])

(* Proposer p has, or had, or will have from the first n signals of q a    *)
(* quorum of round r.                                                      *)
Announced(p, q, n, r) ==
    \/ p.round > r
    \/ p.round = r /\ p.last_parent_certs # {}
    \/ \E i \in 1 .. n : q[i].round = r /\ HasQuorum(Origins(q[i].certificates))

(* The signals q are stored certificates of their round, of those in D;    *)
(* one that is no quorum comes after one that is.                          *)
SignalsOK(p, q, D) ==
    \A i \in 1 .. Len(q) :
       /\ q[i].certificates # {}
       /\ \A c \in q[i].certificates : c \in D /\ c.round = q[i].round
       /\ HasQuorum(Origins(q[i].certificates)) \/ Announced(p, q, i - 1, q[i].round)

(* The signals on their way are good, and the quorum of an aggregator that *)
(* has one is among them or was received.                                  *)
SignalsSound ==
    /\ SignalsOK(proposer, signals, delivered)
    /\ \A r \in Rounds : HasQuorum(aggregators[r].used)
                            => Announced(proposer, signals, Len(signals), r)

(* The parents of proposer p are of its round and in D, and if there are   *)
(* any, a quorum.                                                          *)
ParentsOK(p, D) ==
    /\ \A c \in p.last_parent_certs : c \in D /\ c.round = p.round
    /\ p.last_parent_certs # {} => HasQuorum(Origins(p.last_parent_certs))

(* No header is ahead of the proposer.                                     *)
MadeBehind == \A i \in 1 .. Len(made) : made[i].round <= proposer.round

(* What advance and last_leader mean while there are parents.              *)
AdvanceOK(p) ==
    p.last_parent_certs # {} /\ p.round > 0 =>
       IF Odd(p.round) THEN p.advance => enough_votes(p)
       ELSE p.last_leader = Leader(p) /\ (p.advance => Leader(p) # {})

(* The leader a header of this round referred to is remembered.            *)
LeaderKept ==
    \A i \in 1 .. Len(made) :
       /\ made[i].round = proposer.round /\ Odd(proposer.round) /\ proposer.round > 2
       /\ leader_of[proposer.round - 1] \in Origins(made[i].parents)
       => \E l \in proposer.last_leader : l.round = proposer.round - 1

(* The inductive invariant behind QuorumParents and LeaderAwaited.         *)
Inv ==
    /\ TypeOK
    /\ AggregatorsSound
    /\ SignalsSound
    /\ ParentsOK(proposer, delivered)
    /\ MadeBehind
    /\ AdvanceOK(proposer)
    /\ LeaderKept
    /\ QuorumParents
    /\ LeaderAwaited

-----------------------------------------------------------------------------
(* Stake.                                                                  *)

(* Certificates are of authorities.                                        *)
LEMMA OriginsType ==
    ASSUME NEW S \in SUBSET AnyCertificate
    PROVE  Origins(S) \in SUBSET Authority
BY DEF Origins, AnyCertificate, Certificate, genesis

(* More certificates keep a quorum.                                        *)
LEMMA QuorumGrows ==
    ASSUME NEW S \in SUBSET AnyCertificate, NEW T \in SUBSET AnyCertificate, S \subseteq T,
           HasQuorum(Origins(S))
    PROVE  HasQuorum(Origins(T))
<1>1. Origins(S) \in SUBSET Authority /\ Origins(T) \in SUBSET Authority
  BY OriginsType
<1>2. Origins(S) \subseteq Origins(T)
  BY DEF Origins
<1>3. Weight[Origins(S)] \in Nat /\ Weight[Origins(T)] \in Nat
      /\ Weight[Origins(S)] <= Weight[Origins(T)]
  BY <1>1, <1>2, WeightMonotone
<1>. QED
  BY <1>3, Thresholds DEF HasQuorum

(* Nobody is no quorum.                                                    *)
LEMMA EmptyNoQuorum == ~HasQuorum({})
<1>1. quorum_threshold > 0
  BY Thresholds
<1>. QED
  BY <1>1, Thresholds, WeightAssumption DEF HasQuorum

(* Rounds of signals are positive.                                         *)
LEMMA RoundsAreNat == ConstantsOK => Rounds \subseteq Nat \ {0}
BY DEF ConstantsOK, Rounds

-----------------------------------------------------------------------------
(* The actions.                                                            *)

(* CertificatesVecAggregator: the authorities counted and the certificates *)
(* no signal took yet.                                                     *)
Aggregator == [used : SUBSET Authority, certificates : SUBSET Certificate]

(* CertificatesVecAggregator::append: a certificate is dropped, kept, or   *)
(* sent with all that were kept.                                           *)
LEMMA AppendIs ==
    ASSUME NEW a \in Aggregator, NEW c \in Certificate
    PROVE  LET A == append(a, c).aggregator
               P == append(a, c).parents
           IN /\ A \in Aggregator
              /\ P \in SUBSET Certificate
              /\ \/ P = {} /\ A = a
                 \/ /\ c.origin \notin a.used
                    /\ A.used = a.used \cup {c.origin}
                    /\ IF HasQuorum(A.used)
                       THEN P = a.certificates \cup {c} /\ A.certificates = {}
                       ELSE P = {} /\ A.certificates = a.certificates \cup {c}
BY DEF append, Aggregator, Certificate

(* What a turn of the Core assigns, with the result of append and the      *)
(* round of the clean up named.                                            *)
LEMMA ProcessIs ==
    ASSUME ConstantsOK, TypeOK, NEW c \in Certificate, ProcessCertificate(c)
    PROVE  \E A \in Aggregator, P \in SUBSET Certificate, gc \in Nat :
              /\ append(aggregators[c.round], c).aggregator = A
              /\ append(aggregators[c.round], c).parents = P
              /\ delivered' = delivered \cup {c}
              /\ signals' = IF P = {} THEN signals
                            ELSE Append(signals, [round |-> c.round, certificates |-> P])
              /\ aggregators' = [r \in Rounds |-> IF r < gc THEN EmptyAggregator
                                                  ELSE IF r = c.round THEN A
                                                  ELSE aggregators[r]]
              /\ gc_round' = gc
              /\ gc = IF consensus_round > gc_depth THEN consensus_round - gc_depth
                      ELSE gc_round
              /\ UNCHANGED <<consensus_round, proposer, made>>
<1>. DEFINE result == append(aggregators[c.round], c)
            gc == IF consensus_round > gc_depth THEN consensus_round - gc_depth ELSE gc_round
<1>1. aggregators[c.round] \in Aggregator
  BY DEF TypeOK, Aggregator, Certificate
<1>2. result.aggregator \in Aggregator /\ result.parents \in SUBSET Certificate
  BY <1>1, AppendIs
<1>3. gc \in Nat
  BY DEF TypeOK, ConstantsOK
<1>4. /\ delivered' = delivered \cup {c}
      /\ signals' = IF result.parents = {} THEN signals
                    ELSE Append(signals, [round |-> c.round,
                                          certificates |-> result.parents])
      /\ aggregators' = [r \in Rounds |-> IF r < gc THEN EmptyAggregator
                                          ELSE IF r = c.round THEN result.aggregator
                                          ELSE aggregators[r]]
      /\ gc_round' = gc
      /\ UNCHANGED <<consensus_round, proposer, made>>
  BY DEF ProcessCertificate
<1>5. append(aggregators[c.round], c) = result
  OBVIOUS
<1>6. gc = IF consensus_round > gc_depth THEN consensus_round - gc_depth ELSE gc_round
  OBVIOUS
<1>. HIDE DEF result, gc
<1>. QED
  BY <1>2, <1>3, <1>4, <1>5, <1>6

(* The proposer after signal s.                                            *)
Received(p, s) ==
    IF s.round > p.round
    THEN [p EXCEPT !.round = s.round, !.last_parent_certs = s.certificates]
    ELSE IF s.round = p.round
         THEN [p EXCEPT !.last_parent_certs = @ \cup s.certificates]
         ELSE p

(* update_leader and enough_votes change nothing but the leader, in even   *)
(* rounds, and the permission to advance.                                  *)
LEMMA AdvancedIs ==
    ASSUME NEW p \in ProposerState
    PROVE  /\ Advanced(p) \in ProposerState
           /\ Advanced(p).round = p.round
           /\ Advanced(p).last_parent_certs = p.last_parent_certs
           /\ Odd(p.round) => /\ Advanced(p).last_leader = p.last_leader
                              /\ Advanced(p).advance = enough_votes(p)
           /\ ~Odd(p.round) => /\ Advanced(p).last_leader = Leader(p)
                               /\ Advanced(p).advance = (Leader(p) # {})
<1>1. Leader(p) \in SUBSET AnyCertificate
  BY DEF Leader, ProposerState
<1>2. enough_votes(p) \in BOOLEAN
  BY DEF enough_votes
<1>. QED
  BY <1>1, <1>2 DEF Advanced, ProposerState

(* What the reception of a signal assigns.                                 *)
LEMMA ReceiveIs ==
    ASSUME ConstantsOK, TypeOK, ReceiveSignal
    PROVE  /\ signals # <<>> /\ Head(signals) \in Signal
           /\ signals' = Tail(signals) /\ Tail(signals) \in Seq(Signal)
           /\ Len(Tail(signals)) = Len(signals) - 1
           /\ \A i \in 1 .. Len(signals) - 1 : Tail(signals)[i] = signals[i + 1]
           /\ Head(signals) = signals[1]
           /\ Received(proposer, Head(signals)) \in ProposerState
           /\ proposer' = Advanced(Received(proposer, Head(signals)))
           /\ UNCHANGED <<delivered, aggregators, consensus_round, gc_round, made>>
<1>1. signals # <<>> /\ signals \in Seq(Signal) /\ proposer \in ProposerState
  BY DEF ReceiveSignal, TypeOK
<1>2. Head(signals) \in Signal /\ Tail(signals) \in Seq(Signal)
  BY <1>1
<1>3. Received(proposer, Head(signals)) \in ProposerState
  BY <1>1, <1>2, RoundsAreNat DEF Received, ProposerState, Signal, AnyCertificate
<1>4. proposer' = Advanced(Received(proposer, Head(signals)))
  BY DEF ReceiveSignal, Received
<1>. QED
  BY <1>1, <1>2, <1>3, <1>4 DEF ReceiveSignal

(* What making a header assigns.                                           *)
LEMMA MakeIs ==
    ASSUME TypeOK, NEW timer \in BOOLEAN, MakeHeader(timer)
    PROVE  LET h == [round |-> proposer.round + 1, timer |-> timer,
                     parents |-> proposer.last_parent_certs]
           IN /\ h \in SignedHeader
              /\ made' = Append(made, h) /\ made' \in Seq(SignedHeader)
              /\ Len(made') = Len(made) + 1
              /\ \A i \in 1 .. Len(made) : made'[i] = made[i]
              /\ made'[Len(made) + 1] = h
              /\ proposer' = [proposer EXCEPT !.round = @ + 1, !.last_parent_certs = {}]
              /\ proposer' \in ProposerState
              /\ proposer'.round = proposer.round + 1
              /\ proposer'.last_parent_certs = {}
              /\ proposer'.last_leader = proposer.last_leader
              /\ proposer.last_parent_certs # {}
              /\ timer \/ proposer.advance
              /\ UNCHANGED <<delivered, aggregators, consensus_round, gc_round, signals>>
<1>. DEFINE h == [round |-> proposer.round + 1, timer |-> timer,
                  parents |-> proposer.last_parent_certs]
<1>1. h \in SignedHeader /\ made \in Seq(SignedHeader) /\ proposer \in ProposerState
  BY DEF TypeOK, SignedHeader, ProposerState
<1>2. made' = Append(made, h)
  BY DEF MakeHeader
<1>3. proposer' = [proposer EXCEPT !.round = @ + 1, !.last_parent_certs = {}]
  BY DEF MakeHeader
<1>4. /\ proposer' \in ProposerState
      /\ proposer'.round = proposer.round + 1
      /\ proposer'.last_parent_certs = {}
      /\ proposer'.last_leader = proposer.last_leader
  BY <1>1, <1>3, proposer.round + 1 \in Nat DEF ProposerState
<1>5. /\ Append(made, h) \in Seq(SignedHeader)
      /\ Len(Append(made, h)) = Len(made) + 1
      /\ \A i \in 1 .. Len(made) : Append(made, h)[i] = made[i]
      /\ Append(made, h)[Len(made) + 1] = h
  BY <1>1
<1>. QED
  BY <1>1, <1>2, <1>3, <1>4, <1>5 DEF MakeHeader

(* Every step keeps the types.                                             *)
LEMMA TypeStep == ConstantsOK /\ TypeOK /\ [Next]_vars => TypeOK'
<1>. SUFFICES ASSUME ConstantsOK, TypeOK, [Next]_vars PROVE TypeOK'
  OBVIOUS
<1>1. ASSUME NEW c \in Certificate, ProcessCertificate(c) PROVE TypeOK'
  <2>1. PICK A \in Aggregator, P \in SUBSET Certificate, gc \in Nat :
              /\ delivered' = delivered \cup {c}
              /\ signals' = IF P = {} THEN signals
                            ELSE Append(signals, [round |-> c.round, certificates |-> P])
              /\ aggregators' = [r \in Rounds |-> IF r < gc THEN EmptyAggregator
                                                  ELSE IF r = c.round THEN A
                                                  ELSE aggregators[r]]
              /\ gc_round' = gc
              /\ UNCHANGED <<consensus_round, proposer, made>>
    BY <1>1, ProcessIs, ZenonT(40)
  <2>2. EmptyAggregator \in Aggregator
    BY DEF EmptyAggregator, Aggregator
  <2>3. aggregators' \in [Rounds -> Aggregator]
    BY <2>1, <2>2 DEF TypeOK, Aggregator
  <2>4. [round |-> c.round, certificates |-> P] \in Signal
    BY DEF Signal, Certificate
  <2>5. signals' \in Seq(Signal)
    BY <2>1, <2>4 DEF TypeOK
  <2>6. delivered' \in SUBSET AnyCertificate
    BY <2>1 DEF TypeOK, AnyCertificate
  <2>. QED
    BY <2>1, <2>3, <2>5, <2>6 DEF TypeOK, Aggregator
<1>2. ASSUME NEW r \in Rounds, AdvanceConsensus(r) PROVE TypeOK'
  BY <1>2, RoundsAreNat DEF AdvanceConsensus, TypeOK
<1>3. CASE ReceiveSignal
  BY <1>3, ReceiveIs, AdvancedIs DEF TypeOK
<1>4. ASSUME NEW timer \in BOOLEAN, MakeHeader(timer) PROVE TypeOK'
  BY <1>4, MakeIs DEF TypeOK
<1>5. CASE UNCHANGED vars
  BY <1>5 DEF vars, TypeOK
<1>. QED
  BY <1>1, <1>2, <1>3, <1>4, <1>5 DEF Next

-----------------------------------------------------------------------------
(* The channel.                                                            *)

(* A signal appended to the channel hides no earlier one.                  *)
LEMMA AnnouncedAppended ==
    ASSUME NEW p, NEW q \in Seq(Signal), NEW s \in Signal, NEW n \in 0 .. Len(q), NEW r,
           Announced(p, q, n, r)
    PROVE  Announced(p, Append(q, s), n, r)
<1>1. \A i \in 1 .. n : Append(q, s)[i] = q[i]
  OBVIOUS
<1>. QED
  BY <1>1 DEF Announced

(* What the first signals announce, more of them do.                       *)
LEMMA AnnouncedLater ==
    ASSUME NEW p, NEW q, NEW m \in Nat, NEW n \in Nat, m <= n, NEW r, Announced(p, q, m, r)
    PROVE  Announced(p, q, n, r)
<1>1. 1 .. m \subseteq 1 .. n
  OBVIOUS
<1>. QED
  BY <1>1 DEF Announced

(* Receiving the first signal moves what it announced into the proposer.   *)
LEMMA AnnouncedReceived ==
    ASSUME ConstantsOK, NEW p \in ProposerState, NEW q \in Seq(Signal), q # <<>>,
           Head(q).certificates # {}, NEW n \in 1 .. Len(q), NEW r \in Nat,
           Announced(p, q, n, r)
    PROVE  Announced(Advanced(Received(p, Head(q))), Tail(q), n - 1, r)
<1>. DEFINE s == Head(q)
            p1 == Received(p, s)
<1>1. s \in Signal /\ s = q[1] /\ s.round \in Nat /\ p.round \in Nat
  <2>1. s \in Signal /\ s = q[1]
    OBVIOUS
  <2>2. s.round \in Rounds /\ p.round \in Nat
    BY <2>1 DEF Signal, ProposerState
  <2>. QED
    BY <2>1, <2>2, RoundsAreNat
<1>2. p1 \in ProposerState
  BY <1>1 DEF Received, ProposerState, Signal, AnyCertificate
<1>3. /\ Advanced(p1).round = p1.round
      /\ Advanced(p1).last_parent_certs = p1.last_parent_certs
  BY <1>2, AdvancedIs
<1>4. /\ p1.round >= p.round /\ p1.round >= s.round /\ p1.round \in Nat
      /\ p1.round = p.round => p.last_parent_certs \subseteq p1.last_parent_certs
      /\ p1.round = s.round => s.certificates \subseteq p1.last_parent_certs
  BY <1>1 DEF Received, ProposerState
<1>5. CASE p.round > r \/ (p.round = r /\ p.last_parent_certs # {})
  BY <1>1, <1>3, <1>4, <1>5 DEF Announced
<1>6. CASE \E i \in 1 .. n : q[i].round = r /\ HasQuorum(Origins(q[i].certificates))
  <2>1. PICK i \in 1 .. n : q[i].round = r /\ HasQuorum(Origins(q[i].certificates))
    BY <1>6
  <2>2. CASE i = 1
    BY <1>1, <1>3, <1>4, <2>1, <2>2 DEF Announced
  <2>3. CASE i # 1
    <3>1. i - 1 \in 1 .. n - 1 /\ Tail(q)[i - 1] = q[i]
      BY <2>3
    <3>. QED
      BY <2>1, <3>1 DEF Announced
  <2>. QED
    BY <2>2, <2>3
<1>. QED
  BY <1>5, <1>6 DEF Announced

(* A proposer that goes on to the next round is past its own.              *)
LEMMA AnnouncedMoved ==
    ASSUME NEW p \in ProposerState, NEW p1 \in ProposerState, p1.round = p.round + 1,
           NEW q, NEW n, NEW r \in Nat, Announced(p, q, n, r)
    PROVE  Announced(p1, q, n, r)
BY DEF Announced, ProposerState

-----------------------------------------------------------------------------
(* A certificate is processed.                                             *)

(* A processed certificate keeps aggregators and signals sound: only a     *)
(* quorum, or what follows one, is sent.                                   *)
LEMMA ProcessPreserves ==
    ASSUME ConstantsOK, Inv, NEW c \in Certificate, ProcessCertificate(c)
    PROVE  /\ AggregatorsSound'
           /\ SignalsSound'
           /\ delivered \subseteq delivered'
<1>. DEFINE a == aggregators[c.round]
<1>1. PICK A \in Aggregator, P \in SUBSET Certificate, gc \in Nat :
              /\ append(a, c).aggregator = A
              /\ append(a, c).parents = P
              /\ delivered' = delivered \cup {c}
              /\ signals' = IF P = {} THEN signals
                            ELSE Append(signals, [round |-> c.round, certificates |-> P])
              /\ aggregators' = [r \in Rounds |-> IF r < gc THEN EmptyAggregator
                                                  ELSE IF r = c.round THEN A
                                                  ELSE aggregators[r]]
              /\ UNCHANGED <<consensus_round, proposer, made>>
  BY ProcessIs, ZenonT(40) DEF Inv
<1>2. /\ c.round \in Rounds /\ a \in Aggregator /\ signals \in Seq(Signal)
      /\ proposer \in ProposerState
  BY DEF Inv, TypeOK, Aggregator, Certificate
<1>3. \/ P = {} /\ A = a
      \/ /\ c.origin \notin a.used
         /\ A.used = a.used \cup {c.origin}
         /\ IF HasQuorum(A.used)
            THEN P = a.certificates \cup {c} /\ A.certificates = {}
            ELSE P = {} /\ A.certificates = a.certificates \cup {c}
  BY <1>1, <1>2, AppendIs
<1>4. AggregatorOK(a) /\ a.certificates \subseteq AtRound(c.round)
  BY <1>2 DEF Inv, AggregatorsSound
<1>5. c.round \in Nat
  BY <1>2, RoundsAreNat
<1>6. AggregatorOK(A) /\ A.certificates \subseteq AtRound(c.round) \cup {c}
  <2>1. CASE A = a
    BY <1>4, <2>1
  <2>2. CASE HasQuorum(A.used) /\ A.certificates = {}
    BY <2>2 DEF AggregatorOK
  <2>3. CASE /\ ~HasQuorum(A.used)
             /\ A.used = a.used \cup {c.origin}
             /\ A.certificates = a.certificates \cup {c}
    <3>1. ~HasQuorum(a.used)
      <4>1. a.used \in SUBSET Authority /\ A.used \in SUBSET Authority /\ a.used \subseteq A.used
        BY <1>2, <2>3 DEF Aggregator
      <4>2. Weight[a.used] \in Nat /\ Weight[A.used] \in Nat /\ Weight[a.used] <= Weight[A.used]
        BY <4>1, WeightMonotone
      <4>. QED
        BY <2>3, <4>2, Thresholds DEF HasQuorum
    <3>2. Origins(A.certificates) = Origins(a.certificates) \cup {c.origin}
      BY <2>3 DEF Origins
    <3>. QED
      BY <1>4, <2>3, <3>1, <3>2 DEF AggregatorOK
  <2>. QED
    BY <1>3, <2>1, <2>2, <2>3
<1>7. AggregatorsSound'
  <2>. SUFFICES ASSUME NEW r \in Rounds
                PROVE  /\ aggregators'[r].certificates \subseteq AtRound(r)'
                       /\ AggregatorOK(aggregators'[r])
    BY <1>1 DEF AggregatorsSound
  <2>1. AtRound(r) \subseteq AtRound(r)' /\ (r = c.round => c \in AtRound(r)')
    BY <1>1 DEF AtRound
  <2>2. AggregatorOK(EmptyAggregator) /\ EmptyAggregator.certificates = {}
    BY EmptyNoQuorum DEF AggregatorOK, EmptyAggregator, Origins
  <2>3. AggregatorOK(aggregators[r]) /\ aggregators[r].certificates \subseteq AtRound(r)
    BY DEF Inv, AggregatorsSound
  <2>. QED
    BY <1>1, <1>6, <2>1, <2>2, <2>3
<1>8. Announced(proposer, signals, Len(signals), c.round) \/ ~HasQuorum(a.used)
  BY <1>2 DEF Inv, SignalsSound
<1>9. ASSUME P # {}
      PROVE  /\ \A x \in P : x \in delivered' /\ x.round = c.round
             /\ HasQuorum(Origins(P)) \/ HasQuorum(a.used)
  <2>1. P = a.certificates \cup {c} /\ HasQuorum(A.used) /\ A.used = a.used \cup {c.origin}
    BY <1>3, <1>9
  <2>2. ~HasQuorum(a.used) => Origins(P) = A.used
    BY <1>4, <2>1 DEF AggregatorOK, Origins
  <2>. QED
    BY <1>1, <1>4, <2>1, <2>2 DEF AtRound
<1>10. SignalsSound'
  <2>1. CASE P = {}
    <3>1. signals' = signals /\ proposer' = proposer /\ delivered \subseteq delivered'
      BY <1>1, <2>1
    <3>2. SignalsOK(proposer, signals, delivered')
      BY <3>1 DEF Inv, SignalsSound, SignalsOK
    <3>3. ASSUME NEW r \in Rounds, HasQuorum(aggregators'[r].used)
          PROVE  HasQuorum(aggregators[r].used)
      <4>1. aggregators'[r] = EmptyAggregator \/ aggregators'[r] = aggregators[r]
              \/ (r = c.round /\ aggregators'[r] = A)
        BY <1>1
      <4>2. CASE r = c.round /\ aggregators'[r] = A
        BY <1>3, <2>1, <3>3, <4>2
      <4>. QED
        BY <3>3, <4>1, <4>2, EmptyNoQuorum DEF EmptyAggregator
    <3>. QED
      BY <3>1, <3>2, <3>3 DEF Inv, SignalsSound
  <2>2. CASE P # {}
    <3>. DEFINE s == [round |-> c.round, certificates |-> P]
                q == Append(signals, s)
    <3>1. s \in Signal
      BY <1>2 DEF Signal
    <3>2. signals' = q /\ proposer' = proposer /\ delivered \subseteq delivered'
      BY <1>1, <2>2
    <3>3. /\ Len(q) = Len(signals) + 1 /\ q[Len(signals) + 1] = s
          /\ \A i \in 1 .. Len(signals) : q[i] = signals[i]
      BY <1>2, <3>1
    <3>4. \A n \in 0 .. Len(signals), r \in Rounds :
             Announced(proposer, signals, n, r) => Announced(proposer, q, n, r)
      BY <1>2, <3>1, AnnouncedAppended
    <3>5. Len(signals) \in Nat /\ \A i \in 1 .. Len(signals) : signals[i].round \in Rounds
      <4>1. Len(signals) \in Nat /\ \A i \in 1 .. Len(signals) : signals[i] \in Signal
        BY <1>2
      <4>. QED
        BY <4>1 DEF Signal
    <3>6. s.round = c.round /\ s.certificates = P
      OBVIOUS
    <3>. HIDE DEF q, s
    <3>7. ASSUME NEW i \in 1 .. Len(q)
          PROVE  /\ q[i].certificates # {}
                 /\ \A x \in q[i].certificates : x \in delivered' /\ x.round = q[i].round
                 /\ HasQuorum(Origins(q[i].certificates))
                      \/ Announced(proposer, q, i - 1, q[i].round)
      <4>1. CASE i <= Len(signals)
        <5>1. /\ i \in 1 .. Len(signals) /\ i - 1 \in 0 .. Len(signals) /\ q[i] = signals[i]
              /\ q[i].round \in Rounds
          BY <3>3, <3>5, <4>1
        <5>. QED
          BY <3>2, <3>4, <5>1 DEF Inv, SignalsSound, SignalsOK
      <4>2. CASE i = Len(signals) + 1
        <5>1. q[i] = s /\ i - 1 = Len(signals) /\ Len(signals) \in 0 .. Len(signals)
          <6>1. i - 1 = Len(signals) /\ Len(signals) \in 0 .. Len(signals)
            BY <3>5, <4>2
          <6>. QED
            BY <3>3, <4>2, <6>1
        <5>2. Announced(proposer, q, Len(signals), c.round) \/ ~HasQuorum(a.used)
          BY <1>2, <1>8, <3>4, <5>1
        <5>. QED
          BY <1>9, <2>2, <3>6, <5>1, <5>2
      <4>. QED
        BY <1>2, <3>3, <4>1, <4>2
    <3>8. SignalsOK(proposer, q, delivered')
      BY <3>7 DEF SignalsOK
    <3>9. ASSUME NEW r \in Rounds, HasQuorum(aggregators'[r].used)
          PROVE  Announced(proposer, q, Len(q), r)
      <4>1. Len(signals) \in 0 .. Len(signals) /\ Len(signals) \in Nat /\ Len(q) \in Nat
              /\ Len(signals) <= Len(q)
        BY <1>2, <3>3
      <4>2. CASE HasQuorum(aggregators[r].used)
        <5>1. Announced(proposer, signals, Len(signals), r)
          BY <4>2 DEF Inv, SignalsSound
        <5>2. Announced(proposer, q, Len(signals), r)
          BY <3>4, <4>1, <5>1
        <5>. QED
          BY <4>1, <5>2, AnnouncedLater
      <4>3. CASE r = c.round /\ ~HasQuorum(aggregators[r].used)
        <5>1. HasQuorum(Origins(P))
          BY <1>9, <2>2, <4>3
        <5>2. Len(q) \in 1 .. Len(q) /\ q[Len(q)] = s
          BY <3>3, <4>1
        <5>. QED
          BY <3>6, <4>3, <5>1, <5>2 DEF Announced
      <4>4. CASE r # c.round /\ ~HasQuorum(aggregators[r].used)
        <5>1. aggregators'[r] = EmptyAggregator \/ aggregators'[r] = aggregators[r]
          BY <1>1, <4>4
        <5>2. ~HasQuorum(EmptyAggregator.used)
          BY EmptyNoQuorum DEF EmptyAggregator
        <5>. QED
          BY <3>9, <4>4, <5>1, <5>2
      <4>. QED
        BY <4>2, <4>3, <4>4
    <3>. QED
      BY <3>2, <3>8, <3>9 DEF SignalsSound
  <2>. QED
    BY <2>1, <2>2
<1>. QED
  BY <1>1, <1>7, <1>10

-----------------------------------------------------------------------------
(* A signal is received.                                                   *)

(* A signal that is no quorum never replaces the parents of the proposer:  *)
(* its quorum came before it.                                              *)
LEMMA ReceivedParents ==
    ASSUME ConstantsOK, Inv, signals # <<>>, Head(signals) \in Signal, Head(signals) = signals[1]
    PROVE  LET p == Received(proposer, Head(signals))
           IN /\ ParentsOK(p, delivered)
              /\ p.round >= proposer.round
              /\ p.round = proposer.round => p.last_leader = proposer.last_leader
<1>. DEFINE s == Head(signals)
<1>1. /\ s.certificates # {}
      /\ \A c \in s.certificates : c \in delivered /\ c.round = s.round
      /\ HasQuorum(Origins(s.certificates)) \/ Announced(proposer, signals, 0, s.round)
  <2>1. 1 \in 1 .. Len(signals) /\ 1 - 1 = 0
    BY DEF Inv, TypeOK
  <2>. QED
    BY <2>1 DEF Inv, SignalsSound, SignalsOK
<1>2. /\ proposer \in ProposerState /\ proposer.round \in Nat
      /\ s.round \in Nat /\ s.certificates \in SUBSET AnyCertificate
  BY RoundsAreNat DEF Inv, TypeOK, ProposerState, Signal, AnyCertificate
<1>3. HasQuorum(Origins(s.certificates)) \/ proposer.round > s.round
        \/ (proposer.round = s.round /\ proposer.last_parent_certs # {})
  BY <1>1 DEF Announced
<1>4. ParentsOK(proposer, delivered)
  BY DEF Inv
<1>. HIDE DEF s
<1>5. CASE s.round > proposer.round
  <2>. DEFINE p == Received(proposer, s)
  <2>1. p.round = s.round /\ p.last_parent_certs = s.certificates
    BY <1>2, <1>5 DEF Received, ProposerState
  <2>2. p.round >= proposer.round /\ p.round # proposer.round
    BY <1>2, <1>5, <2>1
  <2>3. HasQuorum(Origins(s.certificates))
    BY <1>2, <1>3, <1>5
  <2>. QED
    BY <1>1, <2>1, <2>2, <2>3 DEF ParentsOK, s
<1>6. CASE s.round = proposer.round
  <2>. DEFINE p == Received(proposer, s)
  <2>1. /\ p.round = proposer.round /\ p.last_leader = proposer.last_leader
        /\ p.last_parent_certs = proposer.last_parent_certs \cup s.certificates
    BY <1>2, <1>6 DEF Received, ProposerState
  <2>2. proposer.last_parent_certs \in SUBSET AnyCertificate
    BY <1>2 DEF ProposerState
  <2>3. p.last_parent_certs \in SUBSET AnyCertificate
    BY <1>2, <2>1, <2>2
  <2>4. HasQuorum(Origins(p.last_parent_certs))
    <3>1. CASE HasQuorum(Origins(s.certificates))
      BY <1>2, <2>1, <2>3, <3>1, QuorumGrows
    <3>2. CASE proposer.last_parent_certs # {}
      BY <1>4, <2>1, <2>2, <2>3, <3>2, QuorumGrows DEF ParentsOK
    <3>. QED
      BY <1>2, <1>3, <1>6, <3>1, <3>2
  <2>. QED
    BY <1>1, <1>2, <1>4, <1>6, <2>1, <2>4 DEF ParentsOK, s
<1>7. CASE s.round < proposer.round
  BY <1>2, <1>4, <1>7 DEF Received, s
<1>. QED
  BY <1>2, <1>5, <1>6, <1>7 DEF s

(* Receiving a signal keeps the parents a quorum, and decides anew whether *)
(* the proposer may advance.                                               *)
LEMMA ReceivePreserves ==
    ASSUME ConstantsOK, Inv, ReceiveSignal
    PROVE  /\ SignalsSound' /\ ParentsOK(proposer, delivered)' /\ AdvanceOK(proposer)'
           /\ MadeBehind' /\ LeaderKept'
<1>. DEFINE s == Head(signals)
            p == Received(proposer, s)
<1>1. /\ signals # <<>> /\ s \in Signal /\ s = signals[1]
      /\ signals' = Tail(signals) /\ Tail(signals) \in Seq(Signal)
      /\ Len(Tail(signals)) = Len(signals) - 1
      /\ \A i \in 1 .. Len(signals) - 1 : Tail(signals)[i] = signals[i + 1]
      /\ p \in ProposerState
      /\ proposer' = Advanced(p)
      /\ UNCHANGED <<delivered, aggregators, consensus_round, gc_round, made>>
  BY ReceiveIs DEF Inv
<1>2. /\ ParentsOK(p, delivered)
      /\ p.round >= proposer.round
      /\ p.round = proposer.round => p.last_leader = proposer.last_leader
  BY <1>1, ReceivedParents
<1>3. /\ proposer'.round = p.round
      /\ proposer'.last_parent_certs = p.last_parent_certs
      /\ Odd(p.round) => /\ proposer'.last_leader = p.last_leader
                         /\ proposer'.advance = enough_votes(p)
      /\ ~Odd(p.round) => /\ proposer'.last_leader = Leader(p)
                          /\ proposer'.advance = (Leader(p) # {})
  BY <1>1, AdvancedIs
<1>4. /\ signals \in Seq(Signal) /\ proposer \in ProposerState /\ Len(signals) \in Nat
      /\ proposer.round \in Nat /\ p.round \in Nat
  BY <1>1 DEF Inv, TypeOK, ProposerState
<1>5. s.certificates # {}
  BY <1>1, <1>4, 1 \in 1 .. Len(signals) DEF Inv, SignalsSound, SignalsOK
<1>6. ParentsOK(proposer, delivered)'
  BY <1>1, <1>2, <1>3 DEF ParentsOK
<1>7. AdvanceOK(proposer)'
  <2>1. Leader(proposer)' = Leader(p)
    BY <1>3 DEF Leader
  <2>2. Odd(p.round) => enough_votes(proposer)' = enough_votes(p)
    BY <1>3 DEF enough_votes
  <2>. QED
    BY <1>3, <2>1, <2>2 DEF AdvanceOK
<1>8. MadeBehind'
  <2>1. \A i \in 1 .. Len(made) : made[i].round \in Nat
    <3>1. \A i \in 1 .. Len(made) : made[i] \in SignedHeader
      BY DEF Inv, TypeOK
    <3>. QED
      BY <3>1 DEF SignedHeader
  <2>. QED
    BY <1>1, <1>2, <1>3, <1>4, <2>1 DEF Inv, MadeBehind
<1>9. LeaderKept'
  <2>. SUFFICES ASSUME NEW i \in 1 .. Len(made),
                       made[i].round = p.round, Odd(p.round), p.round > 2,
                       leader_of[p.round - 1] \in Origins(made[i].parents)
                PROVE  \E l \in p.last_leader : l.round = p.round - 1
    BY <1>1, <1>3 DEF LeaderKept
  <2>1. made[i].round <= proposer.round
    BY DEF Inv, MadeBehind
  <2>2. p.round = proposer.round
    BY <1>2, <1>4, <2>1
  <2>. QED
    BY <1>2, <2>2 DEF Inv, LeaderKept
<1>10. SignalsSound'
  <2>. DEFINE q == Tail(signals)
  <2>1. \A n \in 1 .. Len(signals), r \in Rounds :
           Announced(proposer, signals, n, r) => Announced(proposer', q, n - 1, r)
    BY <1>1, <1>4, <1>5, RoundsAreNat, AnnouncedReceived
  <2>2. ASSUME NEW i \in 1 .. Len(q)
        PROVE  /\ q[i].certificates # {}
               /\ \A x \in q[i].certificates : x \in delivered /\ x.round = q[i].round
               /\ HasQuorum(Origins(q[i].certificates))
                    \/ Announced(proposer', q, i - 1, q[i].round)
    <3>1. /\ i + 1 \in 1 .. Len(signals) /\ q[i] = signals[i + 1] /\ (i + 1) - 1 = i
          /\ i \in 1 .. Len(signals)
      BY <1>1, <1>4
    <3>2. q[i] \in Signal
      BY <1>1
    <3>3. q[i].round \in Rounds
      BY <3>2 DEF Signal
    <3>. QED
      BY <2>1, <3>1, <3>3 DEF Inv, SignalsSound, SignalsOK
  <2>3. ASSUME NEW r \in Rounds, HasQuorum(aggregators[r].used)
        PROVE  Announced(proposer', q, Len(q), r)
    <3>1. Announced(proposer, signals, Len(signals), r)
      BY <2>3 DEF Inv, SignalsSound
    <3>2. Len(signals) \in 1 .. Len(signals)
      BY <1>1, <1>4
    <3>. QED
      BY <1>1, <2>1, <3>1, <3>2
  <2>4. SignalsOK(proposer', q, delivered)
    BY <2>2 DEF SignalsOK
  <2>. QED
    BY <1>1, <2>3, <2>4 DEF SignalsSound
<1>. QED
  BY <1>6, <1>7, <1>8, <1>9, <1>10

-----------------------------------------------------------------------------
(* A header is made.                                                       *)

(* A header is made on a quorum, in a new round, with the leader or the    *)
(* votes it had to wait for.                                               *)
LEMMA MakePreserves ==
    ASSUME ConstantsOK, Inv, NEW timer \in BOOLEAN, MakeHeader(timer)
    PROVE  /\ SignalsSound' /\ ParentsOK(proposer, delivered)' /\ AdvanceOK(proposer)'
           /\ MadeBehind' /\ LeaderKept' /\ QuorumParents' /\ LeaderAwaited'
<1>. DEFINE h == [round |-> proposer.round + 1, timer |-> timer,
                  parents |-> proposer.last_parent_certs]
            last == Len(made) + 1
<1>1. /\ h \in SignedHeader
      /\ made' \in Seq(SignedHeader)
      /\ Len(made') = last
      /\ \A i \in 1 .. Len(made) : made'[i] = made[i]
      /\ made'[last] = h
      /\ proposer' \in ProposerState
      /\ proposer'.round = proposer.round + 1
      /\ proposer'.last_parent_certs = {}
      /\ proposer'.last_leader = proposer.last_leader
      /\ proposer.last_parent_certs # {}
      /\ timer \/ proposer.advance
      /\ UNCHANGED <<delivered, aggregators, consensus_round, gc_round, signals>>
  BY MakeIs DEF Inv
<1>2. /\ proposer \in ProposerState /\ proposer.round \in Nat /\ Len(made) \in Nat
      /\ DOMAIN made = 1 .. Len(made) /\ DOMAIN made' = 1 .. last
      /\ \A i \in 1 .. Len(made) : made[i] \in SignedHeader
  BY <1>1 DEF Inv, TypeOK, ProposerState
<1>3. \A i \in 1 .. Len(made) : made[i].round \in Nat /\ made[i].round <= proposer.round
  BY <1>2 DEF SignedHeader, Inv, MadeBehind
<1>4. /\ h.round = proposer.round + 1 /\ h.timer = timer
      /\ h.parents = proposer.last_parent_certs
  OBVIOUS
<1>. HIDE DEF h
<1>5. ParentsOK(proposer, delivered)' /\ AdvanceOK(proposer)'
  BY <1>1 DEF ParentsOK, AdvanceOK
<1>6. MadeBehind'
  BY <1>1, <1>2, <1>3, <1>4 DEF MadeBehind
<1>7. SignalsSound'
  <2>1. \A n, r \in Nat : Announced(proposer, signals, n, r)
                             => Announced(proposer', signals, n, r)
    BY <1>1, <1>2, AnnouncedMoved
  <2>2. \A i \in 1 .. Len(signals) : signals[i].round \in Nat /\ i - 1 \in Nat
    <3>1. \A i \in 1 .. Len(signals) : signals[i] \in Signal
      BY DEF Inv, TypeOK
    <3>. QED
      BY <3>1, RoundsAreNat DEF Signal
  <2>3. Len(signals) \in Nat
    BY DEF Inv, TypeOK
  <2>4. SignalsOK(proposer', signals, delivered)
    BY <2>1, <2>2 DEF Inv, SignalsSound, SignalsOK
  <2>5. ASSUME NEW r \in Rounds, HasQuorum(aggregators[r].used)
        PROVE  Announced(proposer', signals, Len(signals), r)
    BY <2>1, <2>3, <2>5, RoundsAreNat DEF Inv, SignalsSound
  <2>. QED
    BY <1>1, <2>4, <2>5 DEF SignalsSound
<1>8. LeaderKept'
  <2>. SUFFICES ASSUME NEW i \in 1 .. last,
                       made'[i].round = proposer.round + 1, Odd(proposer.round + 1),
                       proposer.round + 1 > 2,
                       leader_of[(proposer.round + 1) - 1] \in Origins(made'[i].parents)
                PROVE  \E l \in proposer.last_leader : l.round = (proposer.round + 1) - 1
    BY <1>1 DEF LeaderKept
  <2>1. (proposer.round + 1) - 1 = proposer.round
    BY <1>2
  <2>2. i = last
    BY <1>1, <1>2, <1>3
  <2>3. PICK l \in proposer.last_parent_certs : l.origin = leader_of[proposer.round]
    BY <1>1, <1>4, <2>1, <2>2 DEF Origins
  <2>4. ~Odd(proposer.round) /\ proposer.round > 0
    BY <1>2 DEF Odd
  <2>5. l \in proposer.last_leader
    BY <2>3, <2>4 DEF Inv, AdvanceOK, Leader
  <2>6. l.round = proposer.round
    BY <2>3 DEF Inv, ParentsOK
  <2>. QED
    BY <2>1, <2>5, <2>6
<1>9. QuorumParents'
  <2>1. ASSUME NEW i \in 1 .. last
        PROVE  /\ \A c \in made'[i].parents : c.round + 1 = made'[i].round /\ c \in delivered
               /\ HasQuorum(Origins(made'[i].parents))
               /\ \A j \in 1 .. i - 1 : made'[j].round < made'[i].round
    <3>1. CASE i \in 1 .. Len(made)
      <4>1. \A j \in 1 .. i - 1 : made'[j] = made[j]
        BY <1>1, <1>2, <3>1
      <4>. QED
        BY <1>1, <1>2, <3>1, <4>1 DEF Inv, QuorumParents
    <3>2. CASE i = last
      <4>1. \A j \in 1 .. i - 1 : made'[j].round < h.round
        BY <1>1, <1>2, <1>3, <1>4, <3>2
      <4>2. made'[i] = h
        BY <1>1, <3>2
      <4>3. ParentsOK(proposer, delivered)
        BY DEF Inv
      <4>4. /\ \A c \in h.parents : c.round + 1 = h.round /\ c \in delivered
            /\ HasQuorum(Origins(h.parents))
        BY <1>1, <1>4, <4>3 DEF ParentsOK
      <4>. QED
        BY <4>1, <4>2, <4>4
    <3>. QED
      BY <1>2, <3>1, <3>2
  <2>. QED
    BY <1>1, <1>2, <2>1 DEF QuorumParents
<1>10. LeaderAwaited'
  <2>1. ASSUME NEW i \in 1 .. last, ~made'[i].timer, made'[i].round > 2
        PROVE  IF Odd(made'[i].round)
               THEN leader_of[made'[i].round - 1] \in Origins(made'[i].parents)
               ELSE \A j \in 1 .. last :
                   /\ made'[j].round = made'[i].round - 1
                   /\ leader_of[made'[i].round - 2] \in Origins(made'[j].parents)
                   => \/ HasQuorum(Origins({c \in made'[i].parents : c.votes}))
                      \/ HasValidity(Origins({c \in made'[i].parents : ~c.votes}))
    <3>1. CASE i \in 1 .. Len(made)
      <4>1. made'[i] = made[i] /\ made[i].round <= proposer.round /\ made[i].round \in Nat
        BY <1>1, <1>3, <3>1
      <4>2. \A j \in 1 .. last : made'[j].round = made[i].round - 1
                                    => j \in 1 .. Len(made) /\ made'[j] = made[j]
        BY <1>1, <1>2, <1>4, <4>1
      <4>. QED
        BY <1>2, <2>1, <3>1, <4>1, <4>2 DEF Inv, LeaderAwaited
    <3>2. CASE i = last
      <4>1. made'[i] = h /\ proposer.advance /\ proposer.round > 0
        BY <1>1, <1>2, <1>4, <2>1, <3>2
      <4>2. h.round - 1 = proposer.round /\ (Odd(h.round) <=> ~Odd(proposer.round))
        BY <1>2, <1>4, SMTT(30) DEF Odd
      <4>3. CASE ~Odd(proposer.round)
        <5>1. Leader(proposer) # {}
          BY <1>1, <4>1, <4>3 DEF Inv, AdvanceOK
        <5>. QED
          BY <1>4, <4>1, <4>2, <4>3, <5>1 DEF Leader, Origins
      <4>4. CASE Odd(proposer.round)
        <5>. SUFFICES ASSUME NEW j \in 1 .. last,
                             made'[j].round = h.round - 1,
                             leader_of[h.round - 2] \in Origins(made'[j].parents)
                      PROVE  \/ HasQuorum(Origins({c \in h.parents : c.votes}))
                             \/ HasValidity(Origins({c \in h.parents : ~c.votes}))
          BY <4>1, <4>2, <4>4
        <5>1. j \in 1 .. Len(made) /\ made'[j] = made[j]
          BY <1>1, <1>2, <1>4
        <5>2. h.round - 2 = proposer.round - 1 /\ proposer.round > 2
          BY <1>2, <1>4, <2>1, <4>1, <4>4 DEF Odd
        <5>3. PICK l \in proposer.last_leader : l.round = proposer.round - 1
          BY <4>2, <4>4, <5>1, <5>2 DEF Inv, LeaderKept
        <5>4. \A c \in proposer.last_parent_certs : c.round = proposer.round
          BY DEF Inv, ParentsOK
        <5>5. enough_votes(proposer)
          BY <1>1, <4>1, <4>4 DEF Inv, AdvanceOK
        <5>6. {c \in proposer.last_parent_certs :
                  c.votes /\ \E m \in proposer.last_leader : m.round = c.round - 1}
                = {c \in h.parents : c.votes}
          BY <1>4, <5>3, <5>4
        <5>7. proposer.last_parent_certs \ {c \in h.parents : c.votes}
                = {c \in h.parents : ~c.votes}
          BY <1>4
        <5>. QED
          BY <5>3, <5>5, <5>6, <5>7 DEF enough_votes
      <4>. QED
        BY <4>3, <4>4
    <3>. QED
      BY <1>2, <3>1, <3>2
  <2>. QED
    BY <1>1, <1>2, <2>1 DEF LeaderAwaited
<1>. QED
  BY <1>5, <1>6, <1>7, <1>8, <1>9, <1>10

(* The invariant holds at the start, on the quorum of the genesis.         *)
LEMMA InvInit == ConstantsOK /\ Init => Inv
<1>. SUFFICES ASSUME ConstantsOK, Init PROVE Inv
  OBVIOUS
<1>1. genesis(Authority) \in SUBSET AnyCertificate
  BY DEF AnyCertificate
<1>2. TypeOK
  BY <1>1 DEF Init, TypeOK, EmptyAggregator, ProposerState
<1>3. AggregatorsSound
  <2>1. Origins({}) = {}
    BY DEF Origins
  <2>2. /\ EmptyAggregator.used = {} /\ EmptyAggregator.certificates = {}
        /\ \A r \in Rounds : aggregators[r] = EmptyAggregator
    BY DEF Init, EmptyAggregator
  <2>3. AggregatorOK(EmptyAggregator)
    BY <2>1, <2>2, EmptyNoQuorum DEF AggregatorOK
  <2>. QED
    BY <2>2, <2>3 DEF AggregatorsSound
<1>4. SignalsSound
  <2>1. \A r \in Rounds : aggregators[r].used = {}
    BY DEF Init, EmptyAggregator
  <2>2. SignalsOK(proposer, signals, delivered)
    BY DEF Init, SignalsOK
  <2>. QED
    BY <2>1, <2>2, EmptyNoQuorum DEF SignalsSound
<1>5. ParentsOK(proposer, delivered)
  <2>1. Origins(genesis(Authority)) = Authority
    <3>1. ASSUME NEW v \in Authority PROVE v \in Origins(genesis(Authority))
      <4>1. [origin |-> v, round |-> 0, votes |-> FALSE] \in genesis(Authority)
        BY DEF genesis
      <4>. QED
        BY <4>1 DEF Origins
    <3>. QED
      BY <1>1, <3>1, OriginsType
  <2>2. HasQuorum(Authority)
    <3>1. total_votes \in Nat /\ total_votes > 0
      BY Thresholds, FaultAssumption, WeightAssumption, ByzantineAssumption
    <3>. QED
      BY <3>1, Thresholds DEF HasQuorum, total_votes, quorum_threshold
  <2>. QED
    BY <2>1, <2>2 DEF Init, ParentsOK, genesis
<1>6. MadeBehind /\ LeaderKept /\ QuorumParents /\ LeaderAwaited
  BY DEF Init, MadeBehind, LeaderKept, QuorumParents, LeaderAwaited
<1>7. AdvanceOK(proposer)
  BY DEF Init, AdvanceOK
<1>. QED
  BY <1>2, <1>3, <1>4, <1>5, <1>6, <1>7 DEF Inv

(* Every step preserves the invariant.                                     *)
LEMMA InvStep == ConstantsOK /\ Inv /\ [Next]_vars => Inv'
<1>. SUFFICES ASSUME ConstantsOK, Inv, [Next]_vars PROVE Inv'
  OBVIOUS
<1>1. TypeOK'
  BY TypeStep DEF Inv
<1>2. ASSUME NEW c \in Certificate, ProcessCertificate(c) PROVE Inv'
  <2>1. UNCHANGED <<proposer, made>>
    BY <1>2 DEF ProcessCertificate
  <2>2. AggregatorsSound' /\ SignalsSound' /\ delivered \subseteq delivered'
    BY <1>2, ProcessPreserves
  <2>3. ParentsOK(proposer, delivered)'
    BY <2>1, <2>2 DEF Inv, ParentsOK
  <2>4. AdvanceOK(proposer)'
    BY <2>1 DEF Inv, AdvanceOK, Leader, enough_votes
  <2>5. QuorumParents'
    BY <2>1, <2>2 DEF Inv, QuorumParents
  <2>6. MadeBehind' /\ LeaderKept' /\ LeaderAwaited'
    BY <2>1 DEF Inv, MadeBehind, LeaderKept, LeaderAwaited
  <2>. QED
    BY <1>1, <2>2, <2>3, <2>4, <2>5, <2>6 DEF Inv
<1>3. ASSUME NEW r \in Rounds, AdvanceConsensus(r) PROVE Inv'
  BY <1>1, <1>3 DEF AdvanceConsensus, Inv, AggregatorsSound, AtRound, SignalsSound, AdvanceOK,
     Leader, enough_votes, QuorumParents, MadeBehind, LeaderKept, LeaderAwaited
<1>4. CASE ReceiveSignal
  <2>1. UNCHANGED <<delivered, aggregators, consensus_round, gc_round, made>>
    BY <1>4 DEF ReceiveSignal
  <2>2. AggregatorsSound' /\ QuorumParents' /\ LeaderAwaited'
    BY <2>1 DEF Inv, AggregatorsSound, AtRound, QuorumParents, LeaderAwaited
  <2>. QED
    BY <1>1, <1>4, <2>2, ReceivePreserves DEF Inv
<1>5. ASSUME NEW timer \in BOOLEAN, MakeHeader(timer) PROVE Inv'
  <2>1. AggregatorsSound'
    BY <1>5 DEF MakeHeader, Inv, AggregatorsSound, AtRound
  <2>. QED
    BY <1>1, <1>5, <2>1, MakePreserves DEF Inv
<1>6. CASE UNCHANGED vars
  BY <1>1, <1>6 DEF vars, Inv, AggregatorsSound, AtRound, SignalsSound, AdvanceOK,
     Leader, enough_votes, QuorumParents, MadeBehind, LeaderKept, LeaderAwaited
<1>. QED
  BY <1>2, <1>3, <1>4, <1>5, <1>6 DEF Next

(* In every behaviour, whatever the stakes, the schedule of leaders and    *)
(* gc_depth, every header rests on a stored quorum of the round before, no *)
(* round is proposed in twice, and a header the timer did not force has    *)
(* the leader or the votes it had to wait for.                             *)
THEOREM HeadersWait ==
    ASSUME ConstantsOK
    PROVE  Spec => [](QuorumParents /\ LeaderAwaited)
<1>1. Init => Inv
  BY InvInit
<1>2. Inv /\ [Next]_vars => Inv'
  BY InvStep
<1>3. Inv => QuorumParents /\ LeaderAwaited
  BY DEF Inv
<1>. QED
  BY <1>1, <1>2, <1>3, PTL DEF Spec

-----------------------------------------------------------------------------
(* The certificates of round r that proposer p holds or will receive by    *)
(* the signals q.                                                          *)
Sent(p, q, r) ==
    (IF p.round = r THEN p.last_parent_certs ELSE {})
       \cup UNION {q[i].certificates : i \in {j \in 1 .. Len(q) : q[j].round = r}}

(* No certificate is on its way to p twice, or again.                      *)
Disjoint(p, q) ==
    \A i \in 1 .. Len(q) :
       /\ q[i].round = p.round => q[i].certificates \cap p.last_parent_certs = {}
       /\ \A j \in 1 .. Len(q) :
             i # j /\ q[i].round = q[j].round => q[i].certificates \cap q[j].certificates = {}

(* The aggregator of a round knows what it has sent until it is collected, *)
(* and it is empty from then on.                                           *)
CountedOnce ==
    \A r \in Rounds :
       IF r < gc_round THEN aggregators[r] = EmptyAggregator
       ELSE /\ Origins(Sent(proposer, signals, r)) \subseteq aggregators[r].used
            /\ Sent(proposer, signals, r) # {} => HasQuorum(aggregators[r].used)

(* The inductive invariant behind ExtendedOnce, together with Inv.         *)
OnceInv ==
    /\ Disjoint(proposer, signals)
    /\ CountedOnce
    /\ gc_round = 0 \/ gc_round + gc_depth <= consensus_round

-----------------------------------------------------------------------------
(* The stake of a certificate that is sent is not sent again.              *)

(* The certificates in Sent, one by one.                                   *)
LEMMA SentIs ==
    ASSUME NEW p, NEW q, NEW r, NEW c
    PROVE  c \in Sent(p, q, r) <=> \/ p.round = r /\ c \in p.last_parent_certs
                                   \/ \E i \in 1 .. Len(q) : q[i].round = r /\ c \in q[i].certificates
BY DEF Sent

(* The Core never collects less than it did.                               *)
LEMMA GcGrows ==
    ASSUME ConstantsOK, TypeOK, gc_round = 0 \/ gc_round + gc_depth <= consensus_round
    PROVE  LET gc == IF consensus_round > gc_depth THEN consensus_round - gc_depth ELSE gc_round
           IN gc >= gc_round /\ (gc = 0 \/ gc + gc_depth <= consensus_round)
BY DEF ConstantsOK, TypeOK

(* What a processed certificate makes the aggregator send was not sent     *)
(* before.                                                                 *)
LEMMA ProcessOnce ==
    ASSUME ConstantsOK, NoSoleQuorum, Inv, OnceInv, NEW c \in Certificate, ProcessCertificate(c)
    PROVE  OnceInv'
<1>. DEFINE a == aggregators[c.round]
<1>1. PICK A \in Aggregator, P \in SUBSET Certificate, gc \in Nat :
              /\ append(a, c).aggregator = A
              /\ append(a, c).parents = P
              /\ signals' = IF P = {} THEN signals
                            ELSE Append(signals, [round |-> c.round, certificates |-> P])
              /\ aggregators' = [r \in Rounds |-> IF r < gc THEN EmptyAggregator
                                                  ELSE IF r = c.round THEN A
                                                  ELSE aggregators[r]]
              /\ gc_round' = gc
              /\ gc = IF consensus_round > gc_depth THEN consensus_round - gc_depth
                      ELSE gc_round
              /\ UNCHANGED <<consensus_round, proposer, made>>
  BY ProcessIs, ZenonT(40) DEF Inv
<1>2. /\ c.round \in Rounds /\ c.round \in Nat /\ a \in Aggregator /\ signals \in Seq(Signal)
      /\ proposer \in ProposerState /\ gc_round \in Nat /\ Len(signals) \in Nat
  BY RoundsAreNat DEF Inv, TypeOK, Aggregator, Certificate
<1>3. \/ P = {} /\ A = a
      \/ /\ c.origin \notin a.used
         /\ A.used = a.used \cup {c.origin}
         /\ IF HasQuorum(A.used)
            THEN P = a.certificates \cup {c} /\ A.certificates = {}
            ELSE P = {} /\ A.certificates = a.certificates \cup {c}
  BY <1>1, <1>2, AppendIs
<1>4. gc >= gc_round /\ (gc = 0 \/ gc + gc_depth <= consensus_round)
  BY <1>1, GcGrows DEF Inv, OnceInv
<1>5. \A x \in P : x \notin Sent(proposer, signals, c.round)
  <2>. SUFFICES ASSUME P # {} PROVE \A x \in P : x \notin Sent(proposer, signals, c.round)
    OBVIOUS
  <2>1. /\ P = a.certificates \cup {c} /\ HasQuorum(A.used) /\ A.used = a.used \cup {c.origin}
        /\ c.origin \notin a.used
    BY <1>3
  <2>2. c.origin \in Authority
    BY DEF Certificate
  <2>3. ~(c.round < gc_round)
    <3>1. SUFFICES ASSUME c.round < gc_round PROVE FALSE
      OBVIOUS
    <3>2. a.used = {}
      BY <1>2, <3>1 DEF OnceInv, CountedOnce, EmptyAggregator
    <3>3. A.used = {c.origin}
      BY <2>1, <3>2
    <3>. QED
      BY <2>1, <2>2, <3>3 DEF NoSoleQuorum
  <2>4. /\ Origins(Sent(proposer, signals, c.round)) \subseteq a.used
        /\ Sent(proposer, signals, c.round) # {} => HasQuorum(a.used)
    BY <1>2, <2>3 DEF OnceInv, CountedOnce
  <2>5. c \notin Sent(proposer, signals, c.round)
    BY <2>1, <2>4 DEF Origins
  <2>6. HasQuorum(a.used) => a.certificates = {}
    BY <1>2 DEF Inv, AggregatorsSound, AggregatorOK
  <2>. QED
    BY <2>1, <2>4, <2>5, <2>6
<1>6. Disjoint(proposer, signals)
  BY DEF OnceInv
<1>7. /\ Disjoint(proposer, signals')
      /\ \A r \in Rounds : Sent(proposer, signals', r)
            = IF r = c.round THEN Sent(proposer, signals, r) \cup P ELSE Sent(proposer, signals, r)
  <2>1. CASE P = {}
    BY <1>1, <1>6, <2>1
  <2>2. CASE P # {}
    <3>. DEFINE s == [round |-> c.round, certificates |-> P]
                q == Append(signals, s)
    <3>1. signals' = q
      BY <1>1, <2>2
    <3>2. s \in Signal
      BY <1>2 DEF Signal
    <3>3. /\ Len(q) = Len(signals) + 1 /\ q[Len(signals) + 1] = s
          /\ \A i \in 1 .. Len(signals) : q[i] = signals[i]
      BY <1>2, <3>2
    <3>4. s.round = c.round /\ s.certificates = P
      OBVIOUS
    <3>. HIDE DEF q, s
    <3>5. \A i \in 1 .. Len(q) : i \in 1 .. Len(signals) \/ i = Len(signals) + 1
      BY <1>2, <3>3
    <3>6. \A i \in 1 .. Len(signals) : signals[i].round = c.round
                                          => signals[i].certificates \cap P = {}
      BY <1>5, SentIs
    <3>7. proposer.round = c.round => proposer.last_parent_certs \cap P = {}
      BY <1>5, SentIs
    <3>8. ASSUME NEW i \in 1 .. Len(q)
          PROVE  /\ q[i].round = proposer.round
                      => q[i].certificates \cap proposer.last_parent_certs = {}
                 /\ \A j \in 1 .. Len(q) :
                       i # j /\ q[i].round = q[j].round
                          => q[i].certificates \cap q[j].certificates = {}
      <4>1. CASE i \in 1 .. Len(signals)
        <5>1. /\ q[i].round = proposer.round
                    => q[i].certificates \cap proposer.last_parent_certs = {}
              /\ \A j \in 1 .. Len(signals) :
                    i # j /\ q[i].round = q[j].round
                       => q[i].certificates \cap q[j].certificates = {}
          BY <1>6, <3>3, <4>1 DEF Disjoint
        <5>2. /\ q[i].round = q[Len(signals) + 1].round
                 => q[i].certificates \cap q[Len(signals) + 1].certificates = {}
          BY <3>3, <3>4, <3>6, <4>1
        <5>. QED
          BY <3>5, <5>1, <5>2
      <4>2. CASE i = Len(signals) + 1
        <5>1. q[i] = s
          BY <3>3, <4>2
        <5>2. \A j \in 1 .. Len(signals) : q[j].round = c.round => P \cap q[j].certificates = {}
          BY <3>3, <3>6
        <5>. QED
          BY <3>4, <3>5, <3>7, <4>2, <5>1, <5>2
      <4>. QED
        BY <3>5, <4>1, <4>2
    <3>9. ASSUME NEW r \in Rounds, NEW x
          PROVE  x \in Sent(proposer, q, r)
                   <=> x \in Sent(proposer, signals, r) \/ (r = c.round /\ x \in P)
      <4>1. (\E i \in 1 .. Len(q) : q[i].round = r /\ x \in q[i].certificates)
              <=> \/ \E i \in 1 .. Len(signals) : signals[i].round = r /\ x \in signals[i].certificates
                  \/ r = c.round /\ x \in P
        <5>1. Len(signals) + 1 \in 1 .. Len(q) /\ 1 .. Len(signals) \subseteq 1 .. Len(q)
          BY <1>2, <3>3
        <5>. QED
          BY <3>3, <3>4, <3>5, <5>1
      <4>. QED
        BY <4>1, SentIs
    <3>. QED
      BY <3>1, <3>8, <3>9 DEF Disjoint
  <2>. QED
    BY <2>1, <2>2
<1>8. CountedOnce'
  <2>. SUFFICES ASSUME NEW r \in Rounds
                PROVE  IF r < gc THEN aggregators'[r] = EmptyAggregator
                       ELSE /\ Origins(Sent(proposer, signals', r)) \subseteq aggregators'[r].used
                            /\ Sent(proposer, signals', r) # {} => HasQuorum(aggregators'[r].used)
    BY <1>1 DEF CountedOnce
  <2>1. CASE r < gc
    BY <1>1, <2>1
  <2>2. CASE ~(r < gc)
    <3>1. /\ Origins(Sent(proposer, signals, r)) \subseteq aggregators[r].used
          /\ Sent(proposer, signals, r) # {} => HasQuorum(aggregators[r].used)
      <4>1. ~(r < gc_round)
        BY <1>2, <1>4, <2>2, RoundsAreNat
      <4>. QED
        BY <4>1 DEF OnceInv, CountedOnce
    <3>2. CASE r # c.round
      BY <1>1, <1>7, <2>2, <3>1, <3>2
    <3>3. CASE r = c.round
      <4>1. aggregators'[r] = A /\ Sent(proposer, signals', r) = Sent(proposer, signals, r) \cup P
        BY <1>1, <1>7, <2>2, <3>3
      <4>2. CASE P = {} /\ A = a
        BY <2>2, <3>1, <3>3, <4>1, <4>2
      <4>3. CASE /\ A.used = a.used \cup {c.origin}
                 /\ ~HasQuorum(A.used) /\ P = {}
        <5>1. Weight[a.used] <= Weight[A.used] /\ Weight[a.used] \in Nat /\ Weight[A.used] \in Nat
          BY <1>2, <4>3, WeightMonotone DEF Aggregator
        <5>2. ~HasQuorum(a.used)
          BY <4>3, <5>1, Thresholds DEF HasQuorum
        <5>3. Sent(proposer, signals, r) = {}
          BY <3>1, <3>3, <5>2
        <5>. QED
          BY <2>2, <3>1, <3>3, <4>1, <4>3, <5>3
      <4>4. CASE /\ A.used = a.used \cup {c.origin}
                 /\ HasQuorum(A.used) /\ P = a.certificates \cup {c}
        <5>1. Origins(Sent(proposer, signals', r))
                = Origins(Sent(proposer, signals, r)) \cup Origins(a.certificates) \cup {c.origin}
          BY <4>1, <4>4 DEF Origins
        <5>2. Origins(a.certificates) \subseteq a.used
          <6>1. AggregatorOK(a)
            BY <1>2 DEF Inv, AggregatorsSound
          <6>. QED
            BY <6>1 DEF AggregatorOK, Origins
        <5>. QED
          BY <2>2, <3>1, <3>3, <4>1, <4>4, <5>1, <5>2
      <4>. QED
        BY <1>3, <4>2, <4>3, <4>4
    <3>. QED
      BY <3>2, <3>3
  <2>. QED
    BY <2>1, <2>2
<1>. QED
  BY <1>1, <1>4, <1>7, <1>8 DEF OnceInv

(* When less is on its way, the aggregator still knows it.                 *)
LEMMA SentLess ==
    ASSUME NEW S, NEW T, S \subseteq T, NEW u,
           Origins(T) \subseteq u, T # {} => HasQuorum(u)
    PROVE  Origins(S) \subseteq u /\ (S # {} => HasQuorum(u))
BY DEF Origins

(* Receiving a signal repeats no certificate.                              *)
LEMMA ReceiveOnce ==
    ASSUME ConstantsOK, Inv, OnceInv, ReceiveSignal
    PROVE  OnceInv'
<1>. DEFINE s == Head(signals)
            q == Tail(signals)
            p == Received(proposer, s)
<1>1. /\ signals # <<>> /\ s \in Signal /\ s = signals[1]
      /\ signals' = q
      /\ Len(q) = Len(signals) - 1
      /\ \A i \in 1 .. Len(signals) - 1 : q[i] = signals[i + 1]
      /\ p \in ProposerState
      /\ proposer' = Advanced(p)
      /\ UNCHANGED <<delivered, aggregators, consensus_round, gc_round, made>>
  BY ReceiveIs DEF Inv
<1>2. /\ signals \in Seq(Signal) /\ proposer \in ProposerState /\ Len(signals) \in Nat
      /\ Len(signals) > 0 /\ proposer.round \in Nat /\ s.round \in Nat
  BY <1>1, RoundsAreNat DEF Inv, TypeOK, ProposerState, Signal
<1>3. proposer'.round = p.round /\ proposer'.last_parent_certs = p.last_parent_certs
  BY <1>1, AdvancedIs
<1>4. /\ p.round = IF s.round > proposer.round THEN s.round ELSE proposer.round
      /\ p.last_parent_certs = IF s.round > proposer.round THEN s.certificates
                               ELSE IF s.round = proposer.round
                                    THEN proposer.last_parent_certs \cup s.certificates
                                    ELSE proposer.last_parent_certs
  BY <1>1, <1>2 DEF Received, ProposerState
<1>5. \A i \in 1 .. Len(q) : /\ i \in 1 .. Len(signals) /\ i + 1 \in 1 .. Len(signals)
                             /\ 1 # i + 1
                             /\ q[i] = signals[i + 1]
  BY <1>1, <1>2
<1>6. 1 \in 1 .. Len(signals)
  BY <1>2
<1>7. \A i \in 1 .. Len(q) : signals[i + 1].round \in Nat
  <2>1. \A i \in 1 .. Len(signals) : signals[i] \in Signal
    BY <1>2
  <2>. QED
    BY <1>5, <2>1, RoundsAreNat DEF Signal
<1>. HIDE DEF s, q, p
<1>8. Disjoint(proposer', q)
  <2>1. ASSUME NEW i \in 1 .. Len(q), q[i].round = p.round
        PROVE  q[i].certificates \cap p.last_parent_certs = {}
    <3>1. s.round = q[i].round => s.certificates \cap q[i].certificates = {}
      BY <1>1, <1>5, <1>6 DEF OnceInv, Disjoint
    <3>2. proposer.round = q[i].round => q[i].certificates \cap proposer.last_parent_certs = {}
      BY <1>5 DEF OnceInv, Disjoint
    <3>. QED
      BY <1>2, <1>4, <2>1, <3>1, <3>2
  <2>2. ASSUME NEW i \in 1 .. Len(q), NEW j \in 1 .. Len(q), i # j, q[i].round = q[j].round
        PROVE  q[i].certificates \cap q[j].certificates = {}
    <3>1. i + 1 # j + 1
      BY <2>2
    <3>. QED
      BY <1>5, <2>2, <3>1 DEF OnceInv, Disjoint
  <2>. QED
    BY <1>3, <2>1, <2>2 DEF Disjoint
<1>9. ASSUME NEW r \in Rounds
      PROVE  Sent(proposer', q, r) \subseteq Sent(proposer, signals, r)
  <2>. SUFFICES ASSUME NEW c \in Sent(proposer', q, r)
                PROVE  c \in Sent(proposer, signals, r)
    OBVIOUS
  <2>1. CASE \E i \in 1 .. Len(q) : q[i].round = r /\ c \in q[i].certificates
    BY <1>5, <2>1, SentIs
  <2>2. CASE p.round = r /\ c \in p.last_parent_certs
    <3>1. \/ proposer.round = r /\ c \in proposer.last_parent_certs
          \/ s.round = r /\ c \in s.certificates
      BY <1>2, <1>4, <2>2
    <3>. QED
      BY <1>1, <1>6, <3>1, SentIs
  <2>. QED
    BY <1>3, <2>1, <2>2, SentIs
<1>10. CountedOnce'
  BY <1>1, <1>9, SentLess DEF OnceInv, CountedOnce
<1>. QED
  BY <1>1, <1>8, <1>10 DEF OnceInv

(* Making a header, which takes the parents, repeats no certificate.       *)
LEMMA MakeOnce ==
    ASSUME Inv, OnceInv, NEW timer \in BOOLEAN, MakeHeader(timer)
    PROVE  OnceInv'
<1>1. /\ proposer'.last_parent_certs = {}
      /\ UNCHANGED <<delivered, aggregators, consensus_round, gc_round, signals>>
  BY MakeIs DEF Inv
<1>2. Disjoint(proposer', signals)
  BY <1>1 DEF OnceInv, Disjoint
<1>3. ASSUME NEW r \in Rounds
      PROVE  Sent(proposer', signals, r) \subseteq Sent(proposer, signals, r)
  BY <1>1, SentIs
<1>4. CountedOnce'
  BY <1>1, <1>3, SentLess DEF OnceInv, CountedOnce
<1>. QED
  BY <1>1, <1>2, <1>4 DEF OnceInv

(* Nothing is on its way at the start.                                     *)
LEMMA OnceInit == ConstantsOK /\ Init => OnceInv
<1>. SUFFICES ASSUME ConstantsOK, Init PROVE OnceInv
  OBVIOUS
<1>1. \A r \in Rounds : Sent(proposer, signals, r) = {}
  BY RoundsAreNat DEF Init, Sent
<1>2. Origins({}) = {}
  BY DEF Origins
<1>3. CountedOnce
  BY <1>1, <1>2 DEF Init, CountedOnce
<1>. QED
  BY <1>3 DEF Init, OnceInv, Disjoint

(* Every step keeps certificates from being sent twice, where no authority *)
(* is a quorum alone.                                                      *)
LEMMA OnceStep ==
    ConstantsOK /\ NoSoleQuorum /\ Inv /\ OnceInv /\ [Next]_vars => OnceInv'
<1>. SUFFICES ASSUME ConstantsOK, NoSoleQuorum, Inv, OnceInv, [Next]_vars PROVE OnceInv'
  OBVIOUS
<1>1. ASSUME NEW r \in Rounds, AdvanceConsensus(r) PROVE OnceInv'
  <2>1. /\ UNCHANGED <<aggregators, gc_round, signals, proposer>>
        /\ consensus_round' = r /\ r > consensus_round
    BY <1>1 DEF AdvanceConsensus
  <2>2. gc_round \in Nat /\ gc_depth \in Nat /\ consensus_round \in Nat /\ r \in Nat
    BY RoundsAreNat DEF Inv, TypeOK, ConstantsOK
  <2>3. gc_round = 0 \/ gc_round + gc_depth <= consensus_round'
    BY <2>1, <2>2 DEF OnceInv
  <2>4. CountedOnce'
    <3>1. ASSUME NEW q \in Rounds PROVE Sent(proposer, signals, q)' = Sent(proposer, signals, q)
      BY <2>1 DEF Sent
    <3>. QED
      BY <2>1, <3>1 DEF OnceInv, CountedOnce
  <2>. QED
    BY <2>1, <2>3, <2>4 DEF OnceInv, Disjoint
<1>2. CASE UNCHANGED vars
  <2>1. UNCHANGED <<aggregators, gc_round, signals, proposer, consensus_round>>
    BY <1>2 DEF vars
  <2>2. ASSUME NEW q \in Rounds PROVE Sent(proposer, signals, q)' = Sent(proposer, signals, q)
    BY <2>1 DEF Sent
  <2>3. CountedOnce'
    BY <2>1, <2>2 DEF OnceInv, CountedOnce
  <2>. QED
    BY <2>1, <2>3 DEF OnceInv, Disjoint
<1>. QED
  BY <1>1, <1>2, ProcessOnce, ReceiveOnce, MakeOnce DEF Next

(* What the invariants say of the headers made: no parent is counted twice, *)
(* none lacks its quorum, none overtakes the leader or its votes.          *)
LEMMA ProposalsSafe == Inv /\ OnceInv => BullsharkProposals
<1>. SUFFICES ASSUME Inv, OnceInv PROVE ExtendedOnce
  BY DEF Inv, BullsharkProposals
<1>. SUFFICES ASSUME signals # <<>>, Head(signals).round = proposer.round
              PROVE  Head(signals).certificates \cap proposer.last_parent_certs = {}
  BY DEF ExtendedOnce
<1>1. 1 \in 1 .. Len(signals) /\ Head(signals) = signals[1]
  BY DEF Inv, TypeOK
<1>. QED
  BY <1>1 DEF OnceInv, Disjoint

(* In every behaviour of a committee in which no authority is a quorum     *)
(* alone, no parent is counted twice, nor does a header lack its quorum or *)
(* overtake the leader or its votes. With an authority that is one, and    *)
(* gc_depth = 0, its certificate of a collected round fills the new        *)
(* aggregator at once and is sent again.                                   *)
THEOREM BullsharkProposalsHold ==
    ASSUME ConstantsOK, NoSoleQuorum
    PROVE  Spec => []BullsharkProposals
<1>1. Init => Inv /\ OnceInv
  BY InvInit, OnceInit
<1>2. Inv /\ OnceInv /\ [Next]_vars => (Inv /\ OnceInv)'
  BY InvStep, OnceStep
<1>. QED
  BY <1>1, <1>2, ProposalsSafe, PTL DEF Spec

=============================================================================
