------------------------- MODULE PrimaryCoreProofs -------------------------
(***************************************************************************)
(* Type correctness of PrimaryCore, its inductive invariant Inv, the       *)
(* safety properties that follow from it, and the implementation of        *)
(* CertifiedDag.  Every step is first summarised by StepOK: what it may do *)
(* to votes, certificates, deliveries and the memory of the Cores.  That   *)
(* Inv is preserved, and that the step implements a step of CertifiedDag,  *)
(* is then shown from the summary alone.                                   *)
(*                                                                         *)
(* The second part is what passes between the Core and the proposer: the   *)
(* headers an honest authority makes are valid, its Core never panics on   *)
(* them, their certificates are assembled once, and no round gets two but  *)
(* in the cases that OneProposalPerRound excepts.                          *)
(***************************************************************************)
EXTENDS PrimaryCore, CommitteeProofs

-----------------------------------------------------------------------------
(* Types of the operators on Core states.                                  *)

(* The rounds of the headers are natural numbers.                          *)
LEMMA RoundType == Round \subseteq Nat /\ \A h \in Header : round[h] \in Round
  BY HeaderAssumption DEF Round

(* The genesis certificates that are sent are headers of round 0 without   *)
(* parents.                                                                *)
LEMMA StrayGenesisType ==
    /\ StrayGenesis \subseteq Header
    /\ \A h \in StrayGenesis : round[h] = 0 /\ parents[h] = {}
  BY CoreAssumption, GenesisAssumption

(* The slot of a header, the key of last_voted, is a round and an author.  *)
LEMMA SlotType == \A h \in Header : slot(h) \in Nat \X Authority
  BY HeaderAssumption DEF slot

(* The round the Core collects up to at the end of a turn, consensus_round *)
(* less gc_depth, never goes below zero.                                   *)
LEMMA GcRoundType ==
    ASSUME TypeOK, NEW n \in Honest
    PROVE  GcRound(n) \in Nat
  BY CoreAssumption DEF TypeOK, CoreState, GcRound

(* Garbage collection at the end of run's loop leaves a Core state.        *)
LEMMA CollectType ==
    ASSUME NEW c \in CoreState, NEW r \in Nat
    PROVE  Collect(c, r) \in CoreState
  BY RoundType, HeaderAssumption
     DEF Collect, CoreState, EmptyVotes, EmptyCertificates

(* process_header leaves a Core state.                                     *)
LEMMA HeaderProcessedType ==
    ASSUME NEW c \in CoreState, NEW n \in Honest, NEW h \in Header
    PROVE  HeaderProcessed(c, n, h) \in CoreState
  BY SlotType DEF HeaderProcessed, CoreState

(* VotesAggregator::append leaves a Core state, whether or not the vote    *)
(* completes a quorum.                                                     *)
LEMMA AppendVoteType ==
    ASSUME NEW c \in CoreState, NEW v \in Authority, NEW h \in Header
    PROVE  AppendVote(c, v, h) \in CoreState
<1>. DEFINE VA == [weight : Nat, used : SUBSET Authority]
            a  == c.votes_aggregators[h]
            w  == a.weight + Weight[{v}]
            b  == [weight |-> IF w >= quorum_threshold THEN 0 ELSE w,
                   used   |-> a.used \cup {v}]
<1>1. c.votes_aggregators \in [Header -> VA]
  BY DEF CoreState
<1>2. a.weight \in Nat /\ a.used \in SUBSET Authority
  BY <1>1
<1>3. b \in VA
  BY <1>2, WeightAssumption, Thresholds
<1>4. ASSUME NEW f \in [Header -> VA]
      PROVE  [c EXCEPT !.votes_aggregators = f] \in CoreState
  BY <1>4 DEF CoreState
<1>5. [c.votes_aggregators EXCEPT ![h] = b] \in [Header -> VA]
  BY <1>1, <1>3
<1>6. [c EXCEPT !.votes_aggregators[h] = b] \in CoreState
  BY <1>4, <1>5
<1>. QED
  BY <1>6 DEF AppendVote

(* CertificatesAggregator::append leaves a Core state, and what it passes  *)
(* to the proposer is a list of round signals.                             *)
LEMMA AppendCertificateType ==
    ASSUME NEW c \in CoreState, NEW h \in Header
    PROVE  /\ AppendCertificate(c, h) \in CoreState
           /\ Signals(c, h) \in Seq(Signal)
<1>. DEFINE CA == [weight : Nat, used : SUBSET Authority,
                   certificates : SUBSET Header]
            a  == c.certificates_aggregators[round[h]]
            w  == a.weight + Weight[{author[h]}]
            full == w >= quorum_threshold
            b  == [weight |-> IF full THEN 0 ELSE w,
                   used   |-> a.used \cup {author[h]},
                   certificates |-> IF full THEN {} ELSE a.certificates \cup {h}]
            s  == [round |-> round[h] + 1, parents |-> a.certificates \cup {h}]
<1>0. Weight[{author[h]}] \in Nat /\ author[h] \in Authority
  BY WeightAssumption, HeaderAssumption
<1>1. c.certificates_aggregators \in [Round -> CA]
  BY DEF CoreState
<1>2. a.weight \in Nat /\ a.used \in SUBSET Authority
      /\ a.certificates \in SUBSET Header
  BY <1>1, RoundType
<1>3. b \in CA
  BY <1>0, <1>2, Thresholds
<1>4. ASSUME NEW f \in [Round -> CA]
      PROVE  [c EXCEPT !.certificates_aggregators = f] \in CoreState
  BY <1>4 DEF CoreState
<1>5. [c.certificates_aggregators EXCEPT ![round[h]] = b] \in [Round -> CA]
  BY <1>1, <1>3
<1>6. [c EXCEPT !.certificates_aggregators[round[h]] = b] \in CoreState
  BY <1>4, <1>5
<1>7. AppendCertificate(c, h) \in CoreState
  BY <1>6 DEF AppendCertificate
<1>8. s \in Signal
  <2>1. round[h] + 1 \in Nat /\ a.certificates \cup {h} \in SUBSET Header
    BY <1>2, HeaderAssumption
  <2>. QED
    BY <2>1 DEF Signal
<1>9. Signals(c, h) = <<s>> \/ Signals(c, h) = <<>>
  BY Zenon DEF Signals
<1>. QED
  <2>1. <<s>> \in Seq(Signal) /\ <<>> \in Seq(Signal)
    BY <1>8
  <2>. QED
    BY <1>7, <1>9, <2>1, Zenon

(* process_certificate leaves a Core state.                                *)
LEMMA CertificateProcessedType ==
    ASSUME NEW c \in CoreState, NEW n \in Honest, NEW h \in Header
    PROVE  CertificateProcessed(c, n, h) \in CoreState
  BY AppendCertificateType DEF CertificateProcessed

(* The end of a turn collects the Core of the authority whose turn it is   *)
(* and no other.                                                           *)
LEMMA EndTurnType ==
    ASSUME TypeOK, NEW n \in Honest, NEW c \in CoreState, EndTurn(n, c)
    PROVE  /\ core' \in [Honest -> CoreState]
           /\ core'[n] = Collect(c, GcRound(n))
           /\ \A m \in Honest \ {n} : core'[m] = core[m]
<1>1. Collect(c, GcRound(n)) \in CoreState
  BY CollectType, GcRoundType
<1>. QED
  BY <1>1 DEF EndTurn, TypeOK

-----------------------------------------------------------------------------
(* Types of the variables that process_header and process_certificate      *)
(* write, besides the Core's own state.                                    *)

HeaderVarsOK ==
    /\ votes \subseteq Honest \X Header
    /\ stored_headers \in [Honest -> SUBSET Header]
    /\ header_waiter \in
         [Honest -> SUBSET [header : Header, awaits : {"parents", "payload"}]]

CertificateVarsOK ==
    /\ store \in [Honest -> SUBSET Header]
    /\ certificate_waiter \in [Honest -> SUBSET Header]
    /\ tx_proposer \in [Honest -> Seq(Signal)]
    /\ tx_consensus \in [Honest -> SUBSET Header]

(* What process_header does outside the Core (votes, stored headers,       *)
(* requests for missing data) keeps the types.                             *)
LEMMA HeaderEffectsType ==
    ASSUME TypeOK, NEW n \in Honest, NEW h \in Header,
           HeaderEffects(n, h) \/ NoHeaderEffects
    PROVE  HeaderVarsOK'
<1>1. CASE NoHeaderEffects
  BY <1>1 DEF NoHeaderEffects, HeaderVarsOK, TypeOK
<1>2. CASE HeaderEffects(n, h)
  <2>1. votes' \subseteq Honest \X Header
    BY <1>2 DEF HeaderEffects, TypeOK
  <2>2. stored_headers' \in [Honest -> SUBSET Header]
    BY <1>2 DEF HeaderEffects, TypeOK
  <2>3. WaitFor(n, h) \in [header : Header, awaits : {"parents", "payload"}]
    BY DEF WaitFor
  <2>4. header_waiter' \in
         [Honest -> SUBSET [header : Header, awaits : {"parents", "payload"}]]
    BY <1>2, <2>3 DEF HeaderEffects, TypeOK
  <2>. QED
    BY <2>1, <2>2, <2>4 DEF HeaderVarsOK
<1>. QED
  BY <1>1, <1>2

(* Adding a header to the set of one authority keeps the type of the sets. *)
LEMMA AddHeaderType ==
    ASSUME NEW f \in [Honest -> SUBSET Header], NEW n \in Honest,
           NEW h \in Header
    PROVE  [f EXCEPT ![n] = @ \cup {h}] \in [Honest -> SUBSET Header]
  OBVIOUS

(* What process_certificate does outside the Core (store, channels to the  *)
(* proposer and to the consensus) keeps the types.                         *)
LEMMA CertificateEffectsType ==
    ASSUME TypeOK, NEW c \in CoreState, NEW n \in Honest, NEW h \in Header,
           CertificateEffects(c, n, h) \/ NoCertificateEffects
    PROVE  CertificateVarsOK'
<1>0. CertificateVarsOK
  BY DEF TypeOK, CertificateVarsOK
<1>1. CASE NoCertificateEffects
  BY <1>0, <1>1 DEF NoCertificateEffects, CertificateVarsOK
<1>2. CASE CertificateEffects(c, n, h) /\ MissingParents(n, h) = {}
  <2>1. /\ store' = [store EXCEPT ![n] = @ \cup {h}]
        /\ tx_proposer' = [tx_proposer EXCEPT ![n] = @ \o Signals(c, h)]
        /\ tx_consensus' = [tx_consensus EXCEPT ![n] = @ \cup {h}]
        /\ certificate_waiter' = certificate_waiter
    BY <1>2, Zenon DEF CertificateEffects
  <2>2. store' \in [Honest -> SUBSET Header]
    BY <1>0, <2>1, AddHeaderType, Zenon DEF CertificateVarsOK
  <2>3. tx_consensus' \in [Honest -> SUBSET Header]
    BY <1>0, <2>1, AddHeaderType, Zenon DEF CertificateVarsOK
  <2>4. tx_proposer[n] \o Signals(c, h) \in Seq(Signal)
    BY <1>0, AppendCertificateType DEF CertificateVarsOK
  <2>5. tx_proposer' \in [Honest -> Seq(Signal)]
    BY <1>0, <2>1, <2>4 DEF CertificateVarsOK
  <2>. QED
    BY <1>0, <2>1, <2>2, <2>3, <2>5 DEF CertificateVarsOK
<1>3. CASE CertificateEffects(c, n, h) /\ MissingParents(n, h) # {}
  <2>1. /\ certificate_waiter' = [certificate_waiter EXCEPT ![n] = @ \cup {h}]
        /\ UNCHANGED <<store, tx_proposer, tx_consensus>>
    BY <1>3, Zenon DEF CertificateEffects
  <2>2. certificate_waiter' \in [Honest -> SUBSET Header]
    BY <1>0, <2>1, AddHeaderType, Zenon DEF CertificateVarsOK
  <2>. QED
    BY <1>0, <2>1, <2>2 DEF CertificateVarsOK
<1>. QED
  BY <1>1, <1>2, <1>3

(* What the two handlers write has its type.                               *)
HandlerVarsOK ==
    /\ HeaderVarsOK
    /\ CertificateVarsOK
    /\ core \in [Honest -> CoreState]
    /\ panicked \subseteq Honest

(* A turn that ends with process_header keeps the types.                   *)
LEMMA ProcessHeaderType ==
    ASSUME TypeOK, NEW n \in Honest, NEW h \in Header, ProcessHeader(n, h)
    PROVE  HandlerVarsOK'
<1>1. core[n] \in CoreState
  BY DEF TypeOK
<1>2. HeaderVarsOK'
  BY HeaderEffectsType DEF ProcessHeader
<1>3. CertificateVarsOK'
  BY <1>1, CertificateEffectsType DEF ProcessHeader
<1>4. core' \in [Honest -> CoreState]
  BY <1>1, EndTurnType, HeaderProcessedType DEF ProcessHeader, TypeOK
<1>5. panicked' \subseteq Honest
  BY DEF ProcessHeader, TypeOK
<1>. QED
  BY <1>2, <1>3, <1>4, <1>5 DEF HandlerVarsOK

(* A turn that ends with process_certificate keeps the types, whether or   *)
(* not it processes the embedded header first.                             *)
LEMMA ProcessCertificateType ==
    ASSUME TypeOK, NEW c \in CoreState, NEW n \in Honest, NEW h \in Header,
           ProcessCertificate(c, n, h)
    PROVE  HandlerVarsOK'
<1>. DEFINE fresh == c.processing \cap SameId(h) = {}
            d == IF fresh THEN HeaderProcessed(c, n, h) ELSE c
<1>1. d \in CoreState
  BY HeaderProcessedType
<1>2. HeaderVarsOK'
  BY HeaderEffectsType DEF ProcessCertificate
<1>3. CertificateVarsOK'
  <2>1. CertificateEffects(d, n, h) \/ NoCertificateEffects
    BY DEF ProcessCertificate
  <2>. QED
    BY <1>1, <2>1, CertificateEffectsType
<1>4. core' \in [Honest -> CoreState]
  <2>1. \/ EndTurn(n, d)
        \/ EndTurn(n, CertificateProcessed(d, n, h))
        \/ UNCHANGED core
    BY DEF ProcessCertificate
  <2>2. CertificateProcessed(d, n, h) \in CoreState
    BY <1>1, CertificateProcessedType
  <2>. QED
    BY <1>1, <2>1, <2>2, EndTurnType DEF TypeOK
<1>5. panicked' \subseteq Honest
  BY DEF ProcessCertificate, TypeOK
<1>. QED
  BY <1>2, <1>3, <1>4, <1>5 DEF HandlerVarsOK

(* process_own_header takes a header from the proposer's channel and keeps *)
(* the types, through the author's own vote and a certificate it may       *)
(* complete.                                                               *)
LEMMA ProcessOwnHeaderType ==
    ASSUME TypeOK, NEW n \in Honest, ProcessOwnHeader(n)
    PROVE  /\ Head(rx_proposer[n]) \in Header
           /\ HandlerVarsOK'
           /\ rx_proposer' \in [Honest -> Seq(Header)]
           /\ headers' \subseteq Header
           /\ certificates' \subseteq Header
<1>. DEFINE h == Head(rx_proposer[n])
            c == [core[n] EXCEPT !.current_round = round[h],
                                 !.own_headers = @ \cup {h}]
            d == HeaderProcessed(c, n, h)
            e == IF Votes(n, h) THEN AppendVote(d, n, h) ELSE d
<1>0. rx_proposer \in [Honest -> Seq(Header)] /\ rx_proposer[n] # <<>>
  BY DEF TypeOK, ProcessOwnHeader
<1>1. h \in Header /\ Tail(rx_proposer[n]) \in Seq(Header)
  BY <1>0
<1>2. core[n] \in CoreState /\ n \in Authority
  BY DEF TypeOK, Honest
<1>3. c \in CoreState
  <2>1. round[h] \in Nat
    BY <1>1, HeaderAssumption
  <2>. QED
    BY <1>1, <1>2, <2>1 DEF CoreState
<1>. HIDE DEF c
<1>4. d \in CoreState
  BY <1>1, <1>3, HeaderProcessedType
<1>. HIDE DEF d
<1>5. e \in CoreState
  BY <1>1, <1>2, <1>4, AppendVoteType
<1>6. CertificateProcessed(e, n, h) \in CoreState
  BY <1>1, <1>5, CertificateProcessedType
<1>. HIDE DEF e
<1>7. /\ HeaderEffects(n, h)
      /\ rx_proposer' = [rx_proposer EXCEPT ![n] = Tail(@)]
      /\ headers' = headers \cup {h} \/ UNCHANGED headers
      /\ certificates' = certificates \cup {h} \/ UNCHANGED certificates
      /\ CertificateEffects(e, n, h) \/ NoCertificateEffects
      /\ EndTurn(n, CertificateProcessed(e, n, h)) \/ EndTurn(n, e)
      /\ UNCHANGED panicked
  BY DEF ProcessOwnHeader, c, d, e
<1>. HIDE DEF h
<1>8. HeaderVarsOK' /\ CertificateVarsOK'
  BY <1>1, <1>5, <1>7, HeaderEffectsType, CertificateEffectsType
<1>9. core' \in [Honest -> CoreState]
  BY <1>5, <1>6, <1>7, EndTurnType
<1>10. rx_proposer' \in [Honest -> Seq(Header)]
  BY <1>0, <1>1, <1>7
<1>11. headers' \subseteq Header /\ certificates' \subseteq Header
  BY <1>1, <1>7 DEF TypeOK
<1>. QED
  BY <1>1, <1>7, <1>8, <1>9, <1>10, <1>11 DEF HandlerVarsOK, TypeOK, h

(* process_vote keeps the types, through the certificate the vote may      *)
(* complete.                                                               *)
LEMMA ReceiveVoteType ==
    ASSUME TypeOK, NEW n \in Honest, NEW v \in Authority, NEW h \in Header,
           ReceiveVote(n, v, h)
    PROVE  HandlerVarsOK' /\ certificates' \subseteq Header
<1>. DEFINE c == AppendVote(core[n], v, h)
<1>1. core[n] \in CoreState
  BY DEF TypeOK
<1>2. c \in CoreState
  BY <1>1, AppendVoteType
<1>. HIDE DEF c
<1>3. CASE /\ certificates' = certificates \cup {h}
           /\ ProcessCertificate(c, n, h)
  BY <1>2, <1>3, ProcessCertificateType DEF TypeOK
<1>4. CASE /\ EndTurn(n, c)
           /\ NoHeaderEffects /\ NoCertificateEffects
           /\ UNCHANGED <<certificates, panicked>>
  BY <1>2, <1>4, EndTurnType, HeaderEffectsType, CertificateEffectsType
     DEF HandlerVarsOK, TypeOK
<1>. QED
  BY <1>3, <1>4 DEF ReceiveVote, c

(* Every step keeps every variable within its type.                        *)
LEMMA TypeStep ==
    ASSUME TypeOK, [Next]_vars
    PROVE  TypeOK'
<1>. USE DEF HandlerVarsOK, HeaderVarsOK, CertificateVarsOK
<1>1. ASSUME NEW n \in Honest, ProcessOwnHeader(n)
      PROVE  TypeOK'
  BY <1>1, ProcessOwnHeaderType DEF ProcessOwnHeader, TypeOK
<1>2. ASSUME NEW n \in Honest, NEW h \in headers, ReceiveHeader(n, h)
      PROVE  TypeOK'
  <2>1. h \in Header
    BY DEF TypeOK
  <2>. QED
    BY <1>2, <2>1, ProcessHeaderType DEF ReceiveHeader, TypeOK
<1>3. ASSUME NEW n \in Honest, NEW h \in rx_header_waiter[n],
             LoopbackHeader(n, h)
      PROVE  TypeOK'
  <2>1. h \in Header
    BY DEF TypeOK
  <2>2. rx_header_waiter' \in [Honest -> SUBSET Header]
    BY <1>3 DEF LoopbackHeader, TypeOK
  <2>. QED
    BY <1>3, <2>1, <2>2, ProcessHeaderType DEF LoopbackHeader, TypeOK
<1>4. ASSUME NEW n \in Honest, NEW v \in Authority,
             NEW h \in core[n].own_headers, ReceiveVote(n, v, h)
      PROVE  TypeOK'
  <2>1. h \in Header
    BY DEF TypeOK, CoreState
  <2>. QED
    BY <1>4, <2>1, ReceiveVoteType DEF ReceiveVote, TypeOK
<1>5. ASSUME NEW n \in Honest, NEW h \in certificates \cup StrayGenesis,
             ReceiveCertificate(n, h)
      PROVE  TypeOK'
  <2>1. h \in Header /\ core[n] \in CoreState
    BY StrayGenesisType DEF TypeOK
  <2>. QED
    BY <1>5, <2>1, ProcessCertificateType DEF ReceiveCertificate, TypeOK
<1>6. ASSUME NEW n \in Honest, NEW h \in rx_certificate_waiter[n],
             LoopbackCertificate(n, h)
      PROVE  TypeOK'
  <2>1. h \in Header /\ core[n] \in CoreState
    BY DEF TypeOK
  <2>2. rx_certificate_waiter' \in [Honest -> SUBSET Header]
    BY <1>6 DEF LoopbackCertificate, TypeOK
  <2>. QED
    BY <1>6, <2>1, <2>2, ProcessCertificateType DEF LoopbackCertificate, TypeOK
<1>7. ASSUME NEW n \in Honest, ProposerReceivesSignal(n)
      PROVE  TypeOK'
  <2>1. /\ Head(tx_proposer[n]) \in Signal
        /\ Tail(tx_proposer[n]) \in Seq(Signal)
    BY <1>7 DEF ProposerReceivesSignal, TypeOK
  <2>2. tx_proposer' \in [Honest -> Seq(Signal)]
    BY <1>7, <2>1 DEF ProposerReceivesSignal, TypeOK
  <2>3. proposer' \in [Honest -> Signal]
    BY <1>7, <2>1 DEF ProposerReceivesSignal, TypeOK
  <2>. QED
    BY <1>7, <2>2, <2>3
       DEF ProposerReceivesSignal, TypeOK, network, disk, waiters
<1>8. ASSUME NEW n \in Honest, NEW h \in Header, MakeHeader(n, h)
      PROVE  TypeOK'
  <2>1. proposer' \in [Honest -> Signal]
    BY <1>8 DEF MakeHeader, TypeOK, Signal
  <2>2. rx_proposer' \in [Honest -> Seq(Header)]
    BY <1>8 DEF MakeHeader, TypeOK
  <2>. QED
    BY <1>8, <2>1, <2>2 DEF MakeHeader, TypeOK, network, disk, waiters
<1>9. ASSUME NEW n \in Honest, NEW w \in header_waiter[n],
             HeaderWaiterDelivers(n, w)
      PROVE  TypeOK'
  <2>1. w.header \in Header
    BY DEF TypeOK
  <2>2. header_waiter' \in
         [Honest -> SUBSET [header : Header, awaits : {"parents", "payload"}]]
    BY <1>9 DEF HeaderWaiterDelivers, TypeOK
  <2>3. rx_header_waiter' \in [Honest -> SUBSET Header]
    BY <1>9, <2>1 DEF HeaderWaiterDelivers, TypeOK
  <2>. QED
    BY <1>9, <2>2, <2>3
       DEF HeaderWaiterDelivers, TypeOK, network, disk, proposing
<1>10. ASSUME NEW n \in Honest, HeaderWaiterCleanup(n)
       PROVE  TypeOK'
  <2>1. header_waiter' \in
         [Honest -> SUBSET [header : Header, awaits : {"parents", "payload"}]]
    BY <1>10 DEF HeaderWaiterCleanup, TypeOK
  <2>. QED
    BY <1>10, <2>1 DEF HeaderWaiterCleanup, TypeOK, network, disk, proposing
<1>11. ASSUME NEW n \in Honest, NEW h \in certificate_waiter[n],
              CertificateWaiterDelivers(n, h)
       PROVE  TypeOK'
  <2>1. certificate_waiter' \in [Honest -> SUBSET Header]
    BY <1>11 DEF CertificateWaiterDelivers, TypeOK
  <2>2. rx_certificate_waiter' \in [Honest -> SUBSET Header]
    BY <1>11 DEF CertificateWaiterDelivers, TypeOK
  <2>. QED
    BY <1>11, <2>1, <2>2
       DEF CertificateWaiterDelivers, TypeOK, network, disk, proposing
<1>12. ASSUME NEW n \in Honest, NEW h \in WithPayload, ReceivePayload(n, h)
       PROVE  TypeOK'
  <2>1. payload' \in [Honest -> SUBSET Header]
    BY <1>12, CoreAssumption DEF ReceivePayload, TypeOK
  <2>. QED
    BY <1>12, <2>1
       DEF ReceivePayload, TypeOK, network, disk, waiters, proposing
<1>13. ASSUME NEW n \in Honest, NEW h \in tx_consensus[n],
              AdvanceConsensus(n, h)
       PROVE  TypeOK'
  <2>1. round[h] \in Nat
    BY HeaderAssumption DEF TypeOK
  <2>2. consensus_round' \in [Honest -> Nat]
    BY <1>13, <2>1 DEF AdvanceConsensus, TypeOK
  <2>. QED
    BY <1>13, <2>2
       DEF AdvanceConsensus, TypeOK, network, disk, waiters, proposing
<1>14. ASSUME NEW h \in Header, ByzantineHeader(h)
       PROVE  TypeOK'
  BY <1>14 DEF ByzantineHeader, TypeOK, disk, waiters, proposing
<1>15. ASSUME NEW h \in Header, ByzantineCertificate(h)
       PROVE  TypeOK'
  BY <1>15 DEF ByzantineCertificate, TypeOK, disk, waiters, proposing
<1>16. CASE UNCHANGED vars
  BY <1>16 DEF vars, network, disk, waiters, TypeOK
<1>. QED
  BY <1>1, <1>2, <1>3, <1>4, <1>5, <1>6, <1>7, <1>8, <1>9, <1>10, <1>11,
     <1>12, <1>13, <1>14, <1>15, <1>16, Zenon
     DEF Next, CoreTurn, ProposerTask, WaiterTask, WorkerTask,
         GarbageCollectorTask

(* The state every authority starts in has the declared types.             *)
LEMMA TypeInit == Init => TypeOK
<1>. SUFFICES ASSUME Init PROVE TypeOK
  OBVIOUS
<1>1. NewCore \in CoreState
  BY RoundType DEF NewCore, CoreState, EmptyVotes, EmptyCertificates
<1>2. NewProposer \in Signal
  BY GenesisAssumption DEF NewProposer, Signal
<1>. HIDE DEF Signal, CoreState
<1>. QED
  BY <1>1, <1>2 DEF Init, TypeOK

(* In every behaviour of every committee, every variable keeps the type of *)
(* the field it stands for.                                                *)
THEOREM TypeCorrect == Spec => []TypeOK
<1>. QED
  BY TypeInit, TypeStep, PTL DEF Spec

-----------------------------------------------------------------------------
(* What a step may do.                                                     *)

(* Aggregators of Core state c count only votes of V and Byzantine ones.   *)
AggSound(c, V) ==
    \A h \in Header :
       /\ c.votes_aggregators[h].used
             \subseteq {n \in Honest : <<n, h>> \in V} \cup Byzantine
       /\ c.votes_aggregators[h].weight <= Weight[c.votes_aggregators[h].used]

(* Rounds are collected in order, and a slot voted for is remembered       *)
(* until its round is collected.                                           *)
Remembers ==
    \A m \in Honest :
       /\ core[m].gc_round <= core'[m].gc_round
       /\ \A s \in core[m].last_voted :
             s \in core'[m].last_voted \/ s[1] < core'[m].gc_round

VotesGrow ==
    /\ votes \subseteq votes'
    /\ \A m \in Honest : stored_headers[m] \subseteq stored_headers'[m]

(* A new vote passed the checks of vote_for_header, and is the only one.   *)
CastsVote ==
    \A m \in Honest, h \in Header :
       <<m, h>> \in votes' /\ <<m, h>> \notin votes =>
          /\ Votes(m, h)
          /\ h \in stored_headers'[m]
          /\ slot(h) \in core'[m].last_voted \/ round[h] < core'[m].gc_round
          /\ \A g \in Header : g # h /\ <<m, g>> \in votes' => <<m, g>> \in votes

TurnOK == Remembers /\ VotesGrow /\ CastsVote /\ GcBounded' /\ AggregatorsSound'

Certifies ==
    \/ UNCHANGED certificates
    \/ \E h \in Header : /\ certificates' = certificates \cup {h}
                         /\ HasQuorum(Supporters(h)')

Delivers ==
    \/ UNCHANGED <<store, tx_consensus>>
    \/ \E n \in Honest, h \in Header :
          /\ h \in certificates' \cup StrayGenesis
          /\ MissingParents(n, h) = {}
          /\ store' = [store EXCEPT ![n] = @ \cup {h}]
          /\ tx_consensus' = [tx_consensus EXCEPT ![n] = @ \cup {h}]

WaitsFor ==
    \A m \in Honest :
       certificate_waiter'[m] \subseteq certificate_waiter[m] \cup certificates'

Resumes ==
    \A m \in Honest :
       rx_certificate_waiter'[m]
          \subseteq rx_certificate_waiter[m] \cup certificate_waiter[m]

PayloadGrows == \A m \in Honest : payload[m] \subseteq payload'[m]

StepOK ==
    /\ TurnOK /\ Certifies /\ Delivers /\ WaitsFor /\ Resumes /\ PayloadGrows

-----------------------------------------------------------------------------
(* The parts of a Core state that the handlers leave alone.                *)

(* Collection forgets the votes and the aggregators of the collected       *)
(* rounds, and nothing else of either.                                     *)
LEMMA CollectFields ==
    ASSUME NEW c \in CoreState, NEW r \in Nat
    PROVE  /\ Collect(c, r).gc_round = r
           /\ Collect(c, r).last_voted = {s \in c.last_voted : s[1] >= r}
           /\ \A h \in Header : \/ Collect(c, r).votes_aggregators[h]
                                     = c.votes_aggregators[h]
                                \/ Collect(c, r).votes_aggregators[h] = EmptyVotes
  BY DEF Collect, CoreState

(* process_header leaves the aggregators alone, forgets no vote, and       *)
(* records the one it casts.                                               *)
LEMMA HeaderProcessedFields ==
    ASSUME NEW c \in CoreState, NEW n \in Honest, NEW h \in Header
    PROVE  LET d == HeaderProcessed(c, n, h)
           IN /\ d.votes_aggregators = c.votes_aggregators
              /\ c.last_voted \subseteq d.last_voted
              /\ c.voted_headers = core[n].voted_headers /\ Votes(n, h)
                   => slot(h) \in d.last_voted
<1>1. Votes(n, h) => Accepted(n, h) /\ h \notin core[n].voted_headers
  BY DEF Votes
<1>. QED
  BY <1>1 DEF HeaderProcessed, CoreState

(* An aggregated vote is not a vote of this Core.                          *)
LEMMA AppendVoteFields ==
    ASSUME NEW c \in CoreState, NEW v \in Authority, NEW h \in Header
    PROVE  /\ AppendVote(c, v, h).last_voted = c.last_voted
           /\ AppendVote(c, v, h).voted_headers = c.voted_headers
  BY DEF AppendVote, CoreState

(* process_certificate casts no vote and aggregates none, beyond those of  *)
(* the header it processes first.                                          *)
LEMMA CertificateProcessedFields ==
    ASSUME NEW c \in CoreState, NEW n \in Honest, NEW h \in Header
    PROVE  /\ CertificateProcessed(c, n, h).last_voted = c.last_voted
           /\ CertificateProcessed(c, n, h).votes_aggregators
                = c.votes_aggregators
  BY DEF CertificateProcessed, AppendCertificate, CoreState

-----------------------------------------------------------------------------
(* Aggregators.                                                            *)

(* More votes keep aggregators sound.                                      *)
LEMMA AggSoundMonotone ==
    ASSUME NEW c, NEW V, NEW W, V \subseteq W, AggSound(c, V)
    PROVE  AggSound(c, W)
  BY DEF AggSound

(* Soundness depends on the aggregators of votes alone.                    *)
LEMMA AggSoundSame ==
    ASSUME NEW c, NEW d, NEW V, AggSound(c, V),
           d.votes_aggregators = c.votes_aggregators
    PROVE  AggSound(d, V)
  BY DEF AggSound

(* A vote of V keeps the aggregators sound, and when it completes a        *)
(* certificate the votes of V for its header are a quorum.                 *)
LEMMA AppendVoteSound ==
    ASSUME NEW c \in CoreState, NEW v \in Authority, NEW h \in Header, NEW V,
           AggSound(c, V),
           v \in {n \in Honest : <<n, h>> \in V} \cup Byzantine
    PROVE  /\ AggSound(AppendVote(c, v, h), V)
           /\ Assembles(c, v, h)
                => HasQuorum({n \in Honest : <<n, h>> \in V} \cup Byzantine)
<1>. DEFINE a == c.votes_aggregators[h]
            w == a.weight + Weight[{v}]
            S == {n \in Honest : <<n, h>> \in V} \cup Byzantine
            b == [weight |-> IF w >= quorum_threshold THEN 0 ELSE w,
                  used   |-> a.used \cup {v}]
<1>1. a.weight \in Nat /\ a.used \in SUBSET Authority
  BY DEF CoreState
<1>2. a.used \subseteq S /\ a.weight <= Weight[a.used]
  BY DEF AggSound
<1>3. S \in SUBSET Authority
  BY ByzantineAssumption DEF Honest
<1>4. ASSUME v \notin a.used
      PROVE  /\ w \in Nat
             /\ w <= Weight[a.used \cup {v}]
             /\ Weight[a.used \cup {v}] <= Weight[S]
             /\ Weight[a.used \cup {v}] \in Nat /\ Weight[S] \in Nat
  <2>1. a.used \cap {v} = {} /\ {v} \in SUBSET Authority
    BY <1>4
  <2>2. /\ Weight[a.used \cup {v}] = Weight[a.used] + Weight[{v}]
        /\ Weight[a.used] \in Nat /\ Weight[{v}] \in Nat
    BY <1>1, <2>1, WeightAssumption
  <2>3. a.used \cup {v} \subseteq S
    BY <1>2
  <2>4. /\ Weight[a.used \cup {v}] <= Weight[S]
        /\ Weight[a.used \cup {v}] \in Nat /\ Weight[S] \in Nat
    BY <1>1, <1>3, <2>3, WeightMonotone
  <2>. QED
    BY <1>1, <1>2, <2>2, <2>4
<1>5. Assembles(c, v, h) => HasQuorum(S)
  BY <1>4, Thresholds DEF Assembles, HasQuorum
<1>6. AggSound(AppendVote(c, v, h), V)
  <2>1. CASE v \in a.used
    BY <2>1 DEF AppendVote
  <2>2. CASE v \notin a.used
    <3>1. AppendVote(c, v, h) = [c EXCEPT !.votes_aggregators[h] = b]
      BY <2>2 DEF AppendVote
    <3>2. \A g \in Header : AppendVote(c, v, h).votes_aggregators[g]
                            = IF g = h THEN b ELSE c.votes_aggregators[g]
      BY <3>1 DEF CoreState
    <3>3. b.used \subseteq S /\ b.weight <= Weight[b.used]
      BY <1>2, <1>4, <2>2
    <3>. QED
      BY <3>2, <3>3 DEF AggSound
  <2>. QED
    BY <2>1, <2>2
<1>. QED
  BY <1>5, <1>6

-----------------------------------------------------------------------------
(* Turns of the Core.                                                      *)

(* The round a turn collects up to is at least the one before, and         *)
(* gc_depth behind the round the consensus has reached.                    *)
LEMMA GcRoundGrows ==
    ASSUME TypeOK, GcBounded, NEW n \in Honest
    PROVE  /\ core[n].gc_round <= GcRound(n)
           /\ GcRound(n) = 0 \/ GcRound(n) + gc_depth <= consensus_round[n]
<1>1. core[n].gc_round \in Nat /\ consensus_round[n] \in Nat /\ gc_depth \in Nat
  BY CoreAssumption DEF TypeOK, CoreState
<1>2. core[n].gc_round = 0 \/ core[n].gc_round + gc_depth <= consensus_round[n]
  BY DEF GcBounded
<1>. QED
  BY <1>1, <1>2 DEF GcRound

(* A turn that ends with Core state c, whose votes were cast by            *)
(* process_header.                                                         *)
LEMMA Turn ==
    ASSUME TypeOK, GcBounded, AggregatorsSound,
           NEW n \in Honest, NEW h \in Header, NEW c \in CoreState,
           EndTurn(n, c), UNCHANGED consensus_round,
           core[n].last_voted \subseteq c.last_voted,
           AggSound(c, votes'),
           \/ HeaderEffects(n, h) /\ (Votes(n, h) => slot(h) \in c.last_voted)
           \/ NoHeaderEffects
    PROVE  TurnOK
<1>1. /\ core'[n] = Collect(c, GcRound(n))
      /\ \A m \in Honest \ {n} : core'[m] = core[m]
  BY EndTurnType
<1>2. GcRound(n) \in Nat /\ core[n] \in CoreState
  BY GcRoundType DEF TypeOK
<1>3. /\ core'[n].gc_round = GcRound(n)
      /\ core'[n].last_voted = {s \in c.last_voted : s[1] >= GcRound(n)}
      /\ \A g \in Header : \/ core'[n].votes_aggregators[g]
                                = c.votes_aggregators[g]
                           \/ core'[n].votes_aggregators[g] = EmptyVotes
  BY <1>1, <1>2, CollectFields
<1>4. c.last_voted \subseteq Nat \X Authority
  BY DEF CoreState
<1>5. \A s \in c.last_voted : s \in core'[n].last_voted \/ s[1] < core'[n].gc_round
  BY <1>2, <1>3, <1>4
<1>6. Remembers
  <2>1. core[n].gc_round <= core'[n].gc_round
    BY <1>3, GcRoundGrows
  <2>2. \A m \in Honest : core[m].gc_round \in Nat
    BY DEF TypeOK, CoreState
  <2>. QED
    BY <1>1, <1>5, <2>1, <2>2 DEF Remembers
<1>7. VotesGrow
  BY DEF HeaderEffects, NoHeaderEffects, VotesGrow, TypeOK
<1>8. CastsVote
  <2>1. SUFFICES ASSUME NEW m \in Honest, NEW g \in Header,
                        <<m, g>> \in votes', <<m, g>> \notin votes
                 PROVE  /\ Votes(m, g)
                        /\ g \in stored_headers'[m]
                        /\ \/ slot(g) \in core'[m].last_voted
                           \/ round[g] < core'[m].gc_round
                        /\ \A f \in Header :
                              f # g /\ <<m, f>> \in votes' => <<m, f>> \in votes
    BY DEF CastsVote
  <2>2. HeaderEffects(n, h) /\ Votes(n, h) /\ votes' = votes \cup {<<n, h>>}
    BY <2>1 DEF HeaderEffects, NoHeaderEffects
  <2>3. m = n /\ g = h
    BY <2>1, <2>2
  <2>4. Accepted(n, h)
    BY <2>2 DEF Votes
  <2>5. h \in stored_headers'[n]
    BY <2>2, <2>4 DEF HeaderEffects, TypeOK
  <2>6. slot(h) \in c.last_voted /\ slot(h)[1] = round[h]
    BY <2>2, <2>1 DEF slot, NoHeaderEffects
  <2>. QED
    BY <1>5, <2>2, <2>3, <2>5, <2>6
<1>9. GcBounded'
  <2>1. core'[n].gc_round = 0 \/ core'[n].gc_round + gc_depth <= consensus_round'[n]
    BY <1>3, GcRoundGrows
  <2>. QED
    BY <1>1, <2>1 DEF GcBounded
<1>10. AggregatorsSound'
  <2>1. SUFFICES ASSUME NEW m \in Honest, NEW g \in Header
                 PROVE  /\ core'[m].votes_aggregators[g].used \subseteq Supporters(g)'
                        /\ core'[m].votes_aggregators[g].weight
                              <= Weight[core'[m].votes_aggregators[g].used]
    BY DEF AggregatorsSound
  <2>2. Supporters(g) \subseteq Supporters(g)'
    BY <1>7 DEF VotesGrow, Supporters
  <2>3. CASE m # n
    BY <1>1, <2>2, <2>3 DEF AggregatorsSound
  <2>4. CASE m = n /\ core'[n].votes_aggregators[g] = c.votes_aggregators[g]
    BY <2>4 DEF AggSound, Supporters
  <2>5. CASE m = n /\ core'[n].votes_aggregators[g] = EmptyVotes
    BY <2>5, WeightAssumption DEF EmptyVotes
  <2>. QED
    BY <1>3, <2>3, <2>4, <2>5
<1>. QED
  BY <1>6, <1>7, <1>8, <1>9, <1>10 DEF TurnOK

(* A step that leaves the Cores and the votes alone.                       *)
LEMMA NoTurn ==
    ASSUME TypeOK, GcBounded, AggregatorsSound,
           UNCHANGED <<core, votes, stored_headers>>,
           \A m \in Honest : consensus_round[m] <= consensus_round'[m],
           \A m \in Honest : consensus_round'[m] \in Nat
    PROVE  TurnOK
<1>1. \A m \in Honest : core[m].gc_round \in Nat /\ consensus_round[m] \in Nat
  BY DEF TypeOK, CoreState
<1>2. GcBounded'
  BY <1>1, CoreAssumption DEF GcBounded
<1>3. AggregatorsSound'
  BY DEF AggregatorsSound, Supporters
<1>. QED
  BY <1>1, <1>2, <1>3 DEF TurnOK, Remembers, VotesGrow, CastsVote

(* The invariant on aggregators, for one Core.                             *)
LEMMA CoreSound ==
    ASSUME AggregatorsSound, NEW n \in Honest
    PROVE  AggSound(core[n], votes)
  BY DEF AggregatorsSound, AggSound, Supporters

(* process_header withdraws no vote.                                       *)
LEMMA HeaderEffectsVotes ==
    ASSUME NEW n, NEW h, HeaderEffects(n, h) \/ NoHeaderEffects
    PROVE  votes \subseteq votes'
  BY DEF HeaderEffects, NoHeaderEffects

(* A turn of process_header meets TurnOK.                                  *)
LEMMA ProcessHeaderTurn ==
    ASSUME TypeOK, GcBounded, AggregatorsSound, NEW n \in Honest,
           NEW h \in Header, ProcessHeader(n, h), UNCHANGED consensus_round
    PROVE  TurnOK
<1>. DEFINE c == HeaderProcessed(core[n], n, h)
<1>1. core[n] \in CoreState /\ \A m \in Honest : consensus_round[m] \in Nat
  BY DEF TypeOK
<1>2. CASE UNCHANGED core /\ NoHeaderEffects
  BY <1>1, <1>2, NoTurn DEF NoHeaderEffects
<1>3. CASE HeaderEffects(n, h) /\ EndTurn(n, c)
  <2>1. c \in CoreState
    BY <1>1, HeaderProcessedType
  <2>2. /\ c.votes_aggregators = core[n].votes_aggregators
        /\ core[n].last_voted \subseteq c.last_voted
        /\ Votes(n, h) => slot(h) \in c.last_voted
    BY <1>1, HeaderProcessedFields
  <2>. HIDE DEF c
  <2>3. AggSound(c, votes')
    BY <1>3, <2>2, CoreSound, AggSoundSame, AggSoundMonotone, HeaderEffectsVotes
  <2>. QED
    BY <1>3, <2>1, <2>2, <2>3, Turn
<1>. QED
  BY <1>2, <1>3 DEF ProcessHeader

(* A turn of process_certificate, from a Core state with the votes of the  *)
(* current one, meets TurnOK.                                              *)
LEMMA ProcessCertificateTurn ==
    ASSUME TypeOK, GcBounded, AggregatorsSound, NEW n \in Honest,
           NEW h \in Header, NEW c \in CoreState, ProcessCertificate(c, n, h),
           UNCHANGED consensus_round,
           c.last_voted = core[n].last_voted,
           c.voted_headers = core[n].voted_headers,
           AggSound(c, votes)
    PROVE  TurnOK
<1>. DEFINE fresh == c.processing \cap SameId(h) = {}
            d == IF fresh THEN HeaderProcessed(c, n, h) ELSE c
            e == CertificateProcessed(d, n, h)
<1>1. CASE UNCHANGED core /\ NoHeaderEffects
  <2>1. \A m \in Honest : consensus_round[m] \in Nat
    BY DEF TypeOK
  <2>. QED
    BY <1>1, <2>1, NoTurn DEF NoHeaderEffects
<1>2. d \in CoreState /\ e \in CoreState
  BY HeaderProcessedType, CertificateProcessedType
<1>3. /\ d.votes_aggregators = c.votes_aggregators
      /\ core[n].last_voted \subseteq d.last_voted
      /\ fresh /\ Votes(n, h) => slot(h) \in d.last_voted
  BY HeaderProcessedFields
<1>4. e.last_voted = d.last_voted /\ e.votes_aggregators = d.votes_aggregators
  BY <1>2, CertificateProcessedFields
<1>5. CASE /\ IF fresh THEN HeaderEffects(n, h) ELSE NoHeaderEffects
           /\ EndTurn(n, d) \/ EndTurn(n, e)
  <2>. HIDE DEF d, e
  <2>1. AggSound(d, votes') /\ AggSound(e, votes')
    BY <1>3, <1>4, <1>5, AggSoundSame, AggSoundMonotone, HeaderEffectsVotes
  <2>2. \/ HeaderEffects(n, h) /\ (Votes(n, h) => slot(h) \in d.last_voted)
        \/ NoHeaderEffects
    BY <1>3, <1>5
  <2>3. CASE EndTurn(n, d)
    BY <1>2, <1>3, <2>1, <2>2, <2>3, Turn
  <2>4. CASE EndTurn(n, e)
    BY <1>2, <1>3, <1>4, <2>1, <2>2, <2>4, Turn
  <2>. QED
    BY <1>5, <2>3, <2>4
<1>. QED
  BY <1>1, <1>5 DEF ProcessCertificate

(* A turn of process_vote meets TurnOK, and a certificate it assembles has *)
(* a quorum of voters.                                                     *)
LEMMA ReceiveVoteTurn ==
    ASSUME TypeOK, GcBounded, AggregatorsSound, NEW n \in Honest,
           NEW v \in Authority, NEW h \in Header, ReceiveVote(n, v, h)
    PROVE  TurnOK /\ Certifies
<1>. DEFINE c == AppendVote(core[n], v, h)
<1>1. core[n] \in CoreState
  BY DEF TypeOK
<1>2. c \in CoreState
  BY <1>1, AppendVoteType
<1>3. v \in {m \in Honest : <<m, h>> \in votes} \cup Byzantine
  BY DEF ReceiveVote, Honest
<1>4. /\ AggSound(c, votes)
      /\ Assembles(core[n], v, h) => HasQuorum(Supporters(h))
  BY <1>1, <1>3, CoreSound, AppendVoteSound DEF Supporters
<1>5. c.last_voted = core[n].last_voted /\ c.voted_headers = core[n].voted_headers
  BY <1>1, AppendVoteFields
<1>. HIDE DEF c
<1>6. UNCHANGED consensus_round
  BY DEF ReceiveVote
<1>7. CASE /\ Assembles(core[n], v, h)
           /\ certificates' = certificates \cup {h}
           /\ ProcessCertificate(c, n, h)
  <2>1. TurnOK
    BY <1>2, <1>4, <1>5, <1>6, <1>7, ProcessCertificateTurn
  <2>2. Supporters(h) \subseteq Supporters(h)' /\ Supporters(h)' \in SUBSET Authority
    BY <2>1, ByzantineAssumption DEF TurnOK, VotesGrow, Supporters, Honest
  <2>3. /\ Weight[Supporters(h)] \in Nat /\ Weight[Supporters(h)'] \in Nat
        /\ Weight[Supporters(h)] <= Weight[Supporters(h)']
    <3>1. Supporters(h) \in SUBSET Authority
      BY <2>2
    <3>. QED
      BY <2>2, <3>1, WeightMonotone
  <2>4. Weight[Supporters(h)] >= quorum_threshold
    BY <1>4, <1>7 DEF HasQuorum
  <2>5. HasQuorum(Supporters(h)')
    BY <2>3, <2>4, Thresholds DEF HasQuorum
  <2>. QED
    BY <1>7, <2>1, <2>5 DEF Certifies
<1>8. CASE /\ EndTurn(n, c) /\ NoHeaderEffects
           /\ UNCHANGED <<certificates, panicked>>
  <2>1. AggSound(c, votes')
    BY <1>4, <1>8 DEF NoHeaderEffects
  <2>. QED
    BY <1>2, <1>5, <1>6, <1>8, <2>1, Turn DEF Certifies
<1>. QED
  BY <1>7, <1>8 DEF ReceiveVote, c

(* A turn of process_own_header meets TurnOK, and a certificate it         *)
(* assembles (the author's own vote can complete one) has a quorum of      *)
(* voters.                                                                 *)
LEMMA ProcessOwnHeaderTurn ==
    ASSUME TypeOK, GcBounded, AggregatorsSound, NEW n \in Honest,
           ProcessOwnHeader(n)
    PROVE  TurnOK /\ Certifies
<1>0. PICK h \in Header : h = Head(rx_proposer[n])
  BY ProcessOwnHeaderType
<1>. DEFINE c == [core[n] EXCEPT !.current_round = round[h],
                                 !.own_headers = @ \cup {h}]
            d == HeaderProcessed(c, n, h)
            e == IF Votes(n, h) THEN AppendVote(d, n, h) ELSE d
            f == CertificateProcessed(e, n, h)
            full == Votes(n, h) /\ Assembles(d, n, h)
<1>1. /\ HeaderEffects(n, h)
      /\ IF full
         THEN certificates' = certificates \cup {h} /\ EndTurn(n, f)
         ELSE UNCHANGED certificates /\ EndTurn(n, e)
      /\ UNCHANGED consensus_round
  BY <1>0 DEF ProcessOwnHeader
<1>2. core[n] \in CoreState /\ n \in Authority
  BY DEF TypeOK, Honest
<1>3. /\ c \in CoreState
      /\ c.last_voted = core[n].last_voted
      /\ c.voted_headers = core[n].voted_headers
      /\ c.votes_aggregators = core[n].votes_aggregators
  <2>1. round[h] \in Nat
    BY <1>0, HeaderAssumption
  <2>. QED
    BY <1>0, <1>2, <2>1 DEF CoreState
<1>. HIDE DEF c
<1>4. /\ d \in CoreState
      /\ d.votes_aggregators = core[n].votes_aggregators
      /\ core[n].last_voted \subseteq d.last_voted
      /\ Votes(n, h) => slot(h) \in d.last_voted
  BY <1>0, <1>3, HeaderProcessedType, HeaderProcessedFields
<1>. HIDE DEF d
<1>5. AggSound(d, votes')
  BY <1>1, <1>4, CoreSound, AggSoundSame, AggSoundMonotone, HeaderEffectsVotes
<1>6. /\ e \in CoreState
      /\ e.last_voted = d.last_voted
      /\ AggSound(e, votes')
      /\ full => HasQuorum(Supporters(h)')
  <2>1. CASE ~Votes(n, h)
    BY <1>4, <1>5, <2>1
  <2>2. CASE Votes(n, h)
    <3>1. n \in {m \in Honest : <<m, h>> \in votes'} \cup Byzantine
      BY <1>1, <2>2 DEF HeaderEffects
    <3>2. /\ AggSound(AppendVote(d, n, h), votes')
          /\ Assembles(d, n, h) => HasQuorum(Supporters(h)')
      BY <1>0, <1>2, <1>4, <1>5, <3>1, AppendVoteSound DEF Supporters
    <3>. QED
      BY <1>0, <1>2, <1>4, <2>2, <3>2, AppendVoteType, AppendVoteFields
  <2>. QED
    BY <2>1, <2>2
<1>. HIDE DEF e
<1>7. f \in CoreState /\ f.last_voted = e.last_voted /\ AggSound(f, votes')
  BY <1>0, <1>6, CertificateProcessedType, CertificateProcessedFields, AggSoundSame
<1>. HIDE DEF f
<1>8. TurnOK
  <2>1. CASE EndTurn(n, e)
    BY <1>0, <1>1, <1>4, <1>6, <2>1, Turn
  <2>2. CASE EndTurn(n, f)
    BY <1>0, <1>1, <1>4, <1>6, <1>7, <2>2, Turn
  <2>. QED
    BY <1>1, <2>1, <2>2
<1>9. Certifies
  BY <1>0, <1>1, <1>6 DEF Certifies
<1>. QED
  BY <1>8, <1>9

-----------------------------------------------------------------------------
(* Deliveries.                                                             *)

(* process_certificate sends the consensus only certificates whose parents *)
(* were sent before, and waits for the others; a genesis certificate has   *)
(* none to wait for.                                                       *)
LEMMA CertificateEffectsDeliver ==
    ASSUME TypeOK, NEW c, NEW n \in Honest, NEW h \in Header,
           \/ /\ CertificateEffects(c, n, h)
              /\ h \in certificates' \cup StrayGenesis
           \/ NoCertificateEffects
    PROVE  Delivers /\ WaitsFor
<1>1. CASE NoCertificateEffects
  BY <1>1 DEF NoCertificateEffects, Delivers, WaitsFor
<1>2. CASE /\ CertificateEffects(c, n, h)
           /\ h \in certificates' \cup StrayGenesis
           /\ MissingParents(n, h) = {}
  BY <1>2 DEF CertificateEffects, Delivers, WaitsFor
<1>3. CASE /\ CertificateEffects(c, n, h)
           /\ h \in certificates' \cup StrayGenesis
           /\ MissingParents(n, h) # {}
  <2>1. /\ certificate_waiter' = [certificate_waiter EXCEPT ![n] = @ \cup {h}]
        /\ UNCHANGED <<store, tx_consensus>>
    BY <1>3 DEF CertificateEffects
  <2>2. h \in certificates'
    BY <1>3, StrayGenesisType DEF MissingParents
  <2>. QED
    BY <2>1, <2>2 DEF Delivers, WaitsFor, TypeOK
<1>. QED
  BY <1>1, <1>2, <1>3

(* The same of a whole turn, after the header of the certificate was       *)
(* processed or not.                                                       *)
LEMMA ProcessCertificateDelivers ==
    ASSUME TypeOK, NEW c, NEW n \in Honest, NEW h \in Header,
           ProcessCertificate(c, n, h), h \in certificates' \cup StrayGenesis
    PROVE  Delivers /\ WaitsFor
<1>. DEFINE fresh == c.processing \cap SameId(h) = {}
            d == IF fresh THEN HeaderProcessed(c, n, h) ELSE c
<1>1. CertificateEffects(d, n, h) \/ NoCertificateEffects
  BY DEF ProcessCertificate
<1>. HIDE DEF d
<1>. QED
  BY <1>1, CertificateEffectsDeliver

-----------------------------------------------------------------------------
(* Every action is summarised by StepOK: the one case split over Next that *)
(* the invariant and the implementation share.                             *)
LEMMA StepSummary ==
    ASSUME TypeOK, GcBounded, AggregatorsSound, DeliveriesCertified, [Next]_vars
    PROVE  StepOK
<1>0. \A m \in Honest : consensus_round[m] \in Nat
  BY DEF TypeOK
<1>1. ASSUME NEW n \in Honest, ProcessOwnHeader(n)
      PROVE  StepOK
  <2>. DEFINE h == Head(rx_proposer[n])
  <2>1. h \in Header
    BY <1>1, ProcessOwnHeaderType
  <2>2. \E e : \/ CertificateEffects(e, n, h) /\ h \in certificates'
              \/ NoCertificateEffects
    BY <1>1 DEF ProcessOwnHeader
  <2>. HIDE DEF h
  <2>3. Delivers /\ WaitsFor
    BY <2>1, <2>2, CertificateEffectsDeliver
  <2>. QED
    BY <1>1, <2>3, ProcessOwnHeaderTurn
       DEF ProcessOwnHeader, StepOK, Resumes, PayloadGrows
<1>2. ASSUME NEW n \in Honest, NEW h \in headers, ReceiveHeader(n, h)
      PROVE  StepOK
  <2>1. h \in Header
    BY DEF TypeOK
  <2>2. ProcessHeader(n, h) /\ UNCHANGED <<certificates, payload,
                                  consensus_round, rx_certificate_waiter>>
    BY <1>2 DEF ReceiveHeader
  <2>3. Delivers /\ WaitsFor
    BY <2>1, <2>2, CertificateEffectsDeliver DEF ProcessHeader
  <2>. QED
    BY <2>1, <2>2, <2>3, ProcessHeaderTurn
       DEF StepOK, Certifies, Resumes, PayloadGrows
<1>3. ASSUME NEW n \in Honest, NEW h \in rx_header_waiter[n],
             LoopbackHeader(n, h)
      PROVE  StepOK
  <2>1. h \in Header
    BY DEF TypeOK
  <2>2. ProcessHeader(n, h) /\ UNCHANGED <<certificates, payload,
                                  consensus_round, rx_certificate_waiter>>
    BY <1>3 DEF LoopbackHeader
  <2>3. Delivers /\ WaitsFor
    BY <2>1, <2>2, CertificateEffectsDeliver DEF ProcessHeader
  <2>. QED
    BY <2>1, <2>2, <2>3, ProcessHeaderTurn
       DEF StepOK, Certifies, Resumes, PayloadGrows
<1>4. ASSUME NEW n \in Honest, NEW v \in Authority,
             NEW h \in core[n].own_headers, ReceiveVote(n, v, h)
      PROVE  StepOK
  <2>1. h \in Header
    BY DEF TypeOK, CoreState
  <2>2. TurnOK /\ Certifies
    BY <1>4, <2>1, ReceiveVoteTurn
  <2>3. Delivers /\ WaitsFor
    <3>1. CASE NoCertificateEffects
      BY <2>1, <3>1, CertificateEffectsDeliver
    <3>2. CASE /\ certificates' = certificates \cup {h}
               /\ ProcessCertificate(AppendVote(core[n], v, h), n, h)
      BY <2>1, <3>2, ProcessCertificateDelivers
    <3>. QED
      BY <1>4, <3>1, <3>2 DEF ReceiveVote
  <2>. QED
    BY <1>4, <2>2, <2>3 DEF ReceiveVote, StepOK, Resumes, PayloadGrows
<1>5. ASSUME NEW n \in Honest, NEW h \in certificates \cup StrayGenesis,
             ReceiveCertificate(n, h)
      PROVE  StepOK
  <2>1. h \in Header /\ core[n] \in CoreState /\ AggSound(core[n], votes)
    BY StrayGenesisType, CoreSound DEF TypeOK
  <2>2. ProcessCertificate(core[n], n, h)
        /\ UNCHANGED <<certificates, payload, consensus_round,
                       rx_certificate_waiter>>
    BY <1>5 DEF ReceiveCertificate
  <2>3. TurnOK /\ Delivers /\ WaitsFor
    BY <2>1, <2>2, ProcessCertificateTurn, ProcessCertificateDelivers
  <2>. QED
    BY <2>2, <2>3 DEF StepOK, Certifies, Resumes, PayloadGrows
<1>6. ASSUME NEW n \in Honest, NEW h \in rx_certificate_waiter[n],
             LoopbackCertificate(n, h)
      PROVE  StepOK
  <2>1. h \in Header /\ core[n] \in CoreState /\ AggSound(core[n], votes)
        /\ h \in certificates
    BY CoreSound DEF TypeOK, DeliveriesCertified
  <2>2. ProcessCertificate(core[n], n, h)
        /\ UNCHANGED <<certificates, payload, consensus_round>>
    BY <1>6 DEF LoopbackCertificate
  <2>3. TurnOK /\ Delivers /\ WaitsFor
    BY <2>1, <2>2, ProcessCertificateTurn, ProcessCertificateDelivers
  <2>4. Resumes
    BY <1>6 DEF LoopbackCertificate, Resumes, TypeOK
  <2>. QED
    BY <2>2, <2>3, <2>4 DEF StepOK, Certifies, PayloadGrows
<1>7. ASSUME UNCHANGED <<core, votes, stored_headers, store, tx_consensus,
                         certificates, certificate_waiter>>,
             rx_certificate_waiter' = rx_certificate_waiter,
             payload' = payload,
             consensus_round' = consensus_round
      PROVE  StepOK
  BY <1>0, <1>7, NoTurn
     DEF StepOK, Certifies, Delivers, WaitsFor, Resumes, PayloadGrows
<1>8. ASSUME NEW n \in Honest, NEW h \in certificate_waiter[n],
             CertificateWaiterDelivers(n, h)
      PROVE  StepOK
  <2>1. TurnOK /\ Certifies /\ Delivers /\ PayloadGrows
    BY <1>0, <1>8, NoTurn
       DEF CertificateWaiterDelivers, network, disk, Certifies, Delivers,
           PayloadGrows
  <2>2. WaitsFor /\ Resumes
    BY <1>8 DEF CertificateWaiterDelivers, WaitsFor, Resumes, TypeOK
  <2>. QED
    BY <2>1, <2>2 DEF StepOK
<1>9. ASSUME NEW n \in Honest, NEW h \in WithPayload, ReceivePayload(n, h)
      PROVE  StepOK
  <2>1. TurnOK /\ Certifies /\ Delivers /\ WaitsFor /\ Resumes
    BY <1>0, <1>9, NoTurn
       DEF ReceivePayload, network, disk, waiters, Certifies, Delivers,
           WaitsFor, Resumes
  <2>2. PayloadGrows
    BY <1>9 DEF ReceivePayload, PayloadGrows, TypeOK
  <2>. QED
    BY <2>1, <2>2 DEF StepOK
<1>10. ASSUME NEW n \in Honest, NEW h \in tx_consensus[n],
              AdvanceConsensus(n, h)
       PROVE  StepOK
  <2>1. round[h] \in Nat
    BY HeaderAssumption DEF TypeOK
  <2>2. \A m \in Honest : /\ consensus_round[m] <= consensus_round'[m]
                          /\ consensus_round'[m] \in Nat
    BY <1>0, <1>10, <2>1 DEF AdvanceConsensus, TypeOK
  <2>. QED
    BY <1>10, <2>2, NoTurn
       DEF AdvanceConsensus, network, disk, waiters, StepOK, Certifies,
           Delivers, WaitsFor, Resumes, PayloadGrows
<1>11. ASSUME NEW h \in Header, ByzantineCertificate(h)
       PROVE  StepOK
  <2>1. Certifies
    BY <1>11 DEF ByzantineCertificate, Certifies, Supporters
  <2>. QED
    BY <1>0, <1>11, <2>1, NoTurn
       DEF ByzantineCertificate, disk, waiters, StepOK, Delivers, WaitsFor,
           Resumes, PayloadGrows
<1>12. ASSUME NEW n \in Honest, ProposerTask(n)
       PROVE  StepOK
  BY <1>7, <1>12 DEF ProposerTask, ProposerReceivesSignal, MakeHeader,
     network, disk, waiters
<1>13. ASSUME NEW n \in Honest, NEW w, HeaderWaiterDelivers(n, w)
       PROVE  StepOK
  BY <1>7, <1>13 DEF HeaderWaiterDelivers, network, disk
<1>14. ASSUME NEW n \in Honest, HeaderWaiterCleanup(n)
       PROVE  StepOK
  BY <1>7, <1>14 DEF HeaderWaiterCleanup, network, disk
<1>15. ASSUME NEW h \in Header, ByzantineHeader(h)
       PROVE  StepOK
  BY <1>7, <1>15 DEF ByzantineHeader, disk, waiters
<1>16. CASE UNCHANGED vars
  BY <1>7, <1>16 DEF vars, network, disk, waiters
<1>. QED
  BY <1>1, <1>2, <1>3, <1>4, <1>5, <1>6, <1>8, <1>9, <1>10, <1>11, <1>12,
     <1>13, <1>14, <1>15, <1>16, Zenon
     DEF Next, CoreTurn, WaiterTask, WorkerTask, GarbageCollectorTask

-----------------------------------------------------------------------------
(* The invariant.                                                          *)

(* Inv holds at the start: nothing is voted, certified or delivered.       *)
LEMMA InvInit == Init => Inv
<1>. SUFFICES ASSUME Init PROVE Inv
  OBVIOUS
<1>1. TypeOK
  BY TypeInit
<1>2. \A n \in Honest : /\ core[n].gc_round = 0
                        /\ \A h \in Header :
                              /\ core[n].votes_aggregators[h].used = {}
                              /\ core[n].votes_aggregators[h].weight = 0
  BY DEF Init, NewCore, EmptyVotes
<1>3. AggregatorsSound
  BY <1>2, WeightAssumption DEF AggregatorsSound
<1>4. GcBounded
  BY <1>2 DEF GcBounded
<1>5. VotesRemembered /\ VotesConflictOnlyCollected /\ CertificatesVoted
  BY DEF Init, VotesRemembered, VotesConflictOnlyCollected, CertificatesVoted
<1>6. DeliveriesCertified /\ CausalDelivery
  BY DEF Init, DeliveriesCertified, CausalDelivery
<1>. QED
  BY <1>1, <1>3, <1>4, <1>5, <1>6 DEF Inv

(* A certificate that is stored stays stored.                              *)
LEMMA StoreGrows ==
    ASSUME TypeOK, Delivers
    PROVE  \A m \in Honest : store[m] \subseteq store'[m]
  BY DEF Delivers, TypeOK

(* The second vote for a slot: the first one is remembered, so it is cast  *)
(* only when its round has been collected before.                          *)
LEMMA SecondVote ==
    ASSUME TypeOK, VotesRemembered, NEW n \in Honest, NEW g \in Header,
           NEW h \in Header, <<n, g>> \in votes, Votes(n, h),
           Conflicting(g, h)
    PROVE  round[h] < core[n].gc_round
<1>1. slot(g) = slot(h) /\ round[g] = round[h]
  BY DEF Conflicting, slot
<1>2. slot(h) \notin core[n].last_voted
  BY DEF Votes
<1>. QED
  BY <1>1, <1>2 DEF VotesRemembered

(* Conflict is symmetric and between headers of one round.                 *)
LEMMA ConflictSymmetric ==
    \A g, h \in Header : Conflicting(g, h) => Conflicting(h, g) /\ round[g] = round[h]
  BY DEF Conflicting, slot

(* After a step, an authority has voted for both of two conflicting        *)
(* headers only if their round was collected before it.                    *)
LEMMA ConflictingVotes ==
    ASSUME TypeOK, VotesRemembered, VotesConflictOnlyCollected, CastsVote,
           NEW m \in Honest, NEW g \in Header, NEW h \in Header,
           <<m, g>> \in votes', <<m, h>> \in votes', Conflicting(g, h)
    PROVE  round[h] < core[m].gc_round
<1>1. round[g] = round[h] /\ g # h /\ Conflicting(h, g)
  BY ConflictSymmetric DEF Conflicting
<1>2. CASE <<m, g>> \in votes /\ <<m, h>> \in votes
  BY <1>2 DEF VotesConflictOnlyCollected
<1>3. CASE <<m, h>> \notin votes
  <2>1. Votes(m, h) /\ <<m, g>> \in votes
    BY <1>1, <1>3 DEF CastsVote
  <2>. QED
    BY <2>1, SecondVote
<1>4. CASE <<m, g>> \notin votes
  <2>1. Votes(m, g) /\ <<m, h>> \in votes
    BY <1>1, <1>4 DEF CastsVote
  <2>. QED
    BY <1>1, <2>1, SecondVote
<1>. QED
  BY <1>2, <1>3, <1>4

(* Every step keeps Inv.                                                   *)
LEMMA InvStep ==
    ASSUME Inv, [Next]_vars
    PROVE  Inv' /\ StepOK
<1>. USE DEF Inv
<1>1. TypeOK'
  BY TypeStep
<1>2. StepOK
  BY StepSummary
<1>3. TurnOK /\ Certifies /\ Delivers /\ WaitsFor /\ Resumes /\ PayloadGrows
  BY <1>2 DEF StepOK
<1>. USE DEF TurnOK
<1>4. \A m \in Honest : /\ core[m].gc_round \in Nat /\ core'[m].gc_round \in Nat
                        /\ core[m].gc_round <= core'[m].gc_round
  BY <1>1, <1>3 DEF Remembers, TypeOK, CoreState
<1>5. VotesRemembered'
  <2>1. SUFFICES ASSUME NEW m \in Honest, NEW h \in Header, <<m, h>> \in votes'
                 PROVE  /\ \/ slot(h) \in core'[m].last_voted
                           \/ round[h] < core'[m].gc_round
                        /\ h \in stored_headers'[m]
                        /\ MissingParents(m, h)' = {}
                        /\ ~MissingPayload(m, h)'
    BY DEF VotesRemembered
  <2>2. CASE <<m, h>> \in votes
    <3>1. /\ slot(h) \in core[m].last_voted \/ round[h] < core[m].gc_round
          /\ h \in stored_headers[m]
          /\ MissingParents(m, h) = {}
          /\ ~MissingPayload(m, h)
      BY <2>2 DEF VotesRemembered
    <3>2. slot(h)[1] = round[h] /\ round[h] \in Nat
      BY HeaderAssumption DEF slot
    <3>3. slot(h) \in core'[m].last_voted \/ round[h] < core'[m].gc_round
      BY <1>3, <1>4, <3>1, <3>2 DEF Remembers
    <3>4. h \in stored_headers'[m]
      BY <1>3, <3>1 DEF VotesGrow
    <3>5. MissingParents(m, h)' = {}
      BY <1>3, <3>1, StoreGrows DEF MissingParents
    <3>6. ~MissingPayload(m, h)'
      BY <1>3, <3>1 DEF PayloadGrows, MissingPayload
    <3>. QED
      BY <3>3, <3>4, <3>5, <3>6
  <2>3. CASE <<m, h>> \notin votes
    <3>1. /\ Votes(m, h)
          /\ h \in stored_headers'[m]
          /\ slot(h) \in core'[m].last_voted \/ round[h] < core'[m].gc_round
      BY <1>3, <2>1, <2>3 DEF CastsVote
    <3>2. MissingParents(m, h) = {} /\ ~MissingPayload(m, h)
      BY <3>1 DEF Votes, Accepted
    <3>3. MissingParents(m, h)' = {}
      BY <1>3, <3>2, StoreGrows DEF MissingParents
    <3>4. ~MissingPayload(m, h)'
      BY <1>3, <3>2 DEF PayloadGrows, MissingPayload
    <3>. QED
      BY <3>1, <3>3, <3>4
  <2>. QED
    BY <2>2, <2>3
<1>6. VotesConflictOnlyCollected'
  <2>1. SUFFICES ASSUME NEW m \in Honest, NEW g \in Header, NEW h \in Header,
                        <<m, g>> \in votes', <<m, h>> \in votes',
                        Conflicting(g, h)
                 PROVE  round[h] < core'[m].gc_round
    BY DEF VotesConflictOnlyCollected, Conflicting, slot
  <2>2. round[h] \in Nat /\ round[g] = round[h] /\ g # h /\ Conflicting(h, g)
    BY <2>1, HeaderAssumption, ConflictSymmetric DEF Conflicting
  <2>3. round[h] < core[m].gc_round
    BY <1>3, <2>1, ConflictingVotes
  <2>. QED
    BY <1>4, <2>2, <2>3
<1>7. CertificatesVoted'
  <2>1. SUFFICES ASSUME NEW h \in certificates'
                 PROVE  HasQuorum(Supporters(h)')
    BY DEF CertificatesVoted
  <2>2. CASE h \in certificates
    <3>1. /\ Supporters(h) \subseteq Supporters(h)'
          /\ Supporters(h)' \in SUBSET Authority
          /\ Supporters(h) \in SUBSET Authority
      BY <1>3, ByzantineAssumption DEF VotesGrow, Supporters, Honest
    <3>2. /\ Weight[Supporters(h)] <= Weight[Supporters(h)']
          /\ Weight[Supporters(h)] \in Nat /\ Weight[Supporters(h)'] \in Nat
      BY <3>1, WeightMonotone
    <3>3. Weight[Supporters(h)] >= quorum_threshold
      BY <2>2 DEF CertificatesVoted, HasQuorum
    <3>. QED
      BY <3>2, <3>3, Thresholds DEF HasQuorum
  <2>3. CASE h \notin certificates
    BY <1>3, <2>3 DEF Certifies
  <2>. QED
    BY <2>2, <2>3
<1>8. certificates \subseteq certificates'
  BY <1>3 DEF Certifies
<1>9. DeliveriesCertified'
  <2>1. \A m \in Honest : /\ store'[m] = tx_consensus'[m]
                          /\ tx_consensus'[m] \subseteq certificates' \cup StrayGenesis
    <3>1. CASE UNCHANGED <<store, tx_consensus>>
      BY <1>8, <3>1 DEF DeliveriesCertified
    <3>2. ASSUME NEW n \in Honest,
                 NEW h \in certificates' \cup StrayGenesis,
                 store' = [store EXCEPT ![n] = @ \cup {h}],
                 tx_consensus' = [tx_consensus EXCEPT ![n] = @ \cup {h}],
                 NEW m \in Honest
          PROVE  /\ store'[m] = tx_consensus'[m]
                 /\ tx_consensus'[m] \subseteq certificates' \cup StrayGenesis
      <4>1. /\ store'[m] = IF m = n THEN store[m] \cup {h} ELSE store[m]
            /\ tx_consensus'[m] = IF m = n THEN tx_consensus[m] \cup {h}
                                            ELSE tx_consensus[m]
        BY <3>2 DEF TypeOK
      <4>. QED
        BY <1>8, <4>1 DEF DeliveriesCertified
    <3>. QED
      BY <1>3, <3>1, <3>2 DEF Delivers
  <2>2. \A m \in Honest : /\ certificate_waiter'[m] \subseteq certificates'
                          /\ rx_certificate_waiter'[m] \subseteq certificates'
    BY <1>3, <1>8 DEF WaitsFor, Resumes, DeliveriesCertified
  <2>. QED
    BY <2>1, <2>2 DEF DeliveriesCertified
<1>10. CausalDelivery'
  <2>1. CASE UNCHANGED <<store, tx_consensus>>
    BY <2>1 DEF CausalDelivery
  <2>2. ASSUME NEW n \in Honest, NEW h \in Header,
               MissingParents(n, h) = {},
               tx_consensus' = [tx_consensus EXCEPT ![n] = @ \cup {h}]
        PROVE  CausalDelivery'
    <3>1. parents[h] \subseteq tx_consensus[n] \cup Genesis
      BY <2>2 DEF MissingParents, DeliveriesCertified
    <3>2. \A m \in Honest : tx_consensus'[m]
             = IF m = n THEN tx_consensus[n] \cup {h} ELSE tx_consensus[m]
      BY <2>2 DEF TypeOK
    <3>. QED
      BY <3>1, <3>2 DEF CausalDelivery
  <2>. QED
    BY <1>3, <2>1, <2>2 DEF Delivers
<1>. QED
  BY <1>1, <1>2, <1>3, <1>5, <1>6, <1>7, <1>9, <1>10

(* Inv holds in every behaviour of every committee.                        *)
THEOREM Invariance == Spec => []Inv
<1>1. Inv /\ [Next]_vars => Inv'
  BY InvStep
<1>. QED
  BY <1>1, InvInit, PTL DEF Spec

-----------------------------------------------------------------------------
(* What follows from the invariant.                                        *)

(* Two certificates of one slot share an honest voter.                     *)
LEMMA ConflictCollected ==
    ASSUME TypeOK, VotesConflictOnlyCollected,
           NEW g \in Header, NEW h \in Header, Conflicting(g, h),
           HasQuorum(Supporters(g)), HasQuorum(Supporters(h))
    PROVE  \E n \in Honest : core[n].gc_round > round[h]
<1>1. Supporters(g) \in SUBSET Authority /\ Supporters(h) \in SUBSET Authority
  BY ByzantineAssumption DEF Supporters, Honest
<1>2. PICK n \in Honest : n \in Supporters(g) /\ n \in Supporters(h)
  BY <1>1, QuorumIntersection
<1>3. <<n, g>> \in votes /\ <<n, h>> \in votes
  BY <1>2 DEF Supporters, Honest
<1>4. round[h] < core[n].gc_round
  BY <1>3 DEF VotesConflictOnlyCollected
<1>5. core[n].gc_round \in Nat /\ round[h] \in Nat
  BY HeaderAssumption DEF TypeOK, CoreState
<1>. QED
  BY <1>4, <1>5

(* Certificates of one author and round conflict only once the round has   *)
(* been garbage collected by an honest authority: quorums intersect in an  *)
(* honest authority, which remembers its vote until then.                  *)
THEOREM CertificateUniqueness == Spec => []OneCertificatePerSlot
<1>1. Inv => OneCertificatePerSlot
  <2>1. SUFFICES ASSUME Inv, NEW g \in certificates, NEW h \in certificates,
                        Conflicting(g, h)
                 PROVE  \E n \in Honest : core[n].gc_round > round[h]
    BY DEF OneCertificatePerSlot
  <2>2. g \in Header /\ h \in Header
    BY <2>1 DEF Inv, TypeOK
  <2>. QED
    BY <2>1, <2>2, ConflictCollected DEF Inv, CertificatesVoted
<1>. QED
  BY <1>1, Invariance, PTL

(* The consensus of an honest authority is sent a certificate only after   *)
(* all of its ancestors, whatever order certificates arrive in.            *)
THEOREM CausalDeliveryHolds == Spec => []CausalDelivery
<1>1. Inv => CausalDelivery
  BY DEF Inv
<1>. QED
  BY <1>1, Invariance, PTL

(* Honest authorities with the validity threshold of stake hold the        *)
(* header, the batches and the parents of every certificate.               *)
THEOREM DataAvailability == Spec => []CertifiedDataAvailable
<1>1. Inv => CertifiedDataAvailable
  <2>1. SUFFICES ASSUME Inv, NEW h \in certificates
                 PROVE  HasValidity({n \in Honest : /\ h \in stored_headers[n]
                                                    /\ MissingParents(n, h) = {}
                                                    /\ ~MissingPayload(n, h)})
    BY DEF CertifiedDataAvailable
  <2>. DEFINE S == Supporters(h) \cap Honest
              T == {n \in Honest : /\ h \in stored_headers[n]
                                   /\ MissingParents(n, h) = {}
                                   /\ ~MissingPayload(n, h)}
  <2>2. h \in Header /\ HasQuorum(Supporters(h))
    BY <2>1 DEF Inv, TypeOK, CertificatesVoted
  <2>3. Supporters(h) \in SUBSET Authority /\ T \in SUBSET Authority
    BY ByzantineAssumption DEF Supporters, Honest
  <2>4. HasValidity(S)
    BY <2>2, <2>3, QuorumHasHonestValidity
  <2>5. S \subseteq T
    BY <2>1, <2>2 DEF Inv, VotesRemembered, Supporters, Honest
  <2>6. Weight[S] <= Weight[T] /\ Weight[S] \in Nat /\ Weight[T] \in Nat
    BY <2>3, <2>5, WeightMonotone
  <2>7. HasValidity(T)
    BY <2>4, <2>6, Thresholds DEF HasValidity
  <2>. QED
    BY <2>7
<1>. QED
  BY <1>1, Invariance, PTL

-----------------------------------------------------------------------------
(* The implementation of CertifiedDag.                                     *)

(* The initial states are initial states of CertifiedDag.                  *)
LEMMA AbstractInit == Init => Abstract!Init
<1>. SUFFICES ASSUME Init PROVE Abstract!Init
  OBVIOUS
<1>1. \A n \in Honest : core[n].gc_round = 0
  BY DEF Init, NewCore
<1>2. collected = {}
  <2>1. \A r \in Round, n \in Honest : ~(core[n].gc_round > r)
    BY <1>1, HeaderAssumption DEF Round
  <2>. QED
    BY <2>1, Zenon DEF collected
<1>. QED
  BY <1>2 DEF Init, Abstract!Init, Abstract!Honest, Honest

(* A new certificate conflicts with an older one only in a round that an   *)
(* honest authority had collected before.                                  *)
LEMMA NewConflict ==
    ASSUME Inv, Inv', StepOK, NEW g \in certificates, NEW h \in certificates',
           h \notin certificates, Conflicting(g, h)
    PROVE  round[h] \in collected
<1>1. g \in Header /\ h \in Header /\ g \in certificates'
  BY DEF Inv, TypeOK, StepOK, Certifies
<1>2. HasQuorum(Supporters(g)') /\ HasQuorum(Supporters(h)')
  BY <1>1 DEF Inv, CertificatesVoted
<1>3. /\ Supporters(g)' \in SUBSET Authority
      /\ Supporters(h)' \in SUBSET Authority
  BY ByzantineAssumption DEF Supporters, Honest
<1>4. PICK m \in Honest : m \in Supporters(g)' /\ m \in Supporters(h)'
  BY <1>2, <1>3, QuorumIntersection
<1>5. <<m, g>> \in votes' /\ <<m, h>> \in votes'
  BY <1>4 DEF Supporters, Honest
<1>6. round[h] < core[m].gc_round
  BY <1>1, <1>5, ConflictingVotes DEF Inv, StepOK, TurnOK
<1>7. core[m].gc_round \in Nat /\ round[h] \in Nat /\ round[h] \in Round
  BY <1>1, RoundType DEF Inv, TypeOK, CoreState
<1>. QED
  BY <1>6, <1>7 DEF collected

(* Every step is a step of CertifiedDag or leaves its variables alone.     *)
LEMMA AbstractStep ==
    ASSUME Inv, Inv', StepOK
    PROVE  Abstract!Next
<1>1. UNCHANGED certificates \/ \E h \in Header : Abstract!Certify(h)
  <2>1. SUFFICES ASSUME NEW h \in Header, h \notin certificates,
                        certificates' = certificates \cup {h}
                 PROVE  Abstract!Certify(h)
    BY DEF StepOK, Certifies
  <2>2. \A g \in certificates : Conflicting(g, h) => round[h] \in collected
    BY <2>1, NewConflict
  <2>. QED
    BY <2>1, <2>2 DEF Abstract!Certify, Abstract!Conflicting, Abstract!slot,
                      Conflicting, slot
<1>2. UNCHANGED tx_consensus
      \/ \E n \in Honest, h \in Header : Abstract!Deliver(n, h)
  <2>1. SUFFICES ASSUME NEW n \in Honest, NEW h \in Header,
                        h \in certificates' \cup Genesis,
                        MissingParents(n, h) = {},
                        tx_consensus' = [tx_consensus EXCEPT ![n] = @ \cup {h}]
                 PROVE  Abstract!Deliver(n, h)
    BY CoreAssumption DEF StepOK, Delivers
  <2>2. parents[h] \subseteq tx_consensus[n] \cup Genesis
    BY <2>1 DEF MissingParents, Inv, DeliveriesCertified
  <2>. QED
    BY <2>1, <2>2 DEF Abstract!Deliver
<1>3. collected \subseteq collected'
  <2>1. \A m \in Honest : /\ core[m].gc_round \in Nat /\ core'[m].gc_round \in Nat
                          /\ core[m].gc_round <= core'[m].gc_round
    BY DEF Inv, TypeOK, CoreState, StepOK, TurnOK, Remembers
  <2>2. ASSUME NEW r \in Round, NEW m \in Honest, core[m].gc_round > r
        PROVE  core'[m].gc_round > r
    BY <2>1, <2>2, RoundType
  <2>. QED
    BY <2>2 DEF collected, Round
<1>. QED
  BY <1>1, <1>2, <1>3 DEF Abstract!Next, Abstract!Honest, Honest

(* The primaries implement the certified DAG: every step of theirs is one  *)
(* of CertifiedDag, or changes nothing it can see.                         *)
THEOREM Implementation == Spec => ImplementsCertifiedDag
<1>1. Inv /\ [Next]_vars => Abstract!Next
  <2>1. Inv /\ [Next]_vars => Inv' /\ StepOK
    BY InvStep
  <2>. QED
    BY <2>1, AbstractStep
<1>. QED
  BY <1>1, AbstractInit, Invariance, PTL
     DEF Spec, ImplementsCertifiedDag, Abstract!Spec

-----------------------------------------------------------------------------
(* Core and proposer.                                                      *)

(* The certificates of a round that an aggregator of Core state c holds    *)
(* are in the store S, and their authors carry its weight.                 *)
CertAggSound(c, S) ==
    \A q \in Round :
       LET a == c.certificates_aggregators[q]
       IN /\ a.certificates \subseteq S
          /\ \A p \in a.certificates : round[p] = q
          /\ Authors(a.certificates) \subseteq a.used
          /\ a.weight <= Weight[Authors(a.certificates)]

(* Signal s is of use to the proposer: its parents are a quorum of the     *)
(* round before, all in the store S.                                       *)
Proposable(s, S) ==
    /\ s.round > 0
    /\ \A p \in s.parents : round[p] + 1 = s.round
    /\ HasQuorum(Authors(s.parents))
    /\ s.parents \subseteq S \cup Genesis

(* The signals a Core with the store S may send.                           *)
ValidSignals(S) == {s \in Signal : Proposable(s, S)}

(* The headers authority n may propose: nobody will reject them.           *)
Acceptable(n) ==
    {h \in Header : /\ author[h] = n
                    /\ round[h] > 0
                    /\ ValidParents(h)
                    /\ MissingParents(n, h) = {}}

(* Whatever is on its way between Core and proposer is of use at its other *)
(* end: signals are proposable, made headers acceptable.                   *)
SignalsValid ==
    \A n \in Honest :
       /\ CertAggSound(core[n], store[n])
       /\ proposer[n].parents # {} => Proposable(proposer[n], store[n])
       /\ tx_proposer[n] \in Seq(ValidSignals(store[n]))
       /\ rx_proposer[n] \in Seq(Acceptable(n))

(* The Core of n knows the headers n made until their round is collected.  *)
OwnHeadersKept ==
    \A n \in Honest :
       /\ core[n].own_headers \subseteq {h \in headers : author[h] = n}
       /\ \A h \in headers : author[h] = n =>
             /\ h \in Acceptable(n)
             /\ h \in core[n].own_headers \/ round[h] < core[n].gc_round

(* Only a header its author broadcast is certified, if the author is       *)
(* honest.                                                                 *)
HonestCertified ==
    \A h \in certificates : author[h] \in Honest => h \in headers

(* Only the headers and certificates of others are ever suspended.         *)
OthersWait ==
    \A n \in Honest :
       /\ \A w \in header_waiter[n] : author[w.header] # n
       /\ \A h \in rx_header_waiter[n] \cup certificate_waiter[n]
                     \cup rx_certificate_waiter[n] : author[h] # n

(* The inductive invariant behind NoPanic and ProposalsValid.              *)
ProposalInv ==
    /\ SignalsValid
    /\ OwnHeadersKept
    /\ HonestCertified
    /\ OthersWait
    /\ NoPanic

-----------------------------------------------------------------------------
(* The stores grow, the aggregators stay sound, and every signal on its    *)
(* way is still a valid one.                                               *)
SignalsStep ==
    \A m \in Honest :
       /\ store[m] \subseteq store'[m]
       /\ CertAggSound(core'[m], store'[m])
       /\ tx_proposer'[m] \in Seq(ValidSignals(store'[m]))

(* The proposer has taken a proposable signal, or none; the headers it     *)
(* made are acceptable.                                                    *)
ProposerStep ==
    \A m \in Honest :
       /\ proposer'[m].parents # {} => Proposable(proposer'[m], store[m])
       /\ rx_proposer'[m] \in Seq(Acceptable(m))

(* Only a header that was broadcast becomes an own header, and only        *)
(* collection removes one.                                                 *)
OwnStep ==
    \A m \in Honest :
       /\ core[m].gc_round <= core'[m].gc_round
       /\ core'[m].own_headers
             \subseteq core[m].own_headers \cup {g \in headers' : author[g] = m}
       /\ \A g \in core[m].own_headers :
             g \in core'[m].own_headers \/ round[g] < core'[m].gc_round

(* New headers of honest authors are acceptable and known to their Core; a *)
(* new certificate of an honest author is for one of its headers.          *)
HeadersStep ==
    /\ headers \subseteq headers'
    /\ \A m \in Honest : \A g \in headers' : author[g] = m =>
          \/ g \in headers
          \/ /\ g \in Acceptable(m)
             /\ g \in core'[m].own_headers \/ round[g] < core'[m].gc_round
    /\ \A g \in certificates' :
          author[g] \in Honest => g \in certificates \/ g \in headers'

(* Only headers and certificates of others join the waiters, and only what *)
(* waited returns.                                                         *)
WaitStep ==
    \A m \in Honest :
       /\ \A w \in header_waiter'[m] : w \in header_waiter[m] \/ author[w.header] # m
       /\ \A g \in rx_header_waiter'[m] :
             \/ g \in rx_header_waiter[m]
             \/ \E w \in header_waiter[m] : g = w.header
       /\ \A g \in certificate_waiter'[m] :
             g \in certificate_waiter[m] \/ author[g] # m
       /\ \A g \in rx_certificate_waiter'[m] :
             g \in rx_certificate_waiter[m] \/ g \in certificate_waiter[m]

(* Nobody panics but who is sent its own genesis certificate.              *)
MayPanic == panicked' \subseteq panicked \cup Authors(StrayGenesis)

(* What every step does to the part of the state ProposalInv is about.     *)
ProposalStep ==
    /\ SignalsStep /\ ProposerStep /\ OwnStep /\ HeadersStep /\ WaitStep
    /\ MayPanic

-----------------------------------------------------------------------------
(* A header stays acceptable as the store grows.                           *)
LEMMA AcceptableGrows ==
    ASSUME NEW m \in Honest, store[m] \subseteq store'[m]
    PROVE  Acceptable(m) \subseteq Acceptable(m)'
  BY DEF Acceptable, MissingParents

(* A signal stays proposable as the store grows.                           *)
LEMMA ProposableGrows ==
    ASSUME NEW s, NEW S, NEW T, S \subseteq T, Proposable(s, S)
    PROVE  Proposable(s, T)
  BY DEF Proposable

(* The same for the set of valid signals.                                  *)
LEMMA ValidSignalsGrow ==
    ASSUME NEW S, NEW T, S \subseteq T
    PROVE  ValidSignals(S) \subseteq ValidSignals(T)
  BY ProposableGrows DEF ValidSignals

(* A sequence over A is one over a larger set.                             *)
LEMMA SeqGrows ==
    ASSUME NEW A, NEW B, A \subseteq B, NEW s \in Seq(A)
    PROVE  s \in Seq(B)
  OBVIOUS

(* Head and tail of a sequence over A.                                     *)
LEMMA HeadAndTail ==
    ASSUME NEW A, NEW s \in Seq(A), s # <<>>
    PROVE  Head(s) \in A /\ Tail(s) \in Seq(A)
  OBVIOUS

(* Steps of that kind preserve the invariant.                              *)
LEMMA ProposalPreserved ==
    ASSUME TypeOK, ProposalInv, ProposalStep, TypeOK'
    PROVE  ProposalInv'
<1>. USE DEF ProposalInv, ProposalStep
<1>1. SignalsValid'
  <2>1. SUFFICES ASSUME NEW m \in Honest
                 PROVE  /\ CertAggSound(core'[m], store'[m])
                        /\ proposer'[m].parents # {} =>
                              Proposable(proposer'[m], store'[m])
                        /\ tx_proposer'[m] \in Seq(ValidSignals(store'[m]))
                        /\ rx_proposer'[m] \in Seq(Acceptable(m)')
    BY DEF SignalsValid, CertAggSound, Proposable, ValidSignals
  <2>2. store[m] \subseteq store'[m]
    BY DEF SignalsStep
  <2>3. rx_proposer'[m] \in Seq(Acceptable(m)')
    BY <2>2, AcceptableGrows, SeqGrows DEF ProposerStep
  <2>. QED
    BY <2>2, <2>3, ProposableGrows DEF SignalsStep, ProposerStep
<1>2. OwnHeadersKept'
  <2>1. SUFFICES ASSUME NEW m \in Honest
                 PROVE  /\ core'[m].own_headers \subseteq {h \in headers' : author[h] = m}
                        /\ \A h \in headers' : author[h] = m =>
                             /\ h \in Acceptable(m)'
                             /\ \/ h \in core'[m].own_headers
                                \/ round[h] < core'[m].gc_round
    BY DEF OwnHeadersKept
  <2>2. core'[m].own_headers \subseteq {h \in headers' : author[h] = m}
    BY DEF OwnStep, HeadersStep, OwnHeadersKept
  <2>3. ASSUME NEW h \in headers', author[h] = m
        PROVE  /\ h \in Acceptable(m)'
               /\ h \in core'[m].own_headers \/ round[h] < core'[m].gc_round
    <3>1. Acceptable(m) \subseteq Acceptable(m)'
      BY AcceptableGrows DEF SignalsStep
    <3>2. CASE h \in headers
      <4>1. h \in Acceptable(m)
        BY <2>3, <3>2 DEF OwnHeadersKept
      <4>2. h \in core[m].own_headers \/ round[h] < core[m].gc_round
        BY <2>3, <3>2 DEF OwnHeadersKept
      <4>3. /\ core[m].gc_round \in Nat /\ core'[m].gc_round \in Nat
            /\ round[h] \in Nat /\ core[m].gc_round <= core'[m].gc_round
        BY <3>2, HeaderAssumption DEF TypeOK, CoreState, OwnStep
      <4>. QED
        BY <3>1, <4>1, <4>2, <4>3 DEF OwnStep
    <3>3. CASE h \notin headers
      BY <2>3, <3>1, <3>3 DEF HeadersStep
    <3>. QED
      BY <3>2, <3>3
  <2>. QED
    BY <2>2, <2>3
<1>3. HonestCertified'
  BY DEF HonestCertified, HeadersStep
<1>4. OthersWait'
  BY DEF OthersWait, WaitStep
<1>5. NoPanic'
  BY DEF NoPanic, MayPanic
<1>. QED
  BY <1>1, <1>2, <1>3, <1>4, <1>5

-----------------------------------------------------------------------------
(* The genesis is a quorum of parents: it has a certificate of every       *)
(* authority (Certificate::genesis).                                       *)
LEMMA GenesisQuorum == HasQuorum(Authors(Genesis))
<1>1. total_votes \in Nat /\ Weight[Byzantine] \in Nat
  BY WeightAssumption, ByzantineAssumption DEF total_votes
<1>2. total_votes >= 1
  BY <1>1, FaultAssumption DEF validity_threshold
<1>3. total_votes >= quorum_threshold
  BY <1>1, <1>2 DEF quorum_threshold
<1>. QED
  BY <1>3, GenesisComplete DEF HasQuorum, total_votes

(* Authors of headers are authorities.                                     *)
LEMMA AuthorsType ==
    ASSUME NEW S \in SUBSET Header
    PROVE  Authors(S) \in SUBSET Authority
  BY HeaderAssumption DEF Authors

(* CertificatesAggregator::append keeps the aggregators sound, and what it *)
(* signals is proposable once the certificate is stored.                   *)
LEMMA AppendCertificateSound ==
    ASSUME NEW c \in CoreState, NEW h \in Header, NEW S \in SUBSET Header,
           CertAggSound(c, S)
    PROVE  /\ CertAggSound(AppendCertificate(c, h), S \cup {h})
           /\ Signals(c, h) \in Seq(ValidSignals(S \cup {h}))
<1>. DEFINE a == c.certificates_aggregators[round[h]]
            w == a.weight + Weight[{author[h]}]
            full == w >= quorum_threshold
            C == a.certificates \cup {h}
            b == [weight |-> IF full THEN 0 ELSE w,
                  used   |-> a.used \cup {author[h]},
                  certificates |-> IF full THEN {} ELSE C]
            s == [round |-> round[h] + 1, parents |-> C]
<1>1. round[h] \in Round /\ round[h] \in Nat /\ author[h] \in Authority
  BY RoundType, HeaderAssumption
<1>2. a.weight \in Nat /\ a.used \in SUBSET Authority /\ a.certificates \in SUBSET Header
  BY <1>1 DEF CoreState
<1>3. /\ a.certificates \subseteq S
      /\ \A p \in a.certificates : round[p] = round[h]
      /\ Authors(a.certificates) \subseteq a.used
      /\ a.weight <= Weight[Authors(a.certificates)]
  BY <1>1 DEF CertAggSound
<1>4. Authors(C) = Authors(a.certificates) \cup {author[h]}
  BY DEF Authors
<1>5. author[h] \notin a.used => w <= Weight[Authors(C)] /\ w \in Nat
  <2>1. /\ Authors(a.certificates) \in SUBSET Authority
        /\ {author[h]} \in SUBSET Authority
    BY <1>1, <1>2, AuthorsType
  <2>2. author[h] \notin a.used => Authors(a.certificates) \cap {author[h]} = {}
    BY <1>3
  <2>3. /\ Weight[Authors(a.certificates)] \in Nat /\ Weight[{author[h]}] \in Nat
    BY <2>1, WeightAssumption
  <2>4. author[h] \notin a.used =>
           Weight[Authors(C)] = Weight[Authors(a.certificates)] + Weight[{author[h]}]
    BY <1>4, <2>1, <2>2, WeightAssumption
  <2>. QED
    BY <1>2, <1>3, <2>3, <2>4
<1>6. CertAggSound(AppendCertificate(c, h), S \cup {h})
  <2>1. CASE author[h] \in a.used
    BY <2>1 DEF AppendCertificate, CertAggSound
  <2>2. CASE author[h] \notin a.used
    <3>1. AppendCertificate(c, h) = [c EXCEPT !.certificates_aggregators[round[h]] = b]
      BY <2>2 DEF AppendCertificate
    <3>2. \A q \in Round : AppendCertificate(c, h).certificates_aggregators[q]
                           = IF q = round[h] THEN b ELSE c.certificates_aggregators[q]
      BY <1>1, <3>1 DEF CoreState
    <3>3. /\ b.certificates \subseteq S \cup {h}
          /\ \A p \in b.certificates : round[p] = round[h]
          /\ Authors(b.certificates) \subseteq b.used
          /\ b.weight <= Weight[Authors(b.certificates)]
      <4>1. CASE full
        <5>1. Authors({}) = {} /\ b.certificates = {} /\ b.weight = 0
          BY <4>1 DEF Authors
        <5>. HIDE DEF b
        <5>2. Authors(b.certificates) = {} /\ b.weight <= Weight[{}]
          BY <5>1, WeightAssumption
        <5>. QED
          BY <5>1, <5>2
      <4>2. CASE ~full
        BY <1>3, <1>4, <1>5, <2>2, <4>2
      <4>. QED
        BY <4>1, <4>2
    <3>. QED
      <4>. HIDE DEF b
      <4>. QED
        BY <3>2, <3>3 DEF CertAggSound
  <2>. QED
    BY <2>1, <2>2
<1>7. author[h] \notin a.used /\ full => s \in ValidSignals(S \cup {h})
  <2>. SUFFICES ASSUME author[h] \notin a.used, full PROVE s \in ValidSignals(S \cup {h})
    OBVIOUS
  <2>1. C \in SUBSET Header
    BY <1>2
  <2>2. s \in Signal
    BY <1>1, <2>1 DEF Signal
  <2>3. HasQuorum(Authors(C))
    <3>1. Weight[Authors(C)] \in Nat
      BY <2>1, AuthorsType, WeightAssumption
    <3>. QED
      BY <1>5, <3>1, Thresholds DEF HasQuorum
  <2>4. Proposable(s, S \cup {h})
    <3>1. s.round = round[h] + 1 /\ s.parents = C
      OBVIOUS
    <3>2. C \subseteq S \cup {h} /\ \A p \in C : round[p] = round[h]
      BY <1>3
    <3>. QED
      BY <1>1, <2>3, <3>1, <3>2 DEF Proposable
  <2>. QED
    BY <2>2, <2>4 DEF ValidSignals
<1>8. Signals(c, h) = IF author[h] \notin a.used /\ full THEN <<s>> ELSE <<>>
  BY DEF Signals
<1>9. Signals(c, h) \in Seq(ValidSignals(S \cup {h}))
  <2>. HIDE DEF s, full
  <2>1. CASE author[h] \notin a.used /\ full
    BY <1>7, <1>8, <2>1
  <2>2. CASE ~(author[h] \notin a.used /\ full)
    BY <1>8, <2>2
  <2>. QED
    BY <2>1, <2>2
<1>. QED
  BY <1>6, <1>9

(* What collection leaves of the own headers and of the aggregators.       *)
LEMMA CollectOwn ==
    ASSUME NEW c \in CoreState, NEW r \in Nat
    PROVE  /\ Collect(c, r).own_headers = {h \in c.own_headers : round[h] >= r}
           /\ \A q \in Round : Collect(c, r).certificates_aggregators[q]
                 = IF q >= r THEN c.certificates_aggregators[q] ELSE EmptyCertificates
           /\ \A h \in c.own_headers : round[h] >= r =>
                 Collect(c, r).votes_aggregators[h] = c.votes_aggregators[h]
<1>1. Collect(c, r).own_headers = {h \in c.own_headers : round[h] >= r}
  BY DEF Collect, CoreState
<1>2. ASSUME NEW q \in Round
      PROVE  Collect(c, r).certificates_aggregators[q]
                = IF q >= r THEN c.certificates_aggregators[q] ELSE EmptyCertificates
  BY DEF Collect, CoreState
<1>3. ASSUME NEW h \in c.own_headers, round[h] >= r
      PROVE  Collect(c, r).votes_aggregators[h] = c.votes_aggregators[h]
  <2>1. h \in Header
    BY DEF CoreState
  <2>2. h \in {g \in c.own_headers : round[g] >= r}
    BY <1>3
  <2>. QED
    BY <2>1, <2>2 DEF Collect, CoreState
<1>. QED
  BY <1>1, <1>2, <1>3

(* Collection keeps the aggregators of certificates sound.                 *)
LEMMA CollectCerts ==
    ASSUME NEW c \in CoreState, NEW r \in Nat, NEW S, CertAggSound(c, S)
    PROVE  CertAggSound(Collect(c, r), S)
<1>1. Authors({}) = {}
  BY DEF Authors
<1>. SUFFICES ASSUME NEW q \in Round
              PROVE  LET a == Collect(c, r).certificates_aggregators[q]
                     IN /\ a.certificates \subseteq S
                        /\ \A p \in a.certificates : round[p] = q
                        /\ Authors(a.certificates) \subseteq a.used
                        /\ a.weight <= Weight[Authors(a.certificates)]
  BY DEF CertAggSound
<1>2. \/ Collect(c, r).certificates_aggregators[q] = c.certificates_aggregators[q]
      \/ Collect(c, r).certificates_aggregators[q] = EmptyCertificates
  BY CollectOwn
<1>3. CASE Collect(c, r).certificates_aggregators[q] = c.certificates_aggregators[q]
  BY <1>3 DEF CertAggSound
<1>4. CASE Collect(c, r).certificates_aggregators[q] = EmptyCertificates
  <2>1. /\ EmptyCertificates.certificates = {} /\ EmptyCertificates.weight = 0
        /\ EmptyCertificates.used = {}
    BY DEF EmptyCertificates
  <2>2. 0 <= Weight[{}]
    BY WeightAssumption
  <2>. QED
    BY <1>1, <1>4, <2>1, <2>2
<1>. QED
  BY <1>2, <1>3, <1>4

(* process_header touches neither own headers nor aggregators.             *)
LEMMA HeaderProcessedOwn ==
    ASSUME NEW c \in CoreState, NEW n \in Honest, NEW h \in Header
    PROVE  LET d == HeaderProcessed(c, n, h)
           IN /\ d.own_headers = c.own_headers
              /\ d.certificates_aggregators = c.certificates_aggregators
              /\ d.gc_round = c.gc_round
  BY DEF HeaderProcessed, CoreState

(* VotesAggregator::append touches neither own headers nor the aggregators *)
(* of certificates.                                                        *)
LEMMA AppendVoteOwn ==
    ASSUME NEW c \in CoreState, NEW v \in Authority, NEW h \in Header
    PROVE  LET d == AppendVote(c, v, h)
           IN /\ d.own_headers = c.own_headers
              /\ d.certificates_aggregators = c.certificates_aggregators
  BY DEF AppendVote, CoreState

(* process_certificate does not touch the own headers.                     *)
LEMMA CertificateProcessedOwn ==
    ASSUME NEW c \in CoreState, NEW n \in Honest, NEW h \in Header
    PROVE  CertificateProcessed(c, n, h).own_headers = c.own_headers
  BY DEF CertificateProcessed, AppendCertificate, CoreState

-----------------------------------------------------------------------------
(* A turn that ends with Core state c, after the certificate of h is       *)
(* processed or not.                                                       *)
Ends(n, h, c) ==
    \/ NoCertificateEffects /\ EndTurn(n, c)
    \/ CertificateEffects(c, n, h) /\ EndTurn(n, CertificateProcessed(c, n, h))

(* A turn that ends so keeps the signals valid, forgets an own header only *)
(* if it is collected, and suspends at most the certificate it is about.   *)
LEMMA EndsOK ==
    ASSUME TypeOK, GcBounded, SignalsValid, NEW n \in Honest, NEW h \in Header,
           NEW c \in CoreState, Ends(n, h, c),
           c.certificates_aggregators = core[n].certificates_aggregators
    PROVE  /\ SignalsStep
           /\ \A m \in Honest \ {n} : core'[m] = core[m]
           /\ core'[n].gc_round = GcRound(n) /\ core[n].gc_round <= GcRound(n)
           /\ core'[n].own_headers = {g \in c.own_headers : round[g] >= GcRound(n)}
           /\ \A m \in Honest : \A g \in certificate_waiter'[m] :
                 \/ g \in certificate_waiter[m]
                 \/ m = n /\ g = h /\ MissingParents(n, h) # {}
<1>1. /\ store \in [Honest -> SUBSET Header]
      /\ tx_proposer \in [Honest -> Seq(Signal)]
      /\ certificate_waiter \in [Honest -> SUBSET Header]
      /\ core \in [Honest -> CoreState] /\ GcRound(n) \in Nat
  BY GcRoundType DEF TypeOK
<1>2. CertAggSound(c, store[n])
  BY DEF SignalsValid, CertAggSound
<1>3. PICK d \in CoreState :
         /\ EndTurn(n, d) /\ d.own_headers = c.own_headers
         /\ \/ NoCertificateEffects /\ d = c
            \/ CertificateEffects(c, n, h) /\ d = CertificateProcessed(c, n, h)
  BY CertificateProcessedType, CertificateProcessedOwn DEF Ends
<1>4. /\ core'[n] = Collect(d, GcRound(n))
      /\ \A m \in Honest \ {n} : core'[m] = core[m]
  BY <1>3, EndTurnType
<1>5. /\ core'[n].gc_round = GcRound(n) /\ core[n].gc_round <= GcRound(n)
      /\ core'[n].own_headers = {g \in c.own_headers : round[g] >= GcRound(n)}
  BY <1>1, <1>3, <1>4, CollectFields, CollectOwn, GcRoundGrows
<1>6. ASSUME NEW m \in Honest, core'[m] = core[m], store'[m] = store[m],
             tx_proposer'[m] = tx_proposer[m]
      PROVE  /\ store[m] \subseteq store'[m]
             /\ CertAggSound(core'[m], store'[m])
             /\ tx_proposer'[m] \in Seq(ValidSignals(store'[m]))
  BY <1>6 DEF SignalsValid
<1>7. CASE \/ NoCertificateEffects /\ d = c
           \/ /\ MissingParents(n, h) # {} /\ d = c
              /\ certificate_waiter' = [certificate_waiter EXCEPT ![n] = @ \cup {h}]
              /\ UNCHANGED <<store, tx_proposer, tx_consensus>>
  <2>1. UNCHANGED <<store, tx_proposer>>
    BY <1>7 DEF NoCertificateEffects
  <2>2. CertAggSound(core'[n], store'[n])
    BY <1>1, <1>2, <1>3, <1>4, <1>7, <2>1, CollectCerts
  <2>3. SignalsStep
    BY <1>4, <1>6, <2>1, <2>2 DEF SignalsStep, SignalsValid
  <2>4. \A m \in Honest : \A g \in certificate_waiter'[m] :
           \/ g \in certificate_waiter[m]
           \/ m = n /\ g = h /\ MissingParents(n, h) # {}
    <3>1. CASE NoCertificateEffects
      BY <3>1 DEF NoCertificateEffects
    <3>2. CASE /\ MissingParents(n, h) # {}
               /\ certificate_waiter' = [certificate_waiter EXCEPT ![n] = @ \cup {h}]
      BY <1>1, <3>2
    <3>. QED
      BY <1>7, <3>1, <3>2
  <2>. QED
    BY <1>4, <1>5, <2>3, <2>4
<1>8. CASE /\ MissingParents(n, h) = {} /\ d = AppendCertificate(c, h)
           /\ store' = [store EXCEPT ![n] = @ \cup {h}]
           /\ tx_proposer' = [tx_proposer EXCEPT ![n] = @ \o Signals(c, h)]
           /\ UNCHANGED certificate_waiter
  <2>. DEFINE S == store[n] \cup {h}
  <2>1. /\ store'[n] = S /\ tx_proposer'[n] = tx_proposer[n] \o Signals(c, h)
        /\ \A m \in Honest \ {n} : /\ store'[m] = store[m]
                                   /\ tx_proposer'[m] = tx_proposer[m]
    BY <1>1, <1>8
  <2>2. CertAggSound(d, S) /\ Signals(c, h) \in Seq(ValidSignals(S))
    BY <1>1, <1>2, <1>8, AppendCertificateSound
  <2>3. CertAggSound(core'[n], S)
    BY <1>1, <1>3, <1>4, <2>2, CollectCerts
  <2>4. tx_proposer[n] \in Seq(ValidSignals(S))
    <3>1. store[n] \subseteq S /\ tx_proposer[n] \in Seq(ValidSignals(store[n]))
      BY DEF SignalsValid
    <3>. HIDE DEF S
    <3>. QED
      BY <3>1, ValidSignalsGrow, SeqGrows
  <2>5. tx_proposer'[n] \in Seq(ValidSignals(S))
    BY <2>1, <2>2, <2>4
  <2>6. SignalsStep
    <3>1. store[n] \subseteq S
      OBVIOUS
    <3>. HIDE DEF S
    <3>. QED
      BY <1>4, <1>6, <2>1, <2>3, <2>5, <3>1 DEF SignalsStep
  <2>. QED
    BY <1>4, <1>5, <1>8, <2>6
<1>. QED
  BY <1>3, <1>7, <1>8 DEF CertificateEffects, CertificateProcessed

(* A header that was made here is accepted, never rejected or suspended.   *)
LEMMA OwnAccepted ==
    ASSUME NEW n \in Honest, NEW h \in Acceptable(n)
    PROVE  Accepted(n, h) /\ ~Rejected(n, h) /\ MissingParents(n, h) = {}
  BY DEF Acceptable, Accepted, Rejected, MissingPayload

(* process_header suspends no header of our own that it accepts.           *)
LEMMA HeaderWaits ==
    ASSUME TypeOK, NEW n \in Honest, NEW h \in Header,
           HeaderEffects(n, h) \/ NoHeaderEffects,
           author[h] = n => Accepted(n, h)
    PROVE  \A m \in Honest : \A w \in header_waiter'[m] :
              w \in header_waiter[m] \/ author[w.header] # m
<1>1. CASE UNCHANGED header_waiter
  BY <1>1
<1>2. CASE /\ header_waiter' = [header_waiter EXCEPT ![n] = @ \cup {WaitFor(n, h)}]
           /\ ~Accepted(n, h)
  <2>1. author[h] # n
    BY <1>2
  <2>2. WaitFor(n, h).header = h
    BY DEF WaitFor
  <2>. QED
    BY <1>2, <2>1, <2>2 DEF TypeOK
<1>. QED
  BY <1>1, <1>2 DEF HeaderEffects, NoHeaderEffects

(* The part of ProposalStep that is up to a turn on a header or a          *)
(* certificate which, if our own, we still hold.                           *)
TurnStep ==
    /\ SignalsStep /\ OwnStep
    /\ \A m \in Honest :
          /\ \A w \in header_waiter'[m] :
                w \in header_waiter[m] \/ author[w.header] # m
          /\ \A g \in certificate_waiter'[m] :
                g \in certificate_waiter[m] \/ author[g] # m
    /\ MayPanic

(* A turn that ends so, and leaves the own headers to collection, is such  *)
(* a turn.                                                                 *)
LEMMA TurnEnds ==
    ASSUME TypeOK, GcBounded, SignalsValid, NEW n \in Honest, NEW h \in Header,
           NEW c \in CoreState, Ends(n, h, c),
           c.certificates_aggregators = core[n].certificates_aggregators,
           c.own_headers = core[n].own_headers,
           HeaderEffects(n, h) \/ NoHeaderEffects,
           author[h] = n => Accepted(n, h),
           UNCHANGED panicked
    PROVE  TurnStep
<1>1. /\ SignalsStep
      /\ \A m \in Honest \ {n} : core'[m] = core[m]
      /\ core'[n].gc_round = GcRound(n) /\ core[n].gc_round <= GcRound(n)
      /\ core'[n].own_headers = {g \in core[n].own_headers : round[g] >= GcRound(n)}
      /\ \A m \in Honest : \A g \in certificate_waiter'[m] :
            \/ g \in certificate_waiter[m]
            \/ m = n /\ g = h /\ MissingParents(n, h) # {}
  BY EndsOK
<1>2. OwnStep
  <2>1. \A m \in Honest : core[m].gc_round \in Nat /\ core[m].own_headers \subseteq Header
    BY DEF TypeOK, CoreState
  <2>2. \A g \in Header : round[g] \in Nat
    BY HeaderAssumption
  <2>3. GcRound(n) \in Nat
    BY GcRoundType
  <2>. QED
    BY <1>1, <2>1, <2>2, <2>3 DEF OwnStep
<1>3. \A m \in Honest : \A g \in certificate_waiter'[m] :
         g \in certificate_waiter[m] \/ author[g] # m
  BY <1>1 DEF Accepted
<1>. QED
  BY <1>1, <1>2, <1>3, HeaderWaits DEF TurnStep, MayPanic

(* process_header is such a turn: it cannot panic on a header we hold.     *)
LEMMA ProcessHeaderProposals ==
    ASSUME TypeOK, GcBounded, SignalsValid, OwnHeadersKept,
           NEW n \in Honest, NEW h \in Header, ProcessHeader(n, h),
           author[h] = n => h \in core[n].own_headers
    PROVE  TurnStep
<1>. DEFINE c == HeaderProcessed(core[n], n, h)
<1>1. core[n] \in CoreState
  BY DEF TypeOK
<1>2. HeaderEffects(n, h) /\ EndTurn(n, c) /\ UNCHANGED panicked /\ NoCertificateEffects
  BY DEF ProcessHeader
<1>3. /\ c \in CoreState /\ c.own_headers = core[n].own_headers
      /\ c.certificates_aggregators = core[n].certificates_aggregators
  BY <1>1, HeaderProcessedType, HeaderProcessedOwn
<1>4. author[h] = n => Accepted(n, h)
  BY OwnAccepted DEF OwnHeadersKept
<1>. HIDE DEF c
<1>5. Ends(n, h, c)
  BY <1>2 DEF Ends
<1>. QED
  BY <1>2, <1>3, <1>4, <1>5, TurnEnds

(* So is process_certificate.                                              *)
LEMMA ProcessCertificateProposals ==
    ASSUME TypeOK, GcBounded, SignalsValid, OwnHeadersKept,
           NEW n \in Honest, NEW h \in Header, NEW c \in CoreState,
           c.own_headers = core[n].own_headers,
           c.certificates_aggregators = core[n].certificates_aggregators,
           ProcessCertificate(c, n, h),
           author[h] = n => h \in core[n].own_headers
    PROVE  TurnStep
<1>. DEFINE fresh == c.processing \cap SameId(h) = {}
            d == IF fresh THEN HeaderProcessed(c, n, h) ELSE c
<1>1. /\ d \in CoreState /\ d.own_headers = core[n].own_headers
      /\ d.certificates_aggregators = core[n].certificates_aggregators
  BY HeaderProcessedType, HeaderProcessedOwn
<1>2. /\ HeaderEffects(n, h) \/ NoHeaderEffects
      /\ \/ NoCertificateEffects /\ EndTurn(n, d)
         \/ CertificateEffects(d, n, h) /\ EndTurn(n, CertificateProcessed(d, n, h))
      /\ UNCHANGED panicked
  BY DEF ProcessCertificate
<1>. HIDE DEF d
<1>3. Ends(n, h, d)
  BY <1>2 DEF Ends
<1>4. author[h] = n => Accepted(n, h)
  BY OwnAccepted DEF OwnHeadersKept
<1>. QED
  BY <1>1, <1>2, <1>3, <1>4, TurnEnds

(* Steps of other tasks leave the Core, its store and its signals alone.   *)
LEMMA IdleCore ==
    ASSUME TypeOK, SignalsValid, UNCHANGED <<core, store, tx_proposer>>
    PROVE  SignalsStep /\ OwnStep
<1>1. \A m \in Honest : core[m].gc_round \in Nat
  BY DEF TypeOK, CoreState
<1>. QED
  BY <1>1 DEF SignalsStep, OwnStep, SignalsValid

(* On its own genesis certificate the Core panics, unless it has processed *)
(* a genesis certificate before or has collected its own.                  *)
LEMMA OwnGenesisProposals ==
    ASSUME TypeOK, GcBounded, SignalsValid, NEW n \in Honest,
           NEW h \in StrayGenesis, author[h] = n,
           ProcessCertificate(core[n], n, h)
    PROVE  TurnStep
<1>. DEFINE c == core[n]
            fresh == c.processing \cap SameId(h) = {}
            d == IF fresh THEN HeaderProcessed(c, n, h) ELSE c
<1>1. h \in Header /\ c \in CoreState
  BY StrayGenesisType DEF TypeOK
<1>2. Accepted(n, h)
  BY StrayGenesisType DEF Accepted, MissingParents, MissingPayload, ValidParents
<1>3. CASE /\ panicked' = panicked \cup {n}
           /\ UNCHANGED core /\ NoHeaderEffects /\ NoCertificateEffects
  <2>1. MayPanic
    BY <1>3 DEF MayPanic, Authors
  <2>2. SignalsStep /\ OwnStep
    BY <1>3, IdleCore DEF NoCertificateEffects
  <2>. QED
    BY <1>3, <2>1, <2>2 DEF TurnStep, NoHeaderEffects, NoCertificateEffects
<1>4. CASE /\ HeaderEffects(n, h) \/ NoHeaderEffects
           /\ \/ NoCertificateEffects /\ EndTurn(n, d)
              \/ CertificateEffects(d, n, h) /\ EndTurn(n, CertificateProcessed(d, n, h))
           /\ UNCHANGED panicked
  <2>1. /\ d \in CoreState /\ d.own_headers = core[n].own_headers
        /\ d.certificates_aggregators = core[n].certificates_aggregators
    BY <1>1, HeaderProcessedType, HeaderProcessedOwn
  <2>. HIDE DEF d
  <2>2. Ends(n, h, d)
    BY <1>4 DEF Ends
  <2>. QED
    BY <1>1, <1>2, <1>4, <2>1, <2>2, TurnEnds
<1>. QED
  BY <1>3, <1>4 DEF ProcessCertificate

-----------------------------------------------------------------------------
(* Such a turn, with the rest of the state as its handler leaves it, is a  *)
(* step of the kind above.                                                 *)
LEMMA TurnProposals ==
    ASSUME TypeOK, ProposalInv, TurnStep,
           UNCHANGED <<headers, proposer, rx_proposer>>,
           \A m \in Honest : /\ rx_header_waiter'[m] \subseteq rx_header_waiter[m]
                             /\ rx_certificate_waiter'[m]
                                   \subseteq rx_certificate_waiter[m],
           \A g \in certificates' : g \in certificates \/ g \in headers
    PROVE  ProposalStep
<1>1. SignalsStep /\ OwnStep /\ MayPanic
  BY DEF TurnStep
<1>2. ProposerStep
  BY DEF ProposerStep, ProposalInv, SignalsValid
<1>3. HeadersStep
  BY DEF HeadersStep
<1>4. WaitStep
  BY DEF TurnStep, WaitStep
<1>. QED
  BY <1>1, <1>2, <1>3, <1>4 DEF ProposalStep

(* Steps of other tasks leave the proposer alone.                          *)
LEMMA IdleProposer ==
    ASSUME SignalsValid, UNCHANGED <<proposer, rx_proposer>>
    PROVE  ProposerStep
  BY DEF ProposerStep, SignalsValid

(* Most steps broadcast nothing.                                           *)
LEMMA IdleNetwork ==
    ASSUME UNCHANGED <<headers, certificates>>
    PROVE  HeadersStep
  BY DEF HeadersStep

(* Most steps leave the waiters alone.                                     *)
LEMMA IdleWaiters ==
    ASSUME UNCHANGED waiters
    PROVE  WaitStep
  BY DEF WaitStep, waiters

(* The turn on a header the proposer made: the Core accepts and keeps it.  *)
LEMMA OwnHeaderStep ==
    ASSUME TypeOK, GcBounded, ProposalInv, NEW n \in Honest, ProcessOwnHeader(n)
    PROVE  ProposalStep
<1>. DEFINE h == Head(rx_proposer[n])
            c == [core[n] EXCEPT !.current_round = round[h],
                                 !.own_headers = @ \cup {h}]
            d == HeaderProcessed(c, n, h)
            e == IF Votes(n, h) THEN AppendVote(d, n, h) ELSE d
<1>1. /\ rx_proposer[n] \in Seq(Acceptable(n)) /\ rx_proposer[n] # <<>>
      /\ h \in Acceptable(n) /\ Tail(rx_proposer[n]) \in Seq(Acceptable(n))
  BY DEF ProposalInv, SignalsValid, ProcessOwnHeader
<1>2. h \in Header /\ round[h] \in Nat /\ author[h] = n /\ n \in Authority
  BY <1>1, HeaderAssumption DEF Acceptable, Honest
<1>3. /\ c \in CoreState /\ c.own_headers = core[n].own_headers \cup {h}
      /\ c.certificates_aggregators = core[n].certificates_aggregators
  <2>1. core[n] \in CoreState
    BY DEF TypeOK
  <2>. HIDE DEF h
  <2>. QED
    BY <1>2, <2>1 DEF CoreState
<1>. HIDE DEF c
<1>4. /\ d \in CoreState /\ d.own_headers = c.own_headers
      /\ d.certificates_aggregators = c.certificates_aggregators
  BY <1>2, <1>3, HeaderProcessedType, HeaderProcessedOwn
<1>. HIDE DEF d
<1>5. /\ e \in CoreState /\ e.own_headers = c.own_headers
      /\ e.certificates_aggregators = c.certificates_aggregators
  BY <1>2, <1>4, AppendVoteType, AppendVoteOwn
<1>6. /\ rx_proposer' = [rx_proposer EXCEPT ![n] = Tail(@)]
      /\ HeaderEffects(n, h)
      /\ headers' = headers \cup {h}
      /\ \/ certificates' = certificates \cup {h}
         \/ certificates' = certificates
      /\ Ends(n, h, e)
      /\ UNCHANGED <<rx_header_waiter, rx_certificate_waiter, proposer, panicked>>
  <2>1. ~Rejected(n, h)
    BY <1>1, OwnAccepted
  <2>. HIDE DEF e, h
  <2>2. /\ rx_proposer' = [rx_proposer EXCEPT ![n] = Tail(@)]
        /\ HeaderEffects(n, h)
        /\ headers' = IF Rejected(n, h) THEN headers ELSE headers \cup {h}
        /\ UNCHANGED <<rx_header_waiter, rx_certificate_waiter, proposer, panicked>>
    BY DEF ProcessOwnHeader, h
  <2>3. \/ /\ certificates' = certificates \cup {h}
           /\ CertificateEffects(e, n, h)
           /\ EndTurn(n, CertificateProcessed(e, n, h))
        \/ /\ NoCertificateEffects
           /\ EndTurn(n, e)
           /\ UNCHANGED certificates
    BY DEF ProcessOwnHeader, e, d, c, h
  <2>. QED
    BY <2>1, <2>2, <2>3 DEF Ends
<1>. HIDE DEF e
<1>7. /\ SignalsStep
      /\ \A m \in Honest \ {n} : core'[m] = core[m]
      /\ core'[n].gc_round = GcRound(n) /\ core[n].gc_round <= GcRound(n)
      /\ core'[n].own_headers = {g \in e.own_headers : round[g] >= GcRound(n)}
      /\ \A m \in Honest : \A g \in certificate_waiter'[m] :
            \/ g \in certificate_waiter[m]
            \/ m = n /\ g = h /\ MissingParents(n, h) # {}
  <2>. HIDE DEF h
  <2>. QED
    BY <1>2, <1>3, <1>5, <1>6, EndsOK DEF ProposalInv
<1>8. /\ \A m \in Honest : core[m].gc_round \in Nat /\ core[m].own_headers \subseteq Header
      /\ GcRound(n) \in Nat
      /\ \A g \in Header : round[g] \in Nat
  BY GcRoundType, HeaderAssumption DEF TypeOK, CoreState
<1>. HIDE DEF h
<1>9. OwnStep
  BY <1>2, <1>3, <1>5, <1>6, <1>7, <1>8 DEF OwnStep
<1>10. HeadersStep
  <2>1. /\ h \in core'[n].own_headers \/ round[h] < core'[n].gc_round
    BY <1>2, <1>3, <1>5, <1>7, <1>8
  <2>. QED
    BY <1>1, <1>2, <1>6, <2>1 DEF HeadersStep
<1>11. ProposerStep
  <2>1. \A m \in Honest \ {n} : rx_proposer'[m] = rx_proposer[m]
    BY <1>6 DEF TypeOK
  <2>2. rx_proposer'[n] = Tail(rx_proposer[n])
    BY <1>6 DEF TypeOK
  <2>. QED
    BY <1>1, <1>6, <2>1, <2>2 DEF ProposerStep, ProposalInv, SignalsValid
<1>12. WaitStep
  <2>1. \A m \in Honest : \A w \in header_waiter'[m] :
           w \in header_waiter[m] \/ author[w.header] # m
    BY <1>1, <1>2, <1>6, OwnAccepted, HeaderWaits
  <2>2. MissingParents(n, h) = {}
    BY <1>1, OwnAccepted
  <2>. QED
    BY <1>6, <1>7, <2>1, <2>2 DEF WaitStep
<1>. QED
  BY <1>6, <1>7, <1>9, <1>10, <1>11, <1>12 DEF ProposalStep, MayPanic

(* Every turn of the Core. What reaches it from the network is either      *)
(* recent (sanitize_header, sanitize_certificate), so that an own header   *)
(* is still held, or has been suspended, so that it is not an own one:     *)
(* this is why the vote on an own header cannot fail.  The exception is    *)
(* the own genesis certificate, which was never held.                      *)
LEMMA CoreTurnStep ==
    ASSUME TypeOK, GcBounded, ProposalInv, NEW n \in Honest, CoreTurn(n)
    PROVE  ProposalStep
<1>. USE DEF ProposalInv
<1>1. \A m \in Honest : core[m] \in CoreState
  BY DEF TypeOK
<1>2. \A g \in Header : round[g] \in Nat
  BY HeaderAssumption
<1>3. core[n].gc_round \in Nat
  BY <1>1 DEF CoreState
<1>4. CASE ProcessOwnHeader(n)
  BY <1>4, OwnHeaderStep
<1>5. ASSUME NEW h \in headers, ReceiveHeader(n, h) PROVE ProposalStep
  <2>1. h \in Header
    BY DEF TypeOK
  <2>2. author[h] = n => h \in core[n].own_headers
    BY <1>2, <1>3, <1>5, <2>1 DEF ReceiveHeader, OwnHeadersKept
  <2>3. TurnStep
    BY <1>5, <2>1, <2>2, ProcessHeaderProposals DEF ReceiveHeader
  <2>. QED
    BY <1>5, <2>3, TurnProposals DEF ReceiveHeader
<1>6. ASSUME NEW h \in rx_header_waiter[n], LoopbackHeader(n, h) PROVE ProposalStep
  <2>1. h \in Header /\ author[h] # n
    BY DEF TypeOK, OthersWait
  <2>2. TurnStep
    BY <1>6, <2>1, ProcessHeaderProposals DEF LoopbackHeader
  <2>3. \A m \in Honest : rx_header_waiter'[m] \subseteq rx_header_waiter[m]
    BY <1>6 DEF LoopbackHeader, TypeOK
  <2>. QED
    BY <1>6, <2>2, <2>3, TurnProposals DEF LoopbackHeader
<1>7. ASSUME NEW v \in Authority, NEW h \in core[n].own_headers, ReceiveVote(n, v, h)
      PROVE  ProposalStep
  <2>. DEFINE c == AppendVote(core[n], v, h)
  <2>1. h \in Header
    BY <1>1 DEF CoreState
  <2>2. /\ c \in CoreState /\ c.own_headers = core[n].own_headers
        /\ c.certificates_aggregators = core[n].certificates_aggregators
    BY <1>1, <2>1, AppendVoteType, AppendVoteOwn
  <2>3. h \in headers /\ h \in Acceptable(n)
    BY DEF OwnHeadersKept
  <2>4. \/ /\ certificates' = certificates \cup {h}
           /\ ProcessCertificate(c, n, h)
        \/ /\ EndTurn(n, c) /\ NoHeaderEffects /\ NoCertificateEffects
           /\ UNCHANGED <<certificates, panicked>>
    BY <1>7 DEF ReceiveVote
  <2>. HIDE DEF c
  <2>5. TurnStep
    <3>1. CASE ProcessCertificate(c, n, h)
      BY <2>1, <2>2, <3>1, ProcessCertificateProposals
    <3>2. CASE /\ EndTurn(n, c) /\ NoHeaderEffects /\ NoCertificateEffects
               /\ UNCHANGED panicked
      <4>1. Ends(n, h, c)
        BY <3>2 DEF Ends
      <4>. QED
        BY <2>1, <2>2, <2>3, <3>2, <4>1, OwnAccepted, TurnEnds
    <3>. QED
      BY <2>4, <3>1, <3>2
  <2>. QED
    BY <1>7, <2>3, <2>4, <2>5, TurnProposals DEF ReceiveVote
<1>8. ASSUME NEW h \in certificates \cup StrayGenesis, ReceiveCertificate(n, h)
      PROVE  ProposalStep
  <2>1. h \in Header /\ ProcessCertificate(core[n], n, h)
    BY <1>8, StrayGenesisType DEF TypeOK, ReceiveCertificate
  <2>2. CASE h \in certificates
    <3>1. author[h] = n => h \in core[n].own_headers
      BY <1>2, <1>3, <1>8, <2>1, <2>2
         DEF ReceiveCertificate, OwnHeadersKept, HonestCertified
    <3>2. TurnStep
      BY <1>1, <2>1, <3>1, ProcessCertificateProposals
    <3>. QED
      BY <1>8, <3>2, TurnProposals DEF ReceiveCertificate
  <2>3. CASE h \in StrayGenesis
    <3>1. TurnStep
      BY <1>1, <2>1, <2>3, ProcessCertificateProposals, OwnGenesisProposals
    <3>. QED
      BY <1>8, <3>1, TurnProposals DEF ReceiveCertificate
  <2>. QED
    BY <2>2, <2>3
<1>9. ASSUME NEW h \in rx_certificate_waiter[n], LoopbackCertificate(n, h)
      PROVE  ProposalStep
  <2>1. h \in Header /\ author[h] # n
    BY DEF TypeOK, OthersWait
  <2>2. TurnStep
    BY <1>1, <1>9, <2>1, ProcessCertificateProposals DEF LoopbackCertificate
  <2>3. \A m \in Honest : rx_certificate_waiter'[m] \subseteq rx_certificate_waiter[m]
    BY <1>9 DEF LoopbackCertificate, TypeOK
  <2>. QED
    BY <1>9, <2>2, <2>3, TurnProposals DEF LoopbackCertificate
<1>. QED
  BY <1>4, <1>5, <1>6, <1>7, <1>8, <1>9 DEF CoreTurn

-----------------------------------------------------------------------------
(* The proposer takes a signal.                                            *)
LEMMA SignalReceived ==
    ASSUME TypeOK, ProposalInv, NEW n \in Honest, ProposerReceivesSignal(n)
    PROVE  ProposalStep
<1>. DEFINE s == Head(tx_proposer[n])
<1>1. /\ tx_proposer[n] \in Seq(ValidSignals(store[n])) /\ tx_proposer[n] # <<>>
      /\ s \in ValidSignals(store[n])
      /\ Tail(tx_proposer[n]) \in Seq(ValidSignals(store[n]))
  <2>1. tx_proposer[n] \in Seq(ValidSignals(store[n])) /\ tx_proposer[n] # <<>>
    BY DEF ProposalInv, SignalsValid, ProposerReceivesSignal
  <2>. QED
    BY <2>1, HeadAndTail
<1>2. /\ tx_proposer' = [tx_proposer EXCEPT ![n] = Tail(@)]
      /\ proposer' = proposer \/ proposer' = [proposer EXCEPT ![n] = s]
      /\ UNCHANGED <<headers, certificates, core, store, waiters, rx_proposer, panicked>>
  BY DEF ProposerReceivesSignal, network, disk
<1>3. \A m \in Honest :
         /\ core[m].gc_round \in Nat
         /\ tx_proposer'[m] = IF m = n THEN Tail(tx_proposer[n]) ELSE tx_proposer[m]
  BY <1>2 DEF TypeOK, CoreState
<1>4. SignalsStep /\ OwnStep
  BY <1>1, <1>2, <1>3 DEF SignalsStep, OwnStep, ProposalInv, SignalsValid
<1>5. ProposerStep
  <2>1. Proposable(s, store[n])
    BY <1>1 DEF ValidSignals
  <2>. HIDE DEF s
  <2>2. \A m \in Honest : \/ proposer'[m] = proposer[m]
                          \/ m = n /\ proposer'[m] = s
    BY <1>2 DEF TypeOK
  <2>. QED
    BY <1>2, <2>1, <2>2 DEF ProposerStep, ProposalInv, SignalsValid
<1>. QED
  BY <1>2, <1>4, <1>5, IdleNetwork, IdleWaiters DEF ProposalStep, MayPanic

(* Proposer::make_header: the header cites the parents of a proposable     *)
(* signal, so it is acceptable.                                            *)
LEMMA HeaderMade ==
    ASSUME TypeOK, ProposalInv, NEW n \in Honest, NEW h \in Header, MakeHeader(n, h)
    PROVE  ProposalStep
<1>1. /\ author[h] = n /\ proposer[n].parents # {}
      /\ proposer[n].round = round[h] /\ proposer[n].parents = parents[h]
      /\ proposer' = [proposer EXCEPT ![n].parents = {}]
      /\ rx_proposer' = [rx_proposer EXCEPT ![n] = Append(@, h)]
      /\ UNCHANGED <<headers, certificates, core, store, waiters, tx_proposer, panicked>>
  BY DEF MakeHeader, network, disk
<1>2. h \in Acceptable(n)
  <2>1. Proposable(proposer[n], store[n])
    BY <1>1 DEF ProposalInv, SignalsValid
  <2>. QED
    BY <1>1, <2>1, HeaderAssumption
       DEF Proposable, Acceptable, ValidParents, MissingParents
<1>3. ProposerStep
  <2>1. /\ proposer'[n].parents = {}
        /\ \A m \in Honest \ {n} : proposer'[m] = proposer[m]
    BY <1>1 DEF TypeOK, Signal
  <2>2. /\ rx_proposer'[n] = Append(rx_proposer[n], h)
        /\ \A m \in Honest \ {n} : rx_proposer'[m] = rx_proposer[m]
    BY <1>1 DEF TypeOK
  <2>3. rx_proposer'[n] \in Seq(Acceptable(n))
    <3>1. rx_proposer[n] \in Seq(Acceptable(n))
      BY DEF ProposalInv, SignalsValid
    <3>. QED
      BY <1>2, <2>2, <3>1
  <2>. QED
    BY <1>1, <2>1, <2>2, <2>3 DEF ProposerStep, ProposalInv, SignalsValid
<1>. QED
  BY <1>1, <1>3, IdleCore, IdleNetwork, IdleWaiters DEF ProposalStep, MayPanic, ProposalInv

(* The waiters suspend and return nothing of our own.                      *)
LEMMA WaiterStep ==
    ASSUME TypeOK, ProposalInv, NEW n \in Honest, WaiterTask(n)
    PROVE  ProposalStep
<1>1. UNCHANGED <<headers, certificates, core, store, proposer, tx_proposer,
                  rx_proposer, panicked>>
  BY DEF WaiterTask, HeaderWaiterDelivers, HeaderWaiterCleanup,
         CertificateWaiterDelivers, network, disk, proposing
<1>2. WaitStep
  <2>1. ASSUME NEW w \in header_waiter[n], HeaderWaiterDelivers(n, w)
        PROVE  WaitStep
    BY <2>1 DEF HeaderWaiterDelivers, WaitStep, TypeOK
  <2>2. CASE HeaderWaiterCleanup(n)
    BY <2>2 DEF HeaderWaiterCleanup, WaitStep, TypeOK
  <2>3. ASSUME NEW h \in certificate_waiter[n], CertificateWaiterDelivers(n, h)
        PROVE  WaitStep
    BY <2>3 DEF CertificateWaiterDelivers, WaitStep, TypeOK
  <2>. QED
    BY <2>1, <2>2, <2>3 DEF WaiterTask
<1>. QED
  BY <1>1, <1>2, IdleCore, IdleProposer, IdleNetwork DEF ProposalStep, MayPanic, ProposalInv

(* Every step of the system is a step of that kind.                        *)
LEMMA ProposalNext ==
    ASSUME TypeOK, GcBounded, ProposalInv, [Next]_vars
    PROVE  ProposalStep
<1>1. ASSUME NEW n \in Honest, CoreTurn(n) PROVE ProposalStep
  BY <1>1, CoreTurnStep
<1>2. ASSUME NEW n \in Honest, ProposerTask(n) PROVE ProposalStep
  BY <1>2, SignalReceived, HeaderMade DEF ProposerTask
<1>3. ASSUME NEW n \in Honest, WaiterTask(n) PROVE ProposalStep
  BY <1>3, WaiterStep
<1>4. CASE UNCHANGED <<core, store, tx_proposer, proposer, rx_proposer,
                       headers, certificates, waiters, panicked>>
  BY <1>4, IdleCore, IdleProposer, IdleNetwork, IdleWaiters
     DEF ProposalStep, MayPanic, ProposalInv
<1>5. ASSUME NEW n \in Honest, WorkerTask(n) PROVE ProposalStep
  BY <1>4, <1>5 DEF WorkerTask, ReceivePayload, network, disk, proposing
<1>6. ASSUME NEW n \in Honest, GarbageCollectorTask(n) PROVE ProposalStep
  BY <1>4, <1>6 DEF GarbageCollectorTask, AdvanceConsensus, network, disk, proposing
<1>7. ASSUME NEW h \in Header, ByzantineHeader(h) \/ ByzantineCertificate(h)
      PROVE  ProposalStep
  <2>1. UNCHANGED <<core, store, tx_proposer, proposer, rx_proposer, waiters, panicked>>
    BY <1>7 DEF ByzantineHeader, ByzantineCertificate, disk, proposing
  <2>2. HeadersStep
    <3>1. author[h] \notin Honest
      BY <1>7 DEF ByzantineHeader, ByzantineCertificate, Honest
    <3>2. /\ headers' = headers \/ headers' = headers \cup {h}
          /\ certificates' = certificates \/ certificates' = certificates \cup {h}
      BY <1>7 DEF ByzantineHeader, ByzantineCertificate
    <3>. QED
      BY <3>1, <3>2 DEF HeadersStep
  <2>. QED
    BY <2>1, <2>2, IdleCore, IdleProposer, IdleWaiters DEF ProposalStep, MayPanic, ProposalInv
<1>8. CASE UNCHANGED vars
  BY <1>4, <1>8 DEF vars, network, disk
<1>. QED
  BY <1>1, <1>2, <1>3, <1>5, <1>6, <1>7, <1>8 DEF Next

(* The invariant holds at the start: the proposer begins with the genesis. *)
LEMMA ProposalInit == Init => ProposalInv
<1>. SUFFICES ASSUME Init PROVE ProposalInv
  OBVIOUS
<1>1. \A q \in Round, n \in Honest :
         core[n].certificates_aggregators[q] = EmptyCertificates
  BY DEF Init, NewCore
<1>2. \A n \in Honest : CertAggSound(core[n], store[n])
  <2>1. /\ EmptyCertificates.certificates = {} /\ EmptyCertificates.weight = 0
        /\ EmptyCertificates.used = {} /\ Authors({}) = {}
    BY DEF EmptyCertificates, Authors
  <2>2. 0 <= Weight[{}]
    BY WeightAssumption
  <2>. QED
    BY <1>1, <2>1, <2>2 DEF CertAggSound
<1>3. \A n \in Honest : Proposable(proposer[n], store[n])
  <2>1. \A p \in Genesis : round[p] + 1 = 1
    BY GenesisAssumption
  <2>. QED
    BY <2>1, GenesisQuorum DEF Init, NewProposer, Proposable
<1>4. SignalsValid
  BY <1>2, <1>3 DEF SignalsValid, Init
<1>. QED
  BY <1>4 DEF ProposalInv, OwnHeadersKept, HonestCertified, OthersWait, NoPanic,
              Init, NewCore

(* What passes between Core and proposer is valid, own headers are known   *)
(* until collected, and nothing of our own is ever suspended, whatever     *)
(* genesis certificates are received.                                      *)
THEOREM ProposalInvariance == Spec => []ProposalInv
<1>1. Init => ProposalInv
  BY ProposalInit
<1>2. TypeOK /\ TypeOK' /\ GcBounded /\ ProposalInv /\ [Next]_vars => ProposalInv'
  BY ProposalNext, ProposalPreserved
<1>3. Inv => TypeOK /\ GcBounded
  BY DEF Inv
<1>. QED
  BY <1>1, <1>2, <1>3, Invariance, PTL DEF Spec

(* The Core of an honest authority never panics on the vote for its own    *)
(* header (vote_for_header, "Failed to process our own vote") unless its   *)
(* own genesis certificate is sent to it, for any committee, DAG and       *)
(* gc_depth.                                                               *)
THEOREM NoPanicHolds == Spec => []NoPanic
<1>1. ProposalInv => NoPanic
  BY DEF ProposalInv
<1>. QED
  BY <1>1, ProposalInvariance, PTL

(* Every header an honest proposer made is accepted by its own Core: its   *)
(* parents are a quorum of the round before, and they are stored.          *)
THEOREM ProposalsValidHolds == Spec => []ProposalsValid
<1>1. ProposalInv => ProposalsValid
  <2>. SUFFICES ASSUME ProposalInv, NEW n \in Honest,
                       NEW i \in DOMAIN rx_proposer[n]
                PROVE  /\ ValidParents(rx_proposer[n][i])
                       /\ MissingParents(n, rx_proposer[n][i]) = {}
    BY DEF ProposalsValid
  <2>1. rx_proposer[n][i] \in Acceptable(n)
    BY DEF ProposalInv, SignalsValid
  <2>. QED
    BY <2>1 DEF Acceptable
<1>. QED
  BY <1>1, ProposalInvariance, PTL

-----------------------------------------------------------------------------
(* The stake an aggregator can still reach: what it has counted since it   *)
(* was reset, and the authorities it has not counted.                      *)
Left(a) == a.weight + Weight[Authority \ a.used]

(* An aggregator holds no more weight than that of the authorities it      *)
(* counted.                                                                *)
Counted(a) == a.weight <= Weight[a.used]

(* Counting one more authority never adds to the stake left; once it makes *)
(* a quorum, no quorum is left.                                            *)
LEMMA LeftAfter ==
    ASSUME NEW a, a.weight \in Nat, a.used \in SUBSET Authority,
           NEW v \in Authority, v \notin a.used, NEW b,
           b.used = a.used \cup {v},
           b.weight = IF a.weight + Weight[{v}] >= quorum_threshold
                      THEN 0 ELSE a.weight + Weight[{v}],
           Counted(a)
    PROVE  /\ Left(b) <= Left(a) /\ Left(a) \in Nat /\ Left(b) \in Nat
           /\ a.weight + Weight[{v}] >= quorum_threshold =>
                 /\ Left(b) < quorum_threshold
                 /\ Left(a) >= quorum_threshold
<1>. DEFINE U == Authority \ a.used
            V == Authority \ b.used
<1>1. /\ {v} \in SUBSET Authority /\ U \in SUBSET Authority /\ V \in SUBSET Authority
      /\ {v} \subseteq U /\ U \ {v} = V /\ b.used \in SUBSET Authority
  OBVIOUS
<1>2. /\ Weight[{v}] \in Nat /\ Weight[U] \in Nat /\ Weight[V] \in Nat
      /\ Weight[U] = Weight[{v}] + Weight[V]
  <2>. HIDE DEF U, V
  <2>. QED
    BY <1>1, WeightMonotone
<1>3. /\ Weight[b.used] \in Nat
      /\ total_votes = Weight[b.used] + Weight[V]
  <2>1. Authority \in SUBSET Authority /\ b.used \subseteq Authority
    BY <1>1
  <2>. QED
    BY <1>1, <2>1, WeightMonotone DEF total_votes
<1>4. /\ Weight[a.used] \in Nat
      /\ Weight[b.used] = Weight[a.used] + Weight[{v}]
  <2>1. a.used \cap {v} = {}
    OBVIOUS
  <2>. QED
    BY <1>1, <2>1, WeightAssumption
<1>5. Left(a) = a.weight + Weight[U] /\ Left(b) = b.weight + Weight[V]
  BY DEF Left
<1>6. a.weight <= Weight[a.used]
  BY DEF Counted
<1>. HIDE DEF U, V
<1>7. CASE a.weight + Weight[{v}] >= quorum_threshold
  <2>1. b.weight = 0
    BY <1>7
  <2>. QED
    BY <1>2, <1>3, <1>4, <1>5, <1>6, <1>7, <2>1, Thresholds
<1>8. CASE ~(a.weight + Weight[{v}] >= quorum_threshold)
  <2>1. b.weight = a.weight + Weight[{v}]
    BY <1>8
  <2>. QED
    BY <1>2, <1>5, <1>8, <2>1
<1>. QED
  BY <1>7, <1>8

(* The stake left is a natural number.                                     *)
LEMMA LeftType ==
    ASSUME NEW c \in CoreState
    PROVE  /\ \A h \in Header : Left(c.votes_aggregators[h]) \in Nat
           /\ \A q \in Round : Left(c.certificates_aggregators[q]) \in Nat
<1>1. ASSUME NEW a, a.weight \in Nat PROVE Left(a) \in Nat
  <2>1. Weight[Authority \ a.used] \in Nat
    BY WeightAssumption
  <2>. QED
    BY <1>1, <2>1 DEF Left
<1>2. /\ \A h \in Header : c.votes_aggregators[h].weight \in Nat
      /\ \A q \in Round : c.certificates_aggregators[q].weight \in Nat
  BY DEF CoreState
<1>. QED
  BY <1>1, <1>2

(* The same for VotesAggregator::append.                                   *)
LEMMA AppendVoteLeft ==
    ASSUME NEW c \in CoreState, NEW v \in Authority, NEW h \in Header,
           Counted(c.votes_aggregators[h])
    PROVE  /\ \A g \in Header : Left(AppendVote(c, v, h).votes_aggregators[g])
                                  <= Left(c.votes_aggregators[g])
           /\ Assembles(c, v, h) =>
                 Left(AppendVote(c, v, h).votes_aggregators[h]) < quorum_threshold
<1>. DEFINE a == c.votes_aggregators[h]
            w == a.weight + Weight[{v}]
            b == [weight |-> IF w >= quorum_threshold THEN 0 ELSE w,
                  used   |-> a.used \cup {v}]
<1>1. a.weight \in Nat /\ a.used \in SUBSET Authority
  BY DEF CoreState
<1>2. \A g \in Header : Left(c.votes_aggregators[g]) \in Nat
  BY LeftType
<1>3. CASE v \in a.used
  <2>1. AppendVote(c, v, h) = c
    BY <1>3 DEF AppendVote
  <2>2. ~Assembles(c, v, h)
    BY <1>3 DEF Assembles
  <2>. QED
    BY <1>2, <2>1, <2>2
<1>4. CASE v \notin a.used
  <2>1. AppendVote(c, v, h) = [c EXCEPT !.votes_aggregators[h] = b]
    BY <1>4 DEF AppendVote
  <2>2. \A g \in Header : AppendVote(c, v, h).votes_aggregators[g]
                          = IF g = h THEN b ELSE c.votes_aggregators[g]
    BY <2>1 DEF CoreState
  <2>3. /\ b.used = a.used \cup {v}
        /\ b.weight = IF a.weight + Weight[{v}] >= quorum_threshold
                      THEN 0 ELSE a.weight + Weight[{v}]
    OBVIOUS
  <2>4. Assembles(c, v, h) => a.weight + Weight[{v}] >= quorum_threshold
    BY DEF Assembles
  <2>5. Counted(a)
    OBVIOUS
  <2>. HIDE DEF a, b
  <2>6. /\ Left(b) <= Left(a)
        /\ a.weight + Weight[{v}] >= quorum_threshold => Left(b) < quorum_threshold
    BY <1>1, <1>4, <2>3, <2>5, LeftAfter
  <2>. QED
    BY <1>2, <2>2, <2>4, <2>6 DEF a
<1>. QED
  BY <1>3, <1>4

-----------------------------------------------------------------------------
(* How process_header ends, without a panic.                               *)
LEMMA HeaderEnds ==
    ASSUME TypeOK, NEW n \in Honest, NEW h \in Header, ProcessHeader(n, h),
           author[h] = n => h \in core[n].own_headers
    PROVE  \E c \in CoreState :
              /\ EndTurn(n, c) /\ NoCertificateEffects
              /\ c.own_headers = core[n].own_headers
              /\ c.certificates_aggregators = core[n].certificates_aggregators
              /\ c.votes_aggregators = core[n].votes_aggregators
<1>. DEFINE c == HeaderProcessed(core[n], n, h)
<1>1. core[n] \in CoreState
  BY DEF TypeOK
<1>2. EndTurn(n, c) /\ NoCertificateEffects
  BY DEF ProcessHeader
<1>3. /\ c \in CoreState /\ c.own_headers = core[n].own_headers
      /\ c.certificates_aggregators = core[n].certificates_aggregators
      /\ c.votes_aggregators = core[n].votes_aggregators
  BY <1>1, HeaderProcessedType, HeaderProcessedOwn, HeaderProcessedFields
<1>. HIDE DEF c
<1>. QED
  BY <1>2, <1>3 DEF Ends

(* How process_certificate ends, if it does not panic.                     *)
LEMMA CertificateEnds ==
    ASSUME TypeOK, NEW n \in Honest, NEW h \in Header, NEW c \in CoreState,
           ProcessCertificate(c, n, h),
           author[h] = n => h \in c.own_headers \/ n \notin panicked'
    PROVE  \E d \in CoreState :
              /\ Ends(n, h, d)
              /\ d.own_headers = c.own_headers
              /\ d.certificates_aggregators = c.certificates_aggregators
              /\ d.votes_aggregators = c.votes_aggregators
<1>. DEFINE fresh == c.processing \cap SameId(h) = {}
            d == IF fresh THEN HeaderProcessed(c, n, h) ELSE c
<1>1. /\ d \in CoreState /\ d.own_headers = c.own_headers
      /\ d.certificates_aggregators = c.certificates_aggregators
      /\ d.votes_aggregators = c.votes_aggregators
  BY HeaderProcessedType, HeaderProcessedOwn, HeaderProcessedFields
<1>2. \/ NoCertificateEffects /\ EndTurn(n, d)
      \/ CertificateEffects(d, n, h) /\ EndTurn(n, CertificateProcessed(d, n, h))
  BY DEF ProcessCertificate
<1>. HIDE DEF d
<1>. QED
  BY <1>1, <1>2 DEF Ends

(* A turn of the Core of n on header h, which ends with Core state c:      *)
(* aggregated votes leave no more stake than before, a new certificate     *)
(* leaves no quorum, and a certificate of round 0 that is aggregated is    *)
(* a genesis certificate that is sent or has a Byzantine author.           *)
TurnOf(n, h, c) ==
    /\ \/ NoCertificateEffects /\ EndTurn(n, c)
       \/ /\ CertificateEffects(c, n, h)
          /\ EndTurn(n, CertificateProcessed(c, n, h))
          /\ round[h] > 0 \/ author[h] \in RoundZeroAuthors
    /\ c.certificates_aggregators = core[n].certificates_aggregators
    /\ c.own_headers \subseteq core[n].own_headers \cup {h}
    /\ \A g \in Header : Left(c.votes_aggregators[g])
                           <= Left(core[n].votes_aggregators[g])
    /\ \/ certificates' = certificates
       \/ /\ certificates' = certificates \cup {h} /\ author[h] = n
          /\ Left(c.votes_aggregators[h]) < quorum_threshold
    /\ UNCHANGED proposer
    /\ \/ UNCHANGED <<headers, rx_proposer>>
       \/ /\ rx_proposer[n] # <<>> /\ h = Head(rx_proposer[n])
          /\ rx_proposer' = [rx_proposer EXCEPT ![n] = Tail(@)]
          /\ headers' = headers \cup {h}

(* A turn that processes a header of another authority or one we hold.     *)
LEMMA HeaderTurn ==
    ASSUME TypeOK, NEW n \in Honest, NEW h \in Header, ProcessHeader(n, h),
           author[h] = n => h \in core[n].own_headers,
           UNCHANGED <<headers, certificates, proposer, rx_proposer>>
    PROVE  \E c \in CoreState : TurnOf(n, h, c)
<1>1. PICK c \in CoreState :
         /\ EndTurn(n, c) /\ NoCertificateEffects
         /\ c.own_headers = core[n].own_headers
         /\ c.certificates_aggregators = core[n].certificates_aggregators
         /\ c.votes_aggregators = core[n].votes_aggregators
  BY HeaderEnds
<1>2. \A g \in Header : Left(c.votes_aggregators[g]) \in Nat
  BY LeftType
<1>. QED
  BY <1>1, <1>2 DEF TurnOf

(* A turn that processes a certificate.                                    *)
LEMMA CertificateTurn ==
    ASSUME TypeOK, NEW n \in Honest, NEW h \in Header,
           ProcessCertificate(core[n], n, h),
           author[h] = n => h \in core[n].own_headers \/ n \notin panicked',
           round[h] > 0 \/ author[h] \in RoundZeroAuthors,
           UNCHANGED <<headers, certificates, proposer, rx_proposer>>
    PROVE  \E c \in CoreState : TurnOf(n, h, c)
<1>1. core[n] \in CoreState
  BY DEF TypeOK
<1>2. PICK c \in CoreState :
         /\ Ends(n, h, c)
         /\ c.own_headers = core[n].own_headers
         /\ c.certificates_aggregators = core[n].certificates_aggregators
         /\ c.votes_aggregators = core[n].votes_aggregators
  BY <1>1, CertificateEnds
<1>3. \A g \in Header : Left(c.votes_aggregators[g]) \in Nat
  BY LeftType
<1>. QED
  BY <1>2, <1>3 DEF TurnOf, Ends

(* A turn that processes a vote.                                           *)
LEMMA VoteTurn ==
    ASSUME TypeOK, AggregatorsSound, ProposalInv, NEW n \in Honest,
           NEW v \in Authority, NEW h \in core[n].own_headers,
           ReceiveVote(n, v, h)
    PROVE  \E c \in CoreState : TurnOf(n, h, c)
<1>. DEFINE e == AppendVote(core[n], v, h)
<1>1. core[n] \in CoreState /\ h \in Header
  BY DEF TypeOK, CoreState
<1>2. /\ e \in CoreState /\ e.own_headers = core[n].own_headers
      /\ e.certificates_aggregators = core[n].certificates_aggregators
  BY <1>1, AppendVoteType, AppendVoteOwn
<1>3. author[h] = n /\ h \in Acceptable(n) /\ round[h] > 0
  BY DEF ProposalInv, OwnHeadersKept, Acceptable
<1>4. /\ \A g \in Header : Left(e.votes_aggregators[g])
                             <= Left(core[n].votes_aggregators[g])
      /\ Assembles(core[n], v, h) =>
            Left(e.votes_aggregators[h]) < quorum_threshold
  <2>1. Counted(core[n].votes_aggregators[h])
    BY <1>1 DEF AggregatorsSound, Counted
  <2>. QED
    BY <1>1, <2>1, AppendVoteLeft
<1>5. /\ \/ /\ Assembles(core[n], v, h)
            /\ certificates' = certificates \cup {h}
            /\ ProcessCertificate(e, n, h)
         \/ /\ EndTurn(n, e) /\ NoCertificateEffects
            /\ UNCHANGED certificates
      /\ UNCHANGED <<headers, proposer, rx_proposer>>
  BY DEF ReceiveVote
<1>. HIDE DEF e
<1>6. \E c \in CoreState :
         /\ Ends(n, h, c)
         /\ c.own_headers = e.own_headers
         /\ c.certificates_aggregators = e.certificates_aggregators
         /\ c.votes_aggregators = e.votes_aggregators
  <2>1. CASE ProcessCertificate(e, n, h)
    BY <1>1, <1>2, <2>1, CertificateEnds
  <2>2. CASE EndTurn(n, e) /\ NoCertificateEffects
    BY <1>2, <2>2 DEF Ends
  <2>. QED
    BY <1>5, <2>1, <2>2
<1>. QED
  BY <1>2, <1>3, <1>4, <1>5, <1>6 DEF TurnOf, Ends

(* A turn that processes a header from the proposer.                       *)
LEMMA OwnHeaderTurn ==
    ASSUME TypeOK, AggregatorsSound, ProposalInv, NEW n \in Honest,
           ProcessOwnHeader(n)
    PROVE  \E h \in Header, c \in CoreState : TurnOf(n, h, c)
<1>. DEFINE h == Head(rx_proposer[n])
            c == [core[n] EXCEPT !.current_round = round[h],
                                 !.own_headers = @ \cup {h}]
            d == HeaderProcessed(c, n, h)
            e == IF Votes(n, h) THEN AppendVote(d, n, h) ELSE d
<1>1. h \in Acceptable(n) /\ rx_proposer[n] # <<>>
  <2>1. rx_proposer[n] \in Seq(Acceptable(n)) /\ rx_proposer[n] # <<>>
    BY DEF ProposalInv, SignalsValid, ProcessOwnHeader
  <2>. QED
    BY <2>1, HeadAndTail
<1>2. /\ h \in Header /\ round[h] \in Nat /\ round[h] > 0
      /\ author[h] = n /\ n \in Authority /\ ~Rejected(n, h)
  BY <1>1, HeaderAssumption, OwnAccepted DEF Acceptable, Honest
<1>3. core[n] \in CoreState
  BY DEF TypeOK
<1>4. /\ rx_proposer' = [rx_proposer EXCEPT ![n] = Tail(@)]
      /\ headers' = headers \cup {h}
      /\ \/ /\ Votes(n, h) /\ Assembles(d, n, h)
            /\ certificates' = certificates \cup {h}
            /\ CertificateEffects(e, n, h)
            /\ EndTurn(n, CertificateProcessed(e, n, h))
         \/ /\ NoCertificateEffects
            /\ EndTurn(n, e)
            /\ UNCHANGED certificates
      /\ UNCHANGED proposer
  <2>. HIDE DEF e, h
  <2>1. /\ rx_proposer' = [rx_proposer EXCEPT ![n] = Tail(@)]
        /\ headers' = IF Rejected(n, h) THEN headers ELSE headers \cup {h}
        /\ UNCHANGED proposer
    BY DEF ProcessOwnHeader, h
  <2>2. \/ /\ Votes(n, h) /\ Assembles(d, n, h)
           /\ certificates' = certificates \cup {h}
           /\ CertificateEffects(e, n, h)
           /\ EndTurn(n, CertificateProcessed(e, n, h))
        \/ /\ NoCertificateEffects
           /\ EndTurn(n, e)
           /\ UNCHANGED certificates
    BY DEF ProcessOwnHeader, e, d, c, h
  <2>. QED
    BY <1>2, <2>1, <2>2
<1>5. h = Head(rx_proposer[n])
  OBVIOUS
<1>. HIDE DEF h
<1>6. /\ c \in CoreState /\ c.own_headers = core[n].own_headers \cup {h}
      /\ c.certificates_aggregators = core[n].certificates_aggregators
      /\ c.votes_aggregators = core[n].votes_aggregators
  BY <1>2, <1>3 DEF CoreState
<1>. HIDE DEF c
<1>7. /\ d \in CoreState /\ d.own_headers = c.own_headers
      /\ d.certificates_aggregators = c.certificates_aggregators
      /\ d.votes_aggregators = c.votes_aggregators
  BY <1>2, <1>6, HeaderProcessedType, HeaderProcessedOwn, HeaderProcessedFields
<1>. HIDE DEF d
<1>8. /\ e \in CoreState /\ e.own_headers = d.own_headers
      /\ e.certificates_aggregators = d.certificates_aggregators
  BY <1>2, <1>7, AppendVoteType, AppendVoteOwn
<1>9. /\ \A g \in Header : Left(e.votes_aggregators[g])
                             <= Left(d.votes_aggregators[g])
      /\ Votes(n, h) /\ Assembles(d, n, h) =>
            Left(e.votes_aggregators[h]) < quorum_threshold
  <2>1. Counted(d.votes_aggregators[h])
    BY <1>2, <1>6, <1>7 DEF AggregatorsSound, Counted
  <2>2. CASE Votes(n, h)
    BY <1>2, <1>7, <2>1, <2>2, AppendVoteLeft
  <2>3. CASE ~Votes(n, h)
    BY <1>7, <2>3, LeftType
  <2>. QED
    BY <2>2, <2>3
<1>. HIDE DEF e
<1>10. Ends(n, h, e)
  BY <1>4 DEF Ends
<1>11. TurnOf(n, h, e)
  BY <1>1, <1>2, <1>4, <1>5, <1>6, <1>7, <1>8, <1>9, <1>10 DEF TurnOf, Ends
<1>. QED
  BY <1>2, <1>8, <1>11

(* A turn that panics leaves all this alone.                               *)
Stopped ==
    UNCHANGED <<core, headers, certificates, proposer, tx_proposer, rx_proposer>>

(* Every turn of the Core is such a turn on some header, or panics: on the *)
(* own genesis certificate.                                                *)
LEMMA EveryTurn ==
    ASSUME TypeOK, AggregatorsSound, DeliveriesCertified, ProposalInv,
           NEW n \in Honest, CoreTurn(n)
    PROVE  Stopped \/ \E h \in Header, c \in CoreState : TurnOf(n, h, c)
<1>. USE DEF ProposalInv
<1>1. \A h \in Header : round[h] \in Nat /\ author[h] \in Authority
  BY HeaderAssumption
<1>2. core[n].gc_round \in Nat
  BY DEF TypeOK, CoreState
<1>3. \A h \in certificates : round[h] > 0 \/ author[h] \in RoundZeroAuthors
  BY <1>1 DEF TypeOK, HonestCertified, OwnHeadersKept, Acceptable, Honest,
              RoundZeroAuthors
<1>4. CASE ProcessOwnHeader(n)
  BY <1>4, OwnHeaderTurn
<1>5. ASSUME NEW h \in headers, ReceiveHeader(n, h)
      PROVE  \E c \in CoreState : TurnOf(n, h, c)
  <2>1. /\ h \in Header
        /\ author[h] = n => h \in core[n].own_headers
        /\ UNCHANGED <<headers, certificates, proposer, rx_proposer>>
        /\ ProcessHeader(n, h)
    BY <1>1, <1>2, <1>5 DEF TypeOK, ReceiveHeader, OwnHeadersKept
  <2>. QED
    BY <2>1, HeaderTurn
<1>6. ASSUME NEW h \in rx_header_waiter[n], LoopbackHeader(n, h)
      PROVE  h \in Header /\ \E c \in CoreState : TurnOf(n, h, c)
  <2>1. /\ h \in Header /\ author[h] # n
        /\ UNCHANGED <<headers, certificates, proposer, rx_proposer>>
        /\ ProcessHeader(n, h)
    BY <1>6 DEF TypeOK, OthersWait, LoopbackHeader
  <2>. QED
    BY <2>1, HeaderTurn
<1>7. ASSUME NEW v \in Authority, NEW h \in core[n].own_headers, ReceiveVote(n, v, h)
      PROVE  h \in Header /\ \E c \in CoreState : TurnOf(n, h, c)
  <2>1. h \in Header
    BY DEF TypeOK, CoreState
  <2>. QED
    BY <1>7, <2>1, VoteTurn
<1>8. ASSUME NEW h \in certificates, ReceiveCertificate(n, h)
      PROVE  \E c \in CoreState : TurnOf(n, h, c)
  <2>1. /\ h \in Header
        /\ author[h] = n => h \in core[n].own_headers
        /\ UNCHANGED <<headers, certificates, proposer, rx_proposer>>
        /\ ProcessCertificate(core[n], n, h)
    BY <1>1, <1>2, <1>8 DEF TypeOK, ReceiveCertificate, OwnHeadersKept, HonestCertified
  <2>. QED
    BY <1>3, <2>1, CertificateTurn
<1>11. ASSUME NEW h \in StrayGenesis, ReceiveCertificate(n, h)
       PROVE  h \in Header /\ (Stopped \/ \E c \in CoreState : TurnOf(n, h, c))
  <2>1. /\ h \in Header /\ author[h] \in RoundZeroAuthors
        /\ n \notin panicked
        /\ UNCHANGED <<headers, certificates, proposer, rx_proposer>>
        /\ ProcessCertificate(core[n], n, h)
    BY <1>11, StrayGenesisType DEF ReceiveCertificate, RoundZeroAuthors, Authors
  <2>2. CASE UNCHANGED panicked
    BY <2>1, <2>2, CertificateTurn
  <2>3. CASE UNCHANGED core /\ NoCertificateEffects
    BY <2>1, <2>3 DEF Stopped, NoCertificateEffects
  <2>. QED
    BY <2>1, <2>2, <2>3 DEF ProcessCertificate
<1>9. ASSUME NEW h \in rx_certificate_waiter[n], LoopbackCertificate(n, h)
      PROVE  h \in Header /\ \E c \in CoreState : TurnOf(n, h, c)
  <2>1. /\ h \in Header /\ author[h] # n /\ h \in certificates
        /\ UNCHANGED <<headers, certificates, proposer, rx_proposer>>
        /\ ProcessCertificate(core[n], n, h)
    BY <1>9 DEF TypeOK, LoopbackCertificate, OthersWait, DeliveriesCertified
  <2>. QED
    BY <1>3, <2>1, CertificateTurn
<1>10. \A h \in headers \cup certificates : h \in Header
  BY DEF TypeOK
<1>. QED
  BY <1>4, <1>5, <1>6, <1>7, <1>8, <1>9, <1>10, <1>11 DEF CoreTurn

-----------------------------------------------------------------------------
(* The Core state after a turn that ends with d.                           *)
LEMMA EndTurnFields ==
    ASSUME TypeOK, GcBounded, NEW n \in Honest, NEW d \in CoreState, EndTurn(n, d)
    PROVE  /\ \A m \in Honest \ {n} : core'[m] = core[m]
           /\ core'[n].gc_round = GcRound(n) /\ core[n].gc_round <= GcRound(n)
           /\ core'[n].own_headers = {g \in d.own_headers : round[g] >= GcRound(n)}
           /\ \A g \in core'[n].own_headers :
                 core'[n].votes_aggregators[g] = d.votes_aggregators[g]
           /\ \A q \in Round :
                 core'[n].certificates_aggregators[q]
                    = IF q >= GcRound(n) THEN d.certificates_aggregators[q]
                                         ELSE EmptyCertificates
<1>1. /\ core'[n] = Collect(d, GcRound(n))
      /\ \A m \in Honest \ {n} : core'[m] = core[m]
      /\ GcRound(n) \in Nat
  BY EndTurnType, GcRoundType
<1>2. /\ core'[n].gc_round = GcRound(n) /\ core[n].gc_round <= GcRound(n)
      /\ core'[n].own_headers = {g \in d.own_headers : round[g] >= GcRound(n)}
      /\ \A q \in Round :
            core'[n].certificates_aggregators[q]
               = IF q >= GcRound(n) THEN d.certificates_aggregators[q]
                                    ELSE EmptyCertificates
  BY <1>1, CollectFields, CollectOwn, GcRoundGrows
<1>3. \A g \in core'[n].own_headers :
         core'[n].votes_aggregators[g] = d.votes_aggregators[g]
  BY <1>1, <1>2, CollectOwn
<1>. QED
  BY <1>1, <1>2, <1>3

(* The state a turn ends with before collection.                           *)
LEMMA TurnEndsWith ==
    ASSUME NEW n \in Honest, NEW h \in Header, NEW c \in CoreState, TurnOf(n, h, c)
    PROVE  \E d \in CoreState :
              /\ EndTurn(n, d)
              /\ d.own_headers = c.own_headers
              /\ d.votes_aggregators = c.votes_aggregators
              /\ \/ NoCertificateEffects /\ d = c
                 \/ /\ CertificateEffects(c, n, h)
                    /\ d = CertificateProcessed(c, n, h)
                    /\ round[h] > 0 \/ author[h] \in RoundZeroAuthors
<1>1. CASE NoCertificateEffects /\ EndTurn(n, c)
  BY <1>1
<1>2. CASE /\ CertificateEffects(c, n, h)
           /\ EndTurn(n, CertificateProcessed(c, n, h))
           /\ round[h] > 0 \/ author[h] \in RoundZeroAuthors
  BY <1>2, CertificateProcessedType, CertificateProcessedOwn, CertificateProcessedFields
<1>. QED
  BY <1>1, <1>2 DEF TurnOf

(* A turn keeps every certified own header short of a second quorum: if it *)
(* was certified before, it was an own header then or its round is         *)
(* collected now.                                                          *)
LEMMA TurnQuorumOnce ==
    ASSUME TypeOK, GcBounded, ProposalInv, QuorumOnce, TypeOK', ProposalInv',
           NEW n \in Honest, NEW h \in Header, NEW c \in CoreState, TurnOf(n, h, c)
    PROVE  QuorumOnce'
<1>1. /\ \A m \in Honest \ {n} : core'[m] = core[m]
      /\ core'[n].gc_round = GcRound(n) /\ core[n].gc_round <= GcRound(n)
      /\ core'[n].own_headers = {g \in c.own_headers : round[g] >= GcRound(n)}
      /\ \A g \in core'[n].own_headers :
            core'[n].votes_aggregators[g] = c.votes_aggregators[g]
  BY TurnEndsWith, EndTurnFields
<1>2. /\ core[n].gc_round \in Nat /\ GcRound(n) \in Nat
      /\ \A g \in Header : round[g] \in Nat
  BY GcRoundType, HeaderAssumption DEF TypeOK, CoreState
<1>3. SUFFICES ASSUME NEW m \in Honest, NEW g \in core'[m].own_headers,
                      g \in certificates'
               PROVE  Left(core'[m].votes_aggregators[g]) < quorum_threshold
  BY DEF QuorumOnce, Left
<1>4. g \in Header /\ author[g] = m
  BY DEF ProposalInv, OwnHeadersKept, TypeOK, CoreState
<1>5. \/ g \in certificates
      \/ m = n /\ g = h
  BY <1>3, <1>4 DEF TurnOf
<1>6. CASE m # n
  <2>1. g \in certificates /\ core'[m] = core[m]
    BY <1>1, <1>5, <1>6
  <2>. QED
    BY <1>3, <2>1 DEF QuorumOnce, Left
<1>7. CASE m = n /\ g \in certificates
  <2>1. g \in core[n].own_headers
    BY <1>1, <1>2, <1>3, <1>4, <1>7 DEF ProposalInv, HonestCertified, OwnHeadersKept
  <2>2. Left(core[n].votes_aggregators[g]) < quorum_threshold
    BY <1>7, <2>1 DEF QuorumOnce, Left
  <2>3. Left(c.votes_aggregators[g]) <= Left(core[n].votes_aggregators[g])
    BY <1>4 DEF TurnOf
  <2>4. /\ Left(core[n].votes_aggregators[g]) \in Nat
        /\ Left(c.votes_aggregators[g]) \in Nat
    BY <1>4, LeftType DEF TypeOK
  <2>. QED
    BY <1>1, <1>3, <1>7, <2>2, <2>3, <2>4, Thresholds
<1>8. CASE m = n /\ g = h /\ g \notin certificates
  BY <1>1, <1>3, <1>8 DEF TurnOf
<1>. QED
  BY <1>5, <1>6, <1>7, <1>8

(* After its certificate is assembled, the votes still to come for an own  *)
(* header cannot assemble another (VotesAggregator::append, "Ensures       *)
(* quorum is only reached once"), whatever the stakes.                     *)
THEOREM QuorumOnceHolds == Spec => []QuorumOnce
<1>1. Init => QuorumOnce
  BY DEF Init, QuorumOnce
<1>2. ASSUME Inv, ProposalInv, QuorumOnce, TypeOK', ProposalInv', [Next]_vars
      PROVE  QuorumOnce'
  <2>1. ASSUME NEW n \in Honest, CoreTurn(n) PROVE QuorumOnce'
    <3>1. CASE Stopped
      BY <1>2, <3>1 DEF Stopped, QuorumOnce
    <3>2. ASSUME NEW h \in Header, NEW c \in CoreState, TurnOf(n, h, c)
          PROVE  QuorumOnce'
      BY <1>2, <3>2, TurnQuorumOnce DEF Inv
    <3>. QED
      BY <1>2, <2>1, <3>1, <3>2, EveryTurn DEF Inv
  <2>2. CASE UNCHANGED <<core, certificates>>
    BY <1>2, <2>2 DEF QuorumOnce
  <2>3. ASSUME NEW n \in Honest, \/ ProposerTask(n) \/ WaiterTask(n)
                                 \/ WorkerTask(n) \/ GarbageCollectorTask(n)
        PROVE  UNCHANGED <<core, certificates>>
    BY <2>3 DEF ProposerTask, ProposerReceivesSignal, MakeHeader, WaiterTask,
                HeaderWaiterDelivers, HeaderWaiterCleanup,
                CertificateWaiterDelivers, WorkerTask, ReceivePayload,
                GarbageCollectorTask, AdvanceConsensus, network
  <2>4. ASSUME NEW h \in Header, ByzantineHeader(h) PROVE QuorumOnce'
    BY <2>2, <2>4 DEF ByzantineHeader
  <2>5. ASSUME NEW h \in Header, ByzantineCertificate(h) PROVE QuorumOnce'
    <3>1. core' = core /\ certificates' = certificates \cup {h}
      BY <2>5 DEF ByzantineCertificate
    <3>2. \A n \in Honest : h \notin core[n].own_headers
      BY <1>2, <2>5 DEF ByzantineCertificate, Honest, ProposalInv, OwnHeadersKept
    <3>. QED
      BY <1>2, <3>1, <3>2 DEF QuorumOnce
  <2>6. CASE UNCHANGED vars
    BY <2>2, <2>6 DEF vars, network
  <2>. QED
    BY <1>2, <2>1, <2>2, <2>3, <2>4, <2>5, <2>6 DEF Next
<1>3. Inv => TypeOK
  BY DEF Inv
<1>. QED
  BY <1>1, <1>2, <1>3, Invariance, ProposalInvariance, PTL DEF Spec

-----------------------------------------------------------------------------
(* No signal for round r + 1 will come from Core state c (again): round r  *)
(* is collected, or the stake left for it is no quorum.                    *)
Spent(c, r) ==
    \/ r < c.gc_round
    \/ r \in Round /\ Left(c.certificates_aggregators[r]) < quorum_threshold

(* Round 1 may be signalled any number of times, if genesis certificates   *)
(* of a quorum are sent.                                                   *)
Free(r) == r = 1 /\ HasQuorum(RoundZeroAuthors)

(* A proposer in state p with the signals t on their way to it from Core   *)
(* state c: but for those of a free round, they are for distinct rounds,   *)
(* all spent.                                                              *)
SignalsOf(c, p, t) ==
    /\ p.round > 0
    /\ p.round > 1 => Spent(c, p.round - 1)
    /\ \A i \in 1..Len(t) :
          \/ Free(t[i].round)
          \/ /\ t[i].round > 1
             /\ Spent(c, t[i].round - 1)
             /\ t[i].round # p.round
             /\ \A j \in 1..Len(t) : i # j => t[i].round # t[j].round

(* A proposer in state p will not make another header of round r.          *)
Before(p, r) ==
    \/ r < p.round
    \/ r = p.round /\ p.parents = {}

(* The headers H that n broadcast and the headers t on their way to its    *)
(* Core, made by a proposer in state p: their rounds increase, but for     *)
(* headers of a free round.                                                *)
HeadersOf(n, H, p, t) ==
    /\ \A h \in H : author[h] = n => Free(round[h]) \/ Before(p, round[h])
    /\ \A i \in 1..Len(t) :
          /\ Free(round[t[i]]) \/ Before(p, round[t[i]])
          /\ \A h \in H : author[h] = n =>
                Free(round[t[i]]) \/ round[h] < round[t[i]]
          /\ \A j \in 1..Len(t) : i < j =>
                Free(round[t[j]]) \/ round[t[i]] < round[t[j]]

(* The aggregators of collected rounds are empty, and those of round 0     *)
(* have counted only authors whose certificates of round 0 there may be.   *)
CollectedEmpty ==
    \A n \in Honest, q \in Round :
       /\ q < core[n].gc_round =>
             core[n].certificates_aggregators[q] = EmptyCertificates
       /\ q = 0 =>
             core[n].certificates_aggregators[q].used \subseteq RoundZeroAuthors

(* At most one signal for every round that is not free is on its way or    *)
(* was taken last.                                                         *)
SignalsOnce ==
    \A n \in Honest : SignalsOf(core[n], proposer[n], tx_proposer[n])

(* Proposers make headers of increasing rounds, but for free ones.         *)
HeadersOrdered ==
    \A n \in Honest : HeadersOf(n, headers, proposer[n], rx_proposer[n])

(* The inductive invariant behind OneProposalPerRound.                     *)
OnceInv ==
    /\ CollectedEmpty
    /\ SignalsOnce
    /\ HeadersOrdered
    /\ OneProposalPerRound

-----------------------------------------------------------------------------
(* Signals are for natural rounds.                                         *)
LEMMA SignalRounds ==
    /\ \A s \in Signal : s.round \in Nat
    /\ \A t \in Seq(Signal) : \A i \in 1..Len(t) : t[i].round \in Nat
<1>1. \A s \in Signal : s.round \in Nat
  BY DEF Signal
<1>. QED
  BY <1>1

(* The signals stay as they should while rounds stay spent.                *)
LEMMA SignalsKept ==
    ASSUME NEW c, NEW d, NEW p \in Signal, NEW t \in Seq(Signal),
           SignalsOf(c, p, t), \A r \in Nat : Spent(c, r) => Spent(d, r)
    PROVE  SignalsOf(d, p, t)
<1>1. p.round \in Nat /\ \A i \in 1..Len(t) : t[i].round \in Nat
  BY SignalRounds
<1>. QED
  BY <1>1 DEF SignalsOf

(* A new signal is for a free round, or for one that was not spent before  *)
(* and is now.                                                             *)
LEMMA SignalAdded ==
    ASSUME NEW c, NEW d, NEW p \in Signal, NEW t \in Seq(Signal),
           NEW s \in Signal,
           SignalsOf(c, p, t), \A r \in Nat : Spent(c, r) => Spent(d, r),
           \/ Free(s.round)
           \/ s.round > 1 /\ ~Spent(c, s.round - 1) /\ Spent(d, s.round - 1)
    PROVE  SignalsOf(d, p, Append(t, s))
<1>. DEFINE u == Append(t, s)
<1>1. /\ p.round \in Nat /\ s.round \in Nat
      /\ \A i \in 1..Len(t) : t[i].round \in Nat
  BY SignalRounds
<1>2. SignalsOf(d, p, t)
  BY SignalsKept
<1>3. /\ Len(u) = Len(t) + 1 /\ Len(t) \in Nat
      /\ \A i \in 1..Len(u) : u[i] = IF i = Len(t) + 1 THEN s ELSE t[i]
  OBVIOUS
<1>4. \/ Free(s.round)
      \/ /\ s.round > 1 /\ Spent(d, s.round - 1) /\ s.round # p.round
         /\ \A i \in 1..Len(t) : t[i].round # s.round
  BY <1>1 DEF SignalsOf, Free
<1>. HIDE DEF u
<1>5. SignalsOf(d, p, u)
  <2>1. ASSUME NEW i \in 1..Len(u), ~Free(u[i].round)
        PROVE  /\ u[i].round > 1 /\ Spent(d, u[i].round - 1)
               /\ u[i].round # p.round
    BY <1>2, <1>3, <1>4, <2>1 DEF SignalsOf
  <2>2. ASSUME NEW i \in 1..Len(u), NEW j \in 1..Len(u), i # j, ~Free(u[i].round)
        PROVE  u[i].round # u[j].round
    <3>1. CASE i = Len(t) + 1
      BY <1>3, <1>4, <2>2, <3>1
    <3>2. CASE i \in 1..Len(t) /\ j \in 1..Len(t)
      BY <1>2, <1>3, <2>2, <3>2 DEF SignalsOf
    <3>3. CASE i \in 1..Len(t) /\ j = Len(t) + 1
      BY <1>3, <1>4, <2>2, <3>3 DEF Free
    <3>. QED
      BY <1>3, <3>1, <3>2, <3>3
  <2>. QED
    BY <1>2, <2>1, <2>2 DEF SignalsOf
<1>. QED
  BY <1>5 DEF u

(* Proposer::run takes a signal: it ignores those of older rounds, and     *)
(* only one of a free round is for the round it is in.                     *)
LEMMA SignalTaken ==
    ASSUME NEW c, NEW p \in Signal, NEW q \in Signal, NEW t \in Seq(Signal),
           t # <<>>, SignalsOf(c, p, t),
           q = IF Head(t).round < p.round THEN p ELSE Head(t)
    PROVE  /\ SignalsOf(c, q, Tail(t))
           /\ \/ q = p
              \/ q.round > p.round
              \/ q.round = p.round /\ Free(q.round)
<1>. DEFINE u == Tail(t)
<1>1. /\ p.round \in Nat /\ Head(t) = t[1] /\ 1 \in 1..Len(t)
      /\ \A i \in 1..Len(t) : t[i].round \in Nat
  BY SignalRounds
<1>2. \A i \in 1..Len(u) : /\ u[i] = t[i + 1] /\ i + 1 \in 1..Len(t)
                           /\ i + 1 # 1 /\ i \in Nat
  OBVIOUS
<1>3. \/ q = p
      \/ q = t[1] /\ q.round > p.round
      \/ q = t[1] /\ q.round = p.round /\ Free(q.round)
  BY <1>1 DEF SignalsOf
<1>4. \A i \in 1..Len(u), j \in 1..Len(u) : i # j => i + 1 # j + 1
  BY <1>2
<1>. HIDE DEF u
<1>5. SignalsOf(c, q, u)
  <2>1. ASSUME NEW i \in 1..Len(u), ~Free(u[i].round)
        PROVE  /\ u[i].round > 1 /\ Spent(c, u[i].round - 1)
               /\ u[i].round # p.round /\ u[i].round # t[1].round
    BY <1>1, <1>2, <2>1 DEF SignalsOf
  <2>2. ASSUME NEW i \in 1..Len(u), NEW j \in 1..Len(u), i # j, ~Free(u[i].round)
        PROVE  u[i].round # u[j].round
    BY <1>2, <1>4, <2>2 DEF SignalsOf
  <2>3. /\ q.round > 0
        /\ q.round > 1 => Spent(c, q.round - 1)
    BY <1>1, <1>3 DEF SignalsOf, Free
  <2>. QED
    BY <1>1, <1>3, <2>1, <2>2, <2>3 DEF SignalsOf
<1>. QED
  BY <1>3, <1>5 DEF u

(* Draining the parents does not change the round.                         *)
LEMMA ParentsDrained ==
    ASSUME NEW c, NEW p, NEW q, NEW t, SignalsOf(c, p, t), q.round = p.round
    PROVE  SignalsOf(c, q, t)
  BY DEF SignalsOf

(* A proposer that moves to a later round, or repeats a free one, will     *)
(* make no older header.                                                   *)
LEMMA ProposerAdvanced ==
    ASSUME NEW n, NEW H \in SUBSET Header, NEW p \in Signal, NEW q \in Signal,
           NEW t \in Seq(Header), HeadersOf(n, H, p, t),
           \/ q = p
           \/ q.round > p.round
           \/ q.round = p.round /\ Free(q.round)
    PROVE  HeadersOf(n, H, q, t)
<1>1. /\ p.round \in Nat /\ q.round \in Nat
      /\ \A h \in Header : round[h] \in Nat
      /\ \A i \in 1..Len(t) : t[i] \in Header
  BY HeaderAssumption DEF Signal
<1>2. \A r \in Nat : Before(p, r) => Free(r) \/ Before(q, r)
  BY <1>1 DEF Before
<1>. QED
  BY <1>1, <1>2 DEF HeadersOf

(* A header made with the parents of the current round is later than all   *)
(* before it, or of a free round.                                          *)
LEMMA ProposalAdded ==
    ASSUME NEW n, NEW H \in SUBSET Header, NEW p \in Signal, NEW q \in Signal,
           NEW t \in Seq(Header), NEW h \in Header, HeadersOf(n, H, p, t),
           p.parents # {}, p.round > 0, round[h] = p.round,
           q.round = p.round, q.parents = {}
    PROVE  HeadersOf(n, H, q, Append(t, h))
<1>. DEFINE u == Append(t, h)
<1>1. /\ p.round \in Nat
      /\ \A g \in Header : round[g] \in Nat
      /\ \A i \in 1..Len(t) : t[i] \in Header
  BY HeaderAssumption DEF Signal
<1>2. /\ Len(u) = Len(t) + 1 /\ Len(t) \in Nat
      /\ \A i \in 1..Len(u) : u[i] = IF i = Len(t) + 1 THEN h ELSE t[i]
  OBVIOUS
<1>3. /\ \A g \in H : author[g] = n => Free(round[g]) \/ round[g] < p.round
      /\ \A i \in 1..Len(t) : Free(round[t[i]]) \/ round[t[i]] < p.round
  BY DEF HeadersOf, Before
<1>4. /\ Before(q, p.round)
      /\ \A r \in Nat : r < p.round => Before(q, r)
      /\ \A r \in Nat : Free(r) => Free(p.round) \/ r < p.round
  BY <1>1 DEF Before, Free
<1>. HIDE DEF u
<1>5. HeadersOf(n, H, q, u)
  <2>1. \A g \in H : author[g] = n => Free(round[g]) \/ Before(q, round[g])
    BY <1>1, <1>3, <1>4
  <2>2. ASSUME NEW i \in 1..Len(u)
        PROVE  /\ Free(round[u[i]]) \/ Before(q, round[u[i]])
               /\ \A g \in H : author[g] = n =>
                     Free(round[u[i]]) \/ round[g] < round[u[i]]
    BY <1>1, <1>2, <1>3, <1>4 DEF HeadersOf
  <2>3. ASSUME NEW i \in 1..Len(u), NEW j \in 1..Len(u), i < j
        PROVE  Free(round[u[j]]) \/ round[u[i]] < round[u[j]]
    BY <1>1, <1>2, <1>3, <1>4, <2>3 DEF HeadersOf
  <2>. QED
    BY <2>1, <2>2, <2>3 DEF HeadersOf
<1>. QED
  BY <1>5 DEF u

(* The Core broadcasts the headers in the order they were made.            *)
LEMMA ProposalProcessed ==
    ASSUME NEW n, NEW H \in SUBSET Header, NEW p, NEW t \in Seq(Header),
           t # <<>>, HeadersOf(n, H, p, t)
    PROVE  /\ HeadersOf(n, H \cup {Head(t)}, p, Tail(t))
           /\ \A g \in H : author[g] = n =>
                 Free(round[Head(t)]) \/ round[g] < round[Head(t)]
<1>. DEFINE u == Tail(t)
<1>1. Head(t) = t[1] /\ 1 \in 1..Len(t)
  OBVIOUS
<1>2. \A i \in 1..Len(u) : /\ u[i] = t[i + 1] /\ i + 1 \in 1..Len(t)
                           /\ 1 < i + 1 /\ i \in Nat
  OBVIOUS
<1>3. \A i \in 1..Len(u), j \in 1..Len(u) : i < j => i + 1 < j + 1
  BY <1>2
<1>. HIDE DEF u
<1>4. HeadersOf(n, H \cup {t[1]}, p, u)
  <2>1. ASSUME NEW i \in 1..Len(u)
        PROVE  /\ Free(round[u[i]]) \/ Before(p, round[u[i]])
               /\ \A g \in H \cup {t[1]} : author[g] = n =>
                     Free(round[u[i]]) \/ round[g] < round[u[i]]
    BY <1>1, <1>2 DEF HeadersOf
  <2>2. ASSUME NEW i \in 1..Len(u), NEW j \in 1..Len(u), i < j
        PROVE  Free(round[u[j]]) \/ round[u[i]] < round[u[j]]
    BY <1>2, <1>3, <2>2 DEF HeadersOf
  <2>. QED
    BY <1>1, <2>1, <2>2 DEF HeadersOf
<1>. QED
  BY <1>1, <1>4 DEF HeadersOf, u

-----------------------------------------------------------------------------
(* A part of what is no quorum is none.                                    *)
LEMMA NoQuorumBelow ==
    ASSUME NEW T \in SUBSET Authority, NEW S \in SUBSET T, ~HasQuorum(T)
    PROVE  Weight[S] < quorum_threshold
<1>1. S \in SUBSET Authority /\ S \subseteq T
  OBVIOUS
<1>2. /\ Weight[S] \in Nat /\ Weight[T] \in Nat
      /\ Weight[S] <= Weight[T]
  BY <1>1, WeightMonotone
<1>. QED
  BY <1>2, Thresholds DEF HasQuorum

(* The aggregators of certificates hold no more weight than they counted.  *)
LEMMA CertificatesCounted ==
    ASSUME NEW c \in CoreState, NEW S, CertAggSound(c, S), NEW q \in Round
    PROVE  Counted(c.certificates_aggregators[q])
<1>. DEFINE a == c.certificates_aggregators[q]
<1>1. /\ a.weight \in Nat /\ a.used \in SUBSET Authority
      /\ a.certificates \in SUBSET Header
  BY DEF CoreState
<1>2. Authors(a.certificates) \subseteq a.used /\ a.weight <= Weight[Authors(a.certificates)]
  BY DEF CertAggSound
<1>. HIDE DEF a
<1>3. Authors(a.certificates) \in SUBSET Authority
  BY <1>1, AuthorsType
<1>4. /\ Weight[Authors(a.certificates)] <= Weight[a.used]
      /\ Weight[Authors(a.certificates)] \in Nat /\ Weight[a.used] \in Nat
  BY <1>1, <1>2, <1>3, WeightMonotone
<1>5. Counted(a)
  BY <1>1, <1>2, <1>4 DEF Counted
<1>. QED
  BY <1>5 DEF a

(* What appending the certificate of h to Core state c may do: no          *)
(* aggregator gains stake, and a signal t is only sent if a quorum was     *)
(* left in the aggregator of h and none is any more.                       *)
Appended(c, d, h, t) ==
    /\ \A q \in Round :
          /\ Left(d.certificates_aggregators[q]) <= Left(c.certificates_aggregators[q])
          /\ d.certificates_aggregators[q].used
                \subseteq c.certificates_aggregators[q].used
                            \cup (IF q = round[h] THEN {author[h]} ELSE {})
    /\ \/ t = <<>>
       \/ \E s \in Signal :
             /\ t = <<s>> /\ s.round = round[h] + 1
             /\ LET a == c.certificates_aggregators[round[h]]
                    b == d.certificates_aggregators[round[h]]
                IN /\ author[h] \notin a.used
                   /\ a.weight + Weight[{author[h]}] >= quorum_threshold
                   /\ Left(a) >= quorum_threshold /\ Left(b) < quorum_threshold

(* Leaving the state alone is one such outcome.                            *)
LEMMA NothingAppended ==
    ASSUME NEW c \in CoreState, NEW h
    PROVE  Appended(c, c, h, <<>>)
<1>1. \A q \in Round : Left(c.certificates_aggregators[q]) \in Nat
  BY LeftType
<1>. QED
  BY <1>1 DEF Appended

(* CertificatesAggregator::append is another.                              *)
LEMMA CertificateAppended ==
    ASSUME NEW c \in CoreState, NEW h \in Header,
           Counted(c.certificates_aggregators[round[h]])
    PROVE  Appended(c, AppendCertificate(c, h), h, Signals(c, h))
<1>. DEFINE r == round[h]
            a == c.certificates_aggregators[r]
            w == a.weight + Weight[{author[h]}]
            full == w >= quorum_threshold
            b == [weight |-> IF full THEN 0 ELSE w,
                  used   |-> a.used \cup {author[h]},
                  certificates |-> IF full THEN {} ELSE a.certificates \cup {h}]
            d == AppendCertificate(c, h)
            s == [round |-> r + 1, parents |-> a.certificates \cup {h}]
<1>1. /\ r \in Round /\ r \in Nat /\ author[h] \in Authority
      /\ a.weight \in Nat /\ a.used \in SUBSET Authority
      /\ a.certificates \in SUBSET Header
  BY RoundType, HeaderAssumption DEF CoreState
<1>2. \A q \in Round : Left(c.certificates_aggregators[q]) \in Nat
  BY LeftType
<1>3. CASE author[h] \in a.used
  <2>1. d = c /\ Signals(c, h) = <<>>
    BY <1>3 DEF AppendCertificate, Signals
  <2>. QED
    BY <2>1, NothingAppended
<1>4. CASE author[h] \notin a.used
  <2>1. d = [c EXCEPT !.certificates_aggregators[r] = b]
    BY <1>4 DEF AppendCertificate
  <2>2. \A q \in Round : d.certificates_aggregators[q]
                         = IF q = r THEN b ELSE c.certificates_aggregators[q]
    <3>. HIDE DEF b
    <3>. QED
      BY <1>1, <2>1 DEF CoreState
  <2>3. /\ b.used = a.used \cup {author[h]}
        /\ b.weight = IF a.weight + Weight[{author[h]}] >= quorum_threshold
                      THEN 0 ELSE a.weight + Weight[{author[h]}]
    OBVIOUS
  <2>4. Signals(c, h) = IF full THEN <<s>> ELSE <<>>
    BY <1>4 DEF Signals
  <2>5. s \in Signal /\ s.round = r + 1
    BY <1>1 DEF Signal
  <2>6. Counted(a)
    OBVIOUS
  <2>7. full <=> a.weight + Weight[{author[h]}] >= quorum_threshold
    OBVIOUS
  <2>. HIDE DEF a, b, d, s, full
  <2>8. /\ Left(b) <= Left(a)
        /\ a.weight + Weight[{author[h]}] >= quorum_threshold =>
              /\ Left(b) < quorum_threshold
              /\ Left(a) >= quorum_threshold
    BY <1>1, <1>4, <2>3, <2>6, LeftAfter
  <2>9. \A q \in Round :
           /\ Left(d.certificates_aggregators[q])
                 <= Left(c.certificates_aggregators[q])
           /\ d.certificates_aggregators[q].used
                 \subseteq c.certificates_aggregators[q].used
                             \cup (IF q = r THEN {author[h]} ELSE {})
    BY <1>2, <2>2, <2>3, <2>8 DEF a
  <2>10. d.certificates_aggregators[r] = b
    BY <1>1, <2>2
  <2>11. Appended(c, d, h, Signals(c, h))
    <3>1. CASE ~full
      BY <2>4, <2>9, <3>1 DEF Appended
    <3>2. CASE full
      BY <1>4, <2>4, <2>5, <2>7, <2>8, <2>9, <2>10, <3>2 DEF Appended, a
    <3>. QED
      BY <3>1, <3>2
  <2>. QED
    BY <2>11 DEF d
<1>. QED
  BY <1>3, <1>4

(* It is about the aggregators of certificates alone.                      *)
LEMMA AppendedSame ==
    ASSUME NEW c, NEW e, NEW d, NEW h, NEW t, Appended(c, d, h, t),
           c.certificates_aggregators = e.certificates_aggregators
    PROVE  Appended(e, d, h, t)
  BY DEF Appended

(* Every turn appends at most one certificate.                             *)
LEMMA TurnAppends ==
    ASSUME TypeOK, SignalsValid, NEW n \in Honest, NEW h \in Header,
           NEW c \in CoreState, TurnOf(n, h, c)
    PROVE  \E d \in CoreState, t \in Seq(Signal) :
              /\ EndTurn(n, d)
              /\ Appended(core[n], d, h, t)
              /\ \/ tx_proposer' = [tx_proposer EXCEPT ![n] = @ \o t]
                 \/ t = <<>> /\ tx_proposer' = tx_proposer
              /\ \/ round[h] > 0
                 \/ author[h] \in RoundZeroAuthors
                 \/ d.certificates_aggregators = core[n].certificates_aggregators
<1>1. PICK d \in CoreState :
         /\ EndTurn(n, d)
         /\ \/ NoCertificateEffects /\ d = c
            \/ /\ CertificateEffects(c, n, h)
               /\ d = CertificateProcessed(c, n, h)
               /\ round[h] > 0 \/ author[h] \in RoundZeroAuthors
  BY TurnEndsWith
<1>2. c.certificates_aggregators = core[n].certificates_aggregators
  BY DEF TurnOf
<1>3. CASE d = c /\ UNCHANGED tx_proposer
  <2>1. Appended(core[n], d, h, <<>>) /\ <<>> \in Seq(Signal)
    BY <1>2, <1>3, NothingAppended, AppendedSame
  <2>. QED
    BY <1>1, <1>2, <1>3, <2>1
<1>4. CASE /\ d = AppendCertificate(c, h)
           /\ tx_proposer' = [tx_proposer EXCEPT ![n] = @ \o Signals(c, h)]
           /\ round[h] > 0 \/ author[h] \in RoundZeroAuthors
  <2>1. Counted(c.certificates_aggregators[round[h]])
    <3>1. CertAggSound(c, store[n])
      BY <1>2 DEF SignalsValid, CertAggSound
    <3>. QED
      BY <3>1, CertificatesCounted, RoundType
  <2>2. Appended(core[n], d, h, Signals(c, h)) /\ Signals(c, h) \in Seq(Signal)
    BY <1>2, <1>4, <2>1, CertificateAppended, AppendedSame, AppendCertificateType
  <2>. QED
    BY <1>1, <1>4, <2>2
<1>. QED
  BY <1>1, <1>3, <1>4
     DEF NoCertificateEffects, CertificateEffects, CertificateProcessed

(* A turn sends at most one signal, for a free round or one that was not   *)
(* spent: a collected aggregator would need an authority that is a quorum  *)
(* alone, and that of round 0 a quorum of genesis certificates.            *)
LEMMA TurnSignals ==
    ASSUME TypeOK, GcBounded, SignalsValid, CollectedEmpty, NoSoleQuorum,
           NEW n \in Honest, NEW h \in Header, NEW c \in CoreState, TurnOf(n, h, c)
    PROVE  /\ CollectedEmpty'
           /\ \A m \in Honest \ {n} : core'[m] = core[m]
           /\ \A r \in Nat : Spent(core[n], r) => Spent(core'[n], r)
           /\ \/ tx_proposer' = tx_proposer
              \/ \E s \in Signal :
                    /\ tx_proposer' = [tx_proposer EXCEPT ![n] = Append(@, s)]
                    /\ \/ Free(s.round)
                       \/ /\ s.round > 1
                          /\ ~Spent(core[n], s.round - 1)
                          /\ Spent(core'[n], s.round - 1)
<1>1. PICK d \in CoreState, t \in Seq(Signal) :
              /\ EndTurn(n, d)
              /\ Appended(core[n], d, h, t)
              /\ \/ tx_proposer' = [tx_proposer EXCEPT ![n] = @ \o t]
                 \/ t = <<>> /\ tx_proposer' = tx_proposer
              /\ \/ round[h] > 0
                 \/ author[h] \in RoundZeroAuthors
                 \/ d.certificates_aggregators = core[n].certificates_aggregators
  BY TurnAppends
<1>. DEFINE G == GcRound(n)
            old(q) == core[n].certificates_aggregators[q]
            new(q) == core'[n].certificates_aggregators[q]
            mid(q) == d.certificates_aggregators[q]
<1>2. /\ \A m \in Honest \ {n} : core'[m] = core[m]
      /\ core'[n].gc_round = G /\ core[n].gc_round <= G
      /\ \A q \in Round : new(q) = IF q >= G THEN mid(q) ELSE EmptyCertificates
  BY <1>1, EndTurnFields
<1>3. /\ G \in Nat /\ core[n].gc_round \in Nat /\ core[n] \in CoreState
      /\ Round \subseteq Nat /\ round[h] \in Round /\ author[h] \in Authority
  BY GcRoundType, RoundType, HeaderAssumption DEF TypeOK, CoreState
<1>4. \A q \in Round : /\ Left(old(q)) \in Nat /\ Left(mid(q)) \in Nat
                       /\ Left(mid(q)) <= Left(old(q))
  BY <1>1, <1>3, LeftType DEF Appended
<1>5. EmptyCertificates.used = {} /\ EmptyCertificates.weight = 0
  BY DEF EmptyCertificates
<1>6. CollectedEmpty'
  <2>1. \A q \in Round : q < G => new(q) = EmptyCertificates
    BY <1>2, <1>3
  <2>2. ASSUME 0 \in Round PROVE new(0).used \subseteq RoundZeroAuthors
    <3>1. old(0).used \subseteq RoundZeroAuthors
      BY <2>2 DEF CollectedEmpty
    <3>2. mid(0).used \subseteq RoundZeroAuthors
      <4>1. CASE d.certificates_aggregators = core[n].certificates_aggregators
        BY <3>1, <4>1
      <4>2. CASE round[h] > 0 \/ author[h] \in RoundZeroAuthors
        <5>1. mid(0).used \subseteq old(0).used
                 \cup (IF 0 = round[h] THEN {author[h]} ELSE {})
          BY <1>1, <2>2 DEF Appended
        <5>. QED
          BY <3>1, <4>2, <5>1
      <4>. QED
        BY <1>1, <4>1, <4>2
    <3>. QED
      BY <1>2, <1>5, <2>2, <3>2
  <2>3. \A m \in Honest \ {n}, q \in Round :
           /\ q < core'[m].gc_round =>
                 core'[m].certificates_aggregators[q] = EmptyCertificates
           /\ q = 0 =>
                 core'[m].certificates_aggregators[q].used \subseteq RoundZeroAuthors
    BY <1>2 DEF CollectedEmpty
  <2>. QED
    BY <1>2, <2>1, <2>2, <2>3 DEF CollectedEmpty
<1>7. ASSUME NEW r \in Nat, \/ Spent(core[n], r)
                            \/ r \in Round /\ Left(mid(r)) < quorum_threshold
      PROVE  Spent(core'[n], r)
  <2>1. \/ r < G
        \/ r \in Round /\ Left(mid(r)) < quorum_threshold
    <3>1. quorum_threshold \in Nat
      BY Thresholds
    <3>. QED
      BY <1>2, <1>3, <1>4, <1>7, <3>1 DEF Spent
  <2>. QED
    BY <1>2, <1>3, <2>1 DEF Spent
<1>8. ASSUME t # <<>>
      PROVE  \E s \in Signal :
                    /\ tx_proposer' = [tx_proposer EXCEPT ![n] = Append(@, s)]
                    /\ \/ Free(s.round)
                       \/ /\ s.round > 1
                          /\ ~Spent(core[n], s.round - 1)
                          /\ Spent(core'[n], s.round - 1)
  <2>. DEFINE r == round[h]
  <2>0. /\ r \in Nat /\ r \in Round /\ quorum_threshold \in Nat
        /\ Left(old(r)) \in Nat /\ Left(mid(r)) \in Nat
    BY <1>3, <1>4, Thresholds
  <2>1. PICK s \in Signal :
             /\ t = <<s>> /\ s.round = r + 1
             /\ author[h] \notin old(r).used
             /\ old(r).weight + Weight[{author[h]}] >= quorum_threshold
             /\ Left(old(r)) >= quorum_threshold /\ Left(mid(r)) < quorum_threshold
    BY <1>1, <1>8 DEF Appended
  <2>2. /\ {author[h]} \in SUBSET Authority
        /\ Weight[{author[h]}] \in Nat /\ Weight[{author[h]}] < quorum_threshold
    BY <1>3, WeightAssumption, Thresholds DEF NoSoleQuorum, HasQuorum
  <2>3. ~(r < core[n].gc_round)
    <3>1. SUFFICES ASSUME r < core[n].gc_round PROVE FALSE
      OBVIOUS
    <3>2. old(r) = EmptyCertificates
      BY <1>3, <3>1 DEF CollectedEmpty
    <3>3. 0 + Weight[{author[h]}] >= quorum_threshold
      BY <1>5, <2>1, <3>2
    <3>. QED
      BY <2>2, <3>3, Thresholds
  <2>4. ~Spent(core[n], r)
    BY <2>0, <2>1, <2>3 DEF Spent
  <2>5. Spent(core'[n], r)
    <3>. HIDE DEF r, mid
    <3>. QED
      BY <1>7, <2>0, <2>1
  <2>6. r > 0 \/ Free(r + 1)
    <3>0. RoundZeroAuthors \in SUBSET Authority
      BY ByzantineAssumption, StrayGenesisType, AuthorsType DEF RoundZeroAuthors
    <3>1. SUFFICES ASSUME r = 0, ~HasQuorum(RoundZeroAuthors) PROVE FALSE
      BY <2>0 DEF Free
    <3>2. d.certificates_aggregators # core[n].certificates_aggregators
      BY <2>0, <2>1
    <3>3. /\ author[h] \in RoundZeroAuthors
          /\ old(r).used \in SUBSET RoundZeroAuthors
      BY <1>1, <1>3, <3>1, <3>2 DEF CollectedEmpty
    <3>4. Counted(old(r)) /\ old(r).weight \in Nat
      <4>1. CertAggSound(core[n], store[n])
        BY DEF SignalsValid
      <4>. QED
        BY <1>3, <4>1, CertificatesCounted DEF CoreState
    <3>5. /\ old(r).used \in SUBSET Authority /\ {author[h]} \in SUBSET Authority
          /\ old(r).used \cap {author[h]} = {}
      BY <2>1, <3>0, <3>3
    <3>6. Weight[old(r).used \cup {author[h]}]
             = Weight[old(r).used] + Weight[{author[h]}]
      BY <3>5, WeightAssumption
    <3>7. Weight[old(r).used \cup {author[h]}] < quorum_threshold
      BY <3>0, <3>1, <3>3, NoQuorumBelow
    <3>8. old(r).weight <= Weight[old(r).used] /\ Weight[old(r).used] \in Nat
      BY <3>4, <3>5, WeightAssumption DEF Counted
    <3>. HIDE DEF r, mid, old
    <3>. QED
      BY <2>1, <2>2, <3>4, <3>6, <3>7, <3>8, Thresholds, SMTT(30)
  <2>7. tx_proposer' = [tx_proposer EXCEPT ![n] = Append(@, s)]
    <3>1. tx_proposer' = [tx_proposer EXCEPT ![n] = @ \o <<s>>]
      BY <1>1, <1>8, <2>1
    <3>2. tx_proposer[n] \in Seq(Signal)
      BY DEF TypeOK
    <3>3. tx_proposer[n] \o <<s>> = Append(tx_proposer[n], s)
      BY <3>2
    <3>. QED
      BY <3>1, <3>3
  <2>8. s.round - 1 = r /\ (s.round > 1 \/ Free(s.round))
    BY <2>0, <2>1, <2>6
  <2>. QED
    BY <2>4, <2>5, <2>7, <2>8
<1>9. CASE t = <<>>
  <2>1. tx_proposer' = tx_proposer
    <3>1. tx_proposer \in [Honest -> Seq(Signal)]
      BY DEF TypeOK
    <3>2. tx_proposer[n] \o <<>> = tx_proposer[n]
      BY <3>1
    <3>3. [tx_proposer EXCEPT ![n] = tx_proposer[n]] = tx_proposer
      BY <3>1
    <3>. QED
      BY <1>1, <1>9, <3>2, <3>3
  <2>. QED
    BY <1>2, <1>6, <1>7, <2>1
<1>. QED
  BY <1>2, <1>6, <1>7, <1>8, <1>9

-----------------------------------------------------------------------------
(* The types of what passes between proposer and Core.                     *)
LEMMA ProposalTypes ==
    ASSUME TypeOK, NEW n \in Honest
    PROVE  /\ proposer[n] \in Signal /\ tx_proposer[n] \in Seq(Signal)
           /\ rx_proposer[n] \in Seq(Header) /\ headers \in SUBSET Header
  BY DEF TypeOK

(* A header of another author does not disturb those of n.                 *)
LEMMA OthersHeaders ==
    ASSUME NEW n, NEW H, NEW h, NEW p, NEW t, author[h] # n, HeadersOf(n, H, p, t)
    PROVE  HeadersOf(n, H \cup {h}, p, t)
  BY DEF HeadersOf

(* A turn of the Core preserves the invariant.                             *)
LEMMA TurnOnce ==
    ASSUME TypeOK, GcBounded, ProposalInv, OnceInv, NoSoleQuorum,
           NEW n \in Honest, NEW h \in Header, NEW c \in CoreState, TurnOf(n, h, c)
    PROVE  OnceInv'
<1>. USE DEF OnceInv
<1>1. UNCHANGED proposer
  BY DEF TurnOf
<1>2. CollectedEmpty' /\ \A m \in Honest \ {n} : core'[m] = core[m]
  BY TurnSignals DEF ProposalInv
<1>3. SignalsOnce'
  <2>1. ASSUME NEW m \in Honest \ {n}
        PROVE  SignalsOf(core'[m], proposer'[m], tx_proposer'[m])
    <3>1. tx_proposer'[m] = tx_proposer[m]
      <4>1. \/ tx_proposer' = tx_proposer
            \/ \E s \in Signal :
                  tx_proposer' = [tx_proposer EXCEPT ![n] = Append(@, s)]
        BY TurnSignals DEF ProposalInv
      <4>. QED
        BY <4>1 DEF TypeOK
    <3>. QED
      BY <1>1, <1>2, <3>1 DEF SignalsOnce
  <2>2. SignalsOf(core'[n], proposer'[n], tx_proposer'[n])
    <3>1. /\ SignalsOf(core[n], proposer[n], tx_proposer[n])
          /\ proposer'[n] = proposer[n]
      BY <1>1 DEF SignalsOnce
    <3>2. \A r \in Nat : Spent(core[n], r) => Spent(core'[n], r)
      BY TurnSignals DEF ProposalInv
    <3>3. CASE tx_proposer' = tx_proposer
      BY <3>1, <3>2, <3>3, ProposalTypes, SignalsKept
    <3>4. ASSUME NEW s \in Signal,
                 tx_proposer' = [tx_proposer EXCEPT ![n] = Append(@, s)],
                 \/ Free(s.round)
                 \/ /\ s.round > 1 /\ ~Spent(core[n], s.round - 1)
                    /\ Spent(core'[n], s.round - 1)
          PROVE  SignalsOf(core'[n], proposer'[n], tx_proposer'[n])
      <4>1. tx_proposer'[n] = Append(tx_proposer[n], s)
        BY <3>4 DEF TypeOK
      <4>2. SignalsOf(core'[n], proposer[n], Append(tx_proposer[n], s))
        BY <3>1, <3>2, <3>4, ProposalTypes, SignalAdded
      <4>. QED
        BY <3>1, <4>1, <4>2
    <3>. QED
      BY <3>3, <3>4, TurnSignals DEF ProposalInv
  <2>. QED
    BY <2>1, <2>2 DEF SignalsOnce
<1>4. HeadersOrdered' /\ OneProposalPerRound'
  <2>1. CASE UNCHANGED <<headers, rx_proposer>>
    BY <1>1, <2>1 DEF HeadersOrdered, OneProposalPerRound
  <2>2. CASE /\ rx_proposer[n] # <<>> /\ h = Head(rx_proposer[n])
             /\ rx_proposer' = [rx_proposer EXCEPT ![n] = Tail(@)]
             /\ headers' = headers \cup {h}
    <3>1. author[h] = n
      <4>1. rx_proposer[n] \in Seq(Acceptable(n))
        BY DEF ProposalInv, SignalsValid
      <4>. QED
        BY <2>2, <4>1, HeadAndTail DEF Acceptable
    <3>2. /\ rx_proposer'[n] = Tail(rx_proposer[n])
          /\ \A m \in Honest \ {n} : rx_proposer'[m] = rx_proposer[m]
      BY <2>2 DEF TypeOK
    <3>3. /\ HeadersOf(n, headers \cup {h}, proposer[n], Tail(rx_proposer[n]))
          /\ \A g \in headers : author[g] = n =>
                Free(round[h]) \/ round[g] < round[h]
      BY <2>2, ProposalTypes, ProposalProcessed DEF HeadersOrdered
    <3>4. HeadersOrdered'
      <4>1. ASSUME NEW m \in Honest \ {n}
            PROVE  HeadersOf(m, headers', proposer'[m], rx_proposer'[m])
        BY <1>1, <2>2, <3>1, <3>2, OthersHeaders DEF HeadersOrdered
      <4>2. HeadersOf(n, headers', proposer'[n], rx_proposer'[n])
        BY <1>1, <2>2, <3>2, <3>3
      <4>. QED
        BY <4>1, <4>2 DEF HeadersOrdered
    <3>5. OneProposalPerRound'
      <4>1. \A g \in headers : /\ g \in Header
                               /\ \/ author[g] # n
                                  \/ round[g] # round[h]
                                  \/ /\ round[h] = 1
                                     /\ HasQuorum(RoundZeroAuthors)
        BY <3>3, HeaderAssumption DEF TypeOK, Free
      <4>2. ASSUME NEW g \in headers', NEW k \in headers',
                   author[k] \in Honest, Conflicting(g, k)
            PROVE  \/ \E m \in Authority : HasQuorum({m})
                   \/ round[k] = 1 /\ HasQuorum(RoundZeroAuthors)
        <5>1. g # k /\ round[g] = round[k] /\ author[g] = author[k]
          BY <4>2 DEF Conflicting, slot
        <5>2. CASE g \in headers /\ k \in headers
          BY <4>2, <5>2 DEF OneProposalPerRound
        <5>3. CASE k = h \/ g = h
          BY <2>2, <3>1, <4>1, <5>1, <5>3
        <5>. QED
          BY <2>2, <5>2, <5>3
      <4>. QED
        BY <4>2 DEF OneProposalPerRound, Conflicting, slot
    <3>. QED
      BY <3>4, <3>5
  <2>. QED
    BY <2>1, <2>2 DEF TurnOf
<1>. QED
  BY <1>2, <1>3, <1>4

(* So does the proposer when it takes a signal.                            *)
LEMMA SignalOnce ==
    ASSUME TypeOK, OnceInv, NEW n \in Honest, ProposerReceivesSignal(n)
    PROVE  OnceInv'
<1>. DEFINE s == Head(tx_proposer[n])
<1>1. /\ tx_proposer[n] # <<>>
      /\ tx_proposer' = [tx_proposer EXCEPT ![n] = Tail(@)]
      /\ proposer' = IF s.round < proposer[n].round THEN proposer
                     ELSE [proposer EXCEPT ![n] = s]
      /\ UNCHANGED <<headers, core, rx_proposer>>
  BY DEF ProposerReceivesSignal, network
<1>2. s \in Signal
  BY <1>1, ProposalTypes, HeadAndTail
<1>3. /\ tx_proposer'[n] = Tail(tx_proposer[n])
      /\ \A m \in Honest \ {n} : /\ tx_proposer'[m] = tx_proposer[m]
                                 /\ proposer'[m] = proposer[m]
      /\ proposer'[n] = IF s.round < proposer[n].round THEN proposer[n] ELSE s
  <2>. HIDE DEF s
  <2>. QED
    BY <1>1 DEF TypeOK
<1>4. proposer'[n] \in Signal
  BY <1>2, <1>3, ProposalTypes
<1>5. /\ SignalsOf(core[n], proposer'[n], Tail(tx_proposer[n]))
      /\ \/ proposer'[n] = proposer[n]
         \/ proposer'[n].round > proposer[n].round
         \/ proposer'[n].round = proposer[n].round /\ Free(proposer'[n].round)
  BY <1>1, <1>3, <1>4, ProposalTypes, SignalTaken DEF OnceInv, SignalsOnce
<1>6. HeadersOf(n, headers, proposer'[n], rx_proposer[n])
  BY <1>4, <1>5, ProposalTypes, ProposerAdvanced DEF OnceInv, HeadersOrdered
<1>. QED
  BY <1>1, <1>3, <1>5, <1>6
     DEF OnceInv, CollectedEmpty, SignalsOnce, HeadersOrdered, OneProposalPerRound

(* So does the proposer when it makes a header.                            *)
LEMMA MadeOnce ==
    ASSUME TypeOK, OnceInv, NEW n \in Honest, NEW h \in Header, MakeHeader(n, h)
    PROVE  OnceInv'
<1>1. /\ proposer[n].parents # {} /\ proposer[n].round = round[h]
      /\ proposer' = [proposer EXCEPT ![n].parents = {}]
      /\ rx_proposer' = [rx_proposer EXCEPT ![n] = Append(@, h)]
      /\ UNCHANGED <<headers, core, tx_proposer>>
  BY DEF MakeHeader, network
<1>2. /\ proposer'[n] \in Signal /\ proposer'[n].parents = {}
      /\ proposer'[n].round = proposer[n].round
      /\ rx_proposer'[n] = Append(rx_proposer[n], h)
      /\ \A m \in Honest \ {n} : /\ proposer'[m] = proposer[m]
                                 /\ rx_proposer'[m] = rx_proposer[m]
  BY <1>1 DEF TypeOK, Signal
<1>3. SignalsOf(core[n], proposer'[n], tx_proposer[n])
  BY <1>2, ParentsDrained DEF OnceInv, SignalsOnce
<1>4. HeadersOf(n, headers, proposer'[n], Append(rx_proposer[n], h))
  <2>1. proposer[n].round > 0
    BY DEF OnceInv, SignalsOnce, SignalsOf
  <2>. QED
    BY <1>1, <1>2, <2>1, ProposalTypes, ProposalAdded DEF OnceInv, HeadersOrdered
<1>. QED
  BY <1>1, <1>2, <1>3, <1>4
     DEF OnceInv, CollectedEmpty, SignalsOnce, HeadersOrdered, OneProposalPerRound

(* Every step preserves it.                                                *)
LEMMA OnceStep ==
    ASSUME Inv, ProposalInv, OnceInv, NoSoleQuorum, [Next]_vars
    PROVE  OnceInv'
<1>0. TypeOK /\ GcBounded /\ AggregatorsSound /\ DeliveriesCertified
  BY DEF Inv
<1>1. ASSUME NEW n \in Honest, CoreTurn(n) PROVE OnceInv'
  <2>1. CASE Stopped
    BY <2>1 DEF Stopped, OnceInv, CollectedEmpty, SignalsOnce, HeadersOrdered,
                OneProposalPerRound
  <2>2. ASSUME NEW h \in Header, NEW c \in CoreState, TurnOf(n, h, c)
        PROVE  OnceInv'
    BY <1>0, <2>2, TurnOnce
  <2>. QED
    BY <1>0, <1>1, <2>1, <2>2, EveryTurn
<1>2. ASSUME NEW n \in Honest, ProposerTask(n) PROVE OnceInv'
  BY <1>0, <1>2, SignalOnce, MadeOnce DEF ProposerTask
<1>3. CASE UNCHANGED <<core, headers, proposer, tx_proposer, rx_proposer>>
  BY <1>3 DEF OnceInv, CollectedEmpty, SignalsOnce, HeadersOrdered,
              OneProposalPerRound
<1>4. ASSUME NEW n \in Honest,
             WaiterTask(n) \/ WorkerTask(n) \/ GarbageCollectorTask(n)
      PROVE  OnceInv'
  BY <1>3, <1>4 DEF WaiterTask, HeaderWaiterDelivers, HeaderWaiterCleanup,
                    CertificateWaiterDelivers, WorkerTask, ReceivePayload,
                    GarbageCollectorTask, AdvanceConsensus, network, proposing
<1>5. ASSUME NEW h \in Header, ByzantineHeader(h) PROVE OnceInv'
  <2>1. /\ headers' = headers \cup {h} /\ author[h] \notin Honest
        /\ UNCHANGED <<core, proposer, tx_proposer, rx_proposer>>
    BY <1>5 DEF ByzantineHeader, Honest, proposing
  <2>2. CollectedEmpty' /\ SignalsOnce'
    BY <2>1 DEF OnceInv, CollectedEmpty, SignalsOnce
  <2>3. HeadersOrdered'
    BY <2>1, OthersHeaders DEF OnceInv, HeadersOrdered
  <2>4. OneProposalPerRound'
    <3>1. \A g \in headers : g \in Header
      BY <1>0 DEF TypeOK
    <3>. QED
      BY <2>1, <3>1 DEF OnceInv, OneProposalPerRound, Conflicting, slot
  <2>. QED
    BY <2>2, <2>3, <2>4 DEF OnceInv
<1>6. ASSUME NEW h \in Header, ByzantineCertificate(h) PROVE OnceInv'
  BY <1>3, <1>6 DEF ByzantineCertificate, proposing
<1>7. CASE UNCHANGED vars
  BY <1>3, <1>7 DEF vars, network
<1>. QED
  BY <1>1, <1>2, <1>4, <1>5, <1>6, <1>7 DEF Next

(* It holds at the start.                                                  *)
LEMMA OnceInit == Init => OnceInv
<1>. SUFFICES ASSUME Init PROVE OnceInv
  OBVIOUS
<1>1. \A q \in Round, n \in Honest :
         core[n].certificates_aggregators[q] = EmptyCertificates
  BY DEF Init, NewCore
<1>2. CollectedEmpty
  BY <1>1 DEF CollectedEmpty, EmptyCertificates
<1>3. SignalsOnce
  BY DEF SignalsOnce, SignalsOf, Init, NewProposer
<1>4. HeadersOrdered
  BY DEF HeadersOrdered, HeadersOf, Init
<1>. QED
  BY <1>2, <1>3, <1>4 DEF OnceInv, OneProposalPerRound, Init

(* An honest authority signs at most one header per round, whatever        *)
(* signals its Core sends after its aggregators have been collected, but   *)
(* for the two exceptions the property names: a committee in which some    *)
(* authority is a quorum alone, and round 1 once a quorum of genesis       *)
(* certificates is sent.                                                   *)
THEOREM OneProposalHolds == Spec => []OneProposalPerRound
<1>1. CASE NoSoleQuorum
  <2>1. Init => OnceInv
    BY OnceInit
  <2>2. Inv /\ ProposalInv /\ OnceInv /\ [Next]_vars => OnceInv'
    BY <1>1, OnceStep
  <2>3. OnceInv => OneProposalPerRound
    BY DEF OnceInv
  <2>. QED
    BY <2>1, <2>2, <2>3, Invariance, ProposalInvariance, PTL DEF Spec
<1>2. CASE ~NoSoleQuorum
  <2>1. OneProposalPerRound
    BY <1>2 DEF NoSoleQuorum, OneProposalPerRound
  <2>. QED
    BY <2>1, PTL
<1>. QED
  BY <1>1, <1>2
=============================================================================
