---------------------------- MODULE PrimaryCore ----------------------------
(***************************************************************************)
(* The Core of a primary (primary/src/core.rs) running a certified         *)
(* protocol (the Narwhal branches of the code), with the aggregators, the  *)
(* synchronizer, the two waiters, the store and the proposer it works with.*)
(*                                                                         *)
(* Every primary runs one Core task: a loop that takes one message, runs   *)
(* its handler to the end and then garbage collects.  An action below is   *)
(* one turn of that loop.  The waiters, the proposer, the workers and the  *)
(* garbage collector are tasks of their own and interleave with it.        *)
(*                                                                         *)
(* The network is the set of messages sent so far: a message may arrive    *)
(* at any time, in any order, several times (ReliableSender retransmits)   *)
(* or never.  Byzantine authorities sign any header of theirs and vote for *)
(* anything; signatures cannot be forged.  A certificate that equals a     *)
(* genesis certificate needs no signature, so anybody can send one.        *)
(***************************************************************************)
EXTENDS Dag, Sequences

CONSTANTS
    gc_depth,      \* Parameters::gc_depth
    WithPayload,   \* the headers whose batches may have to be fetched
    StrayGenesis   \* the genesis certificates that somebody sends

ASSUME CoreAssumption ==
    /\ gc_depth \in Nat
    /\ WithPayload \subseteq Header
    /\ StrayGenesis \subseteq Genesis

(* Certificate::genesis makes one certificate per authority.               *)
ASSUME GenesisComplete == Authors(Genesis) = Authority

VARIABLES
    \* The network.
    headers,        \* headers broadcast by their authors
    votes,          \* votes signed and sent: pairs <<voter, header>>
    certificates,   \* certificates broadcast by their authors
    \* The fields of the Core of each authority, and what it has on disk.
    core,
    stored_headers,
    store,                 \* the certificates in the store
    payload,               \* headers whose batches the workers have reported
    consensus_round,       \* the atomic shared with the garbage collector
    \* The waiters and their loopback channels into the Core.
    header_waiter,         \* HeaderWaiter::pending
    rx_header_waiter,
    certificate_waiter,
    rx_certificate_waiter,
    \* The proposer and the channels between it and the Core.
    proposer,              \* the round to propose in and the parents to use
    tx_proposer,           \* signals on their way to the proposer
    rx_proposer,           \* headers on their way to the Core
    \* Outputs of the Core.
    tx_consensus,          \* the certificates sent to the consensus
    panicked               \* authorities whose Core task has panicked

network == <<headers, votes, certificates>>
waiters == <<header_waiter, rx_header_waiter,
             certificate_waiter, rx_certificate_waiter>>
disk == <<stored_headers, store>>
vars == <<network, core, disk, payload, consensus_round, waiters, proposer,
          tx_proposer, rx_proposer, tx_consensus, panicked>>

Round == {round[h] : h \in Header}

EmptyVotes == [weight |-> 0, used |-> {}]

EmptyCertificates == [weight |-> 0, used |-> {}, certificates |-> {}]

(* Core::new                                                               *)
NewCore ==
    [gc_round                 |-> 0,
     last_voted               |-> {},
     voted_headers            |-> {},
     processing               |-> {},
     current_round            |-> 0,
     own_headers              |-> {},
     votes_aggregators        |-> [h \in Header |-> EmptyVotes],
     certificates_aggregators |-> [r \in Round |-> EmptyCertificates]]

(* Proposer::spawn: round 1 on the genesis.                                *)
NewProposer == [round |-> 1, parents |-> Genesis]

Init ==
    /\ headers = {} /\ votes = {} /\ certificates = {}
    /\ core = [n \in Honest |-> NewCore]
    /\ stored_headers = [n \in Honest |-> {}]
    /\ store = [n \in Honest |-> {}]
    /\ payload = [n \in Honest |-> Header \ WithPayload]
    /\ consensus_round = [n \in Honest |-> 0]
    /\ header_waiter = [n \in Honest |-> {}]
    /\ rx_header_waiter = [n \in Honest |-> {}]
    /\ certificate_waiter = [n \in Honest |-> {}]
    /\ rx_certificate_waiter = [n \in Honest |-> {}]
    /\ proposer = [n \in Honest |-> NewProposer]
    /\ tx_proposer = [n \in Honest |-> <<>>]
    /\ rx_proposer = [n \in Honest |-> <<>>]
    /\ tx_consensus = [n \in Honest |-> {}]
    /\ panicked = {}

-----------------------------------------------------------------------------
(* Cleanup of the Core's state at the end of every turn of its loop.       *)

(* Mutant of GcRound: the subtraction is not guarded.                      *)
GcRoundUnguarded(n) == consensus_round[n] - gc_depth

(* The round below which authority n collects.                             *)
GcRound(n) ==
    IF consensus_round[n] > gc_depth THEN consensus_round[n] - gc_depth
                                     ELSE core[n].gc_round

(* Mutant of Collect: votes are forgotten one round too early.             *)
CollectTooEarly(c, r) ==
    [c EXCEPT !.gc_round      = r,
              !.last_voted    = {s \in @ : s[1] > r},
              !.voted_headers = {h \in @ : round[h] >= r},
              !.own_headers   = {h \in @ : round[h] >= r}]

(* The part of Core state c that survives a collection at round r.         *)
Collect(c, r) ==
    LET live == {h \in c.own_headers : round[h] >= r}
    IN [c EXCEPT
          !.gc_round      = r,
          !.last_voted    = {s \in @ : s[1] >= r},
          !.voted_headers = {h \in @ : round[h] >= r},
          !.processing    = {h \in @ : round[h] >= r},
          !.own_headers   = live,
          !.votes_aggregators =
              [h \in Header |-> IF h \in live THEN @[h] ELSE EmptyVotes],
          !.certificates_aggregators =
              [q \in Round |-> IF q >= r THEN @[q] ELSE EmptyCertificates]]

(* The Core of n ends its turn with state c.                               *)
EndTurn(n, c) == core' = [core EXCEPT ![n] = Collect(c, GcRound(n))]

-----------------------------------------------------------------------------
(* Headers.                                                                *)

(* Synchronizer::get_parents and Synchronizer::deliver_certificate         *)
MissingParents(n, h) == (parents[h] \ Genesis) \ store[n]

(* Synchronizer::missing_payload: our own payload is never missing.        *)
MissingPayload(n, h) == author[h] # n /\ h \notin payload[n]

(* Mutant of Accepted: the batches are not waited for.                     *)
AcceptedWithoutPayload(n, h) == MissingParents(n, h) = {} /\ ValidParents(h)

(* process_header reaches its end, the vote.                               *)
Accepted(n, h) ==
    /\ MissingParents(n, h) = {}
    /\ ValidParents(h)
    /\ ~MissingPayload(n, h)

(* process_header returns an error.                                        *)
Rejected(n, h) == MissingParents(n, h) = {} /\ ~ValidParents(h)

(* Mutant of Votes: only a second vote for the same header is refused.     *)
VotesPerHeader(n, h) == Accepted(n, h) /\ h \notin core[n].voted_headers

(* vote_for_header signs a vote: the first for this exact header and the   *)
(* first for this author and round.                                        *)
Votes(n, h) ==
    /\ Accepted(n, h)
    /\ h \notin core[n].voted_headers
    /\ slot(h) \notin core[n].last_voted

(* What a suspended header waits for: SyncParents or SyncBatches.          *)
WaitFor(n, h) ==
    [header |-> h,
     awaits |-> IF MissingParents(n, h) # {} THEN "parents" ELSE "payload"]

(* The Core state after process_header.                                    *)
HeaderProcessed(c, n, h) ==
    [c EXCEPT
       !.processing = @ \cup {h},
       !.last_voted = IF Accepted(n, h) /\ h \notin c.voted_headers
                      THEN @ \cup {slot(h)} ELSE @,
       !.voted_headers = IF Votes(n, h) THEN @ \cup {h} ELSE @]

(* The other effects of process_header: a header that misses something is  *)
(* handed to the HeaderWaiter, which syncs only once per header; an        *)
(* accepted one is stored and perhaps voted for.  A vote for our own       *)
(* header is not sent but processed on the spot.                           *)
HeaderEffects(n, h) ==
    /\ header_waiter' =
         IF \/ Accepted(n, h)
            \/ Rejected(n, h)
            \/ \E w \in header_waiter[n] : w.header = h
         THEN header_waiter
         ELSE [header_waiter EXCEPT ![n] = @ \cup {WaitFor(n, h)}]
    /\ stored_headers' =
         IF Accepted(n, h)
         THEN [stored_headers EXCEPT ![n] = @ \cup {h}] ELSE stored_headers
    /\ votes' = IF Votes(n, h) THEN votes \cup {<<n, h>>} ELSE votes

NoHeaderEffects == UNCHANGED <<header_waiter, stored_headers, votes>>

-----------------------------------------------------------------------------
(* Votes.                                                                  *)

(* Mutant of AppendVote: the weight is not reset once it is a quorum.      *)
AppendVoteWithoutReset(c, v, h) ==
    IF v \in c.votes_aggregators[h].used THEN c
    ELSE [c EXCEPT !.votes_aggregators[h].weight = @ + Weight[{v}],
                   !.votes_aggregators[h].used = @ \cup {v}]

(* VotesAggregator::append, for a vote of authority v on header h          *)
AppendVote(c, v, h) ==
    LET a == c.votes_aggregators[h]
        w == a.weight + Weight[{v}]
    IN IF v \in a.used THEN c
       ELSE [c EXCEPT !.votes_aggregators[h] =
               [weight |-> IF w >= quorum_threshold THEN 0 ELSE w,
                used   |-> a.used \cup {v}]]

(* Mutant of Assembles: one unit of stake too many is required.            *)
AssemblesOffByOne(c, v, h) ==
    LET a == c.votes_aggregators[h]
    IN v \notin a.used /\ a.weight + Weight[{v}] > quorum_threshold

(* VotesAggregator::append returns a certificate.                          *)
Assembles(c, v, h) ==
    LET a == c.votes_aggregators[h]
    IN v \notin a.used /\ a.weight + Weight[{v}] >= quorum_threshold

-----------------------------------------------------------------------------
(* Certificates.                                                           *)

(* CertificatesAggregator::append                                          *)
AppendCertificate(c, h) ==
    LET a == c.certificates_aggregators[round[h]]
        w == a.weight + Weight[{author[h]}]
        full == w >= quorum_threshold
    IN IF author[h] \in a.used THEN c
       ELSE [c EXCEPT !.certificates_aggregators[round[h]] =
               [weight |-> IF full THEN 0 ELSE w,
                used   |-> a.used \cup {author[h]},
                certificates |-> IF full THEN {} ELSE a.certificates \cup {h}]]

(* Mutant of Signals: the round advances on the validity threshold.        *)
SignalsOnValidity(c, h) ==
    LET a == c.certificates_aggregators[round[h]]
    IN IF /\ author[h] \notin a.used
          /\ a.weight + Weight[{author[h]}] >= validity_threshold
       THEN <<[round |-> round[h] + 1, parents |-> a.certificates \cup {h}]>>
       ELSE <<>>

(* What the aggregator returns: the signal for the proposer, if any.       *)
Signals(c, h) ==
    LET a == c.certificates_aggregators[round[h]]
    IN IF /\ author[h] \notin a.used
          /\ a.weight + Weight[{author[h]}] >= quorum_threshold
       THEN <<[round |-> round[h] + 1, parents |-> a.certificates \cup {h}]>>
       ELSE <<>>

(* The second half of process_certificate, from deliver_certificate on: a  *)
(* certificate whose ancestors are missing goes to the CertificateWaiter;  *)
(* otherwise it is stored, aggregated and sent to the consensus.           *)
CertificateProcessed(c, n, h) ==
    IF MissingParents(n, h) = {} THEN AppendCertificate(c, h) ELSE c

(* Mutant of CertificateEffects: the ancestors are not waited for.         *)
CertificateEffectsAtOnce(c, n, h) ==
    /\ store' = [store EXCEPT ![n] = @ \cup {h}]
    /\ tx_proposer' = [tx_proposer EXCEPT ![n] = @ \o Signals(c, h)]
    /\ tx_consensus' = [tx_consensus EXCEPT ![n] = @ \cup {h}]
    /\ UNCHANGED certificate_waiter

CertificateEffects(c, n, h) ==
    IF MissingParents(n, h) = {}
    THEN /\ store' = [store EXCEPT ![n] = @ \cup {h}]
         /\ tx_proposer' = [tx_proposer EXCEPT ![n] = @ \o Signals(c, h)]
         /\ tx_consensus' = [tx_consensus EXCEPT ![n] = @ \cup {h}]
         /\ UNCHANGED certificate_waiter
    ELSE /\ certificate_waiter' = [certificate_waiter EXCEPT ![n] = @ \cup {h}]
         /\ UNCHANGED <<store, tx_proposer, tx_consensus>>

NoCertificateEffects ==
    UNCHANGED <<store, tx_proposer, tx_consensus, certificate_waiter>>

(* The headers with the id of h.  The header of a genesis certificate is   *)
(* the default one but for its author, and none of them computes its id.   *)
SameId(h) == IF h \in Genesis THEN Genesis ELSE {h}

(* process_certificate: the embedded header is processed first unless we   *)
(* are already processing its id; so of the genesis certificates only the  *)
(* header of the first is processed.  Our vote for a header of our own     *)
(* fails if we do not hold it: it has been collected, or is the one of our *)
(* own genesis certificate.  The code expects ("Failed to process our own  *)
(* vote") that it does not fail.                                           *)
ProcessCertificate(c, n, h) ==
    LET fresh == c.processing \cap SameId(h) = {}
        d == IF fresh THEN HeaderProcessed(c, n, h) ELSE c
    IN IF fresh /\ author[h] = n /\ Votes(n, h) /\ h \notin c.own_headers
       THEN /\ panicked' = panicked \cup {n}
            /\ UNCHANGED core /\ NoHeaderEffects /\ NoCertificateEffects
       ELSE /\ IF fresh THEN HeaderEffects(n, h) ELSE NoHeaderEffects
            /\ IF fresh /\ Rejected(n, h)
               THEN NoCertificateEffects /\ EndTurn(n, d)
               ELSE /\ CertificateEffects(d, n, h)
                    /\ EndTurn(n, CertificateProcessed(d, n, h))
            /\ UNCHANGED panicked

-----------------------------------------------------------------------------
(* The turns of the Core of authority n.                                   *)

(* The proposer hands us a new header: it is stored, voted for and, unless *)
(* process_header fails, broadcast.                                        *)
ProcessOwnHeader(n) ==
    LET h == Head(rx_proposer[n])
        c == [core[n] EXCEPT !.current_round = round[h],
                             !.own_headers = @ \cup {h}]
        d == HeaderProcessed(c, n, h)
        e == IF Votes(n, h) THEN AppendVote(d, n, h) ELSE d
        full == Votes(n, h) /\ Assembles(d, n, h)
    IN /\ n \notin panicked
       /\ rx_proposer[n] # <<>>
       /\ rx_proposer' = [rx_proposer EXCEPT ![n] = Tail(@)]
       /\ HeaderEffects(n, h)
       /\ headers' = IF Rejected(n, h) THEN headers ELSE headers \cup {h}
       /\ IF full
          THEN /\ certificates' = certificates \cup {h}
               /\ CertificateEffects(e, n, h)
               /\ EndTurn(n, CertificateProcessed(e, n, h))
          ELSE /\ NoCertificateEffects
               /\ EndTurn(n, e)
               /\ UNCHANGED certificates
       /\ UNCHANGED <<payload, consensus_round, rx_header_waiter,
                      rx_certificate_waiter, proposer, panicked>>

(* process_header, called for a header that reached us; see the panic in   *)
(* ProcessCertificate.                                                     *)
ProcessHeader(n, h) ==
    /\ NoCertificateEffects
    /\ IF author[h] = n /\ Votes(n, h) /\ h \notin core[n].own_headers
       THEN /\ panicked' = panicked \cup {n}
            /\ UNCHANGED core /\ NoHeaderEffects
       ELSE /\ HeaderEffects(n, h)
            /\ EndTurn(n, HeaderProcessed(core[n], n, h))
            /\ UNCHANGED panicked

(* Mutant of ReceiveHeader: sanitize_header does not reject old headers.   *)
ReceiveHeaderOfAnyAge(n, h) ==
    /\ n \notin panicked
    /\ round[h] <= core[n].current_round + 10
    /\ ProcessHeader(n, h)
    /\ UNCHANGED <<headers, certificates, payload, consensus_round,
                   rx_header_waiter, rx_certificate_waiter, proposer,
                   rx_proposer>>

(* PrimaryMessage::Header, with sanitize_header.                           *)
ReceiveHeader(n, h) ==
    /\ n \notin panicked
    /\ core[n].gc_round <= round[h]
    /\ round[h] <= core[n].current_round + 10
    /\ ProcessHeader(n, h)
    /\ UNCHANGED <<headers, certificates, payload, consensus_round,
                   rx_header_waiter, rx_certificate_waiter, proposer,
                   rx_proposer>>

(* A header resumes; loopback headers are not sanitized.                   *)
LoopbackHeader(n, h) ==
    /\ n \notin panicked
    /\ rx_header_waiter' = [rx_header_waiter EXCEPT ![n] = @ \ {h}]
    /\ ProcessHeader(n, h)
    /\ UNCHANGED <<headers, certificates, payload, consensus_round,
                   rx_certificate_waiter, proposer, rx_proposer>>

(* PrimaryMessage::Vote, with sanitize_vote, for a vote of v on header h.  *)
ReceiveVote(n, v, h) ==
    LET c == AppendVote(core[n], v, h)
    IN /\ n \notin panicked
       /\ <<v, h>> \in votes \/ v \in Byzantine
       /\ core[n].gc_round <= round[h]
       /\ IF Assembles(core[n], v, h)
          THEN /\ certificates' = certificates \cup {h}
               /\ ProcessCertificate(c, n, h)
          ELSE /\ EndTurn(n, c)
               /\ NoHeaderEffects /\ NoCertificateEffects
               /\ UNCHANGED <<certificates, panicked>>
       /\ UNCHANGED <<headers, payload, consensus_round, rx_header_waiter,
                      rx_certificate_waiter, proposer, rx_proposer>>

(* PrimaryMessage::Certificate, with sanitize_certificate, for a           *)
(* certificate Certificate::verify accepts: one with a quorum of votes, or *)
(* a genesis certificate.                                                  *)
ReceiveCertificate(n, h) ==
    /\ n \notin panicked
    /\ core[n].gc_round <= round[h]
    /\ ProcessCertificate(core[n], n, h)
    /\ UNCHANGED <<headers, certificates, payload, consensus_round,
                   rx_header_waiter, rx_certificate_waiter, proposer,
                   rx_proposer>>

(* A certificate resumes; loopback certificates are not sanitized.         *)
LoopbackCertificate(n, h) ==
    /\ n \notin panicked
    /\ rx_certificate_waiter' = [rx_certificate_waiter EXCEPT ![n] = @ \ {h}]
    /\ ProcessCertificate(core[n], n, h)
    /\ UNCHANGED <<headers, certificates, payload, consensus_round,
                   rx_header_waiter, proposer, rx_proposer>>

-----------------------------------------------------------------------------
(* The other tasks of authority n.                                         *)

proposing == <<proposer, tx_proposer, rx_proposer>>

(* Proposer::run: signals of older rounds are ignored.                     *)
ProposerReceivesSignal(n) ==
    LET signal == Head(tx_proposer[n])
    IN /\ tx_proposer[n] # <<>>
       /\ tx_proposer' = [tx_proposer EXCEPT ![n] = Tail(@)]
       /\ proposer' = IF signal.round < proposer[n].round THEN proposer
                      ELSE [proposer EXCEPT ![n] = signal]
       /\ UNCHANGED <<network, core, disk, payload, consensus_round, waiters,
                      rx_proposer, tx_consensus, panicked>>

(* Mutant of MakeHeader: the parents are not drained.                      *)
MakeHeaderKeepingParents(n, h) ==
    /\ author[h] = n
    /\ h \notin Genesis
    /\ proposer[n].parents # {}
    /\ proposer[n] = [round |-> round[h], parents |-> parents[h]]
    /\ rx_proposer' = [rx_proposer EXCEPT ![n] = Append(@, h)]
    /\ UNCHANGED <<network, core, disk, payload, consensus_round, waiters,
                   proposer, tx_proposer, tx_consensus, panicked>>

(* Proposer::make_header: the timer expired or there is enough payload;    *)
(* the parents are drained, so the next header needs a new signal.         *)
MakeHeader(n, h) ==
    /\ author[h] = n
    /\ h \notin Genesis
    /\ proposer[n].parents # {}
    /\ proposer[n] = [round |-> round[h], parents |-> parents[h]]
    /\ proposer' = [proposer EXCEPT ![n].parents = {}]
    /\ rx_proposer' = [rx_proposer EXCEPT ![n] = Append(@, h)]
    /\ UNCHANGED <<network, core, disk, payload, consensus_round, waiters,
                   tx_proposer, tx_consensus, panicked>>

(* HeaderWaiter: everything header w.header waited for is in the store.    *)
HeaderWaiterDelivers(n, w) ==
    /\ IF w.awaits = "parents" THEN MissingParents(n, w.header) = {}
                               ELSE ~MissingPayload(n, w.header)
    /\ header_waiter' = [header_waiter EXCEPT ![n] = @ \ {w}]
    /\ rx_header_waiter' = [rx_header_waiter EXCEPT ![n] = @ \cup {w.header}]
    /\ UNCHANGED <<network, core, disk, payload, consensus_round,
                   certificate_waiter, rx_certificate_waiter, proposing,
                   tx_consensus, panicked>>

(* HeaderWaiter: cleanup at the end of a turn of its own loop.             *)
HeaderWaiterCleanup(n) ==
    LET old == {w \in header_waiter[n] :
                  round[w.header] <= consensus_round[n] - gc_depth}
    IN /\ consensus_round[n] > gc_depth
       /\ old # {}
       /\ header_waiter' = [header_waiter EXCEPT ![n] = @ \ old]
       /\ UNCHANGED <<network, core, disk, payload, consensus_round,
                      rx_header_waiter, certificate_waiter,
                      rx_certificate_waiter, proposing, tx_consensus,
                      panicked>>

(* CertificateWaiter: all parents of certificate h are in the store.       *)
CertificateWaiterDelivers(n, h) ==
    /\ MissingParents(n, h) = {}
    /\ certificate_waiter' = [certificate_waiter EXCEPT ![n] = @ \ {h}]
    /\ rx_certificate_waiter' = [rx_certificate_waiter EXCEPT ![n] = @ \cup {h}]
    /\ UNCHANGED <<network, core, disk, payload, consensus_round,
                   header_waiter, rx_header_waiter, proposing, tx_consensus,
                   panicked>>

(* The workers report every batch of header h: PayloadReceiver stores it.  *)
ReceivePayload(n, h) ==
    /\ author[h] # n /\ h \notin payload[n]
    /\ payload' = [payload EXCEPT ![n] = @ \cup {h}]
    /\ UNCHANGED <<network, core, disk, consensus_round, waiters, proposing,
                   tx_consensus, panicked>>

(* GarbageCollector: the consensus commits certificate h, one of those we  *)
(* sent it.                                                                *)
AdvanceConsensus(n, h) ==
    /\ round[h] > consensus_round[n]
    /\ consensus_round' = [consensus_round EXCEPT ![n] = round[h]]
    /\ UNCHANGED <<network, core, disk, payload, waiters, proposing,
                   tx_consensus, panicked>>

-----------------------------------------------------------------------------
(* Byzantine authorities.                                                  *)

(* The votes a Byzantine author can put together for its header h.         *)
Supporters(h) == {n \in Honest : <<n, h>> \in votes} \cup Byzantine

ByzantineHeader(h) ==
    /\ author[h] \in Byzantine
    /\ h \notin Genesis \cup headers
    /\ headers' = headers \cup {h}
    /\ UNCHANGED <<votes, certificates, core, disk, payload, consensus_round,
                   waiters, proposing, tx_consensus, panicked>>

ByzantineCertificate(h) ==
    /\ author[h] \in Byzantine
    /\ h \in headers \ certificates
    /\ HasQuorum(Supporters(h))
    /\ certificates' = certificates \cup {h}
    /\ UNCHANGED <<headers, votes, core, disk, payload, consensus_round,
                   waiters, proposing, tx_consensus, panicked>>

-----------------------------------------------------------------------------
CoreTurn(n) ==
    \/ ProcessOwnHeader(n)
    \/ \E h \in headers : ReceiveHeader(n, h)
    \/ \E h \in rx_header_waiter[n] : LoopbackHeader(n, h)
    \/ \E v \in Authority, h \in core[n].own_headers : ReceiveVote(n, v, h)
    \/ \E h \in certificates \cup StrayGenesis : ReceiveCertificate(n, h)
    \/ \E h \in rx_certificate_waiter[n] : LoopbackCertificate(n, h)

ProposerTask(n) ==
    \/ ProposerReceivesSignal(n)
    \/ \E h \in Header : MakeHeader(n, h)

WaiterTask(n) ==
    \/ \E w \in header_waiter[n] : HeaderWaiterDelivers(n, w)
    \/ HeaderWaiterCleanup(n)
    \/ \E h \in certificate_waiter[n] : CertificateWaiterDelivers(n, h)

WorkerTask(n) == \E h \in WithPayload : ReceivePayload(n, h)

GarbageCollectorTask(n) == \E h \in tx_consensus[n] : AdvanceConsensus(n, h)

Next ==
    \/ \E n \in Honest :
          \/ CoreTurn(n) \/ ProposerTask(n) \/ WaiterTask(n)
          \/ WorkerTask(n) \/ GarbageCollectorTask(n)
    \/ \E h \in Header : ByzantineHeader(h) \/ ByzantineCertificate(h)

Spec == Init /\ [][Next]_vars

(* The Core takes its turns as long as a message that changes anything is  *)
(* there (ReliableSender retransmits until acknowledged), and so do the    *)
(* other tasks.  The consensus need never commit, and Byzantine            *)
(* authorities need never act.                                             *)
Fairness ==
    \A n \in Honest :
       /\ WF_vars(CoreTurn(n))
       /\ WF_vars(ProposerTask(n))
       /\ WF_vars(WaiterTask(n))
       /\ WF_vars(WorkerTask(n))

-----------------------------------------------------------------------------
(* Properties.                                                             *)

Signal == [round : Nat, parents : SUBSET Header]

CoreState ==
    [gc_round                 : Nat,
     last_voted               : SUBSET (Nat \X Authority),
     voted_headers            : SUBSET Header,
     processing               : SUBSET Header,
     current_round            : Nat,
     own_headers              : SUBSET Header,
     votes_aggregators        : [Header -> [weight : Nat, used : SUBSET Authority]],
     certificates_aggregators :
        [Round -> [weight : Nat, used : SUBSET Authority,
                   certificates : SUBSET Header]]]

(* Every variable has the type of the field of the code it stands for.     *)
TypeOK ==
    /\ headers \subseteq Header
    /\ votes \subseteq Honest \X Header
    /\ certificates \subseteq Header
    /\ core \in [Honest -> CoreState]
    /\ stored_headers \in [Honest -> SUBSET Header]
    /\ store \in [Honest -> SUBSET Header]
    /\ payload \in [Honest -> SUBSET Header]
    /\ consensus_round \in [Honest -> Nat]
    /\ header_waiter \in
         [Honest -> SUBSET [header : Header, awaits : {"parents", "payload"}]]
    /\ rx_header_waiter \in [Honest -> SUBSET Header]
    /\ certificate_waiter \in [Honest -> SUBSET Header]
    /\ rx_certificate_waiter \in [Honest -> SUBSET Header]
    /\ proposer \in [Honest -> Signal]
    /\ tx_proposer \in [Honest -> Seq(Signal)]
    /\ rx_proposer \in [Honest -> Seq(Header)]
    /\ tx_consensus \in [Honest -> SUBSET Header]
    /\ panicked \subseteq Honest

(* Two certificates for one author and round exist only once some honest   *)
(* authority has garbage collected that round: last_voted, which forbids   *)
(* the second vote, is collected while loopback headers are not sanitized. *)
OneCertificatePerSlot ==
    \A g, h \in certificates :
       Conflicting(g, h) => \E n \in Honest : core[n].gc_round > round[h]

(* The primary sends the consensus a certificate only after its whole      *)
(* history (consensus/src/lib.rs, rx_primary).  Certificates are sent one  *)
(* at a time, so it suffices that what was sent is closed under parents    *)
(* in every state.                                                         *)
CausalDelivery ==
    \A n \in Honest : \A h \in tx_consensus[n] :
       parents[h] \subseteq tx_consensus[n] \cup Genesis

(* The vote of the Core for its own header fails (vote_for_header,         *)
(* "Failed to process our own vote") in one case only: somebody sends it   *)
(* its own genesis certificate.  No header or certificate of its own that  *)
(* comes back, late or after it was collected, makes it panic.             *)
NoPanic == panicked \subseteq Authors(StrayGenesis)

(* The data behind a certificate can be fetched: honest authorities with   *)
(* f + 1 stake hold the header, its batches and the certificates of its    *)
(* parents ("we are sure that all the data it refers to ... are            *)
(* available", process_certificate).                                       *)
CertifiedDataAvailable ==
    \A h \in certificates :
       HasValidity({n \in Honest : /\ h \in stored_headers[n]
                                   /\ MissingParents(n, h) = {}
                                   /\ ~MissingPayload(n, h)})

(* After its certificate is assembled, the votes still to come for an own  *)
(* header cannot assemble another one (VotesAggregator::append, "Ensures   *)
(* quorum is only reached once").                                          *)
QuorumOnce ==
    \A n \in Honest : \A h \in core[n].own_headers \cap certificates :
       LET a == core[n].votes_aggregators[h]
       IN a.weight + Weight[Authority \ a.used] < quorum_threshold

(* The authors whose certificates of round 0 are received, if any are.     *)
RoundZeroAuthors == Byzantine \cup Authors(StrayGenesis)

(* An honest authority signs at most one header per round, whatever        *)
(* signals its Core sends after its aggregators have been collected.  The  *)
(* two exceptions: the certificate of an authority that is a quorum by     *)
(* itself fills the aggregator of a collected round again alone; and round *)
(* 1 is signalled again when genesis certificates of a quorum are sent.    *)
OneProposalPerRound ==
    \A g, h \in headers :
       author[h] \in Honest /\ Conflicting(g, h) =>
          \/ \E m \in Authority : HasQuorum({m})
          \/ round[h] = 1 /\ HasQuorum(RoundZeroAuthors)

(* No authority rejects a header an honest proposer made: the parents it   *)
(* was given are a quorum of the previous round, and they are stored.      *)
ProposalsValid ==
    \A n \in Honest : \A i \in DOMAIN rx_proposer[n] :
       /\ ValidParents(rx_proposer[n][i])
       /\ MissingParents(n, rx_proposer[n][i]) = {}

(* Every header of an honest authority is certified and reaches the        *)
(* consensus of every honest authority, whatever arrives first: headers    *)
(* and certificates suspended for want of parents or batches resume.  It   *)
(* is a promise only as long as nothing is garbage collected that is still *)
(* needed, no Core has panicked (others may wait for its votes), and round *)
(* 1 is not signalled again, for nobody votes for a second header.         *)
ProposalsDelivered ==
    ~HasQuorum(RoundZeroAuthors) =>
       []<>(\/ panicked # {}
            \/ \A n \in Honest : \A h \in headers :
                  author[h] \in Honest => h \in tx_consensus[n])

(* What the authorities have certified, delivered and collected.           *)
collected == {r \in Round : \E n \in Honest : core[n].gc_round > r}

Abstract == INSTANCE CertifiedDag
               WITH certified <- certificates, delivered <- tx_consensus

(* Votes, certificates, waiters and garbage collection of all authorities  *)
(* together implement the certified DAG the consensus is written for.      *)
ImplementsCertifiedDag == Abstract!Spec

-----------------------------------------------------------------------------
(* The inductive invariant behind OneCertificatePerSlot, CausalDelivery,   *)
(* CertifiedDataAvailable and the implementation of CertifiedDag.          *)

(* Rounds are collected only as far as the consensus allows.               *)
GcBounded ==
    \A n \in Honest : \/ core[n].gc_round = 0
                      \/ core[n].gc_round + gc_depth <= consensus_round[n]

(* A vote is remembered until its round is collected, and its voter holds  *)
(* the header, its parents and its batches.                                *)
VotesRemembered ==
    \A n \in Honest, h \in Header : <<n, h>> \in votes =>
       /\ \/ slot(h) \in core[n].last_voted
          \/ round[h] < core[n].gc_round
       /\ h \in stored_headers[n]
       /\ MissingParents(n, h) = {}
       /\ ~MissingPayload(n, h)

(* A second vote for a slot is cast only after its round is collected.     *)
VotesConflictOnlyCollected ==
    \A n \in Honest : \A g, h \in Header :
       /\ <<n, g>> \in votes
       /\ <<n, h>> \in votes
       /\ Conflicting(g, h)
       => round[h] < core[n].gc_round

(* An aggregator counts each authority once, and only real votes.          *)
AggregatorsSound ==
    \A n \in Honest, h \in Header :
       LET a == core[n].votes_aggregators[h]
       IN a.used \subseteq Supporters(h) /\ a.weight <= Weight[a.used]

CertificatesVoted == \A h \in certificates : HasQuorum(Supporters(h))

(* Only certificates are in the store, in the waiters and delivered; a     *)
(* genesis certificate never waits.                                        *)
DeliveriesCertified ==
    \A n \in Honest :
       /\ store[n] = tx_consensus[n]
       /\ tx_consensus[n] \subseteq certificates \cup StrayGenesis
       /\ certificate_waiter[n] \subseteq certificates
       /\ rx_certificate_waiter[n] \subseteq certificates

(* What the Core relies on between its turns: the conjuncts above.         *)
Inv ==
    /\ TypeOK
    /\ GcBounded
    /\ VotesRemembered
    /\ VotesConflictOnlyCollected
    /\ AggregatorsSound
    /\ CertificatesVoted
    /\ DeliveriesCertified
    /\ CausalDelivery

-----------------------------------------------------------------------------
(* An honest authority votes for at most one header of an author and       *)
(* round.  It does not hold: see OneCertificatePerSlot.                    *)
OneVotePerSlot ==
    \A n \in Honest : \A g, h \in Header :
       <<n, g>> \in votes /\ <<n, h>> \in votes => ~Conflicting(g, h)
=============================================================================
