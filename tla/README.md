# A TLA+ verification of NovelDAG

NovelDAG is a family of DAG-based Byzantine fault tolerant protocols in Rust:
Narwhal (Tusk), Bullshark, Shortfin, Mahi-Mahi and Wahoo share one primary, one
worker, one network layer and one store, and differ in how the DAG is certified
and how it is ordered.  This directory holds TLA+ models of the parts whose
correctness is hard to test, TLC runs that check them on small instances, and
TLAPS proofs of the properties the rest of the system is built on.

`PROJECT.json` lists components, runs, mutants, the source lines every
definition models, hazards, findings and theorems.

## Inventory

| Component | State it keeps | Operations | Interacts with | Correct when |
|---|---|---|---|---|
| Committee (`config`) | stakes | `quorum_threshold`, `validity_threshold` | everything | two quorums share an honest authority; a quorum contains f + 1 honest stake |
| Core (`primary/src/core.rs`, `aggregators.rs`) | `last_voted`, `voted_headers`, `processing`, own headers, one aggregator per header and per round, `gc_round` | one handler per message: own header, header, vote, certificate, two loopbacks; clean up after each | network, store, waiters, proposer, consensus | one certificate per author and round; certified data is available; no panic |
| Synchronizer, HeaderWaiter, CertificateWaiter | pending headers and certificates | suspend, resume when the store has what is missing, cancel old ones | Core (loopback channels), store, workers, peers | nothing is delivered before its history; what is suspended resumes |
| Proposer | round and parents to use, digests | receive a signal, make a header on a timer or enough payload | Core | one header per round, on a quorum of stored parents |
| GarbageCollector | `consensus_round` (atomic) | advance on commit | Core, waiters, workers | nothing needed is collected |
| Consensus: State, Bullshark, Narwhal | the dag in memory, `last_committed` | receive a certificate: insert, elect, commit, prune | primary (input, and output for collection) | all authorities output the same sequence; nothing twice; no `expect` fails |
| Consensus: Shortfin | records, processed boundaries | insert, decide a wave, collect it | primary | the same, over blocks that are certified one by one |
| Consensus: Mahi-Mahi | the dag with equivocations, decided slots, what was emitted | insert, decide slots directly or through an anchor, linearize | primary | every authority decides a slot alike; no slot has two certified candidates |
| Wahoo node (`primary/src/wahoo`) | the slots of two broadcasts, dag and pending blocks, Dones, Elects, the chain | block, vote, certificate, elect, done | `ReliableSender`; it replaces Core, proposer and waiters | one delivered block per slot, delivered everywhere; the same leaders everywhere; nobody stalls |
| Worker | batches, pending acknowledgements | make, disseminate and fetch batches | primary, peers | f + 1 honest stake holds a batch whose digest was handed over for the primary |
| Network, Store | retransmission buffers; obligations of `notify_read` | send until acknowledged; read, write, notify | all tasks | an acknowledgement belongs to its message; no wake-up is lost |

What is hard in this code is what the hazards of `PROJECT.json` name: messages
of several authorities in orders nobody wrote a test for; headers and
certificates that are suspended and come back (without the checks of a fresh
message) after the state that remembers them was garbage collected; duplicates,
of genesis certificates too; authorities that hold different parts of the DAG
when they decide; blocks that nobody asks for again.

## Modules

| Module | What it is |
|---|---|
| `Committee` | Authorities, stake as an additive measure on sets, the two thresholds, the fault assumption. |
| `Dag` | Headers with author, round and parents; the certificate of a header is identified with it, as `Certificate::digest` does; the parents rule of certified protocols. |
| `CertifiedDag` | Abstract specification: what the primaries together promise to the consensus. |
| `PrimaryCore` | The Core of every honest primary with its aggregators, synchronizer, waiters, store and proposer, in Narwhal mode, over a network that loses, repeats and reorders, with Byzantine authorities. |
| `BullsharkProposer` | The proposer in Bullshark mode and the part of its Core that feeds it. |
| `ConsensusState` | `State` and `update` of `consensus/src/lib.rs`, which three consensus tasks use. |
| `LeaderConsensus` | What `bullshark.rs` and `narwhal.rs` share: leader election, `linked`, the flattening of a sub-dag; and the properties of both. |
| `Bullshark`, `Narwhal` | The two consensus tasks. |
| `Consensus` | `Consensus::run`: the configuration chooses one of the two for the whole committee. |
| `Shortfin` | The Shortfin consensus task, over blocks that are certified one by one. |
| `MahiMahi` | The Mahi-Mahi consensus task, over blocks that are never certified and may equivocate. |
| `WahooBroadcast` | The two broadcasts of the Wahoo node, for the block of one author and round. |
| `WahooNode` | The rest of the Wahoo node: dag, rounds, election, commit, crashes. |
| `Worker` | The workers of one id: batch maker, quorum waiter, processors, synchronizer, helper. |
| `ReliableSender` | One connection of the sender, its reconnections, and the peer. |
| `Store`, `AtomicStore` | The store's task with its channel, and the atomic map the other modules take it for. |
| `CommitteeProofs`, `PrimaryCoreProofs`, `BullsharkProofs`, `ConsensusProofs`, `MahiProofs` | Theorems about the modules of these names (`CommitteeProofs` also holds lemmas several others use). |
| `WahooProofs` | Theorems about `WahooBroadcast` and `WahooNode`. |
| `ServicesProofs` | Theorems about `ReliableSender`, `Store` and `Worker`. |
| `ProtocolsProofs` | Theorems about `Shortfin` and about the instances of `MCProtocols`. |
| `MCPrimaryCore`, `MCPrimaryLate`, `MCConsensus`, `LeaderDags`, `MCShortfin`, `ShortfinDags`, `MCProtocols`, `MahiDags`, `MCWorker`, `MCWahoo` | Instances for TLC: committees, tables of headers, scenarios. |

How they fit together: `PrimaryCore` uses the store as an atomic map, which is
what `Store` is shown to be, and a network on which a message may arrive as long
as its handler is held, which is what `ReliableSender` gives; its batches arrive
as `Worker` delivers them.  `CertifiedDag` is what `PrimaryCore` implements and
what `LeaderConsensus` assumes of its DAG.  `WahooNode` uses `WahooBroadcast`
through what it promises (`SlotAgreement`, `EventuallyDelivered`).

Operators whose comment starts with "Mutant of" are not part of the models: each
is a plausible bug, named in `PROJECT.json`, that must break a property.

### PrimaryCore

Each Core is one task that takes a message, runs its handler to the end and
cleans up; an action is one such turn, so `EndTurn` (the clean up) is part of
every Core action.  The waiters, the proposer, the workers and the garbage
collector are tasks of their own and interleave with it.  `core[n]` holds the
fields of `Core`; `store`, `stored_headers` and `payload` are what authority n
has on disk; `header_waiter`, `certificate_waiter` and the `rx_` variables are
the waiters and their channels back.  `headers`, `votes` and `certificates` are
the messages sent so far: any of them may arrive at any time, again, or never.

Correspondence of actions: `ProcessOwnHeader` is `process_own_header`,
`ReceiveHeader`/`LoopbackHeader` are `sanitize_header` + `process_header` and
`process_header` alone, `ReceiveVote` is `sanitize_vote` + `process_vote`,
`ReceiveCertificate`/`LoopbackCertificate` are `process_certificate` with and
without `sanitize_certificate`.  `Accepted`, `Votes`, `HeaderProcessed` and
`HeaderEffects` split `process_header` and `vote_for_header`;
`CertificateEffects` is the second half of `process_certificate`.

`Certificate::verify` accepts without signatures whatever equals a genesis
certificate, and compares no more than id, round and origin.  `StrayGenesis` is
the set of those that somebody sends; each may arrive any number of times
(`CoreTurn`), and is sanitized and processed as any other certificate: while
`gc_round` is 0 its header is voted for and it is counted by the aggregator of
round 0, delivered and stored.  All genesis headers have the same id, which
`processing` is keyed with, so only the header of the first one is processed
(`SameId`).  An authority that processes the header of its own genesis
certificate panics, as its own vote fails (`ProcessCertificate`).

Abstractions: signatures cannot be forged; a certificate that equals a genesis
certificate has the contents of one (no parents, no payload); a header's batches
arrive together;
requests to peers and their retry timer are messages that may arrive; the
capacity of channels is unbounded; storage failures, on which the node kills
itself, do not happen.  `sanitize_header`'s limit of ten rounds in the future is
kept, though the instances have fewer rounds.

### BullsharkProposer

In Bullshark mode the Core's aggregator of a round keeps its weight after a
quorum, so each later certificate is a signal of its own, and the proposer waits:
in an even round for the leader among its parents, in an odd one for a quorum
that votes for the leader or f + 1 that do not, or for the timer.  One authority
is modelled, over the certificates its Core processes (`ProcessCertificate`, with
the clean up, duplicates and certificates of collected rounds included), a
channel (`signals`) and the task of the proposer (`ReceiveSignal`,
`MakeHeader`).  Of the parents of a certificate only the leader is kept
(`votes`).  Genesis certificates that come back are left out: in round 0 they
repeat parents the proposer has, as a set, and later it ignores them.
`ExtendedOnce`, for the rounds after that, is what makes the sums of `enough_votes`, which do not
look for duplicates, sums over authors.

### LeaderConsensus, Bullshark, Narwhal

The DAG is a constant: the consensus sends nothing that changes it, and
`CertifiedDag` says how it looks (no two certificates of a slot, histories
first).  Each observed authority receives certificates in a causal order of its
own, duplicates included, since `process_certificate` sends them again, and those
of the genesis too, which `State::new` has put into the dag (`received` starts with
them).  For a genesis certificate the tasks compute round 0 - 1: in the release
build that the scripts use it wraps to an odd number and nothing is committed,
as in the model; in a debug build the task panics, which is not modelled.  One
action is one turn of the loop of `run`.  `order_dag`'s depth-first order inside
a round is a function of the set it returns, so a sub-dag is a set.  `late` is
a history variable: the certificates an authority received below what it had
committed of their author (and, for Narwhal, below the horizon of its clean up).
`leader_of` is the election: a fixed schedule for round robin and pseudo-random
modes; with `CommonCoin` the leader is known only when the coin round has a
quorum.

### Shortfin

Waves of four rounds.  The leader of the first round is committed at the
boundary (the fourth) by a chain b3, b2, b1 of its own blocks, each carrying the
QC of the one before.  `state[n]` is `State` with the task's `records` (every
branch of a slot), the subset of them that has votes, and
`processed_boundaries`.  The DAG is a constant again, with `qc` and
`Certified`; blocks refer to blocks of any earlier round.  `ReceiveRecord` is
one turn of the loop for a structural or a certified record.  `CanReceive` says
in which order the primary sends them (`emit_shortfin_record`, and the order in
which `process_header` and `process_certificate` call it).  A wave is output
sorted, so it is modelled as a set.

### MahiMahi

Each round has two leader slots.  A block of the vote round supports the leader
block that a depth-first search over parents, in the order of digests, meets
first (`find_support`); a block of the decision round certifies a leader when
its parents in the vote round that support it have a quorum of authors.  A slot
is committed or skipped directly, or through the first later leader that is
not skipped (`indirect_decision`).  `mahi[n]` is the `MahiCommitter`; `world`,
the DAG of the behaviour, never changes: its blocks arrive in any order that
respects parents (`deliver_certificate`).  `ReceiveBlock` is one turn of the
loop: insert, decide all pending slots from the newest to the oldest, output
the decided prefix.  A failed `assert!` is `Panic`.  The support and link caches
hold answers over complete histories only, so they change nothing and are left
out; with them goes the pruning that uses `gc_depth`.

### WahooBroadcast

One slot, with `even` saying whether its round uses PBC or EPBC.  `node[n]`
holds what `Node` and `Pb` keep for the slot: the block kept, `sent_votes`, the
votes an aggregator has counted, what was delivered and what is in the dag.
`ready` stands for the rest of the dag: the blocks of the slot whose parents are
there, which `ParentsArrive` extends at any time.  A vote the origin casts
itself is counted inside the same handler, so one action may go from a proposal
to a certificate and on to a delivery, as the nested calls of the code do.
A Byzantine origin shows the blocks it likes to whom it likes and makes any
certificate `verify_wahoo_certificate` accepts; Byzantine authorities have voted
for everything in advance.

### WahooNode

Blocks are slots `<<author, round>>`, since a slot has one block.  `Certify` is
the moment the votes for a block make a certificate: its author sends and
handles it.  `Receive` takes the next message of another authority.  The
handlers are functions on the state of one authority, composed as the code
calls them: adding a block may start the next round, commit a leader, and add
the blocks that waited for it.  `try_to_update_dag` and
`try_to_update_dag_from_pending` call each other in the code; here their calls
are a list that `NextCall` works off, the next one first (`AfterCalls`), and a
block is taken out of `pending_blocks` when it is added instead of before the
call: a call for a block that is not added leaves it there either way.  Those
that waited are taken from a HashMap, in any `order`.
The output is a sequence of levels: the blocks of a level come out in the order
of a HashMap.  `Stop` is a crash; a node keeps nothing on disk.

### Worker

One action per branch of the `select!` of each task.  A batch stands for its
digest; transactions are numbered.  `in_flight` holds the open handlers of
broadcast batches: while a handler is open the batch may arrive and be
acknowledged, and a quorum drops the rest.  Requests of the synchronizer and
the answers of the helper are lost at will.  `waiting` holds the waiters, with
the number of the Synchronize that started them, since a cancelled waiter may
complete after a newer one for its digest was started.

### ReliableSender

The caller (`Send`, `Cancel`), the connection task (`Connect`, `Drain`,
`Transmit`, `Accept`, `ReceiveAck`, `Disconnect`) and the peer's task of every
stream (`Dispatch`).  A stream the sender has given up may still be read by the
peer; acknowledgements carry no number.  Failing to write is `Disconnect` with
the message still in the buffer; failing to read is `Disconnect`.

### Store

Calls are numbered, so that a sender left behind by a dropped call (the waiters
drop `notify_read` in a `select!`) answers nobody.  The refinement mapping lets a
command take effect when it enters the channel: the abstract map is the
database after everything queued, and the result of an open call is computed
from its place in the queue.

## Runs

| Run | Instance | Shows |
|---|---|---|
| `primary_late` | stakes 3, 1 and 1, the last authority Byzantine, it equivocates and withholds batches; `gc_depth` 0; 12 headers in four rounds; two genesis certificates that come back; either one honest authority is alone with the Byzantine one, or the other catches up with three rounds it has missed | at most one certificate per slot until its round is collected; data behind a certificate is held; the `expect` on our own vote fails for our own genesis certificate only; one proposal per round although aggregators restart; the inductive invariant; implementation of `CertifiedDag` |
| `primary_two` | the same stakes; two rounds, a proposal that would be short of parents, a genesis certificate of the Byzantine authority that comes back; nothing is committed; fairness | histories first, one quorum per header, proposals rest on a stored quorum; every honest proposal is certified and delivered everywhere |
| `primary_votes` | one honest authority that is a quorum alone and a Byzantine one; `gc_depth` 0 | violation: a slot is voted for twice |
| `consensus` | Bullshark and Narwhal, each on two DAGs of nine rounds, two authorities | same leaders in the same order; a leader with f + 1 support is never skipped; same sub-dags; nothing output twice; no `expect` fails |
| `consensus_twice` | one authority, one certificate sent again late | violation: it is output twice |
| `protocols` | Shortfin on two waves, where the leader of the first falls silent and that of the second equivocates; Mahi-Mahi with waves of four rounds on 36 DAGs; a Bullshark proposer among three authorities of stakes 1, 2 and 1, three rounds of certificates, `gc_depth` 1 | nothing is output twice; Shortfin: no gaps in the blocks of an honest author, a leader others may have committed is not lost, only certified chains are committed; Mahi-Mahi: every slot decided as the whole DAG decides it, no slot with two certified candidates; Bullshark: a header has a quorum of parents, repeats no round and, unless the timer expired, has the leader or the votes it had to wait for |
| `shortfin_anchors` | two authorities at the first boundary | violation: they output different blocks |
| `sender` | 3 messages, 3 streams, capacity 2; fairness | acknowledgements belong to their messages, nothing lost or overtaken; a reachable peer gets everything |
| `store` | 2 clients, 2 keys, 2 values, capacity 2, 3 calls; fairness | the store is an atomic map; every call that can be answered is, so no wake-up is lost |
| `worker` | three workers of stakes 1, 2 and 1, the last Byzantine; three transactions, or one foreign batch and three Synchronize with `gc_depth` 2; fairness | f + 1 honest stake holds a reported batch; transactions are in one batch each and are handed to the `PrimaryConnector`; a pending digest has a waiter; missing batches are fetched |
| `wahoo` | one slot of a correct or an equivocating origin, two blocks; or four nodes over four rounds with late certificates or a crash; fairness | one block per slot; the block of a correct origin is delivered everywhere although its proposal overtakes its parents; outputs closed under parents, nothing twice; leaders are committed in ascending rounds, and none in the history of the next one is passed over; nobody is left waiting |
| `wahoo_leaders` | four nodes, the certificate of the first leader late | violation: a committed leader is never committed by another authority |

Some MC modules add variables that are chosen in the initial state and never
change, so that one run covers several instances: `dag` of `MCConsensus`, the
DAG that is received; `part` of `MCPrimaryLate`, see below; `part` of `MCWorker`, whether the workers make batches
or fetch one (the two halves share only the store); `protocol` of
`MCProtocols`; `part`, `late` and `fragile` of `MCWahoo`.  The DAGs of `consensus`:
one whose leaders are a2 (too little support, no path from b4), b4 (support that
only some see) and c6 (paths to both), with a common coin; and one with an
author whose certificates are in no early history, with a schedule of leaders
and a `gc_depth` of one round.  `LeadersKept` states
`SupportedLeaderNotSkipped` for the DAG of the behaviour.

**Bounds.**  The tables give two to nine rounds, enough for what the
properties need: a conflict, its collection and a loopback (two rounds); a
certificate of a collected round that is counted again (three rounds, as in
`primary_late`); and three leaders of which the middle one decides whether the first is kept (nine
rounds, since Narwhal's leaders wait for the coin).
`gc_depth` is 0 to 2 so that collection happens inside them.  Committees have
two to four authorities, with stakes that make each quorum shape occur.  Two
observed authorities cover every pair, since they do not influence each other;
they are interchangeable, which is the symmetry used.  A genesis certificate that
was pruned is sent again in Bullshark only, and to one of the two before the
other begins (`GenesisReturns`).  `MaxLate` bounds how many
late certificates an authority is sent again.  Shortfin's authorities do not
influence each other, so one observed authority is enough for everything but
agreement, which is checked from the state in which both have received the
first three rounds.  In the DAGs of `MahiDags` (eight rounds) the first leader is d, which signs two
blocks for rounds 1 and 3.  They vary which of its blocks is referred to,
whether two or three blocks of round 3 support it or all have both blocks in
their history, how many blocks of round 4 certify it, and whether the first
anchor has a certificate in its history, has none, or is itself skipped.  One
authority that receives the blocks in every order is compared with the decision
on the whole DAG, which every authority reaches, so agreement of any two
follows.

`MCPrimaryLate` has two parts.  In "alone" the honest authority with stake 3
and the Byzantine one do whatever they may for two rounds.  In "late" these two
first complete three rounds in one fixed order (24 steps) while the other honest
authority receives the headers of two rounds but no certificate except a1.  It
then receives the certificates in every order and again, with those of the
genesis, and commits, collects and proposes in between: certificates that wait
come back when their rounds are collected and their aggregators are new.  There,
a suspended header that can resume does so before anything else; what late
headers do is explored in "alone".

`MCWahoo` explores the broadcast of a slot in full.  Four nodes over four
rounds (two leaders, the second of which can overtake the first) have far too
many interleavings: there, each scenario names the certificates that may take
any time (`late`, with what follows them from the same sender) and the
authorities that may stop at any moment (`fragile`); all other messages are
prompt and are taken in one fixed order.  The scenarios are the certificate of
the first leader late to everybody, late to form, late to one authority while
another may stop, and a late parent of the next wave.  The coin elects a for
round 1 and b or c for round 3.  Since rounds are bounded, behaviours are
finite, and `NobodyStalls` states as an invariant that a state in which nothing
more is sure to happen is one where every authority that has not stopped is in
the last round.

Three streams are enough for a message to be sent, sent
again and still be read from both; three calls for a waiter, a writer and a
reader of one key.

**Fairness.**  Weak fairness of each task of each honest primary: tokio runs a
task that can make progress, and `ReliableSender` retransmits a message until it
is acknowledged.  Nothing is assumed of Byzantine authorities or of the
consensus.  `ReliableSender` assumes that its tasks run, that a live stream is
read, and that the last of its streams does not break (the peer can be reached
in the end); `Store`, that its task runs; `Worker`, weak fairness of tasks,
timers and the reliable network, and strong fairness of retry and answer for
each other honest worker: the retry timer picks among `others_workers` at random,
and a lost request is repeated; `WahooBroadcast`, weak fairness of what reaches each correct
authority from correct ones (`ReliableSender` retransmits, and handlers are
never dropped in `wahoo/node.rs`) and of the arrival of parents, with nothing
assumed of Byzantine votes.  Retransmission stops when a round is collected (its cancel handlers
are dropped), so `ProposalsDelivered` is checked for executions where no
header is too old: nothing is committed in `primary_two` (`CalmSpec`; with its
`gc_depth` of 2 and two rounds a commit would collect nothing).  It excepts
executions in which a Core has panicked on its own genesis certificate, for
others may need its votes.

## What is proved

Every result holds for every committee and distribution of stake, and for every
value of the other constants of its module (headers, blocks, batches, keys,
`gc_depth`, capacities).

**Committee** (`CommitteeProofs`).  `QuorumIntersection` and
`QuorumHasHonestValidity`: from additivity of stake and `FaultAssumption`, the
rounding of both thresholds included.

**PrimaryCore, certificates** (`PrimaryCoreProofs`).
`TypeCorrect`, and `Invariance`: `Inv` is inductive.  `OneCertificatePerSlot` is
not: it needs that an honest vote is remembered in `last_voted` until its round
is collected (`VotesRemembered`), that conflicting votes of one authority exist
only below its `gc_round` (`VotesConflictOnlyCollected`), that aggregators count
each authority once and only for votes it cast (`AggregatorsSound`), and that
therefore a quorum voted for every certificate (`CertificatesVoted`).  Two
quorums share an honest voter, whose `gc_round` is then above the round of the
conflict.  `CertificateUniqueness`, `CausalDeliveryHolds` and `DataAvailability`
follow, and `Implementation`: every step of `PrimaryCore` is a step or a stutter
of `CertifiedDag`.  The proof summarises each action once (`StepOK`): what it
may do to votes, certificates, deliveries and the memory of the Cores.  The
invariant and the implementation are then shown from the summary alone.

**PrimaryCore, proposals** (`PrimaryCoreProofs`, second part).  `ProposalInv` extends `Inv`
to what passes between Core and proposer.  A signal must be of use at the other
end, so the aggregators of certificates may hold only stored certificates of
their round, with the weight of their authors (`SignalsValid`); the store only
grows, so a signal stays good while it waits.  From it: `ProposalsValidHolds`.
`NoPanicHolds`, which leaves our own genesis certificate as the only cause of
the panic, needs that own headers are known to the Core until their round is
collected (`OwnHeadersKept`), and that no Byzantine authority can have a
certificate for an honest header nobody broadcast (`HonestCertified`).  `QuorumOnceHolds` looks at the turn of the Core alone: an
aggregator reaches its quorum at the one vote that carries the weight over the
threshold and is reset by it.  `OneProposalHolds` orders all headers an
authority has made with the signals still in the channel (`OnceInv`): an
aggregator that was emptied by a quorum and one that was emptied by collection
look alike, so the proof shows that a round that signalled once cannot gather a
second quorum before it is collected (`SignalsOnce`, `CollectedEmpty`).

`OneProposalPerRound` names two exceptions, and both are real.  An authority
that is a quorum by itself: with `gc_depth` 0, its certificate of a collected
round that comes back from the CertificateWaiter fills a new aggregator at once,
which signals its round again, and a second header is made for the round (TLC
finds it in 22 states).  And round 1, when genesis certificates of a quorum are
sent (`RoundZeroAuthors`): the aggregator of round 0 signals round 1, in which the
proposer has made a header already, and it drops signals of older rounds only.
Everywhere else the property is proved: with neither exception no aggregator can
reach a quorum again.  In run `primary_late` neither applies: no authority is a
quorum and two of the three genesis certificates are not one.

**Bullshark proposer** (`BullsharkProofs`).  `HeadersWait`: for every schedule
of leaders, `QuorumParents` and `LeaderAwaited`.  A signal that follows the quorum
holds one certificate and would make a header without a quorum if the proposer
took it for a new round; the invariant says that its quorum comes before it in
the channel, or is with the proposer, or the proposer is past its round
(`Announced`), and that the same holds whenever an aggregator has counted a quorum
(`SignalsSound`).  The memory of the leader is tied to the header that referred
to it (`LeaderKept`), for `last_leader` is overwritten in every even round.
`BullsharkProposalsHold` adds `ExtendedOnce`: what is on its way, or with the
proposer, was counted by the aggregator of its round until that is collected
(`CountedOnce`), and a collected round sends nothing more.  The last part again
needs that no authority is a quorum alone (`NoSoleQuorum`): with `gc_depth` 0 and an authority that is a quorum alone,
TLC finds in nine states that its certificate of a collected round is sent a
second time and extends parents that hold it already.  Run `protocols` has no
such authority.

**Bullshark and Narwhal consensus** (`ConsensusProofs`), for any DAG, finite or
not, any schedule of leaders or common coin, any `gc_depth` and any order of
delivery, duplicates and late certificates included: `LeaderAgreementHolds`,
`SequenceAgreementHolds`, `SupportedLeaderNotSkippedHolds` (the property behind
`LeadersKept`), `OutputOnceHolds` and `WholeHistoryHolds`.

The argument has three parts.  First, what the code computes by walking down the
DAG is described without recursion.  `Reach(l, D)` is the least set that holds l
and is closed under parents in D; `LinkedIsReach` and `FlattenIsReach` say that
`linked` and `order_dag` compute it, `ChainKept` that `order_leaders` returns
leaders of which each is the newest in the history of the next (`Precedes`).
Each is an induction on rounds.  The library's induction theorem cannot be
applied here, so the induction is made over sets: a set of naturals that is
closed under successor is all of them, since its complement would have a
smallest member (`SetInduction`).

Second, the invariant (`ConsensusInvariance`).  Garbage collection removes from
memory what `linked` may need, so the invariant ties the dag to what was
received: everything from the last committed round on is there (`Keeps`), and
with valid parents each such round has a quorum (`RoundsFull`), so that no
`expect` fails and `linked` gives the answer it would give on the whole DAG
(`LinkedIsHistory`).  The leaders of an output are linked by `Precedes`, the
first has no leader in its history, and the last has the support of f + 1
(`LeadersOK`, `NodeOK`); support is what makes a leader an ancestor of everything
two rounds later (`BackedReached`), and therefore of the next commit.  Nothing
in the dag is below `last_committed` unless it was late (`OnceOK`), and as long
as nothing was late the dag within `gc_depth` is exactly what was received and
is not below it (`DagExact`), so that a sub-dag is a function of the
leaders so far (`Replays`).  Narwhal's `order_dag` does not filter by `gc_depth`;
it agrees with Bullshark's because update has pruned the dag (`DagRecent`),
which is why a certificate older than that counts as late there.

Third, two outputs.  The last leader of the one that is behind is backed, so the
other output holds it (`BackedLeaderKept`); a leader determines its predecessor
(`OnePredecessor`), so the two agree on everything before it
(`SameLeadersBelow`), and the sub-dags follow (`ReplaysAgree`).  Both tasks are
shown to take one kind of step, `Turn` (`BullsharkTurn`, `NarwhalTurn`), so all
of this is done once.

**Wahoo broadcasts** (`WahooProofs`).  `SlotAgreementHolds`: no two
correct nodes deliver different blocks of a slot, whatever its origin does, for
PBC and EPBC alike.  The inductive invariant says that a node votes for one block
per phase and votes Ts2 and Tf consistently with what it voted before, that
counted votes were cast, that every certificate has the votes its phase asks
for, and that what was delivered is certified.  Handlers are compositions, so
each operator has a lemma that it preserves `WorldOK`, the invariant in the
middle of a handler.  Two certificates share a correct voter
(`CommonVoter`), who would have voted twice.

**Wahoo node** (`WahooProofs`, second part), for every committee, number of rounds
and coin, whatever order the messages of different senders arrive in and
whoever stops.  `OutputIsAlwaysWhole`: what a node outputs is closed under
parents and holds no block twice.  `LeadersAreAlwaysLinked`: a node commits
leaders in ascending rounds and never goes past a leader in the history of the
one it commits next.  The first needs that the chain is what was output, is
closed under parents and reaches up to `chain_round` (`ChainOK`): the walk of
`commit_ancestor_blocks` stops at blocks of the chain, and what lies below them
is output already.

The second is not a matter of the commit rule alone.  `find_valid_leader` looks
for leaders that are elected, and a leader of round 1 that is elected after that
of round 3 would be passed over although b3 has it in its history.  It cannot be:
an authority sends the Elect of round 2 before that of round 4, both arrive in
order, and both elections ask for the same quorum, so the elected leaders
of a node have no gap below them (`Elections`, `ElectsInOrder`, `ElectsStored`).
That an authority sends all of them follows from `try_to_next_round`, which
goes up one round at a time (`OwnOK`).  What an earlier commit went past must stay outside
its history while blocks are added, so `NothingPassed` states it by a set of
blocks closed under parents that has none of them.  It would not hold without
"next": a leader that b3 goes past, because b3 does not have it in its history,
may well be in the history of c5 (finding 4).

The recursive functions of the model are choices among the solutions of an
equation; `UpwardRecursion` and `DownwardRecursion` show that such equations
over a range of rounds have a solution, and `UpwardInvariance` and
`DownwardInduction` that what each step keeps holds of the result.  That is how
`NextCall`, one call of `try_to_update_dag`, gives the whole cascade.

**Shortfin consensus** (`ProtocolsProofs`), for every committee, DAG, `gc_depth`
and order of delivery.  `CertifiedChainHolds`: the leader of a wave and the
second block of its chain are the ones a quorum voted for.
`BoundaryAgreementHolds`: two authorities that commit a boundary commit the same
leader and second block, although each takes the first chain, by digest, of the
records it happens to have; the third block may differ, as no QC for it is
asked for.  `ShortfinOutputOnceHolds` and `BoundaryOnceHolds`: no block is output,
and no boundary committed, twice.  The code guards the first with
`last_committed` and the second with `processed_boundaries`, which is trimmed by
the gc depth, so the invariant (`ShortfinInv`) says that a committed boundary is
remembered, or so far below `last_committed_round` that the guard
`r - 3 > last_committed_round` excludes it (`WaveOK`).

**Mahi-Mahi consensus** (`MahiProofs`), for every committee, both wave lengths, any
set of valid DAGs with equivocations of Byzantine authorities, any choice of
leaders and any order of delivery.  `MahiAgreementHolds`: what an authority decides
on a slot from the part of the DAG it has is what the whole DAG decides, and its
output is a prefix of that of the whole DAG; so no two authorities decide a slot
differently.  `MahiNoPanicHolds`: no slot has two certified candidates, the case in
which the committer panics.  `MahiOutputOnceHolds`: nothing is output twice.

The argument.  Support (`find_support`), reachability, the decisions of a turn
and the output are recursive functions in the model; each is named by the equation
it satisfies (`IsFound`, `IsReach`, `IsRecords`, `IsEmit`) and the equation is all
the rest uses.  A block votes for one candidate of a slot, and two certificates
have a quorum of voters each, so they share an honest one, who has one block in
the vote round: at most one candidate is certified.  A block's support and
certificates depend on its history alone, which is complete when it is delivered,
so what a part of the DAG supports the whole DAG supports (`DirectAgrees`).  A
slot that is committed directly somewhere has a quorum of certificates in its
decision round, and every later block has a quorum of parents; so every anchor
reaches one of the certificates, and a slot skipped directly has a quorum that
supports nobody, so that no anchor reaches a certificate (`AnchorAgrees`).  The
decisions of a turn then agree, by induction from the newest slot down, with those
of the whole DAG (`TurnAgrees`), and so does the output.

**The instances of run `protocols`** (`ProtocolsProofs`).  `MahiAgreementInRun`,
`MahiNoPanicInRun`, `UncertifiedOutputOnceHolds` and `BullsharkProposalsInRun`
apply the theorems to the specification that TLC checks.  For Mahi-Mahi the
hypothesis is `WorldsWellFormed`, an assumption TLC evaluates on the tables of
`MahiDags`; for Bullshark it is proved of the committee of the instance
(`ThreeCommittee`).

**Worker** (`ServicesProofs`).  `WorkerTypeCorrect`.  `BatchAvailability`: f + 1 honest
stake holds every batch whose digest was handed over for the primary; inductive with "an
acknowledgement was given by a holder" (`AcksHeld`) and "what left the
QuorumWaiter had a quorum" (`QuorumFirst`).  `PendingWaitedForHolds`: a pending
digest has a waiter that is not cancelled and is the only such one for it, so
that a waiter left over from an earlier Synchronize cannot remove it
(`PendingInv`).  `TransactionsKeptHolds`: the transactions a batch maker has taken
are in its batches and in the one it fills, each once and in the order of arrival.
The property speaks of the concatenation of the batches (`FlattenSeq` of the
community modules), which is shown to append when a batch is sealed by unfolding
the equation of its recursion.

**ReliableSender** (`ServicesProofs`), for any number of messages and
streams: `Invariance`, and from it `AcksAreSound`, `NoMessageLost`,
`DeliveryInOrder` and `AcksAreExpected`.  That an acknowledgement belongs to its
message is not inductive: `StreamMatches` says that the pending replies are, in
this order, the messages whose acknowledgements are under way and those still
on the stream.  `StreamsInOrder` is what delivery in order needs of streams that
were given up: whatever a message there has overtaken was received, cancelled
or is before it on the same stream.

**Store** (`ServicesProofs`).  `StoreInvariance`: the sender of an open call is in one
place, the channel or the obligations of one key, and a key with a value has no
obligations.  `AtomicStoreRefined`: the Store implements `AtomicStore`, for any
number of clients, keys and calls.  The refinement mapping looks for the first
and the last write of a key in the channel; that they exist, for a channel of
any length, is carried as a conjunct of the invariant (`Extremes`) instead of
being shown by an induction.  Each command that is served is a stutter, because the
abstract map took effect when it entered the channel.

The assumptions are those named in the modules: `WeightAssumption`,
`FaultAssumption`, `StakeFitsU32` (the sum of stakes is below 2^31, so the
doubling in `quorum_threshold` does not overflow), `HeaderAssumption`,
`GenesisAssumption`, `GenesisComplete` (every authority has a genesis
certificate, as `Certificate::genesis` makes them, so the first proposal has a
quorum of parents), `CoreAssumption`, `ConsensusAssumption` (the DAG is one the
primaries make: one certificate per author and round, as `CertificateUniqueness`
says of rounds no honest authority has collected, and each certificate with the
parents `Header::verify` and `process_header` ask an honest voter to check),
`GcDepthAssumption`, `ShortfinAssumption` (QCs are for certified blocks of the same
author one round below, one per slot), `MahiAssumption` (the blocks of a DAG are
finitely many and pass `Header::verify`, and only Byzantine authorities sign two for
a round), `WahooAssumption` (the committee is finite, there is a round, and the coin
elects an authority for each odd round), `WorkerAssumption`, `SenderAssumption` and
`StoreAssumption`.

**Only model-checked.**  Liveness (every property under fairness), which the
prover cannot express.  `LeadersKept`, which is `SupportedLeaderNotSkipped` for the
two DAGs of run `consensus`: the theorem is proved for every DAG, under the module's
own constants.  `AuthorOrder` and `LeaderNotLost` of Shortfin: both are about the
part of the DAG that the search of `collect_wave` reaches, and hold only under
conditions on the DAG that the module does not state, as the search stops 100 rounds
below its seeds and records older than `gc_depth` are dropped, certified or not; an
author that falls behind by more loses blocks.  `LeaderNotLost` needs in
addition that the boundary blocks of a later wave refer to the chain.
`NobodyStalls` of `WahooNode`: it is liveness stated for finite behaviours, and needs
that `AfterCalls` and `AfterRounds` run to completion, an induction over the
size of the cascade.

## Findings

1. A second vote (`primary_votes`).  `benchmark/README.md` says that honest
   authorities vote only once per author and round.  A header suspended in the
   HeaderWaiter returns through a channel that is not sanitized; if its round
   was collected meanwhile, `last_voted` no longer holds the first vote and the
   Core votes again.  `CertificateUniqueness` bounds the damage: conflicting
   certificates are possible only in rounds an honest authority has collected.
2. A second commit (`consensus_twice`).  `last_committed` is documented to
   ensure that no certificate is committed twice.  `order_dag` compares with
   `==`, and the primary does not filter duplicates.
3. Different outputs of one wave (`shortfin_anchors`).  `collect_wave` is
   documented to make all honest nodes reproduce the same sequence.  It reads
   anchors and QCs from the boundary blocks that happen to be in the local
   records, and a quorum of them is enough to decide.  Authority a, with the
   boundary blocks of a, b and d, outputs d3 and leaves c3 for later; c, with
   those of a, b and c, does the reverse.  The leader itself agrees
   (`CertifiedChain`).
4. A leader passed over (`wahoo_leaders`).  The comments on leader links say
   that a previous leader with enough shares is committed and one without any
   possible commit is skipped.  The links are built, sent and verified, but the
   commit rule follows parents only: an authority that commits b3, whose history
   lacks a1, goes past a1 for ever, although a has committed it.

Other facts contradict no stated promise but are worth knowing.  An authority
that is sent its own genesis certificate before it has collected anything, and
before any other genesis certificate, loses its Core task: `vote_for_header`
expects its own vote to be processed, and `own_headers` has no such header.
Genesis certificates of a quorum make every authority that has not collected yet
signal round 1 again (`OneProposalPerRound`).  Wahoo asks for
no missing block: if d stops when the certificate of d1 has reached only a, then
a2 refers to d1, and b and c never add a2 and never leave round 2
(`NobodyStalls` excludes authorities that stop after they have sent something).
Dones move a node to an even round although blocks are still pending, so its
next block may have fewer parents than a quorum.  A Wahoo leader is output after
its history when committed directly and before it when committed as an
ancestor, and a level in the order of a HashMap.  And with the `==` of finding 2, a certificate that arrives late is output by the authority that
receives it late and pruned by the others, so outputs differ.
`SequenceAgreement` is therefore stated for authorities without late
certificates.

## Not modelled, and the plan

Left out for good: signatures, threshold signatures of coin and RECP, sockets,
configuration files, the client, the benchmark scripts and the wording of logs.
Of the Wahoo node: the leader links and RECP shares, which nothing reads when it
commits; the Ready path, which nothing starts (`send_ready` has no caller); the
packing of payload.  Of the workers: `PrimaryConnector` and `SimpleSender`,
whose messages may simply be lost, so `TransactionsReported` ends where a digest
is handed over; and a crash between the acknowledgement of a batch and its
storage.

Not modelled yet, and why:

1. Restart of a primary (the store survives, the rest is new): it needs a Core
   whose votes and proposals are not remembered, under which every promise of
   `CertifiedDag` has to be stated anew.
2. The Shortfin and Mahi-Mahi branches of the Core: records that move from
   bubble to available to certified, pending votes and QC carriers.  The
   consensus modules assume the order in which they send records
   (`CanReceive`), read from the code.

Next to prove: of `Shortfin`, `AuthorOrder` for DAGs in which no author falls
behind by more than `gc_depth` or 100 rounds, for which the invariant has to say
which certified blocks every record was preceded by; then `LeaderNotLost`, with the
boundary blocks' references as an assumption; and of `WahooNode`, that the cascade
completes, for `NobodyStalls`.
