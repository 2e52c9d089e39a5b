------------------------------- MODULE Worker -------------------------------
(***************************************************************************)
(* The workers that share one id, one per authority (worker/src): the      *)
(* BatchMaker seals transactions into batches and broadcasts them, the     *)
(* QuorumWaiter holds each batch until a quorum has acknowledged it, the   *)
(* Processors store batches and pass their digests on for the primary, the *)
(* Synchronizer fetches batches the primary asks for and the Helper        *)
(* answers such requests.                                                  *)
(*                                                                         *)
(* A batch is identified with its digest.  Transactions are numbered in    *)
(* the order a worker receives them.  The network keeps what               *)
(* ReliableSender shows: a batch may be received until its handler is      *)
(* resolved or dropped, and is received before it is acknowledged.         *)
(* Requests and their answers go through SimpleSender and may be lost.     *)
(* The attack mode of the BatchMaker is not modelled; Byzantine workers do *)
(* more than it does.                                                      *)
(***************************************************************************)
EXTENDS Committee, SequencesExt

CONSTANTS
    Maker,           \* the honest workers that receive transactions
    Syncer,          \* the honest workers whose primary asks for batches
    ByzantineBatch,  \* the batches Byzantine workers may send
    gc_depth,
    batch_size,      \* in units of size
    size,            \* size[i]: the length of the i-th transaction
    MaxTransactions, \* bound: transactions received by each worker
    MaxRound,        \* bound: the rounds the primary announces
    MaxSync          \* bound: Synchronize messages of each primary

ASSUME WorkerAssumption ==
    /\ Maker \subseteq Honest /\ Syncer \subseteq Honest
    /\ \A b \in ByzantineBatch : b.author \in Byzantine
    /\ gc_depth \in Nat /\ batch_size \in Nat
    /\ MaxTransactions \in Nat /\ MaxRound \in Nat /\ MaxSync \in Nat
    /\ size \in [1 .. MaxTransactions -> Nat]

VARIABLES
    taken,               \* transactions received so far
    current_batch,       \* BatchMaker::current_batch
    current_batch_size,
    rx_quorum_waiter,    \* sealed batches, the first of which is waited for
    in_flight,           \* <<b, p>>: the handler of b's broadcast to p is open
    acked,               \* <<b, p>>: it is resolved
    rx_own,              \* the channel of the Processor for own batches
    rx_others,           \* the same for the batches of others, in any order
    store,               \* the batches in the store
    digests,             \* own digests handed to the PrimaryConnector
    others_digests,      \* the digests of others' batches handed to it
    round,               \* Synchronizer::round
    pending,             \* Synchronizer::pending: digest and round
    waiting,             \* the waiters that have not completed
    started,             \* how many times waiters were started
    requests             \* <<p, n, D>>: n's request to p for the digests D

making   == <<taken, current_batch, current_batch_size, rx_quorum_waiter>>
outgoing == <<in_flight, acked>>
storing  == <<rx_own, rx_others, store, digests, others_digests>>
syncing  == <<round, pending, waiting, started, requests>>
worker_vars == <<making, outgoing, storing, syncing>>

WorkerInit ==
    /\ taken = [n \in Honest |-> 0]
    /\ current_batch = [n \in Honest |-> <<>>]
    /\ current_batch_size = [n \in Honest |-> 0]
    /\ rx_quorum_waiter = [n \in Honest |-> <<>>]
    /\ in_flight = {}
    /\ acked = {}
    /\ rx_own = [n \in Honest |-> <<>>]
    /\ rx_others = [n \in Honest |-> {}]
    /\ store = [n \in Honest |-> {}]
    /\ digests = [n \in Honest |-> <<>>]
    /\ others_digests = [n \in Honest |-> {}]
    /\ round = [n \in Honest |-> 0]
    /\ pending = [n \in Honest |-> {}]
    /\ waiting = [n \in Honest |-> {}]
    /\ started = [n \in Honest |-> 0]
    /\ requests = {}

-----------------------------------------------------------------------------
(* BatchMaker.                                                             *)

(* Mutant of seal: the current batch is not drained.                       *)
SealWithoutDrain(n, transactions) ==
    LET b == [author |-> n, transactions |-> transactions]
    IN /\ current_batch_size' = [current_batch_size EXCEPT ![n] = 0]
       /\ current_batch' = [current_batch EXCEPT ![n] = transactions]
       /\ rx_quorum_waiter' = [rx_quorum_waiter EXCEPT ![n] = Append(@, b)]
       /\ in_flight' = in_flight \cup {<<b, p>> : p \in Authority \ {n}}

(* BatchMaker::seal                                                        *)
seal(n, transactions) ==
    LET b == [author |-> n, transactions |-> transactions]
    IN /\ current_batch_size' = [current_batch_size EXCEPT ![n] = 0]
       /\ current_batch' = [current_batch EXCEPT ![n] = <<>>]
       /\ rx_quorum_waiter' = [rx_quorum_waiter EXCEPT ![n] = Append(@, b)]
       /\ in_flight' = in_flight \cup {<<b, p>> : p \in Authority \ {n}}

(* BatchMaker::run receives a transaction.                                 *)
ReceiveTransaction(n) ==
    LET t == taken[n] + 1
        transactions == Append(current_batch[n], t)
    IN /\ taken[n] < MaxTransactions
       /\ taken' = [taken EXCEPT ![n] = t]
       /\ IF current_batch_size[n] + size[t] >= batch_size THEN seal(n, transactions)
          ELSE /\ current_batch' = [current_batch EXCEPT ![n] = transactions]
               /\ current_batch_size' = [current_batch_size EXCEPT ![n] = @ + size[t]]
               /\ UNCHANGED <<rx_quorum_waiter, in_flight>>
       /\ UNCHANGED <<acked, storing, syncing>>

(* BatchMaker::run, the timer.                                             *)
BatchTimer(n) ==
    /\ current_batch[n] # <<>>
    /\ seal(n, current_batch[n])
    /\ UNCHANGED <<taken, acked, storing, syncing>>

-----------------------------------------------------------------------------
(* The network and QuorumWaiter.                                           *)

(* An honest worker receives a broadcast batch.                            *)
ReceiveBatch(b, p) ==
    /\ <<b, p>> \in in_flight
    /\ rx_others' = [rx_others EXCEPT ![p] = @ \cup {b}]
    /\ UNCHANGED <<making, outgoing, rx_own, store, digests, others_digests, syncing>>

(* The acknowledgement of p arrives; Byzantine workers acknowledge what    *)
(* they like.                                                              *)
Acknowledge(b, p) ==
    /\ <<b, p>> \in in_flight
    /\ p \in Honest => b \in rx_others[p] \cup store[p]
    /\ in_flight' = in_flight \ {<<b, p>>}
    /\ acked' = acked \cup {<<b, p>>}
    /\ UNCHANGED <<making, storing, syncing>>

(* Mutant of Acknowledged: handlers that are still open count.             *)
AcknowledgedAtOnce(n, b) == {n} \cup {p \in Authority : <<b, p>> \in acked \cup in_flight}

(* Mutant of Acknowledged: total_stake starts without our own.             *)
AcknowledgedByOthers(n, b) == {p \in Authority : <<b, p>> \in acked}

(* The authorities whose stake total_stake holds for batch b.              *)
Acknowledged(n, b) == {n} \cup {p \in Authority : <<b, p>> \in acked}

(* QuorumWaiter::run: the other handlers of the batch are dropped.         *)
QuorumReached(n) ==
    /\ rx_quorum_waiter[n] # <<>>
    /\ LET b == Head(rx_quorum_waiter[n])
       IN /\ HasQuorum(Acknowledged(n, b))
          /\ rx_own' = [rx_own EXCEPT ![n] = Append(@, b)]
          /\ in_flight' = {m \in in_flight : m[1] # b}
    /\ rx_quorum_waiter' = [rx_quorum_waiter EXCEPT ![n] = Tail(@)]
    /\ UNCHANGED <<taken, current_batch, current_batch_size, acked, rx_others, store,
                   digests, others_digests, syncing>>

(* A Byzantine worker sends one of its batches to p.                       *)
ByzantineSends(b, p) ==
    /\ rx_others' = [rx_others EXCEPT ![p] = @ \cup {b}]
    /\ UNCHANGED <<making, outgoing, rx_own, store, digests, others_digests, syncing>>

-----------------------------------------------------------------------------
(* The two Processors.                                                     *)

ProcessOwn(n) ==
    /\ rx_own[n] # <<>>
    /\ store' = [store EXCEPT ![n] = @ \cup {Head(rx_own[n])}]
    /\ digests' = [digests EXCEPT ![n] = Append(@, Head(rx_own[n]))]
    /\ rx_own' = [rx_own EXCEPT ![n] = Tail(@)]
    /\ UNCHANGED <<making, outgoing, rx_others, others_digests, syncing>>

ProcessOthers(n, b) ==
    /\ b \in rx_others[n]
    /\ store' = [store EXCEPT ![n] = @ \cup {b}]
    /\ others_digests' = [others_digests EXCEPT ![n] = @ \cup {b}]
    /\ rx_others' = [rx_others EXCEPT ![n] = @ \ {b}]
    /\ UNCHANGED <<making, outgoing, rx_own, digests, syncing>>

-----------------------------------------------------------------------------
(* Synchronizer and Helper.                                                *)

Sealed == {m[1] : m \in in_flight \cup acked}
Batches == Sealed \cup ByzantineBatch

PendingDigests(n) == {e.digest : e \in pending[n]}

(* PrimaryWorkerMessage::Synchronize: a waiter for every digest that is    *)
(* not pending, and a request for those that are not stored.               *)
Synchronize(n, D, target) ==
    LET new == D \ PendingDigests(n)
        id  == started[n] + 1
    IN /\ D # {}
       /\ id <= MaxSync
       /\ started' = [started EXCEPT ![n] = id]
       /\ pending' = [pending EXCEPT ![n] =
                         @ \cup {[digest |-> b, round |-> round[n]] : b \in new}]
       /\ waiting' = [waiting EXCEPT ![n] =
                         @ \cup {[id |-> id, digest |-> b, cancelled |-> FALSE] : b \in new}]
       /\ requests' = requests \cup {<<target, n, new \ store[n]>>}
       /\ UNCHANGED <<making, outgoing, storing, round>>

(* The waiters of n once the entries of pending for the digests D, with    *)
(* the senders of their handlers, are gone.                                *)
Cancelled(n, D) ==
    {[w EXCEPT !.cancelled = @ \/ w.digest \in D] : w \in waiting[n]}

(* Mutant of Cleanup: cancelled digests stay pending.                      *)
CleanupWithoutRetain(n, r) ==
    LET old == IF r < gc_depth THEN {} ELSE {e \in pending[n] : e.round <= r - gc_depth}
    IN /\ round' = [round EXCEPT ![n] = r]
       /\ waiting' = [waiting EXCEPT ![n] = Cancelled(n, {e.digest : e \in old})]
       /\ UNCHANGED <<making, outgoing, storing, pending, started, requests>>

(* PrimaryWorkerMessage::Cleanup                                           *)
Cleanup(n, r) ==
    LET old == IF r < gc_depth THEN {} ELSE {e \in pending[n] : e.round <= r - gc_depth}
    IN /\ round' = [round EXCEPT ![n] = r]
       /\ pending' = [pending EXCEPT ![n] = @ \ old]
       /\ waiting' = [waiting EXCEPT ![n] = Cancelled(n, {e.digest : e \in old})]
       /\ UNCHANGED <<making, outgoing, storing, started, requests>>

(* A waiter has found its batch in the store.                              *)
WaiterDelivers(n, w) ==
    /\ w.digest \in store[n]
    /\ waiting' = [waiting EXCEPT ![n] =
          {x \in Cancelled(n, {w.digest}) : <<x.id, x.digest>> # <<w.id, w.digest>>}]
    /\ pending' = [pending EXCEPT ![n] = {e \in @ : e.digest # w.digest}]
    /\ UNCHANGED <<making, outgoing, storing, round, started, requests>>

(* A waiter has been cancelled.                                            *)
WaiterCancelled(n, w) ==
    /\ w.cancelled
    /\ waiting' = [waiting EXCEPT ![n] = @ \ {w}]
    /\ UNCHANGED <<making, outgoing, storing, round, pending, started, requests>>

(* Mutant of RetryTimer: nothing is requested again.                       *)
RetryTimerSilent(n, D, p) ==
    /\ D # {} /\ D \subseteq PendingDigests(n)
    /\ p \in Authority
    /\ UNCHANGED worker_vars

(* The timer: the old digests are requested from other workers, those that *)
(* arrived in the meantime included.                                       *)
RetryTimer(n, D, p) ==
    /\ D # {} /\ D \subseteq PendingDigests(n)
    /\ requests' = requests \cup {<<p, n, D>>}
    /\ UNCHANGED <<making, outgoing, storing, round, pending, waiting, started>>

(* Helper::run, and the arrival of what it sends: the batches in R.        *)
HelperReplies(m, R) ==
    /\ m \in requests
    /\ R \subseteq m[3]
    /\ m[1] \in Honest => R \subseteq store[m[1]]
    /\ requests' = requests \ {m}
    /\ rx_others' = [rx_others EXCEPT ![m[2]] = @ \cup R]
    /\ UNCHANGED <<making, outgoing, rx_own, store, digests, others_digests,
                   round, pending, waiting, started>>

-----------------------------------------------------------------------------
WorkerNext ==
    \/ \E n \in Maker : ReceiveTransaction(n)
    \/ \E n \in Honest : BatchTimer(n) \/ QuorumReached(n) \/ ProcessOwn(n)
    \/ \E m \in in_flight : Acknowledge(m[1], m[2])
    \/ \E m \in in_flight : m[2] \in Honest /\ ReceiveBatch(m[1], m[2])
    \/ \E n \in Honest, b \in ByzantineBatch : ByzantineSends(b, n)
    \/ \E n \in Honest : \E b \in rx_others[n] : ProcessOthers(n, b)
    \/ \E n \in Syncer : \E D \in SUBSET Batches, p \in Authority \ {n} :
          Synchronize(n, D, p)
    \/ \E n \in Syncer : \E r \in round[n] .. MaxRound : Cleanup(n, r)
    \/ \E n \in Syncer : \E w \in waiting[n] : WaiterDelivers(n, w) \/ WaiterCancelled(n, w)
    \/ \E n \in Syncer : \E D \in SUBSET PendingDigests(n), p \in Authority \ {n} :
          RetryTimer(n, D, p)
    \/ \E m \in requests : \E R \in SUBSET m[3] : HelperReplies(m, R)

WorkerSpec == WorkerInit /\ [][WorkerNext]_worker_vars

(* The tasks run, timers fire, honest workers are reached in the end, and  *)
(* the random choice of whom to ask again falls on each of the others: a   *)
(* worker never asks itself (others_workers).                              *)
Fairness ==
    /\ \A n \in Honest :
         /\ WF_worker_vars(BatchTimer(n))
         /\ WF_worker_vars(QuorumReached(n))
         /\ WF_worker_vars(ProcessOwn(n))
         /\ WF_worker_vars(\E b \in rx_others[n] : ProcessOthers(n, b))
         /\ WF_worker_vars(\E m \in in_flight : m[2] = n /\ m[1] \notin rx_others[n] \cup store[n]
                                             /\ ReceiveBatch(m[1], n))
         /\ WF_worker_vars(\E m \in in_flight : m[2] = n /\ Acknowledge(m[1], n))
    /\ \A n \in Syncer :
         /\ WF_worker_vars(\E w \in waiting[n] : WaiterDelivers(n, w))
         /\ \A p \in Honest \ {n} :
              /\ SF_worker_vars(RetryTimer(n, PendingDigests(n), p))
              /\ SF_worker_vars(\E m \in requests : m[1] = p /\ m[2] = n
                                   /\ HelperReplies(m, m[3] \cap store[p]))

-----------------------------------------------------------------------------
(* Properties.                                                             *)

(* The authorities that hold batch b, or are about to store it.            *)
Holders(b) == {p \in Honest : b \in store[p] \cup rx_others[p]}

(* A batch whose digest a worker hands over for its primary is held by     *)
(* f + 1 honest stake, whoever acknowledged it and whoever was cancelled:  *)
(* others can fetch it without its author.                                 *)
BatchAvailable ==
    \A n \in Honest : \A i \in DOMAIN digests[n] : HasValidity(Holders(digests[n][i]))

(* The transactions of a sequence of batches.                              *)
Transactions(s) == FlattenSeq([i \in DOMAIN s |-> s[i].transactions])

(* Every transaction is in one batch, in the order of arrival, from the    *)
(* BatchMaker to the PrimaryConnector.                                     *)
TransactionsKept ==
    \A n \in Honest :
       Transactions(digests[n] \o rx_own[n] \o rx_quorum_waiter[n]) \o current_batch[n]
         = [i \in 1 .. taken[n] |-> i]

(* A pending digest has a waiter that will remove it: otherwise it would   *)
(* never be asked for again.                                               *)
PendingIsWaitedFor ==
    \A n \in Syncer : \A e \in pending[n] :
       \E w \in waiting[n] : w.digest = e.digest /\ (~w.cancelled \/ w.digest \in store[n])

(* The digest of a batch with every transaction is handed in the end to    *)
(* the PrimaryConnector, whose SimpleSender may still lose it.  Neither    *)
(* the timer that seals an unfilled batch nor the queue behind the batch   *)
(* that is waited for may be stuck.                                        *)
TransactionsReported ==
    \A n \in Maker : \A t \in 1 .. MaxTransactions :
       taken[n] >= t ~> \E i \in DOMAIN digests[n] :
                           \E j \in DOMAIN digests[n][i].transactions :
                              digests[n][i].transactions[j] = t

(* A batch that the primary asks for, and that some honest worker has, is  *)
(* fetched or given up for its age.                                        *)
BatchFetched ==
    \A n \in Syncer : \A b \in ByzantineBatch :
       (b \in PendingDigests(n) /\ \E p \in Honest : b \in store[p])
          ~> (b \in store[n] \/ b \notin PendingDigests(n))
=============================================================================
