--------------------------- MODULE ReliableSender ---------------------------
(***************************************************************************)
(* One connection of the ReliableSender (network/src/reliable_sender.rs)   *)
(* and the Receiver at its other end (network/src/receiver.rs): headers,   *)
(* votes, certificates and batches all travel this way.                    *)
(*                                                                         *)
(* Messages are numbered in the order they are sent.  An ACK carries no    *)
(* number: the sender matches ACKs with pending_replies by their order.  A *)
(* stream that the sender has given up may still hold messages, which the  *)
(* task the peer runs for that stream receives, or not, at any time later; *)
(* its ACKs are lost.                                                      *)
(***************************************************************************)
EXTENDS Integers, Sequences

CONSTANTS
    MaxMessages,   \* bound: messages sent
    MaxStreams,    \* bound: TCP connections established
    Capacity       \* the capacity of the channel to the connection task

ASSUME SenderAssumption ==
    /\ MaxMessages \in Nat
    /\ MaxStreams \in Nat
    /\ Capacity \in Nat \ {0}

Message == 1 .. MaxMessages
Stream == 1 .. MaxStreams

VARIABLES
    count,             \* how many messages the caller has sent
    handler,           \* the cancel handler of each message
    receiver,          \* the channel to the connection task
    buffer,            \* Connection::buffer
    pending_replies,   \* transmitted on the current stream, not acknowledged
    alive,             \* whether the task is in keep_alive
    epoch,             \* the number of streams established so far
    wire,              \* the messages in flight on each stream
    acks,              \* the ACKs in flight on the current stream
    received           \* the messages the peer has read from a stream

sender == <<count, handler, receiver>>
vars == <<count, handler, receiver, buffer, pending_replies, alive, epoch, wire,
          acks, received>>

Init ==
    /\ count = 0
    /\ handler = [m \in Message |-> "open"]
    /\ receiver = <<>>
    /\ buffer = <<>>
    /\ pending_replies = <<>>
    /\ alive = FALSE
    /\ epoch = 0
    /\ wire = [e \in Stream |-> <<>>]
    /\ acks = 0
    /\ received = {}

-----------------------------------------------------------------------------
(* The caller.                                                             *)

(* ReliableSender::send                                                    *)
Send ==
    /\ count < MaxMessages
    /\ Len(receiver) < Capacity
    /\ count' = count + 1
    /\ receiver' = Append(receiver, count + 1)
    /\ UNCHANGED <<handler, buffer, pending_replies, alive, epoch, wire, acks,
                   received>>

(* The caller drops the handler of message m.                              *)
Cancel(m) ==
    /\ m <= count
    /\ handler[m] = "open"
    /\ handler' = [handler EXCEPT ![m] = "closed"]
    /\ UNCHANGED <<count, receiver, buffer, pending_replies, alive, epoch, wire,
                   acks, received>>

-----------------------------------------------------------------------------
(* The connection task.                                                    *)

(* TcpStream::connect succeeds.                                            *)
Connect ==
    /\ ~alive
    /\ epoch < MaxStreams
    /\ alive' = TRUE
    /\ epoch' = epoch + 1
    /\ acks' = 0
    /\ UNCHANGED <<count, handler, receiver, buffer, pending_replies, wire, received>>

(* VecDeque::retain: b is s without the cancelled messages.                *)
Retains(b, s) ==
    \E at \in [DOMAIN b -> DOMAIN s] :
       /\ \A i, j \in DOMAIN b : i < j => at[i] < at[j]
       /\ \A i \in DOMAIN b : b[i] = s[at[i]]
       /\ \A k \in DOMAIN s : handler[s[k]] # "closed" <=> \E i \in DOMAIN b : at[i] = k

(* While there is no connection: messages are moved to the buffer, and the *)
(* cancelled ones leave it.                                                *)
Drain ==
    /\ ~alive
    /\ receiver # <<>>
    /\ \E n \in 0 .. Len(buffer) + 1 : \E b \in [1 .. n -> Message] :
          /\ Retains(b, Append(buffer, Head(receiver)))
          /\ buffer' = b
    /\ receiver' = Tail(receiver)
    /\ UNCHANGED <<count, handler, pending_replies, alive, epoch, wire, acks, received>>

(* keep_alive takes the first message of the buffer and, unless it has     *)
(* been cancelled, writes it to the stream.                                *)
Transmit ==
    /\ alive
    /\ buffer # <<>>
    /\ buffer' = Tail(buffer)
    /\ IF handler[Head(buffer)] = "closed" THEN UNCHANGED <<pending_replies, wire>>
       ELSE /\ pending_replies' = Append(pending_replies, Head(buffer))
            /\ wire' = [wire EXCEPT ![epoch] = Append(@, Head(buffer))]
    /\ UNCHANGED <<count, handler, receiver, alive, epoch, acks, received>>

(* keep_alive, the buffer being empty, takes a message from the channel.   *)
Accept ==
    /\ alive
    /\ buffer = <<>>
    /\ receiver # <<>>
    /\ buffer' = <<Head(receiver)>>
    /\ receiver' = Tail(receiver)
    /\ UNCHANGED <<count, handler, pending_replies, alive, epoch, wire, acks, received>>

(* The end of keep_alive: what was not acknowledged is sent again first.   *)
Abandon ==
    /\ alive' = FALSE
    /\ buffer' = pending_replies \o buffer
    /\ pending_replies' = <<>>

(* Mutant of ReceiveAck: the newest pending message is acknowledged.       *)
ReceiveAckNewest ==
    /\ alive
    /\ buffer = <<>>
    /\ acks > 0
    /\ acks' = acks - 1
    /\ IF pending_replies = <<>> THEN Abandon /\ UNCHANGED handler
       ELSE LET k == Len(pending_replies)
            IN /\ handler' = [handler EXCEPT ![pending_replies[k]] =
                                 IF @ = "open" THEN "resolved" ELSE @]
               /\ pending_replies' = SubSeq(pending_replies, 1, k - 1)
               /\ UNCHANGED <<buffer, alive>>
    /\ UNCHANGED <<count, receiver, epoch, wire, received>>

(* keep_alive reads an ACK: the handler of the oldest pending message is   *)
(* resolved; with none pending the connection is given up (UnexpectedAck). *)
ReceiveAck ==
    /\ alive
    /\ buffer = <<>>
    /\ acks > 0
    /\ acks' = acks - 1
    /\ IF pending_replies = <<>> THEN Abandon /\ UNCHANGED handler
       ELSE /\ handler' = [handler EXCEPT ![Head(pending_replies)] =
                              IF @ = "open" THEN "resolved" ELSE @]
            /\ pending_replies' = Tail(pending_replies)
            /\ UNCHANGED <<buffer, alive>>
    /\ UNCHANGED <<count, receiver, epoch, wire, received>>

(* Mutant of Disconnect: what was not acknowledged is sent again last.     *)
DisconnectAppends ==
    /\ alive
    /\ alive' = FALSE
    /\ buffer' = buffer \o pending_replies
    /\ pending_replies' = <<>>
    /\ UNCHANGED <<count, handler, receiver, epoch, wire, acks, received>>

(* Mutant of Disconnect: what was not acknowledged is forgotten.           *)
DisconnectForgets ==
    /\ alive
    /\ alive' = FALSE
    /\ pending_replies' = <<>>
    /\ UNCHANGED <<count, handler, receiver, buffer, epoch, wire, acks, received>>

(* Writing to the stream or reading from it fails.                         *)
Disconnect ==
    /\ alive
    /\ Abandon
    /\ UNCHANGED <<count, handler, receiver, epoch, wire, acks, received>>

-----------------------------------------------------------------------------
(* The peer.                                                               *)

(* Mutant of Dispatch: a batch of two messages is acknowledged twice.      *)
DispatchTwoAcks(e) ==
    /\ wire[e] # <<>>
    /\ received' = received \cup {Head(wire[e])}
    /\ wire' = [wire EXCEPT ![e] = Tail(@)]
    /\ acks' = IF alive /\ e = epoch THEN acks + 2 ELSE acks
    /\ UNCHANGED <<count, handler, receiver, buffer, pending_replies, alive, epoch>>

(* The task that serves stream e receives a message, replies with an ACK   *)
(* and dispatches it.                                                      *)
Dispatch(e) ==
    /\ wire[e] # <<>>
    /\ received' = received \cup {Head(wire[e])}
    /\ wire' = [wire EXCEPT ![e] = Tail(@)]
    /\ acks' = IF alive /\ e = epoch THEN acks + 1 ELSE acks
    /\ UNCHANGED <<count, handler, receiver, buffer, pending_replies, alive, epoch>>

(* What a broken stream still holds is lost.                               *)
Lose(e) ==
    /\ ~(alive /\ e = epoch)
    /\ wire[e] # <<>>
    /\ wire' = [wire EXCEPT ![e] = <<>>]
    /\ UNCHANGED <<count, handler, receiver, buffer, pending_replies, alive, epoch,
                   acks, received>>

Next ==
    \/ Send \/ Connect \/ Drain \/ Transmit \/ Accept \/ ReceiveAck \/ Disconnect
    \/ \E m \in Message : Cancel(m)
    \/ \E e \in Stream : Dispatch(e) \/ Lose(e)

Spec == Init /\ [][Next]_vars

(* The tasks run, and a peer that stays reachable answers.  The bound on   *)
(* streams makes the last connection one that can fail for good, so        *)
(* FairSpec also says that it does not: Disconnect is only taken while     *)
(* another connection can follow.                                          *)
FairNext == Next /\ (Disconnect => epoch < MaxStreams)

FairSpec ==
    /\ Init /\ [][FairNext]_vars
    /\ WF_vars(Connect) /\ WF_vars(Drain) /\ WF_vars(Transmit)
    /\ WF_vars(Accept) /\ WF_vars(ReceiveAck)
    /\ \A e \in Stream : WF_vars(Dispatch(e))

-----------------------------------------------------------------------------
(* Properties.                                                             *)

(* Every variable has the type of the field it stands for.                 *)
TypeOK ==
    /\ count \in 0 .. MaxMessages
    /\ handler \in [Message -> {"open", "closed", "resolved"}]
    /\ receiver \in Seq(Message)
    /\ buffer \in Seq(Message)
    /\ pending_replies \in Seq(Message)
    /\ alive \in BOOLEAN
    /\ epoch \in 0 .. MaxStreams
    /\ wire \in [Stream -> Seq(Message)]
    /\ acks \in Nat
    /\ received \subseteq Message

(* A caller that is told of an ACK knows that the peer has the message,    *)
(* although ACKs are matched by their position in a stream that can break  *)
(* at any point: the quorum waiter counts stake on the strength of this.   *)
ResolvedWasReceived ==
    \A m \in Message : handler[m] = "resolved" => m \in received

(* What the sender still has to get through, in the order it will.         *)
Outstanding == pending_replies \o buffer \o receiver

(* No message that somebody waits for is lost or held twice, and none      *)
(* overtakes an older one, through any number of reconnections.            *)
NothingLost ==
    /\ \A i \in DOMAIN Outstanding : Outstanding[i] <= count
    /\ \A i, j \in DOMAIN Outstanding : i < j => Outstanding[i] < Outstanding[j]
    /\ \A m \in 1 .. count : handler[m] = "open" =>
          \E i \in DOMAIN Outstanding : Outstanding[i] = m

(* The peer gets a message only after every older one that was not         *)
(* cancelled, the messages of streams given up included.                   *)
InOrder ==
    \A m \in received : \A k \in 1 .. m - 1 : k \in received \/ handler[k] = "closed"

(* The peer never acknowledges more than was sent: keep_alive is not left  *)
(* with UnexpectedAck.                                                     *)
NoUnexpectedAck == alive => acks <= Len(pending_replies)

(* Every message that is sent and not cancelled is acknowledged.           *)
EventuallyResolved ==
    \A m \in Message : (count >= m) ~> (handler[m] # "open")

(* Of the messages pending on the current stream the first have reached    *)
(* the peer, whose ACKs are on their way, and the others are still in      *)
(* flight, in the same order.                                              *)
StreamMatches ==
    alive =>
      /\ epoch \in Stream
      /\ Len(pending_replies) = acks + Len(wire[epoch])
      /\ \A i \in 1 .. acks : pending_replies[i] \in received
      /\ \A i \in 1 .. Len(wire[epoch]) : wire[epoch][i] = pending_replies[acks + i]

(* A message on a stream, given up or not, comes after every older one     *)
(* that the peer may still need.                                           *)
StreamsInOrder ==
    \A e \in Stream : \A i \in 1 .. Len(wire[e]) : \A k \in 1 .. wire[e][i] - 1 :
       \/ k \in received
       \/ handler[k] = "closed"
       \/ \E j \in 1 .. i - 1 : wire[e][j] = k

(* Streams are used one after the other, and nothing is pending between    *)
(* two of them.                                                            *)
OneStream ==
    /\ \A e \in Stream : e > epoch => wire[e] = <<>>
    /\ ~alive => pending_replies = <<>>

(* The inductive invariant.                                                *)
Inv ==
    /\ TypeOK
    /\ ResolvedWasReceived
    /\ OneStream
    /\ StreamMatches
    /\ NothingLost
    /\ StreamsInOrder
    /\ InOrder
=============================================================================
