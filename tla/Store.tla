------------------------------- MODULE Store --------------------------------
(***************************************************************************)
(* The Store (store/src/lib.rs): one task that serves the commands of all  *)
(* other tasks of a node from a bounded channel.  Every call of read and   *)
(* notify_read has a oneshot channel for its answer; a caller that drops   *)
(* the call (the waiters do, in a select) leaves its sender behind.  Calls *)
(* are numbered, so that a sender belongs to one call.  Errors of rocksdb  *)
(* are not modelled.                                                       *)
(***************************************************************************)
EXTENDS Integers, Sequences, FiniteSetsExt

CONSTANTS
    Client,     \* the tasks that share the store
    Key, Value,
    None,       \* the answer when there is no value
    ChannelCapacity,  \* the capacity of the channel of commands
    MaxCalls    \* bound: calls, and writes

ASSUME StoreAssumption ==
    /\ None \notin Value
    /\ ChannelCapacity \in Nat \ {0}
    /\ MaxCalls \in Nat

VARIABLES
    db,            \* the database
    obligations,   \* the senders that wait for each key
    channel,       \* the commands not served yet
    call,          \* the number of the open call of each client, 0 if none
    answer,        \* the answer in the oneshot channel of that call, if any
    calls, writes  \* how many there were

store_vars == <<db, obligations, channel, call, answer, calls, writes>>

NoAnswer == [ready |-> FALSE]
Answer(v) == [ready |-> TRUE, value |-> v]

(* Store::new                                                              *)
StoreInit ==
    /\ db = [k \in Key |-> None]
    /\ obligations = [k \in Key |-> <<>>]
    /\ channel = <<>>
    /\ call = [c \in Client |-> 0]
    /\ answer = [c \in Client |-> NoAnswer]
    /\ calls = 0
    /\ writes = 0

-----------------------------------------------------------------------------
(* The callers.                                                            *)

(* Store::write                                                            *)
Write(k, v) ==
    /\ Len(channel) < ChannelCapacity
    /\ writes < MaxCalls
    /\ writes' = writes + 1
    /\ channel' = Append(channel, [type |-> "Write", key |-> k, value |-> v])
    /\ UNCHANGED <<db, obligations, call, answer, calls>>

(* The first half of Store::read and Store::notify_read.                   *)
Call(c, k, type) ==
    /\ call[c] = 0
    /\ Len(channel) < ChannelCapacity
    /\ calls < MaxCalls
    /\ calls' = calls + 1
    /\ call' = [call EXCEPT ![c] = calls + 1]
    /\ channel' = Append(channel, [type |-> type, key |-> k, sender |-> calls + 1])
    /\ UNCHANGED <<db, obligations, answer, writes>>

Read(c, k) == Call(c, k, "Read")
NotifyRead(c, k) == Call(c, k, "NotifyRead")

(* The second half: the answer is there.                                   *)
Return(c) ==
    /\ call[c] # 0
    /\ answer[c].ready
    /\ call' = [call EXCEPT ![c] = 0]
    /\ answer' = [answer EXCEPT ![c] = NoAnswer]
    /\ UNCHANGED <<db, obligations, channel, calls, writes>>

(* The caller drops the future instead.                                    *)
Drop(c) ==
    /\ call[c] # 0
    /\ call' = [call EXCEPT ![c] = 0]
    /\ answer' = [answer EXCEPT ![c] = NoAnswer]
    /\ UNCHANGED <<db, obligations, channel, calls, writes>>

-----------------------------------------------------------------------------
(* The task.                                                               *)

(* oneshot::Sender::send, for each of the senders: nobody listens when the *)
(* call was dropped.                                                       *)
Sent(senders, v) ==
    [c \in Client |-> IF call[c] \in senders THEN Answer(v) ELSE answer[c]]

Senders(k) == {obligations[k][i] : i \in DOMAIN obligations[k]}

(* Mutant of ServeWrite: only the first waiting sender is answered.        *)
ServeWriteFirst(m) ==
    /\ m.type = "Write"
    /\ db' = [db EXCEPT ![m.key] = m.value]
    /\ obligations' = [obligations EXCEPT ![m.key] = <<>>]
    /\ answer' = IF obligations[m.key] = <<>> THEN answer
                 ELSE Sent({Head(obligations[m.key])}, m.value)

ServeWrite(m) ==
    /\ m.type = "Write"
    /\ db' = [db EXCEPT ![m.key] = m.value]
    /\ obligations' = [obligations EXCEPT ![m.key] = <<>>]
    /\ answer' = Sent(Senders(m.key), m.value)

ServeRead(m) ==
    /\ m.type = "Read"
    /\ answer' = Sent({m.sender}, db[m.key])
    /\ UNCHANGED <<db, obligations>>

(* Mutant of ServeNotifyRead: the database is not asked.                   *)
ServeNotifyReadLate(m) ==
    /\ m.type = "NotifyRead"
    /\ obligations' = [obligations EXCEPT ![m.key] = Append(@, m.sender)]
    /\ UNCHANGED <<db, answer>>

ServeNotifyRead(m) ==
    /\ m.type = "NotifyRead"
    /\ IF db[m.key] = None
       THEN /\ obligations' = [obligations EXCEPT ![m.key] = Append(@, m.sender)]
            /\ UNCHANGED answer
       ELSE /\ answer' = Sent({m.sender}, db[m.key])
            /\ UNCHANGED obligations
    /\ UNCHANGED db

(* One turn of the loop of the task.                                       *)
Serve ==
    /\ channel # <<>>
    /\ channel' = Tail(channel)
    /\ LET m == Head(channel) IN ServeWrite(m) \/ ServeRead(m) \/ ServeNotifyRead(m)
    /\ UNCHANGED <<call, calls, writes>>

StoreNext ==
    \/ \E k \in Key, v \in Value : Write(k, v)
    \/ \E c \in Client, k \in Key : Read(c, k) \/ NotifyRead(c, k)
    \/ \E c \in Client : Return(c) \/ Drop(c)
    \/ Serve

StoreSpec == StoreInit /\ [][StoreNext]_store_vars

(* The task of the store runs whenever there is a command.                 *)
FairStoreSpec == StoreSpec /\ WF_store_vars(Serve)

-----------------------------------------------------------------------------
(* The refinement.  A command takes effect when it enters the channel.     *)

(* The writes to k among the commands at the positions in D.               *)
WritesTo(k, D) == {i \in D : channel[i].type = "Write" /\ channel[i].key = k}

(* The value of k once the commands before position i are served.          *)
ValueAt(k, i) ==
    LET before == WritesTo(k, 1 .. i - 1)
    IN IF before = {} THEN db[k] ELSE channel[Max(before)].value

(* The outcome of waiting for k from position i on.                        *)
Awaited(k, i) ==
    LET after == WritesTo(k, i .. Len(channel))
    IN IF ValueAt(k, i) # None THEN [state |-> "result", value |-> ValueAt(k, i)]
       ELSE IF after = {} THEN [state |-> "waiting", key |-> k]
       ELSE [state |-> "result", value |-> channel[Min(after)].value]

(* Where the open call of c stands in the channel.                         *)
Position(c) ==
    {i \in DOMAIN channel : channel[i].type # "Write" /\ channel[i].sender = call[c]}

Outcome(c) ==
    IF call[c] = 0 THEN [state |-> "idle"]
    ELSE IF answer[c].ready THEN [state |-> "result", value |-> answer[c].value]
    ELSE IF Position(c) # {}
    THEN LET i == CHOOSE i \in Position(c) : TRUE
         IN IF channel[i].type = "Read"
            THEN [state |-> "result", value |-> ValueAt(channel[i].key, i)]
            ELSE Awaited(channel[i].key, i)
    ELSE IF \E k \in Key : call[c] \in Senders(k)
    THEN Awaited(CHOOSE k \in Key : call[c] \in Senders(k), 1)
    ELSE [state |-> "lost"]

Atomic == INSTANCE AtomicStore WITH
    map     <- [k \in Key |-> ValueAt(k, Len(channel) + 1)],
    pending <- [c \in Client |-> Outcome(c)]

(* Whatever is queued, dropped or pending when it is called, the Store is  *)
(* the atomic map that the rest of the node takes it for.                  *)
ImplementsAtomicStore == Atomic!Spec

(* A call whose key is written before it or after it is answered, unless   *)
(* the caller drops it: no wake-up is lost between the look into the       *)
(* database and the registration.                                          *)
CallsAnswered ==
    \A c \in Client :
       Outcome(c).state = "result" ~> call[c] = 0 \/ answer[c].ready
=============================================================================
