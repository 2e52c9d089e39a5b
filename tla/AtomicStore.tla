---------------------------- MODULE AtomicStore -----------------------------
(***************************************************************************)
(* What the tasks of a node assume of the Store: a map from keys to values *)
(* on which write and read take effect when they are called, and           *)
(* notify_read as soon as its key has a value.                             *)
(***************************************************************************)
CONSTANTS Client, Key, Value, None

VARIABLES
    map,      \* the value of every key, or None
    pending   \* for each client, the result of its call or what it waits for

vars == <<map, pending>>

Idle == [state |-> "idle"]
Waiting(k) == [state |-> "waiting", key |-> k]
Result(v) == [state |-> "result", value |-> v]

Init ==
    /\ map = [k \in Key |-> None]
    /\ pending = [c \in Client |-> Idle]

Write(k, v) ==
    /\ map' = [map EXCEPT ![k] = v]
    /\ pending' = [c \in Client |->
                     IF pending[c] = Waiting(k) THEN Result(v) ELSE pending[c]]

Read(c, k) ==
    /\ pending[c] = Idle
    /\ pending' = [pending EXCEPT ![c] = Result(map[k])]
    /\ UNCHANGED map

NotifyRead(c, k) ==
    /\ pending[c] = Idle
    /\ pending' = [pending EXCEPT ![c] =
                      IF map[k] = None THEN Waiting(k) ELSE Result(map[k])]
    /\ UNCHANGED map

(* The call of a client returns, or the client drops it.                   *)
Return(c) ==
    /\ pending[c] # Idle
    /\ pending' = [pending EXCEPT ![c] = Idle]
    /\ UNCHANGED map

Next ==
    \/ \E k \in Key, v \in Value : Write(k, v)
    \/ \E c \in Client, k \in Key : Read(c, k) \/ NotifyRead(c, k)
    \/ \E c \in Client : Return(c)

Spec == Init /\ [][Next]_vars
=============================================================================
