--------------------------- MODULE ServicesProofs ---------------------------
(***************************************************************************)
(* The theorems about the layer below the primaries: the network's         *)
(* ReliableSender, for any number of messages and streams and any channel  *)
(* capacity; the Store, which implements an atomic map for any number of   *)
(* clients, keys and calls; and the workers, for any committee, batches    *)
(* and transactions: types, the availability of the batches they report,   *)
(* the transactions they keep and the Synchronizer's bookkeeping.          *)
(***************************************************************************)
EXTENDS ReliableSender, Store, Worker, CommitteeProofs, SequenceTheorems, TLAPS

-----------------------------------------------------------------------------
(* The ReliableSender: its inductive invariant and what follows from it.   *)

In(m, s) == \E i \in 1 .. Len(s) : s[i] = m

Sorted(s) == \A i, j \in 1 .. Len(s) : i < j => s[i] < s[j]

Below(s, t) == \A i \in 1 .. Len(s), j \in 1 .. Len(t) : s[i] < t[j]

Bounded(s, n) == \A i \in 1 .. Len(s) : s[i] <= n

(* The positions of o are those of p, then those of b, then those of r.    *)
Split(o, p, b, r) ==
    /\ Len(p) \in Nat /\ Len(b) \in Nat /\ Len(r) \in Nat
    /\ \A i \in 1 .. Len(p) : i \in DOMAIN o /\ o[i] = p[i]
    /\ \A i \in 1 .. Len(b) : Len(p) + i \in DOMAIN o /\ o[Len(p) + i] = b[i]
    /\ \A i \in 1 .. Len(r) :
          Len(p) + Len(b) + i \in DOMAIN o /\ o[Len(p) + Len(b) + i] = r[i]
    /\ \A i \in DOMAIN o :
          \/ i \in 1 .. Len(p) /\ o[i] = p[i]
          \/ i - Len(p) \in 1 .. Len(b) /\ o[i] = b[i - Len(p)]
          \/ i - Len(p) - Len(b) \in 1 .. Len(r) /\ o[i] = r[i - Len(p) - Len(b)]

(* Three sequences, one after the other.                                   *)
LEMMA Positions ==
    ASSUME NEW p \in Seq(Message), NEW b \in Seq(Message), NEW r \in Seq(Message),
           NEW o, o = p \o b \o r
    PROVE  Split(o, p, b, r)
  <1>1. /\ Len(o) = Len(p) + Len(b) + Len(r)
        /\ DOMAIN o = 1 .. Len(o)
        /\ Len(p) \in Nat /\ Len(b) \in Nat /\ Len(r) \in Nat
        /\ \A i \in 1 .. Len(p) : o[i] = p[i]
        /\ \A i \in 1 .. Len(b) : o[Len(p) + i] = b[i]
        /\ \A i \in 1 .. Len(r) : o[Len(p) + Len(b) + i] = r[i]
    OBVIOUS
  <1>2. ASSUME NEW i \in DOMAIN o
        PROVE  \/ i \in 1 .. Len(p) /\ o[i] = p[i]
               \/ i - Len(p) \in 1 .. Len(b) /\ o[i] = b[i - Len(p)]
               \/ i - Len(p) - Len(b) \in 1 .. Len(r) /\ o[i] = r[i - Len(p) - Len(b)]
    <2>1. \/ i \in 1 .. Len(p)
          \/ i - Len(p) \in 1 .. Len(b)
          \/ i - Len(p) - Len(b) \in 1 .. Len(r)
      BY <1>1
    <2>2. /\ i = Len(p) + (i - Len(p))
          /\ i = Len(p) + Len(b) + (i - Len(p) - Len(b))
      BY <1>1
    <2> QED BY <1>1, <2>1, <2>2
  <1>3. /\ \A i \in 1 .. Len(p) : i \in DOMAIN o
        /\ \A i \in 1 .. Len(b) : Len(p) + i \in DOMAIN o
        /\ \A i \in 1 .. Len(r) : Len(p) + Len(b) + i \in DOMAIN o
    BY <1>1
  <1> QED BY <1>1, <1>2, <1>3 DEF Split

(* The parts of a sorted sequence are sorted, and each is below the next.  *)
LEMMA PartsSorted ==
    ASSUME NEW p \in Seq(Message), NEW b \in Seq(Message), NEW r \in Seq(Message),
           NEW o, o = p \o b \o r,
           \A i, j \in DOMAIN o : i < j => o[i] < o[j]
    PROVE  /\ Sorted(p) /\ Sorted(b) /\ Sorted(r)
           /\ Below(p, b) /\ Below(p, r) /\ Below(b, r)
  <1>0. Split(o, p, b, r)
    BY Positions
  <1>1. /\ \A i, j \in 1 .. Len(b) : i < j => Len(p) + i < Len(p) + j
        /\ \A i, j \in 1 .. Len(r) : i < j => Len(p) + Len(b) + i < Len(p) + Len(b) + j
        /\ \A i \in 1 .. Len(p), j \in 1 .. Len(b) : i < Len(p) + j
        /\ \A i \in 1 .. Len(p), j \in 1 .. Len(r) : i < Len(p) + Len(b) + j
        /\ \A i \in 1 .. Len(b), j \in 1 .. Len(r) : Len(p) + i < Len(p) + Len(b) + j
    BY <1>0 DEF Split
  <1>2. Sorted(p)
    BY <1>0 DEF Sorted, Split
  <1>3. Sorted(b)
    BY <1>1, <1>0 DEF Sorted, Split
  <1>4. Sorted(r)
    BY <1>1, <1>0 DEF Sorted, Split
  <1>5. Below(p, b)
    BY <1>1, <1>0 DEF Below, Split
  <1>6. Below(p, r)
    BY <1>1, <1>0 DEF Below, Split
  <1>7. Below(b, r)
    BY <1>1, <1>0 DEF Below, Split
  <1> QED BY <1>2, <1>3, <1>4, <1>5, <1>6, <1>7

(* Conversely, sorted parts, each below the next, make a sorted sequence.  *)
LEMMA SortedFromParts ==
    ASSUME NEW p \in Seq(Message), NEW b \in Seq(Message), NEW r \in Seq(Message),
           NEW o, o = p \o b \o r,
           Sorted(p), Sorted(b), Sorted(r), Below(p, b), Below(p, r), Below(b, r)
    PROVE  \A i, j \in DOMAIN o : i < j => o[i] < o[j]
  <1> SUFFICES ASSUME NEW i \in DOMAIN o, NEW j \in DOMAIN o, i < j
               PROVE  o[i] < o[j]
    OBVIOUS
  <1>1. CASE i \in 1 .. Len(p)
    BY <1>1, Positions, SMTT(30) DEF Sorted, Below, Split
  <1>2. CASE i - Len(p) \in 1 .. Len(b)
    BY <1>2, Positions DEF Sorted, Below, Split
  <1>3. CASE i - Len(p) - Len(b) \in 1 .. Len(r)
    BY <1>3, Positions DEF Sorted, Below, Split
  <1> QED BY <1>1, <1>2, <1>3, Positions, SMTT(30) DEF Split

-----------------------------------------------------------------------------
(* Append, Tail and concatenation.                                         *)

(* A larger message at the end.                                            *)
LEMMA AppendFacts ==
    ASSUME NEW s \in Seq(Message), NEW u \in Seq(Message), NEW m \in Message,
           NEW n \in Nat
    PROVE  /\ Sorted(s) /\ (\A i \in 1 .. Len(s) : s[i] < m) => Sorted(Append(s, m))
           /\ Bounded(s, n) /\ m <= n => Bounded(Append(s, m), n)
           /\ Below(u, s) /\ (\A i \in 1 .. Len(u) : u[i] < m) => Below(u, Append(s, m))
           /\ Below(s, u) /\ (\A i \in 1 .. Len(u) : m < u[i]) => Below(Append(s, m), u)
           /\ \A k \in Message : In(k, s) \/ k = m => In(k, Append(s, m))
  <1> DEFINE a == Append(s, m)
  <1>1. /\ Len(a) = Len(s) + 1 /\ Len(s) \in Nat /\ a[Len(s) + 1] = m
        /\ \A i \in 1 .. Len(s) : i \in 1 .. Len(a) /\ a[i] = s[i]
        /\ Len(s) + 1 \in 1 .. Len(a)
        /\ \A i \in 1 .. Len(a) : i \in 1 .. Len(s) \/ i = Len(s) + 1
    OBVIOUS
  <1> HIDE DEF a
  <1>2. Sorted(s) /\ (\A i \in 1 .. Len(s) : s[i] < m) => Sorted(a)
    BY <1>1 DEF Sorted
  <1>3. Bounded(s, n) /\ m <= n => Bounded(a, n)
    BY <1>1 DEF Bounded
  <1>4. /\ Below(u, s) /\ (\A i \in 1 .. Len(u) : u[i] < m) => Below(u, a)
        /\ Below(s, u) /\ (\A i \in 1 .. Len(u) : m < u[i]) => Below(a, u)
    BY <1>1 DEF Below
  <1>5. \A k \in Message : In(k, s) \/ k = m => In(k, a)
    BY <1>1 DEF In
  <1> QED BY <1>2, <1>3, <1>4, <1>5 DEF a

(* A sequence without its first message.                                   *)
LEMMA TailFacts ==
    ASSUME NEW s \in Seq(Message), s # <<>>, NEW u \in Seq(Message), NEW n \in Nat
    PROVE  /\ Head(s) \in Message /\ Tail(s) \in Seq(Message)
           /\ Sorted(s) => Sorted(Tail(s))
           /\ Sorted(s) => \A i \in 1 .. Len(Tail(s)) : Head(s) < Tail(s)[i]
           /\ Bounded(s, n) => Bounded(Tail(s), n) /\ Head(s) <= n
           /\ Below(u, s) => Below(u, Tail(s)) /\ \A i \in 1 .. Len(u) : u[i] < Head(s)
           /\ Below(s, u) => Below(Tail(s), u) /\ \A i \in 1 .. Len(u) : Head(s) < u[i]
           /\ \A k \in Message : In(k, s) => k = Head(s) \/ In(k, Tail(s))
           /\ In(Head(s), s)
  <1> DEFINE a == Tail(s)
  <1>1. /\ Len(s) = Len(a) + 1 /\ Len(a) \in Nat /\ Head(s) = s[1]
        /\ \A i \in 1 .. Len(a) : i + 1 \in 1 .. Len(s) /\ a[i] = s[i + 1]
        /\ 1 \in 1 .. Len(s)
        /\ \A i \in 1 .. Len(a) : 1 < i + 1
        /\ \A i, j \in 1 .. Len(a) : i < j => i + 1 < j + 1
    OBVIOUS
  <1>2. \A i \in 1 .. Len(s) : i = 1 \/ (i - 1 \in 1 .. Len(a) /\ s[i] = a[i - 1])
    OBVIOUS
  <1>3. Head(s) \in Message /\ a \in Seq(Message)
    OBVIOUS
  <1> HIDE DEF a
  <1>4. Sorted(s) => Sorted(a) /\ \A i \in 1 .. Len(a) : Head(s) < a[i]
    BY <1>1 DEF Sorted
  <1>5. Bounded(s, n) => Bounded(a, n) /\ Head(s) <= n
    BY <1>1 DEF Bounded
  <1>6. /\ Below(u, s) => Below(u, a) /\ \A i \in 1 .. Len(u) : u[i] < Head(s)
        /\ Below(s, u) => Below(a, u) /\ \A i \in 1 .. Len(u) : Head(s) < u[i]
    BY <1>1 DEF Below
  <1>7. /\ \A k \in Message : In(k, s) => k = Head(s) \/ In(k, a)
        /\ In(Head(s), s)
    BY <1>1, <1>2 DEF In
  <1> QED BY <1>3, <1>4, <1>5, <1>6, <1>7 DEF a

(* One sequence below another, put together.                               *)
LEMMA ConcatFacts ==
    ASSUME NEW s \in Seq(Message), NEW v \in Seq(Message), NEW u \in Seq(Message),
           NEW n \in Nat
    PROVE  /\ s \o v \in Seq(Message)
           /\ Sorted(s) /\ Sorted(v) /\ Below(s, v) => Sorted(s \o v)
           /\ Bounded(s, n) /\ Bounded(v, n) => Bounded(s \o v, n)
           /\ Below(s, u) /\ Below(v, u) => Below(s \o v, u)
           /\ \A k \in Message : In(k, s) \/ In(k, v) => In(k, s \o v)
  <1> DEFINE a == s \o v
  <1>1. /\ Len(a) = Len(s) + Len(v) /\ Len(s) \in Nat /\ Len(v) \in Nat
        /\ \A i \in 1 .. Len(s) : i \in 1 .. Len(a) /\ a[i] = s[i]
        /\ \A i \in 1 .. Len(v) : Len(s) + i \in 1 .. Len(a) /\ a[Len(s) + i] = v[i]
    OBVIOUS
  <1>2. \A i \in 1 .. Len(a) : \/ i \in 1 .. Len(s) /\ a[i] = s[i]
                               \/ i - Len(s) \in 1 .. Len(v) /\ a[i] = v[i - Len(s)]
    OBVIOUS
  <1>3. a \in Seq(Message)
    OBVIOUS
  <1> HIDE DEF a
  <1>4. ASSUME Sorted(s), Sorted(v), Below(s, v) PROVE Sorted(a)
    <2> SUFFICES ASSUME NEW i \in 1 .. Len(a), NEW j \in 1 .. Len(a), i < j
                 PROVE  a[i] < a[j]
      BY DEF Sorted
    <2>1. CASE i \in 1 .. Len(s) /\ j \in 1 .. Len(s)
      BY <1>1, <1>4, <2>1 DEF Sorted
    <2>2. CASE i \in 1 .. Len(s) /\ j - Len(s) \in 1 .. Len(v) /\ a[j] = v[j - Len(s)]
      BY <1>1, <1>4, <2>2 DEF Below
    <2>3. CASE i - Len(s) \in 1 .. Len(v) /\ a[i] = v[i - Len(s)]
      <3>1. /\ j - Len(s) \in 1 .. Len(v) /\ a[j] = v[j - Len(s)]
            /\ i - Len(s) < j - Len(s)
        BY <1>1, <1>2, <2>3
      <3> QED BY <1>4, <2>3, <3>1 DEF Sorted
    <2> QED BY <1>2, <2>1, <2>2, <2>3
  <1>5. Bounded(s, n) /\ Bounded(v, n) => Bounded(a, n)
    BY <1>1, <1>2 DEF Bounded
  <1>6. Below(s, u) /\ Below(v, u) => Below(a, u)
    BY <1>1, <1>2 DEF Below
  <1>7. \A k \in Message : In(k, s) \/ In(k, v) => In(k, a)
    BY <1>1 DEF In
  <1> QED BY <1>3, <1>4, <1>5, <1>6, <1>7 DEF a

-----------------------------------------------------------------------------
(* NothingLost, for the three queues instead of their concatenation.       *)
Queues ==
    /\ Sorted(pending_replies) /\ Sorted(buffer) /\ Sorted(receiver)
    /\ Below(pending_replies, buffer)
    /\ Below(pending_replies, receiver)
    /\ Below(buffer, receiver)
    /\ Bounded(pending_replies, count)
    /\ Bounded(buffer, count)
    /\ Bounded(receiver, count)
    /\ \A m \in 1 .. count : handler[m] = "open" =>
          In(m, pending_replies) \/ In(m, buffer) \/ In(m, receiver)

(* NothingLost is a statement about three queues.                          *)
LEMMA NothingLostIffQueues == TypeOK => (NothingLost <=> Queues)
  <1> SUFFICES ASSUME TypeOK PROVE NothingLost <=> Queues
    OBVIOUS
  <1>0. Split(Outstanding, pending_replies, buffer, receiver)
    BY Positions DEF TypeOK, Outstanding
  <1>1. ASSUME NothingLost PROVE Queues
    <2>1. /\ Sorted(pending_replies) /\ Sorted(buffer) /\ Sorted(receiver)
          /\ Below(pending_replies, buffer) /\ Below(pending_replies, receiver)
          /\ Below(buffer, receiver)
      BY <1>1, PartsSorted DEF NothingLost, TypeOK, Outstanding
    <2>2. /\ Bounded(pending_replies, count)
          /\ Bounded(buffer, count)
          /\ Bounded(receiver, count)
      BY <1>0, <1>1 DEF Bounded, Split, NothingLost
    <2>3. ASSUME NEW m \in 1 .. count, handler[m] = "open"
          PROVE  In(m, pending_replies) \/ In(m, buffer) \/ In(m, receiver)
      <3>1. PICK i \in DOMAIN Outstanding : Outstanding[i] = m
        BY <1>1, <2>3 DEF NothingLost
      <3> QED BY <1>0, <3>1 DEF Split, In
    <2> QED BY <2>1, <2>2, <2>3 DEF Queues
  <1>2. ASSUME Queues PROVE NothingLost
    <2>1. \A i, j \in DOMAIN Outstanding : i < j => Outstanding[i] < Outstanding[j]
      BY <1>2, SortedFromParts DEF Queues, TypeOK, Outstanding
    <2>2. \A i \in DOMAIN Outstanding : Outstanding[i] <= count
      BY <1>0, <1>2 DEF Queues, Bounded, Split
    <2>3. ASSUME NEW m \in 1 .. count, handler[m] = "open"
          PROVE  \E i \in DOMAIN Outstanding : Outstanding[i] = m
      <3>1. In(m, pending_replies) \/ In(m, buffer) \/ In(m, receiver)
        BY <1>2, <2>3 DEF Queues
      <3>2. CASE In(m, pending_replies)
        BY <1>0, <3>2 DEF In, Split
      <3>3. CASE In(m, buffer)
        BY <1>0, <3>3 DEF In, Split
      <3>4. CASE In(m, receiver)
        BY <1>0, <3>4 DEF In, Split
      <3> QED BY <3>1, <3>2, <3>3, <3>4
    <2> QED BY <2>1, <2>2, <2>3 DEF NothingLost
  <1> QED BY <1>1, <1>2

(* Inv, with the queues apart.                                             *)
QInv ==
    /\ TypeOK
    /\ ResolvedWasReceived
    /\ OneStream
    /\ StreamMatches
    /\ Queues
    /\ StreamsInOrder
    /\ InOrder

-----------------------------------------------------------------------------
(* One lemma per action.                                                   *)

(* A new message goes to the end of the channel and above all others.      *)
LEMMA SendStep == QInv /\ Send => QInv'
  <1> SUFFICES ASSUME QInv, Send PROVE QInv'
    OBVIOUS
  <1> USE SenderAssumption
  <1>1. TypeOK'
    BY DEF QInv, TypeOK, Send, Message
  <1>2. ResolvedWasReceived' /\ OneStream' /\ StreamMatches' /\ StreamsInOrder' /\ InOrder'
    BY DEF QInv, Send, ResolvedWasReceived, OneStream, StreamMatches,
           StreamsInOrder, InOrder
  <1>3. Queues'
    <2>1. /\ receiver \in Seq(Message) /\ buffer \in Seq(Message)
          /\ pending_replies \in Seq(Message)
          /\ count \in Nat /\ count' = count + 1 /\ count + 1 \in Message
          /\ receiver' = Append(receiver, count + 1)
      BY DEF QInv, TypeOK, Send, Message
    <2>2. ASSUME NEW s \in Seq(Message), Bounded(s, count)
          PROVE  Bounded(s, count') /\ \A i \in 1 .. Len(s) : s[i] < count + 1
      BY <2>1, <2>2, SMTT(30) DEF Bounded, Message
    <2>3. Sorted(receiver') /\ Bounded(receiver', count')
      BY <2>1, <2>2, AppendFacts DEF QInv, Queues
    <2>4. /\ Below(pending_replies, receiver') /\ Below(buffer, receiver')
          /\ Bounded(pending_replies, count') /\ Bounded(buffer, count')
      BY <2>1, <2>2, AppendFacts DEF QInv, Queues
    <2>5. ASSUME NEW m \in 1 .. count', handler[m] = "open"
          PROVE  In(m, pending_replies) \/ In(m, buffer) \/ In(m, receiver')
      <3>1. m \in Message /\ (m \in 1 .. count \/ m = count + 1)
        BY <2>1 DEF Message
      <3> QED BY <2>1, <2>5, <3>1, AppendFacts DEF QInv, Queues
    <2> QED BY <2>3, <2>4, <2>5 DEF Queues, QInv, Send
  <1> QED BY <1>1, <1>2, <1>3 DEF QInv

(* Cancelling weakens what is owed.                                        *)
LEMMA CancelStep == ASSUME NEW m \in Message PROVE QInv /\ Cancel(m) => QInv'
  <1> SUFFICES ASSUME QInv, Cancel(m) PROVE QInv'
    OBVIOUS
  <1>1. TypeOK' /\ OneStream' /\ StreamMatches'
    BY DEF QInv, TypeOK, Cancel, OneStream, StreamMatches
  <1>2. \A k \in Message : \/ handler'[k] = handler[k]
                           \/ handler'[k] = "closed"
    BY DEF QInv, TypeOK, Cancel
  <1>3. ResolvedWasReceived'
    BY <1>2 DEF QInv, Cancel, ResolvedWasReceived
  <1>4. Queues'
    BY DEF QInv, Cancel, Queues, TypeOK
  <1>5. StreamsInOrder'
    BY DEF QInv, Cancel, StreamsInOrder, TypeOK
  <1>6. InOrder'
    BY DEF QInv, Cancel, InOrder, TypeOK
  <1> QED BY <1>1, <1>3, <1>4, <1>5, <1>6 DEF QInv

(* A new stream is empty, and nothing is pending on it.                    *)
LEMMA ConnectStep == QInv /\ Connect => QInv'
  <1> SUFFICES ASSUME QInv, Connect PROVE QInv'
    OBVIOUS
  <1> USE SenderAssumption
  <1>1. TypeOK' /\ ResolvedWasReceived' /\ Queues' /\ StreamsInOrder' /\ InOrder'
    BY DEF QInv, TypeOK, Connect, ResolvedWasReceived, Queues, StreamsInOrder, InOrder
  <1>2. epoch' \in Stream /\ wire'[epoch'] = <<>> /\ pending_replies' = <<>>
    BY DEF QInv, TypeOK, Connect, OneStream, Stream
  <1>3. OneStream'
    BY DEF QInv, TypeOK, Connect, OneStream, Stream
  <1>4. StreamMatches'
    BY <1>2 DEF Connect, StreamMatches
  <1> QED BY <1>1, <1>3, <1>4 DEF QInv

(* While there is no connection the channel moves to the buffer, and what  *)
(* leaves the buffer was cancelled.                                        *)
LEMMA DrainStep == QInv /\ Drain => QInv'
  <1> SUFFICES ASSUME QInv, Drain PROVE QInv'
    OBVIOUS
  <1> USE SenderAssumption
  <1> DEFINE s == Append(buffer, Head(receiver))
  <1>1. PICK n \in 0 .. Len(buffer) + 1 : \E b \in [1 .. n -> Message] :
           Retains(b, s) /\ buffer' = b
    BY DEF Drain
  <1>2. /\ buffer' \in [1 .. n -> Message] /\ Retains(buffer', s)
        /\ n \in Nat
    BY <1>1 DEF QInv, TypeOK
  <1>3. /\ receiver \in Seq(Message) /\ receiver # <<>> /\ buffer \in Seq(Message)
        /\ pending_replies = <<>> /\ count \in Nat
    BY DEF QInv, TypeOK, Drain, OneStream
  <1>4. Head(receiver) \in Message /\ Tail(receiver) \in Seq(Message) /\ s \in Seq(Message)
    BY <1>3, TailFacts
  <1>5. buffer' \in Seq(Message) /\ Len(buffer') = n /\ DOMAIN buffer' = 1 .. n
    BY <1>2
  <1>6. TypeOK'
    BY <1>4, <1>5 DEF QInv, TypeOK, Drain
  <1>7. ResolvedWasReceived' /\ OneStream' /\ StreamMatches' /\ StreamsInOrder' /\ InOrder'
    BY DEF QInv, Drain, ResolvedWasReceived, OneStream, StreamMatches,
           StreamsInOrder, InOrder
  <1>8. Queues'
    <2>1. Sorted(s) /\ Below(s, Tail(receiver)) /\ Bounded(s, count)
      BY <1>3, <1>4, AppendFacts, TailFacts DEF QInv, Queues
    <2>2. PICK at \in [DOMAIN buffer' -> DOMAIN s] :
             /\ \A i, j \in DOMAIN buffer' : i < j => at[i] < at[j]
             /\ \A i \in DOMAIN buffer' : buffer'[i] = s[at[i]]
             /\ \A k \in DOMAIN s :
                   handler[s[k]] # "closed" <=> \E i \in DOMAIN buffer' : at[i] = k
      BY <1>2 DEF Retains
    <2>3. DOMAIN s = 1 .. Len(s)
      BY <1>4
    <2> HIDE DEF s
    <2>4. Sorted(buffer')
      <3> SUFFICES ASSUME NEW i \in DOMAIN buffer', NEW j \in DOMAIN buffer', i < j
                   PROVE  buffer'[i] < buffer'[j]
        BY <1>5 DEF Sorted
      <3>1. /\ at[i] \in 1 .. Len(s) /\ at[j] \in 1 .. Len(s) /\ at[i] < at[j]
            /\ buffer'[i] = s[at[i]] /\ buffer'[j] = s[at[j]]
        BY <2>2, <2>3
      <3> QED BY <2>1, <3>1 DEF Sorted
    <2>5. Below(buffer', receiver') /\ Bounded(buffer', count')
      BY <1>5, <2>1, <2>2, <2>3 DEF Below, Bounded, Drain
    <2>6. Sorted(receiver') /\ Bounded(receiver', count')
      BY <1>3, TailFacts DEF QInv, Queues, Drain
    <2>7. /\ Sorted(pending_replies') /\ Bounded(pending_replies', count')
          /\ Below(pending_replies', buffer') /\ Below(pending_replies', receiver')
      BY <1>3 DEF Sorted, Bounded, Below, Drain
    <2>8. ASSUME NEW m \in 1 .. count', handler'[m] = "open"
          PROVE  In(m, buffer') \/ In(m, receiver')
      <3>1. m \in Message /\ m \in 1 .. count /\ handler[m] = "open"
        BY <2>8 DEF QInv, TypeOK, Message, Drain
      <3>2. In(m, buffer) \/ In(m, receiver)
        BY <1>3, <3>1 DEF QInv, Queues, In
      <3>3. In(m, s) \/ In(m, receiver')
        BY <1>3, <1>4, <3>1, <3>2, AppendFacts, TailFacts DEF s, Drain
      <3>4. ASSUME In(m, s) PROVE In(m, buffer')
        <4>1. PICK k \in DOMAIN s : s[k] = m
          BY <2>3, <3>4 DEF In
        <4>2. PICK i \in DOMAIN buffer' : at[i] = k
          BY <2>2, <3>1, <4>1
        <4> QED BY <1>5, <2>2, <4>1, <4>2 DEF In
      <3> QED BY <3>3, <3>4
    <2> QED BY <2>4, <2>5, <2>6, <2>7, <2>8 DEF Queues
  <1> QED BY <1>6, <1>7, <1>8 DEF QInv

(* The buffer being empty, the first message of the channel moves to it.   *)
LEMMA AcceptStep == QInv /\ Accept => QInv'
  <1> SUFFICES ASSUME QInv, Accept PROVE QInv'
    OBVIOUS
  <1>1. /\ receiver \in Seq(Message) /\ receiver # <<>> /\ buffer = <<>>
        /\ pending_replies \in Seq(Message) /\ count \in Nat
        /\ buffer' = <<Head(receiver)>> /\ receiver' = Tail(receiver)
    BY DEF QInv, TypeOK, Accept
  <1>2. Head(receiver) \in Message /\ Tail(receiver) \in Seq(Message)
    BY <1>1, TailFacts
  <1>3. /\ buffer' \in Seq(Message) /\ Len(buffer') = 1 /\ buffer'[1] = Head(receiver)
    BY <1>1, <1>2
  <1>4. TypeOK'
    BY <1>2, <1>3 DEF QInv, TypeOK, Accept
  <1>5. ResolvedWasReceived' /\ OneStream' /\ StreamMatches' /\ StreamsInOrder' /\ InOrder'
    BY DEF QInv, Accept, ResolvedWasReceived, OneStream, StreamMatches,
           StreamsInOrder, InOrder
  <1>6. Queues'
    <2>1. /\ Sorted(Tail(receiver)) /\ Bounded(Tail(receiver), count)
          /\ Head(receiver) <= count
          /\ \A i \in 1 .. Len(Tail(receiver)) : Head(receiver) < Tail(receiver)[i]
          /\ Below(pending_replies, Tail(receiver))
          /\ \A i \in 1 .. Len(pending_replies) : pending_replies[i] < Head(receiver)
      BY <1>1, TailFacts DEF QInv, Queues
    <2>2. Sorted(buffer') /\ Bounded(buffer', count) /\ Below(buffer', receiver')
          /\ Below(pending_replies, buffer')
      BY <1>1, <1>3, <2>1 DEF Sorted, Bounded, Below
    <2>3. ASSUME NEW m \in 1 .. count, handler[m] = "open"
          PROVE  In(m, pending_replies) \/ In(m, buffer') \/ In(m, receiver')
      <3>1. m \in Message
        BY SenderAssumption DEF QInv, TypeOK, Message
      <3>2. In(m, pending_replies) \/ In(m, receiver)
        <4>1. ~In(m, buffer)
          BY <1>1 DEF In
        <4> QED BY <2>3, <4>1 DEF QInv, Queues
      <3>3. In(m, receiver) => m = Head(receiver) \/ In(m, receiver')
        BY <1>1, <3>1, TailFacts
      <3>4. m = Head(receiver) => In(m, buffer')
        BY <1>3 DEF In
      <3> QED BY <3>2, <3>3, <3>4
    <2> QED BY <1>1, <2>1, <2>2, <2>3 DEF Queues, QInv, Accept
  <1> QED BY <1>4, <1>5, <1>6 DEF QInv

(* A message moves from the head of the buffer to the end of what is       *)
(* pending and of what is in flight, or is dropped because it was          *)
(* cancelled.                                                              *)
LEMMA TransmitStep == QInv /\ Transmit => QInv'
  <1> SUFFICES ASSUME QInv, Transmit PROVE QInv'
    OBVIOUS
  <1> USE SenderAssumption
  <1> DEFINE h == Head(buffer)
  <1>1. /\ receiver \in Seq(Message) /\ buffer \in Seq(Message) /\ buffer # <<>>
        /\ pending_replies \in Seq(Message) /\ count \in Nat
        /\ buffer' = Tail(buffer) /\ receiver' = receiver /\ count' = count
        /\ handler' = handler /\ received' = received /\ alive' = alive /\ alive
        /\ epoch' = epoch /\ acks' = acks /\ epoch \in Stream /\ acks \in Nat
        /\ wire \in [Stream -> Seq(Message)]
    BY DEF QInv, TypeOK, Transmit, StreamMatches
  <1>2. /\ h \in Message /\ Tail(buffer) \in Seq(Message)
        /\ Sorted(buffer') /\ Bounded(buffer', count) /\ h <= count
        /\ \A i \in 1 .. Len(buffer') : h < buffer'[i]
        /\ Below(pending_replies, buffer')
        /\ \A i \in 1 .. Len(pending_replies) : pending_replies[i] < h
        /\ Below(buffer', receiver)
        /\ \A i \in 1 .. Len(receiver) : h < receiver[i]
    BY <1>1, TailFacts DEF QInv, Queues
  <1>3. ResolvedWasReceived' /\ InOrder'
    BY <1>1 DEF QInv, ResolvedWasReceived, InOrder
  <1>4. ASSUME NEW m \in 1 .. count, handler[m] = "open"
        PROVE  m \in Message /\ (In(m, pending_replies) \/ m = h \/ In(m, buffer') \/ In(m, receiver))
    <2>1. m \in Message
      BY DEF QInv, TypeOK, Message
    <2> QED BY <1>1, <1>4, <2>1, TailFacts DEF QInv, Queues
  <1>5. CASE handler[h] = "closed"
    <2>1. pending_replies' = pending_replies /\ wire' = wire
      BY <1>5 DEF Transmit
    <2>2. TypeOK'
      BY <1>1, <1>2, <2>1 DEF QInv, TypeOK
    <2>3. OneStream' /\ StreamMatches' /\ StreamsInOrder'
      BY <1>1, <2>1 DEF QInv, OneStream, StreamMatches, StreamsInOrder
    <2>4. Queues'
      BY <1>1, <1>2, <1>4, <1>5, <2>1 DEF QInv, Queues
    <2> QED BY <1>3, <2>2, <2>3, <2>4 DEF QInv
  <1>6. CASE handler[h] # "closed"
    <2>1. /\ pending_replies' = Append(pending_replies, h)
          /\ wire' = [wire EXCEPT ![epoch] = Append(wire[epoch], h)]
      BY <1>6 DEF Transmit
    <2> HIDE DEF h
    <2>2. TypeOK'
      BY <1>1, <1>2, <2>1 DEF QInv, TypeOK
    <2>3. Queues'
      <3>1. /\ Sorted(pending_replies') /\ Bounded(pending_replies', count)
            /\ Below(pending_replies', buffer') /\ Below(pending_replies', receiver)
        BY <1>1, <1>2, <2>1, AppendFacts DEF QInv, Queues
      <3>2. \A m \in Message : In(m, pending_replies) \/ m = h => In(m, pending_replies')
        BY <1>1, <1>2, <2>1, AppendFacts
      <3> QED BY <1>1, <1>2, <1>4, <3>1, <3>2 DEF QInv, Queues
    <2>4. OneStream'
      BY <1>1, <2>1 DEF QInv, OneStream, TypeOK, Stream
    <2>5. /\ wire'[epoch] = Append(wire[epoch], h) /\ wire[epoch] \in Seq(Message)
          /\ \A e \in Stream : e # epoch => wire'[e] = wire[e]
          /\ Len(wire[epoch]) \in Nat
      BY <1>1, <2>1
    <2>a. /\ Len(wire'[epoch]) = Len(wire[epoch]) + 1
          /\ wire'[epoch][Len(wire[epoch]) + 1] = h
          /\ \A i \in 1 .. Len(wire[epoch]) : wire'[epoch][i] = wire[epoch][i]
      BY <1>2, <2>5, AppendProperties
    <2>b. /\ Len(pending_replies') = Len(pending_replies) + 1
          /\ pending_replies'[Len(pending_replies) + 1] = h
          /\ \A i \in 1 .. Len(pending_replies) : pending_replies'[i] = pending_replies[i]
          /\ Len(pending_replies) \in Nat
      BY <1>1, <1>2, <2>1, AppendProperties
    <2>6. StreamMatches'
      <3>1. /\ Len(pending_replies) = acks + Len(wire[epoch])
            /\ \A i \in 1 .. acks : pending_replies[i] \in received
            /\ \A i \in 1 .. Len(wire[epoch]) : wire[epoch][i] = pending_replies[acks + i]
        BY <1>1 DEF QInv, StreamMatches
      <3>2. Len(pending_replies') = acks + Len(wire'[epoch])
        BY <1>1, <2>5, <2>a, <2>b, <3>1
      <3>3. \A i \in 1 .. acks : pending_replies'[i] \in received
        BY <1>1, <2>5, <2>a, <2>b, <3>1
      <3>4. \A i \in 1 .. Len(wire'[epoch]) : wire'[epoch][i] = pending_replies'[acks + i]
        <4> SUFFICES ASSUME NEW i \in 1 .. Len(wire'[epoch])
                     PROVE  wire'[epoch][i] = pending_replies'[acks + i]
          OBVIOUS
        <4>1. CASE i \in 1 .. Len(wire[epoch])
          <5>1. acks + i \in 1 .. Len(pending_replies)
            BY <1>1, <2>5, <3>1, <4>1
          <5> QED BY <2>a, <2>b, <3>1, <4>1, <5>1
        <4>2. CASE i = Len(wire[epoch]) + 1
          <5>1. acks + i = Len(pending_replies) + 1
            BY <1>1, <2>5, <3>1, <4>2
          <5> QED BY <2>a, <2>b, <4>2, <5>1
        <4> QED BY <2>5, <2>a, <4>1, <4>2
      <3> QED BY <1>1, <3>2, <3>3, <3>4 DEF StreamMatches
    <2>7. StreamsInOrder'
      <3> SUFFICES ASSUME NEW e \in Stream, NEW i \in 1 .. Len(wire'[e]),
                          NEW k \in 1 .. wire'[e][i] - 1
                   PROVE  \/ k \in received \/ handler[k] = "closed"
                          \/ \E j \in 1 .. i - 1 : wire'[e][j] = k
        BY <1>1 DEF StreamsInOrder
      <3>1. CASE e # epoch
        <4>1. wire'[e] = wire[e]
          BY <2>5, <3>1
        <4>2. i \in 1 .. Len(wire[e]) /\ k \in 1 .. wire[e][i] - 1
          BY <4>1
        <4> QED BY <4>1, <4>2 DEF QInv, StreamsInOrder
      <3>2. CASE e = epoch /\ i \in 1 .. Len(wire[epoch])
        <4>1. /\ wire'[e][i] = wire[e][i]
              /\ \A j \in 1 .. i - 1 : wire'[e][j] = wire[e][j]
          BY <2>5, <2>a, <3>2
        <4>2. i \in 1 .. Len(wire[e]) /\ k \in 1 .. wire[e][i] - 1
          BY <3>2, <4>1
        <4> QED BY <4>1, <4>2 DEF QInv, StreamsInOrder
      <3>3. CASE e = epoch /\ i = Len(wire[epoch]) + 1
        <4>1. wire'[e][i] = h /\ k \in 1 .. count /\ k \in Message /\ k < h
          BY <1>1, <1>2, <2>a, <3>3, SMTT(30) DEF Message
        <4>2. handler[k] \in {"open", "closed", "resolved"}
          BY <4>1 DEF QInv, TypeOK
        <4>3. CASE handler[k] = "resolved"
          BY <4>1, <4>3 DEF QInv, ResolvedWasReceived
        <4>4. CASE handler[k] = "open"
          <5>1. In(k, pending_replies)
            <6>1. In(k, pending_replies) \/ In(k, buffer') \/ In(k, receiver)
              BY <1>4, <4>1, <4>4 DEF Message
            <6>2. ~In(k, buffer') /\ ~In(k, receiver)
              <7>1. /\ \A j \in 1 .. Len(buffer') : h < buffer'[j] /\ buffer'[j] # k
                    /\ \A j \in 1 .. Len(receiver) : h < receiver[j] /\ receiver[j] # k
                BY <1>2, <4>1 DEF Message
              <7> QED BY <7>1 DEF In
            <6> QED BY <6>1, <6>2
          <5>2. PICK q \in 1 .. Len(pending_replies) : pending_replies[q] = k
            BY <5>1 DEF In
          <5>3. CASE q \in 1 .. acks
            BY <1>1, <5>2, <5>3 DEF QInv, StreamMatches
          <5>4. CASE q \notin 1 .. acks
            <6>1. q - acks \in 1 .. Len(wire[epoch]) /\ q = acks + (q - acks)
              BY <1>1, <2>5, <5>4 DEF QInv, StreamMatches
            <6>2. wire[epoch][q - acks] = k
              BY <1>1, <5>2, <6>1 DEF QInv, StreamMatches
            <6>3. wire'[epoch][q - acks] = k /\ q - acks \in 1 .. i - 1
              BY <2>5, <2>a, <3>3, <6>1, <6>2
            <6> QED BY <3>3, <6>3
          <5> QED BY <5>3, <5>4
        <4> QED BY <4>2, <4>3, <4>4
      <3> QED BY <2>5, <2>a, <3>1, <3>2, <3>3
    <2> QED BY <1>3, <2>2, <2>3, <2>4, <2>6, <2>7 DEF QInv
  <1> QED BY <1>5, <1>6

(* Giving up a stream puts what was pending in front of the buffer.        *)
LEMMA AbandonStep ==
    QInv /\ Abandon /\ UNCHANGED <<count, handler, receiver, epoch, wire, received>>
         /\ acks' \in Nat => QInv'
  <1> SUFFICES ASSUME QInv, Abandon, acks' \in Nat,
                      UNCHANGED <<count, handler, receiver, epoch, wire, received>>
               PROVE  QInv'
    OBVIOUS
  <1>1. /\ receiver \in Seq(Message) /\ buffer \in Seq(Message)
        /\ pending_replies \in Seq(Message) /\ count \in Nat
        /\ pending_replies' = <<>> /\ buffer' = pending_replies \o buffer
    BY DEF QInv, TypeOK, Abandon
  <1>2. /\ buffer' \in Seq(Message) /\ Sorted(buffer') /\ Bounded(buffer', count)
        /\ Below(buffer', receiver)
        /\ \A k \in Message : In(k, pending_replies) \/ In(k, buffer) => In(k, buffer')
    BY <1>1, ConcatFacts DEF QInv, Queues
  <1>3. TypeOK'
    <2>1. pending_replies' \in Seq(Message)
      BY <1>1
    <2>2. alive' \in BOOLEAN
      BY Zenon DEF Abandon
    <2> QED BY <1>2, <2>1, <2>2 DEF QInv, TypeOK
  <1>4. ResolvedWasReceived' /\ OneStream' /\ StreamMatches' /\ StreamsInOrder' /\ InOrder'
    <2>1. OneStream' /\ StreamMatches'
      BY DEF QInv, Abandon, OneStream, StreamMatches
    <2>2. ResolvedWasReceived' /\ InOrder'
      BY DEF QInv, ResolvedWasReceived, InOrder
    <2>3. StreamsInOrder'
      BY DEF QInv, StreamsInOrder
    <2> QED BY <2>1, <2>2, <2>3
  <1>5. Queues'
    <2>1. /\ Sorted(pending_replies') /\ Bounded(pending_replies', count)
          /\ Below(pending_replies', buffer') /\ Below(pending_replies', receiver)
      BY <1>1 DEF Sorted, Bounded, Below
    <2>2. ASSUME NEW m \in 1 .. count, handler[m] = "open"
          PROVE  In(m, buffer') \/ In(m, receiver)
      <3>1. m \in Message
        BY SenderAssumption DEF QInv, TypeOK, Message
      <3> QED BY <1>2, <2>2, <3>1 DEF QInv, Queues
    <2> QED BY <1>2, <2>1, <2>2 DEF Queues, QInv
  <1> QED BY <1>3, <1>4, <1>5 DEF QInv

(* A failure to read or write gives the stream up.                         *)
LEMMA DisconnectStep == QInv /\ Disconnect => QInv'
  <1>1. QInv /\ Disconnect => acks' \in Nat
    BY DEF QInv, TypeOK, Disconnect
  <1> QED BY <1>1, AbandonStep DEF Disconnect

(* An ACK belongs to the oldest pending message, which the peer has.       *)
LEMMA ReceiveAckStep == QInv /\ ReceiveAck => QInv'
  <1> SUFFICES ASSUME QInv, ReceiveAck PROVE QInv'
    OBVIOUS
  <1> USE SenderAssumption
  <1>1. /\ alive /\ acks \in Nat /\ acks > 0 /\ acks' = acks - 1 /\ epoch \in Stream
        /\ receiver' = receiver /\ count' = count /\ epoch' = epoch /\ wire' = wire
        /\ received' = received /\ wire[epoch] \in Seq(Message)
        /\ receiver \in Seq(Message) /\ buffer \in Seq(Message)
        /\ pending_replies \in Seq(Message) /\ count \in Nat
    BY DEF QInv, TypeOK, ReceiveAck, StreamMatches
  <1>2. CASE pending_replies = <<>>
    BY <1>1, <1>2, AbandonStep DEF ReceiveAck
  <1>3. CASE pending_replies # <<>>
    <2> DEFINE h == Head(pending_replies)
    <2>1. /\ handler' = [handler EXCEPT ![h] = IF handler[h] = "open" THEN "resolved"
                                               ELSE handler[h]]
          /\ pending_replies' = Tail(pending_replies)
          /\ buffer' = buffer /\ alive' = alive
      BY <1>3 DEF ReceiveAck
    <2>2. /\ h \in Message /\ Tail(pending_replies) \in Seq(Message)
          /\ Sorted(pending_replies') /\ Bounded(pending_replies', count)
          /\ Below(pending_replies', buffer) /\ Below(pending_replies', receiver)
          /\ \A k \in Message : In(k, pending_replies) => k = h \/ In(k, pending_replies')
      BY <1>1, <1>3, <2>1, TailFacts DEF QInv, Queues
    <2>3. h = pending_replies[1] /\ h \in received
      BY <1>1, <1>3 DEF QInv, StreamMatches
    <2> HIDE DEF h
    <2>4. /\ handler \in [Message -> {"open", "closed", "resolved"}]
          /\ handler' \in [Message -> {"open", "closed", "resolved"}]
          /\ handler'[h] # "open"
          /\ \A k \in Message : k # h => handler'[k] = handler[k]
          /\ \A k \in Message : handler[k] = "closed" => handler'[k] = "closed"
      BY <2>1, <2>2 DEF QInv, TypeOK
    <2>5. TypeOK'
      BY <1>1, <2>1, <2>2, <2>4 DEF QInv, TypeOK
    <2>6. ResolvedWasReceived'
      BY <1>1, <2>3, <2>4 DEF QInv, ResolvedWasReceived
    <2>7. Queues'
      <3>1. ASSUME NEW m \in 1 .. count, handler'[m] = "open"
            PROVE  In(m, pending_replies') \/ In(m, buffer) \/ In(m, receiver)
        <4>1. m \in Message
          BY DEF QInv, TypeOK, Message
        <4>2. m # h /\ handler[m] = "open"
          BY <2>4, <3>1, <4>1
        <4> QED BY <2>2, <4>1, <4>2 DEF QInv, Queues
      <3> QED BY <1>1, <2>1, <2>2, <3>1 DEF QInv, Queues
    <2>8. OneStream'
      BY <1>1, <2>1 DEF QInv, OneStream
    <2>9. StreamMatches'
      <3>1. /\ Len(pending_replies) = acks + Len(wire[epoch])
            /\ \A i \in 1 .. acks : pending_replies[i] \in received
            /\ \A i \in 1 .. Len(wire[epoch]) : wire[epoch][i] = pending_replies[acks + i]
        BY <1>1 DEF QInv, StreamMatches
      <3>2. /\ Len(pending_replies') = Len(pending_replies) - 1
            /\ \A i \in 1 .. Len(pending_replies') : pending_replies'[i] = pending_replies[i + 1]
            /\ Len(wire[epoch]) \in Nat
        BY <1>1, <1>3, <2>1, HeadTailProperties
      <3>3. ASSUME NEW i \in 1 .. acks - 1 PROVE pending_replies'[i] \in received
        <4>1. i \in 1 .. Len(pending_replies') /\ i + 1 \in 1 .. acks
          BY <1>1, <3>1, <3>2
        <4> QED BY <3>1, <3>2, <4>1
      <3>4. ASSUME NEW i \in 1 .. Len(wire[epoch])
            PROVE  wire[epoch][i] = pending_replies'[acks - 1 + i]
        <4>1. i \in Nat /\ 1 <= i /\ i <= Len(wire[epoch])
          BY <3>2
        <4>2. Len(pending_replies') = acks - 1 + Len(wire[epoch])
          BY <1>1, <3>1, <3>2
        <4>3. acks - 1 + i \in 1 .. Len(pending_replies') /\ acks - 1 + i + 1 = acks + i
          BY <1>1, <3>2, <4>1, <4>2
        <4> QED BY <3>1, <3>2, <4>3
      <3>5. Len(pending_replies') = acks - 1 + Len(wire[epoch])
        BY <1>1, <3>1, <3>2
      <3> QED BY <1>1, <2>1, <3>3, <3>4, <3>5 DEF StreamMatches
    <2>10. StreamsInOrder'
      <3> SUFFICES ASSUME NEW e \in Stream, NEW i \in 1 .. Len(wire[e]),
                          NEW k \in 1 .. wire[e][i] - 1
                   PROVE  \/ k \in received \/ handler'[k] = "closed"
                          \/ \E j \in 1 .. i - 1 : wire[e][j] = k
        <4>1. wire' = wire /\ received' = received
          BY <1>1
        <4> QED BY <4>1 DEF StreamsInOrder
      <3>1. k \in Message
        <4>1. wire[e][i] \in Message
          BY DEF QInv, TypeOK
        <4> QED BY <4>1 DEF Message
      <3> QED BY <2>4, <3>1 DEF QInv, StreamsInOrder
    <2>11. InOrder'
      <3> SUFFICES ASSUME NEW m \in received, NEW k \in 1 .. m - 1
                   PROVE  k \in received \/ handler'[k] = "closed"
        BY <1>1 DEF InOrder
      <3>1. k \in Message
        BY DEF QInv, TypeOK, Message
      <3> QED BY <2>4, <3>1 DEF QInv, InOrder
    <2> QED BY <2>5, <2>6, <2>7, <2>8, <2>9, <2>10, <2>11 DEF QInv
  <1> QED BY <1>2, <1>3

(* A message of stream e is received after the older ones of that stream,  *)
(* and its ACK follows theirs.                                             *)
LEMMA DispatchStep == ASSUME NEW e \in Stream PROVE QInv /\ Dispatch(e) => QInv'
  <1> SUFFICES ASSUME QInv, Dispatch(e) PROVE QInv'
    OBVIOUS
  <1> USE SenderAssumption
  <1> DEFINE h == Head(wire[e])
  <1>1. /\ wire \in [Stream -> Seq(Message)] /\ wire[e] # <<>> /\ wire[e] \in Seq(Message)
        /\ received' = received \cup {h} /\ wire' = [wire EXCEPT ![e] = Tail(wire[e])]
        /\ acks' = (IF alive /\ e = epoch THEN acks + 1 ELSE acks)
        /\ UNCHANGED <<count, handler, receiver, buffer, pending_replies, alive, epoch>>
        /\ acks \in Nat /\ received \subseteq Message
    BY DEF QInv, TypeOK, Dispatch
  <1>2. /\ h \in Message /\ h = wire[e][1] /\ Tail(wire[e]) \in Seq(Message)
        /\ Len(Tail(wire[e])) = Len(wire[e]) - 1
        /\ Len(wire[e]) \in Nat /\ Len(wire[e]) > 0
        /\ \A i \in 1 .. Len(Tail(wire[e])) : Tail(wire[e])[i] = wire[e][i + 1]
    BY <1>1, HeadTailProperties
  <1>3. /\ wire'[e] = Tail(wire[e])
        /\ \A f \in Stream : f # e => wire'[f] = wire[f]
        /\ wire' \in [Stream -> Seq(Message)]
    BY <1>1, <1>2
  <1> HIDE DEF h
  <1>4. TypeOK'
    BY <1>1, <1>2, <1>3 DEF QInv, TypeOK
  <1>5. ResolvedWasReceived' /\ Queues'
    BY <1>1 DEF QInv, ResolvedWasReceived, Queues
  <1>6. OneStream'
    BY <1>1, <1>3 DEF QInv, OneStream
  <1>7. StreamMatches'
    <2> SUFFICES ASSUME alive
                 PROVE  /\ Len(pending_replies) = acks' + Len(wire'[epoch])
                        /\ \A i \in 1 .. acks' : pending_replies[i] \in received'
                        /\ \A i \in 1 .. Len(wire'[epoch]) :
                              wire'[epoch][i] = pending_replies[acks' + i]
      BY <1>1 DEF QInv, StreamMatches
    <2>1. /\ Len(pending_replies) = acks + Len(wire[epoch]) /\ epoch \in Stream
          /\ \A i \in 1 .. acks : pending_replies[i] \in received
          /\ \A i \in 1 .. Len(wire[epoch]) : wire[epoch][i] = pending_replies[acks + i]
      BY DEF QInv, StreamMatches
    <2>2. CASE e # epoch
      BY <1>1, <1>3, <2>1, <2>2
    <2>3. CASE e = epoch
      <3>1. acks' = acks + 1 /\ pending_replies[acks + 1] = h
        BY <1>1, <1>2, <2>1, <2>3
      <3>2. \A i \in 1 .. acks' : pending_replies[i] \in received'
        BY <1>1, <2>1, <3>1
      <3>3. ASSUME NEW i \in 1 .. Len(wire'[epoch])
            PROVE  wire'[epoch][i] = pending_replies[acks' + i]
        <4>1. /\ i \in 1 .. Len(Tail(wire[e])) /\ i + 1 \in 1 .. Len(wire[e])
              /\ acks + (i + 1) = acks' + i
          BY <1>1, <1>2, <1>3, <2>3, <3>1
        <4>2. wire'[epoch][i] = wire[epoch][i + 1]
          BY <1>2, <1>3, <2>3, <4>1
        <4>3. wire[epoch][i + 1] = pending_replies[acks + (i + 1)]
          BY <2>1, <2>3, <4>1
        <4> QED BY <4>1, <4>2, <4>3, <1>1
      <3>4. Len(pending_replies) = acks' + Len(wire'[epoch])
        BY <1>1, <1>2, <1>3, <2>1, <2>3, <3>1
      <3> QED BY <3>2, <3>3, <3>4
    <2> QED BY <2>2, <2>3
  <1>8. StreamsInOrder'
    <2> SUFFICES ASSUME NEW f \in Stream, NEW i \in 1 .. Len(wire'[f]),
                        NEW k \in 1 .. wire'[f][i] - 1
                 PROVE  \/ k \in received' \/ handler[k] = "closed"
                        \/ \E j \in 1 .. i - 1 : wire'[f][j] = k
      <3>1. handler' = handler
        BY <1>1
      <3> QED BY <3>1 DEF StreamsInOrder
    <2>1. CASE f # e
      <3>1. wire'[f] = wire[f]
        BY <1>3, <2>1
      <3>2. i \in 1 .. Len(wire[f]) /\ k \in 1 .. wire[f][i] - 1
        BY <3>1
      <3> QED BY <1>1, <3>1, <3>2 DEF QInv, StreamsInOrder
    <2>2. CASE f = e
      <3>1. /\ i + 1 \in 1 .. Len(wire[e]) /\ k \in 1 .. wire[e][i + 1] - 1
            /\ i \in Nat
        <4>1. wire'[f] = Tail(wire[e])
          BY <1>3, <2>2
        <4>2. i \in 1 .. Len(Tail(wire[e])) /\ k \in 1 .. Tail(wire[e])[i] - 1
          BY <4>1
        <4>3. Tail(wire[e])[i] = wire[e][i + 1]
          BY <1>2, <4>2
        <4>4. i + 1 \in 1 .. Len(wire[e]) /\ i \in Nat
          BY <1>2, <4>2
        <4> QED BY <4>2, <4>3, <4>4
      <3>2. \/ k \in received \/ handler[k] = "closed"
            \/ \E j \in 1 .. (i + 1) - 1 : wire[e][j] = k
        BY <3>1 DEF QInv, StreamsInOrder
      <3>3. ASSUME NEW j \in 1 .. (i + 1) - 1, wire[e][j] = k
            PROVE  k = h \/ \E q \in 1 .. i - 1 : wire'[e][q] = k
        <4>1. CASE j = 1
          BY <1>2, <3>3, <4>1
        <4>2. CASE j # 1
          <5>1. j - 1 \in 1 .. i - 1 /\ j - 1 \in 1 .. Len(Tail(wire[e])) /\ (j - 1) + 1 = j
            BY <1>2, <3>1, <4>2
          <5> QED BY <1>2, <1>3, <3>3, <5>1
        <4> QED BY <4>1, <4>2
      <3> QED BY <1>1, <2>2, <3>2, <3>3
    <2> QED BY <2>1, <2>2
  <1>9. InOrder'
    <2> SUFFICES ASSUME NEW m \in received', NEW k \in 1 .. m - 1
                 PROVE  k \in received' \/ handler[k] = "closed"
      BY <1>1 DEF InOrder
    <2>1. CASE m \in received
      BY <1>1, <2>1 DEF QInv, InOrder
    <2>2. CASE m = h
      <3>1. /\ k \in received \/ handler[k] = "closed"
                \/ \E j \in 1 .. 1 - 1 : wire[e][j] = k
        <4>1. 1 \in 1 .. Len(wire[e]) /\ k \in 1 .. wire[e][1] - 1
          BY <1>2, <2>2
        <4> QED BY <4>1 DEF QInv, StreamsInOrder
      <3> QED BY <1>1, <3>1
    <2> QED BY <1>1, <2>1, <2>2
  <1> QED BY <1>4, <1>5, <1>6, <1>7, <1>8, <1>9 DEF QInv

(* Losing what a broken stream holds harms nothing.                        *)
LEMMA LoseStep == ASSUME NEW e \in Stream PROVE QInv /\ Lose(e) => QInv'
  <1> SUFFICES ASSUME QInv, Lose(e) PROVE QInv'
    OBVIOUS
  <1>1. /\ wire' = [wire EXCEPT ![e] = <<>>] /\ wire \in [Stream -> Seq(Message)]
        /\ ~(alive /\ e = epoch)
        /\ UNCHANGED <<count, handler, receiver, buffer, pending_replies, alive, epoch,
                       acks, received>>
    BY DEF QInv, TypeOK, Lose
  <1>2. /\ wire' \in [Stream -> Seq(Message)] /\ wire'[e] = <<>>
        /\ \A f \in Stream : f # e => wire'[f] = wire[f]
    BY <1>1
  <1>3. TypeOK' /\ ResolvedWasReceived' /\ Queues' /\ InOrder'
    BY <1>1, <1>2 DEF QInv, TypeOK, ResolvedWasReceived, Queues, InOrder
  <1>4. OneStream'
    BY <1>1, <1>2 DEF QInv, OneStream
  <1>5. StreamMatches'
    BY <1>1, <1>2 DEF QInv, StreamMatches
  <1>6. StreamsInOrder'
    <2> SUFFICES ASSUME NEW f \in Stream, NEW i \in 1 .. Len(wire'[f]),
                        NEW k \in 1 .. wire'[f][i] - 1
                 PROVE  \/ k \in received \/ handler[k] = "closed"
                        \/ \E j \in 1 .. i - 1 : wire'[f][j] = k
      BY <1>1 DEF StreamsInOrder
    <2>1. f # e
      BY <1>2
    <2>2. wire'[f] = wire[f]
      BY <1>2, <2>1
    <2>3. i \in 1 .. Len(wire[f]) /\ k \in 1 .. wire[f][i] - 1
      BY <2>2
    <2> QED BY <2>2, <2>3 DEF QInv, StreamsInOrder
  <1> QED BY <1>3, <1>4, <1>5, <1>6 DEF QInv

-----------------------------------------------------------------------------
(* The theorems.                                                           *)

(* Inv is an invariant of one connection between a ReliableSender and a    *)
(* Receiver, whatever fails and whatever is cancelled.                     *)
THEOREM Invariance == Spec => []Inv
  <1>1. Inv <=> QInv
    BY NothingLostIffQueues DEF Inv, QInv
  <1>2. Init => QInv
    <2> SUFFICES ASSUME Init PROVE QInv
      OBVIOUS
    <2>1. TypeOK
      <3>1. /\ receiver \in Seq(Message) /\ buffer \in Seq(Message)
            /\ pending_replies \in Seq(Message) /\ wire \in [Stream -> Seq(Message)]
        BY DEF Init
      <3>2. /\ count \in 0 .. MaxMessages /\ epoch \in 0 .. MaxStreams /\ acks \in Nat
            /\ received \subseteq Message
        BY SenderAssumption DEF Init
      <3>4. alive \in BOOLEAN
        BY Zenon DEF Init
      <3>3. handler \in [Message -> {"open", "closed", "resolved"}]
        BY DEF Init
      <3> QED BY <3>1, <3>2, <3>3, <3>4 DEF TypeOK
    <2>2. ResolvedWasReceived /\ OneStream /\ StreamMatches /\ StreamsInOrder /\ InOrder
      BY DEF Init, ResolvedWasReceived, OneStream, StreamMatches, StreamsInOrder, InOrder
    <2>3. Queues
      BY DEF Init, Queues, Sorted, Below, Bounded, In
    <2> QED BY <2>1, <2>2, <2>3 DEF QInv
  <1>3. QInv /\ [Next]_vars => QInv'
    <2> SUFFICES ASSUME QInv, [Next]_vars PROVE QInv'
      OBVIOUS
    <2>1. CASE UNCHANGED vars
      BY <2>1 DEF QInv, TypeOK, ResolvedWasReceived, OneStream, StreamMatches, Queues,
                  StreamsInOrder, InOrder, vars
    <2>2. CASE Next
      BY <2>2, SendStep, CancelStep, ConnectStep, DrainStep, TransmitStep, AcceptStep,
         ReceiveAckStep, DisconnectStep, DispatchStep, LoseStep DEF Next
    <2> QED BY <2>1, <2>2
  <1> QED BY <1>1, <1>2, <1>3, PTL DEF Spec

(* A cancel handler is resolved only for a message that the peer has.      *)
THEOREM AcksAreSound == Spec => []ResolvedWasReceived
  <1>1. Inv => ResolvedWasReceived
    BY DEF Inv
  <1> QED BY <1>1, Invariance, PTL

(* No message that somebody waits for leaves the queues before its ACK,    *)
(* and the queues stay in the order of sending.                            *)
THEOREM NoMessageLost == Spec => []NothingLost
  <1>1. Inv => NothingLost
    BY DEF Inv
  <1> QED BY <1>1, Invariance, PTL

(* The peer gets the messages in the order of sending.                     *)
THEOREM DeliveryInOrder == Spec => []InOrder
  <1>1. Inv => InOrder
    BY DEF Inv
  <1> QED BY <1>1, Invariance, PTL

(* keep_alive is never left because of an unexpected ACK.                  *)
THEOREM AcksAreExpected == Spec => []NoUnexpectedAck
  <1>1. Inv => NoUnexpectedAck
    <2> SUFFICES ASSUME Inv, alive PROVE acks <= Len(pending_replies)
      BY DEF NoUnexpectedAck
    <2>1. /\ Len(pending_replies) = acks + Len(wire[epoch]) /\ wire[epoch] \in Seq(Message)
          /\ acks \in Nat
      BY DEF Inv, TypeOK, StreamMatches
    <2> QED BY <2>1
  <1> QED BY <1>1, Invariance, PTL

-----------------------------------------------------------------------------
(* The Store.  The operators on the channel are stated for any queue, so   *)
(* that their lemmas serve before and after a step.                        *)


(* StoreCommand: what may be in the channel.                               *)
Command == [type : {"Write"}, key : Key, value : Value]
             \cup [type : {"Read", "NotifyRead"}, key : Key, sender : Nat]

(* The values the state of the Store can have.                             *)
StoreTypeOK ==
    /\ db \in [Key -> Value \cup {None}]
    /\ obligations \in [Key -> Seq(Nat)]
    /\ channel \in Seq(Command)
    /\ call \in [Client -> Nat]
    /\ answer \in [Client -> {NoAnswer} \cup {Answer(v) : v \in Value \cup {None}}]
    /\ calls \in Nat
    /\ writes \in Nat

(* Where the queue ch holds a command that sender s waits for.             *)
PositionIn(ch, s) == {i \in DOMAIN ch : ch[i].type # "Write" /\ ch[i].sender = s}

(* The sender of a call is in one place: once in the channel, or among the *)
(* obligations of one key.                                                 *)
SendersOnce ==
    /\ \A s \in Nat : \A i, j \in PositionIn(channel, s) : i = j
    /\ \A s \in Nat, k \in Key : s \in Senders(k) => PositionIn(channel, s) = {}
    /\ \A k, l \in Key : k # l => Senders(k) \cap Senders(l) = {}

(* Senders belong to calls that were made.                                 *)
SendersFresh ==
    /\ \A s \in Nat : PositionIn(channel, s) # {} => s \in 1 .. calls
    /\ \A k \in Key : Senders(k) \subseteq 1 .. calls
    /\ \A c \in Client : call[c] <= calls

(* No two clients wait for the same call.                                  *)
CallsDiffer ==
    \A c, d \in Client : call[c] # 0 /\ call[c] = call[d] => c = d

(* A key with a value has no obligations.                                  *)
NobodyWaitsInVain ==
    \A k \in Key : db[k] # None => Senders(k) = {}

(* An answer is for the open call, whose sender is used up.                *)
AnsweredOnce ==
    \A c \in Client : answer[c].ready =>
       /\ call[c] # 0 /\ PositionIn(channel, call[c]) = {}
       /\ \A k \in Key : call[c] \notin Senders(k)

(* An open call without an answer is still queued or registered.           *)
CallsExpected ==
    \A c \in Client : call[c] # 0 /\ ~answer[c].ready =>
       PositionIn(channel, call[c]) # {} \/ \E k \in Key : call[c] \in Senders(k)

(* The writes to k among the positions D of the queue ch.                  *)
WritesIn(ch, k, D) == {i \in D : ch[i].type = "Write" /\ ch[i].key = k}

(* Among the writes to a key before or from a position there is a last and *)
(* a first one. It holds of every finite set of numbers; as an invariant   *)
(* it needs no induction over the queue.                                   *)
ExtremesIn(ch) ==
    \A k \in Key, i \in 1 .. Len(ch) + 1 :
       /\ LET W == WritesIn(ch, k, 1 .. i - 1)
          IN W # {} => \E m \in W : \A j \in W : m >= j
       /\ LET W == WritesIn(ch, k, i .. Len(ch))
          IN W # {} => \E m \in W : \A j \in W : m <= j

(* The same for the channel.                                               *)
Extremes == ExtremesIn(channel)

(* The inductive invariant behind the refinement.                          *)
StoreInv ==
    /\ SendersOnce /\ SendersFresh /\ CallsDiffer
    /\ NobodyWaitsInVain /\ AnsweredOnce /\ CallsExpected /\ Extremes

-----------------------------------------------------------------------------
(* What Min returns.                                                       *)
LEMMA MinIs ==
    ASSUME NEW S \in SUBSET Int, NEW m \in S, \A y \in S : m <= y
    PROVE  Min(S) = m
<1>1. \E x \in S : \A y \in S : x =< y
  OBVIOUS
<1>2. Min(S) \in S /\ \A y \in S : Min(S) =< y
  BY <1>1 DEF Min
<1>. DEFINE x == Min(S)
<1>3. x \in S /\ m =< x /\ x =< m
  BY <1>2
<1>. HIDE DEF x
<1>4. x = m
  BY <1>3
<1>. QED
  BY <1>4 DEF x

(* What Max returns.                                                       *)
LEMMA MaxIs ==
    ASSUME NEW S \in SUBSET Int, NEW m \in S, \A y \in S : m >= y
    PROVE  Max(S) = m
<1>1. \E x \in S : \A y \in S : x >= y
  OBVIOUS
<1>2. Max(S) \in S /\ \A y \in S : Max(S) >= y
  BY <1>1 DEF Max
<1>. DEFINE x == Max(S)
<1>3. x \in S /\ m >= x /\ x >= m
  BY <1>2
<1>. HIDE DEF x
<1>4. x = m
  BY <1>3
<1>. QED
  BY <1>4 DEF x

-----------------------------------------------------------------------------
(* The outcome of a call with result v.                                    *)
Result(v) == [state |-> "result", value |-> v]
(* The outcome of a call that waits for k.                                 *)
Waiting(k) == [state |-> "waiting", key |-> k]

(* ValueAt as a function of a queue and a database.                        *)
ValueIn(ch, d, k, i) ==
    LET W == WritesIn(ch, k, 1 .. i - 1)
    IN IF W = {} THEN d[k] ELSE ch[Max(W)].value

(* Awaited as a function of a queue and a database.                        *)
AwaitedIn(ch, d, k, i) ==
    LET W == WritesIn(ch, k, i .. Len(ch))
    IN IF ValueIn(ch, d, k, i) # None THEN Result(ValueIn(ch, d, k, i))
       ELSE IF W = {} THEN Waiting(k)
       ELSE Result(ch[Min(W)].value)

(* They agree with the operators of Store.                                 *)
LEMMA InChannel ==
    /\ \A k, i : ValueAt(k, i) = ValueIn(channel, db, k, i)
    /\ \A k, i : Awaited(k, i) = AwaitedIn(channel, db, k, i)
<1>1. \A k, D : WritesTo(k, D) = WritesIn(channel, k, D)
  BY DEF WritesTo, WritesIn
<1>2. \A k, i : ValueAt(k, i) = ValueIn(channel, db, k, i)
  BY <1>1 DEF ValueAt, ValueIn
<1>3. \A k, i : Awaited(k, i) = AwaitedIn(channel, db, k, i)
  BY <1>1, <1>2 DEF Awaited, AwaitedIn, Result, Waiting
<1>. QED
  BY <1>2, <1>3

(* Max of the writes before position i is the last of them.                *)
LEMMA LastWrite ==
    ASSUME NEW ch, ExtremesIn(ch), NEW k \in Key, NEW i \in 1 .. Len(ch) + 1,
           WritesIn(ch, k, 1 .. i - 1) # {}
    PROVE  \E m \in WritesIn(ch, k, 1 .. i - 1) :
              /\ m = Max(WritesIn(ch, k, 1 .. i - 1))
              /\ \A j \in WritesIn(ch, k, 1 .. i - 1) : m >= j
<1>. DEFINE W == WritesIn(ch, k, 1 .. i - 1)
<1>1. W \in SUBSET Int
  BY DEF WritesIn
<1>2. PICK m \in W : \A j \in W : m >= j
  BY DEF ExtremesIn
<1>. HIDE DEF W
<1>3. m = Max(W)
  BY <1>1, <1>2, MaxIs
<1>. QED
  BY <1>2, <1>3 DEF W

(* Min of the writes from position i on is the first of them.              *)
LEMMA FirstWrite ==
    ASSUME NEW ch, ExtremesIn(ch), NEW k \in Key, NEW i \in 1 .. Len(ch) + 1,
           WritesIn(ch, k, i .. Len(ch)) # {}
    PROVE  \E m \in WritesIn(ch, k, i .. Len(ch)) :
              /\ m = Min(WritesIn(ch, k, i .. Len(ch)))
              /\ \A j \in WritesIn(ch, k, i .. Len(ch)) : m <= j
<1>. DEFINE W == WritesIn(ch, k, i .. Len(ch))
<1>1. W \in SUBSET Int
  BY DEF WritesIn
<1>2. PICK m \in W : \A j \in W : m <= j
  BY DEF ExtremesIn
<1>. HIDE DEF W
<1>3. m = Min(W)
  BY <1>1, <1>2, MinIs
<1>. QED
  BY <1>2, <1>3 DEF W

-----------------------------------------------------------------------------
(* The writes once a command has been queued.                              *)
LEMMA AppendWrites ==
    ASSUME NEW ch \in Seq(Command), NEW m \in Command, NEW k \in Key,
           NEW D \in SUBSET (1 .. Len(ch))
    PROVE  /\ WritesIn(Append(ch, m), k, D) = WritesIn(ch, k, D)
           /\ m.type = "Write" /\ m.key = k
                => WritesIn(Append(ch, m), k, D \cup {Len(ch) + 1})
                      = WritesIn(ch, k, D) \cup {Len(ch) + 1}
           /\ ~(m.type = "Write" /\ m.key = k)
                => WritesIn(Append(ch, m), k, D \cup {Len(ch) + 1}) = WritesIn(ch, k, D)
<1>. DEFINE a == Append(ch, m)
            n == Len(ch) + 1
<1>1. a[n] = m /\ \A i \in D : a[i] = ch[i]
  OBVIOUS
<1>. HIDE DEF a, n
<1>2. /\ WritesIn(a, k, D) = WritesIn(ch, k, D)
      /\ WritesIn(a, k, D \cup {n})
           = WritesIn(ch, k, D) \cup {i \in {n} : m.type = "Write" /\ m.key = k}
  BY <1>1 DEF WritesIn
<1>. QED
  BY <1>2 DEF a, n

(* Queueing a command changes no value before it.                          *)
LEMMA AppendValue ==
    ASSUME NEW ch \in Seq(Command), ExtremesIn(ch), NEW m \in Command, NEW d,
           NEW k \in Key, NEW i \in 1 .. Len(ch) + 1
    PROVE  ValueIn(Append(ch, m), d, k, i) = ValueIn(ch, d, k, i)
<1>. DEFINE W == WritesIn(ch, k, 1 .. i - 1)
            a == Append(ch, m)
<1>1. 1 .. i - 1 \in SUBSET (1 .. Len(ch)) /\ \A j \in 1 .. Len(ch) : a[j] = ch[j]
  OBVIOUS
<1>2. WritesIn(a, k, 1 .. i - 1) = W
  <2>. DEFINE D == 1 .. i - 1
  <2>1. \A j \in D : a[j] = ch[j]
    BY <1>1
  <2>. HIDE DEF D, a
  <2>2. WritesIn(a, k, D) = WritesIn(ch, k, D)
    BY <2>1 DEF WritesIn
  <2>. QED
    BY <2>2 DEF D, a
<1>3. W \subseteq 1 .. Len(ch) /\ (W # {} => Max(W) \in W)
  <2>1. W \subseteq 1 .. Len(ch)
    BY <1>1 DEF WritesIn
  <2>. QED
    BY <2>1, LastWrite
<1>. HIDE DEF W, a
<1>4. W # {} => a[Max(W)] = ch[Max(W)]
  BY <1>1, <1>3
<1>. QED
  BY <1>2, <1>4 DEF ValueIn, W, a

(* Queueing a write ends the waits for its key.                            *)
LEMMA AppendAwaited ==
    ASSUME NEW ch \in Seq(Command), ExtremesIn(ch), NEW m \in Command, NEW d,
           NEW k \in Key, NEW i \in 1 .. Len(ch) + 1
    PROVE  AwaitedIn(Append(ch, m), d, k, i) =
              IF AwaitedIn(ch, d, k, i) = Waiting(k) /\ m.type = "Write" /\ m.key = k
              THEN Result(m.value) ELSE AwaitedIn(ch, d, k, i)
<1>. DEFINE n == Len(ch)
            a == Append(ch, m)
            D == i .. n
            W == WritesIn(ch, k, D)
            W1 == WritesIn(a, k, i .. Len(a))
            v == ValueIn(ch, d, k, i)
<1>1. /\ n \in Nat /\ i .. Len(a) = D \cup {n + 1} /\ D \in SUBSET (1 .. n)
      /\ a[n + 1] = m
      /\ \A j \in 1 .. n : a[j] = ch[j]
  OBVIOUS
<1>2. ValueIn(a, d, k, i) = v
  BY AppendValue
<1>3. /\ m.type = "Write" /\ m.key = k => W1 = W \cup {n + 1}
      /\ ~(m.type = "Write" /\ m.key = k) => W1 = W
  BY <1>1, AppendWrites
<1>4. /\ W \in SUBSET (1 .. n)
      /\ W # {} => Min(W) \in W /\ \A j \in W : Min(W) <= j
  <2>1. W \in SUBSET (1 .. n)
    BY <1>1 DEF WritesIn
  <2>2. W # {} => Min(W) \in W /\ \A j \in W : Min(W) <= j
    BY FirstWrite
  <2>. QED
    BY <2>1, <2>2
<1>5. /\ AwaitedIn(ch, d, k, i) = IF v # None THEN Result(v)
                                  ELSE IF W = {} THEN Waiting(k)
                                  ELSE Result(ch[Min(W)].value)
      /\ AwaitedIn(a, d, k, i) = IF v # None THEN Result(v)
                                 ELSE IF W1 = {} THEN Waiting(k)
                                 ELSE Result(a[Min(W1)].value)
  BY <1>2 DEF AwaitedIn
<1>6. \A x : Waiting(k) # Result(x)
  BY DEF Waiting, Result
<1>. HIDE DEF D, W, W1, v, n, a
<1>7. W # {} => /\ Min(W1) = Min(W) /\ W1 # {}
                /\ a[Min(W)] = ch[Min(W)]
  <2>1. SUFFICES ASSUME W # {} 
                 PROVE  Min(W1) = Min(W) /\ W1 # {} /\ a[Min(W)] = ch[Min(W)]
    OBVIOUS
  <2>. DEFINE x == Min(W)
  <2>2. x \in W /\ x \in 1 .. n /\ \A j \in W : x <= j
    BY <1>4, <2>1
  <2>. HIDE DEF x
  <2>3. /\ W1 \in SUBSET Int /\ x \in W1
        /\ \A j \in W1 : x <= j
    <3>1. W1 = W \/ W1 = W \cup {n + 1}
      BY <1>3
    <3>2. x <= n + 1 /\ n + 1 \in Int
      BY <1>1, <2>2
    <3>3. \A j \in W : j \in Int
      BY <1>1, <1>4
    <3>4. \A j \in W1 : j \in W \/ j = n + 1
      BY <3>1
    <3>5. \A j \in W1 : j \in Int /\ x <= j
      BY <2>2, <3>2, <3>3, <3>4
    <3>6. x \in W1
      BY <2>2, <3>1
    <3>. QED
      BY <3>5, <3>6
  <2>4. Min(W1) = x
    BY <2>3, MinIs
  <2>. QED
    BY <1>1, <2>2, <2>3, <2>4 DEF x
<1>8. W = {} /\ W1 # {} => a[Min(W1)] = m
  <2>1. SUFFICES ASSUME W = {}, W1 # {} PROVE Min(W1) = n + 1
    BY <1>1
  <2>2. W1 \in SUBSET Int /\ n + 1 \in W1 /\ \A j \in W1 : n + 1 <= j
    BY <1>1, <1>3, <2>1
  <2>. QED
    BY <2>2, MinIs
<1>. QED
  BY <1>3, <1>5, <1>6, <1>7, <1>8 DEF a

-----------------------------------------------------------------------------
(* The writes once the first command has been taken.                       *)
LEMMA TailWrites ==
    ASSUME NEW ch \in Seq(Command), ch # <<>>, NEW k \in Key,
           NEW lo \in Nat \ {0}, NEW hi \in Nat, hi < Len(ch)
    PROVE  /\ WritesIn(Tail(ch), k, lo .. hi) = {j \in lo .. hi : j + 1 \in WritesIn(ch, k, lo + 1 .. hi + 1)}
           /\ \A j \in WritesIn(ch, k, lo + 1 .. hi + 1) : j - 1 \in WritesIn(Tail(ch), k, lo .. hi)
           /\ \A j \in lo .. hi : Tail(ch)[j] = ch[j + 1]
<1>1. \A j \in lo .. hi : Tail(ch)[j] = ch[j + 1]
  OBVIOUS
<1>2. \A j \in lo .. hi : j + 1 \in lo + 1 .. hi + 1
  OBVIOUS
<1>3. \A j \in lo + 1 .. hi + 1 : j - 1 \in lo .. hi /\ (j - 1) + 1 = j
  OBVIOUS
<1>. DEFINE t == Tail(ch)
            U == WritesIn(ch, k, lo + 1 .. hi + 1)
            V == WritesIn(t, k, lo .. hi)
<1>. HIDE DEF t
<1>4. \A j \in lo .. hi : j \in V <=> j + 1 \in U
  BY <1>1, <1>2 DEF WritesIn, t
<1>5. V \subseteq lo .. hi /\ U \subseteq lo + 1 .. hi + 1
  BY DEF WritesIn
<1>. HIDE DEF U, V
<1>6. V = {j \in lo .. hi : j + 1 \in U}
  BY <1>4, <1>5
<1>7. \A j \in U : j - 1 \in V
  BY <1>3, <1>4, <1>5
<1>. QED
  BY <1>1, <1>6, <1>7 DEF U, V, t

(* The database once command m is served.                                  *)
After(m, d) == IF m.type = "Write" THEN [d EXCEPT ![m.key] = m.value] ELSE d

(* Serving a command moves its effect from the queue to the database.      *)
LEMMA TailValue ==
    ASSUME NEW ch \in Seq(Command), ch # <<>>, ExtremesIn(ch),
           NEW d \in [Key -> Value \cup {None}],
           NEW k \in Key, NEW i \in 1 .. Len(ch)
    PROVE  ValueIn(Tail(ch), After(Head(ch), d), k, i) = ValueIn(ch, d, k, i + 1)
<1>. DEFINE t == Tail(ch)
            U == WritesIn(ch, k, 1 .. (i + 1) - 1)
            V == WritesIn(t, k, 1 .. i - 1)
            e == After(Head(ch), d)
<1>1. /\ i - 1 \in Nat /\ i - 1 < Len(ch) /\ (i + 1) - 1 = i /\ i + 1 \in 1 .. Len(ch) + 1
      /\ 1 + 1 = 2 /\ i - 1 + 1 = i /\ Head(ch) = ch[1] /\ ch[1] \in Command
  OBVIOUS
<1>2. U = WritesIn(ch, k, 1 .. i)
  BY <1>1
<1>. DEFINE U2 == WritesIn(ch, k, 2 .. i)
<1>3. /\ V = {j \in 1 .. i - 1 : j + 1 \in U2}
      /\ \A j \in U2 : j - 1 \in V
      /\ \A j \in 1 .. i - 1 : t[j] = ch[j + 1]
  BY <1>1, TailWrites
<1>4. /\ \A j \in U : j \in 1 .. i /\ (j = 1 \/ j \in U2)
      /\ \A j \in U2 : j \in U /\ j \in 2 .. i
      /\ 1 \in U <=> ch[1].type = "Write" /\ ch[1].key = k
  BY <1>1, <1>2 DEF WritesIn
<1>5. U # {} => Max(U) \in U /\ \A j \in U : Max(U) >= j
  BY <1>1, LastWrite
<1>6. /\ 1 \in U => e[k] = ch[1].value
      /\ 1 \notin U => e[k] = d[k]
  <2>1. e = IF ch[1].type = "Write" THEN [d EXCEPT ![ch[1].key] = ch[1].value] ELSE d
    BY <1>1 DEF After
  <2>2. ch[1].type = "Write" => ch[1].key \in Key
    BY <1>1 DEF Command
  <2>. HIDE DEF U, e
  <2>. QED
    BY <1>4, <2>1, <2>2
<1>7. /\ ValueIn(ch, d, k, i + 1) = IF U = {} THEN d[k] ELSE ch[Max(U)].value
      /\ ValueIn(t, e, k, i) = IF V = {} THEN e[k] ELSE t[Max(V)].value
  BY DEF ValueIn
<1>. HIDE DEF U, V, U2, t, e
<1>8. CASE U2 = {}
  <2>1. V = {}
    BY <1>3, <1>8
  <2>2. U # {} => Max(U) = 1 /\ 1 \in U
    BY <1>4, <1>5, <1>8
  <2>. QED
    BY <1>6, <1>7, <2>1, <2>2 DEF t, e
<1>9. CASE U2 # {}
  <2>. DEFINE x == Max(U)
  <2>1. U # {} /\ x \in U /\ \A j \in U : x >= j
    BY <1>4, <1>5, <1>9
  <2>. HIDE DEF x
  <2>2. x \in U2
    BY <1>4, <1>9, <2>1
  <2>3. x \in 2 .. i /\ x - 1 \in V /\ x - 1 + 1 = x /\ x - 1 \in 1 .. i - 1
    BY <1>3, <1>4, <2>2
  <2>4. \A j \in V : x - 1 >= j /\ j \in Int
    BY <1>3, <1>4, <2>1, <2>3
  <2>5. Max(V) = x - 1
    BY <2>3, <2>4, MaxIs
  <2>6. t[x - 1] = ch[x]
    BY <1>3, <2>3
  <2>. QED
    BY <1>7, <2>1, <2>3, <2>5, <2>6 DEF x, t, e
<1>. QED
  BY <1>8, <1>9

(* The same for what is awaited.                                           *)
LEMMA TailAwaited ==
    ASSUME NEW ch \in Seq(Command), ch # <<>>, ExtremesIn(ch),
           NEW d \in [Key -> Value \cup {None}],
           NEW k \in Key, NEW i \in 1 .. Len(ch)
    PROVE  AwaitedIn(Tail(ch), After(Head(ch), d), k, i) = AwaitedIn(ch, d, k, i + 1)
<1>. DEFINE t == Tail(ch)
            n == Len(ch)
            U == WritesIn(ch, k, i + 1 .. n)
            V == WritesIn(t, k, i .. Len(t))
            e == After(Head(ch), d)
<1>1. i \in Nat \ {0} /\ n - 1 \in Nat /\ n - 1 < n /\ n - 1 + 1 = n /\ Len(t) = n - 1
      /\ i + 1 \in 1 .. n + 1
  OBVIOUS
<1>2. /\ V = {j \in i .. n - 1 : j + 1 \in U}
      /\ \A j \in U : j - 1 \in V
      /\ \A j \in i .. n - 1 : t[j] = ch[j + 1]
  BY <1>1, TailWrites
<1>3. \A j \in U : j \in i + 1 .. n
  BY DEF WritesIn
<1>4. U # {} => Min(U) \in U /\ \A j \in U : Min(U) <= j
  BY <1>1, FirstWrite
<1>5. ValueIn(t, e, k, i) = ValueIn(ch, d, k, i + 1)
  BY TailValue
<1>. DEFINE v == ValueIn(ch, d, k, i + 1)
<1>6. /\ AwaitedIn(ch, d, k, i + 1) = IF v # None THEN Result(v)
                                      ELSE IF U = {} THEN Waiting(k)
                                      ELSE Result(ch[Min(U)].value)
      /\ AwaitedIn(t, e, k, i) = IF v # None THEN Result(v)
                                 ELSE IF V = {} THEN Waiting(k)
                                 ELSE Result(t[Min(V)].value)
  BY <1>5 DEF AwaitedIn
<1>. HIDE DEF U, V, t, e, v
<1>7. CASE U = {}
  <2>1. V = {}
    BY <1>2, <1>7
  <2>. QED
    BY <1>6, <1>7, <2>1 DEF t, e
<1>8. CASE U # {}
  <2>. DEFINE x == Min(U)
  <2>1. x \in U /\ \A j \in U : x <= j
    BY <1>4, <1>8
  <2>. HIDE DEF x
  <2>2. x - 1 \in V /\ x - 1 + 1 = x /\ x - 1 \in Int /\ x \in Int
    BY <1>1, <1>2, <1>3, <2>1
  <2>3. \A j \in V : j \in Int /\ j + 1 \in U /\ j \in i .. n - 1
    BY <1>1, <1>2
  <2>4. \A j \in V : x - 1 <= j
    BY <2>1, <2>2, <2>3
  <2>5. Min(V) = x - 1
    BY <2>2, <2>3, <2>4, MinIs
  <2>6. t[x - 1] = ch[x]
    BY <1>2, <2>2, <2>3
  <2>. QED
    <3>1. V # {}
      BY <2>2
    <3>2. t[Min(V)] = ch[Min(U)]
      BY <2>5, <2>6 DEF x
    <3>3. AwaitedIn(t, e, k, i) = AwaitedIn(ch, d, k, i + 1)
      BY <1>6, <1>8, <3>1, <3>2
    <3>. QED
      BY <3>3 DEF t, e
<1>. QED
  BY <1>7, <1>8

(* Queueing a command preserves ExtremesIn.                                *)
LEMMA AppendExtremes ==
    ASSUME NEW ch \in Seq(Command), ExtremesIn(ch), NEW m \in Command
    PROVE  ExtremesIn(Append(ch, m))
<1>. DEFINE a == Append(ch, m)
            n == Len(ch)
<1>0. n \in Nat /\ Len(a) = n + 1
  OBVIOUS
<1>1. SUFFICES ASSUME NEW k \in Key, NEW i \in 1 .. n + 2
               PROVE  /\ LET W == WritesIn(a, k, 1 .. i - 1)
                         IN W # {} => \E x \in W : \A j \in W : x >= j
                      /\ LET W == WritesIn(a, k, i .. n + 1)
                         IN W # {} => \E x \in W : \A j \in W : x <= j
  BY <1>0 DEF ExtremesIn
<1>. DEFINE hit == m.type = "Write" /\ m.key = k
            Grow(D) == IF hit THEN WritesIn(ch, k, D) \cup {n + 1} ELSE WritesIn(ch, k, D)
<1>2. ASSUME NEW D \in SUBSET (1 .. n)
      PROVE  /\ WritesIn(a, k, D) = WritesIn(ch, k, D)
             /\ WritesIn(a, k, D \cup {n + 1}) = Grow(D)
             /\ WritesIn(ch, k, D) \subseteq 1 .. n
  <2>1. WritesIn(ch, k, D) \subseteq 1 .. n
    BY DEF WritesIn
  <2>2. /\ WritesIn(a, k, D) = WritesIn(ch, k, D)
        /\ hit => WritesIn(a, k, D \cup {n + 1}) = WritesIn(ch, k, D) \cup {n + 1}
        /\ ~hit => WritesIn(a, k, D \cup {n + 1}) = WritesIn(ch, k, D)
    BY AppendWrites
  <2>. HIDE DEF hit, a, n
  <2>. QED
    BY <2>1, <2>2
<1>3. /\ 1 .. n \in SUBSET (1 .. n) /\ (1 .. n) \cup {n + 1} = 1 .. n + 1
      /\ {} \in SUBSET (1 .. n) /\ {} \cup {n + 1} = n + 1 .. n + 1
  BY <1>0
<1>4. ASSUME NEW D \in SUBSET (1 .. n), Grow(D) # {},
             WritesIn(ch, k, D) # {} => \E x \in WritesIn(ch, k, D) :
                                           \A j \in WritesIn(ch, k, D) : x <= j
      PROVE  \E x \in Grow(D) : \A j \in Grow(D) : x <= j
  <2>. DEFINE U == WritesIn(ch, k, D)
  <2>1. U \subseteq 1 .. n
    BY <1>2
  <2>. HIDE DEF U
  <2>2. CASE U = {}
    <3>1. Grow(D) = {n + 1}
      BY <1>4, <2>2 DEF U
    <3>. QED
      BY <1>0, <3>1
  <2>3. CASE U # {}
    <3>1. PICK x \in U : \A j \in U : x <= j
      BY <1>4, <2>3 DEF U
    <3>2. Grow(D) = U \/ Grow(D) = U \cup {n + 1}
      BY DEF U
    <3>3. x \in Int /\ x <= n + 1
      BY <1>0, <2>1
    <3>. QED
      BY <3>1, <3>2, <3>3
  <2>. QED
    BY <2>2, <2>3
<1>5. ASSUME NEW W, W = WritesIn(a, k, 1 .. i - 1), W # {}
      PROVE  \E x \in W : \A j \in W : x >= j
  <2>. DEFINE D == 1 .. i - 1
              U == WritesIn(ch, k, 1 .. n)
  <2>1. CASE i <= n + 1
    <3>1. D \in SUBSET (1 .. n) /\ i \in 1 .. n + 1
      BY <1>0, <2>1
    <3>2. W = WritesIn(ch, k, D)
      <4>. HIDE DEF D
      <4>1. WritesIn(a, k, D) = WritesIn(ch, k, D)
        BY <1>2, <3>1
      <4>. QED
        BY <1>5, <4>1 DEF D
    <3>. QED
      BY <1>5, <3>1, <3>2 DEF ExtremesIn
  <2>2. CASE i = n + 2
    <3>1. i - 1 = n + 1 /\ (n + 1) - 1 = n /\ n + 1 \in 1 .. n + 1
      BY <1>0, <2>2
    <3>2. W = Grow(1 .. n)
      BY <1>2, <1>3, <1>5, <3>1
    <3>3. U \subseteq 1 .. n
      BY <1>2, <1>3
    <3>4. U # {} => \E x \in U : \A j \in U : x >= j
      BY <3>1 DEF ExtremesIn
    <3>5. CASE hit
      <4>1. W = U \cup {n + 1}
        BY <3>2, <3>5
      <4>. HIDE DEF U
      <4>. QED
        BY <1>0, <3>3, <4>1
    <3>6. CASE ~hit
      BY <1>5, <3>2, <3>4, <3>6
    <3>. QED
      BY <3>5, <3>6
  <2>. QED
    BY <1>0, <2>1, <2>2
<1>6. ASSUME NEW W, W = WritesIn(a, k, i .. n + 1), W # {}
      PROVE  \E x \in W : \A j \in W : x <= j
  <2>1. CASE i <= n + 1
    <3>. DEFINE D == i .. n
    <3>1. D \in SUBSET (1 .. n) /\ i .. n + 1 = D \cup {n + 1} /\ i \in 1 .. n + 1
      BY <1>0, <2>1
    <3>2. W = Grow(D)
      BY <1>2, <1>6, <3>1
    <3>3. WritesIn(ch, k, D) # {} => \E x \in WritesIn(ch, k, D) :
                                           \A j \in WritesIn(ch, k, D) : x <= j
      BY <3>1 DEF ExtremesIn
    <3>. HIDE DEF D, Grow
    <3>. QED
      BY <1>4, <1>6, <3>1, <3>2, <3>3
  <2>2. CASE i = n + 2
    <3>1. i .. n + 1 = {}
      BY <1>0, <2>2
    <3>. QED
      BY <1>6, <3>1 DEF WritesIn
  <2>. QED
    BY <1>0, <2>1, <2>2
<1>. QED
  BY <1>5, <1>6

(* Serving one does, too.                                                  *)
LEMMA TailExtremes ==
    ASSUME NEW ch \in Seq(Command), ch # <<>>, ExtremesIn(ch)
    PROVE  ExtremesIn(Tail(ch))
<1>. DEFINE t == Tail(ch)
            n == Len(ch)
<1>0. n \in Nat \ {0} /\ Len(t) = n - 1 /\ n - 1 \in Nat /\ n - 1 + 1 = n
  OBVIOUS
<1>1. SUFFICES ASSUME NEW k \in Key, NEW i \in 1 .. n
               PROVE  /\ LET W == WritesIn(t, k, 1 .. i - 1)
                         IN W # {} => \E x \in W : \A j \in W : x >= j
                      /\ LET W == WritesIn(t, k, i .. n - 1)
                         IN W # {} => \E x \in W : \A j \in W : x <= j
  BY <1>0 DEF ExtremesIn
<1>2. i \in Nat \ {0} /\ i - 1 \in Nat /\ i - 1 < n /\ i - 1 + 1 = i /\ n - 1 < n
      /\ i + 1 \in 1 .. n + 1 /\ i + 1 - 1 = i /\ 1 + 1 = 2
  BY <1>0
<1>3. ASSUME NEW W, W = WritesIn(t, k, 1 .. i - 1), W # {}
      PROVE  \E x \in W : \A j \in W : x >= j
  <2>. DEFINE U == WritesIn(ch, k, 1 .. i)
              U2 == WritesIn(ch, k, 2 .. i)
  <2>1. /\ W = {j \in 1 .. i - 1 : j + 1 \in U2}
        /\ \A j \in U2 : j - 1 \in W
    BY <1>2, <1>3, TailWrites
  <2>2. \A j \in U2 : j \in U /\ j \in 2 .. i
    BY <1>2 DEF WritesIn
  <2>3. \A j \in U : j \in U2 \/ j = 1
    BY <1>2 DEF WritesIn
  <2>4. U2 # {}
    BY <1>3, <2>1
  <2>5. PICK x \in U : \A j \in U : x >= j
    BY <1>2, <2>2, <2>4, SMTT(30) DEF ExtremesIn
  <2>. HIDE DEF U, U2
  <2>6. x \in U2 /\ x - 1 \in W /\ x \in Int
    BY <2>1, <2>2, <2>3, <2>4, <2>5
  <2>7. \A j \in W : x - 1 >= j
    BY <1>2, <2>1, <2>2, <2>5, <2>6
  <2>. QED
    BY <2>6, <2>7
<1>4. ASSUME NEW W, W = WritesIn(t, k, i .. n - 1), W # {}
      PROVE  \E x \in W : \A j \in W : x <= j
  <2>. DEFINE U == WritesIn(ch, k, i + 1 .. n)
  <2>1. /\ W = {j \in i .. n - 1 : j + 1 \in U}
        /\ \A j \in U : j - 1 \in W
    BY <1>0, <1>2, <1>4, TailWrites
  <2>2. U # {} /\ \A j \in U : j \in Int
    BY <1>4, <2>1 DEF WritesIn
  <2>3. PICK x \in U : \A j \in U : x <= j
    BY <1>2, <2>2 DEF ExtremesIn
  <2>. HIDE DEF U
  <2>4. \A j \in W : x - 1 <= j
    BY <1>2, <2>1, <2>2, <2>3
  <2>. QED
    BY <2>1, <2>4
<1>. QED
  BY <1>3, <1>4

(* What is awaited from the first command on.                              *)
LEMMA AwaitedFirst ==
    ASSUME NEW ch \in Seq(Command), ch # <<>>, ExtremesIn(ch), NEW d, NEW k \in Key
    PROVE  /\ ~(Head(ch).type = "Write" /\ Head(ch).key = k)
                => AwaitedIn(ch, d, k, 1) = AwaitedIn(ch, d, k, 2)
           /\ Head(ch).type = "Write" /\ Head(ch).key = k /\ d[k] = None
                => AwaitedIn(ch, d, k, 1) = Result(Head(ch).value)
           /\ ValueIn(ch, d, k, 1) = d[k]
<1>. DEFINE n == Len(ch)
            U == WritesIn(ch, k, 1 .. n)
            U2 == WritesIn(ch, k, 2 .. n)
            hit == ch[1].type = "Write" /\ ch[1].key = k
<1>1. n \in Nat \ {0} /\ Head(ch) = ch[1] /\ 1 .. 0 = {} /\ 1 - 1 = 0 /\ 2 - 1 = 1 /\ 1 .. 1 = {1}
  OBVIOUS
<1>2. 1 .. n = {1} \cup (2 .. n)
  BY <1>1
<1>3. /\ hit => U = {1} \cup U2
      /\ ~hit => U = U2
      /\ U \subseteq 1 .. n
  BY <1>2 DEF WritesIn
<1>4. /\ ValueIn(ch, d, k, 1) = d[k]
      /\ ~hit => ValueIn(ch, d, k, 2) = d[k]
  BY <1>1 DEF ValueIn, WritesIn
<1>5. /\ AwaitedIn(ch, d, k, 1) = IF d[k] # None THEN Result(d[k])
                                  ELSE IF U = {} THEN Waiting(k)
                                  ELSE Result(ch[Min(U)].value)
      /\ ~hit => AwaitedIn(ch, d, k, 2) = IF d[k] # None THEN Result(d[k])
                                  ELSE IF U2 = {} THEN Waiting(k)
                                  ELSE Result(ch[Min(U2)].value)
  BY <1>4 DEF AwaitedIn
<1>6. hit => Min(U) = 1
  <2>1. SUFFICES ASSUME hit PROVE Min(U) = 1
    OBVIOUS
  <2>2. 1 \in U /\ U \in SUBSET Int /\ \A j \in U : 1 <= j
    BY <1>1, <1>3, <2>1
  <2>. HIDE DEF U
  <2>. QED
    BY <2>2, MinIs
<1>. HIDE DEF U, U2, hit
<1>7. ASSUME ~hit PROVE AwaitedIn(ch, d, k, 1) = AwaitedIn(ch, d, k, 2)
  <2>1. U = U2
    BY <1>3, <1>7
  <2>. QED
    BY <1>5, <1>7, <2>1
<1>8. hit /\ d[k] = None => AwaitedIn(ch, d, k, 1) = Result(ch[1].value)
  BY <1>3, <1>5, <1>6
<1>. QED
  BY <1>1, <1>4, <1>7, <1>8 DEF hit

-----------------------------------------------------------------------------
(* Where senders are once a command has been queued.                       *)
LEMMA PositionAppend ==
    ASSUME NEW ch \in Seq(Command), NEW m \in Command, NEW s
    PROVE  /\ PositionIn(ch, s) \subseteq 1 .. Len(ch)
           /\ m.type # "Write" /\ m.sender = s
                => PositionIn(Append(ch, m), s) = PositionIn(ch, s) \cup {Len(ch) + 1}
           /\ ~(m.type # "Write" /\ m.sender = s)
                => PositionIn(Append(ch, m), s) = PositionIn(ch, s)
<1>. DEFINE a == Append(ch, m)
            n == Len(ch)
<1>1. /\ DOMAIN a = (1 .. n) \cup {n + 1} /\ DOMAIN ch = 1 .. n
      /\ a[n + 1] = m /\ \A i \in 1 .. n : a[i] = ch[i]
  OBVIOUS
<1>. HIDE DEF a, n
<1>2. /\ PositionIn(ch, s) \subseteq 1 .. n
      /\ PositionIn(a, s) = PositionIn(ch, s) \cup {i \in {n + 1} : m.type # "Write" /\ m.sender = s}
  BY <1>1 DEF PositionIn
<1>. QED
  BY <1>2 DEF a, n

(* Where they are once the first command has been taken.                   *)
LEMMA PositionTail ==
    ASSUME NEW ch \in Seq(Command), ch # <<>>, NEW s
    PROVE  /\ \A i \in PositionIn(Tail(ch), s) : i \in Nat \ {0} /\ i + 1 \in PositionIn(ch, s)
           /\ \A i \in PositionIn(ch, s) :
                 i = 1 \/ (i - 1 \in PositionIn(Tail(ch), s) /\ i - 1 + 1 = i)
           /\ 1 \in PositionIn(ch, s) <=> Head(ch).type # "Write" /\ Head(ch).sender = s
<1>. DEFINE t == Tail(ch)
            n == Len(ch)
<1>1. /\ DOMAIN t = 1 .. n - 1 /\ DOMAIN ch = 1 .. n /\ n \in Nat \ {0}
      /\ Head(ch) = ch[1] /\ \A i \in 1 .. n - 1 : t[i] = ch[i + 1]
  OBVIOUS
<1>2. /\ \A i \in 1 .. n - 1 : i \in Nat \ {0} /\ i + 1 \in 1 .. n
      /\ \A i \in 1 .. n : i = 1 \/ (i - 1 \in 1 .. n - 1 /\ i - 1 + 1 = i)
  BY <1>1
<1>. HIDE DEF t, n
<1>3. /\ \A i \in PositionIn(t, s) : i \in Nat \ {0} /\ i + 1 \in PositionIn(ch, s)
      /\ \A i \in PositionIn(ch, s) : i = 1 \/ (i - 1 \in PositionIn(t, s) /\ i - 1 + 1 = i)
      /\ 1 \in PositionIn(ch, s) <=> Head(ch).type # "Write" /\ Head(ch).sender = s
  BY <1>1, <1>2 DEF PositionIn
<1>. QED
  BY <1>3 DEF t

(* Whom the task answers.                                                  *)
LEMMA AnswerSent ==
    ASSUME NEW S, NEW v
    PROVE  /\ \A c \in Client : call[c] \in S => Sent(S, v)[c].ready /\ Sent(S, v)[c].value = v
           /\ \A c \in Client : call[c] \notin S => Sent(S, v)[c] = answer[c]
  BY DEF Sent, Answer

(* Answers have the type of answers.                                       *)
LEMMA AnswerType ==
    ASSUME StoreTypeOK, NEW S, NEW v \in Value \cup {None}
    PROVE  /\ Sent(S, v) \in [Client -> {NoAnswer} \cup {Answer(w) : w \in Value \cup {None}}]
           /\ \A c \in Client : call[c] \in S => Sent(S, v)[c] = Answer(v)
           /\ \A c \in Client : call[c] \notin S => Sent(S, v)[c] = answer[c]
  BY DEF StoreTypeOK, Sent

(* Every step keeps the types.                                             *)
LEMMA StoreTypeStep ==
    ASSUME StoreTypeOK, [StoreNext]_store_vars
    PROVE  StoreTypeOK'
<1>1. ASSUME NEW k \in Key, NEW v \in Value, Write(k, v) PROVE StoreTypeOK'
  <2>1. [type |-> "Write", key |-> k, value |-> v] \in Command
    BY DEF Command
  <2>. QED
    BY <1>1, <2>1 DEF Write, StoreTypeOK
<1>2. ASSUME NEW c \in Client, NEW k \in Key, NEW type \in {"Read", "NotifyRead"},
             Call(c, k, type)
      PROVE  StoreTypeOK'
  <2>. DEFINE m == [type |-> type, key |-> k, sender |-> calls + 1]
  <2>1. calls + 1 \in Nat /\ m \in Command
    BY DEF Command, StoreTypeOK
  <2>2. /\ channel' = Append(channel, m) /\ calls' = calls + 1
        /\ call' = [call EXCEPT ![c] = calls + 1]
        /\ UNCHANGED <<db, obligations, answer, writes>>
    BY <1>2 DEF Call
  <2>. HIDE DEF m
  <2>3. Append(channel, m) \in Seq(Command)
    BY <2>1 DEF StoreTypeOK
  <2>4. [call EXCEPT ![c] = calls + 1] \in [Client -> Nat]
    BY <2>1 DEF StoreTypeOK
  <2>5. channel' \in Seq(Command) /\ call' \in [Client -> Nat] /\ calls' \in Nat
    BY <2>1, <2>2, <2>3, <2>4
  <2>. QED
    BY <2>2, <2>5 DEF StoreTypeOK
<1>3. ASSUME NEW c \in Client, Return(c) \/ Drop(c) PROVE StoreTypeOK'
  <2>. DEFINE A == {NoAnswer} \cup {Answer(v) : v \in Value \cup {None}}
  <2>1. answer \in [Client -> A] /\ NoAnswer \in A
    BY DEF StoreTypeOK
  <2>2. /\ call' = [call EXCEPT ![c] = 0] /\ answer' = [answer EXCEPT ![c] = NoAnswer]
        /\ UNCHANGED <<db, obligations, channel, calls, writes>>
    BY <1>3 DEF Return, Drop
  <2>. HIDE DEF A
  <2>3. answer' \in [Client -> A]
    BY <2>1, <2>2
  <2>. QED
    BY <2>2, <2>3 DEF StoreTypeOK, A
<1>4. ASSUME Serve PROVE StoreTypeOK'
  <2>. DEFINE m == Head(channel)
  <2>1. m \in Command /\ Tail(channel) \in Seq(Command)
    BY <1>4 DEF Serve, StoreTypeOK
  <2>2. /\ channel' = Tail(channel) /\ UNCHANGED <<call, calls, writes>>
        /\ ServeWrite(m) \/ ServeRead(m) \/ ServeNotifyRead(m)
    BY <1>4 DEF Serve
  <2>. HIDE DEF m
  <2>3. CASE ServeWrite(m)
    <3>1. m.key \in Key /\ m.value \in Value
      BY <2>1, <2>3 DEF ServeWrite, Command
    <3>. QED
      BY <2>1, <2>2, <2>3, <3>1, AnswerType DEF ServeWrite, StoreTypeOK
  <2>4. CASE ServeRead(m)
    <3>1. db[m.key] \in Value \cup {None}
      BY <2>1, <2>4 DEF ServeRead, Command, StoreTypeOK
    <3>. QED
      BY <2>1, <2>2, <2>4, <3>1, AnswerType DEF ServeRead, StoreTypeOK
  <2>5. CASE ServeNotifyRead(m)
    <3>1. m.key \in Key /\ m.sender \in Nat
      BY <2>1, <2>5 DEF ServeNotifyRead, Command
    <3>2. db[m.key] \in Value \cup {None} /\ Append(obligations[m.key], m.sender) \in Seq(Nat)
      BY <3>1 DEF StoreTypeOK
    <3>3. obligations' \in [Key -> Seq(Nat)]
      BY <2>5, <3>1, <3>2 DEF ServeNotifyRead, StoreTypeOK
    <3>4. answer' \in [Client -> {NoAnswer} \cup {Answer(w) : w \in Value \cup {None}}]
      BY <2>5, <3>2, AnswerType DEF ServeNotifyRead, StoreTypeOK
    <3>5. db' = db
      BY <2>5 DEF ServeNotifyRead
    <3>. QED
      BY <2>1, <2>2, <3>3, <3>4, <3>5 DEF StoreTypeOK
  <2>. QED
    BY <2>2, <2>3, <2>4, <2>5
<1>5. CASE UNCHANGED store_vars
  BY <1>5 DEF store_vars, StoreTypeOK
<1>. QED
  BY <1>1, <1>2, <1>3, <1>4, <1>5 DEF StoreNext, Read, NotifyRead

-----------------------------------------------------------------------------
(* Store::write preserves the invariant.                                   *)
LEMMA WritePreserves ==
    ASSUME StoreTypeOK, StoreInv, NEW k \in Key, NEW v \in Value, Write(k, v)
    PROVE  StoreInv'
<1>. DEFINE m == [type |-> "Write", key |-> k, value |-> v]
<1>1. /\ channel' = Append(channel, m)
      /\ UNCHANGED <<db, obligations, call, answer, calls>>
  BY DEF Write
<1>2. m \in Command /\ m.type = "Write" /\ channel \in Seq(Command)
  BY DEF Command, StoreTypeOK
<1>. HIDE DEF m
<1>3. \A s : PositionIn(channel', s) = PositionIn(channel, s)
  BY <1>1, <1>2, PositionAppend
<1>4. Extremes'
  BY <1>1, <1>2, AppendExtremes DEF StoreInv, Extremes
<1>5. \A l : Senders(l)' = Senders(l)
  BY <1>1 DEF Senders
<1>6. SendersOnce' /\ SendersFresh'
  BY <1>1, <1>3, <1>5 DEF StoreInv, SendersOnce, SendersFresh
<1>7. CallsDiffer' /\ NobodyWaitsInVain' /\ AnsweredOnce' /\ CallsExpected'
  BY <1>1, <1>3, <1>5 DEF StoreInv, CallsDiffer, NobodyWaitsInVain, AnsweredOnce, CallsExpected
<1>. QED
  BY <1>4, <1>6, <1>7 DEF StoreInv

(* So do the first halves of read and notify_read.                         *)
LEMMA CallPreserves ==
    ASSUME StoreTypeOK, StoreInv, NEW c \in Client, NEW k \in Key,
           NEW type \in {"Read", "NotifyRead"}, Call(c, k, type)
    PROVE  StoreInv'
<1>. DEFINE s == calls + 1
            m == [type |-> type, key |-> k, sender |-> s]
<1>1. /\ channel' = Append(channel, m) /\ calls' = s
      /\ call[c] = 0 /\ call' = [call EXCEPT ![c] = s]
      /\ UNCHANGED <<db, obligations, answer>>
  BY DEF Call
<1>2. /\ m \in Command /\ m.type # "Write" /\ m.sender = s /\ channel \in Seq(Command)
      /\ s \in Nat \ {0} /\ calls \in Nat /\ calls < s /\ \A x \in 1 .. calls : x \in 1 .. s /\ x # s
      /\ s \in 1 .. s
  BY DEF Command, StoreTypeOK
<1>3. /\ call'[c] = s /\ \A d \in Client \ {c} : call'[d] = call[d]
      /\ \A d \in Client : call[d] \in Nat
      /\ \A d \in Client : call[d] # s /\ call[d] <= s
  BY <1>1, <1>2 DEF StoreTypeOK, StoreInv, SendersFresh
<1>. HIDE DEF m, s
<1>4. /\ \A x : x # s => PositionIn(channel', x) = PositionIn(channel, x)
      /\ PositionIn(channel', s) = PositionIn(channel, s) \cup {Len(channel) + 1}
  <2>1. ASSUME NEW x, x # s PROVE PositionIn(channel', x) = PositionIn(channel, x)
    <3>1. ~(m.type # "Write" /\ m.sender = x)
      BY <1>2, <2>1
    <3>. QED
      BY <1>1, <1>2, <3>1, PositionAppend
  <2>2. PositionIn(channel', s) = PositionIn(channel, s) \cup {Len(channel) + 1}
    BY <1>1, <1>2, PositionAppend
  <2>. QED
    BY <2>1, <2>2
<1>5. Extremes'
  BY <1>1, <1>2, AppendExtremes DEF StoreInv, Extremes
<1>6. \A l : Senders(l)' = Senders(l)
  BY <1>1 DEF Senders
<1>7. PositionIn(channel, s) = {} /\ \A l \in Key : s \notin Senders(l)
  BY <1>2 DEF StoreInv, SendersFresh
<1>8. SendersOnce'
  BY <1>4, <1>6, <1>7 DEF StoreInv, SendersOnce
<1>9. SendersFresh'
  BY <1>1, <1>2, <1>3, <1>4, <1>6 DEF StoreInv, SendersFresh
<1>10. CallsDiffer'
  BY <1>3 DEF StoreInv, CallsDiffer
<1>11. NobodyWaitsInVain'
  BY <1>1, <1>6 DEF StoreInv, NobodyWaitsInVain
<1>12. AnsweredOnce' /\ CallsExpected'
  <2>1. ~answer[c].ready
    BY <1>1 DEF StoreInv, AnsweredOnce
  <2>. QED
    BY <1>1, <1>3, <1>4, <1>6, <2>1, ZenonT(40) DEF StoreInv, AnsweredOnce, CallsExpected
<1>. QED
  BY <1>5, <1>8, <1>9, <1>10, <1>11, <1>12 DEF StoreInv

(* So does the end of a call.                                              *)
LEMMA ReturnPreserves ==
    ASSUME StoreTypeOK, StoreInv, NEW c \in Client, Return(c) \/ Drop(c)
    PROVE  StoreInv'
<1>1. /\ call' = [call EXCEPT ![c] = 0] /\ answer' = [answer EXCEPT ![c] = NoAnswer]
      /\ UNCHANGED <<db, obligations, channel, calls>>
  BY DEF Return, Drop
<1>2. /\ call'[c] = 0 /\ ~answer'[c].ready
      /\ \A d \in Client \ {c} : call'[d] = call[d] /\ answer'[d] = answer[d]
  BY <1>1 DEF StoreTypeOK, NoAnswer
<1>3. \A l : Senders(l)' = Senders(l)
  BY <1>1 DEF Senders
<1>4. calls \in Nat
  BY DEF StoreTypeOK
<1>5. SendersOnce' /\ SendersFresh' /\ CallsDiffer'
  BY <1>1, <1>2, <1>3, <1>4 DEF StoreInv, SendersOnce, SendersFresh, CallsDiffer
<1>6. NobodyWaitsInVain' /\ AnsweredOnce' /\ CallsExpected' /\ Extremes'
  BY <1>1, <1>2, <1>3, ZenonT(40) DEF StoreInv, NobodyWaitsInVain, AnsweredOnce, CallsExpected, Extremes
<1>. QED
  BY <1>5, <1>6 DEF StoreInv

(* What one turn of the task does to everything but answers and            *)
(* obligations.                                                            *)
ServeStep(m) ==
    /\ channel # <<>> /\ m = Head(channel) /\ m \in Command
    /\ channel' = Tail(channel) /\ db' = After(m, db)
    /\ UNCHANGED <<call, calls>>

(* What it does, by the kind of its command.                               *)
LEMMA ServeShape ==
    ASSUME StoreTypeOK, StoreInv, Serve, NEW m, m = Head(channel)
    PROVE  /\ ServeStep(m)
           /\ m.type = "Write" =>
                /\ m.key \in Key /\ m.value \in Value
                /\ answer' = Sent(Senders(m.key), m.value)
                /\ \A k \in Key : Senders(k)' = IF k = m.key THEN {} ELSE Senders(k)
           /\ m.type # "Write" =>
                /\ m.key \in Key /\ m.sender \in Nat
                /\ PositionIn(channel, m.sender) = {1}
                /\ \A k \in Key : m.sender \notin Senders(k)
                /\ m.type = "Read" \/ db[m.key] # None =>
                     /\ answer' = Sent({m.sender}, db[m.key])
                     /\ \A k \in Key : Senders(k)' = Senders(k)
                /\ m.type = "NotifyRead" /\ db[m.key] = None =>
                     /\ answer' = answer
                     /\ \A k \in Key : Senders(k)' = IF k = m.key THEN Senders(k) \cup {m.sender}
                                                     ELSE Senders(k)
<1>1. /\ channel \in Seq(Command) /\ channel # <<>> /\ channel' = Tail(channel)
      /\ m \in Command
      /\ UNCHANGED <<call, calls>>
      /\ ServeWrite(m) \/ ServeRead(m) \/ ServeNotifyRead(m)
  BY DEF Serve, StoreTypeOK
<1>2. /\ m.type = "Write" => m.key \in Key /\ m.value \in Value
      /\ m.type # "Write" => m.key \in Key /\ m.sender \in Nat
      /\ m.key \in Key
      /\ m.type \in {"Write", "Read", "NotifyRead"}
  BY <1>1 DEF Command
<1>3. m.type # "Write" =>
        /\ PositionIn(channel, m.sender) = {1}
        /\ \A k \in Key : m.sender \notin Senders(k)
  <2>1. SUFFICES ASSUME m.type # "Write"
                 PROVE  /\ PositionIn(channel, m.sender) = {1}
                        /\ \A k \in Key : m.sender \notin Senders(k)
    OBVIOUS
  <2>2. 1 \in PositionIn(channel, m.sender)
    BY <1>1, <2>1, PositionTail
  <2>. QED
    BY <1>2, <2>1, <2>2 DEF StoreInv, SendersOnce
<1>4. obligations \in [Key -> Seq(Nat)]
  BY DEF StoreTypeOK
<1>5. CASE ServeWrite(m)
  <2>1. /\ m.type = "Write" /\ db' = After(m, db)
        /\ answer' = Sent(Senders(m.key), m.value)
        /\ obligations' = [obligations EXCEPT ![m.key] = <<>>]
    BY <1>5 DEF ServeWrite, After
  <2>2. \A k \in Key : Senders(k)' = IF k = m.key THEN {} ELSE Senders(k)
    BY <1>4, <2>1 DEF Senders
  <2>. QED
    BY <1>1, <1>2, <2>1, <2>2 DEF ServeStep
<1>6. CASE ServeRead(m)
  <2>1. /\ m.type = "Read" /\ db' = After(m, db)
        /\ answer' = Sent({m.sender}, db[m.key])
        /\ obligations' = obligations
    BY <1>6 DEF ServeRead, After
  <2>2. \A k \in Key : Senders(k)' = Senders(k)
    BY <2>1 DEF Senders
  <2>. QED
    BY <1>1, <1>2, <1>3, <2>1, <2>2 DEF ServeStep
<1>7. CASE ServeNotifyRead(m) /\ db[m.key] # None
  <2>1. /\ m.type = "NotifyRead" /\ db' = After(m, db)
        /\ answer' = Sent({m.sender}, db[m.key])
        /\ obligations' = obligations
    BY <1>7 DEF ServeNotifyRead, After
  <2>2. \A k \in Key : Senders(k)' = Senders(k)
    BY <2>1 DEF Senders
  <2>. QED
    BY <1>1, <1>2, <1>3, <1>7, <2>1, <2>2 DEF ServeStep
<1>8. CASE ServeNotifyRead(m) /\ db[m.key] = None
  <2>1. /\ m.type = "NotifyRead" /\ db' = After(m, db)
        /\ answer' = answer
        /\ obligations' = [obligations EXCEPT ![m.key] = Append(@, m.sender)]
    BY <1>8 DEF ServeNotifyRead, After
  <2>2. \A k \in Key : Senders(k)' = IF k = m.key THEN Senders(k) \cup {m.sender}
                                     ELSE Senders(k)
    <3>. DEFINE q == obligations[m.key]
                p == Append(q, m.sender)
    <3>1. q \in Seq(Nat) /\ obligations'[m.key] = p
      BY <1>2, <1>4, <2>1
    <3>. HIDE DEF q
    <3>2. /\ DOMAIN p = DOMAIN q \cup {Len(q) + 1} /\ p[Len(q) + 1] = m.sender
          /\ \A i \in DOMAIN q : p[i] = q[i]
      BY <1>1, <1>2, <2>1, <3>1
    <3>. HIDE DEF p
    <3>3. {p[i] : i \in DOMAIN p} = {q[i] : i \in DOMAIN q} \cup {m.sender}
      BY <3>2
    <3>4. Senders(m.key)' = {p[i] : i \in DOMAIN p} /\ Senders(m.key) = {q[i] : i \in DOMAIN q}
      BY <3>1 DEF Senders, q
    <3>5. \A k \in Key : k # m.key => Senders(k)' = Senders(k)
      BY <1>4, <2>1 DEF Senders
    <3>. QED
      BY <3>3, <3>4, <3>5
  <2>. QED
    BY <1>1, <1>2, <1>3, <1>8, <2>1, <2>2 DEF ServeStep
<1>. QED
  BY <1>1, <1>5, <1>6, <1>7, <1>8

(* A turn of the task preserves the invariant.                             *)
LEMMA ServePreserves ==
    ASSUME StoreTypeOK, StoreInv, Serve
    PROVE  StoreInv'
<1>. DEFINE m == Head(channel)
            P(s) == PositionIn(channel, s)
            P1(s) == PositionIn(channel', s)
<1>0. ServeStep(m) /\ channel \in Seq(Command) /\ calls \in Nat /\ \A c \in Client : call[c] \in Nat
  BY ServeShape DEF StoreTypeOK
<1>1. /\ \A s : \A i \in P1(s) : i \in Nat \ {0} /\ i + 1 \in P(s)
      /\ \A s : \A i \in P(s) : i = 1 \/ (i - 1 \in P1(s) /\ i - 1 + 1 = i)
      /\ \A s : 1 \in P(s) <=> m.type # "Write" /\ m.sender = s
  BY <1>0, PositionTail DEF ServeStep
<1>2. Extremes'
  BY <1>0, TailExtremes DEF ServeStep, StoreInv, Extremes
<1>3. CallsDiffer'
  BY <1>0 DEF ServeStep, StoreInv, CallsDiffer
<1>4. UNCHANGED <<call, calls>>
  BY <1>0 DEF ServeStep
<1>5. \A s \in Nat : \A i, j \in P1(s) : i = j
  <2>1. ASSUME NEW s \in Nat, NEW i \in P1(s), NEW j \in P1(s) PROVE i = j
    <3>1. i \in Nat /\ j \in Nat /\ i + 1 \in P(s) /\ j + 1 \in P(s)
      BY <1>1
    <3>2. i + 1 = j + 1
      BY <3>1 DEF StoreInv, SendersOnce
    <3>. QED
      BY <3>1, <3>2
  <2>. QED
    BY <2>1
<1>. HIDE DEF m
<1>. USE DEF StoreInv
<1>6. \A s : P(s) = {} => P1(s) = {}
  BY <1>1
<1>7. CASE m.type = "Write"
  <2>1. /\ m.key \in Key /\ m.value \in Value
        /\ answer' = Sent(Senders(m.key), m.value)
        /\ \A k \in Key : Senders(k)' = IF k = m.key THEN {} ELSE Senders(k)
    BY <1>7, ServeShape DEF m
  <2>2. \A s : P(s) # {} => P1(s) # {}
    BY <1>1, <1>7
  <2>3. /\ \A c \in Client : call[c] \in Senders(m.key) => answer'[c].ready
        /\ \A c \in Client : call[c] \notin Senders(m.key) => answer'[c] = answer[c]
    BY <2>1, AnswerSent
  <2>. HIDE DEF P, P1
  <2>4. SendersOnce'
    BY <1>5, <1>6, <2>1 DEF SendersOnce, P, P1
  <2>5. SendersFresh'
    BY <1>4, <1>6, <2>1 DEF SendersFresh, P, P1
  <2>6. NobodyWaitsInVain'
    BY <1>0, <1>7, <2>1 DEF NobodyWaitsInVain, ServeStep, After, StoreTypeOK
  <2>7. AnsweredOnce'
    <3>1. ASSUME NEW c \in Client, answer'[c].ready
          PROVE  /\ call[c] # 0 /\ P1(call[c]) = {}
                 /\ \A k \in Key : call[c] \notin Senders(k)'
      <4>1. CASE call[c] \in Senders(m.key)
        <5>1. call[c] # 0 /\ P(call[c]) = {}
          BY <1>0, <2>1, <4>1 DEF SendersFresh, SendersOnce, P
        <5>2. \A k \in Key : k # m.key => call[c] \notin Senders(k)
          BY <2>1, <4>1 DEF SendersOnce
        <5>. QED
          BY <1>6, <2>1, <5>1, <5>2
      <4>2. CASE call[c] \notin Senders(m.key)
        BY <1>6, <2>1, <2>3, <3>1, <4>2 DEF AnsweredOnce, P
      <4>. QED
        BY <4>1, <4>2
    <3>. QED
      BY <1>4, <3>1 DEF AnsweredOnce, P1
  <2>8. CallsExpected'
    BY <1>4, <2>1, <2>2, <2>3 DEF CallsExpected, P, P1
  <2>. QED
    BY <1>2, <1>3, <2>4, <2>5, <2>6, <2>7, <2>8
<1>8. CASE m.type # "Write"
  <2>1. /\ m.key \in Key /\ m.sender \in Nat /\ P(m.sender) = {1}
        /\ \A k \in Key : m.sender \notin Senders(k)
    BY <1>8, ServeShape DEF m
  <2>2. /\ P1(m.sender) = {}
        /\ \A s : s # m.sender /\ P(s) # {} => P1(s) # {}
        /\ m.sender \in 1 .. calls
    <3>1. \A i \in P1(m.sender) : i \in Nat \ {0} /\ i + 1 = 1
      BY <1>1, <2>1
    <3>2. P1(m.sender) = {}
      BY <3>1
    <3>3. m.sender \in 1 .. calls
      BY <2>1 DEF SendersFresh
    <3>. HIDE DEF P, P1
    <3>4. \A s : s # m.sender /\ P(s) # {} => P1(s) # {}
      BY <1>1
    <3>. QED
      BY <3>2, <3>3, <3>4
  <2>3. db' = db
    BY <1>0, <1>8 DEF ServeStep, After
  <2>. HIDE DEF P, P1
  <2>4. CASE m.type = "Read" \/ db[m.key] # None
    <3>1. /\ answer' = Sent({m.sender}, db[m.key])
          /\ \A k \in Key : Senders(k)' = Senders(k)
      BY <1>8, <2>4, ServeShape DEF m
    <3>2. /\ \A c \in Client : call[c] = m.sender => answer'[c].ready
          /\ \A c \in Client : call[c] # m.sender => answer'[c] = answer[c]
      BY <3>1, AnswerSent
    <3>3. SendersOnce' /\ SendersFresh' /\ NobodyWaitsInVain'
      <4>1. SendersOnce'
        BY <1>5, <1>6, <3>1 DEF SendersOnce, P, P1
      <4>2. SendersFresh'
        BY <1>4, <1>6, <3>1 DEF SendersFresh, P, P1
      <4>3. NobodyWaitsInVain'
        BY <2>3, <3>1 DEF NobodyWaitsInVain
      <4>. QED
        BY <4>1, <4>2, <4>3
    <3>4. AnsweredOnce'
      <4>1. ASSUME NEW c \in Client, answer'[c].ready
            PROVE  /\ call[c] # 0 /\ P1(call[c]) = {}
                   /\ \A k \in Key : call[c] \notin Senders(k)'
        <5>1. CASE call[c] = m.sender
          <6>1. call[c] # 0
            BY <1>0, <2>2, <5>1
          <6>. QED
            BY <2>1, <2>2, <3>1, <5>1, <6>1
        <5>2. CASE call[c] # m.sender
          BY <1>6, <3>1, <3>2, <4>1, <5>2 DEF AnsweredOnce, P
        <5>. QED
          BY <5>1, <5>2
      <4>. QED
        BY <1>4, <4>1 DEF AnsweredOnce, P1
    <3>5. CallsExpected'
      BY <1>4, <2>2, <3>1, <3>2 DEF CallsExpected, P, P1
    <3>. QED
      BY <1>2, <1>3, <3>3, <3>4, <3>5
  <2>5. CASE m.type # "Read" /\ db[m.key] = None
    <3>1. /\ answer' = answer
          /\ \A k \in Key : Senders(k)' = IF k = m.key THEN Senders(k) \cup {m.sender}
                                          ELSE Senders(k)
      <4>1. m.type = "NotifyRead"
        BY <1>0, <1>8, <2>5 DEF ServeStep, Command
      <4>. QED
        BY <1>8, <2>5, <4>1, ServeShape DEF m
    <3>2. SendersOnce'
      BY <1>5, <1>6, <2>1, <2>2, <3>1 DEF SendersOnce, P, P1
    <3>3. SendersFresh'
      BY <1>4, <1>6, <2>2, <3>1 DEF SendersFresh, P, P1
    <3>4. NobodyWaitsInVain'
      BY <2>3, <2>5, <3>1 DEF NobodyWaitsInVain
    <3>5. AnsweredOnce'
      <4>1. \A c \in Client : answer[c].ready => call[c] # m.sender
        BY <2>1 DEF AnsweredOnce, P
      <4>. QED
        BY <1>4, <1>6, <3>1, <4>1 DEF AnsweredOnce, P, P1
    <3>6. CallsExpected'
      BY <1>4, <2>1, <2>2, <3>1 DEF CallsExpected, P, P1
    <3>. QED
      BY <1>2, <1>3, <3>2, <3>3, <3>4, <3>5, <3>6
  <2>. QED
    BY <2>4, <2>5
<1>. QED
  BY <1>7, <1>8

(* The invariant holds at the start.                                       *)
LEMMA StoreInvInit == StoreInit => StoreTypeOK /\ StoreInv
<1>. SUFFICES ASSUME StoreInit PROVE StoreTypeOK /\ StoreInv
  OBVIOUS
<1>1. StoreTypeOK
  BY DEF StoreInit, StoreTypeOK
<1>2. /\ \A s : PositionIn(channel, s) = {}
      /\ \A k \in Key : Senders(k) = {}
      /\ \A c \in Client : call[c] = 0 /\ ~answer[c].ready
  BY DEF StoreInit, PositionIn, Senders, NoAnswer
<1>3. SendersOnce /\ SendersFresh /\ CallsDiffer
  BY <1>2 DEF StoreInit, SendersOnce, SendersFresh, CallsDiffer
<1>4. NobodyWaitsInVain /\ AnsweredOnce /\ CallsExpected
  BY <1>2 DEF NobodyWaitsInVain, AnsweredOnce, CallsExpected
<1>5. Extremes
  BY DEF StoreInit, Extremes, ExtremesIn, WritesIn
<1>. QED
  BY <1>1, <1>3, <1>4, <1>5 DEF StoreInv

(* Every step preserves it.                                                *)
LEMMA StoreInvStep == StoreTypeOK /\ StoreInv /\ [StoreNext]_store_vars => StoreTypeOK' /\ StoreInv'
<1>. SUFFICES ASSUME StoreTypeOK, StoreInv, [StoreNext]_store_vars PROVE StoreTypeOK' /\ StoreInv'
  OBVIOUS
<1>1. CASE UNCHANGED store_vars
  <2>1. \A k : Senders(k)' = Senders(k)
    BY <1>1 DEF store_vars, Senders
  <2>. QED
    BY <1>1, <2>1, StoreTypeStep
       DEF store_vars, StoreInv, SendersOnce, SendersFresh, CallsDiffer, NobodyWaitsInVain,
           AnsweredOnce, CallsExpected, Extremes
<1>. QED
  BY <1>1, StoreTypeStep, WritePreserves, CallPreserves, ReturnPreserves, ServePreserves
     DEF StoreNext, Read, NotifyRead

(* Senders are in one place, an answered call has no sender left, and a    *)
(* key that has a value has nobody registered for it, however calls, drops *)
(* and the task interleave.                                                *)
THEOREM StoreInvariance == StoreSpec => [](StoreTypeOK /\ StoreInv)
  BY StoreInvInit, StoreInvStep, PTL DEF StoreSpec

-----------------------------------------------------------------------------
(* The outcome of the call at position i of the queue.                     *)
AskedIn(ch, d, i) ==
    IF ch[i].type = "Read" THEN Result(ValueIn(ch, d, ch[i].key, i))
    ELSE AwaitedIn(ch, d, ch[i].key, i)

(* The outcome of every call, by where it is.                              *)
OutcomesAre ==
    \A c \in Client :
       /\ call[c] = 0 => Outcome(c) = [state |-> "idle"]
       /\ call[c] # 0 /\ answer[c].ready => Outcome(c) = Result(answer[c].value)
       /\ call[c] # 0 /\ ~answer[c].ready =>
            /\ \A i \in PositionIn(channel, call[c]) : Outcome(c) = AskedIn(channel, db, i)
            /\ \A k \in Key : call[c] \in Senders(k) => Outcome(c) = AwaitedIn(channel, db, k, 1)

(* The invariant makes the outcome of every call a function of its place.  *)
LEMMA Outcomes == StoreTypeOK /\ StoreInv => OutcomesAre
<1>. SUFFICES ASSUME StoreTypeOK, StoreInv, NEW c \in Client
              PROVE
       /\ call[c] = 0 => Outcome(c) = [state |-> "idle"]
       /\ call[c] # 0 /\ answer[c].ready => Outcome(c) = Result(answer[c].value)
       /\ call[c] # 0 /\ ~answer[c].ready =>
            /\ \A i \in PositionIn(channel, call[c]) : Outcome(c) = AskedIn(channel, db, i)
            /\ \A k \in Key : call[c] \in Senders(k) => Outcome(c) = AwaitedIn(channel, db, k, 1)
  BY DEF OutcomesAre
<1>1. Position(c) = PositionIn(channel, call[c]) /\ call[c] \in Nat
  BY DEF Position, PositionIn, StoreTypeOK
<1>2. call[c] = 0 => Outcome(c) = [state |-> "idle"]
  BY DEF Outcome
<1>3. call[c] # 0 /\ answer[c].ready => Outcome(c) = Result(answer[c].value)
  BY DEF Outcome, Result
<1>4. ASSUME call[c] # 0, ~answer[c].ready, NEW i \in PositionIn(channel, call[c])
      PROVE  Outcome(c) = AskedIn(channel, db, i)
  <2>. DEFINE j == CHOOSE j \in Position(c) : TRUE
  <2>1. Position(c) # {} /\ j \in Position(c)
    BY <1>1, <1>4
  <2>2. j = i
    BY <1>1, <1>4, <2>1 DEF StoreInv, SendersOnce
  <2>3. Outcome(c) = IF channel[j].type = "Read"
                     THEN [state |-> "result", value |-> ValueAt(channel[j].key, j)]
                     ELSE Awaited(channel[j].key, j)
    BY <1>4, <2>1 DEF Outcome
  <2>. HIDE DEF j
  <2>. QED
    BY <2>2, <2>3, InChannel DEF AskedIn, Result
<1>5. ASSUME call[c] # 0, ~answer[c].ready, NEW k \in Key, call[c] \in Senders(k)
      PROVE  Outcome(c) = AwaitedIn(channel, db, k, 1)
  <2>. DEFINE l == CHOOSE l \in Key : call[c] \in Senders(l)
  <2>1. l \in Key /\ call[c] \in Senders(l)
    BY <1>5
  <2>2. l = k /\ Position(c) = {}
    BY <1>1, <1>5, <2>1 DEF StoreInv, SendersOnce
  <2>3. Outcome(c) = Awaited(l, 1)
    BY <1>5, <2>2 DEF Outcome
  <2>. HIDE DEF l
  <2>. QED
    BY <2>2, <2>3, InChannel
<1>. QED
  BY <1>2, <1>3, <1>4, <1>5

(* The same for the next state.                                            *)
LEMMA OutcomesNext == StoreTypeOK' /\ StoreInv' => OutcomesAre'
  BY Outcomes, PTL

(* What becomes of outcome o when command m enters the channel.            *)
Woken(m, o) ==
    IF m.type = "Write" /\ o = Waiting(m.key) THEN Result(m.value) ELSE o

(* Results, waits and idleness differ.                                     *)
LEMMA Kinds ==
    /\ \A k, v : Waiting(k) # Result(v)
    /\ \A k, l : Waiting(k) = Waiting(l) => k = l
    /\ \A k : Waiting(k) # [state |-> "idle"]
    /\ \A v : Result(v) # [state |-> "idle"]
<1>1. \A k, v : Waiting(k).state = "waiting" /\ Result(v).state = "result" /\ Waiting(k).key = k
  BY DEF Waiting, Result
<1>. QED
  BY <1>1

(* Queueing a command wakes those that await its key.                      *)
LEMMA AwaitedAppend ==
    ASSUME NEW ch \in Seq(Command), ExtremesIn(ch), NEW m \in Command, NEW d,
           NEW k \in Key, NEW i \in 1 .. Len(ch) + 1
    PROVE  AwaitedIn(Append(ch, m), d, k, i) = Woken(m, AwaitedIn(ch, d, k, i))
<1>. DEFINE o == AwaitedIn(ch, d, k, i)
            p == AwaitedIn(Append(ch, m), d, k, i)
<1>1. p = IF o = Waiting(k) /\ m.type = "Write" /\ m.key = k THEN Result(m.value) ELSE o
  BY AppendAwaited
<1>2. o = Waiting(k) \/ \E v : o = Result(v)
  BY DEF AwaitedIn
<1>. HIDE DEF o, p
<1>3. o = Waiting(m.key) => o = Waiting(k) /\ m.key = k
  BY <1>2, Kinds
<1>4. p = Woken(m, o)
  BY <1>1, <1>3 DEF Woken
<1>. QED
  BY <1>4 DEF o, p

(* The same for calls that are queued themselves.                          *)
LEMMA AskedAppend ==
    ASSUME NEW ch \in Seq(Command), ExtremesIn(ch), NEW m \in Command, NEW d,
           NEW i \in 1 .. Len(ch)
    PROVE  AskedIn(Append(ch, m), d, i) = Woken(m, AskedIn(ch, d, i))
<1>. DEFINE a == Append(ch, m)
            k == ch[i].key
<1>1. a[i] = ch[i] /\ i \in 1 .. Len(ch) + 1 /\ ch[i] \in Command
  OBVIOUS
<1>2. k \in Key
  BY <1>1 DEF Command
<1>3. ValueIn(a, d, k, i) = ValueIn(ch, d, k, i)
  BY <1>1, <1>2, AppendValue
<1>4. AwaitedIn(a, d, k, i) = Woken(m, AwaitedIn(ch, d, k, i))
  BY <1>1, <1>2, AwaitedAppend
<1>5. Woken(m, Result(ValueIn(ch, d, k, i))) = Result(ValueIn(ch, d, k, i))
  BY Kinds DEF Woken
<1>. HIDE DEF a
<1>6. AskedIn(a, d, i) = Woken(m, AskedIn(ch, d, i))
  BY <1>1, <1>3, <1>4, <1>5 DEF AskedIn
<1>. QED
  BY <1>6 DEF a

(* Serving the first command leaves the outcome of those behind it.        *)
LEMMA AskedTail ==
    ASSUME NEW ch \in Seq(Command), ch # <<>>, ExtremesIn(ch),
           NEW d \in [Key -> Value \cup {None}], NEW i \in 1 .. Len(ch) - 1
    PROVE  AskedIn(Tail(ch), After(Head(ch), d), i) = AskedIn(ch, d, i + 1)
<1>. DEFINE t == Tail(ch)
            k == ch[i + 1].key
            e == After(Head(ch), d)
<1>1. t[i] = ch[i + 1] /\ i \in 1 .. Len(ch) /\ ch[i + 1] \in Command
  OBVIOUS
<1>2. k \in Key
  BY <1>1 DEF Command
<1>3. /\ ValueIn(t, e, k, i) = ValueIn(ch, d, k, i + 1)
      /\ AwaitedIn(t, e, k, i) = AwaitedIn(ch, d, k, i + 1)
  BY <1>1, <1>2, TailValue, TailAwaited
<1>. HIDE DEF t, e
<1>4. AskedIn(t, e, i) = AskedIn(ch, d, i + 1)
  BY <1>1, <1>3 DEF AskedIn
<1>. QED
  BY <1>4 DEF t, e

(* Queueing a command wakes the open calls that wait for it, and changes   *)
(* no other outcome.                                                       *)
LEMMA OutcomeAppend ==
    ASSUME StoreTypeOK, StoreInv, StoreTypeOK', StoreInv', NEW m \in Command,
           channel' = Append(channel, m), UNCHANGED <<db, obligations>>,
           NEW c \in Client, call'[c] = call[c], answer'[c] = answer[c]
    PROVE  Outcome(c)' = Woken(m, Outcome(c))
<1>1. OutcomesAre /\ OutcomesAre'
  BY Outcomes, OutcomesNext
<1>2. channel \in Seq(Command) /\ ExtremesIn(channel)
  BY DEF StoreTypeOK, StoreInv, Extremes
<1>3. CASE call[c] = 0
  BY <1>1, <1>3, Kinds DEF OutcomesAre, Woken
<1>4. CASE call[c] # 0 /\ answer[c].ready
  BY <1>1, <1>4, Kinds DEF OutcomesAre, Woken
<1>5. ASSUME call[c] # 0, ~answer[c].ready, NEW i \in PositionIn(channel, call[c])
      PROVE  Outcome(c)' = Woken(m, Outcome(c))
  <2>. DEFINE P == PositionIn(channel, call[c])
              P1 == PositionIn(Append(channel, m), call[c])
  <2>0. P \subseteq 1 .. Len(channel) /\ (P1 = P \cup {Len(channel) + 1} \/ P1 = P)
    BY <1>2, PositionAppend
  <2>1. i \in PositionIn(channel', call[c]) /\ i \in 1 .. Len(channel)
    <3>1. i \in P
      BY <1>5
    <3>. HIDE DEF P
    <3>2. i \in P1 /\ i \in 1 .. Len(channel)
      BY <2>0, <3>1
    <3>. QED
      BY <3>2
  <2>2. Outcome(c) = AskedIn(channel, db, i) /\ Outcome(c)' = AskedIn(channel', db', i)
    BY <1>1, <1>5, <2>1 DEF OutcomesAre
  <2>. QED
    BY <1>2, <2>1, <2>2, AskedAppend
<1>6. ASSUME call[c] # 0, ~answer[c].ready, NEW k \in Key, call[c] \in Senders(k)
      PROVE  Outcome(c)' = Woken(m, Outcome(c))
  <2>1. call[c] \in Senders(k)'
    BY <1>6 DEF Senders
  <2>2. Outcome(c) = AwaitedIn(channel, db, k, 1) /\ Outcome(c)' = AwaitedIn(channel', db', k, 1)
    BY <1>1, <1>6, <2>1 DEF OutcomesAre
  <2>3. 1 \in 1 .. Len(channel) + 1
    BY <1>2
  <2>. QED
    BY <1>2, <2>2, <2>3, AwaitedAppend
<1>. QED
  BY <1>3, <1>4, <1>5, <1>6 DEF StoreInv, CallsExpected

(* A turn of the task changes no outcome.                                  *)
LEMMA OutcomeServe ==
    ASSUME StoreTypeOK, StoreInv, StoreTypeOK', StoreInv', Serve, NEW c \in Client
    PROVE  Outcome(c)' = Outcome(c)
<1>. DEFINE m == Head(channel)
<1>1. OutcomesAre /\ OutcomesAre'
  BY Outcomes, OutcomesNext
<1>2. /\ channel \in Seq(Command) /\ channel # <<>> /\ ExtremesIn(channel)
      /\ channel' = Tail(channel) /\ db' = After(m, db) /\ call' = call
      /\ db \in [Key -> Value \cup {None}]
      /\ m = channel[1] /\ m \in Command /\ 1 \in 1 .. Len(channel) /\ 1 + 1 = 2
  <2>1. ServeStep(m)
    BY ServeShape
  <2>. QED
    BY <2>1 DEF StoreTypeOK, StoreInv, Extremes, ServeStep
<1>3. m.type = "Write" =>
        /\ m.key \in Key
        /\ answer' = Sent(Senders(m.key), m.value)
        /\ \A k \in Key : Senders(k)' = IF k = m.key THEN {} ELSE Senders(k)
  BY ServeShape
<1>4. m.type # "Write" =>
        /\ m.key \in Key
        /\ PositionIn(channel, m.sender) = {1}
        /\ \A k \in Key : m.sender \notin Senders(k)
        /\ m.type = "Read" \/ db[m.key] # None =>
             /\ answer' = Sent({m.sender}, db[m.key])
             /\ \A k \in Key : Senders(k)' = Senders(k)
        /\ m.type # "Read" /\ db[m.key] = None =>
             /\ answer' = answer
             /\ \A k \in Key : Senders(k)' = IF k = m.key THEN Senders(k) \cup {m.sender}
                                             ELSE Senders(k)
  BY <1>2, ServeShape DEF Command
<1>5. \A k \in Key : AwaitedIn(channel', db', k, 1) = AwaitedIn(channel, db, k, 2)
  BY <1>2, TailAwaited
<1>. HIDE DEF m
<1>6. /\ m.type = "Write" /\ call[c] \notin Senders(m.key) => answer'[c] = answer[c]
      /\ m.type # "Write" /\ call[c] # m.sender => answer'[c] = answer[c]
  BY <1>3, <1>4, AnswerSent
<1>7. CASE call[c] = 0
  BY <1>1, <1>2, <1>7 DEF OutcomesAre
<1>8. CASE call[c] # 0 /\ answer[c].ready
  <2>1. PositionIn(channel, call[c]) = {} /\ \A k \in Key : call[c] \notin Senders(k)
    BY <1>8 DEF StoreInv, AnsweredOnce
  <2>2. answer'[c] = answer[c]
    BY <1>3, <1>4, <1>6, <2>1
  <2>. QED
    BY <1>1, <1>2, <1>8, <2>2 DEF OutcomesAre
<1>9. ASSUME call[c] # 0, ~answer[c].ready, NEW i \in PositionIn(channel, call[c])
      PROVE  Outcome(c)' = Outcome(c)
  <2>0. /\ Outcome(c) = AskedIn(channel, db, i)
        /\ \A k \in Key : call[c] \notin Senders(k)
        /\ i \in 1 .. Len(channel)
    BY <1>1, <1>2, <1>9, PositionAppend DEF OutcomesAre, StoreInv, SendersOnce, StoreTypeOK
  <2>1. CASE i # 1
    <3>1. i - 1 \in PositionIn(channel', call[c]) /\ i - 1 \in 1 .. Len(channel) - 1 /\ i - 1 + 1 = i
      BY <1>2, <1>9, <2>0, <2>1, PositionTail
    <3>2. answer'[c] = answer[c]
      BY <1>3, <1>4, <1>6, <1>9, <2>0, <2>1
    <3>3. Outcome(c)' = AskedIn(channel', db', i - 1)
      BY <1>1, <1>2, <1>9, <3>1, <3>2 DEF OutcomesAre
    <3>4. AskedIn(channel', db', i - 1) = AskedIn(channel, db, i - 1 + 1)
      BY <1>2, <3>1, AskedTail DEF m
    <3>. QED
      BY <2>0, <3>1, <3>3, <3>4
  <2>2. CASE i = 1
    <3>1. m.type # "Write" /\ call[c] = m.sender
      BY <1>2, <1>9, <2>2, PositionTail DEF m
    <3>2. /\ ValueIn(channel, db, m.key, 1) = db[m.key]
          /\ AwaitedIn(channel, db, m.key, 1) = AwaitedIn(channel, db, m.key, 2)
      BY <1>2, <1>4, <3>1, AwaitedFirst DEF m
    <3>3. CASE m.type = "Read" \/ db[m.key] # None
      <4>1. answer'[c].ready /\ answer'[c].value = db[m.key]
        BY <1>4, <3>1, <3>3, AnswerSent
      <4>2. Outcome(c)' = Result(db[m.key])
        BY <1>1, <1>2, <1>9, <4>1 DEF OutcomesAre
      <4>3. AskedIn(channel, db, 1) = Result(db[m.key])
        BY <1>2, <3>2, <3>3 DEF AskedIn, AwaitedIn
      <4>. QED
        BY <2>0, <2>2, <4>2, <4>3
    <3>4. CASE m.type # "Read" /\ db[m.key] = None
      <4>1. PICK k \in Key : k = m.key
        BY <1>4, <3>1
      <4>2. answer' = answer /\ call[c] \in Senders(k)'
        BY <1>4, <3>1, <3>4, <4>1
      <4>3. Outcome(c)' = AwaitedIn(channel', db', k, 1)
        BY <1>1, <1>2, <1>9, <4>2 DEF OutcomesAre
      <4>. QED
        BY <1>2, <1>5, <2>0, <2>2, <3>2, <3>4, <4>1, <4>3 DEF AskedIn
    <3>. QED
      BY <3>3, <3>4
  <2>. QED
    BY <2>1, <2>2
<1>10. ASSUME call[c] # 0, ~answer[c].ready, NEW k \in Key, call[c] \in Senders(k)
       PROVE  Outcome(c)' = Outcome(c)
  <2>1. Outcome(c) = AwaitedIn(channel, db, k, 1)
    BY <1>1, <1>10 DEF OutcomesAre
  <2>2. CASE m.type = "Write" /\ m.key = k
    <3>1. db[k] = None
      BY <1>10 DEF StoreInv, NobodyWaitsInVain
    <3>2. AwaitedIn(channel, db, k, 1) = Result(m.value)
      BY <1>2, <2>2, <3>1, AwaitedFirst DEF m
    <3>3. answer'[c].ready /\ answer'[c].value = m.value
      BY <1>3, <1>10, <2>2, AnswerSent
    <3>. QED
      BY <1>1, <1>2, <1>10, <2>1, <3>2, <3>3 DEF OutcomesAre
  <2>3. CASE ~(m.type = "Write" /\ m.key = k)
    <3>1. AwaitedIn(channel, db, k, 1) = AwaitedIn(channel, db, k, 2)
      BY <1>2, <2>3, AwaitedFirst DEF m
    <3>2. call[c] \in Senders(k)'
      BY <1>3, <1>4, <1>10, <2>3
    <3>3. answer'[c] = answer[c]
      <4>1. m.type = "Write" => call[c] \notin Senders(m.key)
        BY <1>3, <1>10, <2>3 DEF StoreInv, SendersOnce
      <4>. QED
        BY <1>4, <1>6, <1>10, <4>1
    <3>4. Outcome(c)' = AwaitedIn(channel', db', k, 1)
      BY <1>1, <1>2, <1>10, <3>2, <3>3 DEF OutcomesAre
    <3>. QED
      BY <1>5, <2>1, <3>1, <3>4
  <2>. QED
    BY <2>2, <2>3
<1>. QED
  BY <1>7, <1>8, <1>9, <1>10 DEF StoreInv, CallsExpected

-----------------------------------------------------------------------------
(* The value of k once everything queued is served.                        *)
Stored(k) == ValueIn(channel, db, k, Len(channel) + 1)

(* Stored is the map of the refinement.                                    *)
MapsAgree == [k \in Key |-> ValueAt(k, Len(channel) + 1)] = [k \in Key |-> Stored(k)]

(* It is, in every state.                                                  *)
LEMMA MapIs == MapsAgree
  BY InChannel DEF MapsAgree, Stored

(* The same for the next state.                                            *)
LEMMA MapIsNext == MapsAgree'
  BY MapIs, PTL

(* A write takes effect when it is queued.                                 *)
LEMMA LastAppend ==
    ASSUME StoreTypeOK, StoreInv, NEW m \in Command, channel' = Append(channel, m), db' = db,
           NEW k \in Key
    PROVE  Stored(k)' = IF m.type = "Write" /\ m.key = k THEN m.value ELSE Stored(k)
<1>. DEFINE n == Len(channel)
            a == Append(channel, m)
            U == WritesIn(channel, k, 1 .. n)
            W == WritesIn(a, k, 1 .. n + 1)
<1>1. /\ channel \in Seq(Command) /\ ExtremesIn(channel)
      /\ n \in Nat /\ Len(a) = n + 1 /\ n + 1 + 1 - 1 = n + 1 /\ n + 1 - 1 = n /\ n + 1 \in 1 .. n + 1
      /\ 1 .. n + 1 = (1 .. n) \cup {n + 1} /\ 1 .. n \in SUBSET (1 .. n)
      /\ a[n + 1] = m /\ \A i \in 1 .. n : a[i] = channel[i]
  BY DEF StoreTypeOK, StoreInv, Extremes
<1>2. /\ m.type = "Write" /\ m.key = k => W = U \cup {n + 1}
      /\ ~(m.type = "Write" /\ m.key = k) => W = U
      /\ U \subseteq 1 .. n
  BY <1>1 DEF WritesIn
<1>3. /\ Stored(k) = IF U = {} THEN db[k] ELSE channel[Max(U)].value
      /\ Stored(k)' = IF W = {} THEN db[k] ELSE a[Max(W)].value
  BY <1>1 DEF Stored, ValueIn
<1>4. CASE m.type = "Write" /\ m.key = k
  <2>1. n + 1 \in W /\ W \in SUBSET Int /\ \A j \in W : n + 1 >= j
    BY <1>1, <1>2, <1>4
  <2>. HIDE DEF W
  <2>2. Max(W) = n + 1
    BY <1>1, <2>1, MaxIs
  <2>. QED
    BY <1>1, <1>3, <1>4, <2>1, <2>2
<1>5. CASE ~(m.type = "Write" /\ m.key = k)
  <2>1. U # {} => Max(U) \in U
    BY <1>1, LastWrite
  <2>. HIDE DEF U, W
  <2>. QED
    BY <1>1, <1>2, <1>3, <1>5, <2>1
<1>. QED
  BY <1>4, <1>5

(* Serving a command changes no value.                                     *)
LEMMA LastServe ==
    ASSUME StoreTypeOK, StoreInv, Serve, NEW k \in Key
    PROVE  Stored(k)' = Stored(k)
<1>1. /\ channel \in Seq(Command) /\ channel # <<>> /\ ExtremesIn(channel)
      /\ channel' = Tail(channel) /\ db' = After(Head(channel), db)
      /\ db \in [Key -> Value \cup {None}]
      /\ Len(channel) \in 1 .. Len(channel) /\ Len(Tail(channel)) + 1 = Len(channel)
  <2>1. ServeStep(Head(channel))
    BY ServeShape
  <2>. QED
    BY <2>1 DEF StoreTypeOK, StoreInv, Extremes, ServeStep
<1>. QED
  BY <1>1, TailValue DEF Stored

(* Store::write implements the abstract write.                             *)
LEMMA WriteStep ==
    ASSUME StoreTypeOK, StoreInv, StoreTypeOK', StoreInv', NEW k \in Key, NEW v \in Value, Write(k, v)
    PROVE  Atomic!Write(k, v)
<1>. DEFINE m == [type |-> "Write", key |-> k, value |-> v]
<1>1. /\ m \in Command /\ m.type = "Write" /\ m.key = k /\ m.value = v
      /\ channel' = Append(channel, m) /\ UNCHANGED <<db, obligations, call, answer>>
  BY DEF Write, Command
<1>. HIDE DEF m
<1>2. \A c \in Client : Outcome(c)' = IF Outcome(c) = Waiting(k) THEN Result(v) ELSE Outcome(c)
  BY <1>1, OutcomeAppend DEF Woken
<1>3. \A l \in Key : Stored(l)' = IF l = k THEN v ELSE Stored(l)
  BY <1>1, LastAppend
<1>4. [l \in Key |-> Stored(l)]' = [[l \in Key |-> Stored(l)] EXCEPT ![k] = v]
  BY <1>3
<1>. QED
  BY <1>2, <1>4, MapIs, MapIsNext DEF MapsAgree, Atomic!Write, Atomic!Waiting, Atomic!Result, Waiting, Result

(* Queueing a read or a notify_read implements the abstract one.           *)
LEMMA CallStep ==
    ASSUME StoreTypeOK, StoreInv, StoreTypeOK', StoreInv', NEW c \in Client, NEW k \in Key,
           NEW type \in {"Read", "NotifyRead"}, Call(c, k, type)
    PROVE  /\ type = "Read" => Atomic!Read(c, k)
           /\ type = "NotifyRead" => Atomic!NotifyRead(c, k)
<1>. DEFINE n == Len(channel)
            m == [type |-> type, key |-> k, sender |-> calls + 1]
            a == Append(channel, m)
<1>1. /\ m \in Command /\ m.type = type /\ m.type # "Write" /\ m.key = k /\ m.sender = calls + 1
      /\ channel' = a /\ UNCHANGED <<db, obligations, answer>>
      /\ call[c] = 0 /\ call' = [call EXCEPT ![c] = calls + 1]
      /\ channel \in Seq(Command) /\ ExtremesIn(channel) /\ n \in Nat
      /\ calls + 1 \in Nat \ {0}
  BY DEF Call, Command, StoreTypeOK, StoreInv, Extremes
<1>. HIDE DEF m
<1>2. /\ call'[c] = calls + 1 /\ \A d \in Client \ {c} : call'[d] = call[d]
      /\ ~answer'[c].ready
  BY <1>1 DEF StoreTypeOK, StoreInv, AnsweredOnce
<1>3. OutcomesAre /\ OutcomesAre'
  BY Outcomes, OutcomesNext
<1>4. \A d \in Client \ {c} : Outcome(d)' = Outcome(d)
  BY <1>1, <1>2, OutcomeAppend DEF Woken
<1>5. \A l \in Key : Stored(l)' = Stored(l)
  BY <1>1, LastAppend
<1>6. Outcome(c) = [state |-> "idle"]
  BY <1>1, <1>3 DEF OutcomesAre
<1>7. Outcome(c)' = AskedIn(a, db, n + 1)
  <2>1. n + 1 \in PositionIn(a, calls + 1)
    BY <1>1, PositionAppend
  <2>. QED
    BY <1>1, <1>2, <1>3, <2>1 DEF OutcomesAre
<1>8. ValueIn(a, db, k, n + 1) = Stored(k)
  BY <1>1, AppendValue DEF Stored
<1>9. a[n + 1] = m /\ Len(a) = n + 1 /\ n + 1 .. n + 1 = {n + 1}
  BY <1>1
<1>10. WritesIn(a, k, n + 1 .. Len(a)) = {}
  BY <1>1, <1>9 DEF WritesIn
<1>. HIDE DEF a, n
<1>11. /\ type = "Read" => Outcome(c)' = Result(Stored(k))
       /\ type = "NotifyRead" =>
            Outcome(c)' = IF Stored(k) = None THEN Waiting(k) ELSE Result(Stored(k))
  BY <1>1, <1>7, <1>8, <1>9, <1>10 DEF AskedIn, AwaitedIn
<1>12. [l \in Key |-> Stored(l)]' = [l \in Key |-> Stored(l)]
  BY <1>5
<1>13. ValueAt(k, Len(channel) + 1) = Stored(k)
  BY InChannel DEF Stored
<1>14. ASSUME NEW o, Outcome(c)' = o
       PROVE  [d \in Client |-> Outcome(d)]' = [[d \in Client |-> Outcome(d)] EXCEPT ![c] = o]
  BY <1>4, <1>14
<1>. QED
  BY <1>6, <1>11, <1>12, <1>13, <1>14, MapIs, MapIsNext
     DEF MapsAgree, Atomic!Read, Atomic!NotifyRead, Atomic!Waiting, Atomic!Result, Atomic!Idle, Waiting, Result

(* The end of a call implements the abstract one.                          *)
LEMMA ReturnStep ==
    ASSUME StoreTypeOK, StoreInv, StoreTypeOK', StoreInv', NEW c \in Client, Return(c) \/ Drop(c)
    PROVE  Atomic!Return(c)
<1>1. /\ call[c] # 0 /\ call' = [call EXCEPT ![c] = 0]
      /\ answer' = [answer EXCEPT ![c] = NoAnswer]
      /\ UNCHANGED <<db, obligations, channel>>
  BY DEF Return, Drop
<1>2. /\ call'[c] = 0
      /\ \A d \in Client \ {c} : call'[d] = call[d] /\ answer'[d] = answer[d]
  BY <1>1 DEF StoreTypeOK
<1>3. OutcomesAre /\ OutcomesAre'
  BY Outcomes, OutcomesNext
<1>4. Outcome(c)' = [state |-> "idle"]
  BY <1>2, <1>3 DEF OutcomesAre
<1>5. Outcome(c) # [state |-> "idle"]
  <2>1. \A k, i : AwaitedIn(channel, db, k, i) # [state |-> "idle"]
    BY Kinds DEF AwaitedIn
  <2>2. \A i : AskedIn(channel, db, i) # [state |-> "idle"]
    BY <2>1, Kinds DEF AskedIn
  <2>. QED
    BY <1>1, <1>3, <2>1, <2>2, Kinds, SMTT(30) DEF OutcomesAre, StoreInv, CallsExpected
<1>6. \A d \in Client \ {c} : Outcome(d)' = Outcome(d)
  <2>1. ASSUME NEW d \in Client \ {c} PROVE Outcome(d)' = Outcome(d)
    <3>1. \A k : Senders(k)' = Senders(k)
      BY <1>1 DEF Senders
    <3>2. call'[d] = call[d] /\ answer'[d] = answer[d] /\ d \in Client
      BY <1>2
    <3>3. CASE call[d] = 0 \/ answer[d].ready
      BY <1>3, <3>2, <3>3 DEF OutcomesAre
    <3>4. CASE call[d] # 0 /\ ~answer[d].ready
      BY <1>1, <1>3, <3>1, <3>2, <3>4 DEF OutcomesAre, StoreInv, CallsExpected
    <3>. QED
      BY <3>3, <3>4
  <2>. QED
    BY <2>1
<1>7. [d \in Client |-> Outcome(d)]'
        = [[d \in Client |-> Outcome(d)] EXCEPT ![c] = [state |-> "idle"]]
  BY <1>4, <1>6
<1>8. [k \in Key |-> Stored(k)]' = [k \in Key |-> Stored(k)]
  BY <1>1 DEF Stored
<1>. QED
  BY <1>5, <1>7, <1>8, MapIs, MapIsNext DEF MapsAgree, Atomic!Return, Atomic!Idle

(* A turn of the task is invisible.                                        *)
LEMMA ServeStutters ==
    ASSUME StoreTypeOK, StoreInv, StoreTypeOK', StoreInv', Serve
    PROVE  UNCHANGED Atomic!vars
<1>1. [d \in Client |-> Outcome(d)]' = [d \in Client |-> Outcome(d)]
  BY OutcomeServe
<1>2. [k \in Key |-> Stored(k)]' = [k \in Key |-> Stored(k)]
  BY LastServe
<1>. QED
  BY <1>1, <1>2, MapIs, MapIsNext DEF MapsAgree, Atomic!vars

(* Every step of the Store is a step of the atomic map, or none.           *)
LEMMA StepSimulated ==
    ASSUME StoreTypeOK, StoreInv, StoreTypeOK', StoreInv', [StoreNext]_store_vars
    PROVE  [Atomic!Next]_(Atomic!vars)
<1>1. CASE UNCHANGED store_vars
  <2>1. [d \in Client |-> Outcome(d)]' = [d \in Client |-> Outcome(d)]
    BY <1>1 DEF store_vars, Outcome, Awaited, ValueAt, WritesTo, Position, Senders
  <2>2. [k \in Key |-> Stored(k)]' = [k \in Key |-> Stored(k)]
    BY <1>1 DEF store_vars, Stored
  <2>. QED
    BY <2>1, <2>2, MapIs, MapIsNext DEF MapsAgree, Atomic!vars
<1>. QED
  BY <1>1, WriteStep, CallStep, ReturnStep, ServeStutters DEF StoreNext, Read, NotifyRead, Atomic!Next

(* The Store starts as an empty map.                                       *)
LEMMA InitSimulated == StoreInit => Atomic!Init
<1>. SUFFICES ASSUME StoreInit PROVE Atomic!Init
  OBVIOUS
<1>1. \A c \in Client : Outcome(c) = [state |-> "idle"]
  BY DEF StoreInit, Outcome
<1>2. \A k \in Key : Stored(k) = None
  BY DEF StoreInit, Stored, ValueIn, WritesIn
<1>. QED
  BY <1>1, <1>2, MapIs DEF MapsAgree, Atomic!Init, Atomic!Idle

(* Whatever is queued, dropped or registered, the Store is the atomic map  *)
(* that the other tasks take it for: for any number of clients, keys and   *)
(* calls, and every capacity.                                              *)
THEOREM AtomicStoreRefined == StoreSpec => ImplementsAtomicStore
<1>1. StoreInit => Atomic!Init
  BY InitSimulated
<1>2. StoreTypeOK /\ StoreInv /\ (StoreTypeOK /\ StoreInv)' /\ [StoreNext]_store_vars => [Atomic!Next]_(Atomic!vars)
  BY StepSimulated
<1>. QED
  BY <1>1, <1>2, StoreInvariance, PTL DEF StoreSpec, ImplementsAtomicStore, Atomic!Spec

-----------------------------------------------------------------------------
(* The workers: types, availability of the batches that are reported, what *)
(* becomes of the transactions, and the Synchronizer's bookkeeping.        *)

(* What the BatchMaker of an honest worker seals.                          *)
Batch == [author : Honest, transactions : Seq(Nat)]

(* Whatever may be stored, Byzantine batches included.                     *)
AnyBatch == Batch \cup ByzantineBatch

(* The values the state of the workers can have.                           *)
WorkerTypeOK ==
    /\ taken \in [Honest -> Nat]
    /\ current_batch \in [Honest -> Seq(Nat)]
    /\ current_batch_size \in [Honest -> Nat]
    /\ rx_quorum_waiter \in [Honest -> Seq(Batch)]
    /\ in_flight \subseteq Batch \X Authority
    /\ acked \subseteq Batch \X Authority
    /\ rx_own \in [Honest -> Seq(Batch)]
    /\ rx_others \in [Honest -> SUBSET AnyBatch]
    /\ store \in [Honest -> SUBSET AnyBatch]
    /\ digests \in [Honest -> Seq(Batch)]
    /\ others_digests \in [Honest -> SUBSET AnyBatch]
    /\ round \in [Honest -> Nat]
    /\ pending \in [Honest -> SUBSET [digest : AnyBatch, round : Nat]]
    /\ waiting \in [Honest -> SUBSET [id : Nat, digest : AnyBatch, cancelled : BOOLEAN]]
    /\ started \in [Honest -> Nat]
    /\ requests \subseteq Authority \X Honest \X SUBSET AnyBatch

(* The part of WorkerTypeOK that sealing a batch changes.                  *)
MakingOK ==
    /\ taken \in [Honest -> Nat]
    /\ current_batch \in [Honest -> Seq(Nat)]
    /\ current_batch_size \in [Honest -> Nat]
    /\ rx_quorum_waiter \in [Honest -> Seq(Batch)]
    /\ in_flight \subseteq Batch \X Authority

-----------------------------------------------------------------------------
(* Head and tail of a sequence over A.                                     *)
LEMMA HeadAndTail ==
    ASSUME NEW A, NEW s \in Seq(A), s # <<>>
    PROVE  Head(s) \in A /\ Tail(s) \in Seq(A)
  OBVIOUS

(* BatchMaker::seal keeps the types.                                       *)
LEMMA SealType ==
    ASSUME WorkerTypeOK, NEW n \in Honest, NEW t \in Seq(Nat), seal(n, t)
    PROVE  /\ current_batch' \in [Honest -> Seq(Nat)]
           /\ current_batch_size' \in [Honest -> Nat]
           /\ rx_quorum_waiter' \in [Honest -> Seq(Batch)]
           /\ in_flight' \subseteq Batch \X Authority
<1>. DEFINE b == [author |-> n, transactions |-> t]
<1>1. b \in Batch
  BY DEF Batch
<1>2. /\ current_batch_size' = [current_batch_size EXCEPT ![n] = 0]
      /\ current_batch' = [current_batch EXCEPT ![n] = <<>>]
      /\ rx_quorum_waiter' = [rx_quorum_waiter EXCEPT ![n] = Append(@, b)]
      /\ in_flight' = in_flight \cup {<<b, p>> : p \in Authority \ {n}}
  BY DEF seal
<1>. HIDE DEF b
<1>3. Append(rx_quorum_waiter[n], b) \in Seq(Batch)
  BY <1>1 DEF WorkerTypeOK
<1>. QED
  BY <1>1, <1>2, <1>3 DEF WorkerTypeOK

(* Whatever the primary asks for is a batch.                               *)
LEMMA BatchesType ==
    ASSUME WorkerTypeOK
    PROVE  Batches \subseteq AnyBatch
  BY DEF WorkerTypeOK, Batches, Sealed, AnyBatch

(* Cancelling the waiters of some digests leaves all others as they are.   *)
LEMMA CancelledType ==
    ASSUME WorkerTypeOK, NEW n \in Honest, NEW D
    PROVE  /\ Cancelled(n, D) \subseteq [id : Nat, digest : AnyBatch, cancelled : BOOLEAN]
           /\ \A w \in waiting[n] : w.digest \notin D => w \in Cancelled(n, D)
<1>. DEFINE W == [id : Nat, digest : AnyBatch, cancelled : BOOLEAN]
            x(w) == [w EXCEPT !.cancelled = @ \/ w.digest \in D]
<1>1. ASSUME NEW w \in waiting[n] PROVE x(w) \in W /\ (w.digest \notin D => x(w) = w)
  <2>1. w \in W
    BY DEF WorkerTypeOK
  <2>2. (w.cancelled \/ w.digest \in D) \in BOOLEAN
    OBVIOUS
  <2>3. x(w) = [id |-> w.id, digest |-> w.digest,
                cancelled |-> w.cancelled \/ w.digest \in D]
    BY <2>1
  <2>. QED
    BY <2>1, <2>2, <2>3
<1>2. Cancelled(n, D) = {x(w) : w \in waiting[n]}
  BY DEF Cancelled
<1>. HIDE DEF W, x
<1>3. Cancelled(n, D) \subseteq W /\ \A w \in waiting[n] : w.digest \notin D => w \in Cancelled(n, D)
  BY <1>1, <1>2
<1>. QED
  BY <1>3 DEF W

(* Every step keeps the types.                                             *)
LEMMA WorkerTypeStep ==
    ASSUME WorkerTypeOK, [WorkerNext]_worker_vars
    PROVE  WorkerTypeOK'
<1>. USE DEF making, outgoing, storing, syncing
<1>0. Maker \subseteq Honest /\ Syncer \subseteq Honest /\ Honest \subseteq Authority
  BY WorkerAssumption DEF Honest
<1>1. ASSUME NEW n \in Maker, ReceiveTransaction(n) PROVE WorkerTypeOK'
  <2>. DEFINE t == taken[n] + 1
              ts == Append(current_batch[n], t)
  <2>1. n \in Honest /\ t \in Nat /\ t <= MaxTransactions /\ t > 0
    BY <1>0, <1>1, WorkerAssumption DEF ReceiveTransaction, WorkerTypeOK
  <2>2. ts \in Seq(Nat) /\ size[t] \in Nat
    BY <2>1, WorkerAssumption DEF WorkerTypeOK
  <2>3. /\ taken' = [taken EXCEPT ![n] = t]
        /\ \/ seal(n, ts)
           \/ /\ current_batch' = [current_batch EXCEPT ![n] = ts]
              /\ current_batch_size' = [current_batch_size EXCEPT ![n] = @ + size[t]]
              /\ UNCHANGED <<rx_quorum_waiter, in_flight>>
        /\ UNCHANGED <<acked, storing, syncing>>
    BY <1>1 DEF ReceiveTransaction
  <2>. HIDE DEF t, ts
  <2>4. MakingOK'
    <3>1. taken' \in [Honest -> Nat]
      BY <2>1, <2>3 DEF WorkerTypeOK
    <3>2. CASE seal(n, ts)
      BY <2>1, <2>2, <3>1, <3>2, SealType DEF MakingOK
    <3>3. CASE /\ current_batch' = [current_batch EXCEPT ![n] = ts]
               /\ current_batch_size' = [current_batch_size EXCEPT ![n] = @ + size[t]]
               /\ UNCHANGED <<rx_quorum_waiter, in_flight>>
      <4>1. current_batch_size[n] + size[t] \in Nat
        BY <2>1, <2>2 DEF WorkerTypeOK
      <4>. QED
        BY <2>1, <2>2, <3>1, <3>3, <4>1 DEF MakingOK, WorkerTypeOK
    <3>. QED
      BY <2>3, <3>2, <3>3
  <2>. QED
    BY <2>3, <2>4 DEF WorkerTypeOK, MakingOK
<1>2. ASSUME NEW n \in Honest, BatchTimer(n) PROVE WorkerTypeOK'
  <2>1. current_batch[n] \in Seq(Nat)
    BY DEF WorkerTypeOK
  <2>. QED
    BY <1>2, <2>1, SealType DEF BatchTimer, WorkerTypeOK
<1>3. ASSUME NEW n \in Honest, QuorumReached(n) PROVE WorkerTypeOK'
  <2>1. Head(rx_quorum_waiter[n]) \in Batch /\ Tail(rx_quorum_waiter[n]) \in Seq(Batch)
    BY <1>3, HeadAndTail DEF QuorumReached, WorkerTypeOK
  <2>2. Append(rx_own[n], Head(rx_quorum_waiter[n])) \in Seq(Batch)
    BY <2>1 DEF WorkerTypeOK
  <2>. QED
    BY <1>3, <2>1, <2>2 DEF QuorumReached, WorkerTypeOK
<1>4. ASSUME NEW n \in Honest, ProcessOwn(n) PROVE WorkerTypeOK'
  <2>1. Head(rx_own[n]) \in Batch /\ Tail(rx_own[n]) \in Seq(Batch)
    BY <1>4, HeadAndTail DEF ProcessOwn, WorkerTypeOK
  <2>2. Append(digests[n], Head(rx_own[n])) \in Seq(Batch)
    BY <2>1 DEF WorkerTypeOK
  <2>3. Head(rx_own[n]) \in AnyBatch
    BY <2>1 DEF AnyBatch
  <2>. QED
    BY <1>4, <2>1, <2>2, <2>3 DEF ProcessOwn, WorkerTypeOK
<1>5. ASSUME NEW m \in in_flight, Acknowledge(m[1], m[2]) PROVE WorkerTypeOK'
  BY <1>5 DEF Acknowledge, WorkerTypeOK
<1>6. ASSUME NEW m \in in_flight, m[2] \in Honest, ReceiveBatch(m[1], m[2])
      PROVE  WorkerTypeOK'
  <2>1. m[1] \in AnyBatch
    BY DEF WorkerTypeOK, AnyBatch
  <2>. QED
    BY <1>6, <2>1 DEF ReceiveBatch, WorkerTypeOK
<1>7. ASSUME NEW n \in Honest, NEW b \in ByzantineBatch, ByzantineSends(b, n)
      PROVE  WorkerTypeOK'
  BY <1>7 DEF ByzantineSends, WorkerTypeOK, AnyBatch
<1>8. ASSUME NEW n \in Honest, NEW b \in rx_others[n], ProcessOthers(n, b)
      PROVE  WorkerTypeOK'
  BY <1>8 DEF ProcessOthers, WorkerTypeOK
<1>9. ASSUME NEW n \in Syncer, NEW D \in SUBSET Batches, NEW p \in Authority,
             Synchronize(n, D, p)
      PROVE  WorkerTypeOK'
  <2>. DEFINE new == D \ PendingDigests(n)
              id == started[n] + 1
              P == {[digest |-> b, round |-> round[n]] : b \in new}
              W == {[id |-> id, digest |-> b, cancelled |-> FALSE] : b \in new}
  <2>1. n \in Honest /\ new \in SUBSET AnyBatch /\ id \in Nat /\ round[n] \in Nat
    BY <1>0, BatchesType DEF WorkerTypeOK
  <2>2. /\ P \subseteq [digest : AnyBatch, round : Nat]
        /\ W \subseteq [id : Nat, digest : AnyBatch, cancelled : BOOLEAN]
    <3>. HIDE DEF new, id
    <3>1. ASSUME NEW b \in new
          PROVE  /\ [digest |-> b, round |-> round[n]] \in [digest : AnyBatch, round : Nat]
                 /\ [id |-> id, digest |-> b, cancelled |-> FALSE]
                       \in [id : Nat, digest : AnyBatch, cancelled : BOOLEAN]
      BY <2>1
    <3>. QED
      BY <3>1
  <2>3. /\ started' = [started EXCEPT ![n] = id]
        /\ pending' = [pending EXCEPT ![n] = @ \cup P]
        /\ waiting' = [waiting EXCEPT ![n] = @ \cup W]
        /\ requests' = requests \cup {<<p, n, new \ store[n]>>}
        /\ UNCHANGED <<making, outgoing, storing, round>>
    BY <1>9 DEF Synchronize
  <2>. HIDE DEF new, id, P, W
  <2>4. <<p, n, new \ store[n]>> \in Authority \X Honest \X SUBSET AnyBatch
    BY <2>1
  <2>5. /\ pending' \in [Honest -> SUBSET [digest : AnyBatch, round : Nat]]
        /\ waiting' \in [Honest -> SUBSET [id : Nat, digest : AnyBatch, cancelled : BOOLEAN]]
    <3>. DEFINE PT == [digest : AnyBatch, round : Nat]
                WT == [id : Nat, digest : AnyBatch, cancelled : BOOLEAN]
    <3>1. pending \in [Honest -> SUBSET PT] /\ waiting \in [Honest -> SUBSET WT]
      BY DEF WorkerTypeOK
    <3>2. P \subseteq PT /\ W \subseteq WT
      BY <2>2
    <3>. HIDE DEF PT, WT
    <3>3. pending' \in [Honest -> SUBSET PT] /\ waiting' \in [Honest -> SUBSET WT]
      BY <2>1, <2>3, <3>1, <3>2
    <3>. QED
      BY <3>3 DEF PT, WT
  <2>6. started' \in [Honest -> Nat] /\ requests' \subseteq Authority \X Honest \X SUBSET AnyBatch
    BY <2>1, <2>3, <2>4 DEF WorkerTypeOK
  <2>. QED
    BY <2>3, <2>5, <2>6 DEF WorkerTypeOK
<1>10. ASSUME NEW n \in Syncer, NEW r \in round[n] .. MaxRound, Cleanup(n, r)
       PROVE  WorkerTypeOK'
  <2>1. r \in Nat /\ n \in Honest
    BY <1>0, WorkerAssumption DEF WorkerTypeOK
  <2>. QED
    BY <1>10, <2>1, CancelledType DEF Cleanup, WorkerTypeOK
<1>11. ASSUME NEW n \in Syncer, NEW w \in waiting[n], WaiterDelivers(n, w)
       PROVE  WorkerTypeOK'
  BY <1>0, <1>11, CancelledType DEF WaiterDelivers, WorkerTypeOK
<1>12. ASSUME NEW n \in Syncer, NEW w \in waiting[n], WaiterCancelled(n, w)
       PROVE  WorkerTypeOK'
  BY <1>0, <1>12 DEF WaiterCancelled, WorkerTypeOK
<1>13. ASSUME NEW n \in Syncer, NEW D \in SUBSET PendingDigests(n),
              NEW p \in Authority, RetryTimer(n, D, p)
       PROVE  WorkerTypeOK'
  <2>1. D \in SUBSET AnyBatch
    <3>1. \A e \in pending[n] : e.digest \in AnyBatch
      BY <1>0 DEF WorkerTypeOK
    <3>. QED
      BY <3>1 DEF PendingDigests
  <2>2. <<p, n, D>> \in Authority \X Honest \X SUBSET AnyBatch
    BY <1>0, <2>1
  <2>. QED
    BY <1>13, <2>2 DEF RetryTimer, WorkerTypeOK
<1>14. ASSUME NEW m \in requests, NEW R \in SUBSET m[3], HelperReplies(m, R)
       PROVE  WorkerTypeOK'
  <2>1. m[2] \in Honest /\ R \in SUBSET AnyBatch
    BY DEF WorkerTypeOK
  <2>. QED
    BY <1>14, <2>1 DEF HelperReplies, WorkerTypeOK
<1>15. CASE UNCHANGED worker_vars
  BY <1>15 DEF worker_vars, WorkerTypeOK
<1>. QED
  BY <1>1, <1>2, <1>3, <1>4, <1>5, <1>6, <1>7, <1>8, <1>9, <1>10, <1>11, <1>12,
     <1>13, <1>14, <1>15 DEF WorkerNext

(* They hold when the workers start.                                       *)
LEMMA WorkerTypeInit == WorkerInit => WorkerTypeOK
  BY DEF WorkerInit, WorkerTypeOK

(* The state of the workers keeps its types, whatever the others do.       *)
THEOREM WorkerTypeCorrect == WorkerSpec => []WorkerTypeOK
<1>1. WorkerInit => WorkerTypeOK
  BY WorkerTypeInit
<1>2. WorkerTypeOK /\ [WorkerNext]_worker_vars => WorkerTypeOK'
  BY WorkerTypeStep
<1>. QED
  BY <1>1, <1>2, PTL DEF WorkerSpec

-----------------------------------------------------------------------------
(* The batches that a quorum has acknowledged to n, n included.            *)
Certified(n) == {b \in Batch : HasQuorum(Acknowledged(n, b))}

(* An honest worker acknowledges what it stores or is about to store.      *)
AcksHeld == \A m \in acked : m[2] \in Honest => m[2] \in Holders(m[1])

(* The QuorumWaiter hands on only acknowledged batches, and the Processor  *)
(* stores each before its digest leaves.                                   *)
QuorumFirst ==
    \A n \in Honest :
       /\ rx_own[n] \in Seq(Certified(n))
       /\ digests[n] \in Seq(Certified(n) \cap store[n])

(* The inductive invariant behind BatchAvailable.                          *)
BatchInv == AcksHeld /\ QuorumFirst

(* What every step does to the part of the state BatchInv is about:        *)
(* acknowledgements and holdings grow, new acknowledgements of honest      *)
(* workers are for what they hold, and what is handed on is acknowledged.  *)
BatchStep ==
    /\ acked \subseteq acked'
    /\ \A m \in acked' \ acked :
          m[2] \in Honest => m[1] \in store[m[2]] \cup rx_others[m[2]]
    /\ \A p \in Honest :
          /\ store[p] \subseteq store'[p]
          /\ store[p] \cup rx_others[p] \subseteq store'[p] \cup rx_others'[p]
    /\ \A n \in Honest :
          /\ rx_own'[n] \in Seq(Certified(n))
          /\ digests'[n] \in Seq(Certified(n) \cap store'[n])

(* Those who acknowledge are authorities.                                  *)
LEMMA AcknowledgedType ==
    ASSUME NEW n \in Honest, NEW b
    PROVE  Acknowledged(n, b) \in SUBSET Authority
  BY DEF Acknowledged, Honest

(* A sequence over A is one over a larger set.                             *)
LEMMA SeqGrows ==
    ASSUME NEW A, NEW B, A \subseteq B, NEW s \in Seq(A)
    PROVE  s \in Seq(B)
  OBVIOUS

(* More acknowledgements keep a quorum a quorum.                           *)
LEMMA CertifiedGrows ==
    ASSUME NEW n \in Honest, acked \subseteq acked'
    PROVE  Certified(n) \subseteq Certified(n)'
<1>. SUFFICES ASSUME NEW b \in Batch, HasQuorum(Acknowledged(n, b))
              PROVE  HasQuorum(Acknowledged(n, b)')
  BY DEF Certified
<1>1. /\ Acknowledged(n, b) \subseteq Acknowledged(n, b)'
      /\ Acknowledged(n, b)' \in SUBSET Authority
  BY DEF Acknowledged, Honest
<1>2. /\ Weight[Acknowledged(n, b)] <= Weight[Acknowledged(n, b)']
      /\ Weight[Acknowledged(n, b)] \in Nat /\ Weight[Acknowledged(n, b)'] \in Nat
  BY <1>1, AcknowledgedType, WeightMonotone
<1>. QED
  BY <1>2, Thresholds DEF HasQuorum

(* Steps of that kind preserve the invariant.                              *)
LEMMA BatchPreserved ==
    ASSUME BatchInv, BatchStep
    PROVE  BatchInv'
<1>1. AcksHeld'
  BY DEF BatchInv, BatchStep, AcksHeld, Holders
<1>2. QuorumFirst'
  <2>1. ASSUME NEW n \in Honest
        PROVE  /\ rx_own'[n] \in Seq(Certified(n)')
               /\ digests'[n] \in Seq(Certified(n)' \cap store'[n])
    <3>1. Certified(n) \subseteq Certified(n)'
      BY CertifiedGrows DEF BatchStep
    <3>2. Certified(n) \cap store'[n] \subseteq Certified(n)' \cap store'[n]
      BY <3>1
    <3>. QED
      BY <3>1, <3>2, SeqGrows DEF BatchStep
  <2>. QED
    BY <2>1 DEF QuorumFirst
<1>. QED
  BY <1>1, <1>2 DEF BatchInv

(* So does a step that only lets batches arrive.                           *)
LEMMA BatchIdle ==
    ASSUME BatchInv, UNCHANGED <<acked, store, rx_own, digests>>,
           \A p \in Honest : rx_others[p] \subseteq rx_others'[p]
    PROVE  BatchStep
  BY DEF BatchStep, BatchInv, QuorumFirst

(* Every step of the workers is one of that kind.                          *)
LEMMA BatchNext ==
    ASSUME WorkerTypeOK, BatchInv, [WorkerNext]_worker_vars
    PROVE  BatchStep
<1>. USE DEF making, outgoing, storing, syncing
<1>1. ASSUME NEW n \in Maker, ReceiveTransaction(n) PROVE BatchStep
  BY <1>1, BatchIdle DEF ReceiveTransaction
<1>2. ASSUME NEW n \in Honest, BatchTimer(n) PROVE BatchStep
  BY <1>2, BatchIdle DEF BatchTimer
<1>3. ASSUME NEW n \in Honest, QuorumReached(n) PROVE BatchStep
  <2>. DEFINE b == Head(rx_quorum_waiter[n])
  <2>1. b \in Batch
    BY <1>3, HeadAndTail DEF QuorumReached, WorkerTypeOK
  <2>2. /\ HasQuorum(Acknowledged(n, b))
        /\ rx_own' = [rx_own EXCEPT ![n] = Append(@, b)]
        /\ UNCHANGED <<acked, rx_others, store, digests>>
    BY <1>3 DEF QuorumReached
  <2>3. b \in Certified(n)
    BY <2>1, <2>2 DEF Certified
  <2>. HIDE DEF b
  <2>4. /\ rx_own'[n] = Append(rx_own[n], b)
        /\ \A m \in Honest \ {n} : rx_own'[m] = rx_own[m]
    BY <2>2 DEF WorkerTypeOK
  <2>5. rx_own[n] \in Seq(Certified(n))
    BY DEF BatchInv, QuorumFirst
  <2>6. Append(rx_own[n], b) \in Seq(Certified(n))
    BY <2>3, <2>5
  <2>. QED
    BY <2>2, <2>4, <2>6 DEF BatchStep, BatchInv, QuorumFirst
<1>4. ASSUME NEW n \in Honest, ProcessOwn(n) PROVE BatchStep
  <2>. DEFINE b == Head(rx_own[n])
  <2>1. rx_own[n] \in Seq(Certified(n)) /\ digests[n] \in Seq(Certified(n) \cap store[n])
    BY DEF BatchInv, QuorumFirst
  <2>2. b \in Certified(n) /\ Tail(rx_own[n]) \in Seq(Certified(n))
    BY <1>4, <2>1, HeadAndTail DEF ProcessOwn
  <2>3. /\ store' = [store EXCEPT ![n] = @ \cup {b}]
        /\ digests' = [digests EXCEPT ![n] = Append(@, b)]
        /\ rx_own' = [rx_own EXCEPT ![n] = Tail(@)]
        /\ UNCHANGED <<acked, rx_others>>
    BY <1>4 DEF ProcessOwn
  <2>. HIDE DEF b
  <2>4. /\ store'[n] = store[n] \cup {b} /\ digests'[n] = Append(digests[n], b)
        /\ rx_own'[n] = Tail(rx_own[n])
        /\ \A m \in Honest \ {n} : /\ store'[m] = store[m] /\ digests'[m] = digests[m]
                                   /\ rx_own'[m] = rx_own[m]
    BY <2>3 DEF WorkerTypeOK
  <2>5. digests'[n] \in Seq(Certified(n) \cap store'[n])
    <3>1. Certified(n) \cap store[n] \subseteq Certified(n) \cap store'[n]
      BY <2>4
    <3>2. digests[n] \in Seq(Certified(n) \cap store'[n])
      BY <2>1, <3>1, SeqGrows
    <3>3. b \in Certified(n) \cap store'[n]
      BY <2>2, <2>4
    <3>. QED
      BY <2>4, <3>2, <3>3
  <2>. QED
    BY <2>2, <2>3, <2>4, <2>5 DEF BatchStep, BatchInv, QuorumFirst
<1>5. ASSUME NEW m \in in_flight, Acknowledge(m[1], m[2]) PROVE BatchStep
  <2>1. /\ m[2] \in Honest => m[1] \in rx_others[m[2]] \cup store[m[2]]
        /\ acked' = acked \cup {<<m[1], m[2]>>}
        /\ UNCHANGED <<rx_own, rx_others, store, digests>>
    BY <1>5 DEF Acknowledge
  <2>2. \A k \in acked' \ acked : k[1] = m[1] /\ k[2] = m[2]
    BY <2>1
  <2>. QED
    BY <2>1, <2>2 DEF BatchStep, BatchInv, QuorumFirst
<1>6. ASSUME NEW m \in in_flight, m[2] \in Honest, ReceiveBatch(m[1], m[2])
      PROVE  BatchStep
  BY <1>6, BatchIdle DEF ReceiveBatch, WorkerTypeOK
<1>7. ASSUME NEW n \in Honest, NEW b \in ByzantineBatch, ByzantineSends(b, n)
      PROVE  BatchStep
  BY <1>7, BatchIdle DEF ByzantineSends, WorkerTypeOK
<1>8. ASSUME NEW n \in Honest, NEW b \in rx_others[n], ProcessOthers(n, b)
      PROVE  BatchStep
  <2>1. /\ UNCHANGED <<acked, rx_own, digests>>
        /\ store'[n] = store[n] \cup {b} /\ rx_others'[n] = rx_others[n] \ {b}
        /\ \A m \in Honest \ {n} : store'[m] = store[m] /\ rx_others'[m] = rx_others[m]
    BY <1>8 DEF ProcessOthers, WorkerTypeOK
  <2>2. \A p \in Honest : digests[p] \in Seq(Certified(p) \cap store'[p])
    <3>1. ASSUME NEW p \in Honest
          PROVE  digests[p] \in Seq(Certified(p) \cap store'[p])
      <4>1. Certified(p) \cap store[p] \subseteq Certified(p) \cap store'[p]
        BY <2>1
      <4>. QED
        BY <4>1, SeqGrows DEF BatchInv, QuorumFirst
    <3>. QED
      BY <3>1
  <2>. QED
    BY <2>1, <2>2 DEF BatchStep, BatchInv, QuorumFirst
<1>9. ASSUME NEW n \in Syncer, NEW D, NEW p, Synchronize(n, D, p) PROVE BatchStep
  BY <1>9, BatchIdle DEF Synchronize
<1>10. ASSUME NEW n \in Syncer, NEW r, Cleanup(n, r) PROVE BatchStep
  BY <1>10, BatchIdle DEF Cleanup
<1>11. ASSUME NEW n \in Syncer, NEW w, WaiterDelivers(n, w) PROVE BatchStep
  BY <1>11, BatchIdle DEF WaiterDelivers
<1>12. ASSUME NEW n \in Syncer, NEW w, WaiterCancelled(n, w) PROVE BatchStep
  BY <1>12, BatchIdle DEF WaiterCancelled
<1>13. ASSUME NEW n \in Syncer, NEW D, NEW p, RetryTimer(n, D, p) PROVE BatchStep
  BY <1>13, BatchIdle DEF RetryTimer
<1>14. ASSUME NEW m \in requests, NEW R, HelperReplies(m, R) PROVE BatchStep
  BY <1>14, BatchIdle DEF HelperReplies, WorkerTypeOK
<1>15. CASE UNCHANGED worker_vars
  BY <1>15, BatchIdle DEF worker_vars
<1>. QED
  BY <1>1, <1>2, <1>3, <1>4, <1>5, <1>6, <1>7, <1>8, <1>9, <1>10, <1>11, <1>12,
     <1>13, <1>14, <1>15 DEF WorkerNext

(* A batch whose digest the primary gets from its own worker is held by f  *)
(* + 1 honest stake: a quorum has acknowledged it, the honest part of a    *)
(* quorum has f + 1 stake, and QuorumWaiter and Processor pass on nothing  *)
(* earlier.                                                                *)
THEOREM BatchAvailability == WorkerSpec => []BatchAvailable
<1>1. WorkerInit => BatchInv
  BY DEF WorkerInit, BatchInv, AcksHeld, QuorumFirst
<1>2. WorkerTypeOK /\ BatchInv /\ [WorkerNext]_worker_vars => BatchInv'
  BY BatchNext, BatchPreserved
<1>3. WorkerTypeOK /\ BatchInv => BatchAvailable
  <2>. SUFFICES ASSUME BatchInv, NEW n \in Honest, NEW i \in DOMAIN digests[n]
                PROVE  HasValidity(Holders(digests[n][i]))
    BY DEF BatchAvailable
  <2>. DEFINE b == digests[n][i]
              S == Acknowledged(n, b) \cap Honest
  <2>1. digests[n] \in Seq(Certified(n) \cap store[n])
    BY DEF BatchInv, QuorumFirst
  <2>2. b \in Certified(n) /\ b \in store[n]
    BY <2>1
  <2>. HIDE DEF b
  <2>3. Acknowledged(n, b) \in SUBSET Authority /\ HasQuorum(Acknowledged(n, b))
    BY <2>2, AcknowledgedType DEF Certified
  <2>4. HasValidity(S)
    BY <2>3, QuorumHasHonestValidity
  <2>5. S \subseteq Holders(b)
    <3>1. ASSUME NEW p \in Honest, <<b, p>> \in acked PROVE p \in Holders(b)
      BY <3>1 DEF BatchInv, AcksHeld
    <3>. QED
      BY <2>2, <3>1 DEF Acknowledged, Holders
  <2>6. S \in SUBSET Authority /\ Holders(b) \in SUBSET Authority
    BY DEF Honest, Holders
  <2>7. /\ Weight[S] <= Weight[Holders(b)]
        /\ Weight[S] \in Nat /\ Weight[Holders(b)] \in Nat
    <3>. HIDE DEF S
    <3>. QED
      BY <2>5, <2>6, WeightMonotone
  <2>8. HasValidity(Holders(b))
    <3>. HIDE DEF S
    <3>. QED
      BY <2>4, <2>7, Thresholds DEF HasValidity
  <2>. QED
    BY <2>8 DEF b
<1>. QED
  BY <1>1, <1>2, <1>3, WorkerTypeCorrect, PTL DEF WorkerSpec

-----------------------------------------------------------------------------
(* No digest is pending twice: Synchronize skips those that are.           *)
PendingOnce ==
    \A n \in Syncer : \A e, f \in pending[n] : e.digest = f.digest => e = f

(* A pending digest has a waiter that was not cancelled.                   *)
PendingLive ==
    \A n \in Syncer : \A e \in pending[n] :
       \E w \in waiting[n] : w.digest = e.digest /\ ~w.cancelled

(* The inductive invariant behind PendingIsWaitedFor.                      *)
PendingInv == PendingOnce /\ PendingLive

(* Steps that touch neither pending digests nor waiters.                   *)
LEMMA PendingIdle ==
    ASSUME PendingInv, UNCHANGED <<pending, waiting>>
    PROVE  PendingInv'
  BY DEF PendingInv, PendingOnce, PendingLive

(* Steps that change them for one worker.                                  *)
LEMMA PendingAt ==
    ASSUME WorkerTypeOK, PendingInv, NEW n \in Syncer, NEW P, NEW W,
           pending' = [pending EXCEPT ![n] = P],
           waiting' = [waiting EXCEPT ![n] = W],
           \A e, f \in P : e.digest = f.digest => e = f,
           \A e \in P : \E w \in W : w.digest = e.digest /\ ~w.cancelled
    PROVE  PendingInv'
<1>1. /\ pending'[n] = P /\ waiting'[n] = W
      /\ \A m \in Syncer \ {n} : pending'[m] = pending[m] /\ waiting'[m] = waiting[m]
  BY WorkerAssumption DEF WorkerTypeOK
<1>. QED
  BY <1>1 DEF PendingInv, PendingOnce, PendingLive

(* Every step preserves PendingInv.                                        *)
LEMMA PendingStep ==
    ASSUME WorkerTypeOK, PendingInv, [WorkerNext]_worker_vars
    PROVE  PendingInv'
<1>. USE DEF making, outgoing, storing, syncing
<1>0. Syncer \subseteq Honest
  BY WorkerAssumption
<1>1. CASE UNCHANGED <<pending, waiting>>
  BY <1>1, PendingIdle
<1>2. ASSUME NEW n \in Syncer, NEW D, NEW p, Synchronize(n, D, p) PROVE PendingInv'
  <2>. DEFINE new == D \ PendingDigests(n)
              id == started[n] + 1
              P == {[digest |-> b, round |-> round[n]] : b \in new}
              W == {[id |-> id, digest |-> b, cancelled |-> FALSE] : b \in new}
  <2>1. /\ pending' = [pending EXCEPT ![n] = @ \cup P]
        /\ waiting' = [waiting EXCEPT ![n] = @ \cup W]
    BY <1>2 DEF Synchronize
  <2>2. \A e \in P : e.digest \in new /\ e = [digest |-> e.digest, round |-> round[n]]
    OBVIOUS
  <2>3. \A e \in pending[n] : e.digest \notin new
    BY DEF PendingDigests
  <2>4. \A b \in new : \E w \in W : w.digest = b /\ ~w.cancelled
    <3>1. ASSUME NEW b \in new PROVE \E w \in W : w.digest = b /\ ~w.cancelled
      <4>1. [id |-> id, digest |-> b, cancelled |-> FALSE] \in W
        OBVIOUS
      <4>. QED
        BY <4>1
    <3>. QED
      BY <3>1
  <2>. HIDE DEF new, P, W
  <2>5. \A e, f \in pending[n] \cup P : e.digest = f.digest => e = f
    BY <2>2, <2>3 DEF PendingInv, PendingOnce
  <2>6. \A e \in pending[n] \cup P : \E w \in waiting[n] \cup W :
           w.digest = e.digest /\ ~w.cancelled
    BY <2>2, <2>4 DEF PendingInv, PendingLive
  <2>. QED
    BY <2>1, <2>5, <2>6, PendingAt
<1>3. ASSUME NEW n \in Syncer, NEW r, Cleanup(n, r) PROVE PendingInv'
  <2>. DEFINE old == IF r < gc_depth THEN {}
                     ELSE {e \in pending[n] : e.round <= r - gc_depth}
              D == {e.digest : e \in old}
              P == pending[n] \ old
              W == Cancelled(n, D)
  <2>1. /\ pending' = [pending EXCEPT ![n] = P]
        /\ waiting' = [waiting EXCEPT ![n] = W]
    BY <1>3 DEF Cleanup
  <2>2. old \subseteq pending[n]
    OBVIOUS
  <2>. HIDE DEF old
  <2>3. \A e \in P : e.digest \notin D
    BY <2>2 DEF PendingInv, PendingOnce
  <2>4. \A w \in waiting[n] : w.digest \notin D => w \in W
    BY <1>0, CancelledType
  <2>. HIDE DEF D, W
  <2>5. \A e, f \in P : e.digest = f.digest => e = f
    BY DEF PendingInv, PendingOnce
  <2>6. \A e \in P : \E w \in W : w.digest = e.digest /\ ~w.cancelled
    BY <2>3, <2>4 DEF PendingInv, PendingLive
  <2>. QED
    BY <2>1, <2>5, <2>6, PendingAt
<1>4. ASSUME NEW n \in Syncer, NEW w \in waiting[n], WaiterDelivers(n, w)
      PROVE  PendingInv'
  <2>. DEFINE P == {e \in pending[n] : e.digest # w.digest}
              W == {x \in Cancelled(n, {w.digest}) : <<x.id, x.digest>> # <<w.id, w.digest>>}
  <2>1. /\ pending' = [pending EXCEPT ![n] = P]
        /\ waiting' = [waiting EXCEPT ![n] = W]
    BY <1>4 DEF WaiterDelivers
  <2>2. \A x \in waiting[n] : x.digest # w.digest => x \in W
    <3>1. \A x \in waiting[n] : x.digest # w.digest => x \in Cancelled(n, {w.digest})
      BY <1>0, CancelledType
    <3>. QED
      BY <3>1
  <2>. HIDE DEF W
  <2>3. \A e, f \in P : e.digest = f.digest => e = f
    BY DEF PendingInv, PendingOnce
  <2>4. \A e \in P : \E x \in W : x.digest = e.digest /\ ~x.cancelled
    BY <2>2 DEF PendingInv, PendingLive
  <2>. QED
    BY <2>1, <2>3, <2>4, PendingAt
<1>5. ASSUME NEW n \in Syncer, NEW w \in waiting[n], WaiterCancelled(n, w)
      PROVE  PendingInv'
  <2>1. /\ w.cancelled /\ pending' = pending
        /\ waiting'[n] = waiting[n] \ {w}
        /\ \A m \in Syncer \ {n} : waiting'[m] = waiting[m]
    BY <1>0, <1>5 DEF WaiterCancelled, WorkerTypeOK
  <2>. QED
    BY <2>1 DEF PendingInv, PendingOnce, PendingLive
<1>6. ASSUME NEW n \in Honest, \/ n \in Maker /\ ReceiveTransaction(n)
                               \/ BatchTimer(n) \/ QuorumReached(n) \/ ProcessOwn(n)
                               \/ \E b \in ByzantineBatch : ByzantineSends(b, n)
                               \/ \E b \in rx_others[n] : ProcessOthers(n, b)
      PROVE  PendingInv'
  BY <1>1, <1>6 DEF ReceiveTransaction, BatchTimer, QuorumReached, ProcessOwn,
                    ByzantineSends, ProcessOthers
<1>7. ASSUME NEW m, Acknowledge(m[1], m[2]) \/ ReceiveBatch(m[1], m[2])
      PROVE  PendingInv'
  BY <1>1, <1>7 DEF Acknowledge, ReceiveBatch
<1>8. ASSUME NEW n, NEW D, NEW p, RetryTimer(n, D, p) PROVE PendingInv'
  BY <1>1, <1>8 DEF RetryTimer
<1>9. ASSUME NEW m, NEW R, HelperReplies(m, R) PROVE PendingInv'
  BY <1>1, <1>9 DEF HelperReplies
<1>10. CASE UNCHANGED worker_vars
  BY <1>1, <1>10 DEF worker_vars
<1>11. Maker \subseteq Honest
  BY WorkerAssumption
<1>. QED
  BY <1>2, <1>3, <1>4, <1>5, <1>6, <1>7, <1>8, <1>9, <1>10, <1>11 DEF WorkerNext

(* A pending digest has a waiter that will remove it: cleaning up cancels  *)
(* the waiters of exactly those digests it removes, and a waiter that was  *)
(* cancelled earlier removes nothing when it completes.                    *)
THEOREM PendingWaitedForHolds == WorkerSpec => []PendingIsWaitedFor
<1>1. WorkerInit => PendingInv
  BY WorkerAssumption DEF WorkerInit, PendingInv, PendingOnce, PendingLive
<1>2. WorkerTypeOK /\ PendingInv /\ [WorkerNext]_worker_vars => PendingInv'
  BY PendingStep
<1>3. PendingInv => PendingIsWaitedFor
  BY DEF PendingInv, PendingLive, PendingIsWaitedFor
<1>. QED
  BY <1>1, <1>2, <1>3, WorkerTypeCorrect, PTL DEF WorkerSpec

-----------------------------------------------------------------------------
(* Flattening sequences: FlattenSeq is a recursive function, so its value  *)
(* is followed along an induction on the length.                           *)

(* g is what FlattenSeq computes from s, prefix by prefix.                 *)
FlatBy(g, s) ==
    /\ DOMAIN g = 1 .. Len(s)
    /\ g = [i \in 1 .. Len(s) |-> g[i]]
    /\ \A i \in 1 .. Len(s) : g[i] = IF i = 1 THEN s[i] ELSE g[i - 1] \o s[i]

(* The recursive function of FlattenSeq is that g, by induction on the     *)
(* length of the prefix.                                                   *)
LEMMA FlattenedBy ==
    ASSUME NEW A, NEW s \in Seq(Seq(A)), s # <<>>, NEW g, FlatBy(g, s)
    PROVE  FlattenSeq(s) = g[Len(s)]
<1>. DEFINE Flat(h) == h = [i \in 1 .. Len(s) |-> IF i = 1 THEN s[i] ELSE h[i - 1] \o s[i]]
            f == CHOOSE h : Flat(h)
<1>1. Len(s) \in Nat \ {0}
  OBVIOUS
<1>2. FlattenSeq(s) = f[Len(s)]
  BY <1>1 DEF FlattenSeq
<1>3. Flat(g)
  <2>. DEFINE h == [i \in 1 .. Len(s) |-> IF i = 1 THEN s[i] ELSE g[i - 1] \o s[i]]
  <2>1. \A i \in 1 .. Len(s) : g[i] = h[i]
    BY DEF FlatBy
  <2>. QED
    BY <2>1 DEF FlatBy
<1>4. Flat(f)
  BY <1>3
<1>. HIDE DEF f
<1>5. \A i \in 1 .. Len(s) : f[i] = IF i = 1 THEN s[i] ELSE f[i - 1] \o s[i]
  <2>. DEFINE h == [i \in 1 .. Len(s) |-> IF i = 1 THEN s[i] ELSE f[i - 1] \o s[i]]
  <2>1. f = h
    BY <1>4
  <2>. HIDE DEF Flat
  <2>2. \A i \in 1 .. Len(s) : h[i] = IF i = 1 THEN s[i] ELSE f[i - 1] \o s[i]
    OBVIOUS
  <2>. HIDE DEF h
  <2>. QED
    BY <2>1, <2>2
<1>. DEFINE P == {i \in Nat : i \in 1 .. Len(s) => f[i] = g[i]}
<1>6. ASSUME NEW i \in Nat, i \in 1 .. Len(s) => f[i] = g[i], i + 1 \in 1 .. Len(s)
      PROVE  f[i + 1] = g[i + 1]
  <2>0. /\ \A j \in 1 .. Len(s) : g[j] = IF j = 1 THEN s[j] ELSE g[j - 1] \o s[j]
        /\ \A j \in 1 .. Len(s) : f[j] = IF j = 1 THEN s[j] ELSE f[j - 1] \o s[j]
    BY <1>5 DEF FlatBy
  <2>1. CASE i = 0
    <3>1. i + 1 = 1 /\ 1 \in 1 .. Len(s)
      BY <2>1, <1>6
    <3>2. g[1] = s[1] /\ f[1] = s[1]
      BY <3>1, <2>0
    <3>. QED
      BY <3>1, <3>2
  <2>2. CASE i # 0
    <3>1. i \in 1 .. Len(s) /\ i + 1 # 1 /\ (i + 1) - 1 = i
      BY <2>2, <1>1, <1>6
    <3>2. f[i + 1] = f[i] \o s[i + 1] /\ g[i + 1] = g[i] \o s[i + 1]
      BY <3>1, <2>0, <1>6
    <3>. QED
      BY <3>1, <3>2, <1>6
  <2>. QED
    BY <2>1, <2>2
<1>7. P = Nat
  <2>1. 0 \in P
    OBVIOUS
  <2>2. ASSUME NEW i \in P PROVE i + 1 \in P
    <3>1. i \in Nat /\ i + 1 \in Nat /\ (i \in 1 .. Len(s) => f[i] = g[i])
      OBVIOUS
    <3>. HIDE DEF FlatBy
    <3>2. i + 1 \in 1 .. Len(s) => f[i + 1] = g[i + 1]
      BY <3>1, <1>6
    <3>. QED
      BY <3>1, <3>2
  <2>3. P \in SUBSET Nat
    OBVIOUS
  <2>. HIDE DEF P
  <2>. QED
    BY <2>1, <2>2, <2>3, SetInduction
<1>. QED
  BY <1>1, <1>2, <1>7, SMTT(30)

(* The last value of h, for a sequence with x after s, follows from the    *)
(* last value of g.                                                        *)
Longer(h, g, s, x) == h[Len(s) + 1] = IF s = <<>> THEN x ELSE g[Len(s)] \o x

(* The prefixes of a longer sequence.                                      *)
LEMMA FlatExtends ==
    ASSUME NEW A, NEW s \in Seq(Seq(A)), NEW x \in Seq(A), NEW g, FlatBy(g, s),
           s # <<>> => g[Len(s)] \in Seq(A)
    PROVE  \E h : FlatBy(h, Append(s, x)) /\ Longer(h, g, s, x)
<1>. DEFINE y == IF s = <<>> THEN x ELSE g[Len(s)] \o x
            t == Append(s, x)
            h == [i \in 1 .. Len(t) |-> IF i = Len(s) + 1 THEN y ELSE g[i]]
<1>1. /\ Len(s) \in Nat /\ Len(t) = Len(s) + 1 /\ (s = <<>> <=> Len(s) = 0)
      /\ t[Len(s) + 1] = x
      /\ \A i \in 1 .. Len(s) : t[i] = s[i]
  OBVIOUS
<1>. HIDE DEF t
<1>2. /\ DOMAIN h = 1 .. Len(t)
      /\ \A i \in 1 .. Len(t) : h[i] = IF i = Len(s) + 1 THEN y ELSE g[i]
  OBVIOUS
<1>3. h = [i \in 1 .. Len(t) |-> h[i]]
  OBVIOUS
<1>. HIDE DEF h
<1>0. s # <<>> => y = g[Len(s)] \o x
  OBVIOUS
<1>00. s = <<>> => y = x
  OBVIOUS
<1>. HIDE DEF y
<1>4. ASSUME NEW i \in 1 .. Len(t)
      PROVE  h[i] = IF i = 1 THEN t[i] ELSE h[i - 1] \o t[i]
  <2>1. CASE i = Len(s) + 1
    <3>1. CASE s = <<>>
      BY <2>1, <3>1, <1>1, <1>2, <1>00
    <3>2. CASE s # <<>>
      <4>1. i # 1 /\ i - 1 \in 1 .. Len(t) /\ i - 1 = Len(s)
        BY <2>1, <3>2, <1>1
      <4>2. h[i] = y /\ h[i - 1] = g[Len(s)] /\ t[i] = x
        BY <2>1, <4>1, <1>1, <1>2
      <4>. QED
        BY <4>1, <4>2, <1>0, <3>2
    <3>. QED
      BY <3>1, <3>2
  <2>2. CASE i # Len(s) + 1
    <3>1. i \in 1 .. Len(s) /\ (i # 1 => i - 1 \in 1 .. Len(t) /\ i - 1 # Len(s) + 1)
      BY <2>2, <1>1
    <3>2. h[i] = g[i] /\ t[i] = s[i]
      BY <3>1, <1>1, <1>2
    <3>3. i # 1 => h[i - 1] = g[i - 1]
      BY <3>1, <1>2
    <3>. QED
      BY <3>1, <3>2, <3>3 DEF FlatBy
  <2>. QED
    BY <2>1, <2>2
<1>. QED
  <2>1. FlatBy(h, t)
    BY <1>2, <1>3, <1>4 DEF FlatBy
  <2>2. Len(s) + 1 \in 1 .. Len(t)
    BY <1>1
  <2>3. h[Len(s) + 1] = y
    BY <2>2, <1>2
  <2>4. Longer(h, g, s, x)
    BY <2>3 DEF Longer, y
  <2>. QED
    BY <2>1, <2>4 DEF t

(* Every sequence of sequences can be flattened, by induction on its       *)
(* length.                                                                 *)
LEMMA FlatExists ==
    ASSUME NEW A, NEW s \in Seq(Seq(A))
    PROVE  \E g : FlatBy(g, s) /\ (s # <<>> => g[Len(s)] \in Seq(A))
<1>. DEFINE P == {n \in Nat : \A t \in Seq(Seq(A)) : Len(t) = n =>
                     \E g : FlatBy(g, t) /\ (t # <<>> => g[Len(t)] \in Seq(A))}
<1>1. 0 \in P
  <2>. SUFFICES ASSUME NEW t \in Seq(Seq(A)), Len(t) = 0
                PROVE  \E g : FlatBy(g, t) /\ (t # <<>> => g[Len(t)] \in Seq(A))
    OBVIOUS
  <2>1. t = <<>> /\ DOMAIN t = 1 .. Len(t) /\ t = [i \in 1 .. Len(t) |-> t[i]]
    OBVIOUS
  <2>2. FlatBy(t, t)
    BY <2>1 DEF FlatBy
  <2>. QED
    BY <2>1, <2>2
<1>2. ASSUME NEW n \in P PROVE n + 1 \in P
  <2>. SUFFICES ASSUME NEW t \in Seq(Seq(A)), Len(t) = n + 1
                PROVE  \E g : FlatBy(g, t) /\ (t # <<>> => g[Len(t)] \in Seq(A))
    OBVIOUS
  <2>. DEFINE r == SubSeq(t, 1, n)
              x == t[n + 1]
  <2>1. r \in Seq(Seq(A)) /\ Len(r) = n /\ x \in Seq(A) /\ t = Append(r, x)
    OBVIOUS
  <2>2. PICK g : FlatBy(g, r) /\ (r # <<>> => g[Len(r)] \in Seq(A))
    BY <2>1
  <2>. HIDE DEF r, x
  <2>3. PICK h : FlatBy(h, Append(r, x)) /\ Longer(h, g, r, x)
    BY <2>1, <2>2, FlatExtends
  <2>4. r # <<>> => g[Len(r)] \o x \in Seq(A)
    BY <2>1, <2>2
  <2>. QED
    BY <2>1, <2>3, <2>4 DEF Longer
<1>3. P = Nat
  <2>. HIDE DEF P
  <2>. QED
    BY <1>1, <1>2, SetInduction DEF P
<1>. QED
  BY <1>3

(* Flattening a longer sequence adds its last part at the end.             *)
LEMMA FlattenAppend ==
    ASSUME NEW A, NEW s \in Seq(Seq(A)), NEW x \in Seq(A)
    PROVE  /\ FlattenSeq(s) \in Seq(A)
           /\ FlattenSeq(Append(s, x)) = FlattenSeq(s) \o x
<1>1. PICK g : FlatBy(g, s) /\ (s # <<>> => g[Len(s)] \in Seq(A))
  BY FlatExists
<1>2. PICK h : FlatBy(h, Append(s, x)) /\ Longer(h, g, s, x)
  BY <1>1, FlatExtends
<1>3. /\ Append(s, x) \in Seq(Seq(A)) /\ Append(s, x) # <<>>
      /\ Len(Append(s, x)) = Len(s) + 1
  BY AppendProperties
<1>4. FlattenSeq(Append(s, x)) = h[Len(s) + 1]
  BY <1>2, <1>3, FlattenedBy
<1>5. CASE s = <<>>
  <2>1. FlattenSeq(s) = <<>>
    BY <1>5 DEF FlattenSeq
  <2>. QED
    BY <2>1, <1>2, <1>4, <1>5 DEF Longer
<1>6. CASE s # <<>>
  BY <1>1, <1>2, <1>4, <1>6, FlattenedBy DEF Longer
<1>. QED
  BY <1>5, <1>6

(* A batch more adds its transactions at the end.                          *)
LEMMA TransactionsAppend ==
    ASSUME NEW s \in Seq(Batch), NEW b \in Batch
    PROVE  /\ Transactions(s) \in Seq(Nat)
           /\ Transactions(Append(s, b)) = Transactions(s) \o b.transactions
<1>. DEFINE f == [i \in DOMAIN s |-> s[i].transactions]
            g == [i \in DOMAIN Append(s, b) |-> Append(s, b)[i].transactions]
<1>1. /\ DOMAIN s = 1 .. Len(s) /\ Len(s) \in Nat
      /\ \A i \in 1 .. Len(s) : s[i] \in Batch
      /\ b.transactions \in Seq(Nat)
      /\ \A i \in 1 .. Len(s) : s[i].transactions \in Seq(Nat)
  <2>1. DOMAIN s = 1 .. Len(s) /\ Len(s) \in Nat /\ \A i \in 1 .. Len(s) : s[i] \in Batch
    OBVIOUS
  <2>2. \A c \in Batch : c.transactions \in Seq(Nat)
    BY DEF Batch
  <2>. QED
    BY <2>1, <2>2
<1>2. f \in Seq(Seq(Nat)) /\ Len(f) = Len(s)
  BY <1>1, IsASeq
<1>3. g = Append(f, b.transactions)
  <2>1. /\ DOMAIN Append(s, b) = 1 .. Len(s) + 1
        /\ \A i \in 1 .. Len(s) : Append(s, b)[i] = s[i]
        /\ Append(s, b)[Len(s) + 1] = b
    OBVIOUS
  <2>2. /\ DOMAIN g = 1 .. Len(s) + 1
        /\ \A i \in 1 .. Len(s) : g[i] = f[i]
        /\ g[Len(s) + 1] = b.transactions
    BY <1>1, <2>1
  <2>3. \A i \in DOMAIN g : g[i] \in Seq(Nat)
    BY <1>1, <2>2
  <2>4. g \in [1 .. Len(s) + 1 -> Seq(Nat)]
    BY <2>2, <2>3
  <2>5. g \in Seq(Seq(Nat)) /\ Len(g) = Len(s) + 1
    BY <1>1, <2>4
  <2>. HIDE DEF g, f
  <2>. QED
    BY <1>1, <1>2, <2>2, <2>5
<1>. QED
  BY <1>1, <1>2, <1>3, FlattenAppend DEF Transactions

-----------------------------------------------------------------------------
(* What becomes of the transactions.                                       *)

(* The batches on their way from the BatchMaker of n to its primary.       *)
Own(n) == digests[n] \o rx_own[n] \o rx_quorum_waiter[n]

(* TransactionsKept at worker n.                                           *)
KeptAt(n) == Transactions(Own(n)) \o current_batch[n] = [i \in 1 .. taken[n] |-> i]

(* Initially there are no batches and no transactions.                     *)
LEMMA KeptAtInit == WorkerInit => \A n \in Honest : KeptAt(n)
<1>. SUFFICES ASSUME WorkerInit, NEW n \in Honest PROVE KeptAt(n)
  OBVIOUS
<1>1. digests[n] = <<>> /\ rx_own[n] = <<>> /\ rx_quorum_waiter[n] = <<>>
      /\ current_batch[n] = <<>> /\ taken[n] = 0
  BY DEF WorkerInit
<1>2. Own(n) = <<>>
  BY <1>1 DEF Own
<1>3. Transactions(<<>>) = <<>>
  <2>1. [i \in DOMAIN <<>> |-> <<>>[i].transactions] = <<>>
    OBVIOUS
  <2>. QED
    BY <2>1 DEF Transactions, FlattenSeq
<1>4. [i \in 1 .. taken[n] |-> i] = <<>>
  BY <1>1
<1>5. <<>> \o <<>> = <<>>
  OBVIOUS
<1>. QED
  BY <1>1, <1>2, <1>3, <1>4, <1>5 DEF KeptAt

(* The head of a queue that is appended to the queue before it stays in    *)
(* its place.                                                              *)
LEMMA HeadMoves ==
    ASSUME NEW A, NEW p \in Seq(A), NEW q \in Seq(A), q # <<>>
    PROVE  Append(p, Head(q)) \o Tail(q) = p \o q
<1>1. /\ Head(q) \in A /\ Tail(q) \in Seq(A) /\ Len(q) \in Nat \ {0}
      /\ Len(Tail(q)) = Len(q) - 1
      /\ Head(q) = q[1]
      /\ \A i \in 1 .. Len(Tail(q)) : Tail(q)[i] = q[i + 1]
  BY HeadTailProperties
<1>. DEFINE a == Append(p, Head(q))
<1>2. /\ a \in Seq(A) /\ Len(a) = Len(p) + 1 /\ Len(p) \in Nat
      /\ \A i \in 1 .. Len(p) : a[i] = p[i]
      /\ a[Len(p) + 1] = q[1]
  BY <1>1
<1>. HIDE DEF a
<1>3. /\ a \o Tail(q) \in Seq(A) /\ Len(a \o Tail(q)) = Len(p) + Len(q)
      /\ \A i \in 1 .. Len(p) + Len(q) : (a \o Tail(q))[i] =
             IF i <= Len(p) + 1 THEN a[i] ELSE Tail(q)[i - (Len(p) + 1)]
  <2>1. /\ a \o Tail(q) \in Seq(A) /\ Len(a \o Tail(q)) = Len(a) + Len(Tail(q))
        /\ \A i \in 1 .. Len(a) + Len(Tail(q)) : (a \o Tail(q))[i] =
               IF i <= Len(a) THEN a[i] ELSE Tail(q)[i - Len(a)]
    BY <1>1, <1>2, ConcatProperties
  <2>2. Len(a) = Len(p) + 1 /\ Len(a) + Len(Tail(q)) = Len(p) + Len(q)
    BY <1>1, <1>2
  <2>. QED
    BY <2>1, <2>2
<1>4. /\ p \o q \in Seq(A) /\ Len(p \o q) = Len(p) + Len(q)
      /\ \A i \in 1 .. Len(p) + Len(q) : (p \o q)[i] =
             IF i <= Len(p) THEN p[i] ELSE q[i - Len(p)]
  BY ConcatProperties
<1>5. ASSUME NEW i \in 1 .. Len(p) + Len(q) PROVE (a \o Tail(q))[i] = (p \o q)[i]
  <2>1. CASE i <= Len(p)
    BY <2>1, <1>2, <1>3, <1>4
  <2>2. CASE i = Len(p) + 1
    BY <2>2, <1>1, <1>2, <1>3, <1>4
  <2>3. CASE i > Len(p) + 1
    <3>1. i - (Len(p) + 1) \in 1 .. Len(Tail(q)) /\ ~(i <= Len(p)) /\ ~(i <= Len(p) + 1)
      BY <2>3, <1>1, <1>2
    <3>2. (i - (Len(p) + 1)) + 1 = i - Len(p)
      BY <1>2
    <3>. QED
      BY <3>1, <3>2, <1>1, <1>3, <1>4
  <2>. QED
    BY <1>2, <2>1, <2>2, <2>3
<1>. QED
  BY <1>3, <1>4, <1>5, SeqEqual DEF a

(* What is appended to the second sequence ends the concatenation.         *)
LEMMA ConcatAppend ==
    ASSUME NEW A, NEW p \in Seq(A), NEW q \in Seq(A), NEW x \in A
    PROVE  p \o Append(q, x) = Append(p \o q, x)
<1>1. <<x>> \in Seq(A) /\ p \o q \in Seq(A)
  OBVIOUS
<1>2. Append(q, x) = q \o <<x>> /\ Append(p \o q, x) = (p \o q) \o <<x>>
  BY <1>1, AppendIsConcat
<1>. QED
  BY <1>1, <1>2, ConcatAssociative

(* The head of a queue of batches stays in its place behind others, too.   *)
LEMMA HeadMovesWithin ==
    \A d, r, q \in Seq(Batch) :
       q # <<>> => (d \o Append(r, Head(q))) \o Tail(q) = (d \o r) \o q
<1>. SUFFICES ASSUME NEW d \in Seq(Batch), NEW r \in Seq(Batch), NEW q \in Seq(Batch), q # <<>>
              PROVE  (d \o Append(r, Head(q))) \o Tail(q) = (d \o r) \o q
  OBVIOUS
<1>1. d \o Append(r, Head(q)) = Append(d \o r, Head(q))
  <2>1. Head(q) \in Batch
    BY HeadTailProperties
  <2>. QED
    BY <2>1, ConcatAppend
<1>2. Append(d \o r, Head(q)) \o Tail(q) = (d \o r) \o q
  <2>1. d \o r \in Seq(Batch)
    BY ConcatProperties
  <2>. QED
    BY <2>1, HeadMoves
<1>. QED
  BY <1>1, <1>2, Zenon

(* The types of the channels of worker n.                                  *)
LEMMA OwnType ==
    ASSUME WorkerTypeOK, NEW n \in Honest
    PROVE  /\ digests[n] \in Seq(Batch) /\ rx_own[n] \in Seq(Batch)
           /\ rx_quorum_waiter[n] \in Seq(Batch) /\ Own(n) \in Seq(Batch)
           /\ current_batch[n] \in Seq(Nat) /\ taken[n] \in Nat
<1>1. /\ digests[n] \in Seq(Batch) /\ rx_own[n] \in Seq(Batch)
      /\ rx_quorum_waiter[n] \in Seq(Batch)
      /\ current_batch[n] \in Seq(Nat) /\ taken[n] \in Nat
  BY DEF WorkerTypeOK
<1>2. digests[n] \o rx_own[n] \o rx_quorum_waiter[n] \in Seq(Batch)
  BY <1>1, ConcatProperties
<1>. QED
  BY <1>1, <1>2 DEF Own

(* A worker that neither receives nor passes on anything keeps it.         *)
KeepsOwn(n) ==
    /\ Own(n)' = Own(n)
    /\ current_batch'[n] = current_batch[n]
    /\ taken'[n] = taken[n]

(* A step that touches none of the channels keeps them.                    *)
LEMMA OwnIdle ==
    ASSUME NEW n \in Honest,
           UNCHANGED <<digests, rx_own, rx_quorum_waiter, current_batch, taken>>
    PROVE  KeepsOwn(n)
  BY DEF KeepsOwn, Own

(* A worker that passes on nothing keeps its transactions.                 *)
LEMMA KeptByIdle ==
    ASSUME NEW n \in Honest, KeptAt(n), KeepsOwn(n)
    PROVE  KeptAt(n)'
<1>1. KeptAt(n)' <=> Transactions(Own(n))' \o current_batch'[n] = [i \in 1 .. taken'[n] |-> i]
  BY DEF KeptAt
<1>2. Transactions(Own(n))' = Transactions(Own(n)')
  BY DEF Transactions
<1>3. /\ Own(n)' = Own(n)
      /\ current_batch'[n] = current_batch[n]
      /\ taken'[n] = taken[n]
  BY DEF KeepsOwn
<1>. HIDE DEF Own
<1>. QED
  BY <1>1, <1>2, <1>3 DEF KeptAt

(* A transaction more.                                                     *)
LEMMA CountAppend ==
    ASSUME NEW k \in Nat
    PROVE  Append([i \in 1 .. k |-> i], k + 1) = [i \in 1 .. k + 1 |-> i]
<1>. DEFINE c == [i \in 1 .. k |-> i]
            d == [i \in 1 .. k + 1 |-> i]
<1>1. c \in Seq(Nat) /\ Len(c) = k /\ d \in Seq(Nat) /\ Len(d) = k + 1
  OBVIOUS
<1>2. \A i \in 1 .. k : c[i] = i
  OBVIOUS
<1>3. \A i \in 1 .. k + 1 : d[i] = i
  OBVIOUS
<1>. HIDE DEF c, d
<1>4. /\ Append(c, k + 1) \in Seq(Nat) /\ Len(Append(c, k + 1)) = k + 1
      /\ \A i \in 1 .. k : Append(c, k + 1)[i] = c[i]
      /\ Append(c, k + 1)[k + 1] = k + 1
  BY <1>1
<1>5. \A i \in 1 .. k + 1 : Append(c, k + 1)[i] = d[i]
  BY <1>2, <1>3, <1>4
<1>6. Append(c, k + 1) = d
  BY <1>1, <1>4, <1>5, SeqEqual
<1>. QED
  BY <1>6 DEF c, d

(* The transactions of n once it has received another.                     *)
LEMMA KeptByReceipt ==
    ASSUME WorkerTypeOK, NEW n \in Honest, KeptAt(n)
    PROVE  Transactions(Own(n)) \o Append(current_batch[n], taken[n] + 1)
             = [i \in 1 .. taken[n] + 1 |-> i]
<1>1. taken[n] \in Nat /\ current_batch[n] \in Seq(Nat) /\ Own(n) \in Seq(Batch)
  BY OwnType
<1>2. [author |-> n, transactions |-> <<>>] \in Batch
  BY DEF Batch
<1>3. Transactions(Own(n)) \in Seq(Nat)
  BY <1>1, <1>2, TransactionsAppend
<1>4. taken[n] + 1 \in Nat
  BY <1>1
<1>5. Transactions(Own(n)) \o Append(current_batch[n], taken[n] + 1)
        = Append(Transactions(Own(n)) \o current_batch[n], taken[n] + 1)
  <2>1. \A p, q \in Seq(Nat), x \in Nat : p \o Append(q, x) = Append(p \o q, x)
    BY ConcatAppend
  <2>. QED
    BY <1>1, <1>3, <1>4, <2>1, Zenon
<1>6. Transactions(Own(n)) \o current_batch[n] = [i \in 1 .. taken[n] |-> i]
  BY DEF KeptAt
<1>7. Append([i \in 1 .. taken[n] |-> i], taken[n] + 1) = [i \in 1 .. taken[n] + 1 |-> i]
  BY <1>1, CountAppend
<1>. QED
  BY <1>5, <1>6, <1>7

(* A batch that moves on stays in its place.                               *)
LEMMA OwnMoves ==
    ASSUME WorkerTypeOK, NEW n \in Honest, QuorumReached(n) \/ ProcessOwn(n)
    PROVE  KeepsOwn(n)
<1>. DEFINE d == digests[n]
            r == rx_own[n]
            q == rx_quorum_waiter[n]
<1>1. d \in Seq(Batch) /\ r \in Seq(Batch) /\ q \in Seq(Batch)
  BY OwnType
<1>2. CASE QuorumReached(n)
  <2>1. /\ q # <<>>
        /\ rx_own' = [rx_own EXCEPT ![n] = Append(@, Head(q))]
        /\ rx_quorum_waiter' = [rx_quorum_waiter EXCEPT ![n] = Tail(@)]
        /\ UNCHANGED <<taken, current_batch, digests>>
    BY <1>2 DEF QuorumReached
  <2>2. Own(n)' = (d \o Append(r, Head(q))) \o Tail(q) /\ Own(n) = (d \o r) \o q
    BY <2>1 DEF Own, WorkerTypeOK
  <2>3. taken'[n] = taken[n] /\ current_batch'[n] = current_batch[n]
    BY <2>1
  <2>. HIDE DEF d, r, q
  <2>4. (d \o Append(r, Head(q))) \o Tail(q) = (d \o r) \o q
    BY <1>1, <2>1, HeadMovesWithin, Zenon
  <2>. QED
    BY <2>2, <2>3, <2>4 DEF KeepsOwn
<1>3. CASE ProcessOwn(n)
  <2>1. /\ r # <<>>
        /\ digests' = [digests EXCEPT ![n] = Append(@, Head(r))]
        /\ rx_own' = [rx_own EXCEPT ![n] = Tail(@)]
        /\ UNCHANGED <<taken, current_batch, rx_quorum_waiter>>
    BY <1>3 DEF ProcessOwn, making, outgoing
  <2>2. Own(n)' = (Append(d, Head(r)) \o Tail(r)) \o q /\ Own(n) = (d \o r) \o q
    BY <2>1 DEF Own, WorkerTypeOK
  <2>3. taken'[n] = taken[n] /\ current_batch'[n] = current_batch[n]
    BY <2>1
  <2>. HIDE DEF d, r, q
  <2>4. Append(d, Head(r)) \o Tail(r) = d \o r
    BY <1>1, <2>1, HeadMoves
  <2>. QED
    BY <2>2, <2>3, <2>4 DEF KeepsOwn
<1>. QED
  BY <1>2, <1>3

(* Sealing a batch with all the transactions that are not in one.          *)
LEMMA OwnSeal ==
    ASSUME WorkerTypeOK, NEW n \in Honest, NEW t \in Seq(Nat), seal(n, t),
           UNCHANGED <<digests, rx_own>>,
           Transactions(Own(n)) \o t = [i \in 1 .. taken'[n] |-> i]
    PROVE  KeptAt(n)'
<1>. DEFINE b == [author |-> n, transactions |-> t]
<1>1. b \in Batch /\ b.transactions = t
  BY DEF Batch
<1>2. /\ current_batch'[n] = <<>>
      /\ rx_quorum_waiter'[n] = Append(rx_quorum_waiter[n], b)
      /\ digests'[n] = digests[n] /\ rx_own'[n] = rx_own[n]
  BY DEF seal, WorkerTypeOK
<1>3. Own(n)' = Append(Own(n), b)
  <2>. DEFINE p == digests[n] \o rx_own[n]
              q == rx_quorum_waiter[n]
  <2>1. p \in Seq(Batch) /\ q \in Seq(Batch)
    BY OwnType, ConcatProperties
  <2>2. Own(n)' = p \o Append(q, b) /\ Own(n) = p \o q
    BY <1>2 DEF Own
  <2>. HIDE DEF p, q, b
  <2>3. p \o Append(q, b) = Append(p \o q, b)
    BY <2>1, <1>1, ConcatAppend
  <2>. QED
    BY <2>2, <2>3
<1>4. Transactions(Append(Own(n), b)) = Transactions(Own(n)) \o t
  BY <1>1, OwnType, TransactionsAppend
<1>5. Transactions(Append(Own(n), b)) \in Seq(Nat)
  <2>1. Append(Own(n), b) \in Seq(Batch)
    BY <1>1, OwnType, AppendProperties
  <2>. QED
    BY <2>1, <1>1, TransactionsAppend
<1>6. Transactions(Own(n))' = Transactions(Own(n)')
  BY DEF Transactions
<1>7. KeptAt(n)' <=> Transactions(Own(n))' \o current_batch'[n] = [i \in 1 .. taken'[n] |-> i]
  BY DEF KeptAt
<1>. HIDE DEF b
<1>8. Transactions(Own(n))' \o current_batch'[n] = Transactions(Append(Own(n), b))
  BY <1>2, <1>3, <1>5, <1>6, ConcatEmptySeq
<1>. QED
  BY <1>4, <1>7, <1>8

(* Every step keeps it at every worker: the steps of the BatchMaker, the   *)
(* QuorumWaiter and the Processor of own batches are the ones that count.  *)
LEMMA KeptAtStep ==
    ASSUME WorkerTypeOK, [WorkerNext]_worker_vars, NEW n \in Honest, KeptAt(n)
    PROVE  KeptAt(n)'
<1>. USE DEF making, outgoing, storing, syncing
<1>1. ASSUME NEW m \in Maker, ReceiveTransaction(m) PROVE KeptAt(n)'
  <2>0. m \in Honest
    BY <1>1, WorkerAssumption
  <2>1. CASE m # n
    <3>1. KeepsOwn(n)
      BY <1>1, <2>0, <2>1 DEF ReceiveTransaction, seal, KeepsOwn, Own, WorkerTypeOK
    <3>. QED
      BY <3>1, KeptByIdle
  <2>2. CASE m = n
    <3>. DEFINE t == taken[n] + 1
                c == Append(current_batch[n], t)
    <3>1. taken[n] \in Nat /\ current_batch[n] \in Seq(Nat)
      BY OwnType
    <3>2. taken'[n] = t /\ UNCHANGED <<digests, rx_own>>
      BY <1>1, <2>2, <2>0 DEF ReceiveTransaction, WorkerTypeOK
    <3>3. Transactions(Own(n)) \o c = [i \in 1 .. t |-> i]
      BY KeptByReceipt
    <3>4. c \in Seq(Nat)
      BY <3>1
    <3>5. CASE current_batch_size[n] + size[t] >= batch_size
      <4>1. seal(n, c)
        BY <1>1, <2>2, <3>5 DEF ReceiveTransaction
      <4>. HIDE DEF c, t
      <4>. QED
        BY <3>2, <3>3, <3>4, <4>1, OwnSeal
    <3>6. CASE ~(current_batch_size[n] + size[t] >= batch_size)
      <4>1. current_batch'[n] = c /\ UNCHANGED rx_quorum_waiter
        BY <1>1, <2>2, <2>0, <3>6 DEF ReceiveTransaction, WorkerTypeOK
      <4>2. Own(n)' = Own(n)
        BY <3>2, <4>1 DEF Own
      <4>3. Transactions(Own(n))' = Transactions(Own(n)')
        BY DEF Transactions
      <4>4. KeptAt(n)' <=> Transactions(Own(n))' \o current_batch'[n] = [i \in 1 .. taken'[n] |-> i]
        BY DEF KeptAt
      <4>. HIDE DEF c, t
      <4>. QED
        BY <3>2, <3>3, <4>1, <4>2, <4>3, <4>4
    <3>. QED
      BY <3>5, <3>6
  <2>. QED
    BY <2>1, <2>2
<1>2. ASSUME NEW m \in Honest, BatchTimer(m) PROVE KeptAt(n)'
  <2>1. CASE m # n
    <3>1. KeepsOwn(n)
      BY <1>2, <2>1 DEF BatchTimer, seal, KeepsOwn, Own, WorkerTypeOK
    <3>. QED
      BY <3>1, KeptByIdle
  <2>2. CASE m = n
    <3>1. /\ current_batch[n] \in Seq(Nat) /\ seal(n, current_batch[n])
          /\ UNCHANGED <<taken, digests, rx_own>>
      BY <1>2, <2>2, OwnType DEF BatchTimer
    <3>2. Transactions(Own(n)) \o current_batch[n] = [i \in 1 .. taken'[n] |-> i]
      BY <3>1 DEF KeptAt
    <3>. QED
      BY <3>1, <3>2, OwnSeal
  <2>. QED
    BY <2>1, <2>2
<1>3. ASSUME NEW m \in Honest, QuorumReached(m) PROVE KeptAt(n)'
  <2>1. CASE m # n
    <3>1. KeepsOwn(n)
      BY <1>3, <2>1 DEF QuorumReached, KeepsOwn, Own, WorkerTypeOK
    <3>. QED
      BY <3>1, KeptByIdle
  <2>. QED
    BY <1>3, <2>1, OwnMoves, KeptByIdle
<1>4. ASSUME NEW m \in Honest, ProcessOwn(m) PROVE KeptAt(n)'
  <2>1. CASE m # n
    <3>1. KeepsOwn(n)
      BY <1>4, <2>1 DEF ProcessOwn, KeepsOwn, Own, WorkerTypeOK
    <3>. QED
      BY <3>1, KeptByIdle
  <2>. QED
    BY <1>4, <2>1, OwnMoves, KeptByIdle
<1>5. ASSUME UNCHANGED <<digests, rx_own, rx_quorum_waiter, current_batch, taken>>
      PROVE  KeptAt(n)'
  BY <1>5, OwnIdle, KeptByIdle
<1>6. ASSUME NEW m \in in_flight, Acknowledge(m[1], m[2]) PROVE KeptAt(n)'
  BY <1>5, <1>6 DEF Acknowledge
<1>7. ASSUME NEW m \in in_flight, ReceiveBatch(m[1], m[2]) PROVE KeptAt(n)'
  BY <1>5, <1>7 DEF ReceiveBatch
<1>8. ASSUME NEW p, NEW b, ByzantineSends(b, p) PROVE KeptAt(n)'
  BY <1>5, <1>8 DEF ByzantineSends
<1>9. ASSUME NEW p, NEW b, ProcessOthers(p, b) PROVE KeptAt(n)'
  BY <1>5, <1>9 DEF ProcessOthers
<1>10. ASSUME NEW m, NEW D, NEW p, Synchronize(m, D, p) PROVE KeptAt(n)'
  BY <1>5, <1>10 DEF Synchronize
<1>11. ASSUME NEW m, NEW r, Cleanup(m, r) PROVE KeptAt(n)'
  BY <1>5, <1>11 DEF Cleanup
<1>12. ASSUME NEW m, NEW w, WaiterDelivers(m, w) \/ WaiterCancelled(m, w) PROVE KeptAt(n)'
  BY <1>5, <1>12 DEF WaiterDelivers, WaiterCancelled
<1>13. ASSUME NEW m, NEW D, NEW p, RetryTimer(m, D, p) PROVE KeptAt(n)'
  BY <1>5, <1>13 DEF RetryTimer
<1>14. ASSUME NEW m, NEW R, HelperReplies(m, R) PROVE KeptAt(n)'
  BY <1>5, <1>14 DEF HelperReplies
<1>15. CASE UNCHANGED worker_vars
  BY <1>5, <1>15 DEF worker_vars
<1>. QED
  BY <1>1, <1>2, <1>3, <1>4, <1>6, <1>7, <1>8, <1>9, <1>10, <1>11, <1>12, <1>13, <1>14,
     <1>15 DEF WorkerNext

(* Whatever is acknowledged, cancelled or delayed, the batches of a worker *)
(* on their way to its primary, in the order of the three channels, and    *)
(* the batch in the making hold the transactions it has received, each     *)
(* once and in the order of arrival.                                       *)
THEOREM TransactionsKeptHolds == WorkerSpec => []TransactionsKept
<1>1. WorkerInit => \A n \in Honest : KeptAt(n)
  BY KeptAtInit
<1>2. WorkerTypeOK /\ (\A n \in Honest : KeptAt(n)) /\ [WorkerNext]_worker_vars
         => (\A n \in Honest : KeptAt(n))'
  BY KeptAtStep
<1>3. (\A n \in Honest : KeptAt(n)) => TransactionsKept
  BY DEF TransactionsKept, KeptAt, Own
<1>. QED
  BY <1>1, <1>2, <1>3, WorkerTypeCorrect, PTL DEF WorkerSpec
=============================================================================
