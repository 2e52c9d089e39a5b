------------------------------- MODULE Narwhal -------------------------------
(***************************************************************************)
(* The Narwhal consensus task (consensus/src/narwhal.rs, Tusk): a          *)
(* certificate of an odd round r reveals the coin of round r - 1 and       *)
(* commits the leader of round r - 3 when f + 1 certificates of round      *)
(* r - 2 support it.                                                       *)
(***************************************************************************)
EXTENDS LeaderConsensus

(* The leaders of the rounds order_leaders looks at.                       *)
PastLeaders(s, l) == UNION {leader(s, r, r + 2) : r \in PastRounds(s, l)}

(* order_leaders, oldest first                                             *)
order_leaders(s, l) == Chain(s, l, PastLeaders(s, l))

(* order_dag: unlike Bullshark's, it leaves nothing out.                   *)
order_dag(s, l) == Flatten(s, l)

(* One turn of the commit loop of run: a leader and its sub-dag are        *)
(* output, and the state updated.                                          *)
Commit(acc, l) ==
    LET xs == order_dag(acc.state, l)
    IN [state  |-> update(acc.state, xs),
        output |-> Append(acc.output, [leader |-> l, certificates |-> xs])]

(* The commit loop of run, over the leaders ls, from state s and output o. *)
CommitLoop(s, o, ls) ==
    LET acc[i \in 0 .. Len(ls)] ==
          IF i = 0 THEN [state |-> s, output |-> o] ELSE Commit(acc[i - 1], ls[i])
    IN acc[Len(ls)]

(* The leader that certificate h, just inserted, may commit, if any: its   *)
(* support is still to be counted.  Of a genesis certificate, round 0 - 1  *)
(* wraps to an odd number.                                                 *)
Candidate(s, h) ==
    LET r == round[h] - 1
    IN IF r % 2 # 0 \/ r < 4 \/ r - 2 <= s.last_committed_round THEN {}
       ELSE leader(s, r - 2, r)

(* f + 1 certificates of the round after leader l support it.              *)
Supported(s, l) == Support(s, l, round[l] + 1) >= validity_threshold

(* One turn of the loop of run.                                            *)
ReceiveCertificate(n, h) ==
    LET s == Insert(state[n], h)
        c == Candidate(s, h)
    IN /\ CanReceive(n, h)
       /\ Receives(n, h, \/ BelowCommitted(n, h)
                         \/ round[h] + gc_depth < state[n].last_committed_round)
       /\ \/ c = {} /\ Inserts(n, s)
          \/ \E l \in c :
                IF At(s, round[l] + 1) = {} THEN PanicsIn(n, s)
                ELSE IF ~Supported(s, l) THEN Inserts(n, s)
                ELSE IF MissingHistory(s, l, PastLeaders(s, l)) THEN PanicsIn(n, s)
                ELSE CommitsAll(n, CommitLoop(s, sequence[n], order_leaders(s, l)))

Next == \E n \in Node, h \in Header : ReceiveCertificate(n, h)

Spec == Init /\ [][Next]_vars
=============================================================================
