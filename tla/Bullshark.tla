------------------------------ MODULE Bullshark ------------------------------
(***************************************************************************)
(* The Bullshark consensus task (consensus/src/bullshark.rs): a            *)
(* certificate of an odd round r commits the leader of round r - 1 when    *)
(* f + 1 certificates of round r support it.                               *)
(***************************************************************************)
EXTENDS LeaderConsensus

(* The leaders of the rounds order_leaders looks at.                       *)
PastLeaders(s, l) == UNION {leader(s, r, r) : r \in PastRounds(s, l)}

(* order_leaders, oldest first                                             *)
order_leaders(s, l) == Chain(s, l, PastLeaders(s, l))

(* order_dag: certificates too old for gc_depth are left out.              *)
order_dag(s, l) ==
    {x \in Flatten(s, l) : round[x] + gc_depth >= s.last_committed_round}

(* One turn of the commit loop of run: a leader and its sub-dag are        *)
(* output, and the state updated.                                          *)
Commit(acc, l) ==
    LET xs == order_dag(acc.state, l)
    IN [state  |-> update(acc.state, xs),
        output |-> Append(acc.output, [leader |-> l, certificates |-> xs])]

(* The commit loop of run, over the leaders ls, from state s and output o. *)
CommitLoop(s, o, ls) ==
    LET acc[i \in 0 .. Len(ls)] ==
          IF i = 0 THEN [state |-> s, output |-> o] ELSE Commit(acc[i - 1], ls[i])
    IN acc[Len(ls)]

(* The leader that certificate h, just inserted, commits, if any.  Of a    *)
(* genesis certificate, round 0 - 1 wraps to an odd number.                *)
Commits(s, h) ==
    LET r == round[h] - 1
    IN IF r % 2 # 0 \/ r < 2 \/ r <= s.last_committed_round THEN {}
       ELSE {l \in leader(s, r, r) : Support(s, l, r + 1) >= validity_threshold}

(* One turn of the loop of run.                                            *)
ReceiveCertificate(n, h) ==
    LET s == Insert(state[n], h)
    IN /\ CanReceive(n, h)
       /\ Receives(n, h, BelowCommitted(n, h))
       /\ \/ Commits(s, h) = {} /\ Inserts(n, s)
          \/ \E l \in Commits(s, h) :
                IF MissingHistory(s, l, PastLeaders(s, l)) THEN PanicsIn(n, s)
                ELSE CommitsAll(n, CommitLoop(s, sequence[n], order_leaders(s, l)))

Next == \E n \in Node, h \in Header : ReceiveCertificate(n, h)

Spec == Init /\ [][Next]_vars
=============================================================================
