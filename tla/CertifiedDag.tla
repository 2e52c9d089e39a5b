---------------------------- MODULE CertifiedDag ----------------------------
(***************************************************************************)
(* What the primaries of a certified protocol promise together: a growing  *)
(* set of certified headers, at most one per author and round until that   *)
(* round is garbage collected somewhere, and to the consensus of every     *)
(* honest authority certified headers and genesis certificates only, each  *)
(* after its parents.                                                      *)
(***************************************************************************)
EXTENDS Dag

VARIABLES
    certified,   \* the certificates that exist
    delivered,   \* delivered[n]: those the consensus of n was sent
    collected    \* the rounds some honest authority has garbage collected

dag == <<certified, delivered, collected>>

Init ==
    /\ certified = {}
    /\ delivered = [n \in Honest |-> {}]
    /\ collected = {}

Certify(h) ==
    /\ certified' = certified \cup {h}
    /\ \A g \in certified : Conflicting(g, h) => round[h] \in collected

Deliver(n, h) ==
    /\ h \in certified' \cup Genesis
    /\ parents[h] \subseteq delivered[n] \cup Genesis
    /\ delivered' = [delivered EXCEPT ![n] = @ \cup {h}]

(* One turn of an authority may complete a certificate, deliver it and     *)
(* garbage collect.                                                        *)
Next ==
    /\ UNCHANGED certified \/ \E h \in Header : Certify(h)
    /\ UNCHANGED delivered \/ \E n \in Honest, h \in Header : Deliver(n, h)
    /\ collected \subseteq collected'

Spec == Init /\ [][Next]_dag
=============================================================================
