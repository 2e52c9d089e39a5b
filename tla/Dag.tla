-------------------------------- MODULE Dag --------------------------------
(***************************************************************************)
(* The blocks of the DAG (primary/src/messages.rs).                        *)
(*                                                                         *)
(* A header is identified by its digest, which covers its author, round,   *)
(* payload and parents, so a header is an element of Header and its fields *)
(* are functions of it.  Certificate::digest covers only the header's id,  *)
(* round and origin, not the votes, and Certificate equality likewise: the *)
(* certificate of h is therefore identified with h, and parents[h], a set  *)
(* of certificate digests in the code, is a set of headers.                *)
(***************************************************************************)
EXTENDS Committee

CONSTANTS
    Header,   \* every header some authority may sign
    author,   \* Header::author
    round,    \* Header::round
    parents,  \* Header::parents
    Genesis   \* Certificate::genesis: the certificates nobody has to vote for

ASSUME HeaderAssumption ==
    /\ author  \in [Header -> Authority]
    /\ round   \in [Header -> Nat]
    /\ parents \in [Header -> SUBSET Header]

ASSUME GenesisAssumption ==
    /\ Genesis \subseteq Header
    /\ \A g \in Genesis : round[g] = 0 /\ parents[g] = {}

(* A slot is what an honest authority fills at most once.                  *)
slot(h) == <<round[h], author[h]>>

Conflicting(g, h) == g # h /\ slot(g) = slot(h)

Authors(S) == {author[h] : h \in S}

(* What Header::verify and process_header require of the parents of a      *)
(* header of a certified protocol: none in round 0, otherwise certificates *)
(* of the previous round authored by a quorum.                             *)
ValidParents(h) ==
    \/ round[h] = 0 /\ parents[h] = {}
    \/ /\ round[h] > 0
       /\ \A p \in parents[h] : round[p] + 1 = round[h]
       /\ HasQuorum(Authors(parents[h]))
=============================================================================
