--------------------------- MODULE ConsensusState ---------------------------
(***************************************************************************)
(* The State that the consensus tasks of Narwhal, Bullshark and Shortfin   *)
(* keep (consensus/src/lib.rs), and its clean up after a commit.  A        *)
(* protocol may add fields of its own to the record.                       *)
(***************************************************************************)
EXTENDS Dag, FiniteSetsExt

CONSTANT gc_depth   \* Parameters::gc_depth

ASSUME GcDepthAssumption == gc_depth \in Nat

(* State::new                                                              *)
NewState ==
    [last_committed_round |-> 0,
     last_committed       |-> [n \in Authority |-> 0],
     dag                  |-> Genesis]

(* The certificates of round r in the dag.                                 *)
At(s, r) == {h \in s.dag : round[h] = r}

(* Mutant of Committed: the lowest round of an author counts.              *)
CommittedLowest(s, xs) ==
    [n \in Authority |->
       LET of == {round[x] : x \in {y \in xs : author[y] = n}}
       IN IF of = {} THEN s.last_committed[n] ELSE Min(of)]

(* last_committed after the certificates xs.                               *)
Committed(s, xs) ==
    [n \in Authority |->
       LET of == {round[x] : x \in {y \in xs : author[y] = n}}
       IN Max(of \cup {s.last_committed[n]})]

(* State::update, for every certificate of xs.                             *)
update(s, xs) ==
    LET last == Committed(s, xs)
        top  == Max({last[n] : n \in Authority})
    IN [s EXCEPT !.last_committed_round = top,
                 !.last_committed = last,
                 !.dag = {h \in @ : /\ round[h] >= last[author[h]]
                                    /\ round[h] + gc_depth >= top}]
=============================================================================
