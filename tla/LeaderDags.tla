----------------------------- MODULE LeaderDags -----------------------------
(* The DAGs on which Bullshark and Narwhal are model-checked: four         *)
(* authorities of equal stake, one of them Byzantine, and the leaders a2,  *)
(* b4 and c6.                                                              *)
EXTENDS Integers, FiniteSets, TLC

H(a, r, ps) == [author |-> a, round |-> r, parents |-> ps]
Four == {"a", "b", "c", "d"}
EqualStake == [S \in SUBSET Four |-> Cardinality(S)]
FourGenesis == {"a0", "b0", "c0", "d0"}
LeaderOf == (2 :> "a" @@ 4 :> "b" @@ 6 :> "c" @@ 8 :> "d")

FirstRounds ==
    [a0 |-> H("a", 0, {}), b0 |-> H("b", 0, {}), c0 |-> H("c", 0, {}),
     d0 |-> H("d", 0, {}),
     a1 |-> H("a", 1, FourGenesis), b1 |-> H("b", 1, FourGenesis),
     c1 |-> H("c", 1, FourGenesis), d1 |-> H("d", 1, FourGenesis)]

LastRounds ==
    [a6 |-> H("a", 6, {"a5", "b5", "c5"}), b6 |-> H("b", 6, {"a5", "b5", "c5"}),
     c6 |-> H("c", 6, {"a5", "b5", "c5"}),
     a7 |-> H("a", 7, {"a6", "b6", "c6"}), b7 |-> H("b", 7, {"a6", "b6", "c6"})]

(* Authority c lags: the histories of a2 and b4 hold nothing of it but the *)
(* genesis, and c1, c2 and c3 become ancestors of c6.                      *)
Lagging7 == FirstRounds @@
    [a2 |-> H("a", 2, {"a1", "b1", "d1"}), b2 |-> H("b", 2, {"a1", "b1", "d1"}),
     c2 |-> H("c", 2, {"b1", "c1", "d1"}), d2 |-> H("d", 2, {"a1", "b1", "d1"}),
     a3 |-> H("a", 3, {"a2", "b2", "d2"}), b3 |-> H("b", 3, {"a2", "b2", "d2"}),
     c3 |-> H("c", 3, {"b2", "c2", "d2"}), d3 |-> H("d", 3, {"a2", "b2", "d2"}),
     a4 |-> H("a", 4, {"a3", "b3", "d3"}), b4 |-> H("b", 4, {"a3", "b3", "d3"}),
     c4 |-> H("c", 4, {"a3", "c3", "d3"}), d4 |-> H("d", 4, {"a3", "b3", "d3"}),
     a5 |-> H("a", 5, {"a4", "b4", "d4"}), b5 |-> H("b", 5, {"a4", "b4", "d4"}),
     c5 |-> H("c", 5, {"a4", "b4", "c4"})] @@ LastRounds

(* a2 has the support of c3 only and no path from b4; c6 has a path to     *)
(* both.  b4 has the support of a5 and d5, and d5 is in no history.        *)
Skipped7 == FirstRounds @@
    [a2 |-> H("a", 2, {"a1", "b1", "c1"}), b2 |-> H("b", 2, {"a1", "b1", "c1"}),
     c2 |-> H("c", 2, {"b1", "c1", "d1"}), d2 |-> H("d", 2, {"b1", "c1", "d1"}),
     a3 |-> H("a", 3, {"b2", "c2", "d2"}), b3 |-> H("b", 3, {"b2", "c2", "d2"}),
     c3 |-> H("c", 3, {"a2", "b2", "c2"}), d3 |-> H("d", 3, {"b2", "c2", "d2"}),
     a4 |-> H("a", 4, {"a3", "b3", "c3"}), b4 |-> H("b", 4, {"a3", "b3", "d3"}),
     c4 |-> H("c", 4, {"a3", "b3", "c3"}), d4 |-> H("d", 4, {"a3", "b3", "d3"}),
     a5 |-> H("a", 5, {"a4", "b4", "c4"}), b5 |-> H("b", 5, {"a4", "c4", "d4"}),
     c5 |-> H("c", 5, {"a4", "c4", "d4"}), d5 |-> H("d", 5, {"a4", "b4", "c4"})]
    @@ LastRounds

(* Two more rounds, for the protocol whose leaders wait for the coin.      *)
Rounds8And9 ==
    [c7 |-> H("c", 7, {"a6", "b6", "c6"}),
     a8 |-> H("a", 8, {"a7", "b7", "c7"}), b8 |-> H("b", 8, {"a7", "b7", "c7"}),
     c8 |-> H("c", 8, {"a7", "b7", "c7"}),
     a9 |-> H("a", 9, {"a8", "b8", "c8"})]

Lagging9 == Lagging7 @@ Rounds8And9
Skipped9 == Skipped7 @@ Rounds8And9

AuthorOf(t)  == [h \in DOMAIN t |-> t[h].author]
RoundOf(t)   == [h \in DOMAIN t |-> t[h].round]
ParentsOf(t) == [h \in DOMAIN t |-> t[h].parents]
=============================================================================
