---------------------------- MODULE ShortfinDags ----------------------------
(* The DAGs on which Shortfin is model-checked: four authorities of equal  *)
(* stake, d Byzantine.  Every block refers to the latest block of each     *)
(* author that its own had seen; from round 2 on it carries the QC of the  *)
(* previous block of its author, voted for in that block's round.          *)
EXTENDS Integers, FiniteSets, TLC

S(a, r, id, ps, qcs) ==
    [author |-> a, round |-> r, digest |-> id, parents |-> ps, qc |-> qcs]

ShortfinFour == {"a", "b", "c", "d"}
ShortfinStake == [A \in SUBSET ShortfinFour |-> Cardinality(A)]
ShortfinGenesis == {"a0", "b0", "c0", "d0"}

ShortfinStart ==
    [a0 |-> S("a", 0, 2, {}, {}), b0 |-> S("b", 0, 3, {}, {}),
     c0 |-> S("c", 0, 4, {}, {}), d0 |-> S("d", 0, 5, {}, {}),
     a1 |-> S("a", 1, 12, ShortfinGenesis, {}),
     b1 |-> S("b", 1, 13, ShortfinGenesis, {}),
     c1 |-> S("c", 1, 14, ShortfinGenesis, {}),
     d1 |-> S("d", 1, 15, ShortfinGenesis, {})]

(* Nobody signs two blocks for a round; a3 is referred to by a4 and b4     *)
(* only, which is f + 1.                                                   *)
Anchors == ShortfinStart @@
    [a2 |-> S("a", 2, 22, {"a1", "b1", "c1", "d1"}, {"a1"}),
     b2 |-> S("b", 2, 23, {"a1", "b1", "c1", "d1"}, {"b1"}),
     c2 |-> S("c", 2, 24, {"a1", "b1", "c1", "d1"}, {"c1"}),
     d2 |-> S("d", 2, 25, {"a1", "b1", "c1", "d1"}, {"d1"}),
     a3 |-> S("a", 3, 32, {"a2", "b2", "c2", "d2"}, {"a2"}),
     b3 |-> S("b", 3, 33, {"a2", "b2", "c2", "d2"}, {"b2"}),
     c3 |-> S("c", 3, 34, {"a2", "b2", "c2", "d2"}, {"c2"}),
     d3 |-> S("d", 3, 35, {"a2", "b2", "c2", "d2"}, {"d2"}),
     a4 |-> S("a", 4, 42, {"a3", "b3", "c2", "d3"}, {"a3"}),
     b4 |-> S("b", 4, 43, {"a3", "b3", "c3", "d3"}, {"b3"}),
     c4 |-> S("c", 4, 44, {"a2", "b3", "c3", "d3"}, {"c3"}),
     d4 |-> S("d", 4, 45, {"a2", "b3", "c3", "d3"}, {"d3"})]

(* The leader b falls silent after b3, which nobody refers to before       *)
(* round 5: the first wave is committed only where b3 arrives in time.  In *)
(* the second wave the leader d signs two blocks in rounds 5, 6 and 7, and *)
(* what a refers to is never the certified one.                            *)
Silent == ShortfinStart @@
    [a2 |-> S("a", 2, 22, {"a1", "b1", "c1", "d1"}, {"a1"}),
     b2 |-> S("b", 2, 23, {"a1", "b1", "c1", "d1"}, {"b1"}),
     c2 |-> S("c", 2, 24, {"a1", "b1", "c1", "d1"}, {"c1"}),
     d2 |-> S("d", 2, 25, {"a1", "b1", "c1", "d1"}, {"d1"}),
     a3 |-> S("a", 3, 32, {"a2", "b2", "c2", "d2"}, {"a2"}),
     b3 |-> S("b", 3, 33, {"a2", "b2", "c2", "d2"}, {"b2"}),
     c3 |-> S("c", 3, 34, {"a2", "b2", "c2", "d2"}, {"c2"}),
     d3 |-> S("d", 3, 35, {"a2", "b2", "c2", "d2"}, {"d2"}),
     a4 |-> S("a", 4, 42, {"a3", "b2", "c3", "d3"}, {"a3"}),
     c4 |-> S("c", 4, 44, {"a3", "b2", "c3", "d3"}, {"c3"}),
     d4 |-> S("d", 4, 45, {"a3", "b2", "c3", "d3"}, {"d3"}),
     a5 |-> S("a", 5, 52, {"a4", "b2", "c4", "d4"}, {"a4"}),
     c5 |-> S("c", 5, 54, {"a4", "b3", "c4", "d4"}, {"c4"}),
     x5 |-> S("d", 5, 51, {"a4", "b2", "c4", "d4"}, {"d4"}),
     d5 |-> S("d", 5, 55, {"a4", "b2", "c4", "d4"}, {"d4"}),
     a6 |-> S("a", 6, 62, {"a5", "b3", "c5", "x5"}, {"a5"}),
     c6 |-> S("c", 6, 64, {"a5", "b3", "c5", "d5"}, {"c5"}),
     d6 |-> S("d", 6, 65, {"a5", "b3", "c5", "d5"}, {"d5"}),
     x6 |-> S("d", 6, 61, {"a5", "b3", "c5", "d5"}, {"d5"}),
     a7 |-> S("a", 7, 72, {"a6", "b3", "c6", "x6"}, {"a6"}),
     c7 |-> S("c", 7, 74, {"a6", "b3", "c6", "d6"}, {"c6"}),
     x7 |-> S("d", 7, 71, {"a6", "b3", "c6", "d6"}, {"d6"}),
     d7 |-> S("d", 7, 75, {"a6", "b3", "c6", "d6"}, {"d6"}),
     a8 |-> S("a", 8, 82, {"a7", "b3", "c7", "x7"}, {"a7"}),
     c8 |-> S("c", 8, 84, {"a7", "b3", "c7", "d7"}, {"c7"}),
     d8 |-> S("d", 8, 85, {"a7", "b3", "c7", "d7"}, {"d7"})]

AuthorIn(t)  == [h \in DOMAIN t |-> t[h].author]
RoundIn(t)   == [h \in DOMAIN t |-> t[h].round]
ParentsIn(t) == [h \in DOMAIN t |-> t[h].parents]
DigestIn(t)  == [h \in DOMAIN t |-> t[h].digest]
QcIn(t)      == [h \in DOMAIN t |-> t[h].qc]

(* The votes of a QC are cast in the round of its target.                  *)
VoterRoundIn(t) == [h \in DOMAIN t |-> IF t[h].qc = {} THEN 0 ELSE t[h].round - 1]
CertifiedIn(t) == UNION {t[h].qc : h \in DOMAIN t}
=============================================================================
