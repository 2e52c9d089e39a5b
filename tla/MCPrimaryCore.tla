--------------------------- MODULE MCPrimaryCore ---------------------------
(* Instances of PrimaryCore for TLC.  A table lists the headers; its field *)
(* names are their digests.                                                *)
EXTENDS PrimaryCore, FiniteSetsExt

H(a, r, ps) == [author |-> a, round |-> r, parents |-> ps]
WeightOf(stake) ==
    [S \in SUBSET DOMAIN stake |-> MapThenSumSet(LAMBDA n : stake[n], S)]

-----------------------------------------------------------------------------
(* Two honest authorities and a Byzantine one; the quorum threshold is 4   *)
(* of 5, so a needs one of the two others.  a2x has too few parents.       *)
TwoWeight == WeightOf([a |-> 3, b |-> 1, d |-> 1])
TwoGenesis == {"a0", "b0", "d0"}
TwoTable ==
    [a0 |-> H("a", 0, {}), b0 |-> H("b", 0, {}), d0 |-> H("d", 0, {}),
     a1 |-> H("a", 1, TwoGenesis),
     d1 |-> H("d", 1, TwoGenesis),
     a2 |-> H("a", 2, {"a1", "d1"}),
     a2x |-> H("a", 2, {"a1"})]
TwoHeader  == DOMAIN TwoTable
TwoAuthor  == [h \in TwoHeader |-> TwoTable[h].author]
TwoRound   == [h \in TwoHeader |-> TwoTable[h].round]
TwoParents == [h \in TwoHeader |-> TwoTable[h].parents]

(* The consensus commits nothing.  With gc_depth 2 and two rounds nothing  *)
(* would be collected if it did.                                           *)
CalmSpec == Init /\ [][Next /\ UNCHANGED consensus_round]_vars /\ Fairness

-----------------------------------------------------------------------------
(* One honest authority that is a quorum by itself, and a Byzantine one    *)
(* that signs two headers of round 1 and one of round 2 on its own second  *)
(* header.                                                                 *)
OneWeight == WeightOf([a |-> 4, d |-> 1])
OneGenesis == {"a0", "d0"}
OneTable ==
    [a0 |-> H("a", 0, {}), d0 |-> H("d", 0, {}),
     a1 |-> H("a", 1, OneGenesis),
     d1 |-> H("d", 1, OneGenesis), d1x |-> H("d", 1, OneGenesis),
     a2 |-> H("a", 2, {"a1"}), a2x |-> H("a", 2, {"a1"}),
     d2 |-> H("d", 2, {"a1", "d1x"})]
OneHeader  == DOMAIN OneTable
OneAuthor  == [h \in OneHeader |-> OneTable[h].author]
OneRound   == [h \in OneHeader |-> OneTable[h].round]
OneParents == [h \in OneHeader |-> OneTable[h].parents]

=============================================================================
