------------------------------ MODULE MahiDags ------------------------------
(* The DAGs on which Mahi-Mahi is model-checked: four authorities of equal *)
(* stake, of which d is Byzantine and signs two blocks, d and x, for       *)
(* rounds 1 and 3.  d is the first leader of round 1; with waves of four   *)
(* rounds, round 3 votes on it, round 4 certifies it, and the leaders of   *)
(* round 5 are its first anchors.  A block is a triple of author, round    *)
(* and branch.                                                             *)
EXTENDS Integers, FiniteSets, TLC

LOCAL Four == {"a", "b", "c", "d"}
LOCAL Number == [a |-> 1, b |-> 2, c |-> 3, d |-> 4]
LOCAL B(x, r) == IF x = "x" THEN <<"d", r, 2>> ELSE <<x, r, 1>>
LOCAL Bs(X, r) == {B(x, r) : x \in X}

MahiLeaderOf == << <<"d", "a">>, <<"b", "c">>, <<"c", "d">>, <<"c", "b">>, <<"b", "c">> >>

(* The DAG in which the block of each round refers to the blocks of the    *)
(* previous round that the table of its round gives for its author.        *)
LOCAL Dag(refer, vote, certify, anchor, end) ==
    LET Row(table, r) == [h \in {B(x, r) : x \in DOMAIN table} |->
                            LET x == CHOOSE y \in DOMAIN table : h = B(y, r)
                            IN Bs(table[x], r - 1)]
        edges   == [h \in Bs(Four, 0) |-> {}]
                   @@ [h \in Bs(Four \cup {"x"}, 1) |-> Bs(Four, 0)]
                   @@ Row(refer, 2) @@ Row(vote, 3) @@ Row(certify, 4) @@ Row(anchor, 5)
                   @@ [h \in UNION {Bs(end, r) : r \in 6 .. 8} |-> Bs(end, h[2] - 1)]
    IN [h \in DOMAIN edges |->
          [author |-> h[1], round |-> h[2], parents |-> edges[h],
           digest |-> 100 * h[2] + 10 * Number[h[1]] + h[3]]]

LOCAL ABC == {"a", "b", "c"}
LOCAL ABD == {"a", "b", "d"}
LOCAL ABX == {"a", "b", "x"}
LOCAL ACD == {"a", "c", "d"}
LOCAL BCD == {"b", "c", "d"}

(* Round 2: only a refers to d1; d refers to its other block, or to none.  *)
LOCAL Split  == [a |-> ABC \cup {"d"}, b |-> ABC, c |-> ABC, d |-> ABC \cup {"x"}]
LOCAL Single == [a |-> ABC \cup {"d"}, b |-> ABC, c |-> ABC, d |-> ABC]

(* Round 3: a, b and x support d1; or every block has both in its history; *)
(* or a and x alone support it.                                            *)
LOCAL ThreeVotes == [a |-> ABC, b |-> ABC, c |-> BCD, d |-> BCD, x |-> ABD]
LOCAL BothSeen   == [h \in Four \cup {"x"} |-> ABD]
LOCAL TwoVotes   == [a |-> ABC, b |-> BCD, c |-> BCD, d |-> BCD, x |-> ABC]

(* Round 4: the blocks of a, b and d may certify d1, or that of a alone.   *)
LOCAL ThreeCertify == [a |-> ABX, b |-> ABX, c |-> BCD, d |-> ABX]
LOCAL OneCertifies == [a |-> ABX, b |-> ABC, c |-> BCD, d |-> ACD]

(* Round 5: the first anchor b5 has a4 in its history, or only c5 has it.  *)
LOCAL InFirst  == [a |-> ABC, b |-> ABC, c |-> BCD, d |-> BCD]
LOCAL InSecond == [a |-> ABC, b |-> BCD, c |-> ABC, d |-> BCD]

(* From round 6 on nothing of d is referred to, or nothing of b, whose b5  *)
(* is skipped.                                                             *)
LOCAL Endings == {<<InFirst, ABC>>, <<InSecond, ABC>>, <<InSecond, ACD>>}

MahiWorld ==
    {Dag(refer, vote, certify, ending[1], ending[2]) :
        refer \in {Split, Single}, vote \in {ThreeVotes, BothSeen, TwoVotes},
        certify \in {ThreeCertify, OneCertifies}, ending \in Endings}
=============================================================================
