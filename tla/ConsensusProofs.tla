-------------------------- MODULE ConsensusProofs --------------------------
(***************************************************************************)
(* Proofs about Consensus: the Bullshark and Narwhal tasks, for any        *)
(* committee, DAG, garbage collection depth and order of delivery.         *)
(*                                                                         *)
(* Paths in the DAG are described as sets (Reach), and what the recursive  *)
(* functions of linked, order_dag and order_leaders compute is shown to be *)
(* such a set or a sequence of such leaders by an induction on rounds.     *)
(* The invariant then says of each output that its leaders determine each  *)
(* other from the last to the first, and the agreement of two outputs      *)
(* follows from the quorums that support their last leaders.               *)
(***************************************************************************)
EXTENDS Consensus, CommitteeProofs, FiniteSetTheorems, WellFoundedInduction,
        TLAPS

-----------------------------------------------------------------------------
(* Paths in the DAG.                                                       *)

(* The certificates on a path from l whose certificates, l apart, are all  *)
(* in D, as the smallest set that holds l and is closed under parents in   *)
(* D: linked and order_dag walk paths of this kind.                        *)
Reach(l, D) ==
    {p \in Header : \A S \in SUBSET Header :
                       l \in S /\ (\A x \in S : parents[x] \cap D \subseteq S) => p \in S}

(* The certificate l and all its ancestors.                                *)
History(l) == Reach(l, Header)

(* X holds the parents of what it holds, as what a primary has sent does.  *)
Closed(X) == \A x \in X : parents[x] \subseteq X

(* h is the certificate the coin selects in an even round                  *)
(* (Consensus::leader).                                                    *)
IsLeader(h) == round[h] >= 2 /\ round[h] % 2 = 0 /\ author[h] = leader_of[round[h]]

(* f + 1 certificates of the next round name l as a parent: the test run   *)
(* makes before it commits.                                                *)
Backed(l) == HasValidity(Authors({x \in Header : l \in parents[x]}))

(* Max, as State::update uses it, is the largest member of a bounded set   *)
(* of naturals.                                                            *)
LEMMA SetMax ==
    ASSUME NEW T \in SUBSET Nat, T # {}, NEW b \in Nat, \A x \in T : x <= b
    PROVE  /\ Max(T) \in T
           /\ \A x \in T : x <= Max(T)
<1>1. PICK m \in T : \A x \in T : x <= m
  BY NatMax
<1>. QED
  BY <1>1 DEF Max

(* What the assumptions say of one certificate: its fields, the round and  *)
(* the quorum of its parents, and that its slot is its own.                *)
LEMMA HeaderFacts ==
    ASSUME NEW h \in Header
    PROVE  /\ round[h] \in Nat /\ author[h] \in Authority /\ parents[h] \in SUBSET Header
           /\ \A p \in parents[h] : round[p] + 1 = round[h]
           /\ round[h] > 0 => HasQuorum(Authors(parents[h]))
           /\ \A g \in Header : round[g] = round[h] /\ author[g] = author[h] => g = h
BY HeaderAssumption, ConsensusAssumption DEF ValidParents, Conflicting, slot

(* The genesis holds the parents of its certificates, which have none.     *)
LEMMA GenesisClosed == Genesis \subseteq Header /\ Closed(Genesis)
BY GenesisAssumption DEF Closed

(* A path of length zero.                                                  *)
LEMMA ReachSelf ==
    ASSUME NEW l \in Header, NEW D
    PROVE  l \in Reach(l, D) /\ Reach(l, D) \subseteq Header
BY DEF Reach

(* A path is extended by a parent in D.                                    *)
LEMMA ReachParents ==
    ASSUME NEW l \in Header, NEW D, NEW x \in Reach(l, D), NEW p \in parents[x], p \in D
    PROVE  p \in Reach(l, D)
BY HeaderFacts DEF Reach

(* A set that holds l and is closed under parents in D holds every path.   *)
LEMMA ReachWithin ==
    ASSUME NEW D, NEW X \in SUBSET Header, \A x \in X : parents[x] \cap D \subseteq X,
           NEW l \in X
    PROVE  Reach(l, D) \subseteq X
BY DEF Reach

(* The last step of a path that is not empty.                              *)
LEMMA ReachChild ==
    ASSUME NEW l \in Header, NEW D, NEW p \in Reach(l, D), p # l
    PROVE  p \in D /\ \E y \in Reach(l, D) : p \in parents[y]
<1>. DEFINE S == {x \in Reach(l, D) : x = l \/ (x \in D /\ \E y \in Reach(l, D) : x \in parents[y])}
<1>1. l \in S /\ S \in SUBSET Header
  BY ReachSelf
<1>2. ASSUME NEW x \in S, NEW q \in parents[x], q \in D PROVE q \in S
  BY <1>2, ReachParents
<1>3. p \in S
  BY <1>1, <1>2 DEF Reach
<1>. QED
  BY <1>3

(* A path leads to lower rounds.                                           *)
LEMMA ReachRounds ==
    ASSUME NEW l \in Header, NEW D, NEW p \in Reach(l, D)
    PROVE  p = l \/ round[p] < round[l]
<1>. DEFINE S == {x \in Header : x = l \/ round[x] < round[l]}
<1>1. l \in S /\ S \in SUBSET Header
  OBVIOUS
<1>2. ASSUME NEW x \in S, NEW q \in parents[x] PROVE q \in S
  <2>1. q \in Header /\ round[q] + 1 = round[x] /\ round[q] \in Nat /\ round[l] \in Nat
    BY HeaderFacts
  <2>. QED
    BY <2>1
<1>3. p \in S
  BY <1>1, <1>2 DEF Reach
<1>. QED
  BY <1>3

(* A certificate is in its own history.                                    *)
LEMMA HistorySelf ==
    ASSUME NEW l \in Header
    PROVE  l \in History(l) /\ History(l) \subseteq Header
BY ReachSelf DEF History

(* A history holds the parents of what it holds.                           *)
LEMMA HistoryParents ==
    ASSUME NEW l \in Header, NEW x \in History(l), NEW p \in parents[x]
    PROVE  p \in History(l)
BY ReachParents, ReachSelf, HeaderFacts DEF History

(* What a primary has sent holds the whole history of every certificate in *)
(* it.                                                                     *)
LEMMA HistoryWithin ==
    ASSUME NEW X \in SUBSET Header, Closed(X), NEW l \in X
    PROVE  History(l) \subseteq X
BY ReachWithin DEF History, Closed

(* The ancestors are of lower rounds.                                      *)
LEMMA HistoryRounds ==
    ASSUME NEW l \in Header, NEW p \in History(l)
    PROVE  p = l \/ round[p] < round[l]
BY ReachRounds DEF History

(* The history of an ancestor is part of the history.                      *)
LEMMA HistoryTransitive ==
    ASSUME NEW l \in Header, NEW x \in History(l)
    PROVE  History(x) \subseteq History(l)
<1>1. History(l) \in SUBSET Header
  BY HistorySelf
<1>2. Closed(History(l))
  BY HistoryParents DEF Closed
<1>. QED
  BY <1>1, <1>2, HistoryWithin

(* A quorum of authors is not empty.                                       *)
LEMMA QuorumNonempty ==
    ASSUME NEW S, HasQuorum(Authors(S))
    PROVE  S # {}
<1>1. SUFFICES ASSUME S = {} PROVE FALSE
  OBVIOUS
<1>2. Authors(S) = {}
  BY <1>1 DEF Authors
<1>3. Weight[{}] = 0 /\ Weight[{}] >= quorum_threshold
  BY <1>2, WeightAssumption DEF HasQuorum
<1>. QED
  BY <1>3, Thresholds

(* A leader that f + 1 certificates support is an ancestor of every        *)
(* certificate two rounds later or more: the quorum of parents of that     *)
(* certificate meets its supporters, and an author has one certificate per *)
(* round.                                                                  *)
LEMMA BackedReached ==
    ASSUME NEW l \in Header, Backed(l)
    PROVE  \A x \in Header : round[x] >= round[l] + 2 => l \in History(x)
<1>. DEFINE P == {i \in Nat : \A x \in Header : round[x] = round[l] + 2 + i
                                                   => l \in History(x)}
<1>1. 0 \in P
  <2>. SUFFICES ASSUME NEW x \in Header, round[x] = round[l] + 2
                PROVE  l \in History(x)
    BY HeaderFacts
  <2>. DEFINE V == {y \in Header : l \in parents[y]}
  <2>1. HasQuorum(Authors(parents[x]))
    BY HeaderFacts
  <2>2. Authors(parents[x]) \in SUBSET Authority /\ Authors(V) \in SUBSET Authority
    BY HeaderFacts DEF Authors
  <2>3. PICK a \in Authors(parents[x]) : a \in Authors(V)
    BY <2>1, <2>2, QuorumMeetsValidity DEF Backed
  <2>4. PICK y \in parents[x] : a = author[y]
    BY DEF Authors
  <2>5. PICK z \in V : a = author[z]
    BY <2>3 DEF Authors
  <2>6. /\ y \in Header /\ round[y] + 1 = round[x] /\ round[y] \in Nat
        /\ z \in Header /\ round[l] + 1 = round[z] /\ round[z] \in Nat
        /\ round[l] \in Nat
    BY HeaderFacts
  <2>7. round[y] = round[z] /\ author[y] = author[z]
    BY <2>4, <2>5, <2>6
  <2>8. y = z
    BY <2>6, <2>7, HeaderFacts
  <2>9. y \in History(x)
    BY HistorySelf, HistoryParents
  <2>. QED
    BY <2>8, <2>9, HistoryParents
<1>2. ASSUME NEW i \in P PROVE i + 1 \in P
  <2>. SUFFICES ASSUME NEW x \in Header, round[x] = round[l] + 2 + (i + 1)
                PROVE  l \in History(x)
    OBVIOUS
  <2>0. round[l] \in Nat /\ i \in Nat
    BY HeaderFacts
  <2>1. HasQuorum(Authors(parents[x]))
    BY <2>0, HeaderFacts
  <2>2. PICK y \in parents[x] : TRUE
    BY <2>1, QuorumNonempty
  <2>3. y \in Header /\ round[y] \in Nat /\ round[y] + 1 = round[x]
    BY HeaderFacts
  <2>4. l \in History(y)
    BY <2>0, <2>3
  <2>5. y \in History(x)
    BY HistorySelf, HistoryParents
  <2>. QED
    BY <2>4, <2>5, HistoryTransitive
<1>3. P = Nat
  <2>. HIDE DEF P
  <2>. QED
    BY <1>1, <1>2, SetInduction, P \in SUBSET Nat DEF P
<1>4. ASSUME NEW x \in Header, round[x] >= round[l] + 2 PROVE l \in History(x)
  <2>1. round[x] \in Nat /\ round[l] \in Nat
    BY HeaderFacts
  <2>2. round[x] - (round[l] + 2) \in P
    BY <1>3, <1>4, <2>1
  <2>3. round[x] = round[l] + 2 + (round[x] - (round[l] + 2))
    BY <2>1
  <2>. QED
    BY <2>2, <2>3
<1>. QED
  BY <1>4

-----------------------------------------------------------------------------
(* The recursive functions of linked and order_dag compute paths.          *)

(* The dag of a task in state s holds nothing but what its primary sent,   *)
(* and all of it from the last committed round on.                         *)
Keeps(s, X) ==
    /\ s.dag \subseteq X
    /\ \A h \in X : round[h] >= s.last_committed_round => h \in s.dag

(* f is the function linked and order_dag compute: the certificates        *)
(* reached from l in D, round by round down to a.                          *)
IsLevels(f, l, D, a) ==
    f = [r \in a .. round[l] |->
           IF r = round[l] THEN {l}
           ELSE {x \in D : round[x] = r /\ \E y \in f[r + 1] : x \in parents[y]}]

(* That function exists, and its value at r is the set of the certificates *)
(* of round r on a path in D.                                              *)
LEMMA Levels ==
    ASSUME NEW l \in Header, NEW D \in SUBSET Header, NEW a \in Nat, a <= round[l]
    PROVE  /\ \E f : IsLevels(f, l, D, a)
           /\ \A f : IsLevels(f, l, D, a) =>
                 \A r \in a .. round[l] : f[r] = {x \in Reach(l, D) : round[x] = r}
<1>. DEFINE b == round[l]
            Up(r, Y) == {x \in D : round[x] = r /\ \E y \in Y : x \in parents[y]}
            G == [q \in (a .. b) \X SUBSET Header |-> Up(q[1], q[2])]
            IsLevel(f) == f = [r \in a .. b |-> IF r = b THEN {l} ELSE Up(r, f[r + 1])]
<1>1. a \in Nat /\ b \in Nat /\ a <= b
  BY HeaderFacts
<1>2. \E f : IsLevel(f)
  <2>1. G \in [(a .. b) \X SUBSET Header -> SUBSET Header]
    OBVIOUS
  <2>2. PICK f \in [a .. b -> SUBSET Header] :
            f[b] = {l} /\ \A r \in a .. b - 1 : f[r] = G[<<r, f[r + 1]>>]
    <3>. DEFINE V == SUBSET Header
    <3>1. {l} \in V /\ a \in Int /\ b \in Int /\ G \in [(a .. b) \X V -> V]
      BY <1>1, <2>1
    <3>. HIDE DEF G, b, V
    <3>2. \E f \in [a .. b -> V] : DownFrom(f, a, b, {l}, G)
      BY <1>1, <3>1, DownwardRecursion
    <3>. QED
      BY <3>2 DEF V, DownFrom
  <2>3. ASSUME NEW r \in a .. b - 1 PROVE f[r] = Up(r, f[r + 1])
    <3>1. r \in a .. b /\ f[r + 1] \in SUBSET Header
      BY <1>1
    <3>2. G[<<r, f[r + 1]>>] = Up(r, f[r + 1])
      BY <3>1
    <3>. QED
      BY <2>2, <3>2
  <2>4. \A r \in a .. b : r # b => r \in a .. b - 1
    BY <1>1
  <2>5. IsLevel(f)
    <3>. HIDE DEF G, Up, b
    <3>1. f = [r \in a .. b |-> f[r]]
      OBVIOUS
    <3>2. \A r \in a .. b : f[r] = IF r = b THEN {l} ELSE Up(r, f[r + 1])
      BY <2>2, <2>3, <2>4
    <3>. QED
      BY <3>1, <3>2
  <2>. HIDE DEF IsLevel
  <2>. QED
    BY <2>5
<1>3. ASSUME NEW g, IsLevel(g), NEW q \in a .. b
      PROVE  g[q] = {x \in Reach(l, D) : round[x] = q}
  <2>. DEFINE P == {i \in Nat : i <= b - a =>
                       g[b - i] = {x \in Reach(l, D) : round[x] = b - i}}
  <2>1. 0 \in P
    <3>1. g[b] = {l}
      BY <1>1, <1>3
    <3>2. {x \in Reach(l, D) : round[x] = b} = {l}
      BY ReachSelf, ReachRounds, HeaderFacts
    <3>3. b - 0 = b
      BY <1>1
    <3>. QED
      BY <3>1, <3>2, <3>3
  <2>2. ASSUME NEW i \in P PROVE i + 1 \in P
    <3>. SUFFICES ASSUME i + 1 <= b - a
                  PROVE  g[b - (i + 1)] = {x \in Reach(l, D) : round[x] = b - (i + 1)}
      OBVIOUS
    <3>. DEFINE c == b - (i + 1)
    <3>1. c \in a .. b /\ c # b /\ c + 1 = b - i /\ c \in Nat /\ i <= b - a /\ c < b
      BY <1>1
    <3>2. g[c] = Up(c, g[c + 1])
      BY <3>1, <1>3
    <3>3. g[c + 1] = {x \in Reach(l, D) : round[x] = c + 1}
      BY <3>1
    <3>4. ASSUME NEW x \in Up(c, g[c + 1]) PROVE x \in Reach(l, D) /\ round[x] = c
      BY <3>3, ReachParents
    <3>5. ASSUME NEW x \in Reach(l, D), round[x] = c PROVE x \in Up(c, g[c + 1])
      <4>1. x # l
        BY <3>1, <3>5
      <4>2. x \in D /\ \E y \in Reach(l, D) : x \in parents[y]
        BY <4>1, ReachChild
      <4>3. PICK y \in Reach(l, D) : x \in parents[y]
        BY <4>2
      <4>4. y \in Header /\ round[y] = c + 1
        BY <4>3, ReachSelf, HeaderFacts, <3>5
      <4>. QED
        BY <4>2, <4>3, <4>4, <3>3, <3>5
    <3>. QED
      BY <3>2, <3>4, <3>5
  <2>3. P = Nat
    <3>. HIDE DEF P
    <3>. QED
      BY <2>1, <2>2, SetInduction, P \in SUBSET Nat DEF P
  <2>4. b - q \in P /\ b - q <= b - a /\ b - (b - q) = q
    BY <2>3, <1>1
  <2>. QED
    BY <2>4
<1>4. \A f : IsLevel(f) <=> IsLevels(f, l, D, a)
  BY DEF IsLevels
<1>. HIDE DEF IsLevel, b
<1>5. \E f : IsLevels(f, l, D, a)
  BY <1>2, <1>4
<1>6. ASSUME NEW f, IsLevels(f, l, D, a)
      PROVE  \A r \in a .. b : f[r] = {x \in Reach(l, D) : round[x] = r}
  BY <1>3, <1>4, <1>6
<1>. QED
  BY <1>5, <1>6 DEF b

(* linked tells whether there is a path in the dag of the task.            *)
LEMMA LinkedIsReach ==
    ASSUME NEW s, s.dag \in SUBSET Header, NEW l \in Header, NEW p \in Header,
           round[p] <= round[l]
    PROVE  linked(s, l, p) <=> p \in Reach(l, s.dag)
<1>. DEFINE Reached(f) == f = [r \in round[p] .. round[l] |->
                           IF r = round[l] THEN {l}
                           ELSE {x \in At(s, r) : \E y \in f[r + 1] : x \in parents[y]}]
            g == CHOOSE f : Reached(f)
<1>1. \A f : IsLevels(f, l, s.dag, round[p]) <=> Reached(f)
  BY DEF At, IsLevels
<1>2. \E f : Reached(f)
  <2>1. \E f : IsLevels(f, l, s.dag, round[p])
    BY Levels, HeaderFacts
  <2>. HIDE DEF Reached
  <2>. QED
    BY <2>1, <1>1
<1>3. Reached(g)
  <2>. HIDE DEF Reached
  <2>. QED
    BY <1>2
<1>4. round[p] \in round[p] .. round[l]
  BY HeaderFacts
<1>5. g[round[p]] = {x \in Reach(l, s.dag) : round[x] = round[p]}
  <2>1. IsLevels(g, l, s.dag, round[p])
    BY <1>1, <1>3
  <2>. DEFINE D == s.dag
              a == round[p]
  <2>2. IsLevels(g, l, D, a) /\ D \in SUBSET Header /\ a \in Nat /\ a <= round[l]
    BY <2>1, HeaderFacts
  <2>3. \A r \in a .. round[l] : g[r] = {x \in Reach(l, D) : round[x] = r}
    <3>. HIDE DEF g, D, a
    <3>. QED
      BY <2>2, Levels
  <2>. HIDE DEF g
  <2>. QED
    BY <1>4, <2>3
<1>6. linked(s, l, p) <=> p \in g[round[p]]
  BY DEF linked
<1>. QED
  BY <1>5, <1>6

(* The certificates order_dag does not skip as the last committed of their *)
(* author.                                                                 *)
Fresh(s) == {x \in s.dag : s.last_committed[author[x]] # round[x]}

(* The search of order_dag collects the certificates on a path of fresh    *)
(* ones.                                                                   *)
LEMMA FlattenIsReach ==
    ASSUME NEW s, s.dag \in SUBSET Header, NEW l \in Header
    PROVE  Flatten(s, l) = Reach(l, Fresh(s))
<1>. DEFINE Level(f) == f = [r \in 0 .. round[l] |->
                           IF r = round[l] THEN {l}
                           ELSE {x \in At(s, r) : /\ \E y \in f[r + 1] : x \in parents[y]
                                                  /\ s.last_committed[author[x]] # r}]
            g == CHOOSE f : Level(f)
<1>1. \A f : IsLevels(f, l, Fresh(s), 0) <=> Level(f)
  BY DEF At, Fresh, IsLevels
<1>2. \E f : Level(f)
  <2>1. \E f : IsLevels(f, l, Fresh(s), 0)
    <3>1. Fresh(s) \in SUBSET Header /\ 0 \in Nat /\ 0 <= round[l]
      BY HeaderFacts DEF Fresh
    <3>. QED
      BY <3>1, Levels
  <2>. HIDE DEF Level
  <2>. QED
    BY <2>1, <1>1
<1>3. Level(g)
  <2>. HIDE DEF Level
  <2>. QED
    BY <1>2
<1>4. \A r \in 0 .. round[l] : g[r] = {x \in Reach(l, Fresh(s)) : round[x] = r}
  <2>1. IsLevels(g, l, Fresh(s), 0)
    BY <1>1, <1>3
  <2>2. Fresh(s) \in SUBSET Header
    BY DEF Fresh
  <2>. HIDE DEF g
  <2>. QED
    BY <2>1, <2>2, Levels, HeaderFacts
<1>5. Flatten(s, l) = UNION {g[r] : r \in 0 .. round[l]}
  BY DEF Flatten
<1>6. ASSUME NEW x \in Reach(l, Fresh(s)) PROVE round[x] \in 0 .. round[l]
  BY ReachSelf, ReachRounds, HeaderFacts
<1>7. ASSUME NEW r \in 0 .. round[l], NEW x \in g[r] PROVE x \in Reach(l, Fresh(s))
  BY <1>4
<1>8. ASSUME NEW x \in Reach(l, Fresh(s)) PROVE \E r \in 0 .. round[l] : x \in g[r]
  BY <1>4, <1>6
<1>. HIDE DEF g
<1>. QED
  BY <1>5, <1>7, <1>8

(* From the last committed round on, linked tells whether p is an ancestor *)
(* of l, whatever garbage collection removed below: the answer is the same *)
(* for every authority.                                                    *)
LEMMA LinkedIsHistory ==
    ASSUME NEW X \in SUBSET Header, Closed(X), NEW s, Keeps(s, X),
           s.last_committed_round \in Nat,
           NEW l \in X, NEW p \in Header,
           s.last_committed_round <= round[p], round[p] <= round[l]
    PROVE  linked(s, l, p) <=> p \in History(l)
<1>1. s.dag \in SUBSET Header
  BY DEF Keeps
<1>2. Reach(l, s.dag) \subseteq History(l)
  <2>1. \A x \in History(l) : parents[x] \cap s.dag \subseteq History(l)
    BY HistoryParents
  <2>. QED
    BY <2>1, HistorySelf, ReachWithin
<1>3. \A x \in History(l) : round[x] >= s.last_committed_round => x \in Reach(l, s.dag)
  <2>. DEFINE S == {x \in X : round[x] >= s.last_committed_round => x \in Reach(l, s.dag)}
  <2>1. l \in S
    BY ReachSelf
  <2>2. ASSUME NEW x \in S, NEW q \in parents[x] PROVE q \in S
    <3>1. q \in X /\ round[q] \in Nat /\ round[q] + 1 = round[x]
      BY HeaderFacts DEF Closed
    <3>2. ASSUME round[q] >= s.last_committed_round PROVE q \in Reach(l, s.dag)
      <4>1. q \in s.dag
        BY <3>1, <3>2 DEF Keeps
      <4>2. x \in Reach(l, s.dag)
        BY <3>1, <3>2
      <4>. QED
        BY <4>1, <4>2, ReachParents
    <3>. QED
      BY <3>1, <3>2
  <2>3. \A x \in S : parents[x] \cap Header \subseteq S
    BY <2>2
  <2>4. History(l) \subseteq S
    BY <2>1, <2>3, ReachWithin DEF History
  <2>. QED
    BY <2>4
<1>. QED
  BY <1>1, <1>2, <1>3, LinkedIsReach

-----------------------------------------------------------------------------
(* The leaders that order_leaders keeps.                                   *)

(* The sequence of an empty set.                                           *)
LEMMA SetToSeqEmpty == SetToSeq({}) = <<>>
<1>1. Cardinality({}) = 0
  BY FS_EmptySet
<1>2. \A f \in [1 .. 0 -> {}] : f = <<>> /\ IsInjective(f)
  BY DEF IsInjective
<1>3. <<>> \in [1 .. 0 -> {}]
  OBVIOUS
<1>. QED
  BY <1>1, <1>2, <1>3 DEF SetToSeq

(* The sequence of a set of one.                                           *)
LEMMA SetToSeqOne ==
    ASSUME NEW p
    PROVE  SetToSeq({p}) = <<p>>
<1>1. Cardinality({p}) = 1
  BY FS_Singleton
<1>2. \A f \in [1 .. 1 -> {p}] : f = <<p>> /\ IsInjective(f)
  BY DEF IsInjective
<1>3. <<p>> \in [1 .. 1 -> {p}]
  OBVIOUS
<1>. QED
  BY <1>1, <1>2, <1>3 DEF SetToSeq

(* p is the newest leader in the history of leader l: the one every        *)
(* authority commits just before l.                                        *)
Precedes(p, l) ==
    /\ IsLeader(p) /\ p \in History(l) /\ round[p] < round[l]
    /\ \A x \in History(l) : IsLeader(x) /\ x # l => round[x] <= round[p]

(* Each leader of q precedes the next.                                     *)
Linked(q) == \A i \in 1 .. Len(q) - 1 : Precedes(q[i], q[i + 1])

(* The leaders in the dag above the last committed round and below l: what *)
(* the two order_leaders look at.                                          *)
LeadersBetween(s, l) ==
    {p \in s.dag : IsLeader(p) /\ s.last_committed_round < round[p] /\ round[p] < round[l]}

(* q is what order_leaders has kept once it has looked at the rounds down  *)
(* to r: a linked sequence that ends in l, with no leader left out between *)
(* r and its first.                                                        *)
Kept(q, s, l, r) ==
    /\ q \in Seq(Header) /\ q # <<>> /\ q[Len(q)] = l
    /\ \A i \in 1 .. Len(q) : /\ q[i] \in s.dag /\ IsLeader(q[i])
                              /\ round[q[i]] > s.last_committed_round
    /\ Linked(q)
    /\ round[q[1]] >= r
    /\ \A x \in History(q[1]) : IsLeader(x) /\ x # q[1]
                                   => round[x] < r \/ round[x] <= s.last_committed_round

(* A round has one leader.                                                 *)
LEMMA OneLeader ==
    ASSUME NEW p \in Header, NEW q \in Header, IsLeader(p), IsLeader(q), round[p] = round[q]
    PROVE  p = q
BY HeaderFacts DEF IsLeader

(* order_leaders starts with the leader l alone.                           *)
LEMMA KeptOne ==
    ASSUME NEW s, s.dag \in SUBSET Header, s.last_committed_round \in Nat,
           NEW l \in s.dag, IsLeader(l), round[l] > s.last_committed_round
    PROVE  Kept(<<l>>, s, l, round[l])
<1>. DEFINE q == <<l>>
<1>1. q \in Seq(Header) /\ q # <<>> /\ Len(q) = 1 /\ q[1] = l
  OBVIOUS
<1>2. Linked(q)
  BY <1>1 DEF Linked
<1>3. \A x \in History(l) : x # l => round[x] < round[l]
  BY HistoryRounds
<1>4. round[l] \in Nat
  BY HeaderFacts
<1>. QED
  BY <1>1, <1>2, <1>3, <1>4 DEF Kept

(* One turn of order_leaders: the leader of round r, if there is one that  *)
(* the first leader kept has a path to, is put in front.                   *)
LEMMA KeptMore ==
    ASSUME NEW X \in SUBSET Header, Closed(X), NEW s, Keeps(s, X),
           s.last_committed_round \in Nat, NEW l \in s.dag,
           NEW r \in Nat, s.last_committed_round <= r, r < round[l],
           NEW q, Kept(q, s, l, r + 1)
    PROVE  Kept(SetToSeq({p \in LeadersBetween(s, l) :
                             round[p] = r /\ linked(s, Head(q), p)}) \o q, s, l, r)
<1>. DEFINE c == s.last_committed_round
            S == {p \in LeadersBetween(s, l) : round[p] = r /\ linked(s, Head(q), p)}
            y == q[1]
<1>1. /\ s.dag \in SUBSET Header /\ s.dag \subseteq X
      /\ q \in Seq(Header) /\ Len(q) \in Nat /\ Len(q) >= 1 /\ 1 \in 1 .. Len(q)
      /\ Head(q) = y /\ y \in s.dag /\ y \in X /\ y \in Header /\ IsLeader(y)
      /\ round[y] >= r + 1 /\ round[y] \in Nat
  BY HeaderFacts DEF Kept, Keeps
<1>2. \A p \in Header : round[p] = r => (linked(s, y, p) <=> p \in History(y))
  BY <1>1, LinkedIsHistory
<1>3. CASE S = {}
  <2>1. SetToSeq(S) \o q = q
    <3>1. SetToSeq(S) = <<>>
      BY <1>3, SetToSeqEmpty, Zenon
    <3>2. <<>> \o q = q
      BY <1>1
    <3>. QED
      BY <3>1, <3>2
  <2>2. ASSUME NEW x \in History(y), IsLeader(x), x # y
        PROVE  round[x] < r \/ round[x] <= c
    <3>1. x \in Header /\ round[x] \in Nat /\ x \in X
      BY <1>1, HistorySelf, HistoryWithin, HeaderFacts
    <3>2. round[x] < r + 1 \/ round[x] <= c
      BY <2>2 DEF Kept
    <3>3. ASSUME round[x] = r, r > c PROVE FALSE
      <4>1. x \in s.dag
        BY <3>1, <3>3 DEF Keeps
      <4>2. x \in LeadersBetween(s, l)
        BY <2>2, <3>3, <4>1 DEF LeadersBetween
      <4>3. x \in S
        BY <3>1, <3>3, <4>2, <1>1, <1>2
      <4>. QED
        BY <4>3, <1>3
    <3>. QED
      BY <3>1, <3>2, <3>3
  <2>3. Kept(q, s, l, r)
    BY <2>2, <1>1 DEF Kept
  <2>. QED
    BY <2>1, <2>3
<1>4. CASE S # {}
  <2>1. PICK p \in S : TRUE
    BY <1>4
  <2>2. /\ p \in s.dag /\ p \in Header /\ IsLeader(p) /\ round[p] = r /\ r > c
        /\ p \in History(y)
    BY <2>1, <1>1, <1>2 DEF LeadersBetween
  <2>3. S = {p}
    BY <2>1, <2>2, <1>1, OneLeader DEF LeadersBetween
  <2>. DEFINE t == <<p>> \o q
  <2>4. SetToSeq(S) \o q = t
    BY <2>3, SetToSeqOne
  <2>5. /\ t \in Seq(Header) /\ t # <<>> /\ Len(t) = Len(q) + 1 /\ t[1] = p
        /\ \A i \in 2 .. Len(t) : t[i] = q[i - 1] /\ i - 1 \in 1 .. Len(q)
        /\ t[Len(t)] = q[Len(q)]
    BY <1>1, <2>2
  <2>6. ASSUME NEW x \in History(y), IsLeader(x), x # y PROVE round[x] <= round[p]
    <3>1. x \in Header /\ round[x] \in Nat
      BY <1>1, HistorySelf, HeaderFacts
    <3>2. round[x] < r + 1 \/ round[x] <= c
      BY <2>6 DEF Kept
    <3>. QED
      BY <3>1, <3>2, <2>2
  <2>7. Precedes(p, y)
    BY <2>2, <2>6, <1>1 DEF Precedes
  <2>8. Linked(t)
    <3>. SUFFICES ASSUME NEW i \in 1 .. Len(t) - 1 PROVE Precedes(t[i], t[i + 1])
      BY DEF Linked
    <3>1. CASE i = 1
      BY <3>1, <2>5, <2>7
    <3>2. CASE i # 1
      <4>1. t[i] = q[i - 1] /\ t[i + 1] = q[i] /\ i - 1 \in 1 .. Len(q) - 1
        BY <3>2, <2>5, <1>1
      <4>2. Precedes(q[i - 1], q[(i - 1) + 1])
        BY <4>1 DEF Kept, Linked
      <4>3. (i - 1) + 1 = i
        OBVIOUS
      <4>. QED
        BY <4>1, <4>2, <4>3
    <3>. QED
      BY <3>1, <3>2
  <2>9. ASSUME NEW i \in 1 .. Len(t)
        PROVE  t[i] \in s.dag /\ IsLeader(t[i]) /\ round[t[i]] > c
    <3>1. CASE i = 1
      BY <3>1, <2>5, <2>2
    <3>2. CASE i # 1
      <4>1. t[i] = q[i - 1] /\ i - 1 \in 1 .. Len(q)
        BY <3>2, <2>5
      <4>. QED
        BY <4>1 DEF Kept
    <3>. QED
      BY <3>1, <3>2
  <2>10. \A x \in History(p) : x # p => round[x] < r
    BY <2>2, HistoryRounds
  <2>11. q[Len(q)] = l
    BY DEF Kept
  <2>12. Kept(t, s, l, r)
    <3>. HIDE DEF t
    <3>. QED
      BY <2>2, <2>5, <2>8, <2>9, <2>10, <2>11 DEF Kept
  <2>. QED
    BY <2>4, <2>12
<1>. QED
  BY <1>3, <1>4

(* order_leaders returns the leaders above the last committed round in the *)
(* history of l, each preceding the next.                                  *)
LEMMA ChainKept ==
    ASSUME NEW X \in SUBSET Header, Closed(X), NEW s, Keeps(s, X),
           s.last_committed_round \in Nat, NEW l \in s.dag,
           IsLeader(l), round[l] > s.last_committed_round
    PROVE  Kept(Chain(s, l, LeadersBetween(s, l)), s, l, s.last_committed_round)
<1>. DEFINE c == s.last_committed_round
            b == round[l]
            V == {q \in Seq(Header) : q # <<>>}
            More(r, q) == SetToSeq({p \in LeadersBetween(s, l) :
                                      round[p] = r /\ linked(s, Head(q), p)}) \o q
            G == [a \in (c .. b) \X V |-> More(a[1], a[2])]
            IsKeep(f) == f = [r \in c .. b |-> IF r = b THEN <<l>> ELSE More(r, f[r + 1])]
            keep == CHOOSE f : IsKeep(f)
<1>1. c \in Nat /\ b \in Nat /\ c <= b /\ l \in Header /\ s.dag \in SUBSET Header
  BY HeaderFacts DEF Keeps
<1>2. ASSUME NEW r \in c .. b, NEW q \in V PROVE More(r, q) \in V
  <2>. DEFINE S == {p \in LeadersBetween(s, l) : round[p] = r /\ linked(s, Head(q), p)}
  <2>1. q \in Seq(Header) /\ q # <<>>
    OBVIOUS
  <2>2. CASE S = {}
    <3>1. SetToSeq(S) = <<>>
      BY <2>2, SetToSeqEmpty, Zenon
    <3>2. <<>> \o q = q
      BY <2>1
    <3>. QED
      BY <3>1, <3>2
  <2>3. CASE S # {}
    <3>1. PICK p \in S : TRUE
      BY <2>3
    <3>2. p \in Header
      BY <3>1, <1>1 DEF LeadersBetween
    <3>3. S = {p}
      BY <3>1, <1>1, OneLeader DEF LeadersBetween
    <3>4. SetToSeq(S) = <<p>>
      BY <3>3, SetToSeqOne
    <3>5. <<p>> \o q \in Seq(Header) /\ <<p>> \o q # <<>>
      BY <2>1, <3>2
    <3>. QED
      BY <3>4, <3>5
  <2>. QED
    BY <2>2, <2>3
<1>3. \E f : IsKeep(f)
  <2>1. G \in [(c .. b) \X V -> V]
    <3>. HIDE DEF More, V
    <3>. QED
      BY <1>2
  <2>2. PICK f \in [c .. b -> V] :
            f[b] = <<l>> /\ \A r \in c .. b - 1 : f[r] = G[<<r, f[r + 1]>>]
    <3>1. <<l>> \in V /\ c \in Int /\ b \in Int
      BY <1>1
    <3>. DEFINE v == <<l>>
    <3>. HIDE DEF G, b, c, V, v
    <3>2. \E f \in [c .. b -> V] : DownFrom(f, c, b, v, G)
      BY <1>1, <2>1, <3>1, DownwardRecursion DEF v
    <3>. QED
      BY <3>2 DEF DownFrom, v
  <2>3. ASSUME NEW r \in c .. b - 1 PROVE f[r] = More(r, f[r + 1])
    <3>1. r \in c .. b /\ r + 1 \in c .. b
      BY <1>1
    <3>. HIDE DEF More, V
    <3>2. f[r + 1] \in V
      BY <3>1
    <3>3. G[<<r, f[r + 1]>>] = More(r, f[r + 1])
      BY <3>1, <3>2
    <3>. QED
      BY <2>2, <3>3
  <2>4. \A r \in c .. b : r # b => r \in c .. b - 1
    BY <1>1
  <2>5. IsKeep(f)
    <3>. HIDE DEF G, More, b, c, V
    <3>1. f = [r \in c .. b |-> f[r]]
      OBVIOUS
    <3>2. \A r \in c .. b : f[r] = IF r = b THEN <<l>> ELSE More(r, f[r + 1])
      BY <2>2, <2>3, <2>4
    <3>. QED
      BY <3>1, <3>2
  <2>. HIDE DEF IsKeep
  <2>. QED
    BY <2>5
<1>4. IsKeep(keep)
  <2>. HIDE DEF IsKeep
  <2>. QED
    BY <1>3
<1>. DEFINE K(i) == Kept(keep[b - i], s, l, b - i)
            P == {i \in Nat : i <= b - c => K(i)}
<1>5. 0 \in P
  <2>1. b - 0 = b /\ b \in c .. b
    BY <1>1
  <2>2. keep[b] = <<l>>
    <3>. HIDE DEF keep, More, b, c
    <3>. QED
      BY <2>1, <1>4
  <2>3. Kept(<<l>>, s, l, b)
    BY <1>1, KeptOne
  <2>. QED
    BY <2>1, <2>2, <2>3
<1>6. ASSUME NEW i \in P PROVE i + 1 \in P
  <2>. SUFFICES ASSUME i + 1 <= b - c PROVE K(i + 1)
    <3>. HIDE DEF K
    <3>. QED
      OBVIOUS
  <2>. DEFINE r == b - (i + 1)
  <2>1. r \in c .. b /\ r # b /\ r + 1 = b - i /\ r \in Nat /\ i <= b - c /\ r < b /\ c <= r
    BY <1>1
  <2>2. keep[r] = More(r, keep[r + 1])
    <3>. HIDE DEF keep, More, b, c, r
    <3>. QED
      BY <2>1, <1>4
  <2>3. Kept(keep[r + 1], s, l, r + 1)
    <3>1. K(i)
      <4>. HIDE DEF K
      <4>. QED
        BY <2>1
    <3>. QED
      BY <3>1, <2>1
  <2>4. Kept(More(r, keep[r + 1]), s, l, r)
    <3>. HIDE DEF keep, r
    <3>. QED
      BY <2>1, <2>3, KeptMore
  <2>. QED
    BY <2>2, <2>4
<1>7. P = Nat
  <2>. HIDE DEF P
  <2>. QED
    BY <1>5, <1>6, SetInduction, P \in SUBSET Nat DEF P
<1>8. b - c \in Nat /\ b - c <= b - c /\ b - (b - c) = c
  BY <1>1
<1>9. Kept(keep[c], s, l, c)
  <2>1. K(b - c)
    <3>. HIDE DEF K
    <3>. QED
      BY <1>7, <1>8
  <2>. HIDE DEF keep, b, c
  <2>. QED
    BY <1>8, <2>1
<1>10. Chain(s, l, LeadersBetween(s, l)) = keep[c]
  BY DEF Chain
<1>. QED
  BY <1>9, <1>10

-----------------------------------------------------------------------------
(* One sub-dag: order_dag and State::update.                               *)

(* The values of State.                                                    *)
States == [last_committed_round : Nat, last_committed : [Authority -> Nat],
           dag : SUBSET Header]

(* What one turn of the commit loop outputs.                               *)
Outputs == [leader : Header, certificates : SUBSET Header]

(* No author has a certificate committed above the last committed round.   *)
StateOK(s) ==
    /\ s \in States
    /\ \A a \in Authority : s.last_committed[a] <= s.last_committed_round

(* What order_dag returns for l: the leader and fresh certificates of      *)
(* lower rounds.                                                           *)
SubDag(s, l, xs) ==
    /\ xs \in SUBSET Header
    /\ l \in xs
    /\ \A x \in xs \ {l} : /\ x \in s.dag /\ round[x] < round[l]
                           /\ s.last_committed[author[x]] # round[x]

(* State::update over a whole sub-dag: the last committed round becomes    *)
(* that of the leader, last_committed grows to cover the sub-dag, and the  *)
(* dag is pruned by author and by gc_depth.                                *)
LEMMA UpdateFacts ==
    ASSUME NEW s, StateOK(s), NEW l \in Header, round[l] > s.last_committed_round,
           NEW xs, SubDag(s, l, xs)
    PROVE  /\ StateOK(update(s, xs))
           /\ update(s, xs).last_committed_round = round[l]
           /\ update(s, xs).last_committed = Committed(s, xs)
           /\ update(s, xs).dag = {h \in s.dag :
                                     /\ round[h] >= Committed(s, xs)[author[h]]
                                     /\ round[h] + gc_depth >= round[l]}
           /\ \A a \in Authority : s.last_committed[a] <= Committed(s, xs)[a]
           /\ \A x \in xs : round[x] <= Committed(s, xs)[author[x]]
<1>. DEFINE last == Committed(s, xs)
            of(a) == {round[x] : x \in {y \in xs : author[y] = a}} \cup {s.last_committed[a]}
            b == round[l]
            t == update(s, xs)
<1>1. /\ s \in States /\ b \in Nat /\ s.last_committed_round \in Nat
      /\ \A x \in xs : x \in Header /\ round[x] \in Nat /\ round[x] <= b /\ author[x] \in Authority
      /\ l \in xs
  BY HeaderFacts DEF StateOK, SubDag, States
<1>2. last = [a \in Authority |-> Max(of(a))]
  BY DEF Committed
<1>3. ASSUME NEW a \in Authority
      PROVE  /\ last[a] = Max(of(a)) /\ last[a] \in of(a) /\ last[a] \in Nat /\ last[a] <= b
             /\ \A x \in of(a) : x <= last[a]
  <2>1. of(a) \in SUBSET Nat /\ of(a) # {} /\ \A x \in of(a) : x <= b
    <3>1. s.last_committed[a] \in Nat /\ s.last_committed[a] <= b
      BY <1>1 DEF StateOK, States
    <3>. QED
      BY <1>1, <3>1
  <2>. HIDE DEF of
  <2>2. Max(of(a)) \in of(a) /\ \A x \in of(a) : x <= Max(of(a))
    BY <2>1, <1>1, SetMax
  <2>. QED
    BY <1>2, <2>1, <2>2
<1>4. /\ last \in [Authority -> Nat]
      /\ \A a \in Authority : s.last_committed[a] <= last[a] /\ last[a] <= b
      /\ \A x \in xs : round[x] <= last[author[x]]
  <2>1. last \in [Authority -> Nat]
    <3>. HIDE DEF of, last
    <3>. QED
      BY <1>2, <1>3
  <2>2. \A a \in Authority : s.last_committed[a] \in of(a)
    OBVIOUS
  <2>3. \A x \in xs : round[x] \in of(author[x])
    OBVIOUS
  <2>. HIDE DEF of, last
  <2>. QED
    BY <1>1, <1>3, <2>1, <2>2, <2>3
<1>. DEFINE T == {last[a] : a \in Authority}
<1>5. Max(T) = b
  <2>1. author[l] \in Authority /\ last[author[l]] = b
    <3>. HIDE DEF last
    <3>. QED
      BY <1>1, <1>4
  <2>2. T \in SUBSET Nat /\ T # {} /\ \A x \in T : x <= b
    <3>. HIDE DEF last
    <3>. QED
      BY <1>4, <2>1
  <2>3. b \in T
    BY <2>1
  <2>. HIDE DEF T, b
  <2>4. Max(T) \in T /\ b <= Max(T) /\ Max(T) <= b
    BY <2>2, <2>3, <1>1, SetMax
  <2>5. Max(T) \in Nat /\ b \in Nat
    BY <2>2, <2>4, <1>1
  <2>. QED
    BY <2>4, <2>5
<1>6. t = [s EXCEPT !.last_committed_round = b, !.last_committed = last,
                    !.dag = {h \in s.dag : /\ round[h] >= last[author[h]]
                                           /\ round[h] + gc_depth >= b}]
  <2>. HIDE DEF last
  <2>. QED
    BY <1>5 DEF update, last
<1>7. /\ t \in States
      /\ t.last_committed_round = b /\ t.last_committed = last
      /\ t.dag = {h \in s.dag : /\ round[h] >= last[author[h]]
                                /\ round[h] + gc_depth >= b}
  <2>. HIDE DEF last, t, b
  <2>. QED
    BY <1>1, <1>4, <1>6 DEF States
<1>8. StateOK(t)
  <2>. HIDE DEF last, t, b
  <2>. QED
    BY <1>4, <1>7 DEF StateOK
<1>. QED
  BY <1>4, <1>7, <1>8

(* Where D is part of E from round m on, so are the paths that stay there. *)
LEMMA ReachMonotone ==
    ASSUME NEW l \in Header, NEW D, NEW E, NEW m \in Int,
           \A x \in History(l) : x \in D /\ round[x] >= m => x \in E
    PROVE  \A x \in Reach(l, D) : round[x] >= m => x \in Reach(l, E)
<1>. DEFINE S == {x \in History(l) : round[x] >= m => x \in Reach(l, E)}
<1>1. l \in S
  BY ReachSelf, HistorySelf
<1>2. ASSUME NEW x \in S, NEW q \in parents[x], q \in D PROVE q \in S
  <2>1. x \in Header /\ q \in History(l) /\ q \in Header
    BY HistorySelf, HistoryParents
  <2>2. round[q] \in Nat /\ round[q] + 1 = round[x]
    BY <2>1, HeaderFacts
  <2>3. ASSUME round[q] >= m PROVE q \in Reach(l, E)
    <3>1. x \in Reach(l, E)
      BY <2>2, <2>3
    <3>2. q \in E
      BY <1>2, <2>1, <2>3
    <3>. QED
      BY <3>1, <3>2, ReachParents
  <2>. QED
    BY <2>1, <2>3
<1>3. S \in SUBSET Header /\ \A x \in S : parents[x] \cap D \subseteq S
  BY <1>2, HistorySelf
<1>4. Reach(l, D) \subseteq S
  BY <1>1, <1>3, ReachWithin
<1>. QED
  BY <1>4

(* The certificates a commit of l orders, when last_committed is last and  *)
(* last_committed_round is c: nothing in it depends on the authority.      *)
Ordered(last, c, l) ==
    Reach(l, {x \in Header : round[x] > last[author[x]] /\ round[x] + gc_depth >= c})

(* order_dag of protocol p: that of Narwhal does not filter by gc_depth.   *)
OrderDag(p, s, l) ==
    IF p = "Narwhal" THEN Flatten(s, l)
    ELSE {x \in Flatten(s, l) : round[x] + gc_depth >= s.last_committed_round}

(* Within gc_depth of the last committed round, the dag holds exactly the  *)
(* certificates received that are not below the last committed of their    *)
(* author.                                                                 *)
DagExact(s, X) ==
    \A x \in X : round[x] + gc_depth >= s.last_committed_round
                   => (x \in s.dag <=> round[x] >= s.last_committed[author[x]])

(* Nothing in the dag is older than gc_depth.                              *)
DagRecent(s) == \A x \in s.dag : round[x] + gc_depth >= s.last_committed_round

(* What order_dag returns is a sub-dag.                                    *)
LEMMA OrderDagSubDag ==
    ASSUME NEW p, NEW s, StateOK(s), NEW l \in Header, round[l] > s.last_committed_round
    PROVE  SubDag(s, l, OrderDag(p, s, l))
<1>1. s.dag \in SUBSET Header /\ s.last_committed_round \in Nat
  BY DEF StateOK, States
<1>2. Flatten(s, l) = Reach(l, Fresh(s))
  BY <1>1, FlattenIsReach
<1>3. l \in Reach(l, Fresh(s)) /\ Reach(l, Fresh(s)) \subseteq Header
  BY ReachSelf
<1>4. \A x \in Reach(l, Fresh(s)) : x # l => x \in Fresh(s) /\ round[x] < round[l]
  BY ReachChild, ReachRounds
<1>5. round[l] + gc_depth >= s.last_committed_round
  BY <1>1, HeaderFacts, GcDepthAssumption
<1>6. OrderDag(p, s, l) \subseteq Flatten(s, l) /\ l \in OrderDag(p, s, l)
  BY <1>2, <1>3, <1>5 DEF OrderDag
<1>. QED
  BY <1>2, <1>3, <1>4, <1>6 DEF SubDag, Fresh

(* When the dag is exact, order_dag returns what Ordered says: it does not *)
(* matter what else the authority received, nor in which order. For        *)
(* Narwhal the dag must be recent besides, as its order_dag does not       *)
(* filter.                                                                 *)
LEMMA OrderDagOrdered ==
    ASSUME NEW p, NEW X \in SUBSET Header, Closed(X), NEW s, StateOK(s), s.dag \subseteq X,
           DagExact(s, X), p = "Narwhal" => DagRecent(s),
           NEW l \in X, round[l] > s.last_committed_round
    PROVE  OrderDag(p, s, l) = Ordered(s.last_committed, s.last_committed_round, l)
<1>. DEFINE c == s.last_committed_round
            F == Fresh(s)
            E == {x \in Header : /\ round[x] > s.last_committed[author[x]]
                                 /\ round[x] + gc_depth >= c}
            m == c - gc_depth
<1>1. /\ s.dag \in SUBSET Header /\ c \in Nat /\ gc_depth \in Nat /\ m \in Int
      /\ History(l) \subseteq X /\ l \in Header
      /\ \A x \in X : x \in Header /\ round[x] \in Nat /\ s.last_committed[author[x]] \in Nat
      /\ \A x \in X : round[x] >= m <=> round[x] + gc_depth >= c
  BY HistoryWithin, HeaderFacts, GcDepthAssumption DEF StateOK, States
<1>2. \A x \in X : round[x] >= m => (x \in F <=> x \in E)
  <2>. SUFFICES ASSUME NEW x \in X, round[x] >= m PROVE x \in F <=> x \in E
    OBVIOUS
  <2>1. x \in s.dag <=> round[x] >= s.last_committed[author[x]]
    BY <1>1 DEF DagExact
  <2>. QED
    BY <2>1, <1>1 DEF Fresh
<1>3. Flatten(s, l) = Reach(l, F)
  BY <1>1, FlattenIsReach
<1>4. \A x \in Reach(l, F) : round[x] >= m => x \in Reach(l, E)
  <2>1. \A x \in History(l) : x \in F /\ round[x] >= m => x \in E
    BY <1>1, <1>2
  <2>. HIDE DEF F, E, m
  <2>. QED
    BY <2>1, <1>1, ReachMonotone
<1>5. \A x \in Reach(l, E) : round[x] >= m => x \in Reach(l, F)
  <2>1. \A x \in History(l) : x \in E /\ round[x] >= m => x \in F
    BY <1>1, <1>2
  <2>. HIDE DEF F, E, m
  <2>. QED
    BY <2>1, <1>1, ReachMonotone
<1>6. \A x \in Reach(l, E) : x \in X /\ round[x] + gc_depth >= c
  <2>1. Reach(l, E) \subseteq History(l)
    <3>1. \A x \in History(l) : parents[x] \cap E \subseteq History(l)
      BY <1>1, HistoryParents
    <3>. HIDE DEF E
    <3>. QED
      BY <3>1, <1>1, HistorySelf, ReachWithin
  <2>2. round[l] + gc_depth >= c
    BY <1>1
  <2>3. \A x \in Reach(l, E) : x # l => x \in E
    BY <1>1, ReachChild
  <2>. QED
    BY <1>1, <2>1, <2>2, <2>3
<1>7. \A x \in Reach(l, F) : x \in X
  <2>1. \A x \in Reach(l, F) : x # l => x \in F
    BY <1>1, ReachChild
  <2>. QED
    BY <2>1 DEF Fresh
<1>8. CASE p = "Narwhal"
  <2>1. \A x \in Reach(l, F) : round[x] + gc_depth >= c
    <3>1. \A x \in Reach(l, F) : x # l => x \in F
      BY <1>1, ReachChild
    <3>2. round[l] + gc_depth >= c
      BY <1>1
    <3>. QED
      BY <3>1, <3>2, <1>8 DEF Fresh, DagRecent
  <2>2. Reach(l, F) = Reach(l, E)
    <3>. HIDE DEF F, E, m
    <3>. QED
      BY <1>1, <1>4, <1>5, <1>6, <1>7, <2>1
  <2>. QED
    BY <2>2, <1>3, <1>8 DEF OrderDag, Ordered
<1>9. CASE p # "Narwhal"
  <2>1. {x \in Reach(l, F) : round[x] + gc_depth >= c} = Reach(l, E)
    <3>. HIDE DEF F, E, m
    <3>. QED
      BY <1>1, <1>4, <1>5, <1>6, <1>7
  <2>. QED
    BY <2>1, <1>3, <1>9 DEF OrderDag, Ordered
<1>. QED
  BY <1>8, <1>9

-----------------------------------------------------------------------------
(* The output of one authority, and what a commit adds to it.              *)

(* The last leader that output o commits.                                  *)
LastLeader(o) == o[Len(o)].leader

(* The history of l holds no other leader.                                 *)
First(l) == \A x \in History(l) : IsLeader(x) => x = l

(* The leaders of an output are linked, and the first has no leader in its *)
(* history: the sequence is determined by its last element.                *)
LeadersOK(o) ==
    /\ \A i \in 1 .. Len(o) : IsLeader(o[i].leader)
    /\ \A i \in 1 .. Len(o) - 1 : Precedes(o[i].leader, o[i + 1].leader)
    /\ o # <<>> => First(o[1].leader)

(* Leader l is the next one after output o.                                *)
Follows(o, l) == IF o = <<>> THEN First(l) ELSE Precedes(LastLeader(o), l)

(* last_committed_round when the i-th leader of output o was committed.    *)
RoundBefore(o, i) == IF i = 1 THEN 0 ELSE round[o[i - 1].leader]

(* last_committed after a commit of xs.                                    *)
After(last, xs) == Committed([last_committed |-> last], xs)

(* w holds the value of last_committed after each element of output o, and *)
(* each element is what Ordered makes of the value before it.              *)
Replays(o, w) ==
    /\ w[0] = [a \in Authority |-> 0]
    /\ \A i \in 1 .. Len(o) :
          /\ o[i].certificates = Ordered(w[i - 1], RoundBefore(o, i), o[i].leader)
          /\ w[i] = After(w[i - 1], o[i].certificates)

(* What was output is covered by last_committed, the dag holds nothing     *)
(* below last_committed but what was late, and nothing but what was late   *)
(* was output twice.                                                       *)
OnceOK(s, o, lt) ==
    /\ \A i \in 1 .. Len(o) : \A x \in o[i].certificates :
          round[x] <= s.last_committed[author[x]]
    /\ \A x \in s.dag : round[x] < s.last_committed[author[x]] => x \in lt
    /\ \A i, j \in 1 .. Len(o) :
          i # j => o[i].certificates \cap o[j].certificates \subseteq lt

(* As long as nothing was late: the dag is exact, recent for Narwhal, and  *)
(* the output can be replayed.                                             *)
CleanOK(p, X, s, o) ==
    /\ DagExact(s, X)
    /\ p = "Narwhal" => DagRecent(s)
    /\ \E w : Replays(o, w) /\ w[Len(o)] = s.last_committed

(* What holds of the task of one authority: X is what its primary has sent *)
(* it, lt what of it was late, s its state and o its output.               *)
TaskOK(p, X, lt, s, o) ==
    /\ StateOK(s)
    /\ Keeps(s, X)
    /\ o \in Seq(Outputs)
    /\ LeadersOK(o)
    /\ s.last_committed_round = IF o = <<>> THEN 0 ELSE round[LastLeader(o)]
    /\ OnceOK(s, o, lt)
    /\ lt = {} => CleanOK(p, X, s, o)

(* The elements of a sequence with one more.                               *)
LEMMA AppendFacts ==
    ASSUME NEW o \in Seq(Outputs), NEW e \in Outputs
    PROVE  /\ Append(o, e) \in Seq(Outputs) /\ Append(o, e) # <<>>
           /\ Len(o) \in Nat /\ Len(Append(o, e)) = Len(o) + 1
           /\ \A i \in 1 .. Len(o) : Append(o, e)[i] = o[i] /\ o[i] \in Outputs
           /\ Append(o, e)[Len(o) + 1] = e
           /\ o # <<>> <=> Len(o) > 0
OBVIOUS

(* The output stays linked when its next leader is added.                  *)
LEMMA LeadersAppend ==
    ASSUME NEW o \in Seq(Outputs), LeadersOK(o), NEW l \in Header, IsLeader(l), Follows(o, l),
           NEW xs \in SUBSET Header
    PROVE  LeadersOK(Append(o, [leader |-> l, certificates |-> xs]))
<1>. DEFINE e == [leader |-> l, certificates |-> xs]
            q == Append(o, e)
<1>1. e \in Outputs /\ e.leader = l
  BY DEF Outputs
<1>. HIDE DEF e
<1>2. /\ Len(o) \in Nat /\ Len(q) = Len(o) + 1 /\ q # <<>>
      /\ \A i \in 1 .. Len(o) : q[i] = o[i]
      /\ q[Len(o) + 1] = e
      /\ o # <<>> <=> Len(o) > 0
  BY <1>1, AppendFacts
<1>. HIDE DEF q
<1>3. ASSUME NEW i \in 1 .. Len(q) PROVE IsLeader(q[i].leader)
  <2>1. i \in 1 .. Len(o) \/ i = Len(o) + 1
    BY <1>2
  <2>. QED
    BY <2>1, <1>1, <1>2 DEF LeadersOK
<1>4. ASSUME NEW i \in 1 .. Len(q) - 1 PROVE Precedes(q[i].leader, q[i + 1].leader)
  <2>1. CASE i = Len(o)
    BY <2>1, <1>1, <1>2 DEF Follows, LastLeader
  <2>2. CASE i # Len(o)
    <3>1. i \in 1 .. Len(o) - 1 /\ i \in 1 .. Len(o) /\ i + 1 \in 1 .. Len(o)
      BY <2>2, <1>2
    <3>. QED
      BY <3>1, <1>2 DEF LeadersOK
  <2>. QED
    BY <2>1, <2>2
<1>5. First(q[1].leader)
  <2>1. CASE o = <<>>
    BY <2>1, <1>1, <1>2 DEF Follows
  <2>2. CASE o # <<>>
    BY <2>2, <1>2 DEF LeadersOK
  <2>. QED
    BY <2>1, <2>2
<1>6. LeadersOK(q)
  BY <1>3, <1>4, <1>5 DEF LeadersOK
<1>. QED
  BY <1>6 DEF q, e

(* A commit outputs nothing twice that was not late: what order_dag        *)
(* returns is above last_committed unless it was late, and update takes    *)
(* the rest out of the dag.                                                *)
LEMMA OnceAppend ==
    ASSUME NEW s, StateOK(s), NEW lt, NEW o \in Seq(Outputs), OnceOK(s, o, lt),
           NEW l \in Header, round[l] > s.last_committed_round, NEW xs, SubDag(s, l, xs)
    PROVE  OnceOK(update(s, xs), Append(o, [leader |-> l, certificates |-> xs]), lt)
<1>. DEFINE e == [leader |-> l, certificates |-> xs]
            q == Append(o, e)
            t == update(s, xs)
<1>1. e \in Outputs /\ e.certificates = xs /\ xs \in SUBSET Header
  BY DEF Outputs, SubDag
<1>. HIDE DEF e
<1>2. /\ Len(o) \in Nat /\ Len(q) = Len(o) + 1
      /\ \A i \in 1 .. Len(o) : q[i] = o[i] /\ o[i].certificates \in SUBSET Header
      /\ q[Len(o) + 1] = e
  BY <1>1, AppendFacts DEF Outputs
<1>3. /\ \A a \in Authority : /\ s.last_committed[a] <= t.last_committed[a]
                              /\ s.last_committed[a] \in Nat /\ t.last_committed[a] \in Nat
      /\ \A x \in xs : round[x] <= t.last_committed[author[x]]
      /\ \A x \in t.dag : x \in s.dag /\ round[x] >= t.last_committed[author[x]]
  BY UpdateFacts, SMTT(30) DEF StateOK, States
<1>4. \A i \in 1 .. Len(q) : i \in 1 .. Len(o) \/ i = Len(o) + 1
  BY <1>2
<1>5. \A x \in Header : round[x] \in Nat /\ author[x] \in Authority
  BY HeaderFacts
<1>. HIDE DEF q, t
<1>6. ASSUME NEW i \in 1 .. Len(q), NEW x \in q[i].certificates
      PROVE  round[x] <= t.last_committed[author[x]]
  <2>1. CASE i \in 1 .. Len(o)
    <3>1. x \in o[i].certificates /\ x \in Header
      BY <2>1, <1>2
    <3>2. round[x] <= s.last_committed[author[x]]
      BY <2>1, <3>1 DEF OnceOK
    <3>. QED
      BY <3>1, <3>2, <1>3, <1>5
  <2>2. CASE i = Len(o) + 1
    BY <2>2, <1>1, <1>2, <1>3
  <2>. QED
    BY <2>1, <2>2, <1>4
<1>7. ASSUME NEW x \in t.dag PROVE ~(round[x] < t.last_committed[author[x]])
  <2>1. x \in Header
    BY <1>3 DEF StateOK, States
  <2>. QED
    BY <2>1, <1>3, <1>5
<1>8. ASSUME NEW i \in 1 .. Len(o), NEW x \in o[i].certificates, x \in xs PROVE x \in lt
  <2>1. x \in Header /\ round[x] <= s.last_committed[author[x]]
    BY <1>1, <1>8 DEF OnceOK
  <2>2. x # l
    <3>1. s.last_committed[author[l]] <= s.last_committed_round /\ s.last_committed_round \in Nat
      BY <1>5 DEF StateOK, States
    <3>. QED
      BY <2>1, <3>1, <1>3, <1>5
  <2>3. x \in s.dag /\ s.last_committed[author[x]] # round[x]
    BY <1>8, <2>2 DEF SubDag
  <2>4. round[x] < s.last_committed[author[x]]
    BY <2>1, <2>3, <1>3, <1>5
  <2>. QED
    BY <2>3, <2>4 DEF OnceOK
<1>9. ASSUME NEW i \in 1 .. Len(q), NEW j \in 1 .. Len(q), i # j,
             NEW x \in q[i].certificates, x \in q[j].certificates
      PROVE  x \in lt
  <2>1. CASE i \in 1 .. Len(o) /\ j \in 1 .. Len(o)
    BY <2>1, <1>2, <1>9 DEF OnceOK
  <2>2. CASE i \in 1 .. Len(o) /\ j = Len(o) + 1
    BY <2>2, <1>1, <1>2, <1>8, <1>9
  <2>3. CASE i = Len(o) + 1 /\ j \in 1 .. Len(o)
    BY <2>3, <1>1, <1>2, <1>8, <1>9
  <2>. QED
    BY <2>1, <2>2, <2>3, <1>4, <1>9
<1>10. OnceOK(t, q, lt)
  BY <1>6, <1>7, <1>9 DEF OnceOK
<1>. QED
  BY <1>10 DEF q, t, e

(* The replay of an output extends to what a commit adds.                  *)
LEMMA ReplayAppend ==
    ASSUME NEW o \in Seq(Outputs), NEW w, Replays(o, w), NEW l \in Header,
           NEW xs \in SUBSET Header, NEW c,
           c = IF o = <<>> THEN 0 ELSE round[LastLeader(o)],
           xs = Ordered(w[Len(o)], c, l)
    PROVE  LET q == Append(o, [leader |-> l, certificates |-> xs])
           IN \E v : Replays(q, v) /\ v[Len(q)] = After(w[Len(o)], xs)
<1>. DEFINE e == [leader |-> l, certificates |-> xs]
            q == Append(o, e)
            k == Len(o)
            v == [i \in 0 .. k + 1 |-> IF i = k + 1 THEN After(w[k], xs) ELSE w[i]]
<1>1. e \in Outputs /\ e.certificates = xs /\ e.leader = l
  BY DEF Outputs
<1>. HIDE DEF e
<1>2. /\ k \in Nat /\ Len(q) = k + 1 /\ (o # <<>> <=> k > 0)
      /\ \A i \in 1 .. k : q[i] = o[i]
      /\ q[k + 1] = e
  BY <1>1, AppendFacts
<1>3. /\ \A i \in 0 .. k : v[i] = w[i]
      /\ v[k + 1] = After(w[k], xs)
  BY <1>2
<1>. HIDE DEF q, v, k
<1>4. ASSUME NEW i \in 1 .. Len(q)
      PROVE  /\ q[i].certificates = Ordered(v[i - 1], RoundBefore(q, i), q[i].leader)
             /\ v[i] = After(v[i - 1], q[i].certificates)
  <2>1. CASE i = k + 1
    <3>1. v[i - 1] = w[k] /\ v[i] = After(w[k], xs) /\ q[i] = e
      BY <2>1, <1>2, <1>3
    <3>2. RoundBefore(q, i) = c
      BY <2>1, <1>2 DEF RoundBefore, LastLeader, k
    <3>. QED
      BY <3>1, <3>2, <1>1 DEF k
  <2>2. CASE i # k + 1
    <3>1. i \in 1 .. k /\ i - 1 \in 0 .. k /\ i \in 0 .. k /\ (i # 1 => i - 1 \in 1 .. k)
      BY <2>2, <1>2
    <3>2. v[i - 1] = w[i - 1] /\ v[i] = w[i] /\ q[i] = o[i]
      BY <3>1, <1>2, <1>3
    <3>3. RoundBefore(q, i) = RoundBefore(o, i)
      BY <3>1, <1>2 DEF RoundBefore
    <3>. QED
      BY <3>1, <3>2, <3>3 DEF Replays, k
  <2>. QED
    BY <2>1, <2>2
<1>5. v[0] = [a \in Authority |-> 0]
  BY <1>2, <1>3 DEF Replays
<1>6. Replays(q, v) /\ v[Len(q)] = After(w[k], xs)
  BY <1>2, <1>3, <1>4, <1>5 DEF Replays
<1>. QED
  BY <1>6 DEF q, e, k

(* A commit leaves the dag exact, and its output is replayed.              *)
LEMMA CleanAppend ==
    ASSUME NEW p, NEW X \in SUBSET Header, Closed(X), NEW s, StateOK(s), Keeps(s, X),
           NEW o \in Seq(Outputs), CleanOK(p, X, s, o),
           s.last_committed_round = IF o = <<>> THEN 0 ELSE round[LastLeader(o)],
           NEW l \in X, round[l] > s.last_committed_round
    PROVE  LET xs == OrderDag(p, s, l)
           IN CleanOK(p, X, update(s, xs), Append(o, [leader |-> l, certificates |-> xs]))
<1>. DEFINE xs == OrderDag(p, s, l)
            t == update(s, xs)
            q == Append(o, [leader |-> l, certificates |-> xs])
            c == s.last_committed_round
            last == Committed(s, xs)
<1>1. SubDag(s, l, xs)
  BY OrderDagSubDag
<1>. HIDE DEF xs
<1>2. /\ StateOK(t) /\ t.last_committed_round = round[l] /\ t.last_committed = last
      /\ t.dag = {h \in s.dag : round[h] >= last[author[h]] /\ round[h] + gc_depth >= round[l]}
      /\ \A a \in Authority : s.last_committed[a] <= last[a]
  BY <1>1, UpdateFacts
<1>3. xs = Ordered(s.last_committed, c, l)
  BY OrderDagOrdered DEF xs, CleanOK, Keeps
<1>4. xs \in SUBSET Header
  BY <1>1 DEF SubDag
<1>5. last = After(s.last_committed, xs)
  BY DEF After, Committed
<1>6. \E v : Replays(q, v) /\ v[Len(q)] = t.last_committed
  <2>1. PICK w : Replays(o, w) /\ w[Len(o)] = s.last_committed
    BY DEF CleanOK
  <2>2. xs = Ordered(w[Len(o)], c, l) /\ last = After(w[Len(o)], xs)
    BY <2>1, <1>3, <1>5
  <2>. HIDE DEF c, last, t
  <2>3. c = IF o = <<>> THEN 0 ELSE round[LastLeader(o)]
    BY DEF c
  <2>. QED
    BY <2>1, <2>2, <2>3, <1>2, <1>4, ReplayAppend
<1>7. /\ c \in Nat /\ round[l] \in Nat /\ gc_depth \in Nat
      /\ \A a \in Authority : s.last_committed[a] \in Nat /\ last[a] \in Nat
      /\ \A x \in X : x \in Header /\ round[x] \in Nat /\ author[x] \in Authority
  BY <1>2, HeaderFacts, GcDepthAssumption DEF StateOK, States
<1>8. DagRecent(t)
  <2>. HIDE DEF t, last
  <2>. QED
    BY <1>2 DEF DagRecent
<1>9. DagExact(t, X)
  <2>. HIDE DEF t, last, c
  <2>. SUFFICES ASSUME NEW x \in X, round[x] + gc_depth >= round[l]
                PROVE  x \in t.dag <=> round[x] >= last[author[x]]
    BY <1>2 DEF DagExact
  <2>1. round[x] + gc_depth >= s.last_committed_round
    BY <1>7 DEF c
  <2>2. x \in s.dag <=> round[x] >= s.last_committed[author[x]]
    BY <2>1 DEF CleanOK, DagExact
  <2>. QED
    BY <2>2, <1>2, <1>7
<1>10. CleanOK(p, X, t, q)
  <2>. HIDE DEF t, q
  <2>. QED
    BY <1>6, <1>8, <1>9 DEF CleanOK
<1>. QED
  BY <1>10 DEF xs

(* One turn of the commit loop, for a leader that follows the output,      *)
(* keeps TaskOK.                                                           *)
LEMMA TaskCommits ==
    ASSUME NEW p, NEW X \in SUBSET Header, Closed(X), NEW lt, NEW s, NEW o,
           TaskOK(p, X, lt, s, o), NEW l \in X, IsLeader(l), Follows(o, l),
           round[l] > s.last_committed_round
    PROVE  LET xs == OrderDag(p, s, l)
           IN TaskOK(p, X, lt, update(s, xs), Append(o, [leader |-> l, certificates |-> xs]))
<1>. DEFINE xs == OrderDag(p, s, l)
            t == update(s, xs)
            e == [leader |-> l, certificates |-> xs]
            q == Append(o, e)
<1>0. /\ StateOK(s) /\ Keeps(s, X) /\ o \in Seq(Outputs) /\ LeadersOK(o) /\ OnceOK(s, o, lt)
      /\ l \in Header
      /\ s.last_committed_round = IF o = <<>> THEN 0 ELSE round[LastLeader(o)]
  BY DEF TaskOK
<1>1. SubDag(s, l, xs)
  BY <1>0, OrderDagSubDag
<1>2. lt = {} => CleanOK(p, X, t, q)
  <2>. HIDE DEF xs
  <2>. QED
    BY <1>0, CleanAppend DEF TaskOK, xs
<1>. HIDE DEF xs
<1>3. /\ StateOK(t) /\ t.last_committed_round = round[l]
      /\ t.dag = {h \in s.dag : /\ round[h] >= t.last_committed[author[h]]
                                /\ round[h] + gc_depth >= round[l]}
  BY <1>0, <1>1, UpdateFacts
<1>4. xs \in SUBSET Header /\ e \in Outputs
  BY <1>1 DEF SubDag, Outputs
<1>5. Keeps(t, X)
  <2>. HIDE DEF t
  <2>1. t.dag \subseteq X
    BY <1>0, <1>3 DEF Keeps
  <2>2. ASSUME NEW h \in X, round[h] >= round[l] PROVE h \in t.dag
    <3>1. /\ round[h] \in Nat /\ round[l] \in Nat /\ author[h] \in Authority
          /\ s.last_committed_round \in Nat /\ gc_depth \in Nat
          /\ t.last_committed[author[h]] \in Nat
          /\ t.last_committed[author[h]] <= t.last_committed_round
      BY <1>0, <1>3, HeaderFacts, GcDepthAssumption DEF StateOK, States
    <3>2. h \in s.dag
      BY <1>0, <2>2, <3>1 DEF Keeps
    <3>. QED
      BY <3>1, <3>2, <2>2, <1>3
  <2>. QED
    BY <1>3, <2>1, <2>2 DEF Keeps
<1>6. OnceOK(t, q, lt)
  BY <1>0, <1>1, OnceAppend
<1>7. LeadersOK(q)
  BY <1>0, <1>4, LeadersAppend
<1>8. q \in Seq(Outputs) /\ q # <<>> /\ LastLeader(q) = l
  <2>. HIDE DEF e
  <2>1. q \in Seq(Outputs) /\ q # <<>> /\ Len(q) = Len(o) + 1 /\ q[Len(o) + 1] = e
    BY <1>0, <1>4, AppendFacts
  <2>2. LastLeader(q) = e.leader
    BY <2>1 DEF LastLeader
  <2>. QED
    BY <2>1, <2>2 DEF e
<1>9. TaskOK(p, X, lt, t, q)
  <2>. HIDE DEF t, q
  <2>. QED
    BY <1>2, <1>3, <1>5, <1>6, <1>7, <1>8 DEF TaskOK
<1>. QED
  BY <1>9 DEF xs

-----------------------------------------------------------------------------
(* One certificate: its insertion and the commit loop.                     *)

(* The insertion of a certificate whose parents were received keeps        *)
(* TaskOK, when those that are below last_committed (and, for Narwhal,     *)
(* those older than gc_depth) count as late.                               *)
LEMMA TaskInserts ==
    ASSUME NEW p, NEW X \in SUBSET Header, Closed(X), NEW lt, NEW s, NEW o,
           TaskOK(p, X, lt, s, o), NEW h \in Header, parents[h] \subseteq X,
           NEW lt2, lt \subseteq lt2,
           round[h] < s.last_committed[author[h]] => h \in lt2,
           p = "Narwhal" /\ round[h] + gc_depth < s.last_committed_round => h \in lt2
    PROVE  TaskOK(p, X \cup {h}, lt2, Insert(s, h), o)
<1>. DEFINE t == Insert(s, h)
            Y == X \cup {h}
<1>1. s \in States /\ s.dag \subseteq X /\ s.dag \in SUBSET Header /\ StateOK(s)
  BY DEF TaskOK, StateOK, Keeps, States
<1>2. {g \in s.dag : slot(g) # slot(h)} \cup {h} = s.dag \cup {h}
  <2>1. \A g \in s.dag : slot(g) = slot(h) => g = h
    BY <1>1, HeaderFacts DEF slot
  <2>. QED
    BY <2>1
<1>3. /\ t \in States /\ t.dag = s.dag \cup {h} /\ t.last_committed = s.last_committed
      /\ t.last_committed_round = s.last_committed_round
  BY <1>1, <1>2 DEF Insert, States
<1>. HIDE DEF t
<1>4. StateOK(t)
  BY <1>1, <1>3 DEF StateOK
<1>5. Keeps(t, Y)
  BY <1>3 DEF TaskOK, Keeps
<1>6. OnceOK(t, o, lt2)
  BY <1>3 DEF TaskOK, OnceOK
<1>7. /\ round[h] \in Nat /\ gc_depth \in Nat /\ s.last_committed_round \in Nat
      /\ s.last_committed[author[h]] \in Nat
  BY <1>1, HeaderFacts, GcDepthAssumption DEF States
<1>8. ASSUME lt2 = {} PROVE CleanOK(p, Y, t, o)
  <2>1. CleanOK(p, X, s, o)
    BY <1>8 DEF TaskOK
  <2>2. round[h] >= s.last_committed[author[h]]
    BY <1>7, <1>8
  <2>3. p = "Narwhal" => round[h] + gc_depth >= s.last_committed_round
    BY <1>7, <1>8
  <2>4. DagExact(t, Y)
    BY <1>3, <2>1, <2>2 DEF CleanOK, DagExact
  <2>5. p = "Narwhal" => DagRecent(t)
    BY <1>3, <2>1, <2>3 DEF CleanOK, DagRecent
  <2>. QED
    BY <1>3, <2>1, <2>4, <2>5 DEF CleanOK
<1>9. TaskOK(p, Y, lt2, t, o)
  BY <1>3, <1>4, <1>5, <1>6, <1>8 DEF TaskOK
<1>. QED
  BY <1>9 DEF t

(* The history of a certificate reaches down to every round.               *)
LEMMA HistoryAtRound ==
    ASSUME NEW h \in Header, NEW r \in Nat, r <= round[h]
    PROVE  \E y \in History(h) : round[y] = r
<1>. DEFINE P == {i \in Nat : i <= round[h] => \E y \in History(h) : round[y] = round[h] - i}
<1>0. round[h] \in Nat
  BY HeaderFacts
<1>1. 0 \in P
  BY <1>0, HistorySelf
<1>2. ASSUME NEW i \in P PROVE i + 1 \in P
  <2>. SUFFICES ASSUME i + 1 <= round[h]
                PROVE  \E y \in History(h) : round[y] = round[h] - (i + 1)
    OBVIOUS
  <2>1. PICK y \in History(h) : round[y] = round[h] - i
    BY <1>0
  <2>2. y \in Header /\ round[y] > 0 /\ round[y] \in Nat
    BY <1>0, <2>1, HistorySelf
  <2>3. HasQuorum(Authors(parents[y]))
    BY <2>2, HeaderFacts
  <2>4. PICK z \in parents[y] : TRUE
    BY <2>3, QuorumNonempty
  <2>5. z \in History(h)
    BY HistoryParents
  <2>6. round[z] + 1 = round[y] /\ round[z] \in Nat
    BY <2>2, HeaderFacts
  <2>7. round[z] = round[h] - (i + 1)
    BY <1>0, <2>1, <2>6
  <2>. QED
    BY <2>5, <2>7
<1>3. P = Nat
  <2>. HIDE DEF P
  <2>. QED
    BY <1>1, <1>2, SetInduction, P \in SUBSET Nat DEF P
<1>4. round[h] - r \in P /\ round[h] - r <= round[h] /\ round[h] - (round[h] - r) = r
  BY <1>0, <1>3
<1>. QED
  BY <1>4

(* Each round from the last committed one to that of a certificate         *)
(* received has certificates of a quorum in the dag: the whole history is  *)
(* there.                                                                  *)
LEMMA RoundsFull ==
    ASSUME NEW X \in SUBSET Header, Closed(X), NEW s, Keeps(s, X),
           s.last_committed_round \in Nat, NEW h \in X,
           NEW r \in Nat, s.last_committed_round <= r, r < round[h]
    PROVE  HasQuorum(Authors(At(s, r))) /\ At(s, r) # {}
<1>1. round[h] \in Nat /\ h \in Header
  BY HeaderFacts
<1>2. PICK y \in History(h) : round[y] = r + 1
  BY <1>1, HistoryAtRound
<1>3. y \in Header /\ y \in X
  BY <1>1, HistorySelf, HistoryWithin
<1>4. HasQuorum(Authors(parents[y])) /\ parents[y] \in SUBSET Header
  BY <1>2, <1>3, HeaderFacts
<1>5. ASSUME NEW z \in parents[y] PROVE z \in At(s, r)
  <2>1. z \in X /\ round[z] + 1 = round[y] /\ round[z] \in Nat
    BY <1>3, HeaderFacts DEF Closed
  <2>2. round[z] = r
    BY <1>2, <2>1
  <2>. QED
    BY <2>1, <2>2 DEF Keeps, At
<1>6. At(s, r) \in SUBSET Header
  BY DEF Keeps, At
<1>7. /\ Authors(parents[y]) \in SUBSET Authority /\ Authors(At(s, r)) \in SUBSET Authority
      /\ Authors(parents[y]) \subseteq Authors(At(s, r))
  BY <1>4, <1>5, <1>6, HeaderFacts DEF Authors
<1>8. Weight[Authors(parents[y])] <= Weight[Authors(At(s, r))]
      /\ Weight[Authors(parents[y])] \in Nat /\ Weight[Authors(At(s, r))] \in Nat
  BY <1>7, WeightMonotone
<1>9. HasQuorum(Authors(At(s, r)))
  BY <1>4, <1>8, Thresholds DEF HasQuorum
<1>. QED
  BY <1>9, QuorumNonempty

(* One turn of the commit loop of protocol p.                              *)
CommitOne(p, a, l) ==
    LET xs == OrderDag(p, a.state, l)
    IN [state  |-> update(a.state, xs),
        output |-> Append(a.output, [leader |-> l, certificates |-> xs])]

(* The commit loop of protocol p, over the leaders ls.                     *)
CommitAll(p, s, o, ls) ==
    LET acc[i \in 0 .. Len(ls)] ==
          IF i = 0 THEN [state |-> s, output |-> o] ELSE CommitOne(p, acc[i - 1], ls[i])
    IN acc[Len(ls)]

(* f is the function CommitAll defines.                                    *)
IsRun(f, p, s, o, ls, k) ==
    f = [i \in 0 .. k |-> IF i = 0 THEN [state |-> s, output |-> o]
                          ELSE CommitOne(p, f[i - 1], ls[i])]

(* That function exists, for any number of turns.                          *)
LEMMA RunExists ==
    ASSUME NEW p, NEW s, NEW o, NEW ls
    PROVE  \A k \in Nat : \E f : IsRun(f, p, s, o, ls, k)
<1>. DEFINE P == {k \in Nat : \E f : IsRun(f, p, s, o, ls, k)}
<1>1. 0 \in P
  <2>. DEFINE f == [i \in 0 .. 0 |-> [state |-> s, output |-> o]]
  <2>1. IsRun(f, p, s, o, ls, 0)
    BY DEF IsRun
  <2>. QED
    BY <2>1
<1>2. ASSUME NEW k \in P PROVE k + 1 \in P
  <2>1. PICK f : IsRun(f, p, s, o, ls, k)
    OBVIOUS
  <2>. DEFINE g == [i \in 0 .. k + 1 |-> IF i = k + 1 THEN CommitOne(p, f[k], ls[i]) ELSE f[i]]
              One(x, i) == CommitOne(p, x, ls[i])
              z == [state |-> s, output |-> o]
  <2>2. f = [i \in 0 .. k |-> IF i = 0 THEN z ELSE One(f[i - 1], i)]
    BY <2>1 DEF IsRun
  <2>3. g = [i \in 0 .. k + 1 |-> IF i = k + 1 THEN One(f[k], i) ELSE f[i]]
    OBVIOUS
  <2>. HIDE DEF One, z, g
  <2>4. \A i \in 0 .. k : g[i] = f[i]
    BY <2>3
  <2>5. g[k + 1] = One(f[k], k + 1)
    BY <2>3
  <2>6. ASSUME NEW i \in 0 .. k + 1 PROVE g[i] = IF i = 0 THEN z ELSE One(g[i - 1], i)
    <3>1. CASE i = 0
      BY <3>1, <2>2, <2>4
    <3>2. CASE i = k + 1
      <4>1. i - 1 = k /\ k \in 0 .. k
        BY <3>2
      <4>. QED
        BY <4>1, <3>2, <2>4, <2>5
    <3>3. CASE i # 0 /\ i # k + 1
      <4>1. i \in 0 .. k /\ i - 1 \in 0 .. k
        BY <3>3
      <4>. QED
        BY <4>1, <3>3, <2>2, <2>4
    <3>. QED
      BY <3>1, <3>2, <3>3
  <2>7. g = [i \in 0 .. k + 1 |-> g[i]]
    BY <2>3
  <2>8. g = [i \in 0 .. k + 1 |-> IF i = 0 THEN z ELSE One(g[i - 1], i)]
    BY <2>6, <2>7
  <2>9. IsRun(g, p, s, o, ls, k + 1)
    BY <2>8 DEF IsRun, One, z
  <2>. QED
    BY <2>9
<1>3. P = Nat
  <2>. HIDE DEF P
  <2>. QED
    BY <1>1, <1>2, SetInduction, P \in SUBSET Nat DEF P
<1>. QED
  BY <1>3

(* The loop leaves TaskOK, with l as the last leader of the output.        *)
CommitsUpTo(p, X, lt, a, l) ==
    TaskOK(p, X, lt, a.state, a.output) /\ a.output # <<>> /\ LastLeader(a.output) = l

(* The commit loop over what order_leaders kept keeps TaskOK and ends with *)
(* the leader l. The first leader kept follows the output because the last *)
(* one committed, if any, is backed and so in its history.                 *)
LEMMA TaskCommitsAll ==
    ASSUME NEW p, NEW X \in SUBSET Header, Closed(X), NEW lt, NEW s, NEW o,
           TaskOK(p, X, lt, s, o),
           o # <<>> => Backed(LastLeader(o)),
           NEW l \in s.dag, NEW ls, Kept(ls, s, l, s.last_committed_round),
           NEW final, final = CommitAll(p, s, o, ls)
    PROVE  CommitsUpTo(p, X, lt, final, l)
<1>. DEFINE n == Len(ls)
            acc == CHOOSE f : IsRun(f, p, s, o, ls, n)
            c == s.last_committed_round
<1>1. /\ StateOK(s) /\ Keeps(s, X) /\ o \in Seq(Outputs) /\ LeadersOK(o)
      /\ c = IF o = <<>> THEN 0 ELSE round[LastLeader(o)]
      /\ c \in Nat /\ s.dag \subseteq X
      /\ ls \in Seq(Header) /\ n \in Nat /\ n >= 1 /\ ls[n] = l
      /\ \A i \in 1 .. n : ls[i] \in X /\ ls[i] \in Header /\ IsLeader(ls[i]) /\ round[ls[i]] > c
      /\ Linked(ls)
      /\ \A x \in History(ls[1]) : IsLeader(x) /\ x # ls[1] => round[x] < c \/ round[x] <= c
  BY DEF TaskOK, StateOK, States, Keeps, Kept
<1>2. Follows(o, ls[1])
  <2>1. ls[1] \in Header /\ ls[1] \in X /\ IsLeader(ls[1]) /\ round[ls[1]] > c /\ round[ls[1]] \in Nat
    BY <1>1, HeaderFacts
  <2>2. \A x \in History(ls[1]) : IsLeader(x) /\ x # ls[1] => round[x] <= c
    <3>1. \A x \in History(ls[1]) : round[x] \in Nat
      BY <2>1, HistorySelf, HeaderFacts
    <3>. QED
      BY <1>1, <3>1
  <2>3. CASE o = <<>>
    <3>1. c = 0
      BY <1>1, <2>3
    <3>2. \A x \in History(ls[1]) : round[x] \in Nat
      BY <2>1, HistorySelf, HeaderFacts
    <3>. HIDE DEF c
    <3>3. First(ls[1])
      BY <2>2, <3>1, <3>2 DEF First, IsLeader
    <3>. QED
      BY <2>3, <3>3 DEF Follows
  <2>4. CASE o # <<>>
    <3>. DEFINE b == LastLeader(o)
    <3>1. Len(o) \in 1 .. Len(o)
      BY <1>1, <2>4
    <3>2. b \in Header /\ IsLeader(b) /\ Backed(b) /\ c = round[b]
      <4>1. o[Len(o)] \in Outputs
        BY <1>1, <3>1
      <4>2. b \in Header
        BY <4>1 DEF Outputs, LastLeader
      <4>3. IsLeader(b)
        BY <1>1, <3>1 DEF LeadersOK, LastLeader
      <4>. QED
        BY <4>2, <4>3, <1>1, <2>4
    <3>3. round[ls[1]] >= round[b] + 2
      <4>1. round[ls[1]] % 2 = 0 /\ round[b] % 2 = 0
        BY <2>1, <3>2 DEF IsLeader
      <4>2. round[b] \in Nat /\ round[ls[1]] > round[b]
        BY <2>1, <3>2, HeaderFacts
      <4>. HIDE DEF b
      <4>. QED
        BY <4>1, <4>2, <2>1
    <3>4. b \in History(ls[1])
      BY <2>1, <3>2, <3>3, BackedReached
    <3>5. Precedes(b, ls[1])
      BY <2>1, <2>2, <3>2, <3>4 DEF Precedes
    <3>. QED
      BY <2>4, <3>5 DEF Follows
  <2>. QED
    BY <2>3, <2>4
<1>3. IsRun(acc, p, s, o, ls, n)
  <2>1. \E f : IsRun(f, p, s, o, ls, n)
    BY <1>1, RunExists
  <2>. QED
    BY <2>1
<1>4. CommitAll(p, s, o, ls) = acc[n]
  BY DEF CommitAll, IsRun
<1>. HIDE DEF acc
<1>5. /\ acc[0] = [state |-> s, output |-> o]
      /\ \A i \in 1 .. n : acc[i] = CommitOne(p, acc[i - 1], ls[i])
  <2>1. 0 \in 0 .. n /\ \A i \in 1 .. n : i \in 0 .. n /\ i # 0
    BY <1>1
  <2>. QED
    BY <2>1, <1>3 DEF IsRun
<1>. DEFINE Good(i) == /\ TaskOK(p, X, lt, acc[i].state, acc[i].output)
                       /\ i > 0 => acc[i].output # <<>> /\ LastLeader(acc[i].output) = ls[i]
            P == {i \in Nat : i <= n => Good(i)}
<1>6. 0 \in P
  BY <1>5
<1>7. ASSUME NEW i \in P PROVE i + 1 \in P
  <2>. SUFFICES ASSUME i + 1 <= n PROVE Good(i + 1)
    <3>. HIDE DEF Good
    <3>. QED
      OBVIOUS
  <2>0. i \in Nat /\ i + 1 \in 1 .. n /\ (i + 1) - 1 = i /\ i <= n
    BY <1>1
  <2>. DEFINE a == acc[i]
              m == ls[i + 1]
              xs == OrderDag(p, a.state, m)
              e == [leader |-> m, certificates |-> xs]
  <2>1. Good(i)
    <3>. HIDE DEF Good
    <3>. QED
      BY <2>0
  <2>2. m \in X /\ m \in Header /\ IsLeader(m) /\ round[m] > c
    BY <1>1, <2>0
  <2>3. Follows(a.output, m) /\ round[m] > a.state.last_committed_round
    <3>1. CASE i = 0
      BY <3>1, <1>2, <1>5, <2>2
    <3>2. CASE i > 0
      <4>1. a.output # <<>> /\ LastLeader(a.output) = ls[i]
        BY <3>2, <2>1
      <4>2. i \in 1 .. n - 1
        BY <3>2, <2>0, <1>1
      <4>3. Precedes(ls[i], m)
        BY <4>2, <1>1 DEF Linked
      <4>4. a.state.last_committed_round = round[ls[i]]
        BY <2>1, <4>1 DEF TaskOK
      <4>5. round[ls[i]] \in Nat /\ round[m] \in Nat
        BY <4>2, <1>1, <2>2, HeaderFacts
      <4>. QED
        BY <4>1, <4>3, <4>4, <4>5 DEF Follows, Precedes
    <3>. QED
      BY <2>0, <3>1, <3>2
  <2>4. TaskOK(p, X, lt, update(a.state, xs), Append(a.output, e))
    BY <2>1, <2>2, <2>3, TaskCommits
  <2>5. acc[i + 1] = CommitOne(p, a, m)
    BY <1>5, <2>0
  <2>6. acc[i + 1].state = update(a.state, xs) /\ acc[i + 1].output = Append(a.output, e)
    BY <2>5 DEF CommitOne
  <2>7. Append(a.output, e) # <<>> /\ LastLeader(Append(a.output, e)) = m
    <3>1. a.output \in Seq(Outputs)
      BY <2>1 DEF TaskOK
    <3>2. e \in Outputs
      <4>1. SubDag(a.state, m, xs)
        BY <2>1, <2>2, <2>3, OrderDagSubDag DEF TaskOK
      <4>. QED
        BY <4>1, <2>2 DEF SubDag, Outputs
    <3>. HIDE DEF e, a
    <3>3. /\ Append(a.output, e) # <<>> /\ Len(Append(a.output, e)) = Len(a.output) + 1
          /\ Append(a.output, e)[Len(a.output) + 1] = e
      BY <3>1, <3>2, AppendFacts
    <3>. QED
      BY <3>3 DEF LastLeader, e
  <2>. QED
    BY <2>4, <2>6, <2>7
<1>8. P = Nat
  <2>. HIDE DEF P
  <2>. QED
    BY <1>6, <1>7, SetInduction, P \in SUBSET Nat DEF P
<1>9. Good(n)
  <2>. HIDE DEF Good, n
  <2>. QED
    BY <1>1, <1>8
<1>. QED
  BY <1>1, <1>4, <1>9 DEF CommitsUpTo

-----------------------------------------------------------------------------
(* The inductive invariant.                                                *)

(* What holds of one authority that received rc: TaskOK, for a set of      *)
(* certificates that is closed under parents, and a last leader that f + 1 *)
(* certificates support.                                                   *)
NodeOK(p, rc, lt, s, o) ==
    /\ Closed(rc \cup Genesis)
    /\ TaskOK(p, rc \cup Genesis, lt, s, o)
    /\ o # <<>> => Backed(LastLeader(o))

(* The inductive invariant: nobody panicked, and every authority is well.  *)
Inv ==
    /\ protocol \in {"Bullshark", "Narwhal"}
    /\ panicked = {}
    /\ state \in [Node -> States]
    /\ received \in [Node -> SUBSET Header]
    /\ sequence \in [Node -> Seq(Outputs)]
    /\ late \in [Node -> SUBSET Header]
    /\ \A n \in Node : NodeOK(protocol, received[n], late[n], state[n], sequence[n])

(* It holds of the empty tasks.                                            *)
LEMMA InitInv == ProtocolInit => Inv
<1>. SUFFICES ASSUME ProtocolInit PROVE Inv
  OBVIOUS
<1>. USE DEF ProtocolInit, Init
<1>1. NewState \in States /\ StateOK(NewState)
  BY GenesisAssumption DEF NewState, States, StateOK
<1>2. Keeps(NewState, Genesis)
  BY DEF Keeps, NewState
<1>3. LeadersOK(<<>>) /\ OnceOK(NewState, <<>>, {}) /\ <<>> \in Seq(Outputs)
  BY GenesisAssumption, HeaderFacts DEF LeadersOK, OnceOK, NewState
<1>4. \A p : CleanOK(p, Genesis, NewState, <<>>)
  <2>1. DagExact(NewState, Genesis)
    BY GenesisAssumption, HeaderFacts DEF DagExact, NewState
  <2>2. DagRecent(NewState)
    BY GenesisAssumption, HeaderFacts, GcDepthAssumption DEF DagRecent, NewState
  <2>. DEFINE w == [i \in 0 .. 0 |-> NewState.last_committed]
  <2>3. Replays(<<>>, w) /\ w[Len(<<>>)] = NewState.last_committed
    BY DEF Replays, NewState
  <2>. QED
    BY <2>1, <2>2, <2>3 DEF CleanOK
<1>5. \A p : TaskOK(p, Genesis, {}, NewState, <<>>)
  <2>1. NewState.last_committed_round = 0
    BY DEF NewState
  <2>. QED
    BY <1>1, <1>2, <1>3, <1>4, <2>1 DEF TaskOK
<1>6. \A p : NodeOK(p, Genesis, {}, NewState, <<>>)
  <2>1. Genesis \cup Genesis = Genesis
    OBVIOUS
  <2>. QED
    BY <2>1, <1>5, GenesisClosed DEF NodeOK
<1>. QED
  BY <1>1, <1>3, <1>6, GenesisClosed DEF Inv

(* What both protocols do with a certificate h that n can receive, when it *)
(* commits leader l or nothing. A certificate below last_committed counts  *)
(* as late, and for Narwhal one older than gc_depth.                       *)
Turn(p, n, h) ==
    LET s == Insert(state[n], h)
    IN /\ CanReceive(n, h)
       /\ \E d \in BOOLEAN :
             /\ Receives(n, h, d)
             /\ BelowCommitted(n, h) => d
             /\ p = "Narwhal" /\ round[h] + gc_depth < state[n].last_committed_round => d
       /\ \/ Inserts(n, s)
          \/ \E l \in s.dag :
                /\ IsLeader(l) /\ Backed(l) /\ round[l] > s.last_committed_round
                /\ CommitsAll(n, CommitAll(p, s, sequence[n], Chain(s, l, LeadersBetween(s, l))))

(* A turn keeps the invariant.                                             *)
LEMMA TurnInv ==
    ASSUME Inv, NEW n \in Node, NEW h \in Header, Turn(protocol, n, h), UNCHANGED protocol
    PROVE  Inv'
<1>. DEFINE s == Insert(state[n], h)
            X == received[n] \cup Genesis
            Y == X \cup {h}
<1>1. /\ NodeOK(protocol, received[n], late[n], state[n], sequence[n])
      /\ X \in SUBSET Header /\ parents[h] \subseteq X
      /\ received[n] \in SUBSET Header /\ late[n] \in SUBSET Header
      /\ state[n] \in States /\ sequence[n] \in Seq(Outputs)
  BY GenesisAssumption DEF Inv, Turn, CanReceive
<1>2. /\ received' = [received EXCEPT ![n] = @ \cup {h}]
      /\ late' \in [Node -> SUBSET Header]
      /\ late[n] \subseteq late'[n]
      /\ \A m \in Node \ {n} : late'[m] = late[m]
      /\ BelowCommitted(n, h) => h \in late'[n]
      /\ protocol = "Narwhal" /\ round[h] + gc_depth < state[n].last_committed_round
            => h \in late'[n]
  BY DEF Inv, Turn, Receives
<1>3. received'[n] \cup Genesis = Y /\ received' \in [Node -> SUBSET Header]
  BY <1>2 DEF Inv
<1>4. /\ TaskOK(protocol, Y, late'[n], s, sequence[n])
      /\ Closed(Y) /\ Y \in SUBSET Header /\ h \in s.dag
  <2>1. /\ TaskOK(protocol, X, late[n], state[n], sequence[n]) /\ Closed(X)
        /\ round[h] < state[n].last_committed[author[h]] => h \in late'[n]
    BY <1>1, <1>2 DEF NodeOK, BelowCommitted
  <2>. HIDE DEF X
  <2>2. TaskOK(protocol, X \cup {h}, late'[n], Insert(state[n], h), sequence[n])
    BY <1>1, <1>2, <2>1, TaskInserts
  <2>3. Closed(X \cup {h})
    BY <1>1, <2>1 DEF Closed
  <2>4. h \in Insert(state[n], h).dag
    BY <1>1 DEF Insert, States
  <2>. QED
    BY <1>1, <2>2, <2>3, <2>4
<1>5. CASE Inserts(n, s)
  <2>1. /\ state' = [state EXCEPT ![n] = s]
        /\ sequence' = sequence /\ panicked' = panicked
    BY <1>5 DEF Inserts
  <2>2. s \in States
    BY <1>4 DEF TaskOK, StateOK
  <2>. HIDE DEF s
  <2>3. NodeOK(protocol, received'[n], late'[n], s, sequence[n])
    BY <1>1, <1>3, <1>4 DEF NodeOK
  <2>4. ASSUME NEW m \in Node
        PROVE  NodeOK(protocol', received'[m], late'[m], state'[m], sequence'[m])
    <3>1. CASE m = n
      BY <3>1, <2>1, <2>3 DEF Inv
    <3>2. CASE m # n
      BY <3>2, <1>2, <2>1 DEF Inv
    <3>. QED
      BY <3>1, <3>2
  <2>. QED
    BY <1>2, <1>3, <2>1, <2>2, <2>4 DEF Inv
<1>6. ASSUME NEW l \in s.dag, IsLeader(l), Backed(l), round[l] > s.last_committed_round,
             CommitsAll(n, CommitAll(protocol, s, sequence[n],
                                     Chain(s, l, LeadersBetween(s, l))))
      PROVE  Inv'
  <2>. DEFINE ls == Chain(s, l, LeadersBetween(s, l))
              a == CommitAll(protocol, s, sequence[n], ls)
  <2>1. /\ state' = [state EXCEPT ![n] = a.state]
        /\ sequence' = [sequence EXCEPT ![n] = a.output] /\ panicked' = panicked
    BY <1>6 DEF CommitsAll
  <2>2. Keeps(s, Y) /\ s.last_committed_round \in Nat
    BY <1>4 DEF TaskOK, StateOK, States
  <2>3. Kept(ls, s, l, s.last_committed_round)
    <3>. HIDE DEF s, Y
    <3>. QED
      BY <1>4, <1>6, <2>2, ChainKept
  <2>4. sequence[n] # <<>> => Backed(LastLeader(sequence[n]))
    BY <1>1 DEF NodeOK
  <2>5. /\ TaskOK(protocol, Y, late'[n], a.state, a.output)
        /\ a.output # <<>> /\ LastLeader(a.output) = l
    <3>. DEFINE lt2 == late'[n]
                sq == sequence[n]
    <3>1. TaskOK(protocol, Y, lt2, s, sq) /\ (sq # <<>> => Backed(LastLeader(sq)))
      BY <1>4, <2>4
    <3>2. a = CommitAll(protocol, s, sq, ls)
      OBVIOUS
    <3>. HIDE DEF lt2, sq, s, Y, ls, a
    <3>3. CommitsUpTo(protocol, Y, lt2, a, l)
      BY <1>4, <2>3, <3>1, <3>2, TaskCommitsAll
    <3>. QED
      BY <3>3 DEF lt2, CommitsUpTo
  <2>. HIDE DEF a
  <2>6. a.state \in States /\ a.output \in Seq(Outputs)
    BY <2>5 DEF TaskOK, StateOK
  <2>7. NodeOK(protocol, received'[n], late'[n], a.state, a.output)
    BY <1>3, <1>4, <1>6, <2>5 DEF NodeOK
  <2>8. ASSUME NEW m \in Node
        PROVE  NodeOK(protocol', received'[m], late'[m], state'[m], sequence'[m])
    <3>1. CASE m = n
      BY <3>1, <2>1, <2>7 DEF Inv
    <3>2. CASE m # n
      BY <3>2, <1>2, <2>1 DEF Inv
    <3>. QED
      BY <3>1, <3>2
  <2>. QED
    BY <1>2, <1>3, <2>1, <2>6, <2>8 DEF Inv
<1>. QED
  BY <1>5, <1>6 DEF Turn

-----------------------------------------------------------------------------
(* What the tasks find in the DAG when a certificate arrives.              *)

(* The leaders order_leaders looks up, with coins revealed k rounds later, *)
(* are all those in the dag between the last committed round and l.        *)
LEMMA PastAreBetween ==
    ASSUME NEW s, s.dag \in SUBSET Header, s.last_committed_round \in Nat,
           s.last_committed_round % 2 = 0,
           NEW l \in Header, IsLeader(l), NEW k \in Nat,
           \A r \in PastRounds(s, l) : HasQuorum(Authors(At(s, r + k)))
    PROVE  UNION {leader(s, r, r + k) : r \in PastRounds(s, l)} = LeadersBetween(s, l)
<1>. DEFINE c == s.last_committed_round
            b == round[l]
<1>1. b \in Nat /\ b % 2 = 0 /\ c \in Nat /\ c % 2 = 0
  BY HeaderFacts DEF IsLeader
<1>2. \A r \in Nat : r \in PastRounds(s, l) <=> c < r /\ r < b /\ r % 2 = 0
  <2>. HIDE DEF b, c
  <2>1. \A r \in Nat : r \in c + 2 .. b - 2 /\ (b - r) % 2 = 0 <=> c < r /\ r < b /\ r % 2 = 0
    BY <1>1
  <2>. QED
    BY <2>1 DEF PastRounds, b, c
<1>3. \A r \in PastRounds(s, l) : r \in Nat
  BY <1>1 DEF PastRounds
<1>4. \A r \in PastRounds(s, l) : leader(s, r, r + k) = {h \in At(s, r) : author[h] = leader_of[r]}
  BY DEF leader
<1>5. ASSUME NEW r \in PastRounds(s, l), NEW h \in leader(s, r, r + k)
      PROVE  h \in LeadersBetween(s, l)
  <2>1. h \in s.dag /\ round[h] = r /\ author[h] = leader_of[r]
    BY <1>4 DEF At
  <2>2. c < r /\ r < b /\ r % 2 = 0 /\ r \in Nat
    BY <1>2, <1>3
  <2>3. r >= 2
    BY <2>2, <1>1
  <2>. QED
    BY <2>1, <2>2, <2>3 DEF LeadersBetween, IsLeader
<1>6. ASSUME NEW h \in LeadersBetween(s, l)
      PROVE  \E r \in PastRounds(s, l) : h \in leader(s, r, r + k)
  <2>1. h \in s.dag /\ IsLeader(h) /\ c < round[h] /\ round[h] < b /\ round[h] \in Nat
    BY HeaderFacts DEF LeadersBetween
  <2>2. round[h] \in PastRounds(s, l)
    BY <2>1, <1>2 DEF IsLeader
  <2>3. h \in leader(s, round[h], round[h] + k)
    BY <2>1, <2>2, <1>4 DEF At, IsLeader
  <2>. QED
    BY <2>2, <2>3
<1>. QED
  BY <1>5, <1>6

(* What n finds once it has inserted a certificate h it could receive: an  *)
(* even last committed round, and a quorum of certificates in each round   *)
(* from there to h.                                                        *)
LEMMA InsertedFacts ==
    ASSUME Inv, NEW n \in Node, NEW h \in Header, CanReceive(n, h)
    PROVE  LET s == Insert(state[n], h)
           IN /\ s.dag \in SUBSET Header /\ s.last_committed_round \in Nat
              /\ s.last_committed_round % 2 = 0
              /\ \A r \in Nat : s.last_committed_round <= r /\ r < round[h]
                    => HasQuorum(Authors(At(s, r))) /\ At(s, r) # {}
<1>. DEFINE s == Insert(state[n], h)
            X == received[n] \cup Genesis
            o == sequence[n]
<1>1. /\ TaskOK(protocol, X, late[n], state[n], o) /\ Closed(X)
      /\ X \in SUBSET Header /\ parents[h] \subseteq X
      /\ state[n] \in States
  BY GenesisAssumption DEF Inv, NodeOK, CanReceive
<1>2. TaskOK(protocol, X \cup {h}, late[n] \cup {h}, s, o)
  BY <1>1, TaskInserts
<1>3. Closed(X \cup {h}) /\ X \cup {h} \in SUBSET Header /\ h \in X \cup {h}
  BY <1>1 DEF Closed
<1>4. /\ Keeps(s, X \cup {h}) /\ s \in States /\ o \in Seq(Outputs) /\ LeadersOK(o)
      /\ s.last_committed_round = IF o = <<>> THEN 0 ELSE round[LastLeader(o)]
  BY <1>2 DEF TaskOK, StateOK
<1>. HIDE DEF s, X
<1>5. s.dag \in SUBSET Header /\ s.last_committed_round \in Nat
  BY <1>4 DEF States
<1>6. s.last_committed_round % 2 = 0
  <2>1. CASE o = <<>>
    BY <2>1, <1>4
  <2>2. CASE o # <<>>
    <3>1. Len(o) \in 1 .. Len(o)
      BY <2>2, <1>4
    <3>2. IsLeader(LastLeader(o))
      BY <3>1, <1>4 DEF LeadersOK, LastLeader
    <3>. QED
      BY <3>2, <2>2, <1>4 DEF IsLeader
  <2>. QED
    BY <2>1, <2>2
<1>7. ASSUME NEW r \in Nat, s.last_committed_round <= r, r < round[h]
      PROVE  HasQuorum(Authors(At(s, r))) /\ At(s, r) # {}
  <2>. DEFINE Y == X \cup {h}
  <2>1. Closed(Y) /\ Y \in SUBSET Header /\ h \in Y /\ Keeps(s, Y)
    BY <1>3, <1>4
  <2>. HIDE DEF Y
  <2>. QED
    BY <2>1, <1>5, <1>7, RoundsFull
<1>. QED
  BY <1>5, <1>6, <1>7 DEF s

(* The support run counts in the dag is support in the whole DAG.          *)
LEMMA SupportBacks ==
    ASSUME NEW s, s.dag \in SUBSET Header, NEW l, NEW r,
           Support(s, l, r) >= validity_threshold
    PROVE  Backed(l)
<1>. DEFINE S == {x \in At(s, r) : l \in parents[x]}
            T == {x \in Header : l \in parents[x]}
<1>1. /\ Authors(S) \in SUBSET Authority /\ Authors(T) \in SUBSET Authority
      /\ Authors(S) \subseteq Authors(T)
  BY HeaderFacts DEF Authors, At
<1>2. Weight[Authors(S)] <= Weight[Authors(T)] /\ Weight[Authors(S)] \in Nat
      /\ Weight[Authors(T)] \in Nat
  BY <1>1, WeightMonotone
<1>3. Weight[Authors(S)] >= validity_threshold
  BY DEF Support
<1>. QED
  BY <1>2, <1>3, Thresholds DEF Backed, HasValidity

-----------------------------------------------------------------------------
(* The two instances read the same definitions.                            *)

(* Bullshark's instance reads the definitions of this module: the dag and  *)
(* the sub-dags.                                                           *)
LEMMA BullsharkBasics ==
    /\ \A s, r : B!At(s, r) = At(s, r)
    /\ \A S : B!Authors(S) = Authors(S)
    /\ \A S : B!HasQuorum(S) = HasQuorum(S)
    /\ \A s, h : B!Insert(s, h) = Insert(s, h)
    /\ \A s, l : B!PastRounds(s, l) = PastRounds(s, l)
    /\ \A s, l : B!Flatten(s, l) = Flatten(s, l)
    /\ \A s, l, p : B!linked(s, l, p) = linked(s, l, p)
    /\ \A s, xs : B!update(s, xs) = update(s, xs)
<1>1. \A s, r : B!At(s, r) = At(s, r)
  BY DEF B!At, At
<1>2. \A S : B!Authors(S) = Authors(S)
  BY DEF B!Authors, Authors
<1>3. \A S : B!HasQuorum(S) = HasQuorum(S)
  BY DEF B!HasQuorum, HasQuorum, B!quorum_threshold, quorum_threshold, B!total_votes, total_votes
<1>4. \A s, h : B!Insert(s, h) = Insert(s, h)
  BY DEF B!Insert, Insert, B!slot, slot
<1>5. \A s, l : B!PastRounds(s, l) = PastRounds(s, l)
  BY DEF B!PastRounds, PastRounds
<1>6. \A s, l : B!Flatten(s, l) = Flatten(s, l)
  BY DEF B!Flatten, Flatten, B!At, At
<1>7. \A s, l, p : B!linked(s, l, p) = linked(s, l, p)
  BY DEF B!linked, linked, B!At, At
<1>8. \A s, xs : B!update(s, xs) = update(s, xs)
  BY DEF B!update, update, B!Committed, Committed, B!Max, Max
<1>. QED
  BY <1>1, <1>2, <1>3, <1>4, <1>5, <1>6, <1>7, <1>8

(* Bullshark's instance: the leaders.                                      *)
LEMMA BullsharkLeaders ==
    /\ \A s, r, c : B!leader(s, r, c) = leader(s, r, c)
    /\ \A s, h, r : B!Support(s, h, r) = Support(s, h, r)
    /\ \A s, l, past : B!Chain(s, l, past) = Chain(s, l, past)
    /\ \A s, l, past : B!MissingHistory(s, l, past) = MissingHistory(s, l, past)
    /\ \A s, l : B!PastLeaders(s, l) = UNION {leader(s, r, r) : r \in PastRounds(s, l)}
<1>1. \A s, r, c : B!leader(s, r, c) = leader(s, r, c)
  BY BullsharkBasics DEF B!leader, leader
<1>2. \A s, h, r : B!Support(s, h, r) = Support(s, h, r)
  BY BullsharkBasics DEF B!Support, Support
<1>3. \A s, l, past : B!Chain(s, l, past) = Chain(s, l, past)
  BY DEF B!Chain, Chain, B!SetToSeq, SetToSeq, B!IsInjective, IsInjective,
         B!linked, linked, B!At, At, B!Cardinality, Cardinality
<1>4. \A s, l, past : B!MissingHistory(s, l, past) = MissingHistory(s, l, past)
  BY DEF B!MissingHistory, MissingHistory, B!At, At
<1>5. \A s, l : B!PastLeaders(s, l) = UNION {leader(s, r, r) : r \in PastRounds(s, l)}
  BY <1>1, BullsharkBasics DEF B!PastLeaders
<1>. QED
  BY <1>1, <1>2, <1>3, <1>4, <1>5

(* Bullshark's instance: the commit loop.                                  *)
LEMMA BullsharkCommits ==
    \A s, o, ls : B!CommitLoop(s, o, ls) = CommitAll("Bullshark", s, o, ls)
<1>1. \A s, l : B!order_dag(s, l) = OrderDag("Bullshark", s, l)
  BY BullsharkBasics DEF B!order_dag, OrderDag
<1>2. \A a, l : B!Commit(a, l) = CommitOne("Bullshark", a, l)
  BY <1>1, BullsharkBasics DEF B!Commit, CommitOne
<1>. QED
  BY <1>2 DEF B!CommitLoop, CommitAll

(* Narwhal's instance reads the definitions of this module: the dag and    *)
(* the sub-dags.                                                           *)
LEMMA NarwhalBasics ==
    /\ \A s, r : N!At(s, r) = At(s, r)
    /\ \A S : N!Authors(S) = Authors(S)
    /\ \A S : N!HasQuorum(S) = HasQuorum(S)
    /\ \A s, h : N!Insert(s, h) = Insert(s, h)
    /\ \A s, l : N!PastRounds(s, l) = PastRounds(s, l)
    /\ \A s, l : N!Flatten(s, l) = Flatten(s, l)
    /\ \A s, l, p : N!linked(s, l, p) = linked(s, l, p)
    /\ \A s, xs : N!update(s, xs) = update(s, xs)
<1>1. \A s, r : N!At(s, r) = At(s, r)
  BY DEF N!At, At
<1>2. \A S : N!Authors(S) = Authors(S)
  BY DEF N!Authors, Authors
<1>3. \A S : N!HasQuorum(S) = HasQuorum(S)
  BY DEF N!HasQuorum, HasQuorum, N!quorum_threshold, quorum_threshold, N!total_votes, total_votes
<1>4. \A s, h : N!Insert(s, h) = Insert(s, h)
  BY DEF N!Insert, Insert, N!slot, slot
<1>5. \A s, l : N!PastRounds(s, l) = PastRounds(s, l)
  BY DEF N!PastRounds, PastRounds
<1>6. \A s, l : N!Flatten(s, l) = Flatten(s, l)
  BY DEF N!Flatten, Flatten, N!At, At
<1>7. \A s, l, p : N!linked(s, l, p) = linked(s, l, p)
  BY DEF N!linked, linked, N!At, At
<1>8. \A s, xs : N!update(s, xs) = update(s, xs)
  BY DEF N!update, update, N!Committed, Committed, N!Max, Max
<1>. QED
  BY <1>1, <1>2, <1>3, <1>4, <1>5, <1>6, <1>7, <1>8

(* Narwhal's instance: the leaders.                                        *)
LEMMA NarwhalLeaders ==
    /\ \A s, r, c : N!leader(s, r, c) = leader(s, r, c)
    /\ \A s, h, r : N!Support(s, h, r) = Support(s, h, r)
    /\ \A s, l, past : N!Chain(s, l, past) = Chain(s, l, past)
    /\ \A s, l, past : N!MissingHistory(s, l, past) = MissingHistory(s, l, past)
    /\ \A s, l : N!PastLeaders(s, l) = UNION {leader(s, r, r + 2) : r \in PastRounds(s, l)}
<1>1. \A s, r, c : N!leader(s, r, c) = leader(s, r, c)
  BY NarwhalBasics DEF N!leader, leader
<1>2. \A s, h, r : N!Support(s, h, r) = Support(s, h, r)
  BY NarwhalBasics DEF N!Support, Support
<1>3. \A s, l, past : N!Chain(s, l, past) = Chain(s, l, past)
  BY DEF N!Chain, Chain, N!SetToSeq, SetToSeq, N!IsInjective, IsInjective,
         N!linked, linked, N!At, At, N!Cardinality, Cardinality
<1>4. \A s, l, past : N!MissingHistory(s, l, past) = MissingHistory(s, l, past)
  BY DEF N!MissingHistory, MissingHistory, N!At, At
<1>5. \A s, l : N!PastLeaders(s, l) = UNION {leader(s, r, r + 2) : r \in PastRounds(s, l)}
  BY <1>1, NarwhalBasics DEF N!PastLeaders
<1>. QED
  BY <1>1, <1>2, <1>3, <1>4, <1>5

(* Narwhal's instance: the commit loop.                                    *)
LEMMA NarwhalCommits ==
    \A s, o, ls : N!CommitLoop(s, o, ls) = CommitAll("Narwhal", s, o, ls)
<1>1. \A s, l : N!order_dag(s, l) = OrderDag("Narwhal", s, l)
  BY NarwhalBasics DEF N!order_dag, OrderDag
<1>2. \A a, l : N!Commit(a, l) = CommitOne("Narwhal", a, l)
  BY <1>1, NarwhalBasics DEF N!Commit, CommitOne
<1>. QED
  BY <1>2 DEF N!CommitLoop, CommitAll

-----------------------------------------------------------------------------
(* The turns of the two loops.                                             *)

(* linked finds every round it expects: "We should have the whole history  *)
(* by now".                                                                *)
LEMMA HistoryComplete ==
    ASSUME NEW s, s.dag \in SUBSET Header, s.last_committed_round \in Nat, NEW h \in Header,
           \A r \in Nat : s.last_committed_round <= r /\ r < round[h] => At(s, r) # {},
           NEW l \in Header, round[l] <= round[h]
    PROVE  ~MissingHistory(s, l, LeadersBetween(s, l))
<1>. SUFFICES ASSUME NEW p \in LeadersBetween(s, l), NEW r \in round[p] .. round[l] - 1
              PROVE  At(s, r) # {}
  BY DEF MissingHistory
<1>1. p \in Header /\ round[p] > s.last_committed_round
  BY DEF LeadersBetween
<1>2. round[p] \in Nat /\ round[l] \in Nat /\ round[h] \in Nat
  BY <1>1, HeaderFacts
<1>3. r \in Nat /\ s.last_committed_round <= r /\ r < round[h]
  BY <1>1, <1>2
<1>. QED
  BY <1>3

(* What Consensus::leader returns is the leader of its round, and in the   *)
(* dag.                                                                    *)
LEMMA LeaderElected ==
    ASSUME NEW s, s.dag \in SUBSET Header, NEW r \in Nat, r >= 2, r % 2 = 0,
           NEW c, NEW l \in leader(s, r, c)
    PROVE  l \in s.dag /\ l \in Header /\ IsLeader(l) /\ round[l] = r
BY DEF leader, At, IsLeader

(* A turn of Bullshark's loop is a Turn: it never panics.                  *)
LEMMA BullsharkTurn ==
    ASSUME Inv, protocol = "Bullshark", NEW n \in Node, NEW h \in Header,
           B!ReceiveCertificate(n, h)
    PROVE  Turn("Bullshark", n, h)
<1>. DEFINE s == Insert(state[n], h)
<1>1. /\ CanReceive(n, h)
      /\ Receives(n, h, BelowCommitted(n, h))
  BY DEF B!ReceiveCertificate, B!CanReceive, CanReceive, B!Receives, Receives,
         B!BelowCommitted, BelowCommitted, B!Cardinality, Cardinality
<1>2. BelowCommitted(n, h) \in BOOLEAN
  BY DEF BelowCommitted
<1>3. /\ s.dag \in SUBSET Header /\ s.last_committed_round \in Nat
      /\ s.last_committed_round % 2 = 0
      /\ \A r \in Nat : s.last_committed_round <= r /\ r < round[h]
            => HasQuorum(Authors(At(s, r))) /\ At(s, r) # {}
  BY <1>1, InsertedFacts
<1>4. \/ B!Commits(s, h) = {} /\ Inserts(n, s)
      \/ \E l \in B!Commits(s, h) :
            IF MissingHistory(s, l, B!PastLeaders(s, l)) THEN PanicsIn(n, s)
            ELSE CommitsAll(n, CommitAll("Bullshark", s, sequence[n],
                                         Chain(s, l, B!PastLeaders(s, l))))
  BY BullsharkBasics, BullsharkLeaders, BullsharkCommits
     DEF B!ReceiveCertificate, B!order_leaders, B!Inserts, Inserts, B!PanicsIn, PanicsIn,
         B!CommitsAll, CommitsAll
<1>. HIDE DEF s
<1>5. ASSUME NEW l \in B!Commits(s, h),
             IF MissingHistory(s, l, B!PastLeaders(s, l)) THEN PanicsIn(n, s)
             ELSE CommitsAll(n, CommitAll("Bullshark", s, sequence[n],
                                          Chain(s, l, B!PastLeaders(s, l))))
      PROVE  \E x \in s.dag :
                /\ IsLeader(x) /\ Backed(x) /\ round[x] > s.last_committed_round
                /\ CommitsAll(n, CommitAll("Bullshark", s, sequence[n],
                                           Chain(s, x, LeadersBetween(s, x))))
  <2>. DEFINE r == round[h] - 1
  <2>1. /\ r % 2 = 0 /\ r >= 2 /\ r > s.last_committed_round
        /\ l \in leader(s, r, r) /\ Support(s, l, r + 1) >= validity_threshold
    BY <1>3, HeaderFacts, BullsharkLeaders DEF B!Commits, B!validity_threshold, validity_threshold,
       B!total_votes, total_votes
  <2>2. r \in Nat /\ round[h] \in Nat
    BY <2>1, HeaderFacts
  <2>. HIDE DEF r
  <2>3. l \in s.dag /\ l \in Header /\ IsLeader(l) /\ round[l] = r
    BY <1>3, <2>1, <2>2, LeaderElected
  <2>4. Backed(l)
    BY <1>3, <2>1, SupportBacks
  <2>5. \A q \in PastRounds(s, l) : HasQuorum(Authors(At(s, q + 0)))
    <3>. SUFFICES ASSUME NEW q \in PastRounds(s, l) PROVE HasQuorum(Authors(At(s, q)))
      <4>1. \A q \in PastRounds(s, l) : q + 0 = q
        BY <1>3, <2>2, <2>3 DEF PastRounds
      <4>. QED
        BY <4>1
    <3>1. q \in Nat /\ s.last_committed_round <= q /\ q < round[h]
      BY <1>3, <2>2, <2>3 DEF PastRounds, r
    <3>. QED
      BY <3>1, <1>3
  <2>6. UNION {leader(s, q, q + 0) : q \in PastRounds(s, l)} = LeadersBetween(s, l)
    BY <1>3, <2>3, <2>5, PastAreBetween
  <2>7. B!PastLeaders(s, l) = LeadersBetween(s, l)
    <3>1. \A q \in PastRounds(s, l) : q + 0 = q
      BY <1>3, <2>2, <2>3 DEF PastRounds
    <3>. QED
      BY <2>6, <3>1, BullsharkLeaders, ZenonT(40)
  <2>8. ~MissingHistory(s, l, B!PastLeaders(s, l))
    <3>1. round[l] <= round[h]
      BY <2>2, <2>3 DEF r
    <3>2. ~MissingHistory(s, l, LeadersBetween(s, l))
      BY <1>3, <2>3, <3>1, HistoryComplete
    <3>. QED
      BY <2>7, <3>2
  <2>. QED
    BY <1>5, <2>1, <2>3, <2>4, <2>7, <2>8
<1>6. \/ Inserts(n, s)
      \/ \E x \in s.dag :
            /\ IsLeader(x) /\ Backed(x) /\ round[x] > s.last_committed_round
            /\ CommitsAll(n, CommitAll("Bullshark", s, sequence[n],
                                       Chain(s, x, LeadersBetween(s, x))))
  BY <1>4, <1>5
<1>. QED
  BY <1>1, <1>2, <1>6 DEF Turn, s

(* A turn of Narwhal's loop is a Turn: it never panics, and the supporters *)
(* it counts are there.                                                    *)
LEMMA NarwhalTurn ==
    ASSUME Inv, protocol = "Narwhal", NEW n \in Node, NEW h \in Header,
           N!ReceiveCertificate(n, h)
    PROVE  Turn("Narwhal", n, h)
<1>. DEFINE s == Insert(state[n], h)
            d == \/ BelowCommitted(n, h)
                 \/ round[h] + gc_depth < state[n].last_committed_round
<1>1. CanReceive(n, h) /\ Receives(n, h, d)
  BY DEF N!ReceiveCertificate, N!CanReceive, CanReceive, N!Receives, Receives,
         N!BelowCommitted, BelowCommitted, N!Cardinality, Cardinality
<1>2. d \in BOOLEAN /\ (BelowCommitted(n, h) => d)
      /\ (round[h] + gc_depth < state[n].last_committed_round => d)
  OBVIOUS
<1>3. /\ s.dag \in SUBSET Header /\ s.last_committed_round \in Nat
      /\ s.last_committed_round % 2 = 0
      /\ \A r \in Nat : s.last_committed_round <= r /\ r < round[h]
            => HasQuorum(Authors(At(s, r))) /\ At(s, r) # {}
  BY <1>1, InsertedFacts
<1>4. \/ N!Candidate(s, h) = {} /\ Inserts(n, s)
      \/ \E l \in N!Candidate(s, h) :
            IF At(s, round[l] + 1) = {} THEN PanicsIn(n, s)
            ELSE IF ~N!Supported(s, l) THEN Inserts(n, s)
            ELSE IF MissingHistory(s, l, N!PastLeaders(s, l)) THEN PanicsIn(n, s)
            ELSE CommitsAll(n, CommitAll("Narwhal", s, sequence[n],
                                         Chain(s, l, N!PastLeaders(s, l))))
  BY NarwhalBasics, NarwhalLeaders, NarwhalCommits
     DEF N!ReceiveCertificate, N!order_leaders, N!Inserts, Inserts, N!PanicsIn, PanicsIn,
         N!CommitsAll, CommitsAll
<1>. HIDE DEF s, d
<1>5. ASSUME NEW l \in N!Candidate(s, h),
             IF At(s, round[l] + 1) = {} THEN PanicsIn(n, s)
             ELSE IF ~N!Supported(s, l) THEN Inserts(n, s)
             ELSE IF MissingHistory(s, l, N!PastLeaders(s, l)) THEN PanicsIn(n, s)
             ELSE CommitsAll(n, CommitAll("Narwhal", s, sequence[n],
                                          Chain(s, l, N!PastLeaders(s, l))))
      PROVE  \/ Inserts(n, s)
             \/ \E x \in s.dag :
                   /\ IsLeader(x) /\ Backed(x) /\ round[x] > s.last_committed_round
                   /\ CommitsAll(n, CommitAll("Narwhal", s, sequence[n],
                                              Chain(s, x, LeadersBetween(s, x))))
  <2>. DEFINE r == round[h] - 3
  <2>1. /\ (r + 2) % 2 = 0 /\ r >= 2 /\ r > s.last_committed_round
        /\ l \in leader(s, r, r + 2)
    <3>1. round[h] \in Nat
      BY HeaderFacts
    <3>2. round[h] - 1 = r + 2 /\ round[h] - 1 - 2 = r
      BY <3>1
    <3>. HIDE DEF r
    <3>3. ~(r + 2 < 4) /\ ~(r <= s.last_committed_round) /\ (r + 2) % 2 = 0
          /\ l \in leader(s, r, r + 2)
      BY <3>2, NarwhalLeaders DEF N!Candidate
    <3>. QED
      BY <3>1, <3>3, <1>3 DEF r
  <2>2. r \in Nat /\ round[h] \in Nat /\ r % 2 = 0 /\ r + 3 = round[h]
    BY <2>1, HeaderFacts
  <2>. HIDE DEF r
  <2>3. l \in s.dag /\ l \in Header /\ IsLeader(l) /\ round[l] = r
    BY <1>3, <2>1, <2>2, LeaderElected
  <2>4. At(s, round[l] + 1) # {}
    BY <1>3, <2>1, <2>2, <2>3
  <2>5. CASE ~N!Supported(s, l)
    BY <1>5, <2>4, <2>5
  <2>6. CASE N!Supported(s, l)
    <3>1. Support(s, l, r + 1) >= validity_threshold
      BY <2>3, <2>6, NarwhalLeaders
         DEF N!Supported, N!validity_threshold, validity_threshold, N!total_votes, total_votes
    <3>2. Backed(l)
      BY <1>3, <3>1, SupportBacks
    <3>3. \A q \in PastRounds(s, l) : HasQuorum(Authors(At(s, q + 2)))
      <4>. SUFFICES ASSUME NEW q \in PastRounds(s, l)
                    PROVE  HasQuorum(Authors(At(s, q + 2)))
        OBVIOUS
      <4>1. q + 2 \in Nat /\ s.last_committed_round <= q + 2 /\ q + 2 < round[h]
        BY <1>3, <2>2, <2>3 DEF PastRounds
      <4>. QED
        BY <4>1, <1>3
    <3>4. UNION {leader(s, q, q + 2) : q \in PastRounds(s, l)} = LeadersBetween(s, l)
      BY <1>3, <2>3, <3>3, PastAreBetween
    <3>5. N!PastLeaders(s, l) = LeadersBetween(s, l)
      BY <3>4, NarwhalLeaders
    <3>6. ~MissingHistory(s, l, N!PastLeaders(s, l))
      <4>1. round[l] <= round[h]
        BY <2>2, <2>3
      <4>2. ~MissingHistory(s, l, LeadersBetween(s, l))
        BY <1>3, <2>3, <4>1, HistoryComplete
      <4>. QED
        BY <3>5, <4>2
    <3>. QED
      BY <1>5, <2>1, <2>3, <2>4, <2>6, <3>2, <3>5, <3>6
  <2>. QED
    BY <2>5, <2>6
<1>6. \/ Inserts(n, s)
      \/ \E x \in s.dag :
            /\ IsLeader(x) /\ Backed(x) /\ round[x] > s.last_committed_round
            /\ CommitsAll(n, CommitAll("Narwhal", s, sequence[n],
                                       Chain(s, x, LeadersBetween(s, x))))
  BY <1>4, <1>5
<1>. QED
  BY <1>1, <1>2, <1>6 DEF Turn, s

(* Nothing changes the invariant when nothing changes.                     *)
LEMMA StutterInv == Inv /\ UNCHANGED <<vars, protocol>> => Inv'
BY DEF vars, Inv

(* The invariant is one of Consensus::run, for both protocols, any         *)
(* committee, any DAG and any order of delivery.                           *)
THEOREM ConsensusInvariance == ProtocolSpec => []Inv
<1>1. Inv /\ [ProtocolNext]_<<vars, protocol>> => Inv'
  <2>. SUFFICES ASSUME Inv, [ProtocolNext]_<<vars, protocol>> PROVE Inv'
    OBVIOUS
  <2>1. ASSUME protocol = "Bullshark", B!Next, UNCHANGED protocol PROVE Inv'
    <3>1. PICK n \in Node, h \in Header : B!ReceiveCertificate(n, h)
      BY <2>1 DEF B!Next
    <3>2. Turn(protocol, n, h)
      BY <2>1, <3>1, BullsharkTurn
    <3>. QED
      BY <2>1, <3>2, TurnInv
  <2>2. ASSUME protocol = "Narwhal", N!Next, UNCHANGED protocol PROVE Inv'
    <3>1. PICK n \in Node, h \in Header : N!ReceiveCertificate(n, h)
      BY <2>2 DEF N!Next
    <3>2. Turn(protocol, n, h)
      BY <2>2, <3>1, NarwhalTurn
    <3>. QED
      BY <2>2, <3>2, TurnInv
  <2>3. CASE UNCHANGED <<vars, protocol>>
    BY <2>3, StutterInv
  <2>. QED
    BY <2>1, <2>2, <2>3 DEF ProtocolNext
<1>. QED
  BY InitInv, <1>1, PTL DEF ProtocolSpec

-----------------------------------------------------------------------------
(* Two outputs.                                                            *)

(* What the invariant says of an output: its leaders are linked, and the   *)
(* last one is backed.                                                     *)
CommitOrder(o) ==
    /\ o \in Seq(Outputs)
    /\ LeadersOK(o)
    /\ o # <<>> => Backed(LastLeader(o))

(* The same, index by index.                                               *)
LEMMA CommitOrderFacts ==
    ASSUME NEW o, CommitOrder(o)
    PROVE  /\ Len(o) \in Nat /\ DOMAIN o = 1 .. Len(o)
           /\ \A i \in 1 .. Len(o) : /\ o[i] \in Outputs /\ o[i].leader \in Header
                                     /\ IsLeader(o[i].leader)
           /\ \A i \in 1 .. Len(o) : i > 1 => i - 1 \in 1 .. Len(o)
                                              /\ Precedes(o[i - 1].leader, o[i].leader)
           /\ o # <<>> => Len(o) \in 1 .. Len(o) /\ First(o[1].leader)
<1>1. /\ Len(o) \in Nat /\ DOMAIN o = 1 .. Len(o)
      /\ \A i \in 1 .. Len(o) : o[i] \in Outputs
      /\ o # <<>> => Len(o) \in 1 .. Len(o)
  BY DEF CommitOrder
<1>2. \A i \in 1 .. Len(o) : IsLeader(o[i].leader) /\ o[i].leader \in Header
  BY <1>1 DEF CommitOrder, LeadersOK, Outputs
<1>3. ASSUME NEW i \in 1 .. Len(o), i > 1
      PROVE  i - 1 \in 1 .. Len(o) /\ Precedes(o[i - 1].leader, o[i].leader)
  <2>. DEFINE k == i - 1
  <2>1. k \in 1 .. Len(o) - 1 /\ k \in 1 .. Len(o) /\ k + 1 = i
    BY <1>1, <1>3
  <2>. HIDE DEF k
  <2>2. Precedes(o[k].leader, o[k + 1].leader)
    BY <2>1 DEF CommitOrder, LeadersOK
  <2>. QED
    BY <2>1, <2>2 DEF k
<1>. QED
  BY <1>1, <1>2, <1>3 DEF CommitOrder, LeadersOK

(* An output that gets past the round of a backed leader holds it: the     *)
(* first leader of the output that is not below it has it in its history,  *)
(* and precedes nothing older.                                             *)
LEMMA BackedLeaderKept ==
    ASSUME NEW o, CommitOrder(o), o # <<>>, NEW a \in Header, IsLeader(a), Backed(a),
           round[a] <= round[LastLeader(o)]
    PROVE  \E i \in 1 .. Len(o) : o[i].leader = a
<1>. DEFINE T == {i \in 1 .. Len(o) : round[o[i].leader] >= round[a]}
<1>0. /\ Len(o) \in Nat /\ Len(o) \in 1 .. Len(o)
      /\ \A i \in 1 .. Len(o) : o[i].leader \in Header /\ IsLeader(o[i].leader)
      /\ \A i \in 1 .. Len(o) : i > 1 => i - 1 \in 1 .. Len(o)
                                         /\ Precedes(o[i - 1].leader, o[i].leader)
      /\ First(o[1].leader)
  BY CommitOrderFacts
<1>1. PICK i \in T : \A k \in T : i <= k
  <2>1. T \in SUBSET Nat
    BY <1>0
  <2>2. Len(o) \in T
    BY <1>0, HeaderFacts DEF LastLeader
  <2>. QED
    BY <2>1, <2>2, NatMin
<1>. DEFINE b == o[i].leader
<1>2. /\ b \in Header /\ IsLeader(b) /\ round[b] >= round[a]
      /\ round[a] \in Nat /\ round[b] \in Nat /\ i \in 1 .. Len(o)
  BY <1>0, HeaderFacts
<1>. HIDE DEF T
<1>3. CASE round[b] = round[a]
  BY <1>2, <1>3, OneLeader
<1>4. CASE round[b] # round[a]
  <2>1. round[b] >= round[a] + 2
    BY <1>2, <1>4 DEF IsLeader
  <2>2. a \in History(b) /\ a # b
    BY <1>2, <2>1, BackedReached
  <2>3. i # 1
    BY <1>0, <2>2 DEF First
  <2>4. i > 1 /\ i - 1 \in 1 .. Len(o) /\ Precedes(o[i - 1].leader, b)
    BY <1>0, <1>2, <2>3
  <2>5. round[a] <= round[o[i - 1].leader]
    BY <2>2, <2>4 DEF Precedes
  <2>6. i - 1 \in T
    BY <1>0, <1>2, <2>4, <2>5, HeaderFacts DEF T
  <2>. QED
    BY <1>1, <1>2, <2>6
<1>. QED
  BY <1>3, <1>4

(* Two leaders that precede the same one are equal.                        *)
LEMMA OnePredecessor ==
    ASSUME NEW p \in Header, NEW q \in Header, NEW l \in Header, Precedes(p, l), Precedes(q, l)
    PROVE  p = q
<1>1. round[p] \in Nat /\ round[q] \in Nat /\ round[l] \in Nat
  BY HeaderFacts
<1>2. p # l /\ q # l
  BY <1>1 DEF Precedes
<1>3. round[p] <= round[q] /\ round[q] <= round[p] /\ IsLeader(p) /\ IsLeader(q)
  BY <1>2 DEF Precedes
<1>. QED
  BY <1>1, <1>3, OneLeader

(* The first leader has no predecessor.                                    *)
LEMMA FirstHasNoPredecessor ==
    ASSUME NEW p \in Header, NEW l \in Header, Precedes(p, l)
    PROVE  ~First(l)
BY HeaderFacts DEF Precedes, First

(* Two outputs that have a leader in common have it at the same place and  *)
(* agree on all before it.                                                 *)
LEMMA SameLeadersBelow ==
    ASSUME NEW o, CommitOrder(o), NEW q, CommitOrder(q)
    PROVE  \A i \in 1 .. Len(o), k \in 1 .. Len(q) :
              o[i].leader = q[k].leader
                 => i = k /\ \A j \in 1 .. i : o[j].leader = q[j].leader
<1>. DEFINE P == {i \in Nat : i \in 1 .. Len(o) =>
                     \A k \in 1 .. Len(q) :
                        o[i].leader = q[k].leader
                           => i = k /\ \A j \in 1 .. i : o[j].leader = q[j].leader}
<1>1. /\ Len(o) \in Nat /\ Len(q) \in Nat
      /\ \A i \in 1 .. Len(o) : o[i].leader \in Header
      /\ \A i \in 1 .. Len(q) : q[i].leader \in Header
      /\ \A i \in 1 .. Len(o) : i > 1 => i - 1 \in 1 .. Len(o)
                                         /\ Precedes(o[i - 1].leader, o[i].leader)
      /\ \A i \in 1 .. Len(q) : i > 1 => i - 1 \in 1 .. Len(q)
                                         /\ Precedes(q[i - 1].leader, q[i].leader)
      /\ o # <<>> => First(o[1].leader)
      /\ q # <<>> => First(q[1].leader)
  BY CommitOrderFacts
<1>2. 0 \in P
  OBVIOUS
<1>3. ASSUME NEW i \in P PROVE i + 1 \in P
  <2>. SUFFICES ASSUME i + 1 \in 1 .. Len(o), NEW k \in 1 .. Len(q),
                       o[i + 1].leader = q[k].leader
                PROVE  i + 1 = k /\ \A j \in 1 .. i + 1 : o[j].leader = q[j].leader
    OBVIOUS
  <2>. DEFINE l == q[k].leader
  <2>0. /\ l \in Header /\ o[i + 1].leader = l /\ i \in Nat /\ k \in Nat /\ k >= 1
        /\ o # <<>> /\ q # <<>>
    BY <1>1 DEF CommitOrder
  <2>1. CASE i = 0
    <3>1. First(l)
      BY <2>0, <2>1, <1>1
    <3>2. k = 1
      <4>1. SUFFICES ASSUME k > 1 PROVE FALSE
        BY <2>0
      <4>2. Precedes(q[k - 1].leader, l) /\ q[k - 1].leader \in Header
        BY <1>1, <4>1
      <4>. QED
        BY <2>0, <3>1, <4>2, FirstHasNoPredecessor
    <3>. QED
      BY <2>0, <2>1, <3>2
  <2>2. CASE i # 0
    <3>. DEFINE p == o[i].leader
    <3>1. i + 1 - 1 = i /\ i + 1 > 1
      BY <2>0, <2>2
    <3>2. Precedes(p, l) /\ p \in Header /\ i \in 1 .. Len(o)
      BY <1>1, <2>0, <3>1
    <3>3. k > 1
      <4>1. SUFFICES ASSUME k = 1 PROVE FALSE
        BY <2>0
      <4>2. First(l)
        BY <1>1, <2>0, <4>1
      <4>. QED
        BY <2>0, <3>2, <4>2, FirstHasNoPredecessor
    <3>4. k - 1 \in 1 .. Len(q) /\ Precedes(q[k - 1].leader, l) /\ q[k - 1].leader \in Header
      BY <1>1, <3>3
    <3>5. p = q[k - 1].leader
      BY <2>0, <3>2, <3>4, OnePredecessor
    <3>6. i = k - 1 /\ \A j \in 1 .. i : o[j].leader = q[j].leader
      BY <3>2, <3>4, <3>5
    <3>7. i + 1 = k
      BY <3>6, <2>0
    <3>8. \A j \in 1 .. i + 1 : j \in 1 .. i \/ j = i + 1
      BY <2>0
    <3>. QED
      BY <2>0, <3>6, <3>7, <3>8
  <2>. QED
    BY <2>1, <2>2
<1>4. P = Nat
  <2>. HIDE DEF P
  <2>. QED
    BY <1>2, <1>3, SetInduction, P \in SUBSET Nat DEF P
<1>5. ASSUME NEW i \in 1 .. Len(o), NEW k \in 1 .. Len(q), o[i].leader = q[k].leader
      PROVE  i = k /\ \A j \in 1 .. i : o[j].leader = q[j].leader
  <2>1. i \in Nat
    BY <1>1
  <2>2. i \in P
    BY <1>4, <2>1
  <2>. QED
    BY <1>5, <2>2
<1>. QED
  BY <1>5

(* The leaders of o are the first ones of q.                               *)
LeadersPrefix(o, q) ==
    Len(o) <= Len(q) /\ \A j \in 1 .. Len(o) : o[j].leader = q[j].leader

(* The output with the older last leader is the prefix: that leader is     *)
(* backed, so the other output holds it.                                   *)
LEMMA OutputsComparable ==
    ASSUME NEW o, CommitOrder(o), NEW q, CommitOrder(q),
           o # <<>>, q # <<>> => round[LastLeader(o)] <= round[LastLeader(q)], q # <<>>
    PROVE  LeadersPrefix(o, q)
<1>1. /\ Len(o) \in 1 .. Len(o) /\ LastLeader(o) \in Header /\ IsLeader(LastLeader(o))
      /\ Len(q) \in Nat
  BY CommitOrderFacts DEF LastLeader
<1>2. Backed(LastLeader(o))
  BY DEF CommitOrder
<1>3. PICK k \in 1 .. Len(q) : q[k].leader = LastLeader(o)
  BY <1>1, <1>2, BackedLeaderKept
<1>4. Len(o) = k /\ \A j \in 1 .. Len(o) : o[j].leader = q[j].leader
  BY <1>1, <1>3, SameLeadersBelow DEF LastLeader
<1>. QED
  BY <1>1, <1>3, <1>4 DEF LeadersPrefix

(* Of two outputs one has the first leaders of the other.                  *)
LEMMA OneIsPrefix ==
    ASSUME NEW o, CommitOrder(o), NEW q, CommitOrder(q)
    PROVE  LeadersPrefix(o, q) \/ LeadersPrefix(q, o)
<1>1. Len(o) \in Nat /\ Len(q) \in Nat /\ (o = <<>> => Len(o) = 0) /\ (q = <<>> => Len(q) = 0)
  BY CommitOrderFacts
<1>2. CASE o = <<>> \/ q = <<>>
  BY <1>1, <1>2 DEF LeadersPrefix
<1>3. CASE o # <<>> /\ q # <<>>
  <2>1. round[LastLeader(o)] \in Nat /\ round[LastLeader(q)] \in Nat
    BY <1>3, CommitOrderFacts, HeaderFacts DEF LastLeader
  <2>2. round[LastLeader(o)] <= round[LastLeader(q)] \/ round[LastLeader(q)] <= round[LastLeader(o)]
    BY <2>1
  <2>. QED
    BY <1>3, <2>2, OutputsComparable
<1>. QED
  BY <1>2, <1>3

-----------------------------------------------------------------------------
(* The properties.                                                         *)

(* The outputs of all authorities are such outputs.                        *)
LEMMA InvGivesOrder ==
    ASSUME Inv, NEW n \in Node
    PROVE  CommitOrder(sequence[n])
BY DEF Inv, NodeOK, TaskOK, CommitOrder

(* leaders(n) is the sequence of the leaders of the output of n.           *)
LEMMA LeadersFacts ==
    ASSUME Inv, NEW n \in Node
    PROVE  /\ leaders(n) \in Seq(Header) /\ Len(leaders(n)) = Len(sequence[n])
           /\ \A i \in 1 .. Len(sequence[n]) : leaders(n)[i] = sequence[n][i].leader
<1>1. /\ Len(sequence[n]) \in Nat /\ DOMAIN sequence[n] = 1 .. Len(sequence[n])
      /\ \A i \in 1 .. Len(sequence[n]) : sequence[n][i].leader \in Header
  BY InvGivesOrder, CommitOrderFacts
<1>. DEFINE k == Len(sequence[n])
            f(i) == sequence[n][i].leader
<1>2. leaders(n) = [i \in 1 .. k |-> f(i)] /\ k \in Nat /\ \A i \in 1 .. k : f(i) \in Header
  BY <1>1 DEF leaders
<1>. HIDE DEF k, f
<1>3. leaders(n) \in Seq(Header) /\ Len(leaders(n)) = k /\ \A i \in 1 .. k : leaders(n)[i] = f(i)
  BY <1>2
<1>. QED
  BY <1>3 DEF k, f

(* A sequence that agrees with a longer one element by element is a prefix *)
(* of it.                                                                  *)
LEMMA PrefixOfElements ==
    ASSUME NEW S, NEW s \in Seq(S), NEW t \in Seq(S), Len(s) <= Len(t),
           \A i \in 1 .. Len(s) : s[i] = t[i]
    PROVE  IsPrefix(s, t)
<1>1. SubSeq(s, 1, Len(s)) = SubSeq(t, 1, Len(s))
  OBVIOUS
<1>. QED
  BY <1>1 DEF IsPrefix

(* The invariant implies that authorities commit the same leaders in the   *)
(* same order.                                                             *)
LEMMA AgreementOfOrders == Inv => LeaderAgreement
<1>. SUFFICES ASSUME Inv, NEW m \in Node, NEW n \in Node
              PROVE  IsPrefix(leaders(m), leaders(n)) \/ IsPrefix(leaders(n), leaders(m))
  BY DEF LeaderAgreement
<1>1. ASSUME NEW a \in Node, NEW b \in Node, LeadersPrefix(sequence[a], sequence[b])
      PROVE  IsPrefix(leaders(a), leaders(b))
  <2>1. /\ Len(sequence[a]) \in Nat /\ Len(sequence[b]) \in Nat
        /\ Len(sequence[a]) <= Len(sequence[b])
    BY <1>1, InvGivesOrder, CommitOrderFacts DEF LeadersPrefix
  <2>2. \A i \in 1 .. Len(sequence[a]) :
           i \in 1 .. Len(sequence[b]) /\ sequence[a][i].leader = sequence[b][i].leader
    BY <1>1, <2>1 DEF LeadersPrefix
  <2>3. /\ leaders(a) \in Seq(Header) /\ leaders(b) \in Seq(Header)
        /\ Len(leaders(a)) <= Len(leaders(b))
        /\ \A i \in 1 .. Len(leaders(a)) : leaders(a)[i] = leaders(b)[i]
    BY <2>1, <2>2, LeadersFacts
  <2>. QED
    BY <2>3, PrefixOfElements
<1>2. LeadersPrefix(sequence[m], sequence[n]) \/ LeadersPrefix(sequence[n], sequence[m])
  BY InvGivesOrder, OneIsPrefix
<1>. QED
  BY <1>1, <1>2

(* Two outputs with the same leaders that can be replayed are the same:    *)
(* each sub-dag and last_committed are determined by those before.         *)
LEMMA ReplaysAgree ==
    ASSUME NEW o, CommitOrder(o), NEW q, CommitOrder(q), LeadersPrefix(o, q),
           NEW w, Replays(o, w), NEW v, Replays(q, v)
    PROVE  \A i \in 1 .. Len(o) : o[i] = q[i]
<1>0. /\ Len(o) \in Nat /\ Len(q) \in Nat /\ Len(o) <= Len(q)
      /\ \A i \in 1 .. Len(o) : o[i] \in Outputs /\ o[i].leader = q[i].leader
      /\ \A i \in 1 .. Len(q) : q[i] \in Outputs
  BY CommitOrderFacts DEF LeadersPrefix
<1>. DEFINE P == {i \in Nat : i <= Len(o) =>
                     w[i] = v[i] /\ (i > 0 => o[i].certificates = q[i].certificates)}
<1>1. 0 \in P
  BY DEF Replays
<1>2. ASSUME NEW i \in P PROVE i + 1 \in P
  <2>. SUFFICES ASSUME i + 1 <= Len(o)
                PROVE  w[i + 1] = v[i + 1] /\ o[i + 1].certificates = q[i + 1].certificates
    OBVIOUS
  <2>. DEFINE k == i + 1
  <2>1. k \in 1 .. Len(o) /\ k \in 1 .. Len(q) /\ k - 1 = i /\ w[i] = v[i] /\ k \in Nat
    BY <1>0
  <2>. HIDE DEF k
  <2>2. RoundBefore(o, k) = RoundBefore(q, k)
    <3>1. CASE k = 1
      BY <3>1 DEF RoundBefore
    <3>2. CASE k # 1
      <4>1. k - 1 \in 1 .. Len(o)
        BY <2>1, <3>2, <1>0
      <4>. QED
        BY <3>2, <4>1, <1>0 DEF RoundBefore
    <3>. QED
      BY <3>1, <3>2
  <2>3. o[k].leader = q[k].leader
    BY <2>1, <1>0
  <2>4. /\ o[k].certificates = Ordered(w[k - 1], RoundBefore(o, k), o[k].leader)
        /\ w[k] = After(w[k - 1], o[k].certificates)
    BY <2>1 DEF Replays
  <2>5. /\ q[k].certificates = Ordered(v[k - 1], RoundBefore(q, k), q[k].leader)
        /\ v[k] = After(v[k - 1], q[k].certificates)
    BY <2>1 DEF Replays
  <2>6. o[k].certificates = q[k].certificates /\ w[k] = v[k]
    BY <2>1, <2>2, <2>3, <2>4, <2>5
  <2>. QED
    BY <2>6 DEF k
<1>3. P = Nat
  <2>. HIDE DEF P
  <2>. QED
    BY <1>1, <1>2, SetInduction, P \in SUBSET Nat DEF P
<1>4. ASSUME NEW i \in 1 .. Len(o) PROVE o[i] = q[i]
  <2>1. o[i].certificates = q[i].certificates
    BY <1>0, <1>3
  <2>2. o[i] \in Outputs /\ q[i] \in Outputs /\ o[i].leader = q[i].leader
    BY <1>0
  <2>. QED
    BY <2>1, <2>2 DEF Outputs
<1>. QED
  BY <1>4

(* The invariant implies that authorities that received nothing late       *)
(* output the same certificates in the same order.                         *)
LEMMA AgreementOfSequences == Inv => SequenceAgreement
<1>. SUFFICES ASSUME Inv, NEW m \in Node, NEW n \in Node, late[m] = {}, late[n] = {}
              PROVE  IsPrefix(sequence[m], sequence[n]) \/ IsPrefix(sequence[n], sequence[m])
  BY DEF SequenceAgreement
<1>1. ASSUME NEW a \in Node, NEW b \in Node, late[a] = {}, late[b] = {},
             LeadersPrefix(sequence[a], sequence[b])
      PROVE  IsPrefix(sequence[a], sequence[b])
  <2>1. /\ \E w : Replays(sequence[a], w)
        /\ \E w : Replays(sequence[b], w)
    BY <1>1 DEF Inv, NodeOK, TaskOK, CleanOK
  <2>2. PICK w : Replays(sequence[a], w)
    BY <2>1
  <2>3. PICK v : Replays(sequence[b], v)
    BY <2>1
  <2>4. CommitOrder(sequence[a]) /\ CommitOrder(sequence[b])
    BY InvGivesOrder
  <2>5. \A i \in 1 .. Len(sequence[a]) : sequence[a][i] = sequence[b][i]
    BY <1>1, <2>2, <2>3, <2>4, ReplaysAgree
  <2>6. /\ sequence[a] \in Seq(Outputs) /\ sequence[b] \in Seq(Outputs)
        /\ Len(sequence[a]) <= Len(sequence[b])
    BY <1>1, <2>4 DEF CommitOrder, LeadersPrefix
  <2>. QED
    BY <2>5, <2>6, PrefixOfElements
<1>2. LeadersPrefix(sequence[m], sequence[n]) \/ LeadersPrefix(sequence[n], sequence[m])
  BY InvGivesOrder, OneIsPrefix
<1>. QED
  BY <1>1, <1>2

(* The invariant implies that nothing is output twice unless it was late.  *)
LEMMA OutputsDisjoint == Inv => OutputOnce
<1>. SUFFICES ASSUME Inv, NEW n \in Node, NEW i \in DOMAIN sequence[n],
                     NEW j \in DOMAIN sequence[n], i # j
              PROVE  sequence[n][i].certificates \cap sequence[n][j].certificates \subseteq late[n]
  BY DEF OutputOnce
<1>1. OnceOK(state[n], sequence[n], late[n])
  BY DEF Inv, NodeOK, TaskOK
<1>2. i \in 1 .. Len(sequence[n]) /\ j \in 1 .. Len(sequence[n])
  BY InvGivesOrder, CommitOrderFacts
<1>. QED
  BY <1>1, <1>2 DEF OnceOK

(* The invariant implies that no authority jumps over a leader that f + 1  *)
(* certificates support.                                                   *)
LEMMA BackedLeadersKept == Inv => SupportedLeaderNotSkipped
<1>. SUFFICES ASSUME Inv, NEW n \in Node, NEW h \in Header,
                     round[h] > 0, round[h] % 2 = 0, author[h] = leader_of[round[h]],
                     HasValidity(Authors({x \in Header : h \in parents[x]})),
                     round[h] <= state[n].last_committed_round
              PROVE  h \in ToSet(leaders(n))
  BY DEF SupportedLeaderNotSkipped
<1>. DEFINE o == sequence[n]
<1>1. round[h] \in Nat /\ IsLeader(h) /\ Backed(h)
  BY HeaderFacts DEF IsLeader, Backed
<1>2. CommitOrder(o)
  BY InvGivesOrder
<1>3. state[n].last_committed_round = IF o = <<>> THEN 0 ELSE round[LastLeader(o)]
  BY DEF Inv, NodeOK, TaskOK
<1>4. /\ DOMAIN leaders(n) = 1 .. Len(o)
      /\ \A i \in 1 .. Len(o) : leaders(n)[i] = o[i].leader
  BY <1>2, LeadersFacts, CommitOrderFacts DEF leaders
<1>. HIDE DEF o
<1>5. o # <<>> /\ round[h] <= round[LastLeader(o)]
  BY <1>1, <1>3
<1>6. PICK i \in 1 .. Len(o) : o[i].leader = h
  BY <1>1, <1>2, <1>5, BackedLeaderKept
<1>. QED
  BY <1>4, <1>6 DEF ToSet

(* Two authorities that run Narwhal or Bullshark never commit different    *)
(* leaders at the same place (order_leaders, linked), whatever their order *)
(* of delivery and their garbage collection.                               *)
THEOREM LeaderAgreementHolds == ProtocolSpec => []LeaderAgreement
BY ConsensusInvariance, AgreementOfOrders, PTL

(* Nor different certificates (order_dag, State::update), as long as       *)
(* neither received one late.                                              *)
THEOREM SequenceAgreementHolds == ProtocolSpec => []SequenceAgreement
BY ConsensusInvariance, AgreementOfSequences, PTL

(* A leader that f + 1 certificates support, which some authority may have *)
(* committed, is committed by every authority that gets past its round.    *)
THEOREM SupportedLeaderNotSkippedHolds == ProtocolSpec => []SupportedLeaderNotSkipped
BY ConsensusInvariance, BackedLeadersKept, PTL

(* State::last_committed keeps order_dag from returning a certificate      *)
(* twice, unless it was sent again or late.                                *)
THEOREM OutputOnceHolds == ProtocolSpec => []OutputOnce
BY ConsensusInvariance, OutputsDisjoint, PTL

(* The expects of linked and of Narwhal's support count ("We should have   *)
(* the whole history by now") never fail.                                  *)
THEOREM WholeHistoryHolds == ProtocolSpec => []WholeHistory
<1>1. Inv => WholeHistory
  BY DEF Inv, WholeHistory
<1>. QED
  BY <1>1, ConsensusInvariance, PTL
=============================================================================
