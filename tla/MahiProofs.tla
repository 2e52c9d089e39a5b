----------------------------- MODULE MahiProofs -----------------------------
(***************************************************************************)
(* The safety of the Mahi-Mahi committer, for every committee, every set   *)
(* of DAGs of valid blocks and both lengths of a wave.                     *)
(*                                                                         *)
(* The recursive functions of MahiMahi are unfolded by naming the equation *)
(* each of them satisfies (IsFound, IsReach, IsRecords, IsEmit) and        *)
(* proving, over the rounds or the slots, that a function satisfies it.    *)
(* The decisions of a committer are compared with those of the whole DAG,  *)
(* which no order of arrival can influence: first slot by slot             *)
(* (DirectAgrees and AnchorAgrees), then turn by turn (TurnAgrees).        *)
(***************************************************************************)
EXTENDS MahiMahi, CommitteeProofs, FiniteSetTheorems, TLAPS

-----------------------------------------------------------------------------
(* The DAG: quorums of blocks.                                             *)

(* What the lemmas assume of a state: the DAG is one of World.             *)
Valid == MahiAssumption /\ world \in World

(* A part of the DAG that holds the parents of its blocks, as a dag does.  *)
Closed(S) == S \subseteq Blocks /\ \A h \in S : parents_of(h) \subseteq S

(* A DAG has blocks, and finitely many.                                    *)
LEMMA BlocksFinite == Valid => IsFiniteSet(Blocks) /\ Blocks # {}
  BY DEF Valid, MahiAssumption, WellFormed, Blocks

(* What WellFormed says of a block and its parents.                        *)
LEMMA BlockFacts ==
    ASSUME Valid, NEW h \in Blocks
    PROVE  /\ origin(h) \in Authority
           /\ round_of(h) \in Nat
           /\ parents_of(h) \subseteq Blocks
           /\ \A p \in parents_of(h) : round_of(p) \in Nat /\ round_of(p) < round_of(h)
  BY DEF Valid, MahiAssumption, WellFormed, Blocks, origin, round_of, parents_of,
         validate_mahi_parents

(* Blocks whose authors form a quorum exist.                               *)
LEMMA QuorumNonempty ==
    ASSUME NEW S, HasQuorum(Authors(S))
    PROVE  S # {}
<1>1. SUFFICES ASSUME S = {} PROVE FALSE
  OBVIOUS
<1>2. Authors(S) = {}
  BY <1>1 DEF Authors
<1>3. Weight[{}] = 0 /\ Weight[{}] >= quorum_threshold
  BY <1>2, WeightAssumption DEF HasQuorum
<1>. QED
  BY <1>3, Thresholds

(* The parents of h in the round before it.                                *)
Previous(h) == {p \in parents_of(h) : round_of(p) + 1 = round_of(h)}

(* Every block after round 0 has parents of a quorum in the round before   *)
(* it.                                                                     *)
LEMMA QuorumOfParents ==
    ASSUME Valid, NEW h \in Blocks, round_of(h) > 0
    PROVE  HasQuorum(Authors(Previous(h)))
<1>1. validate_mahi_parents(world, h)
  BY DEF Valid, MahiAssumption, WellFormed, Blocks
<1>2. HasQuorum({world[p].author : p \in {q \in world[h].parents :
                                            world[q].round + 1 = world[h].round}})
  BY <1>1 DEF validate_mahi_parents, round_of
<1>3. Authors(Previous(h)) = {world[p].author : p \in {q \in world[h].parents :
                                            world[q].round + 1 = world[h].round}}
  BY DEF Authors, Previous, origin, round_of, parents_of
<1>. QED
  BY <1>2, <1>3

(* An honest authority makes one block in a round.                         *)
LEMMA OneBlockPerSlot ==
    ASSUME Valid, NEW g \in Blocks, NEW h \in Blocks, origin(g) = origin(h),
           round_of(g) = round_of(h), origin(g) \in Honest
    PROVE  g = h
  BY DEF Valid, MahiAssumption, WellFormed, Blocks, origin, round_of, Honest

(* Authors of blocks are authorities.                                      *)
LEMMA AuthorsType ==
    ASSUME Valid, NEW S \in SUBSET Blocks
    PROVE  Authors(S) \in SUBSET Authority
  BY BlockFacts DEF Authors

(* More blocks have the authors of fewer ones.                             *)
LEMMA MoreAuthors ==
    ASSUME Valid, NEW S \in SUBSET Blocks, NEW T \in SUBSET Blocks, S \subseteq T,
           HasQuorum(Authors(S))
    PROVE  HasQuorum(Authors(T))
<1>1. Authors(S) \subseteq Authors(T)
  BY DEF Authors
<1>2. Authors(S) \in SUBSET Authority /\ Authors(T) \in SUBSET Authority
  BY AuthorsType
<1>3. Weight[Authors(S)] <= Weight[Authors(T)] /\ Weight[Authors(S)] \in Nat /\ Weight[Authors(T)] \in Nat
  BY <1>1, <1>2, WeightMonotone
<1>. QED
  BY <1>3, Thresholds DEF HasQuorum

(* Two sets of blocks of a round, each of a quorum, share the block of an  *)
(* honest authority.                                                       *)
LEMMA QuorumsShareBlock ==
    ASSUME Valid, NEW S \in SUBSET Blocks, NEW T \in SUBSET Blocks, NEW r,
           \A h \in S \cup T : round_of(h) = r,
           HasQuorum(Authors(S)), HasQuorum(Authors(T))
    PROVE  \E h \in S : h \in T
<1>1. PICK n \in Honest : n \in Authors(S) /\ n \in Authors(T)
  BY AuthorsType, QuorumIntersection
<1>2. PICK g \in S : origin(g) = n
  BY <1>1 DEF Authors
<1>3. PICK h \in T : origin(h) = n
  BY <1>1 DEF Authors
<1>4. g = h
  BY <1>2, <1>3, OneBlockPerSlot
<1>. QED
  BY <1>4

-----------------------------------------------------------------------------
(* find_support.                                                           *)

(* The rounds of a DAG are bounded.                                        *)
LEMMA RoundsBounded == Valid => \E b \in Nat : \A h \in Blocks : round_of(h) <= b
<1>. SUFFICES ASSUME Valid PROVE \E b \in Nat : \A h \in Blocks : round_of(h) <= b
  OBVIOUS
<1>1. PICK n \in Nat : ExistsSurjection(1 .. n, Blocks)
  BY BlocksFinite, FS_NatSurjection
<1>2. PICK f \in [1 .. n -> Blocks] : \A h \in Blocks : \E i \in 1 .. n : f[i] = h
  BY <1>1 DEF ExistsSurjection, Surjection
<1>. DEFINE P == {k \in Nat : k <= n => \E b \in Nat : \A i \in 1 .. k : round_of(f[i]) <= b}
<1>3. 0 \in P
  OBVIOUS
<1>4. ASSUME NEW k \in P PROVE k + 1 \in P
  <2>. SUFFICES ASSUME k + 1 <= n
                PROVE  \E b \in Nat : \A i \in 1 .. k + 1 : round_of(f[i]) <= b
    OBVIOUS
  <2>1. PICK b \in Nat : \A i \in 1 .. k : round_of(f[i]) <= b
    OBVIOUS
  <2>2. f[k + 1] \in Blocks
    OBVIOUS
  <2>3. round_of(f[k + 1]) \in Nat
    BY <2>2, BlockFacts
  <2>5. b + round_of(f[k + 1]) \in Nat
    BY <2>3
  <2>6. ASSUME NEW i \in 1 .. k + 1 PROVE round_of(f[i]) <= b + round_of(f[k + 1])
    <3>1. CASE i = k + 1
      BY <2>3, <3>1
    <3>2. CASE i \in 1 .. k
      <4>1. round_of(f[i]) \in Nat /\ round_of(f[i]) <= b
        BY <2>1, <3>2, BlockFacts
      <4>. QED
        BY <4>1, <2>3
    <3>. QED
      BY <3>1, <3>2
  <2>. QED
    BY <2>5, <2>6
<1>5. P = Nat
  <2>. HIDE DEF P
  <2>. QED
    BY <1>3, <1>4, SetInduction, P \in SUBSET Nat DEF P
<1>6. PICK b \in Nat : \A i \in 1 .. n : round_of(f[i]) <= b
  <2>1. n \in P
    <3>. HIDE DEF P
    <3>. QED
      BY <1>5
  <2>2. n <= n
    OBVIOUS
  <2>. QED
    BY <2>1, <2>2
<1>. QED
  BY <1>2, <1>6

(* What a search meets first at h when f is what it meets at the parents   *)
(* of h.                                                                   *)
Met(f, h, a, r) ==
    LET hits == {<<p, IF round_of(p) = r /\ origin(p) = a THEN {p} ELSE f[p]>> :
                   p \in parents_of(h)}
        met == {x \in hits : x[2] # {}}
    IN UNION {x[2] : x \in {y \in met : \A z \in met :
                              digest_of(y[1]) <= digest_of(z[1])}}

(* f is the function found of find_support.                                *)
IsFound(f, a, r) ==
    f = [h \in Blocks |-> IF round_of(h) <= r THEN {} ELSE Met(f, h, a, r)]

(* find_support takes its value from that function.                        *)
LEMMA FoundIs ==
    ASSUME NEW h, NEW a, NEW r
    PROVE  find_support(h, a, r) = (CHOOSE f : IsFound(f, a, r))[h]
  BY DEF find_support, IsFound, Met

(* Met depends on the parents of h only.                                   *)
LEMMA MetSame ==
    ASSUME NEW f, NEW g, NEW h, NEW a, NEW r, \A p \in parents_of(h) : f[p] = g[p]
    PROVE  Met(f, h, a, r) = Met(g, h, a, r)
<1>1. {<<p, IF round_of(p) = r /\ origin(p) = a THEN {p} ELSE f[p]>> : p \in parents_of(h)}
      = {<<p, IF round_of(p) = r /\ origin(p) = a THEN {p} ELSE g[p]>> : p \in parents_of(h)}
  OBVIOUS
<1>. QED
  BY <1>1, Zenon DEF Met

(* What is met is within any set that holds the parents and what they      *)
(* meet.                                                                   *)
LEMMA MetWithin ==
    ASSUME NEW f, NEW h, NEW a, NEW r, NEW S, parents_of(h) \subseteq S,
           \A p \in parents_of(h) : f[p] \subseteq S
    PROVE  Met(f, h, a, r) \subseteq S
<1>. DEFINE hits == {<<p, IF round_of(p) = r /\ origin(p) = a THEN {p} ELSE f[p]>> :
                       p \in parents_of(h)}
            met == {x \in hits : x[2] # {}}
            first == {y \in met : \A z \in met : digest_of(y[1]) <= digest_of(z[1])}
<1>1. \A x \in hits : x[2] \subseteq S
  OBVIOUS
<1>2. first \subseteq hits
  OBVIOUS
<1>3. Met(f, h, a, r) = UNION {x[2] : x \in first}
  BY Zenon DEF Met
<1>. HIDE DEF first, hits
<1>. QED
  BY <1>1, <1>2, <1>3

(* The recursion of find_support defines a function: on the blocks of the  *)
(* first rounds, one round after the other.                                *)
LEMMA FoundExists ==
    ASSUME Valid, NEW a, NEW r PROVE \E f : IsFound(f, a, r)
<1>. DEFINE Val(f, h) == IF round_of(h) <= r THEN {} ELSE Met(f, h, a, r)
            Up(f, k) == \A h \in Blocks : round_of(h) <= k => f[h] = Val(f, h)
            P == {k \in Nat : \E f : Up(f, k)}
<1>0. ASSUME NEW f, NEW g, NEW h \in Blocks, \A p \in parents_of(h) : f[p] = g[p]
      PROVE  Val(f, h) = Val(g, h)
  <2>1. Met(f, h, a, r) = Met(g, h, a, r)
    BY <1>0, MetSame
  <2>. QED
    BY <2>1
<1>. HIDE DEF Val
<1>1. ASSUME NEW k \in Nat, NEW f, \A h \in Blocks : round_of(h) < k => f[h] = Val(f, h)
      PROVE  \E g : Up(g, k)
  <2>. DEFINE g == [h \in Blocks |-> IF round_of(h) < k THEN f[h] ELSE Val(f, h)]
  <2>1. ASSUME NEW h \in Blocks, round_of(h) <= k PROVE g[h] = Val(g, h)
    <3>1. \A p \in parents_of(h) : p \in Blocks /\ round_of(p) < k
      BY <2>1, BlockFacts
    <3>2. \A p \in parents_of(h) : f[p] = g[p]
      BY <3>1
    <3>3. Val(g, h) = Val(f, h)
      <4>. HIDE DEF g
      <4>. QED
        BY <3>2, <1>0
    <3>4. g[h] = Val(f, h)
      BY <1>1
    <3>. QED
      BY <3>3, <3>4
  <2>. HIDE DEF g
  <2>. QED
    BY <2>1
<1>2. 0 \in P
  <2>1. \A h \in Blocks : ~(round_of(h) < 0)
    BY BlockFacts
  <2>. HIDE DEF Up
  <2>. QED
    BY <1>1, <2>1
<1>3. ASSUME NEW k \in P PROVE k + 1 \in P
  <2>1. PICK f : Up(f, k)
    OBVIOUS
  <2>2. \A h \in Blocks : round_of(h) < k + 1 => f[h] = Val(f, h)
    BY <2>1, BlockFacts
  <2>3. \E g : Up(g, k + 1)
    <3>. HIDE DEF Up
    <3>. QED
      BY <1>1, <2>2
  <2>. QED
    BY <2>3
<1>4. P = Nat
  <2>. HIDE DEF P
  <2>. QED
    BY <1>2, <1>3, SetInduction, P \in SUBSET Nat DEF P
<1>5. PICK b \in Nat : \A h \in Blocks : round_of(h) <= b
  BY RoundsBounded
<1>6. PICK f : Up(f, b)
  BY <1>4
<1>7. \A h \in Blocks : f[h] = Val(f, h)
  BY <1>5, <1>6
<1>. DEFINE g == [h \in Blocks |-> f[h]]
<1>8. ASSUME NEW h \in Blocks PROVE g[h] = Val(g, h)
  <2>1. \A p \in parents_of(h) : f[p] = g[p]
    BY BlockFacts
  <2>2. g[h] = f[h]
    OBVIOUS
  <2>. HIDE DEF g
  <2>. QED
    BY <1>0, <1>7, <2>1, <2>2
<1>9. g = [h \in Blocks |-> Val(g, h)]
  <2>1. g = [h \in Blocks |-> g[h]]
    OBVIOUS
  <2>. HIDE DEF g
  <2>. QED
    BY <1>8, <2>1
<1>. HIDE DEF g
<1>10. IsFound(g, a, r)
  BY <1>9 DEF IsFound, Val
<1>. QED
  BY <1>10

(* A search stays within the history of the block it starts from.          *)
LEMMA SupportWithin ==
    ASSUME Valid, NEW S, Closed(S), NEW h \in S, NEW a, NEW r
    PROVE  find_support(h, a, r) \subseteq S
<1>. DEFINE f == CHOOSE f : IsFound(f, a, r)
<1>1. IsFound(f, a, r)
  BY FoundExists
<1>. HIDE DEF f
<1>. DEFINE P == {k \in Nat : \A x \in S : round_of(x) < k => f[x] \subseteq S}
<1>2. 0 \in P
  BY BlockFacts DEF Closed
<1>3. ASSUME NEW k \in P PROVE k + 1 \in P
  <2>1. ASSUME NEW x \in S, round_of(x) < k + 1 PROVE f[x] \subseteq S
    <3>1. x \in Blocks /\ parents_of(x) \subseteq S
      BY DEF Closed
    <3>2. f[x] = IF round_of(x) <= r THEN {} ELSE Met(f, x, a, r)
      BY <1>1, <3>1 DEF IsFound
    <3>3. \A p \in parents_of(x) : f[p] \subseteq S
      <4>1. \A p \in parents_of(x) : round_of(p) < k
        BY <2>1, <3>1, BlockFacts
      <4>. QED
        BY <3>1, <4>1
    <3>4. Met(f, x, a, r) \subseteq S
      BY <3>1, <3>3, MetWithin
    <3>. QED
      BY <3>2, <3>4
  <2>. QED
    BY <2>1
<1>4. P = Nat
  <2>. HIDE DEF P
  <2>. QED
    BY <1>2, <1>3, SetInduction, P \in SUBSET Nat DEF P
<1>5. h \in Blocks /\ round_of(h) \in Nat
  BY BlockFacts DEF Closed
<1>6. round_of(h) + 1 \in P
  BY <1>4, <1>5
<1>7. f[h] \subseteq S
  BY <1>5, <1>6
<1>. QED
  BY <1>7, FoundIs DEF f

-----------------------------------------------------------------------------
(* Reachable: the history of a block.                                      *)

(* What round r adds to the blocks Y that were reached in later rounds.    *)
StageOf(r, Y, stop) == Y \cup {p \in (UNION {parents_of(x) : x \in Y}) \ stop : round_of(p) = r}

(* It stays within a set that is closed, and avoids stop.                  *)
LEMMA StageWithin ==
    ASSUME NEW S, Closed(S), NEW stop, NEW Y \in SUBSET (S \ stop), NEW r
    PROVE  StageOf(r, Y, stop) \subseteq S \ stop
<1>1. \A x \in Y : parents_of(x) \subseteq S
  BY DEF Closed
<1>. DEFINE U == UNION {parents_of(x) : x \in Y}
<1>2. U \subseteq S
  BY <1>1
<1>3. StageOf(r, Y, stop) = Y \cup {p \in U \ stop : round_of(p) = r}
  BY DEF StageOf
<1>4. Y \subseteq S \ stop
  OBVIOUS
<1>. HIDE DEF U
<1>. QED
  BY <1>2, <1>3, <1>4

(* f is the function reach of Reachable.                                   *)
IsReach(f, h, stop) ==
    f = [r \in 0 .. round_of(h) |->
           IF r = round_of(h) THEN {h} \ stop ELSE StageOf(r, f[r + 1], stop)]

(* Reachable takes its value from that function.                           *)
LEMMA ReachableIs ==
    ASSUME NEW h, NEW stop
    PROVE  Reachable(h, stop) = (CHOOSE f : IsReach(f, h, stop))[0]
  BY DEF Reachable, IsReach, StageOf

(* The recursion of Reachable defines a function.                          *)
LEMMA ReachExists ==
    ASSUME Valid, NEW h \in Blocks, NEW stop
    PROVE  \E f : IsReach(f, h, stop)
<1>. DEFINE b == round_of(h)
            V == SUBSET Blocks
            v == {h} \ stop
            G == [q \in (0 .. b) \X V |-> StageOf(q[1], q[2], stop)]
<1>1. b \in Nat
  BY BlockFacts
<1>2. ASSUME NEW r, NEW Y \in V PROVE StageOf(r, Y, stop) \in V
  <2>1. \A x \in Y : parents_of(x) \subseteq Blocks
    BY BlockFacts
  <2>. QED
    BY <2>1 DEF StageOf
<1>3. G \in [(0 .. b) \X V -> V]
  <2>. HIDE DEF V
  <2>. QED
    BY <1>2
<1>4. v \in V
  OBVIOUS
<1>5. PICK f \in [0 .. b -> V] : DownFrom(f, 0, b, v, G)
  <2>. HIDE DEF b, V, v, G
  <2>1. 0 \in Int /\ b \in Int /\ 0 <= b
    BY <1>1
  <2>. QED
    BY <1>3, <1>4, <2>1, DownwardRecursion
<1>6. ASSUME NEW r \in 0 .. b, r # b PROVE f[r] = StageOf(r, f[r + 1], stop)
  <2>1. r \in 0 .. b - 1 /\ r + 1 \in 0 .. b
    BY <1>1, <1>6
  <2>2. f[r] = G[<<r, f[r + 1]>>] /\ f[r + 1] \in V
    BY <1>5, <2>1 DEF DownFrom
  <2>. QED
    BY <2>2
<1>7. f[b] = v
  BY <1>5 DEF DownFrom
<1>8. f = [r \in 0 .. b |-> IF r = b THEN v ELSE StageOf(r, f[r + 1], stop)]
  <2>1. f = [r \in 0 .. b |-> f[r]]
    OBVIOUS
  <2>. HIDE DEF b, V, v, G
  <2>. QED
    BY <1>6, <1>7, <2>1
<1>. QED
  BY <1>8 DEF IsReach

(* Its stages, counted from the round of h downwards.                      *)
LEMMA ReachStages ==
    ASSUME Valid, NEW h \in Blocks, NEW stop, NEW f, IsReach(f, h, stop)
    PROVE  /\ f[round_of(h)] = {h} \ stop
           /\ \A i \in Nat : i + 1 <= round_of(h) =>
                 f[round_of(h) - (i + 1)] =
                   StageOf(round_of(h) - (i + 1), f[round_of(h) - i], stop)
<1>1. round_of(h) \in Nat
  BY BlockFacts
<1>2. f[round_of(h)] = {h} \ stop
  BY <1>1 DEF IsReach
<1>3. ASSUME NEW i \in Nat, i + 1 <= round_of(h)
      PROVE  f[round_of(h) - (i + 1)] =
                   StageOf(round_of(h) - (i + 1), f[round_of(h) - i], stop)
  <2>. DEFINE r == round_of(h) - (i + 1)
  <2>1. r \in 0 .. round_of(h) /\ r # round_of(h) /\ r + 1 = round_of(h) - i
    BY <1>1, <1>3
  <2>2. f[r] = StageOf(r, f[r + 1], stop)
    <3>. HIDE DEF r
    <3>. QED
      BY <2>1 DEF IsReach
  <2>. QED
    BY <2>1, <2>2
<1>. QED
  BY <1>2, <1>3

(* What is reachable from a block of a closed set is in this set, without  *)
(* the blocks of stop.                                                     *)
LEMMA ReachableWithin ==
    ASSUME Valid, NEW S, Closed(S), NEW h \in S, NEW stop
    PROVE  Reachable(h, stop) \subseteq S \ stop
<1>1. h \in Blocks /\ round_of(h) \in Nat
  BY BlockFacts DEF Closed
<1>. DEFINE f == CHOOSE f : IsReach(f, h, stop)
<1>2. IsReach(f, h, stop)
  BY <1>1, ReachExists
<1>3. Reachable(h, stop) = f[0]
  BY ReachableIs
<1>. HIDE DEF f
<1>. DEFINE P == {i \in Nat : i <= round_of(h) => f[round_of(h) - i] \subseteq S \ stop}
<1>4. 0 \in P
  <2>1. round_of(h) - 0 = round_of(h)
    BY <1>1
  <2>. QED
    BY <1>1, <1>2, <2>1, ReachStages
<1>5. ASSUME NEW i \in P PROVE i + 1 \in P
  <2>. SUFFICES ASSUME i + 1 <= round_of(h)
                PROVE  f[round_of(h) - (i + 1)] \subseteq S \ stop
    OBVIOUS
  <2>1. f[round_of(h) - i] \subseteq S \ stop
    BY <1>1
  <2>2. StageOf(round_of(h) - (i + 1), f[round_of(h) - i], stop) \subseteq S \ stop
    BY <2>1, StageWithin
  <2>. QED
    BY <1>1, <1>2, <2>2, ReachStages
<1>6. P = Nat
  <2>. HIDE DEF P
  <2>. QED
    BY <1>4, <1>5, SetInduction, P \in SUBSET Nat DEF P
<1>7. round_of(h) \in P
  <2>. HIDE DEF P
  <2>. QED
    BY <1>1, <1>6
<1>8. round_of(h) - round_of(h) = 0
  BY <1>1
<1>. QED
  BY <1>1, <1>3, <1>7, <1>8

(* The history of a block holds the block and is closed.                   *)
LEMMA ReachableClosed ==
    ASSUME Valid, NEW h \in Blocks
    PROVE  h \in Reachable(h, {}) /\ Closed(Reachable(h, {}))
<1>0. Closed(Blocks)
  BY BlockFacts DEF Closed
<1>1. round_of(h) \in Nat
  BY BlockFacts
<1>. DEFINE f == CHOOSE f : IsReach(f, h, {})
            b == round_of(h)
<1>2. IsReach(f, h, {})
  BY <1>1, ReachExists
<1>3. Reachable(h, {}) = f[0]
  BY ReachableIs
<1>. HIDE DEF f
<1>4. /\ f[b] = {h}
      /\ \A i \in Nat : i + 1 <= b => f[b - (i + 1)] = StageOf(b - (i + 1), f[b - i], {})
  BY <1>2, ReachStages
<1>. HIDE DEF b
<1>. DEFINE P == {i \in Nat : i <= b => /\ \A j \in 0 .. i : f[b - j] \subseteq f[b - i]
                                        /\ f[b - i] \subseteq Blocks
                                        /\ \A x \in f[b - i] :
                                              /\ round_of(x) \in b - i .. b
                                              /\ x \in f[round_of(x)]}
<1>5. 0 \in P
  <2>1. b - 0 = b /\ \A j \in 0 .. 0 : j = 0
    BY <1>1 DEF b
  <2>. QED
    BY <1>1, <1>4, <2>1 DEF b
<1>6. ASSUME NEW i \in P PROVE i + 1 \in P
  <2>. SUFFICES ASSUME i + 1 <= b
                PROVE  /\ \A j \in 0 .. i + 1 : f[b - j] \subseteq f[b - (i + 1)]
                       /\ f[b - (i + 1)] \subseteq Blocks
                       /\ \A x \in f[b - (i + 1)] :
                             /\ round_of(x) \in b - (i + 1) .. b
                             /\ x \in f[round_of(x)]
    OBVIOUS
  <2>0. b \in Nat /\ i \in Nat /\ i <= b
    BY <1>1 DEF b
  <2>1. /\ \A j \in 0 .. i : f[b - j] \subseteq f[b - i]
        /\ f[b - i] \subseteq Blocks
        /\ \A x \in f[b - i] : round_of(x) \in b - i .. b /\ x \in f[round_of(x)]
    BY <2>0
  <2>. HIDE DEF P
  <2>2. f[b - (i + 1)] = f[b - i] \cup {p \in UNION {parents_of(x) : x \in f[b - i]} :
                                             round_of(p) = b - (i + 1)}
    BY <1>4, <2>0 DEF StageOf
  <2>3. ASSUME NEW j \in 0 .. i + 1 PROVE f[b - j] \subseteq f[b - (i + 1)]
    <3>1. CASE j = i + 1
      BY <3>1
    <3>2. CASE j \in 0 .. i
      BY <3>2, <2>1, <2>2
    <3>. QED
      BY <3>1, <3>2, <2>0
  <2>4. f[b - (i + 1)] \subseteq Blocks
    BY <2>1, <2>2, BlockFacts
  <2>5. ASSUME NEW x \in f[b - (i + 1)]
        PROVE  round_of(x) \in b - (i + 1) .. b /\ x \in f[round_of(x)]
    <3>1. CASE x \in f[b - i]
      BY <3>1, <2>0, <2>1
    <3>2. CASE round_of(x) = b - (i + 1)
      BY <3>2, <2>0
    <3>. QED
      BY <3>1, <3>2, <2>2
  <2>. QED
    BY <2>3, <2>4, <2>5
<1>7. P = Nat
  <2>. HIDE DEF P
  <2>. QED
    BY <1>5, <1>6, SetInduction, P \in SUBSET Nat DEF P
<1>8. b \in Nat /\ b <= b /\ b - b = 0
  BY <1>1 DEF b
<1>9. b \in P
  <2>. HIDE DEF P
  <2>. QED
    BY <1>7, <1>8
<1>10. /\ \A j \in 0 .. b : f[b - j] \subseteq f[0]
       /\ f[0] \subseteq Blocks
       /\ \A x \in f[0] : round_of(x) \in 0 .. b /\ x \in f[round_of(x)]
  BY <1>8, <1>9
<1>11. h \in f[0]
  <2>1. 0 \in 0 .. b /\ b - 0 = b
    BY <1>8
  <2>. QED
    BY <1>4, <1>10, <2>1
<1>12. ASSUME NEW x \in f[0], NEW p \in parents_of(x) PROVE p \in f[0]
  <2>1. x \in Blocks /\ round_of(x) \in Nat /\ round_of(p) \in Nat /\ round_of(p) < round_of(x)
    BY <1>10, BlockFacts
  <2>2. round_of(x) <= b /\ x \in f[round_of(x)]
    BY <1>10
  <2>. DEFINE j == b - round_of(x)
              i == b - (round_of(p) + 1)
  <2>3. /\ i \in Nat /\ i + 1 <= b /\ b - (i + 1) = round_of(p) /\ i <= b
        /\ j \in 0 .. i /\ b - j = round_of(x) /\ i + 1 \in 0 .. b
    BY <1>8, <2>1, <2>2
  <2>. HIDE DEF i, j
  <2>4. i \in P
    <3>. HIDE DEF P
    <3>. QED
      BY <1>7, <2>3
  <2>5. x \in f[b - i]
    BY <2>2, <2>3, <2>4
  <2>6. p \in f[b - (i + 1)]
    <3>1. f[b - (i + 1)] = StageOf(b - (i + 1), f[b - i], {})
      BY <1>4, <2>3
    <3>. QED
      BY <2>3, <2>5, <3>1 DEF StageOf
  <2>. QED
    BY <1>10, <2>3, <2>6
<1>. QED
  BY <1>3, <1>10, <1>11, <1>12 DEF Closed

(* The history of a block in the history of h is within the latter.        *)
LEMMA ReachableLeast ==
    ASSUME Valid, NEW h \in Blocks, NEW g \in Reachable(h, {})
    PROVE  Reachable(g, {}) \subseteq Reachable(h, {})
  BY ReachableClosed, ReachableWithin

-----------------------------------------------------------------------------
(* Direct decisions.                                                       *)

(* A committer that has all blocks and has decided nothing.                *)
Full == [NewCommitter EXCEPT !.dag = Blocks]

(* Its fields.                                                             *)
LEMMA FullFacts ==
    /\ Full.dag = Blocks /\ Full.decisions = << >> /\ Full.last_decided = 0
    /\ Full.emitted = genesis
  BY DEF Full, NewCommitter

(* The decisions differ from each other.                                   *)
LEMMA DecisionsDiffer ==
    /\ \A h : Commit(h) # Skip /\ Commit(h) # Undecided /\ Commit(h) # Panic
    /\ \A h : Commit(h)[1] = "Commit" /\ Commit(h)[2] = h
    /\ Skip # Undecided /\ Skip # Panic /\ Undecided # Panic
    /\ Skip[1] # "Commit" /\ Undecided[1] # "Commit" /\ Panic[1] # "Commit"
  BY DEF Commit, Skip, Undecided, Panic

(* The rounds of a slot.                                                   *)
LEMMA SlotNumbers ==
    ASSUME Valid, NEW i \in Nat \ {0}
    PROVE  /\ slot_round(i) \in Nat \ {0}
           /\ decision_round(i) \in Nat /\ vote_round(i) \in Nat
           /\ vote_round(i) + 1 = decision_round(i)
           /\ decision_round(i) > slot_round(i)
<1>1. (i - 1) \div 2 \in Nat
  OBVIOUS
<1>2. wave_length \in {4, 5}
  BY DEF Valid, MahiAssumption
<1>. QED
  BY <1>1, <1>2 DEF slot_round, decision_round, vote_round, LEADER_COUNT

(* All blocks of the leader of slot i, whoever has them.                   *)
Slot(i) == {c \in Blocks : round_of(c) = slot_round(i) /\ origin(c) = authority(i)}

(* Those that some block of the decision round certifies.                  *)
Certifiable(i) ==
    {c \in Slot(i) : \E d \in Blocks : round_of(d) = decision_round(i) /\ is_certificate(d, c)}

(* The parents of d whose votes make it a certificate of c.                *)
Voters(d, c) == {p \in parents_of(d) : round_of(p) + 1 = round_of(d) /\ is_vote(p, c)}

(* A certificate has votes of a quorum, and a voter supports no other      *)
(* block of the slot.                                                      *)
LEMMA CertificateVotes ==
    ASSUME Valid, NEW i \in Nat \ {0}, NEW c \in Slot(i), NEW d \in Blocks,
           round_of(d) = decision_round(i), is_certificate(d, c)
    PROVE  /\ Voters(d, c) \in SUBSET Blocks
           /\ HasQuorum(Authors(Voters(d, c)))
           /\ \A v \in Voters(d, c) :
                 /\ round_of(v) = vote_round(i)
                 /\ find_support(v, authority(i), slot_round(i)) = {c}
<1>1. Voters(d, c) \in SUBSET Blocks
  BY BlockFacts DEF Voters
<1>2. HasQuorum(Authors(Voters(d, c)))
  BY DEF is_certificate, Voters
<1>3. ASSUME NEW v \in Voters(d, c) PROVE round_of(v) = vote_round(i)
  <2>1. round_of(v) + 1 = round_of(d) /\ round_of(v) \in Nat
    BY <1>1, BlockFacts DEF Voters
  <2>. QED
    BY <2>1, SlotNumbers
<1>4. ASSUME NEW v \in Voters(d, c)
      PROVE  find_support(v, authority(i), slot_round(i)) = {c}
  BY DEF Voters, is_vote, Slot
<1>. QED
  BY <1>1, <1>2, <1>3, <1>4

(* No slot has two certifiable blocks: their quorums of voters share the   *)
(* block of an honest authority, which supports one block only.            *)
LEMMA OneCertified ==
    ASSUME Valid, NEW i \in Nat \ {0}, NEW b \in Certifiable(i), NEW c \in Certifiable(i)
    PROVE  b = c
<1>1. b \in Slot(i) /\ c \in Slot(i)
  BY DEF Certifiable
<1>2. PICK d \in Blocks : round_of(d) = decision_round(i) /\ is_certificate(d, b)
  BY DEF Certifiable
<1>3. PICK e \in Blocks : round_of(e) = decision_round(i) /\ is_certificate(e, c)
  BY DEF Certifiable
<1>4. \E v \in Voters(d, b) : v \in Voters(e, c)
  BY <1>1, <1>2, <1>3, CertificateVotes, QuorumsShareBlock
<1>5. PICK v \in Voters(d, b) : v \in Voters(e, c)
  BY <1>4
<1>6. find_support(v, authority(i), slot_round(i)) = {b}
  BY <1>1, <1>2, <1>5, CertificateVotes
<1>7. find_support(v, authority(i), slot_round(i)) = {c}
  BY <1>1, <1>3, <1>5, CertificateVotes
<1>. QED
  BY <1>6, <1>7

(* When a block is certifiable no quorum of the vote round supports        *)
(* nothing: the two quorums would share a block.                           *)
LEMMA NonVotersNoQuorum ==
    ASSUME Valid, NEW i \in Nat \ {0}, NEW c \in Certifiable(i), NEW Q \in SUBSET Blocks,
           \A v \in Q : /\ round_of(v) = vote_round(i)
                        /\ find_support(v, authority(i), slot_round(i)) = {}
    PROVE  ~HasQuorum(Authors(Q))
<1>. SUFFICES ASSUME HasQuorum(Authors(Q)) PROVE FALSE
  OBVIOUS
<1>1. c \in Slot(i)
  BY DEF Certifiable
<1>2. PICK d \in Blocks : round_of(d) = decision_round(i) /\ is_certificate(d, c)
  BY DEF Certifiable
<1>3. \E v \in Voters(d, c) : v \in Q
  BY <1>1, <1>2, CertificateVotes, QuorumsShareBlock
<1>4. PICK v \in Voters(d, c) : v \in Q
  BY <1>3
<1>5. find_support(v, authority(i), slot_round(i)) = {c}
  BY <1>1, <1>2, <1>4, CertificateVotes
<1>. QED
  BY <1>4, <1>5

(* What Outcome makes of certifiable candidates: never Panic.              *)
LEMMA OutcomeIs ==
    ASSUME Valid, NEW i \in Nat \ {0}, NEW X \in SUBSET Certifiable(i), NEW o
    PROVE  /\ X = {} => Outcome(X, o) = o
           /\ \A c \in X : X = {c} /\ Outcome(X, o) = Commit(c)
<1>1. Cardinality({}) = 0 /\ \A c : Cardinality({c}) = 1
  BY FS_EmptySet, FS_Singleton
<1>2. CASE X = {}
  BY <1>1, <1>2 DEF Outcome
<1>3. ASSUME NEW c \in X PROVE X = {c} /\ Outcome(X, o) = Commit(c)
  <2>1. X = {c}
    BY OneCertified
  <2>2. Cardinality(X) = 1
    BY <2>1, <1>1
  <2>3. (CHOOSE x \in X : TRUE) = c
    BY <2>1
  <2>. QED
    BY <2>1, <2>2, <2>3 DEF Outcome
<1>. QED
  BY <1>2, <1>3

(* slot_digests is the part of the slot that is in the dag.                *)
LEMMA SlotDigests ==
    ASSUME NEW s, s.dag \in SUBSET Blocks, NEW i
    PROVE  slot_digests(s, i) = s.dag \cap Slot(i)
  BY DEF slot_digests, round_digests, Slot

(* The candidates that the dag supports are certifiable, and a larger dag  *)
(* supports them too.                                                      *)
LEMMA SupportedFacts ==
    ASSUME Valid, NEW s, s.dag \in SUBSET Blocks, NEW i \in Nat \ {0}
    PROVE  /\ Supported(s, i) \subseteq s.dag \cap Certifiable(i)
           /\ Supported(s, i) \subseteq Supported(Full, i)
<1>1. ASSUME NEW c \in Supported(s, i)
      PROVE  c \in s.dag /\ c \in Certifiable(i) /\ c \in Supported(Full, i)
  <2>. DEFINE D(t) == {d \in round_digests(t, decision_round(i)) : is_certificate(d, c)}
  <2>1. c \in s.dag /\ c \in Slot(i) /\ HasQuorum(Authors(D(s)))
    BY SlotDigests DEF Supported
  <2>2. D(s) \in SUBSET Blocks /\ D(Full) \in SUBSET Blocks /\ D(s) \subseteq D(Full)
    BY FullFacts DEF round_digests
  <2>3. PICK d \in D(s) : TRUE
    <3>. HIDE DEF D
    <3>. QED
      BY <2>1, QuorumNonempty
  <2>4. d \in Blocks /\ round_of(d) = decision_round(i) /\ is_certificate(d, c)
    BY <2>3 DEF round_digests
  <2>5. c \in Certifiable(i)
    BY <2>1, <2>4 DEF Certifiable
  <2>6. HasQuorum(Authors(D(Full)))
    <3>. HIDE DEF D
    <3>. QED
      BY <2>1, <2>2, MoreAuthors
  <2>7. c \in slot_digests(Full, i)
    BY <2>1, FullFacts, SlotDigests DEF Slot
  <2>8. c \in Supported(Full, i)
    BY <2>6, <2>7 DEF Supported
  <2>. QED
    BY <2>1, <2>5, <2>8
<1>. QED
  BY <1>1

(* A larger dag has more authors without a vote.                           *)
LEMMA NonVotersMore ==
    ASSUME Valid, NEW s, s.dag \in SUBSET Blocks, NEW i, HasQuorum(NonVoters(s, i))
    PROVE  HasQuorum(NonVoters(Full, i))
<1>. DEFINE V(t) == {v \in round_digests(t, vote_round(i)) :
                       find_support(v, authority(i), slot_round(i)) = {}}
<1>1. NonVoters(s, i) = Authors(V(s)) /\ NonVoters(Full, i) = Authors(V(Full))
  BY DEF NonVoters
<1>2. V(s) \in SUBSET Blocks /\ V(Full) \in SUBSET Blocks /\ V(s) \subseteq V(Full)
  BY FullFacts DEF round_digests
<1>. HIDE DEF V
<1>. QED
  BY <1>1, <1>2, MoreAuthors

(* What direct_decision decides, and why.                                  *)
LEMMA DirectFacts ==
    ASSUME Valid, NEW s, s.dag \in SUBSET Blocks, NEW i \in Nat \ {0}
    PROVE  \/ \E c \in Supported(s, i) : direct_decision(s, i) = Commit(c)
           \/ Certifiable(i) = {} /\ HasQuorum(NonVoters(s, i)) /\ direct_decision(s, i) = Skip
           \/ direct_decision(s, i) = Undecided
<1>1. Supported(s, i) \in SUBSET Certifiable(i)
  BY SupportedFacts
<1>2. CASE Supported(s, i) # {}
  BY <1>1, <1>2, OutcomeIs DEF direct_decision
<1>3. CASE Supported(s, i) = {} /\ ~HasQuorum(NonVoters(s, i))
  BY <1>1, <1>3, OutcomeIs DEF direct_decision
<1>4. CASE Supported(s, i) = {} /\ HasQuorum(NonVoters(s, i))
  <2>1. direct_decision(s, i) = Skip
    BY <1>1, <1>4, OutcomeIs DEF direct_decision
  <2>2. Certifiable(i) = {}
    <3>. DEFINE V == {v \in round_digests(s, vote_round(i)) :
                        find_support(v, authority(i), slot_round(i)) = {}}
    <3>1. V \in SUBSET Blocks /\ HasQuorum(Authors(V))
      BY <1>4 DEF round_digests, NonVoters
    <3>2. \A v \in V : /\ round_of(v) = vote_round(i)
                       /\ find_support(v, authority(i), slot_round(i)) = {}
      BY DEF round_digests
    <3>. HIDE DEF V
    <3>. QED
      BY <3>1, <3>2, NonVotersNoQuorum
  <2>. QED
    BY <1>4, <2>1, <2>2
<1>. QED
  BY <1>2, <1>3, <1>4

(* What it decides it decides on the whole DAG.                            *)
LEMMA DirectAgrees ==
    ASSUME Valid, NEW s, s.dag \in SUBSET Blocks, NEW i \in Nat \ {0},
           direct_decision(s, i) # Undecided
    PROVE  direct_decision(Full, i) = direct_decision(s, i)
<1>0. Full.dag \in SUBSET Blocks
  BY FullFacts
<1>1. Supported(Full, i) \in SUBSET Certifiable(i)
  BY <1>0, SupportedFacts
<1>2. CASE \E c \in Supported(s, i) : direct_decision(s, i) = Commit(c)
  <2>1. PICK c \in Supported(s, i) : direct_decision(s, i) = Commit(c)
    BY <1>2
  <2>2. c \in Supported(Full, i)
    BY SupportedFacts
  <2>. QED
    BY <1>1, <2>1, <2>2, OutcomeIs DEF direct_decision
<1>3. CASE Certifiable(i) = {} /\ HasQuorum(NonVoters(s, i)) /\ direct_decision(s, i) = Skip
  <2>1. Supported(Full, i) = {}
    BY <1>1, <1>3
  <2>2. HasQuorum(NonVoters(Full, i))
    BY <1>3, NonVotersMore
  <2>. QED
    BY <1>1, <1>3, <2>1, <2>2, OutcomeIs DEF direct_decision
<1>. QED
  BY <1>2, <1>3, DirectFacts

-----------------------------------------------------------------------------
(* Decisions from an anchor.                                               *)

(* When a quorum of round R has blocks in Q every block of a later round   *)
(* has one of them in its history.                                         *)
LEMMA QuorumInHistory ==
    ASSUME Valid, NEW R \in Nat, NEW Q \in SUBSET Blocks,
           \A d \in Q : round_of(d) = R, HasQuorum(Authors(Q)),
           NEW x \in Blocks, round_of(x) > R
    PROVE  \E d \in Q : d \in Reachable(x, {})
<1>. DEFINE P == {k \in Nat : \A y \in Blocks : round_of(y) = R + 1 + k =>
                                 \E d \in Q : d \in Reachable(y, {})}
<1>1. ASSUME NEW y \in Blocks, round_of(y) > R
      PROVE  /\ Previous(y) \subseteq Blocks \cap Reachable(y, {})
             /\ HasQuorum(Authors(Previous(y)))
             /\ \A p \in Previous(y) : round_of(p) + 1 = round_of(y) /\ round_of(p) \in Nat
  <2>1. Previous(y) \subseteq Reachable(y, {})
    BY ReachableClosed DEF Closed, Previous
  <2>2. round_of(y) > 0
    BY <1>1, BlockFacts
  <2>. QED
    BY <2>1, <2>2, QuorumOfParents, BlockFacts DEF Previous
<1>2. 0 \in P
  <2>1. ASSUME NEW y \in Blocks, round_of(y) = R + 1
        PROVE  \E d \in Q : d \in Reachable(y, {})
    <3>1. round_of(y) > R
      BY <2>1
    <3>2. \A p \in Previous(y) : round_of(p) = R
      BY <1>1, <2>1, <3>1
    <3>3. \E d \in Q : d \in Previous(y)
      <4>1. Previous(y) \in SUBSET Blocks
        BY <1>1, <3>1
      <4>2. \A h \in Q \cup Previous(y) : round_of(h) = R
        BY <3>2
      <4>. QED
        BY <1>1, <3>1, <4>1, <4>2, QuorumsShareBlock
    <3>. QED
      BY <1>1, <3>1, <3>3
  <2>2. R + 1 + 0 = R + 1
    OBVIOUS
  <2>. QED
    BY <2>1, <2>2
<1>3. ASSUME NEW k \in P PROVE k + 1 \in P
  <2>1. ASSUME NEW y \in Blocks, round_of(y) = R + 1 + (k + 1)
        PROVE  \E d \in Q : d \in Reachable(y, {})
    <3>1. round_of(y) > R
      BY <2>1
    <3>2. PICK p \in Previous(y) : TRUE
      BY <1>1, <3>1, QuorumNonempty
    <3>3. p \in Blocks /\ p \in Reachable(y, {}) /\ round_of(p) = R + 1 + k
      BY <1>1, <2>1, <3>1
    <3>4. \E d \in Q : d \in Reachable(p, {})
      BY <3>3
    <3>. QED
      BY <3>3, <3>4, ReachableLeast
  <2>. QED
    BY <2>1
<1>4. P = Nat
  <2>. HIDE DEF P
  <2>. QED
    BY <1>2, <1>3, SetInduction, P \in SUBSET Nat DEF P
<1>5. round_of(x) - (R + 1) \in Nat /\ R + 1 + (round_of(x) - (R + 1)) = round_of(x)
  BY BlockFacts
<1>6. round_of(x) - (R + 1) \in P
  <2>. HIDE DEF P
  <2>. QED
    BY <1>4, <1>5
<1>. QED
  BY <1>5, <1>6

(* The candidates of slot i that the history of the anchor x certifies.    *)
Candidates(s, i, x) ==
    {c \in slot_digests(s, i) :
       \E d \in round_digests(s, decision_round(i)) \cap Reachable(x, {}) : is_certificate(d, c)}

(* decide_from_anchor in terms of them.                                    *)
LEMMA AnchorIs ==
    ASSUME NEW s, NEW i, NEW x
    PROVE  decide_from_anchor(s, i, x) = Outcome(Candidates(s, i, x), Skip)
  BY DEF decide_from_anchor, Candidates

(* They depend on the history of the anchor only, which every dag that has *)
(* the anchor has.                                                         *)
LEMMA CandidatesFacts ==
    ASSUME Valid, NEW s, Closed(s.dag), NEW i \in Nat \ {0}, NEW x \in s.dag
    PROVE  /\ Candidates(s, i, x) \subseteq s.dag \cap Certifiable(i)
           /\ Candidates(s, i, x) = Candidates(Full, i, x)
<1>0. s.dag \in SUBSET Blocks /\ Full.dag = Blocks /\ Full.dag \in SUBSET Blocks
  BY FullFacts DEF Closed
<1>1. Reachable(x, {}) \subseteq s.dag
  BY ReachableWithin
<1>2. round_digests(s, decision_round(i)) \cap Reachable(x, {})
      = round_digests(Full, decision_round(i)) \cap Reachable(x, {})
  BY <1>0, <1>1 DEF round_digests
<1>3. ASSUME NEW c \in Candidates(Full, i, x) PROVE c \in Candidates(s, i, x)
  <2>1. c \in Slot(i)
    BY <1>0, SlotDigests DEF Candidates
  <2>2. PICK d \in round_digests(Full, decision_round(i)) \cap Reachable(x, {}) : is_certificate(d, c)
    BY DEF Candidates
  <2>3. d \in s.dag /\ d \in Blocks /\ round_of(d) = decision_round(i)
    BY <1>0, <1>1, <2>2 DEF round_digests
  <2>4. PICK v \in Voters(d, c) : TRUE
    BY <2>1, <2>2, <2>3, CertificateVotes, QuorumNonempty
  <2>5. find_support(v, authority(i), slot_round(i)) = {c}
    BY <2>1, <2>2, <2>3, <2>4, CertificateVotes
  <2>6. v \in s.dag
    BY <2>3 DEF Voters, Closed
  <2>7. c \in s.dag
    BY <2>5, <2>6, SupportWithin
  <2>8. c \in slot_digests(s, i)
    BY <1>0, <2>1, <2>7, SlotDigests
  <2>. QED
    BY <1>2, <2>2, <2>8 DEF Candidates
<1>4. ASSUME NEW c \in Candidates(s, i, x)
      PROVE  c \in Candidates(Full, i, x) /\ c \in s.dag /\ c \in Certifiable(i)
  <2>1. c \in s.dag /\ c \in Slot(i)
    BY <1>0, SlotDigests DEF Candidates
  <2>2. c \in slot_digests(Full, i)
    BY <1>0, <2>1, SlotDigests DEF Slot
  <2>3. PICK d \in round_digests(Full, decision_round(i)) \cap Reachable(x, {}) : is_certificate(d, c)
    BY <1>2 DEF Candidates
  <2>4. d \in Blocks /\ round_of(d) = decision_round(i)
    BY <1>0, <2>3 DEF round_digests
  <2>. QED
    BY <2>1, <2>2, <2>3, <2>4 DEF Candidates, Certifiable
<1>. QED
  BY <1>3, <1>4

(* So does decide_from_anchor.                                             *)
LEMMA AnchorSame ==
    ASSUME Valid, NEW s, Closed(s.dag), NEW i \in Nat \ {0}, NEW x \in s.dag
    PROVE  /\ decide_from_anchor(s, i, x) = decide_from_anchor(Full, i, x)
           /\ \/ decide_from_anchor(s, i, x) = Skip
              \/ \E c \in s.dag \cap Slot(i) : decide_from_anchor(s, i, x) = Commit(c)
<1>1. Candidates(s, i, x) \in SUBSET Certifiable(i)
  BY CandidatesFacts
<1>2. \A c \in Candidates(s, i, x) : c \in s.dag \cap Slot(i)
  BY CandidatesFacts DEF Certifiable
<1>3. \/ Outcome(Candidates(s, i, x), Skip) = Skip
      \/ \E c \in s.dag \cap Slot(i) : Outcome(Candidates(s, i, x), Skip) = Commit(c)
  BY <1>1, <1>2, OutcomeIs
<1>. QED
  BY <1>3, AnchorIs, CandidatesFacts

(* Every anchor after the wave of a slot agrees with the direct decision   *)
(* on the slot: it has a certificate in its history, by QuorumInHistory,   *)
(* or none exists.                                                         *)
LEMMA AnchorAgrees ==
    ASSUME Valid, NEW i \in Nat \ {0}, NEW x \in Blocks, round_of(x) > decision_round(i),
           direct_decision(Full, i) # Undecided
    PROVE  decide_from_anchor(Full, i, x) = direct_decision(Full, i)
<1>0. Full.dag = Blocks /\ Full.dag \in SUBSET Blocks /\ Closed(Full.dag)
  BY FullFacts, BlockFacts DEF Closed
<1>1. Candidates(Full, i, x) \in SUBSET Certifiable(i)
  BY <1>0, CandidatesFacts
<1>2. CASE \E c \in Supported(Full, i) : direct_decision(Full, i) = Commit(c)
  <2>1. PICK c \in Supported(Full, i) : direct_decision(Full, i) = Commit(c)
    BY <1>2
  <2>. DEFINE Q == {d \in round_digests(Full, decision_round(i)) : is_certificate(d, c)}
  <2>2. HasQuorum(Authors(Q)) /\ c \in slot_digests(Full, i)
    BY DEF Supported
  <2>3. Q \in SUBSET Blocks /\ \A d \in Q : round_of(d) = decision_round(i)
    BY <1>0 DEF round_digests
  <2>4. decision_round(i) \in Nat
    BY SlotNumbers
  <2>5. \E d \in Q : d \in Reachable(x, {})
    <3>. HIDE DEF Q
    <3>. QED
      BY <2>2, <2>3, <2>4, QuorumInHistory
  <2>6. c \in Candidates(Full, i, x)
    BY <2>2, <2>5 DEF Candidates
  <2>. QED
    BY <1>1, <2>1, <2>6, OutcomeIs, AnchorIs
<1>3. CASE Certifiable(i) = {} /\ direct_decision(Full, i) = Skip
  BY <1>1, <1>3, OutcomeIs, AnchorIs
<1>. QED
  BY <1>0, <1>2, <1>3, DirectFacts

-----------------------------------------------------------------------------
(* The pending slots.                                                      *)

(* The highest round of the dag.                                           *)
Highest(s) == Max({round_of(h) : h \in s.dag})

(* Whether the coin of slot i is known.                                    *)
KnownSlot(s, i) ==
    ~CommonCoin \/ HasQuorum(Authors(round_digests(s, decision_round(i))))

(* pending_slots in terms of the two.                                      *)
LEMMA PendingIs ==
    ASSUME NEW s
    PROVE  pending_slots(s) =
             {i \in s.last_decided + 1 .. LEADER_COUNT * (Highest(s) - (wave_length - 1)) :
                \A j \in s.last_decided + 1 .. i : KnownSlot(s, j)}
  BY DEF pending_slots, Highest, KnownSlot

(* Highest is a round of the dag, and bounds the others.                   *)
LEMMA HighestFacts ==
    ASSUME Valid, NEW s, s.dag \in SUBSET Blocks, s.dag # {}
    PROVE  /\ Highest(s) \in Nat
           /\ \A h \in s.dag : round_of(h) <= Highest(s)
           /\ \E h \in s.dag : round_of(h) = Highest(s)
<1>. DEFINE T == {round_of(h) : h \in s.dag}
<1>1. T \in SUBSET Nat /\ T # {}
  BY BlockFacts
<1>2. PICK b \in Nat : \A h \in Blocks : round_of(h) <= b
  BY RoundsBounded
<1>3. \A x \in T : x <= b
  BY <1>2
<1>4. \A h \in s.dag : round_of(h) \in T
  OBVIOUS
<1>. HIDE DEF T
<1>5. PICK m \in T : \A x \in T : x <= m
  BY <1>1, <1>2, <1>3, NatMax
<1>6. \A x \in T : m >= x
  BY <1>1, <1>5
<1>7. Max(T) \in T /\ \A x \in T : Max(T) >= x
  BY <1>5, <1>6, Zenon DEF Max
<1>8. Highest(s) = Max(T)
  BY DEF Highest, T
<1>9. \A h \in s.dag : round_of(h) <= Max(T)
  BY <1>1, <1>4, <1>7
<1>10. \E h \in s.dag : round_of(h) = Max(T)
  BY <1>7 DEF T
<1>. QED
  BY <1>1, <1>7, <1>8, <1>9, <1>10

(* The last pending slot, or the last decided one.                         *)
End(s) == IF pending_slots(s) = {} THEN s.last_decided ELSE Max(pending_slots(s))

(* The pending slots are the slots from the first undecided one to End.    *)
LEMMA PendingFacts ==
    ASSUME Valid, NEW s, s.dag \in SUBSET Blocks, s.dag # {}, s.last_decided \in Nat
    PROVE  /\ End(s) \in Nat /\ End(s) >= s.last_decided
           /\ pending_slots(s) = s.last_decided + 1 .. End(s)
<1>. DEFINE ld == s.last_decided
            L == LEADER_COUNT * (Highest(s) - (wave_length - 1))
            Pending == pending_slots(s)
<1>1. L \in Int
  <2>1. wave_length \in Int
    BY DEF Valid, MahiAssumption
  <2>. QED
    BY <2>1, HighestFacts DEF LEADER_COUNT
<1>2. Pending = {i \in ld + 1 .. L : \A j \in ld + 1 .. i : KnownSlot(s, j)}
  BY PendingIs
<1>. HIDE DEF L, Pending
<1>3. Pending \in SUBSET Nat
  BY <1>1, <1>2
<1>4. CASE Pending = {}
  <2>1. ld + 1 .. ld = {}
    OBVIOUS
  <2>. QED
    BY <1>4, <2>1 DEF End, Pending
<1>5. CASE Pending # {}
  <2>1. L \in Nat /\ \A x \in Pending : x <= L
    BY <1>1, <1>2, <1>5
  <2>2. PICK m \in Pending : \A x \in Pending : x <= m
    BY <1>3, <1>5, <2>1, NatMax
  <2>3. \A x \in Pending : m >= x
    BY <1>3, <2>2
  <2>4. Max(Pending) \in Pending /\ \A x \in Pending : Max(Pending) >= x
    BY <2>2, <2>3, Zenon DEF Max
  <2>5. End(s) = Max(Pending)
    BY <1>5 DEF End, Pending
  <2>6. End(s) \in Pending /\ \A x \in Pending : End(s) >= x
    BY <2>4, <2>5
  <2>. HIDE DEF ld
  <2>7. ASSUME NEW j \in ld + 1 .. End(s) PROVE j \in Pending
    <3>1. End(s) \in Nat /\ ld \in Nat /\ End(s) <= L
      BY <1>1, <1>2, <1>3, <2>6 DEF ld
    <3>2. \A k \in ld + 1 .. End(s) : KnownSlot(s, k)
      BY <1>2, <2>6
    <3>3. j \in ld + 1 .. L /\ \A k \in ld + 1 .. j : k \in ld + 1 .. End(s)
      BY <1>1, <3>1
    <3>. QED
      BY <1>2, <3>2, <3>3
  <2>8. ASSUME NEW j \in Pending PROVE j \in ld + 1 .. End(s)
    <3>1. End(s) \in Nat /\ j \in Nat /\ j >= ld + 1 /\ ld \in Nat
      BY <1>1, <1>2, <1>3, <2>6 DEF ld
    <3>. QED
      BY <2>6, <3>1
  <2>9. Pending = ld + 1 .. End(s)
    BY <2>7, <2>8
  <2>10. End(s) \in Nat /\ End(s) >= ld
    BY <1>1, <1>2, <1>3, <2>6 DEF ld
  <2>. QED
    BY <2>9, <2>10 DEF ld, Pending
<1>. QED
  BY <1>4, <1>5

(* The same for the whole DAG.                                             *)
LEMMA FullEnd ==
    ASSUME Valid
    PROVE  End(Full) \in Nat /\ pending_slots(Full) = 1 .. End(Full)
<1>1. Full.dag \in SUBSET Blocks /\ Full.dag # {} /\ Full.last_decided = 0
  BY FullFacts, BlocksFinite
<1>2. Full.last_decided \in Nat /\ Full.last_decided + 1 = 1
  BY <1>1
<1>. QED
  BY <1>1, <1>2, PendingFacts

(* A part of the DAG has no pending slot that the whole DAG does not have. *)
LEMMA EndWithin ==
    ASSUME Valid, NEW s, s.dag \in SUBSET Blocks, s.dag # {},
           s.last_decided \in 0 .. End(Full)
    PROVE  End(s) <= End(Full)
<1>1. s.last_decided \in Nat /\ End(Full) \in Nat
  BY FullEnd
<1>2. End(s) \in Nat /\ End(s) >= s.last_decided /\ pending_slots(s) = s.last_decided + 1 .. End(s)
  BY <1>1, PendingFacts
<1>3. SUFFICES ASSUME End(s) > s.last_decided PROVE End(s) \in pending_slots(Full)
  BY <1>1, <1>2, FullEnd
<1>4. End(s) \in pending_slots(s)
  BY <1>1, <1>2, <1>3
<1>5. /\ End(s) <= LEADER_COUNT * (Highest(s) - (wave_length - 1))
      /\ \A j \in s.last_decided + 1 .. End(s) : KnownSlot(s, j)
  <2>1. wave_length \in Int /\ Highest(s) \in Nat
    BY HighestFacts DEF Valid, MahiAssumption
  <2>. QED
    BY <1>1, <1>4, <2>1, PendingIs DEF LEADER_COUNT
<1>6. Highest(s) <= Highest(Full) /\ Highest(s) \in Nat /\ Highest(Full) \in Nat
  <2>1. Full.dag = Blocks /\ Full.dag \in SUBSET Blocks /\ Full.dag # {}
    BY FullFacts, BlocksFinite
  <2>. QED
    BY <2>1, HighestFacts
<1>7. End(s) <= LEADER_COUNT * (Highest(Full) - (wave_length - 1))
  <2>1. wave_length \in Int
    BY DEF Valid, MahiAssumption
  <2>. QED
    BY <1>2, <1>5, <1>6, <2>1 DEF LEADER_COUNT
<1>8. ASSUME NEW j \in 1 .. End(s) PROVE KnownSlot(Full, j)
  <2>1. CASE j <= s.last_decided
    <3>1. s.last_decided \in pending_slots(Full) /\ j \in 1 .. s.last_decided
      BY <1>1, <2>1, FullEnd
    <3>2. \A k \in Full.last_decided + 1 .. s.last_decided : KnownSlot(Full, k)
      BY <3>1, PendingIs
    <3>3. Full.last_decided + 1 = 1
      BY FullFacts
    <3>. QED
      BY <3>1, <3>2, <3>3
  <2>2. CASE j > s.last_decided
    <3>1. KnownSlot(s, j)
      BY <1>1, <1>2, <1>5, <2>2
    <3>. DEFINE D(t) == round_digests(t, decision_round(j))
    <3>2. D(s) \in SUBSET Blocks /\ D(Full) \in SUBSET Blocks /\ D(s) \subseteq D(Full)
      BY FullFacts DEF round_digests
    <3>3. HasQuorum(Authors(D(s))) => HasQuorum(Authors(D(Full)))
      <4>. HIDE DEF D
      <4>. QED
        BY <3>2, MoreAuthors
    <3>. QED
      BY <3>1, <3>3 DEF KnownSlot
  <2>. QED
    BY <1>1, <1>2, <2>1, <2>2
<1>9. Full.last_decided + 1 = 1
  BY FullFacts
<1>10. End(s) \in 1 .. LEADER_COUNT * (Highest(Full) - (wave_length - 1))
  <2>1. wave_length \in Int
    BY DEF Valid, MahiAssumption
  <2>. QED
    BY <1>1, <1>2, <1>3, <1>6, <1>7, <2>1 DEF LEADER_COUNT
<1>. QED
  BY <1>8, <1>9, <1>10, PendingIs

-----------------------------------------------------------------------------
(* A turn of the loop over the pending slots.                              *)

(* The decisions Y on the slots after i, with d on slot i before them.     *)
Extend(i, d, Y, last) == [j \in i .. last |-> IF j = i THEN d ELSE Y[j]]

(* f is the function from of Records.                                      *)
IsRecords(f, s, last) ==
    f = [i \in s.last_decided + 1 .. last + 1 |->
           Extend(i, Decision(s, i, f[i + 1]), f[i + 1], last)]

(* Records takes its value from that function.                             *)
LEMMA RecordsIs ==
    ASSUME NEW s, pending_slots(s) # {}
    PROVE  Records(s) = (CHOOSE f : IsRecords(f, s, Max(pending_slots(s))))[s.last_decided + 1]
  BY DEF Records, IsRecords, Extend

(* The recursion of Records defines a function, from the last slot down.   *)
LEMMA RecordsExist ==
    ASSUME NEW s, NEW last \in Nat, s.last_decided \in Nat, s.last_decided <= last
    PROVE  \E f : IsRecords(f, s, last)
<1>. DEFINE a == s.last_decided + 1
            b == last + 1
            Val(i, Y) == Extend(i, Decision(s, i, Y), Y, last)
            Up(f, k) == \A i \in b - k .. b : f[i] = Val(i, f[i + 1])
            P == {k \in Nat : k <= b - a => \E f : Up(f, k)}
<1>1. a \in Nat /\ b \in Nat /\ a <= b
  OBVIOUS
<1>. HIDE DEF a, b, Val
<1>0. \A Y, Z : Val(b, Y) = Val(b, Z)
  <2>1. b .. last = {}
    BY DEF b
  <2>. QED
    BY <2>1 DEF Val, Extend
<1>2. 0 \in P
  <2>. DEFINE f == [i \in {b} |-> Val(b, << >>)]
  <2>1. f[b] = Val(b, f[b + 1])
    <3>1. f[b] = Val(b, << >>)
      OBVIOUS
    <3>. HIDE DEF f
    <3>. QED
      BY <3>1, <1>0
  <2>2. b - 0 .. b = {b}
    BY <1>1
  <2>. HIDE DEF f
  <2>3. Up(f, 0)
    BY <2>1, <2>2
  <2>. HIDE DEF Up
  <2>. QED
    BY <2>3
<1>3. ASSUME NEW k \in P PROVE k + 1 \in P
  <2>. SUFFICES ASSUME k + 1 <= b - a PROVE \E f : Up(f, k + 1)
    OBVIOUS
  <2>1. PICK f : Up(f, k)
    BY <1>1
  <2>. DEFINE c == b - (k + 1)
              g == [i \in c .. b |-> IF i = c THEN Val(c, f[c + 1]) ELSE f[i]]
  <2>2. c \in Nat /\ c + 1 = b - k /\ c < b /\ c \in c .. b /\ b \in c .. b
    BY <1>1
  <2>4. ASSUME NEW i \in c .. b PROVE g[i] = Val(i, g[i + 1])
    <3>1. CASE i = c
      <4>1. i + 1 \in c .. b /\ i + 1 # c
        BY <1>1, <2>2, <3>1
      <4>2. g[i + 1] = f[i + 1]
        BY <4>1
      <4>3. g[c] = Val(c, f[c + 1])
        BY <2>2
      <4>. QED
        BY <3>1, <4>2, <4>3
    <3>2. CASE i # c
      <4>1. i \in b - k .. b
        BY <1>1, <2>2, <3>2
      <4>2. f[i] = Val(i, f[i + 1])
        BY <2>1, <4>1
      <4>3. g[i] = f[i]
        BY <3>2
      <4>4. CASE i = b
        <5>. HIDE DEF g, c
        <5>. QED
          BY <1>0, <4>2, <4>3, <4>4
      <4>5. CASE i # b
        <5>1. i + 1 \in c .. b /\ i + 1 # c
          BY <1>1, <2>2, <4>1, <4>5
        <5>2. g[i + 1] = f[i + 1]
          BY <5>1
        <5>. HIDE DEF g, c
        <5>. QED
          BY <4>2, <4>3, <5>2
      <4>. QED
        BY <4>4, <4>5
    <3>. QED
      BY <3>1, <3>2
  <2>. HIDE DEF g
  <2>5. Up(g, k + 1)
    BY <2>4
  <2>. HIDE DEF Up
  <2>. QED
    BY <2>5
<1>4. P = Nat
  <2>. HIDE DEF P
  <2>. QED
    BY <1>2, <1>3, SetInduction, P \in SUBSET Nat DEF P
<1>5. PICK f : Up(f, b - a)
  <2>1. b - a \in Nat /\ b - a <= b - a
    BY <1>1
  <2>2. b - a \in P
    <3>. HIDE DEF P
    <3>. QED
      BY <1>4, <2>1
  <2>. QED
    BY <2>1, <2>2
<1>. DEFINE g == [i \in a .. b |-> f[i]]
<1>6. ASSUME NEW i \in a .. b PROVE g[i] = Val(i, g[i + 1])
  <2>1. i \in b - (b - a) .. b
    BY <1>1
  <2>2. f[i] = Val(i, f[i + 1]) /\ g[i] = f[i]
    BY <1>5, <2>1
  <2>3. CASE i = b
    <3>. HIDE DEF g
    <3>. QED
      BY <1>0, <2>2, <2>3
  <2>4. CASE i # b
    <3>1. i + 1 \in a .. b
      BY <1>1, <2>4
    <3>. QED
      BY <2>2, <3>1
  <2>. QED
    BY <2>3, <2>4
<1>7. g = [i \in a .. b |-> Val(i, g[i + 1])]
  <2>1. g = [i \in a .. b |-> g[i]]
    OBVIOUS
  <2>. HIDE DEF g
  <2>. QED
    BY <1>6, <2>1
<1>. HIDE DEF g
<1>. QED
  BY <1>7 DEF IsRecords, Val, a, b

(* The decisions on the later slots, as try_decide has them when it        *)
(* reaches slot i.                                                         *)
After(R, i) == [j \in {k \in DOMAIN R : k > i} |-> R[j]]

(* R holds a decision on every pending slot, each made from the later      *)
(* ones.                                                                   *)
IsTurn(R, s) ==
    /\ R = [i \in DOMAIN R |-> R[i]]
    /\ DOMAIN R = s.last_decided + 1 .. End(s)
    /\ \A i \in DOMAIN R : R[i] = Decision(s, i, After(R, i))

(* That is what Records is.                                                *)
LEMMA RecordsFacts ==
    ASSUME Valid, NEW s, s.dag \in SUBSET Blocks, s.dag # {}, s.last_decided \in Nat
    PROVE  IsTurn(Records(s), s)
<1>. DEFINE ld == s.last_decided
            last == End(s)
<1>1. last \in Nat /\ ld \in Nat /\ ld <= last /\ pending_slots(s) = ld + 1 .. last
  BY PendingFacts
<1>2. CASE pending_slots(s) = {}
  <2>1. ld + 1 .. last = {} /\ DOMAIN << >> = {}
    BY <1>1, <1>2
  <2>2. Records(s) = << >>
    BY <1>2 DEF Records
  <2>3. << >> = [i \in DOMAIN << >> |-> << >>[i]]
    OBVIOUS
  <2>. QED
    BY <2>1, <2>2, <2>3 DEF IsTurn
<1>3. CASE pending_slots(s) # {}
  <2>. DEFINE f == CHOOSE f : IsRecords(f, s, last)
  <2>0. last = Max(pending_slots(s))
    BY <1>3 DEF End
  <2>1. IsRecords(f, s, last)
    BY <1>1, RecordsExist
  <2>2. Records(s) = f[ld + 1]
    BY <1>3, <2>0, RecordsIs
  <2>. HIDE DEF f, last, ld
  <2>. DEFINE D(j) == Decision(s, j, f[j + 1])
              P == {k \in Nat : k <= last - ld =>
                       f[last + 1 - k] = [j \in last + 1 - k .. last |-> D(j)]}
  <2>3. \A i \in ld + 1 .. last + 1 : f[i] = Extend(i, D(i), f[i + 1], last)
    BY <2>1 DEF IsRecords, ld
  <2>4. 0 \in P
    <3>1. last + 1 - 0 = last + 1 /\ last + 1 \in ld + 1 .. last + 1 /\ last + 1 .. last = {}
      BY <1>1
    <3>2. f[last + 1] = Extend(last + 1, D(last + 1), f[last + 2], last)
      BY <2>3, <3>1, <1>1
    <3>. HIDE DEF D
    <3>. QED
      BY <3>1, <3>2 DEF Extend
  <2>5. ASSUME NEW k \in P PROVE k + 1 \in P
    <3>. SUFFICES ASSUME k + 1 <= last - ld
                  PROVE  f[last + 1 - (k + 1)] = [j \in last + 1 - (k + 1) .. last |-> D(j)]
      OBVIOUS
    <3>. DEFINE i == last + 1 - (k + 1)
    <3>1. /\ i \in Nat /\ i + 1 = last + 1 - k /\ i \in ld + 1 .. last + 1
          /\ \A j \in i .. last : j # i => j \in i + 1 .. last
      BY <1>1
    <3>. HIDE DEF D
    <3>2. f[i + 1] = [j \in i + 1 .. last |-> D(j)]
      BY <1>1, <3>1
    <3>. HIDE DEF i
    <3>3. f[i] = Extend(i, D(i), f[i + 1], last)
      BY <2>3, <3>1
    <3>6. f[i] = [j \in i .. last |-> D(j)]
      BY <3>1, <3>2, <3>3 DEF Extend
    <3>. QED
      BY <3>6 DEF i
  <2>6. P = Nat
    <3>. HIDE DEF P
    <3>. QED
      BY <2>4, <2>5, SetInduction, P \in SUBSET Nat DEF P
  <2>. HIDE DEF D
  <2>7. ASSUME NEW i \in ld + 1 .. last + 1 PROVE f[i] = [j \in i .. last |-> D(j)]
    <3>1. /\ last + 1 - i \in Nat /\ last + 1 - i <= last - ld
          /\ last + 1 - (last + 1 - i) = i
      BY <1>1
    <3>2. last + 1 - i \in P
      <4>. HIDE DEF P
      <4>. QED
        BY <2>6, <3>1
    <3>. QED
      BY <3>1, <3>2
  <2>. DEFINE R == f[ld + 1]
  <2>8. R = [j \in ld + 1 .. last |-> D(j)]
    BY <1>1, <2>7
  <2>9. ASSUME NEW i \in ld + 1 .. last PROVE R[i] = Decision(s, i, After(R, i))
    <3>1. i + 1 \in ld + 1 .. last + 1
      BY <1>1
    <3>2. f[i + 1] = [j \in i + 1 .. last |-> D(j)]
      BY <2>7, <3>1
    <3>3. {k \in ld + 1 .. last : k > i} = i + 1 .. last
      BY <1>1
    <3>4. After(R, i) = f[i + 1]
      <4>. HIDE DEF R
      <4>1. DOMAIN R = ld + 1 .. last /\ \A j \in i + 1 .. last : j \in ld + 1 .. last
        BY <1>1, <2>8
      <4>2. After(R, i) = [j \in i + 1 .. last |-> R[j]]
        BY <3>3, <4>1 DEF After
      <4>3. \A j \in i + 1 .. last : R[j] = D(j)
        BY <2>8, <4>1
      <4>. QED
        BY <3>2, <4>2, <4>3
    <3>. QED
      BY <2>8, <3>4 DEF D
  <2>. HIDE DEF R
  <2>10. DOMAIN R = ld + 1 .. last
    BY <2>8
  <2>11. R = [i \in DOMAIN R |-> R[i]]
    BY <2>8, <2>10
  <2>. QED
    BY <2>2, <2>9, <2>10, <2>11 DEF IsTurn, R, ld, last
<1>. QED
  BY <1>2, <1>3

-----------------------------------------------------------------------------
(* What a turn decides is what the whole DAG decides.                      *)

(* The decisions of the whole DAG.                                         *)
W == Records(Full)

(* Each is a direct or an indirect decision.                               *)
LEMMA WholeTurn ==
    ASSUME Valid
    PROVE  /\ IsTurn(W, Full) /\ DOMAIN W = 1 .. End(Full) /\ End(Full) \in Nat
           /\ \A i \in DOMAIN W :
                 W[i] = OrElse(direct_decision(Full, i), indirect_decision(Full, i, After(W, i)))
<1>1. /\ Full.dag \in SUBSET Blocks /\ Full.dag # {} /\ Full.last_decided = 0
      /\ Full.last_decided \in Nat /\ Full.last_decided + 1 = 1 /\ Full.decisions = << >>
  BY FullFacts, BlocksFinite
<1>2. IsTurn(W, Full)
  BY <1>1, RecordsFacts DEF W
<1>3. DOMAIN W = 1 .. End(Full)
  BY <1>1, <1>2 DEF IsTurn
<1>4. \A i : i \notin DOMAIN Full.decisions
  BY <1>1
<1>5. ASSUME NEW i \in DOMAIN W
      PROVE  W[i] = OrElse(direct_decision(Full, i), indirect_decision(Full, i, After(W, i)))
  <2>1. W[i] = Decision(Full, i, After(W, i))
    BY <1>2 DEF IsTurn
  <2>. QED
    BY <1>4, <2>1 DEF Decision
<1>. QED
  BY <1>2, <1>3, <1>5, FullEnd

(* Decision d skips slot i, or commits a block of the slot that is in the  *)
(* dag.                                                                    *)
GoodDecision(s, i, d) == d = Skip \/ \E x \in s.dag \cap Slot(i) : d = Commit(x)

(* The part of the invariant about decisions: they are those of the whole  *)
(* DAG, and reach from the first slot to last_decided at least.            *)
GoodCommitter(s) ==
    /\ Closed(s.dag) /\ s.dag # {}
    /\ s.last_decided \in 0 .. End(Full)
    /\ 1 .. s.last_decided \subseteq DOMAIN s.decisions
    /\ DOMAIN s.decisions \subseteq 1 .. End(Full)
    /\ \A i \in DOMAIN s.decisions :
          s.decisions[i] = W[i] /\ GoodDecision(s, i, s.decisions[i])

(* What Later makes of the decisions after slot i.                         *)
LEMMA LaterIs ==
    ASSUME NEW R, NEW i
    PROVE  /\ Later(i, After(R, i)) = {j \in DOMAIN R : /\ j > i /\ R[j] # Skip
                                                        /\ slot_round(j) > decision_round(i)}
           /\ \A j \in Later(i, After(R, i)) : After(R, i)[j] = R[j]
  BY DEF Later, After

(* What Min returns.                                                       *)
LEMMA SetMin ==
    ASSUME NEW T \in SUBSET Nat, T # {}
    PROVE  Min(T) \in T /\ \A x \in T : Min(T) <= x
<1>1. PICK m \in T : \A x \in T : m <= x
  BY NatMin
<1>. QED
  BY <1>1, Zenon DEF Min

(* indirect_decision, given the first later slot that is not passed over.  *)
LEMMA IndirectIs ==
    ASSUME NEW s, NEW R, NEW i, NEW m \in DOMAIN R, DOMAIN R \subseteq Nat, m > i,
           R[m] # Skip, slot_round(m) > decision_round(i),
           \A k \in DOMAIN R : k > i /\ k < m /\ slot_round(k) > decision_round(i) => R[k] = Skip
    PROVE  indirect_decision(s, i, After(R, i)) =
             IF R[m] \in {Undecided, Panic} THEN R[m] ELSE decide_from_anchor(s, i, R[m][2])
<1>. DEFINE T == Later(i, After(R, i))
<1>1. m \in T /\ T \in SUBSET Nat /\ \A k \in T : k \in DOMAIN R /\ k > i /\ ~(R[k] = Skip)
                                                   /\ slot_round(k) > decision_round(i)
  BY LaterIs
<1>2. After(R, i)[m] = R[m]
  BY <1>1, LaterIs
<1>. HIDE DEF T
<1>3. \A k \in T : ~(k < m)
  BY <1>1
<1>4. Min(T) = m
  BY <1>1, <1>3, SetMin
<1>. QED
  BY <1>1, <1>2, <1>4 DEF indirect_decision, T

(* The heart of the argument: what a committer decides in a turn, from the *)
(* part of the DAG it has, is what the whole DAG decides. It goes from the *)
(* last slot down. The anchor of a slot is decided alike by both, and a    *)
(* slot that one of them decides directly has no anchor that disagrees.    *)
LEMMA TurnAgrees ==
    ASSUME Valid, NEW s, GoodCommitter(s), NEW R, IsTurn(R, s), NEW n \in DOMAIN R
    PROVE  R[n] = Undecided \/ (R[n] = W[n] /\ GoodDecision(s, n, R[n]))
<1>. DEFINE Good(i) == R[i] = Undecided \/ (R[i] = W[i] /\ GoodDecision(s, i, R[i]))
            T == {i \in DOMAIN R : ~Good(i)}
            ld == s.last_decided
<1>1. /\ s.dag \in SUBSET Blocks /\ s.dag # {} /\ Closed(s.dag)
      /\ ld \in Nat /\ ld \in 0 .. End(Full) /\ End(Full) \in Nat
  BY FullEnd DEF GoodCommitter, Closed
<1>2. End(s) \in Nat /\ End(s) <= End(Full)
  BY <1>1, PendingFacts, EndWithin
<1>3. DOMAIN R = ld + 1 .. End(s) /\ \A i \in DOMAIN R : R[i] = Decision(s, i, After(R, i))
  BY DEF IsTurn
<1>. HIDE DEF Good, ld
<1>4. SUFFICES ASSUME T # {} PROVE FALSE
  BY DEF Good
<1>5. T \in SUBSET Nat /\ \A i \in T : i <= End(s)
  BY <1>1, <1>2, <1>3
<1>6. PICK i \in T : \A j \in T : j <= i
  BY <1>2, <1>4, <1>5, NatMax
<1>7. i \in DOMAIN R /\ i \in Nat \ {0} /\ ~Good(i) /\ i \in DOMAIN W
  BY <1>1, <1>2, <1>3, <1>6, WholeTurn
<1>8. \A j \in DOMAIN R : j > i => Good(j)
  BY <1>1, <1>2, <1>3, <1>6
<1>9. W[i] = OrElse(direct_decision(Full, i), indirect_decision(Full, i, After(W, i)))
  BY <1>7, WholeTurn
<1>10. CASE i \in DOMAIN s.decisions
  <2>1. R[i] = s.decisions[i]
    BY <1>3, <1>7, <1>10 DEF Decision
  <2>. QED
    BY <1>7, <1>10, <2>1 DEF Good, GoodCommitter
<1>11. CASE i \notin DOMAIN s.decisions /\ direct_decision(s, i) # Undecided
  <2>1. R[i] = direct_decision(s, i)
    BY <1>3, <1>7, <1>11 DEF Decision, OrElse
  <2>2. W[i] = direct_decision(s, i)
    BY <1>1, <1>7, <1>9, <1>11, DirectAgrees DEF OrElse
  <2>3. GoodDecision(s, i, R[i])
    <3>1. \A c \in Supported(s, i) : c \in s.dag \cap Slot(i)
      BY <1>1, <1>7, SupportedFacts DEF Certifiable
    <3>. QED
      BY <1>1, <1>7, <1>11, <2>1, <3>1, DirectFacts DEF GoodDecision
  <2>. QED
    BY <1>7, <2>1, <2>2, <2>3 DEF Good
<1>12. CASE i \notin DOMAIN s.decisions /\ direct_decision(s, i) = Undecided
  <2>1. R[i] = indirect_decision(s, i, After(R, i))
    BY <1>3, <1>7, <1>12 DEF Decision, OrElse
  <2>. DEFINE L == Later(i, After(R, i))
  <2>2. L \in SUBSET Nat /\ \A j \in L : /\ j \in DOMAIN R /\ j > i /\ R[j] # Skip
                                         /\ slot_round(j) > decision_round(i)
    <3>1. DOMAIN R \subseteq Nat
      BY <1>1, <1>3
    <3>2. L = {j \in DOMAIN R : /\ j > i /\ R[j] # Skip
                                /\ slot_round(j) > decision_round(i)}
      BY LaterIs
    <3>. HIDE DEF L
    <3>. QED
      BY <3>1, <3>2
  <2>3. L # {}
    <3>1. SUFFICES ASSUME L = {} PROVE FALSE
      OBVIOUS
    <3>2. R[i] = Undecided
      BY <2>1, <3>1 DEF indirect_decision
    <3>. QED
      BY <1>7, <3>2 DEF Good
  <2>4. PICK m \in L : \A j \in L : m <= j
    <3>. HIDE DEF L
    <3>. QED
      BY <2>2, <2>3, NatMin
  <2>5. /\ m \in DOMAIN R /\ m \in Nat \ {0} /\ m > i /\ R[m] # Skip
        /\ slot_round(m) > decision_round(i)
        /\ DOMAIN R \subseteq Nat
    BY <1>1, <1>3, <1>7, <2>2
  <2>6. \A k \in DOMAIN R : k > i /\ k < m /\ slot_round(k) > decision_round(i) => R[k] = Skip
    BY <2>4, <2>5, LaterIs
  <2>7. R[i] = IF R[m] \in {Undecided, Panic} THEN R[m] ELSE decide_from_anchor(s, i, R[m][2])
    <3>1. indirect_decision(s, i, After(R, i)) =
             IF R[m] \in {Undecided, Panic} THEN R[m] ELSE decide_from_anchor(s, i, R[m][2])
      BY <2>5, <2>6, IndirectIs
    <3>. QED
      BY <2>1, <3>1
  <2>8. R[m] # Undecided
    BY <1>7, <2>7 DEF Good
  <2>9. R[m] = W[m] /\ GoodDecision(s, m, R[m])
    BY <1>8, <2>5, <2>8 DEF Good
  <2>10. PICK x \in s.dag \cap Slot(m) : R[m] = Commit(x)
    BY <2>5, <2>9 DEF GoodDecision
  <2>11. R[i] = decide_from_anchor(s, i, x)
    <3>1. R[m] # Panic /\ R[m][2] = x
      BY <2>10, DecisionsDiffer
    <3>. QED
      BY <2>7, <2>8, <3>1
  <2>12. indirect_decision(Full, i, After(W, i)) = decide_from_anchor(Full, i, x)
    <3>1. m \in DOMAIN W /\ DOMAIN W \subseteq Nat
      BY <1>1, <1>2, <1>3, <2>5, WholeTurn
    <3>2. ASSUME NEW k \in DOMAIN W, k > i, k < m, slot_round(k) > decision_round(i)
          PROVE  W[k] = Skip
      <4>1. k \in DOMAIN R
        BY <1>1, <1>2, <1>3, <1>7, <2>5, <3>1, <3>2
      <4>2. R[k] = Skip
        BY <2>6, <3>2, <4>1
      <4>. QED
        BY <1>8, <3>2, <4>1, <4>2, DecisionsDiffer DEF Good
    <3>3. W[m] # Skip /\ W[m] # Undecided /\ W[m] # Panic /\ W[m][2] = x
      BY <2>9, <2>10, DecisionsDiffer
    <3>4. indirect_decision(Full, i, After(W, i)) =
             IF W[m] \in {Undecided, Panic} THEN W[m] ELSE decide_from_anchor(Full, i, W[m][2])
      BY <2>5, <3>1, <3>2, <3>3, IndirectIs
    <3>. QED
      BY <3>3, <3>4
  <2>13. x \in Blocks /\ round_of(x) > decision_round(i)
    BY <1>1, <2>5, <2>10 DEF Slot
  <2>14. W[i] = decide_from_anchor(Full, i, x)
    <3>1. CASE direct_decision(Full, i) = Undecided
      BY <1>9, <2>12, <3>1 DEF OrElse
    <3>2. CASE direct_decision(Full, i) # Undecided
      BY <1>7, <1>9, <2>13, <3>2, AnchorAgrees DEF OrElse
    <3>. QED
      BY <3>1, <3>2
  <2>15. /\ decide_from_anchor(s, i, x) = decide_from_anchor(Full, i, x)
         /\ \/ decide_from_anchor(s, i, x) = Skip
            \/ \E c \in s.dag \cap Slot(i) : decide_from_anchor(s, i, x) = Commit(c)
    BY <1>1, <1>7, <2>10, AnchorSame
  <2>. QED
    BY <1>7, <2>11, <2>14, <2>15 DEF Good, GoodDecision
<1>. QED
  BY <1>10, <1>11, <1>12

-----------------------------------------------------------------------------
(* The end of a turn.                                                      *)

(* The committer with all blocks satisfies GoodCommitter.                  *)
LEMMA FullGood == ASSUME Valid PROVE GoodCommitter(Full)
<1>1. Closed(Full.dag) /\ Full.dag # {}
  BY FullFacts, BlocksFinite, BlockFacts DEF Closed
<1>2. Full.last_decided = 0 /\ DOMAIN Full.decisions = {} /\ 1 .. 0 = {}
  BY FullFacts
<1>3. 0 \in 0 .. End(Full)
  BY FullEnd
<1>. QED
  BY <1>1, <1>2, <1>3 DEF GoodCommitter

(* The whole DAG never decides Panic.                                      *)
LEMMA WholeGood ==
    ASSUME Valid, NEW i \in 1 .. End(Full)
    PROVE  W[i] = Undecided \/ W[i] = Skip \/ \E x \in Slot(i) : W[i] = Commit(x)
<1>1. i \in DOMAIN W /\ IsTurn(W, Full)
  BY WholeTurn
<1>. QED
  BY <1>1, FullGood, TurnAgrees DEF GoodDecision

(* LastDecided is the end of the longest prefix of decided slots.          *)
LEMMA LastDecidedFacts ==
    ASSUME Valid, NEW s, s.dag \in SUBSET Blocks, s.dag # {}, s.last_decided \in Nat,
           NEW R, IsTurn(R, s)
    PROVE  /\ LastDecided(s, R) \in s.last_decided .. End(s)
           /\ \A j \in s.last_decided + 1 .. LastDecided(s, R) : R[j] # Undecided
           /\ \A i \in s.last_decided .. End(s) :
                 (\A j \in s.last_decided + 1 .. i : R[j] # Undecided) => i <= LastDecided(s, R)
<1>. DEFINE ld == s.last_decided
            T == {ld} \cup {i \in DOMAIN R : \A j \in ld + 1 .. i : R[j] # Undecided}
<1>1. ld \in Nat /\ End(s) \in Nat /\ ld <= End(s) /\ DOMAIN R = ld + 1 .. End(s)
  BY PendingFacts DEF IsTurn
<1>2. LastDecided(s, R) = Max(T)
  BY DEF LastDecided
<1>. HIDE DEF ld
<1>3. \A x : x \in T <=> x = ld \/ (x \in ld + 1 .. End(s) /\ \A j \in ld + 1 .. x : R[j] # Undecided)
  BY <1>1
<1>. HIDE DEF T
<1>4. T \in SUBSET Nat /\ T # {} /\ \A x \in T : x <= End(s)
  BY <1>1, <1>3
<1>5. PICK m \in T : \A x \in T : x <= m
  BY <1>1, <1>4, NatMax
<1>6. \A x \in T : m >= x
  BY <1>4, <1>5
<1>7. Max(T) \in T /\ \A x \in T : Max(T) >= x
  BY <1>5, <1>6, Zenon DEF Max
<1>8. Max(T) \in ld .. End(s)
  BY <1>1, <1>3, <1>7
<1>9. \A j \in ld + 1 .. Max(T) : R[j] # Undecided
  BY <1>1, <1>3, <1>7
<1>10. ASSUME NEW i \in ld .. End(s), \A j \in ld + 1 .. i : R[j] # Undecided PROVE i <= Max(T)
  <2>1. i \in T
    BY <1>1, <1>3, <1>10
  <2>. QED
    BY <1>1, <1>7, <1>8, <2>1
<1>. QED
  BY <1>2, <1>8, <1>9, <1>10 DEF ld

(* f is the function acc of Decide.                                        *)
IsEmit(f, s, out, R) ==
    f = [i \in s.last_decided .. LastDecided(s, R) |->
           IF i = s.last_decided THEN [emitted |-> s.emitted, output |-> out]
           ELSE Emit(f[i - 1], i, R)]

(* That function.                                                          *)
Emissions(s, out, R) == CHOOSE f : IsEmit(f, s, out, R)

(* Decide in terms of it.                                                  *)
LEMMA DecideIs ==
    ASSUME NEW s, NEW out, NEW R
    PROVE  Decide(s, out, R) =
             LET decided == {i \in DOMAIN R : R[i] # Undecided}
                 end == Emissions(s, out, R)[LastDecided(s, R)]
             IN [panic |-> \E i \in DOMAIN R : R[i] = Panic,
                 mahi |-> [s EXCEPT !.decisions = [i \in decided \cup DOMAIN @ |->
                                             IF i \in decided THEN R[i] ELSE @[i]],
                                    !.last_decided = LastDecided(s, R),
                                    !.emitted = end.emitted],
                 output |-> end.output]
  BY DEF Decide, Emissions, IsEmit

(* The recursion of Decide defines a function.                             *)
LEMMA EmitExists ==
    ASSUME NEW s, NEW out, NEW R, s.last_decided \in Nat,
           LastDecided(s, R) \in Nat, s.last_decided <= LastDecided(s, R)
    PROVE  \E f : IsEmit(f, s, out, R)
<1>. DEFINE a == s.last_decided
            b == LastDecided(s, R)
            v == [emitted |-> s.emitted, output |-> out]
            Val(i, y) == IF i = a THEN v ELSE Emit(y, i, R)
            Up(f, k) == \A i \in a .. a + k : f[i] = Val(i, f[i - 1])
            P == {k \in Nat : \E f : Up(f, k)}
<1>1. a \in Nat /\ b \in Nat /\ a <= b
  OBVIOUS
<1>0. \A x, y : Val(a, x) = Val(a, y)
  OBVIOUS
<1>. HIDE DEF a, b, Val
<1>2. 0 \in P
  <2>. DEFINE f == [i \in {a} |-> Val(a, << >>)]
  <2>1. f[a] = Val(a, f[a - 1])
    <3>1. f[a] = Val(a, << >>)
      OBVIOUS
    <3>. HIDE DEF f
    <3>. QED
      BY <3>1, <1>0
  <2>2. a .. a + 0 = {a}
    BY <1>1
  <2>. HIDE DEF f
  <2>3. Up(f, 0)
    BY <2>1, <2>2
  <2>. HIDE DEF Up
  <2>. QED
    BY <2>3
<1>3. ASSUME NEW k \in P PROVE k + 1 \in P
  <2>1. PICK f : Up(f, k)
    OBVIOUS
  <2>. DEFINE c == a + (k + 1)
              g == [i \in a .. c |-> IF i = c THEN Val(c, f[c - 1]) ELSE f[i]]
  <2>2. c \in Nat /\ c - 1 = a + k /\ a < c /\ c \in a .. c
    BY <1>1
  <2>4. ASSUME NEW i \in a .. c PROVE g[i] = Val(i, g[i - 1])
    <3>1. CASE i = c
      <4>1. i - 1 \in a .. c /\ i - 1 # c
        BY <1>1, <2>2, <3>1
      <4>2. g[i - 1] = f[i - 1]
        BY <4>1
      <4>3. g[c] = Val(c, f[c - 1])
        BY <2>2
      <4>. QED
        BY <3>1, <4>2, <4>3
    <3>2. CASE i # c
      <4>1. i \in a .. a + k
        BY <1>1, <2>2, <3>2
      <4>2. f[i] = Val(i, f[i - 1])
        BY <2>1, <4>1
      <4>3. g[i] = f[i]
        BY <3>2
      <4>4. CASE i = a
        <5>. HIDE DEF g, c
        <5>. QED
          BY <1>0, <4>2, <4>3, <4>4
      <4>5. CASE i # a
        <5>1. i - 1 \in a .. c /\ i - 1 # c
          BY <1>1, <2>2, <4>1, <4>5
        <5>2. g[i - 1] = f[i - 1]
          BY <5>1
        <5>. HIDE DEF g, c
        <5>. QED
          BY <4>2, <4>3, <5>2
      <4>. QED
        BY <4>4, <4>5
    <3>. QED
      BY <3>1, <3>2
  <2>. HIDE DEF g
  <2>5. Up(g, k + 1)
    BY <2>4
  <2>. HIDE DEF Up
  <2>. QED
    BY <2>5
<1>4. P = Nat
  <2>. HIDE DEF P
  <2>. QED
    BY <1>2, <1>3, SetInduction, P \in SUBSET Nat DEF P
<1>5. PICK f : Up(f, b - a)
  <2>1. b - a \in Nat
    BY <1>1
  <2>2. b - a \in P
    <3>. HIDE DEF P
    <3>. QED
      BY <1>4, <2>1
  <2>. QED
    BY <2>1, <2>2
<1>. DEFINE g == [i \in a .. b |-> f[i]]
<1>6. ASSUME NEW i \in a .. b PROVE g[i] = Val(i, g[i - 1])
  <2>1. i \in a .. a + (b - a)
    BY <1>1
  <2>2. f[i] = Val(i, f[i - 1]) /\ g[i] = f[i]
    BY <1>5, <2>1
  <2>3. CASE i = a
    <3>. HIDE DEF g
    <3>. QED
      BY <1>0, <2>2, <2>3
  <2>4. CASE i # a
    <3>1. i - 1 \in a .. b
      BY <1>1, <2>4
    <3>. QED
      BY <2>2, <3>1
  <2>. QED
    BY <2>3, <2>4
<1>7. g = [i \in a .. b |-> Val(i, g[i - 1])]
  <2>1. g = [i \in a .. b |-> g[i]]
    OBVIOUS
  <2>. HIDE DEF g
  <2>. QED
    BY <1>6, <2>1
<1>. HIDE DEF g
<1>. QED
  BY <1>7 DEF IsEmit, Val, a, b

(* Its first value, and each from the one before it.                       *)
LEMMA EmissionsFacts ==
    ASSUME NEW s, NEW out, NEW R, s.last_decided \in Nat,
           LastDecided(s, R) \in Nat, s.last_decided <= LastDecided(s, R)
    PROVE  /\ Emissions(s, out, R)[s.last_decided] = [emitted |-> s.emitted, output |-> out]
           /\ \A i \in s.last_decided + 1 .. LastDecided(s, R) :
                 Emissions(s, out, R)[i] = Emit(Emissions(s, out, R)[i - 1], i, R)
<1>. DEFINE f == Emissions(s, out, R)
            a == s.last_decided
            b == LastDecided(s, R)
<1>1. IsEmit(f, s, out, R)
  BY EmitExists DEF Emissions
<1>. HIDE DEF f
<1>2. a \in a .. b /\ \A i \in a + 1 .. b : i \in a .. b /\ i # a
  OBVIOUS
<1>3. f = [i \in a .. b |-> IF i = a THEN [emitted |-> s.emitted, output |-> out]
                            ELSE Emit(f[i - 1], i, R)]
  BY <1>1 DEF IsEmit
<1>. HIDE DEF a, b
<1>4. f[a] = [emitted |-> s.emitted, output |-> out]
  BY <1>2, <1>3
<1>5. \A i \in a + 1 .. b : f[i] = Emit(f[i - 1], i, R)
  BY <1>2, <1>3
<1>. QED
  BY <1>4, <1>5 DEF a, b, f

-----------------------------------------------------------------------------
(* What the whole DAG outputs.                                             *)

(* The last slot that the whole DAG outputs.                               *)
K == LastDecided(Full, W)
(* What is emitted and output at each slot up to K.                        *)
E == Emissions(Full, << >>, W)

(* The accumulators of Decide.                                             *)
Acc == [emitted : SUBSET Blocks, output : Seq(SUBSET Blocks)]

(* The leaders' blocks are emitted, and no block is output twice.          *)
Fresh(acc) ==
    /\ \A k \in DOMAIN acc.output : acc.output[k] \subseteq acc.emitted
    /\ \A j, k \in DOMAIN acc.output : j # k => acc.output[j] \cap acc.output[k] = {}

(* The sequence s is a prefix of t.                                        *)
Extends(t, s) == Len(s) <= Len(t) /\ \A k \in 1 .. Len(s) : s[k] = t[k]

(* Prefixes of prefixes.                                                   *)
LEMMA ExtendsTransitive ==
    ASSUME NEW s, NEW t, NEW u, Len(s) \in Nat, Len(t) \in Nat, Len(u) \in Nat,
           Extends(t, s), Extends(u, t)
    PROVE  Extends(u, s)
<1>1. Len(s) <= Len(t) /\ Len(t) <= Len(u) /\ Len(s) <= Len(u)
  BY DEF Extends
<1>2. ASSUME NEW k \in 1 .. Len(s) PROVE s[k] = u[k]
  <2>1. k \in 1 .. Len(t)
    BY <1>1
  <2>. QED
    BY <2>1 DEF Extends
<1>. QED
  BY <1>1, <1>2 DEF Extends

(* What the lemmas say of the whole DAG.                                   *)
LEMMA WholeFacts ==
    ASSUME Valid
    PROVE  /\ K \in 0 .. End(Full)
           /\ \A j \in 1 .. K : W[j] # Undecided
           /\ \A i \in 0 .. End(Full) : (\A j \in 1 .. i : W[j] # Undecided) => i <= K
           /\ E[0] = [emitted |-> genesis, output |-> << >>]
           /\ \A i \in 1 .. K : E[i] = Emit(E[i - 1], i, W)
<1>1. /\ Full.dag \in SUBSET Blocks /\ Full.dag # {} /\ Full.last_decided = 0
      /\ Full.last_decided \in Nat /\ Full.last_decided + 1 = 1 /\ Full.emitted = genesis
  BY FullFacts, BlocksFinite
<1>2. IsTurn(W, Full) /\ End(Full) \in Nat
  BY WholeTurn
<1>3. /\ K \in 0 .. End(Full)
      /\ \A j \in 1 .. K : W[j] # Undecided
      /\ \A i \in 0 .. End(Full) : (\A j \in 1 .. i : W[j] # Undecided) => i <= K
  BY <1>1, <1>2, LastDecidedFacts DEF K
<1>4. LastDecided(Full, W) \in Nat /\ Full.last_decided <= LastDecided(Full, W)
  BY <1>1, <1>2, <1>3 DEF K
<1>5. /\ E[0] = [emitted |-> genesis, output |-> << >>]
      /\ \A i \in 1 .. K : E[i] = Emit(E[i - 1], i, W)
  BY <1>1, <1>4, EmissionsFacts DEF E, K
<1>. QED
  BY <1>3, <1>5

(* A slot adds the blocks of its leader that were not emitted before,      *)
(* after those of the earlier leaders.                                     *)
LEMMA EmitFacts ==
    ASSUME Valid, NEW i \in 1 .. K, NEW acc \in Acc, Fresh(acc)
    PROVE  /\ Emit(acc, i, W) \in Acc
           /\ Fresh(Emit(acc, i, W))
           /\ Extends(Emit(acc, i, W).output, acc.output)
<1>1. i \in 1 .. End(Full) /\ W[i] # Undecided
  BY WholeFacts, FullEnd
<1>2. CASE W[i] = Skip
  <2>1. Emit(acc, i, W) = acc
    BY <1>2, DecisionsDiffer DEF Emit
  <2>. QED
    BY <2>1 DEF Extends, Acc
<1>3. CASE \E x \in Slot(i) : W[i] = Commit(x)
  <2>1. PICK x \in Slot(i) : W[i] = Commit(x)
    BY <1>3
  <2>. DEFINE new == Reachable(x, acc.emitted)
              t == Emit(acc, i, W)
  <2>2. W[i][1] = "Commit" /\ W[i][2] = x
    BY <2>1, DecisionsDiffer
  <2>3. t = [emitted |-> acc.emitted \cup new, output |-> Append(acc.output, new)]
    BY <2>2 DEF Emit, linearize
  <2>4. new \subseteq Blocks \ acc.emitted
    BY ReachableWithin, BlockFacts DEF Slot, Closed
  <2>. HIDE DEF new, t
  <2>5. acc.output \in Seq(SUBSET Blocks) /\ acc.emitted \in SUBSET Blocks
    BY DEF Acc
  <2>. DEFINE o == acc.output
              p == t.output
  <2>6. p = Append(o, new) /\ t.emitted = acc.emitted \cup new
    BY <2>3
  <2>7. /\ p \in Seq(SUBSET Blocks) /\ Len(p) = Len(o) + 1 /\ Len(o) \in Nat
        /\ \A k \in 1 .. Len(o) : p[k] = o[k]
        /\ p[Len(o) + 1] = new
        /\ DOMAIN p = 1 .. Len(o) + 1 /\ DOMAIN o = 1 .. Len(o)
    BY <2>4, <2>5, <2>6
  <2>8. t \in Acc
    BY <2>3, <2>4, <2>5, <2>6, <2>7 DEF Acc
  <2>9. Extends(p, o)
    BY <2>7 DEF Extends
  <2>10. ASSUME NEW k \in DOMAIN p PROVE p[k] \subseteq t.emitted
    <3>1. CASE k = Len(o) + 1
      BY <2>6, <2>7, <3>1
    <3>2. CASE k \in 1 .. Len(o)
      BY <2>6, <2>7, <3>2 DEF Fresh
    <3>. QED
      BY <2>7, <3>1, <3>2
  <2>11. ASSUME NEW j \in DOMAIN p, NEW k \in DOMAIN p, j # k PROVE p[j] \cap p[k] = {}
    <3>1. \A m \in 1 .. Len(o) : p[m] \subseteq acc.emitted
      BY <2>7 DEF Fresh
    <3>2. CASE j = Len(o) + 1
      <4>1. k \in 1 .. Len(o)
        BY <2>7, <2>11, <3>2
      <4>. QED
        BY <2>4, <2>7, <3>1, <3>2, <4>1
    <3>3. CASE k = Len(o) + 1
      <4>1. j \in 1 .. Len(o)
        BY <2>7, <2>11, <3>3
      <4>. QED
        BY <2>4, <2>7, <3>1, <3>3, <4>1
    <3>4. CASE j \in 1 .. Len(o) /\ k \in 1 .. Len(o)
      BY <2>7, <2>11, <3>4 DEF Fresh
    <3>. QED
      BY <2>7, <3>2, <3>3, <3>4
  <2>12. Fresh(t)
    BY <2>10, <2>11 DEF Fresh
  <2>. QED
    BY <2>8, <2>9, <2>12 DEF t
<1>. QED
  BY <1>1, <1>2, <1>3, WholeGood

(* At every slot no block has been output twice.                           *)
LEMMA EmissionsGood ==
    ASSUME Valid, NEW i \in 0 .. K PROVE E[i] \in Acc /\ Fresh(E[i])
<1>. DEFINE P == {k \in Nat : k <= K => E[k] \in Acc /\ Fresh(E[k])}
<1>0. K \in Nat
  BY WholeFacts, FullEnd
<1>1. 0 \in P
  <2>1. E[0] = [emitted |-> genesis, output |-> << >>] /\ genesis \in SUBSET Blocks
    BY WholeFacts DEF genesis
  <2>2. E[0] \in Acc
    BY <2>1 DEF Acc
  <2>3. Fresh(E[0])
    BY <2>1 DEF Fresh
  <2>. QED
    BY <2>2, <2>3
<1>2. ASSUME NEW k \in P PROVE k + 1 \in P
  <2>. SUFFICES ASSUME k + 1 <= K PROVE E[k + 1] \in Acc /\ Fresh(E[k + 1])
    OBVIOUS
  <2>1. E[k] \in Acc /\ Fresh(E[k])
    BY <1>0
  <2>2. k + 1 \in 1 .. K /\ k + 1 - 1 = k
    BY <1>0
  <2>3. E[k + 1] = Emit(E[k], k + 1, W)
    BY <2>2, WholeFacts
  <2>. QED
    BY <2>1, <2>2, <2>3, EmitFacts
<1>3. P = Nat
  <2>. HIDE DEF P
  <2>. QED
    BY <1>1, <1>2, SetInduction, P \in SUBSET Nat DEF P
<1>4. i \in P /\ i <= K
  <2>. HIDE DEF P
  <2>. QED
    BY <1>0, <1>3
<1>. QED
  BY <1>4

(* What is output at a slot is a prefix of all of it.                      *)
LEMMA EmissionsExtend ==
    ASSUME Valid, NEW i \in 0 .. K PROVE Extends(E[K].output, E[i].output)
<1>. DEFINE P == {k \in Nat : i + k <= K => Extends(E[i + k].output, E[i].output)}
<1>0. K \in Nat /\ i \in Nat /\ i <= K
  BY WholeFacts, FullEnd
<1>1. 0 \in P
  <2>1. i + 0 = i /\ Len(E[i].output) \in Nat
    BY <1>0, EmissionsGood DEF Acc
  <2>. QED
    BY <2>1 DEF Extends
<1>2. ASSUME NEW k \in P PROVE k + 1 \in P
  <2>. SUFFICES ASSUME i + (k + 1) <= K PROVE Extends(E[i + (k + 1)].output, E[i].output)
    OBVIOUS
  <2>1. Extends(E[i + k].output, E[i].output)
    BY <1>0
  <2>2. i + (k + 1) \in 1 .. K /\ i + (k + 1) - 1 = i + k /\ i + k \in 0 .. K
    BY <1>0
  <2>3. E[i + (k + 1)] = Emit(E[i + k], i + (k + 1), W)
    BY <2>2, WholeFacts
  <2>4. Extends(E[i + (k + 1)].output, E[i + k].output)
    BY <2>2, <2>3, EmissionsGood, EmitFacts
  <2>5. /\ Len(E[i].output) \in Nat /\ Len(E[i + k].output) \in Nat
        /\ E[i + (k + 1)] \in Acc
    BY <2>2, <2>3, EmissionsGood, EmitFacts DEF Acc
  <2>6. Len(E[i + (k + 1)].output) \in Nat
    BY <2>5 DEF Acc
  <2>. QED
    BY <2>1, <2>4, <2>5, <2>6, ExtendsTransitive
<1>3. P = Nat
  <2>. HIDE DEF P
  <2>. QED
    BY <1>1, <1>2, SetInduction, P \in SUBSET Nat DEF P
<1>4. K - i \in P /\ i + (K - i) = K /\ K <= K
  <2>. HIDE DEF P
  <2>. QED
    BY <1>0, <1>3
<1>. QED
  BY <1>4

-----------------------------------------------------------------------------
(* The invariant of one authority.                                         *)

(* s has the four fields of MahiCommitter.                                 *)
IsCommitter(s) ==
    s = [dag |-> s.dag, decisions |-> s.decisions, last_decided |-> s.last_decided,
         emitted |-> s.emitted]

(* The inductive invariant of one authority with committer s and output    *)
(* out: its decisions are those of the whole DAG, and what it has emitted  *)
(* and output is what the whole DAG emits and outputs at last_decided.     *)
NodeInv(s, out) ==
    /\ IsCommitter(s)
    /\ GoodCommitter(s)
    /\ s.last_decided <= K
    /\ s.emitted = E[s.last_decided].emitted
    /\ out = E[s.last_decided].output

(* It holds of a new committer.                                            *)
LEMMA InitNode == ASSUME Valid PROVE NodeInv(NewCommitter, << >>)
<1>. DEFINE s == NewCommitter
<1>1. /\ s.dag = genesis /\ s.decisions = << >> /\ s.last_decided = 0 /\ s.emitted = genesis
      /\ IsCommitter(s)
  BY DEF NewCommitter, IsCommitter
<1>. HIDE DEF s
<1>2. Closed(genesis) /\ genesis # {}
  <2>1. genesis # {}
    BY DEF Valid, MahiAssumption, WellFormed, genesis, Blocks, round_of
  <2>2. ASSUME NEW h \in genesis PROVE h \in Blocks /\ parents_of(h) = {}
    <3>1. h \in Blocks /\ round_of(h) = 0
      BY DEF genesis
    <3>2. \A p \in parents_of(h) : round_of(p) \in Nat /\ round_of(p) < 0
      BY <3>1, BlockFacts
    <3>. QED
      BY <3>1, <3>2
  <2>. QED
    BY <2>1, <2>2 DEF Closed
<1>3. DOMAIN s.decisions = {} /\ 1 .. s.last_decided = {}
  BY <1>1
<1>4. 0 \in 0 .. End(Full) /\ 0 <= K
  BY FullEnd, WholeFacts
<1>5. GoodCommitter(s)
  BY <1>1, <1>2, <1>3, <1>4 DEF GoodCommitter
<1>. QED
  BY <1>1, <1>4, <1>5, WholeFacts DEF NodeInv, s

(* A block received after its parents preserves it.                        *)
LEMMA ReceivedNode ==
    ASSUME Valid, NEW s, NEW out, NodeInv(s, out), NEW h \in Blocks, parents_of(h) \subseteq s.dag
    PROVE  NodeInv([s EXCEPT !.dag = @ \cup {h}], out)
<1>. DEFINE t == [s EXCEPT !.dag = @ \cup {h}]
<1>1. /\ t.dag = s.dag \cup {h} /\ t.decisions = s.decisions
      /\ t.last_decided = s.last_decided /\ t.emitted = s.emitted /\ IsCommitter(t)
  BY DEF NodeInv, IsCommitter
<1>. HIDE DEF t
<1>2. Closed(t.dag) /\ t.dag # {}
  BY <1>1 DEF NodeInv, GoodCommitter, Closed
<1>3. ASSUME NEW i, NEW d, GoodDecision(s, i, d) PROVE GoodDecision(t, i, d)
  BY <1>1, <1>3 DEF GoodDecision
<1>4. GoodCommitter(t)
  BY <1>1, <1>2, <1>3 DEF NodeInv, GoodCommitter
<1>. QED
  BY <1>1, <1>4 DEF NodeInv, t

(* The decisions of s with those of R.                                     *)
Merged(s, R) ==
    LET decided == {i \in DOMAIN R : R[i] # Undecided}
    IN [i \in decided \cup DOMAIN s.decisions |-> IF i \in decided THEN R[i] ELSE s.decisions[i]]

(* The committer at the end of try_decide.                                 *)
Updated(s, decisions, last, emitted) ==
    [s EXCEPT !.decisions = decisions, !.last_decided = last, !.emitted = emitted]

(* The fields of Decide.                                                   *)
LEMMA DecideFields ==
    \A s, out, R :
       /\ Decide(s, out, R).panic = (\E i \in DOMAIN R : R[i] = Panic)
       /\ Decide(s, out, R).mahi =
             Updated(s, Merged(s, R), LastDecided(s, R),
                    Emissions(s, out, R)[LastDecided(s, R)].emitted)
       /\ Decide(s, out, R).output = Emissions(s, out, R)[LastDecided(s, R)].output
<1>. TAKE s, out, R
<1>. DEFINE p == \E i \in DOMAIN R : R[i] = Panic
            end == Emissions(s, out, R)[LastDecided(s, R)]
            m == Updated(s, Merged(s, R), LastDecided(s, R), end.emitted)
            o == end.output
<1>1. Decide(s, out, R) = [panic |-> p, mahi |-> m, output |-> o]
  BY Zenon, DecideIs DEF Updated, Merged
<1>2. /\ Decide(s, out, R).mahi = m
      /\ Decide(s, out, R).output = o
  <2>. HIDE DEF m, o, p
  <2>. QED
    BY <1>1
<1>3. Decide(s, out, R).panic = p
  <2>. HIDE DEF m, o, p
  <2>. QED
    BY <1>1
<1>. QED
  BY <1>2, <1>3

(* A turn of try_decide preserves it, and does not panic.                  *)
LEMMA DecideNode ==
    ASSUME Valid, NEW s, NEW out, NodeInv(s, out)
    PROVE  /\ ~try_decide(s, out).panic
           /\ NodeInv(try_decide(s, out).mahi, try_decide(s, out).output)
<1>. DEFINE R == Records(s)
            ld == s.last_decided
            last == LastDecided(s, R)
            F == Emissions(s, out, R)
            decided == {i \in DOMAIN R : R[i] # Undecided}
            t == try_decide(s, out)
            decisions == Merged(s, R)
<1>1. /\ s.dag \in SUBSET Blocks /\ s.dag # {} /\ ld \in Nat /\ ld \in 0 .. End(Full)
      /\ End(Full) \in Nat /\ GoodCommitter(s) /\ ld <= K /\ K \in Nat
  BY FullEnd, WholeFacts DEF NodeInv, GoodCommitter, Closed
<1>2. IsTurn(R, s)
  BY <1>1, RecordsFacts
<1>3. End(s) \in Nat /\ End(s) <= End(Full) /\ DOMAIN R = ld + 1 .. End(s)
  BY <1>1, <1>2, PendingFacts, EndWithin DEF IsTurn
<1>. HIDE DEF R
<1>4. last \in ld .. End(s) /\ \A j \in ld + 1 .. last : R[j] # Undecided
  BY <1>1, <1>2, LastDecidedFacts
<1>5. /\ t.panic <=> \E i \in DOMAIN R : R[i] = Panic
      /\ t.mahi = Updated(s, decisions, last, F[last].emitted)
      /\ t.output = F[last].output
  <2>1. t = Decide(s, out, R)
    BY DEF try_decide, R
  <2>. HIDE DEF R, t
  <2>. QED
    BY <2>1, DecideFields
<1>. HIDE DEF t, F, last
<1>6. \A i \in DOMAIN R : R[i] = Undecided \/ (R[i] = W[i] /\ GoodDecision(s, i, R[i]))
  BY <1>1, <1>2, TurnAgrees
<1>7. ~t.panic
  BY <1>5, <1>6, DecisionsDiffer DEF GoodDecision
<1>8. last \in Nat /\ last <= K
  <2>1. \A j \in 1 .. last : W[j] # Undecided
    <3>. TAKE j \in 1 .. last
    <3>1. CASE j <= ld
      <4>1. j \in DOMAIN s.decisions
        BY <1>1, <3>1 DEF GoodCommitter
      <4>. QED
        BY <1>1, <4>1, DecisionsDiffer DEF GoodCommitter, GoodDecision
    <3>2. CASE j > ld
      <4>1. j \in ld + 1 .. last /\ j \in DOMAIN R
        BY <1>1, <1>3, <1>4, <3>2
      <4>. QED
        BY <1>4, <1>6, <4>1
    <3>. QED
      BY <1>1, <1>3, <1>4, <3>1, <3>2
  <2>2. last \in 0 .. End(Full)
    BY <1>1, <1>3, <1>4
  <2>. QED
    BY <2>1, <2>2, WholeFacts
<1>9. /\ F[ld] = [emitted |-> s.emitted, output |-> out]
      /\ \A i \in ld + 1 .. last : F[i] = Emit(F[i - 1], i, R)
  <2>1. last \in Nat /\ ld <= last
    BY <1>1, <1>3, <1>4
  <2>. QED
    BY <1>1, <2>1, EmissionsFacts DEF F, last
<1>10. F[last] = E[last]
  <2>. DEFINE P == {k \in Nat : ld + k <= last => F[ld + k] = E[ld + k]}
  <2>1. 0 \in P
    <3>1. ld \in 0 .. K /\ ld + 0 = ld
      BY <1>1
    <3>2. E[ld] \in Acc
      BY <3>1, EmissionsGood
    <3>3. E[ld] = [emitted |-> E[ld].emitted, output |-> E[ld].output]
      BY <3>2 DEF Acc
    <3>4. F[ld] = E[ld]
      BY <1>9, <3>3 DEF NodeInv
    <3>. QED
      BY <3>1, <3>4
  <2>2. ASSUME NEW k \in P PROVE k + 1 \in P
    <3>. SUFFICES ASSUME ld + (k + 1) <= last PROVE F[ld + (k + 1)] = E[ld + (k + 1)]
      OBVIOUS
    <3>. DEFINE i == ld + (k + 1)
    <3>1. /\ i \in ld + 1 .. last /\ i - 1 = ld + k /\ i \in 1 .. K /\ i \in DOMAIN R
          /\ ld + k <= last
      BY <1>1, <1>3, <1>4, <1>8, SMTT(30)
    <3>2. F[ld + k] = E[ld + k]
      BY <3>1
    <3>. HIDE DEF i
    <3>3. R[i] = W[i]
      BY <1>4, <1>6, <3>1
    <3>4. F[i] = Emit(F[i - 1], i, R) /\ E[i] = Emit(E[i - 1], i, W)
      BY <1>9, <3>1, WholeFacts
    <3>5. Emit(E[i - 1], i, R) = Emit(E[i - 1], i, W)
      BY <3>3 DEF Emit
    <3>6. F[i] = E[i]
      BY <3>1, <3>2, <3>4, <3>5
    <3>. QED
      BY <3>6 DEF i
  <2>3. P = Nat
    <3>. HIDE DEF P
    <3>. QED
      BY <2>1, <2>2, SetInduction, P \in SUBSET Nat DEF P
  <2>4. last - ld \in P /\ ld + (last - ld) = last /\ last <= last
    <3>. HIDE DEF P
    <3>. QED
      BY <1>1, <1>3, <1>4, <2>3
  <2>. QED
    BY <2>4
<1>11. /\ t.mahi.dag = s.dag /\ t.mahi.decisions = decisions /\ t.mahi.last_decided = last
       /\ t.mahi.emitted = F[last].emitted /\ IsCommitter(t.mahi)
  <2>. HIDE DEF decisions
  <2>. QED
    BY <1>5 DEF NodeInv, IsCommitter, Updated
<1>12. GoodCommitter(t.mahi)
  <2>1. /\ DOMAIN decisions = decided \cup DOMAIN s.decisions
        /\ \A i \in decided : decisions[i] = R[i]
        /\ \A i \in DOMAIN s.decisions \ decided : decisions[i] = s.decisions[i]
    BY DEF Merged
  <2>. HIDE DEF decisions
  <2>2. ASSUME NEW i \in DOMAIN decisions
        PROVE  decisions[i] = W[i] /\ GoodDecision(t.mahi, i, decisions[i])
    <3>1. GoodDecision(s, i, decisions[i]) <=> GoodDecision(t.mahi, i, decisions[i])
      BY <1>11 DEF GoodDecision
    <3>2. CASE i \in decided
      BY <1>6, <2>1, <3>1, <3>2
    <3>3. CASE i \notin decided
      BY <1>1, <2>1, <3>1, <3>3 DEF GoodCommitter
    <3>. QED
      BY <3>2, <3>3
  <2>3. DOMAIN decisions \subseteq 1 .. End(Full)
    <3>1. decided \subseteq 1 .. End(Full)
      BY <1>1, <1>3
    <3>. QED
      BY <1>1, <2>1, <3>1 DEF GoodCommitter
  <2>4. 1 .. last \subseteq DOMAIN decisions
    <3>1. ASSUME NEW j \in 1 .. last PROVE j \in decided \cup DOMAIN s.decisions
      <4>1. CASE j <= ld
        BY <1>1, <4>1 DEF GoodCommitter
      <4>2. CASE j > ld
        <5>1. j \in ld + 1 .. last /\ j \in DOMAIN R
          BY <1>1, <1>3, <1>4, <4>2
        <5>. QED
          BY <1>4, <5>1
      <4>. QED
        BY <1>1, <1>3, <1>4, <4>1, <4>2
    <3>. QED
      BY <2>1, <3>1
  <2>5. last \in 0 .. End(Full)
    BY <1>1, <1>3, <1>4
  <2>. QED
    BY <1>1, <1>11, <2>2, <2>3, <2>4, <2>5 DEF GoodCommitter
<1>13. NodeInv(t.mahi, t.output)
  <2>. HIDE DEF decisions
  <2>. QED
    BY <1>5, <1>8, <1>10, <1>11, <1>12 DEF NodeInv
<1>. QED
  BY <1>7, <1>13 DEF t

-----------------------------------------------------------------------------
(* The DAG does not change, and what depends on it does not either.        *)

(* The DAG of a behaviour does not change. This lemma and the next ones    *)
(* say that what is computed from it alone does not change either: here,   *)
(* the fields of the blocks and what is selected by them.                  *)
LEMMA FieldsFrozen ==
    ASSUME world' = world
    PROVE  /\ Blocks' = Blocks /\ genesis' = genesis /\ NewCommitter' = NewCommitter
           /\ Full' = Full
           /\ \A h : /\ origin(h)' = origin(h) /\ round_of(h)' = round_of(h)
                     /\ parents_of(h)' = parents_of(h) /\ digest_of(h)' = digest_of(h)
           /\ \A S : Authors(S)' = Authors(S)
           /\ \A S : Closed(S)' <=> Closed(S)
           /\ \A i : Slot(i)' = Slot(i)
           /\ \A s, i : round_digests(s, i)' = round_digests(s, i)
           /\ \A s, i : slot_digests(s, i)' = slot_digests(s, i)
<1>1. Blocks' = Blocks
  BY DEF Blocks
<1>2. genesis' = genesis
  BY DEF genesis, Blocks, round_of
<1>3. NewCommitter' = NewCommitter /\ Full' = Full
  BY Zenon DEF NewCommitter, Full, genesis, Blocks, round_of
<1>4. \A h : /\ origin(h)' = origin(h) /\ round_of(h)' = round_of(h)
             /\ parents_of(h)' = parents_of(h) /\ digest_of(h)' = digest_of(h)
  BY DEF origin, round_of, parents_of, digest_of
<1>5. \A S : Authors(S)' = Authors(S)
  BY Zenon DEF Authors, origin
<1>6. \A S : Closed(S)' <=> Closed(S)
  BY DEF Closed, Blocks, parents_of
<1>7. \A i : Slot(i)' = Slot(i)
  BY Zenon DEF Slot, Blocks, round_of, origin
<1>8. \A s, i : round_digests(s, i)' = round_digests(s, i)
  BY Zenon DEF round_digests, round_of
<1>9. \A s, i : slot_digests(s, i)' = slot_digests(s, i)
  BY Zenon DEF slot_digests, round_digests, round_of, origin
<1>. QED
  BY <1>1, <1>2, <1>3, <1>4, <1>5, <1>6, <1>7, <1>8, <1>9

(* The same for find_support.                                              *)
LEMMA SupportFrozen ==
    ASSUME world' = world, NEW h, NEW a, NEW r
    PROVE  find_support(h, a, r)' = find_support(h, a, r)
<1>1. \A f : IsFound(f, a, r)' <=> IsFound(f, a, r)
  BY SMT DEF IsFound, Met, Blocks, round_of, parents_of, origin, digest_of
<1>2. (CHOOSE f : IsFound(f, a, r))' = (CHOOSE f : IsFound(f, a, r))
  BY <1>1
<1>3. find_support(h, a, r) = (CHOOSE f : IsFound(f, a, r))[h]
  BY FoundIs
<1>4. find_support(h, a, r)' = ((CHOOSE f : IsFound(f, a, r))')[h]
  BY DEF find_support, IsFound, Met
<1>. QED
  BY <1>2, <1>3, <1>4

(* The same for Reachable.                                                 *)
LEMMA ReachFrozen ==
    ASSUME world' = world, NEW h, NEW stop
    PROVE  Reachable(h, stop)' = Reachable(h, stop)
<1>1. \A f : IsReach(f, h, stop)' <=> IsReach(f, h, stop)
  BY SMT DEF IsReach, StageOf, round_of, parents_of
<1>2. (CHOOSE f : IsReach(f, h, stop))' = (CHOOSE f : IsReach(f, h, stop))
  BY <1>1
<1>3. Reachable(h, stop) = (CHOOSE f : IsReach(f, h, stop))[0]
  BY ReachableIs
<1>4. Reachable(h, stop)' = ((CHOOSE f : IsReach(f, h, stop))')[0]
  BY DEF Reachable, IsReach, StageOf
<1>. QED
  BY <1>2, <1>3, <1>4

(* The same for the votes and certificates.                                *)
LEMMA VotesFrozen ==
    ASSUME world' = world
    PROVE  /\ \A v, l : is_vote(v, l)' <=> is_vote(v, l)
           /\ \A c, l : is_certificate(c, l)' <=> is_certificate(c, l)
           /\ \A s, i : Supported(s, i)' = Supported(s, i)
           /\ \A s, i : NonVoters(s, i)' = NonVoters(s, i)
<1>1. ASSUME NEW v, NEW l PROVE is_vote(v, l)' <=> is_vote(v, l)
  <2>1. find_support(v, origin(l), round_of(l))' = find_support(v, origin(l), round_of(l))
    <3>1. origin(l)' = origin(l) /\ round_of(l)' = round_of(l)
      BY FieldsFrozen
    <3>. QED
      BY <3>1, SupportFrozen
  <2>. QED
    BY <2>1 DEF is_vote
<1>2. ASSUME NEW c, NEW l PROVE is_certificate(c, l)' <=> is_certificate(c, l)
  <2>. DEFINE V == {p \in parents_of(c) : round_of(p) + 1 = round_of(c) /\ is_vote(p, l)}
  <2>1. V' = V
    BY <1>1, SMT DEF parents_of, round_of
  <2>2. Authors(V)' = Authors(V)
    <3>1. Authors(V)' = {origin(h)' : h \in V'}
      BY DEF Authors
    <3>. QED
      BY <2>1, <3>1, SMT DEF Authors, origin
  <2>. HIDE DEF V
  <2>3. HasQuorum(Authors(V))' <=> HasQuorum(Authors(V))
    BY <2>2 DEF HasQuorum
  <2>. QED
    BY <2>3 DEF is_certificate, V
<1>3. ASSUME NEW s, NEW i PROVE Supported(s, i)' = Supported(s, i)
  <2>. DEFINE V(c) == {d \in round_digests(s, decision_round(i)) : is_certificate(d, c)}
  <2>1. \A c : V(c)' = V(c)
    BY <1>2, SMT DEF round_digests, round_of
  <2>2. ASSUME NEW c PROVE Authors(V(c))' = Authors(V(c))
    <3>1. Authors(V(c))' = {origin(h)' : h \in V(c)'}
      BY DEF Authors
    <3>2. V(c)' = V(c)
      BY <2>1
    <3>. HIDE DEF V
    <3>. QED
      BY <3>1, <3>2, SMT DEF Authors, origin
  <2>. HIDE DEF V
  <2>3. \A c : HasQuorum(Authors(V(c)))' <=> HasQuorum(Authors(V(c)))
    BY <2>2 DEF HasQuorum
  <2>. DEFINE Q(c) == HasQuorum(Authors(V(c)))
  <2>4. Supported(s, i) = {c \in slot_digests(s, i) : Q(c)}
    BY DEF Supported, V
  <2>5. Supported(s, i)' = {c \in slot_digests(s, i)' : Q(c)'}
    BY DEF Supported, V
  <2>6. slot_digests(s, i)' = slot_digests(s, i) /\ \A c : Q(c)' <=> Q(c)
    BY <2>3, FieldsFrozen
  <2>. HIDE DEF Q
  <2>. QED
    BY <2>4, <2>5, <2>6
<1>4. ASSUME NEW s, NEW i PROVE NonVoters(s, i)' = NonVoters(s, i)
  <2>. DEFINE V == {v \in round_digests(s, vote_round(i)) :
                      find_support(v, authority(i), slot_round(i)) = {}}
  <2>1. V' = V
    <3>1. \A v : find_support(v, authority(i), slot_round(i))'
                   = find_support(v, authority(i), slot_round(i))
      BY SupportFrozen
    <3>. QED
      BY <3>1, SMT DEF round_digests, round_of
  <2>2. Authors(V)' = {origin(h)' : h \in V'}
    BY DEF Authors
  <2>3. Authors(V)' = Authors(V)
    <3>. HIDE DEF V
    <3>. QED
      BY <2>1, <2>2, SMT DEF Authors, origin
  <2>. QED
    BY <2>3 DEF NonVoters
<1>. QED
  BY <1>1, <1>2, <1>3, <1>4

(* The same for the decisions on a slot.                                   *)
LEMMA DecisionsFrozen ==
    ASSUME world' = world
    PROVE  /\ \A s, i : direct_decision(s, i)' = direct_decision(s, i)
           /\ \A s, i, a : decide_from_anchor(s, i, a)' = decide_from_anchor(s, i, a)
           /\ \A s, i, R : indirect_decision(s, i, R)' = indirect_decision(s, i, R)
           /\ \A s, i, R : Decision(s, i, R)' = Decision(s, i, R)
<1>1. ASSUME NEW s, NEW i PROVE direct_decision(s, i)' = direct_decision(s, i)
  <2>1. Supported(s, i)' = Supported(s, i) /\ NonVoters(s, i)' = NonVoters(s, i)
    BY VotesFrozen
  <2>2. direct_decision(s, i)' =
          Outcome(Supported(s, i)', IF HasQuorum(NonVoters(s, i)') THEN Skip ELSE Undecided)
    BY DEF direct_decision
  <2>. QED
    BY <2>1, <2>2 DEF direct_decision
<1>2. ASSUME NEW s, NEW i, NEW a PROVE decide_from_anchor(s, i, a)' = decide_from_anchor(s, i, a)
  <2>. DEFINE C == {c \in slot_digests(s, i) :
                      \E d \in round_digests(s, decision_round(i)) \cap Reachable(a, {}) :
                         is_certificate(d, c)}
  <2>1. C' = C
    <3>1. /\ slot_digests(s, i)' = slot_digests(s, i)
          /\ round_digests(s, decision_round(i))' = round_digests(s, decision_round(i))
          /\ Reachable(a, {})' = Reachable(a, {})
          /\ \A c, l : is_certificate(c, l)' <=> is_certificate(c, l)
      BY FieldsFrozen, VotesFrozen, ReachFrozen
    <3>. QED
      BY <3>1, SMT
  <2>2. decide_from_anchor(s, i, a) = Outcome(C, Skip)
    BY DEF decide_from_anchor
  <2>3. decide_from_anchor(s, i, a)' = Outcome(C', Skip)
    BY DEF decide_from_anchor
  <2>. HIDE DEF C
  <2>. QED
    BY <2>1, <2>2, <2>3
<1>3. ASSUME NEW s, NEW i, NEW R PROVE indirect_decision(s, i, R)' = indirect_decision(s, i, R)
  <2>1. \A a : decide_from_anchor(s, i, a)' = decide_from_anchor(s, i, a)
    BY <1>2
  <2>. QED
    BY <2>1, Zenon DEF indirect_decision
<1>4. ASSUME NEW s, NEW i, NEW R PROVE Decision(s, i, R)' = Decision(s, i, R)
  <2>1. /\ direct_decision(s, i)' = direct_decision(s, i)
        /\ indirect_decision(s, i, R)' = indirect_decision(s, i, R)
    BY <1>1, <1>3
  <2>. QED
    BY <2>1, Zenon DEF Decision, OrElse
<1>. QED
  BY <1>1, <1>2, <1>3, <1>4

(* The same for what is emitted.                                           *)
LEMMA EmissionFrozen ==
    ASSUME world' = world
    PROVE  /\ \A a, i, R : Emit(a, i, R)' = Emit(a, i, R)
           /\ \A s, o, R : Emissions(s, o, R)' = Emissions(s, o, R)
<1>1. ASSUME NEW a, NEW i, NEW R PROVE Emit(a, i, R)' = Emit(a, i, R)
  <2>1. Reachable(R[i][2], a.emitted)' = Reachable(R[i][2], a.emitted)
    BY ReachFrozen
  <2>. QED
    BY <2>1, Zenon DEF Emit, linearize
<1>2. ASSUME NEW s, NEW o, NEW R PROVE Emissions(s, o, R)' = Emissions(s, o, R)
  <2>1. \A f : IsEmit(f, s, o, R)' <=> IsEmit(f, s, o, R)
    BY <1>1, SMT DEF IsEmit
  <2>2. (CHOOSE f : IsEmit(f, s, o, R))' = (CHOOSE f : IsEmit(f, s, o, R))
    BY <2>1
  <2>. QED
    BY <2>2 DEF Emissions
<1>. QED
  BY <1>1, <1>2

(* The same for the decisions of a turn.                                   *)
LEMMA RecordsFrozen ==
    ASSUME world' = world, NEW s
    PROVE  /\ pending_slots(s)' = pending_slots(s)
           /\ End(s)' = End(s)
           /\ Records(s)' = Records(s)
<1>1. pending_slots(s)' = pending_slots(s)
  <2>1. \A i : Authors(round_digests(s, decision_round(i)))'
                = Authors(round_digests(s, decision_round(i)))
    <3>1. ASSUME NEW S PROVE Authors(S)' = Authors(S)
      BY FieldsFrozen
    <3>. QED
      BY Zenon DEF Authors, origin, round_digests, round_of
  <2>2. {round_of(h) : h \in s.dag}' = {round_of(h) : h \in s.dag}
    BY SMT DEF round_of
  <2>3. \A i : KnownSlot(s, i)' <=> KnownSlot(s, i)
    BY <2>1 DEF KnownSlot, HasQuorum
  <2>4. Highest(s)' = Highest(s)
    BY <2>2 DEF Highest
  <2>5. pending_slots(s)' =
             {i \in s.last_decided + 1 .. LEADER_COUNT * (Highest(s)' - (wave_length - 1)) :
                \A j \in s.last_decided + 1 .. i : KnownSlot(s, j)'}
    BY DEF pending_slots, Highest, KnownSlot
  <2>. QED
    BY <2>3, <2>4, <2>5, PendingIs
<1>2. End(s)' = End(s)
  BY <1>1 DEF End
<1>3. Records(s)' = Records(s)
  <2>. DEFINE m == Max(pending_slots(s))
  <2>1. m' = m
    BY <1>1
  <2>2. \A i, R : Decision(s, i, R)' = Decision(s, i, R)
    BY DecisionsFrozen
  <2>3. \A f : IsRecords(f, s, m)' <=> IsRecords(f, s, m)
    BY <2>1, <2>2, SMT DEF IsRecords, Extend
  <2>4. (CHOOSE f : IsRecords(f, s, m))' = (CHOOSE f : IsRecords(f, s, m))
    BY <2>3
  <2>5. Records(s)' = IF pending_slots(s)' = {} THEN << >>
                      ELSE ((CHOOSE f : IsRecords(f, s, m))')[s.last_decided + 1]
    BY DEF Records, IsRecords, Extend
  <2>6. Records(s) = IF pending_slots(s) = {} THEN << >>
                     ELSE (CHOOSE f : IsRecords(f, s, m))[s.last_decided + 1]
    BY DEF Records, IsRecords, Extend
  <2>. QED
    BY <1>1, <2>4, <2>5, <2>6
<1>. QED
  BY <1>1, <1>2, <1>3

(* What W, K and E are, for a rigid f in place of Full.                    *)
WholeIs ==
    \A f, w : f = Full =>
       /\ Records(f) = W
       /\ End(f) = End(Full)
       /\ w = W => LastDecided(f, w) = K /\ Emissions(f, << >>, w) = E

(* It holds in every state.                                                *)
LEMMA WholeAlways == WholeIs
  BY DEF WholeIs, W, K, E

(* It holds in every next state.                                           *)
LEMMA WholeNext == WholeIs'
  BY WholeAlways, PTL

(* The decisions and the output of the whole DAG do not change.            *)
LEMMA WholeFrozen ==
    ASSUME world' = world PROVE W' = W /\ K' = K /\ E' = E /\ End(Full)' = End(Full)
<1>1. WholeIs
  BY WholeAlways
<1>2. WholeIs'
  BY WholeNext
<1>3. PICK f, w : f = Full /\ w = W
  OBVIOUS
<1>4. f = Full' /\ Records(f)' = Records(f) /\ End(f)' = End(f)
  BY <1>3, FieldsFrozen, RecordsFrozen
<1>5. W' = W /\ End(Full)' = End(Full)
  BY <1>1, <1>2, <1>3, <1>4 DEF WholeIs
<1>6. Emissions(f, << >>, w)' = Emissions(f, << >>, w)
  BY EmissionFrozen
<1>7. LastDecided(f, w)' = LastDecided(f, w)
  OBVIOUS
<1>. QED
  BY <1>1, <1>2, <1>3, <1>4, <1>5, <1>6, <1>7 DEF WholeIs

-----------------------------------------------------------------------------
(* The theorems.                                                           *)

(* A committer that does not change keeps its invariant.                   *)
LEMMA NodeFrozen ==
    ASSUME world' = world, NEW s, NEW o
    PROVE  NodeInv(s, o)' <=> NodeInv(s, o)
<1>1. Closed(s.dag)' <=> Closed(s.dag)
  BY FieldsFrozen
<1>2. \A i, d : GoodDecision(s, i, d)' <=> GoodDecision(s, i, d)
  <2>1. \A i : Slot(i)' = Slot(i)
    BY FieldsFrozen
  <2>. QED
    BY <2>1, SMT DEF GoodDecision
<1>3. W' = W /\ K' = K /\ E' = E /\ End(Full)' = End(Full)
  BY WholeFrozen
<1>4. GoodCommitter(s)' <=> GoodCommitter(s)
  BY <1>1, <1>2, <1>3 DEF GoodCommitter
<1>. QED
  BY <1>3, <1>4 DEF NodeInv, IsCommitter

(* The inductive invariant: that of every authority, and nobody panicked.  *)
MahiInv ==
    /\ world \in World
    /\ panicked = {}
    /\ mahi = [n \in Node |-> mahi[n]]
    /\ output = [n \in Node |-> output[n]]
    /\ \A n \in Node : \E s, o : mahi[n] = s /\ output[n] = o /\ NodeInv(s, o)

(* It holds initially.                                                     *)
LEMMA MahiInvInit == ASSUME MahiAssumption, Init PROVE MahiInv
<1>1. Valid
  BY DEF Valid, Init
<1>2. NodeInv(NewCommitter, << >>)
  BY <1>1, InitNode
<1>. QED
  BY <1>2 DEF Init, MahiInv

(* Every step preserves it.                                                *)
LEMMA MahiInvStep == ASSUME MahiAssumption, MahiInv, [Next]_vars PROVE MahiInv'
<1>1. CASE Next
  <2>1. PICK n \in Node, h \in Blocks : ReceiveBlock(n, h)
    BY <1>1 DEF Next
  <2>2. Valid /\ world' = world
    BY <2>1 DEF Valid, MahiInv, ReceiveBlock, Becomes
  <2>3. PICK s, o : mahi[n] = s /\ output[n] = o /\ NodeInv(s, o)
    BY DEF MahiInv
  <2>. DEFINE r == [s EXCEPT !.dag = @ \cup {h}]
  <2>4. NodeInv(r, o)
    BY <2>1, <2>2, <2>3, ReceivedNode DEF ReceiveBlock, CanReceive
  <2>5. PICK t : t = try_decide(r, o)
    OBVIOUS
  <2>6. ~t.panic /\ NodeInv(t.mahi, t.output)
    <3>. HIDE DEF r
    <3>. QED
      BY <2>2, <2>4, <2>5, DecideNode
  <2>7. Becomes(n, t)
    BY <2>1, <2>3, <2>5 DEF ReceiveBlock
  <2>8. panicked' = {} /\ mahi' = [mahi EXCEPT ![n] = t.mahi]
        /\ output' = [output EXCEPT ![n] = t.output]
    BY <2>6, <2>7 DEF Becomes, MahiInv
  <2>9. mahi' = [m \in Node |-> mahi'[m]] /\ output' = [m \in Node |-> output'[m]]
    BY <2>8 DEF MahiInv
  <2>10. \A m \in Node : \E u, v : mahi'[m] = u /\ output'[m] = v /\ NodeInv(u, v)'
    <3>1. ASSUME NEW u, NEW v, NodeInv(u, v) PROVE NodeInv(u, v)'
      BY <2>2, <3>1, NodeFrozen
    <3>. TAKE m \in Node
    <3>2. CASE m = n
      <4>1. mahi'[m] = t.mahi /\ output'[m] = t.output
        BY <2>8, <3>2 DEF MahiInv
      <4>. QED
        BY <2>6, <3>1, <4>1
    <3>3. CASE m # n
      <4>1. mahi'[m] = mahi[m] /\ output'[m] = output[m]
        BY <2>8, <3>3 DEF MahiInv
      <4>2. PICK u, v : mahi[m] = u /\ output[m] = v /\ NodeInv(u, v)
        BY DEF MahiInv
      <4>. QED
        BY <3>1, <4>1, <4>2
    <3>. QED
      BY <3>2, <3>3
  <2>. QED
    BY <2>2, <2>8, <2>9, <2>10 DEF MahiInv
<1>2. CASE UNCHANGED vars
  <2>1. world' = world /\ mahi' = mahi /\ output' = output /\ panicked' = panicked
    BY <1>2 DEF vars
  <2>2. \A u, v : NodeInv(u, v)' <=> NodeInv(u, v)
    BY <2>1, NodeFrozen
  <2>. QED
    BY <2>1, <2>2 DEF MahiInv
<1>. QED
  BY <1>1, <1>2

(* An authority with the invariant agrees with the whole DAG.              *)
LEMMA NodeAgrees ==
    ASSUME Valid, NEW n \in Node, NodeInv(mahi[n], output[n])
    PROVE  Agrees(n, Whole)
<1>. DEFINE s == mahi[n]
            o == output[n]
            ld == s.last_decided
<1>0. /\ GoodCommitter(s) /\ ld \in 0 .. K /\ K \in 0 .. End(Full) /\ End(Full) \in Nat
      /\ o = E[ld].output
  <2>1. End(Full) \in Nat
    BY FullEnd
  <2>. QED
    BY <2>1, WholeFacts DEF NodeInv, GoodCommitter
<1>1. Whole = Decide(Full, << >>, W)
  BY DEF Whole, try_decide, W, Full
<1>2. /\ Whole.mahi = Updated(Full, Merged(Full, W), K, E[K].emitted)
      /\ Whole.output = E[K].output
  BY <1>1, DecideFields DEF K, E
<1>3. Whole.mahi.decisions = Merged(Full, W)
  BY <1>2 DEF Updated, Full, NewCommitter
<1>. DEFINE D == {i \in DOMAIN W : W[i] # Undecided}
<1>4. DOMAIN Merged(Full, W) = D /\ \A i \in D : Merged(Full, W)[i] = W[i]
  <2>1. DOMAIN Full.decisions = {}
    BY FullFacts
  <2>. QED
    BY <2>1 DEF Merged
<1>5. DOMAIN W = 1 .. End(Full)
  BY WholeTurn
<1>. HIDE DEF s, o
<1>6. ASSUME NEW i \in DOMAIN s.decisions
      PROVE  i \in D /\ s.decisions[i] = W[i]
  <2>1. i \in 1 .. End(Full) /\ s.decisions[i] = W[i] /\ GoodDecision(s, i, s.decisions[i])
    BY <1>0 DEF GoodCommitter
  <2>. QED
    BY <1>5, <2>1, DecisionsDiffer DEF GoodDecision
<1>7. IsPrefix(o, Whole.output)
  <2>1. E[ld] \in Acc /\ E[K] \in Acc /\ Extends(E[K].output, E[ld].output)
    BY <1>0, EmissionsGood, EmissionsExtend
  <2>. DEFINE p == E[K].output
  <2>2. o \in Seq(SUBSET Blocks) /\ p \in Seq(SUBSET Blocks) /\ Extends(p, o)
    BY <1>0, <2>1 DEF Acc
  <2>. HIDE DEF p
  <2>3. IsPrefix(o, p)
    <3>1. Len(o) <= Len(p) /\ Len(o) \in Nat /\ Len(p) \in Nat
      BY <2>2 DEF Extends
    <3>2. SubSeq(o, 1, Len(o)) = SubSeq(p, 1, Len(o))
      BY <2>2, <3>1 DEF Extends
    <3>. QED
      BY <3>1, <3>2 DEF IsPrefix
  <2>. QED
    BY <1>2, <2>3 DEF p
<1>8. \A i \in DOMAIN s.decisions :
         i \in DOMAIN Whole.mahi.decisions /\ s.decisions[i] = Whole.mahi.decisions[i]
  BY <1>3, <1>4, <1>6
<1>. QED
  BY <1>7, <1>8 DEF Agrees, s, o

(* What the invariant implies.                                             *)
LEMMA MahiConsequences ==
    ASSUME MahiAssumption, MahiInv PROVE Agreement /\ NoPanic /\ OutputOnce
<1>1. Valid /\ NoPanic
  BY DEF Valid, MahiInv, NoPanic
<1>2. \A n \in Node : NodeInv(mahi[n], output[n])
  BY DEF MahiInv
<1>3. Agreement
  BY <1>1, <1>2, NodeAgrees DEF Agreement
<1>4. OutputOnce
  <2>. SUFFICES ASSUME NEW n \in Node
       PROVE  \A i, j \in DOMAIN output[n] : i # j => output[n][i] \cap output[n][j] = {}
    BY DEF OutputOnce
  <2>. DEFINE ld == mahi[n].last_decided
  <2>1. ld \in 0 .. K /\ output[n] = E[ld].output
    BY <1>1, <1>2, FullEnd, WholeFacts DEF NodeInv, GoodCommitter
  <2>2. Fresh(E[ld])
    BY <1>1, <2>1, EmissionsGood
  <2>. HIDE DEF ld
  <2>. QED
    BY <2>1, <2>2 DEF Fresh
<1>. QED
  BY <1>1, <1>3, <1>4

(* The inductive invariant holds in every state of the consensus of Mahi-  *)
(* Mahi: whatever order the blocks arrive in, every committer has decided  *)
(* as the whole DAG decides.                                               *)
LEMMA MahiInvariance == ASSUME MahiAssumption PROVE Spec => []MahiInv
<1>1. MahiAssumption /\ Init => MahiInv
  BY MahiInvInit
<1>2. MahiAssumption /\ MahiInv /\ [Next]_vars => MahiInv'
  BY MahiInvStep
<1>. QED
  BY <1>1, <1>2, PTL DEF Spec

(* What an authority has decided, directly or through an anchor, is what   *)
(* the whole DAG decides, and its output is a prefix of that of the whole  *)
(* DAG: MahiCommitter::try_decide is safe against equivocation and any     *)
(* order of arrival, for every DAG of valid blocks, every committee, both  *)
(* lengths of a wave, with and without the coin.                           *)
THEOREM MahiAgreementHolds == ASSUME MahiAssumption PROVE Spec => []Agreement
<1>1. MahiInv => Agreement
  BY MahiConsequences
<1>. QED
  BY <1>1, MahiInvariance, PTL

(* The assertion "Mahi-Mahi safety violation" of the committer never       *)
(* fails.                                                                  *)
THEOREM MahiNoPanicHolds == ASSUME MahiAssumption PROVE Spec => []NoPanic
<1>1. MahiInv => NoPanic
  BY MahiConsequences
<1>. QED
  BY <1>1, MahiInvariance, PTL

(* linearize never outputs a block twice.                                  *)
THEOREM MahiOutputOnceHolds == ASSUME MahiAssumption PROVE Spec => []OutputOnce
<1>1. MahiInv => OutputOnce
  BY MahiConsequences
<1>. QED
  BY <1>1, MahiInvariance, PTL
=============================================================================
