-------------------------- MODULE CommitteeProofs --------------------------
(***************************************************************************)
(* What the two thresholds of a committee guarantee, for every committee   *)
(* and every distribution of stake; and two facts about sets of numbers    *)
(* and about functions defined downwards that several proofs use.          *)
(***************************************************************************)
EXTENDS Committee, WellFoundedInduction, TLAPS

(* Stake is monotone and subtractive on sets of authorities.               *)
LEMMA WeightMonotone ==
    ASSUME NEW S \in SUBSET Authority, NEW T \in SUBSET Authority, S \subseteq T
    PROVE  /\ Weight[S] \in Nat /\ Weight[T] \in Nat /\ Weight[T \ S] \in Nat
           /\ Weight[T] = Weight[S] + Weight[T \ S]
           /\ Weight[S] <= Weight[T]
<1>1. S \cap (T \ S) = {} /\ S \cup (T \ S) = T /\ T \ S \in SUBSET Authority
  OBVIOUS
<1>2. Weight[S \cup (T \ S)] = Weight[S] + Weight[T \ S]
  BY <1>1, WeightAssumption
<1>3. Weight[S] \in Nat /\ Weight[T] \in Nat /\ Weight[T \ S] \in Nat
  BY <1>1, WeightAssumption
<1>. QED
  BY <1>1, <1>2, <1>3

(* The thresholds in terms of the total stake: what the integer divisions  *)
(* of quorum_threshold and validity_threshold come to.                     *)
LEMMA Thresholds ==
    /\ total_votes \in Nat
    /\ quorum_threshold \in Nat /\ validity_threshold \in Nat
    /\ 3 * quorum_threshold > 2 * total_votes
    /\ 3 * validity_threshold >= total_votes
    /\ 3 * validity_threshold <= total_votes + 2
<1>1. total_votes \in Nat
  BY WeightAssumption DEF total_votes
<1>2. \A t \in Nat : /\ (2 * t) \div 3 + 1 \in Nat
                     /\ (t + 2) \div 3 \in Nat
                     /\ 3 * ((2 * t) \div 3 + 1) > 2 * t
                     /\ 3 * ((t + 2) \div 3) >= t
                     /\ 3 * ((t + 2) \div 3) <= t + 2
  BY SMT
<1>. QED
  BY <1>1, <1>2 DEF quorum_threshold, validity_threshold

(* Two quorums share an honest authority: what makes two certificates of   *)
(* one slot impossible.                                                    *)
THEOREM QuorumIntersection ==
    ASSUME NEW S \in SUBSET Authority, NEW T \in SUBSET Authority,
           HasQuorum(S), HasQuorum(T)
    PROVE  \E n \in Honest : n \in S /\ n \in T
<1>1. SUFFICES ASSUME S \cap T \subseteq Byzantine PROVE FALSE
  BY DEF Honest
<1>2. Weight[S \cap T] <= Weight[Byzantine] /\ Weight[S \cap T] \in Nat
  BY <1>1, WeightMonotone, ByzantineAssumption
<1>3. Weight[S] = Weight[S \cap T] + Weight[S \ (S \cap T)]
  BY WeightMonotone
<1>4. Weight[S \ (S \cap T)] + Weight[T] = Weight[S \cup T]
  <2>1. (S \ (S \cap T)) \cap T = {} /\ (S \ (S \cap T)) \cup T = S \cup T
    OBVIOUS
  <2>. QED
    BY <2>1, WeightAssumption
<1>5. Weight[S \cup T] <= total_votes
  BY WeightMonotone DEF total_votes
<1>6. /\ Weight[S] \in Nat /\ Weight[T] \in Nat /\ Weight[S \cup T] \in Nat
      /\ Weight[S \ (S \cap T)] \in Nat /\ Weight[Byzantine] \in Nat
  BY WeightAssumption, ByzantineAssumption
<1>. QED
  BY <1>2, <1>3, <1>4, <1>5, <1>6, Thresholds, FaultAssumption DEF HasQuorum

(* The honest part of a quorum has at least the validity threshold: some   *)
(* honest authority answers every request for what a quorum vouched for.   *)
THEOREM QuorumHasHonestValidity ==
    ASSUME NEW S \in SUBSET Authority, HasQuorum(S)
    PROVE  HasValidity(S \cap Honest)
<1>1. Weight[S] = Weight[S \cap Honest] + Weight[S \cap Byzantine]
  <2>1. /\ (S \cap Honest) \cap (S \cap Byzantine) = {}
        /\ (S \cap Honest) \cup (S \cap Byzantine) = S
    BY ByzantineAssumption DEF Honest
  <2>2. S \cap Honest \in SUBSET Authority /\ S \cap Byzantine \in SUBSET Authority
    OBVIOUS
  <2>. QED
    BY <2>1, <2>2, WeightAssumption
<1>2. Weight[S \cap Byzantine] <= Weight[Byzantine]
  BY WeightMonotone, ByzantineAssumption
<1>3. /\ Weight[S] \in Nat /\ Weight[S \cap Honest] \in Nat
      /\ Weight[S \cap Byzantine] \in Nat /\ Weight[Byzantine] \in Nat
  BY WeightAssumption, ByzantineAssumption
<1>. QED
  BY <1>1, <1>2, <1>3, Thresholds, FaultAssumption DEF HasQuorum, HasValidity

(* A quorum and f + 1 of stake have an authority in common                 *)
(* (Committee::quorum_threshold, validity_threshold).                      *)
LEMMA QuorumMeetsValidity ==
    ASSUME NEW S \in SUBSET Authority, NEW T \in SUBSET Authority,
           HasQuorum(S), HasValidity(T)
    PROVE  \E a \in S : a \in T
<1>1. SUFFICES ASSUME S \cap T = {} PROVE FALSE
  OBVIOUS
<1>2. Weight[S \cup T] = Weight[S] + Weight[T]
  BY <1>1, WeightAssumption
<1>3. Weight[S \cup T] <= total_votes
  BY WeightMonotone DEF total_votes
<1>4. Weight[S] \in Nat /\ Weight[T] \in Nat /\ Weight[S \cup T] \in Nat
  BY WeightAssumption
<1>. QED
  BY <1>2, <1>3, <1>4, Thresholds DEF HasQuorum, HasValidity

(* No authority is a quorum by itself. The committee file does not rule    *)
(* such stakes out, so a theorem that needs this has it as a hypothesis.   *)
NoSoleQuorum == \A v \in Authority : ~HasQuorum({v})

-----------------------------------------------------------------------------
(* Induction over rounds, which the proofs about the protocols share.      *)

(* The order of the naturals as a relation, to cite the library's theorem  *)
(* on well-founded relations.                                              *)
NatLess == OpToRel(<, Nat)

(* A set of naturals that is not empty has a smallest member.              *)
LEMMA NatMin ==
    ASSUME NEW T \in SUBSET Nat, T # {}
    PROVE  \E x \in T : \A y \in T : x <= y
<1>1. IsWellFoundedOn(NatLess, Nat)
  BY NatLessThanWellFounded DEF NatLess
<1>2. PICK x \in T : \A y \in T : ~(<<y, x>> \in NatLess)
  BY <1>1, WFMin
<1>3. ASSUME NEW y \in T PROVE x <= y
  <2>1. ~(y < x)
    BY <1>2 DEF NatLess, OpToRel
  <2>. QED
    BY <2>1
<1>. QED
  BY <1>3

(* Induction over the naturals, for the set of the numbers that have the   *)
(* property.                                                               *)
LEMMA SetInduction ==
    ASSUME NEW P \in SUBSET Nat, 0 \in P, \A i \in P : i + 1 \in P
    PROVE  P = Nat
<1>1. SUFFICES ASSUME Nat \ P # {} PROVE FALSE
  OBVIOUS
<1>2. PICK x \in Nat \ P : \A y \in Nat \ P : x <= y
  BY <1>1, NatMin
<1>3. x # 0 /\ x - 1 \in Nat
  BY <1>2
<1>4. x - 1 \in P
  BY <1>2, <1>3
<1>. QED
  BY <1>2, <1>4

(* A set of naturals that is not empty and is bounded has a largest        *)
(* member.                                                                 *)
LEMMA NatMax ==
    ASSUME NEW T \in SUBSET Nat, T # {}, NEW b \in Nat, \A x \in T : x <= b
    PROVE  \E m \in T : \A x \in T : x <= m
<1>. DEFINE U == {y \in Nat : \E x \in T : x + y = b}
<1>1. PICK k \in U : \A y \in U : k <= y
  <2>1. PICK x \in T : TRUE
    OBVIOUS
  <2>2. b - x \in U
    BY <2>1
  <2>. QED
    BY <2>2, NatMin
<1>2. PICK m \in T : m + k = b
  BY <1>1
<1>3. \A x \in T : x <= m
  <2>. TAKE x \in T
  <2>1. b - x \in U
    OBVIOUS
  <2>2. k <= b - x
    BY <1>1, <2>1
  <2>. QED
    BY <1>2, <2>2
<1>. QED
  BY <1>3

(* f takes the value v at b, and below b what G makes of its next value.   *)
DownFrom(f, a, b, v, G) ==
    /\ f[b] = v
    /\ \A r \in a .. b - 1 : f[r] = G[<<r, f[r + 1]>>]

(* A recursive function that is defined from b down to a exists: what      *)
(* linked, order_dag and order_leaders compute is defined.                 *)
LEMMA DownwardRecursion ==
    ASSUME NEW a \in Int, NEW b \in Int, a <= b, NEW V, NEW v \in V,
           NEW G \in [(a .. b) \X V -> V]
    PROVE  \E f \in [a .. b -> V] : DownFrom(f, a, b, v, G)
<1>. DEFINE From(i) == {f \in [b - i .. b -> V] :
                          /\ f[b] = v
                          /\ \A r \in b - i .. b - 1 : f[r] = G[<<r, f[r + 1]>>]}
            P == {i \in Nat : i <= b - a => From(i) # {}}
<1>1. 0 \in P
  <2>. DEFINE f == [r \in b - 0 .. b |-> v]
  <2>1. f \in From(0)
    OBVIOUS
  <2>. QED
    BY <2>1
<1>2. ASSUME NEW i \in P PROVE i + 1 \in P
  <2>. SUFFICES ASSUME i + 1 <= b - a PROVE From(i + 1) # {}
    OBVIOUS
  <2>1. PICK f \in From(i) : TRUE
    OBVIOUS
  <2>. DEFINE c == b - (i + 1)
              g == [r \in c .. b |-> IF r = c THEN G[<<c, f[c + 1]>>] ELSE f[r]]
  <2>2. /\ c \in a .. b /\ c # b /\ c \in Int /\ c + 1 = b - i /\ c + 1 \in b - i .. b
        /\ c + 1 # c /\ c + 1 \in c .. b
        /\ \A r \in c .. b : r # c => r \in b - i .. b
        /\ \A r \in c .. b - 1 : r # c => /\ r \in b - i .. b - 1 /\ r \in c .. b
                                       /\ r + 1 \in c .. b /\ r + 1 # c
    BY i \in Nat
  <2>3. f[c + 1] \in V
    BY <2>2
  <2>4. G[<<c, f[c + 1]>>] \in V
    BY <2>2, <2>3
  <2>5. g \in [c .. b -> V]
    BY <2>2, <2>4
  <2>6. ASSUME NEW r \in c .. b - 1 PROVE g[r] = G[<<r, g[r + 1]>>]
    <3>. HIDE DEF c
    <3>1. CASE r = c
      BY <3>1, <2>2
    <3>2. CASE r # c
      BY <3>2, <2>2, <2>1
    <3>. QED
      BY <3>1, <3>2
  <2>7. g[b] = v
    BY <2>1, <2>2
  <2>8. g \in From(i + 1)
    BY <2>5, <2>6, <2>7
  <2>. QED
    BY <2>8
<1>3. P = Nat
  <2>. HIDE DEF P
  <2>. QED
    BY <1>1, <1>2, SetInduction, P \in SUBSET Nat DEF P
<1>4. b - a \in Nat /\ b - a <= b - a
  OBVIOUS
<1>5. From(b - a) # {}
  <2>1. b - a \in P
    BY <1>3, <1>4
  <2>. HIDE DEF From
  <2>. QED
    BY <1>4, <2>1
<1>6. b - (b - a) = a
  OBVIOUS
<1>. QED
  BY <1>5, <1>6 DEF DownFrom
=============================================================================
