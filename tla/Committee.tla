----------------------------- MODULE Committee -----------------------------
(***************************************************************************)
(* The committee of config/src/lib.rs: the authorities, their voting power *)
(* and the two thresholds every protocol of the repository is built on.    *)
(*                                                                         *)
(* Stake is given as a measure on sets of authorities, Weight[S] being the *)
(* sum of the stakes of S.  The proofs use only that it is additive, so    *)
(* they hold for every distribution of stake; the model-checked instances  *)
(* define it as a sum.                                                     *)
(***************************************************************************)
EXTENDS Integers

CONSTANTS
    Authority,   \* the keys of Committee::authorities
    Byzantine,   \* the authorities that do not follow the code
    Weight       \* Weight[S]: the total stake of the set S of authorities

ASSUME ByzantineAssumption == Byzantine \subseteq Authority

ASSUME WeightAssumption ==
    /\ Weight \in [SUBSET Authority -> Nat]
    /\ Weight[{}] = 0
    /\ \A S, T \in SUBSET Authority :
          S \cap T = {} => Weight[S \cup T] = Weight[S] + Weight[T]

Honest == Authority \ Byzantine

total_votes == Weight[Authority]

(* Stake is a u32 and quorum_threshold doubles the total: the arithmetic   *)
(* below is exact only when twice the total still fits.                    *)
ASSUME StakeFitsU32 == total_votes <= 2147483647

(* Committee::quorum_threshold                                             *)
quorum_threshold == (2 * total_votes) \div 3 + 1

(* Committee::validity_threshold                                           *)
validity_threshold == (total_votes + 2) \div 3

(* Fewer than f + 1 units of stake are Byzantine.                          *)
ASSUME FaultAssumption == Weight[Byzantine] < validity_threshold

HasQuorum(S) == Weight[S] >= quorum_threshold

HasValidity(S) == Weight[S] >= validity_threshold
=============================================================================
