------------------------------ MODULE MCWorker ------------------------------
(***************************************************************************)
(* Instances of Worker for TLC.  A behaviour is about batches made here or *)
(* about batches fetched, which meet in the store only: part says which.   *)
(***************************************************************************)
EXTENDS Worker

VARIABLE part

WeightOf(stake) ==
    [S \in SUBSET DOMAIN stake |-> MapThenSumSet(LAMBDA n : stake[n], S)]

(* d is Byzantine; the quorum threshold is 3 of 4, so that a needs b.      *)
ThreeWeight == WeightOf([a |-> 1, b |-> 2, d |-> 1])

OneBatch == {[author |-> "d", transactions |-> <<"x">>]}

ThreeSizes == <<1, 2, 1>>

MCInit == WorkerInit /\ part \in {"make", "fetch"}

MCNext ==
    /\ WorkerNext
    /\ part = "make" => /\ UNCHANGED <<started, round>>
                        /\ \A n \in Honest : rx_others'[n] \cap ByzantineBatch = {}
    /\ part = "fetch" => UNCHANGED taken
    /\ UNCHANGED part

MCSpec == MCInit /\ [][MCNext]_<<worker_vars, part>> /\ Fairness
=============================================================================
