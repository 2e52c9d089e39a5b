------------------------------ MODULE MCWahoo ------------------------------
(* Wahoo for TLC: a behaviour is one of WahooBroadcast, for one slot, or   *)
(* one of WahooNode.                                                       *)
EXTENDS WahooBroadcast, WahooNode, TLC

CONSTANTS
    Part,       \* the modules that are checked
    Scenario    \* see Prompt below

VARIABLES
    part,
    late,      \* the messages that may take their time: <<from, to, round>>
    fragile    \* the authorities that may stop

mc_vars == <<vars, node_vars, part, late, fragile>>

Four == {"a", "b", "c", "d"}
Stake == [S \in SUBSET Four |-> Cardinality(S)]
Leaders == {1 :> "a" @@ 3 :> x : x \in {"b", "c"}}

(* Only the certificates of late take their time, on the way from their    *)
(* author to another authority, or to form if the two are equal, with what *)
(* their author sends after them.  The other steps are prompt: of those    *)
(* that are possible, one given step comes first.                          *)
Carries(m, n) ==
    LET message == sent[m][received[n][m] + 1]
    IN IF message[1] = "Certificate" THEN message[2] ELSE 0

Forming == {h \in DOMAIN parents : /\ SureToForm(h)
                                   /\ <<h[1], h[1], h[2]>> \notin late}

Arriving == {link \in Authority \X Authority :
               /\ SureToArrive(link[1], link[2])
               /\ <<link[2], link[1], Carries(link[2], link[1])>> \notin late}

Prompt ==
    IF Forming # {} THEN LET h == CHOOSE h \in Forming : TRUE IN Certify(h[1], h)
    ELSE /\ Arriving # {}
         /\ LET link == CHOOSE l \in Arriving : \A k \in Arriving :
                           received[l[1]][l[2]] <= received[k[1]][k[2]]
            IN Receive(link[1], link[2])

InTime ==
    \/ \E h \in DOMAIN parents \ Forming : Certify(h[1], h)
    \/ \E link \in ((Authority \ stopped) \X (Authority \ stopped)) \ Arriving :
          Receive(link[1], link[2])

MCNodeNext ==
    \/ Prompt
    \/ InTime
    \/ \E n \in fragile : Stop(n)

Broadcast(A) == part = "broadcast" /\ A /\ UNCHANGED <<part, late, fragile, node_vars>>

MCInit ==
    /\ part \in Part
    /\ Init
    /\ NodeInit
    /\ \E x \in Scenario : late = x.late /\ fragile = x.fragile
    /\ part = "node" => origin = (CHOOSE n \in Origin : TRUE) /\ ~even
    /\ part = "broadcast" => /\ late = (CHOOSE x \in Scenario : TRUE).late
                             /\ fragile = (CHOOSE x \in Scenario : TRUE).fragile
                             /\ coin[3] = "b"

MCNext ==
    \/ part = "node" /\ MCNodeNext /\ UNCHANGED <<part, late, fragile, vars>>
    \/ Broadcast(Next)

MCSpec ==
    /\ MCInit /\ [][MCNext]_mc_vars
    /\ \A n \in Honest : WF_mc_vars(Broadcast(Fair(n)))

(* Round 1: a is its leader.                                               *)
LeaderLate == {[late |-> {"a"} \X {"b", "c", "d"} \X {1}, fragile |-> {}]}

(* The leader is certified when the others have gone on, or one of the     *)
(* authorities stops.                                                      *)
Scenarios ==
    LeaderLate \cup
    {[late |-> {<<"a", "a", 1>>, <<"b", "c", 1>>, <<"a", "b", 1>>}, fragile |-> {}],
     [late |-> {<<"a", "b", 1>>}, fragile |-> {"d"}],
     [late |-> {<<"c", "a", 2>>}, fragile |-> {"b"}]}

(* The block of a correct origin is delivered: see WahooBroadcast.         *)
BlockDelivered == part = "broadcast" => EventuallyDelivered
=============================================================================
