----------------------------- MODULE Consensus -----------------------------
(***************************************************************************)
(* The consensus task of a committee that certifies its DAG                *)
(* (consensus/src/lib.rs, Consensus::run): the configuration chooses one   *)
(* of the protocols for everybody.                                         *)
(***************************************************************************)
EXTENDS LeaderConsensus

VARIABLE protocol   \* Parameters::dag_protocol

B == INSTANCE Bullshark
N == INSTANCE Narwhal

ProtocolInit == Init /\ protocol \in {"Bullshark", "Narwhal"}

(* Consensus::run                                                          *)
ProtocolNext ==
    \/ protocol = "Bullshark" /\ B!Next /\ UNCHANGED protocol
    \/ protocol = "Narwhal" /\ N!Next /\ UNCHANGED protocol

ProtocolSpec == ProtocolInit /\ [][ProtocolNext]_<<vars, protocol>>
=============================================================================
