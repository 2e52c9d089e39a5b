--------------------------- MODULE MCPrimaryLate ---------------------------
(***************************************************************************)
(* Two instances of PrimaryCore with three authorities of stakes 3, 1 and  *)
(* 1, so that no authority is a quorum by itself and a needs one of the    *)
(* two others.  d is Byzantine.  `part` chooses one of them:               *)
(*                                                                         *)
(*   "alone": b has stopped; a and d do whatever they may for two rounds,  *)
(*      d with two headers of round 1.                                     *)
(*   "late": a and d complete three rounds before the certificates of d1   *)
(*      and of everything after it reach b.  Then b catches up: it         *)
(*      receives them in any order and any number of times, collects, and  *)
(*      makes a header of round 3.                                         *)
(***************************************************************************)
EXTENDS MCPrimaryCore

VARIABLES
    part,   \* the instance of this behaviour
    step    \* how much of the first three rounds is done, in part "late"

LateTable ==
    [a0 |-> H("a", 0, {}), b0 |-> H("b", 0, {}), d0 |-> H("d", 0, {}),
     a1 |-> H("a", 1, TwoGenesis),
     d1 |-> H("d", 1, TwoGenesis), d1x |-> H("d", 1, TwoGenesis),
     a2 |-> H("a", 2, {"a1", "d1"}), a2x |-> H("a", 2, {"a1", "d1"}),
     d2 |-> H("d", 2, {"a1", "d1"}),
     a3 |-> H("a", 3, {"a2", "d2"}),
     b3 |-> H("b", 3, {"a2", "d2"}), b3x |-> H("b", 3, {"a2", "d2"})]
LateHeader  == DOMAIN LateTable
LateAuthor  == [h \in LateHeader |-> LateTable[h].author]
LateRound   == [h \in LateHeader |-> LateTable[h].round]
LateParents == [h \in LateHeader |-> LateTable[h].parents]

-----------------------------------------------------------------------------
(* Everything authority n does.                                            *)
Tasks(n) ==
    \/ CoreTurn(n) \/ ProposerTask(n) \/ WaiterTask(n)
    \/ WorkerTask(n) \/ GarbageCollectorTask(n)

AloneNext ==
    \/ Tasks("a")
    \/ \E h \in {"d1", "d1x"} : ByzantineHeader(h) \/ ByzantineCertificate(h)

-----------------------------------------------------------------------------
(* Header h of a is made and certified with the vote of d, from step i on. *)
Proposes(i, h) ==
    \/ step = i     /\ MakeHeader("a", h)
    \/ step = i + 1 /\ ProcessOwnHeader("a")
    \/ step = i + 2 /\ ReceiveVote("a", "d", h)

(* Header h of d is certified with the vote of a, which moves on, from     *)
(* step i on.                                                              *)
Follows(i, h) ==
    \/ step = i     /\ ByzantineHeader(h)
    \/ step = i + 1 /\ ReceiveHeader("a", h)
    \/ step = i + 2 /\ ByzantineCertificate(h)
    \/ step = i + 3 /\ ReceiveCertificate("a", h)
    \/ step = i + 4 /\ ProposerReceivesSignal("a")

(* b has received the first header and certificate, and the headers of     *)
(* rounds 1 and 2, those of round 2 suspended for want of d1.              *)
Starts(i) ==
    \/ step = i     /\ ReceiveHeader("b", "a1")
    \/ step = i + 1 /\ ReceiveCertificate("b", "a1")
    \/ step = i + 2 /\ ReceiveHeader("b", "d1")
    \/ step = i + 3 /\ ReceiveHeader("b", "a2")
    \/ step = i + 4 /\ ReceiveHeader("b", "d2")

ThreeRounds ==
    \/ Proposes(0, "a1")
    \/ Follows(3, "d1")
    \/ Proposes(8, "a2")
    \/ Follows(11, "d2")
    \/ Proposes(16, "a3")
    \/ Starts(19)

(* A header that can resume does so before anything else happens: what     *)
(* late headers do is explored in part "alone".                            *)
HeadersResume ==
    \/ \E w \in header_waiter["b"] : HeaderWaiterDelivers("b", w)
    \/ HeaderWaiterCleanup("b")
    \/ \E h \in rx_header_waiter["b"] : LoopbackHeader("b", h)

CatchesUp == IF ENABLED HeadersResume THEN HeadersResume ELSE Tasks("b")

LateNext ==
    \/ step < 24 /\ ThreeRounds /\ step' = step + 1
    \/ step = 24 /\ CatchesUp /\ UNCHANGED step

-----------------------------------------------------------------------------
LateInit == Init /\ part \in {"alone", "late"} /\ step = 0

LateSpec ==
    /\ LateInit
    /\ [][/\ \/ part = "alone" /\ AloneNext /\ UNCHANGED step
             \/ part = "late" /\ LateNext
          /\ UNCHANGED part]_<<vars, part, step>>
=============================================================================
