----------------------------- MODULE MCShortfin -----------------------------
(* Instances of Shortfin for TLC.                                          *)
EXTENDS Shortfin, ShortfinDags

LeaderOf == (1 :> "b" @@ 5 :> "d")

AnchorsHeader     == DOMAIN Anchors
AnchorsAuthor     == AuthorIn(Anchors)
AnchorsRound      == RoundIn(Anchors)
AnchorsParents    == ParentsIn(Anchors)
AnchorsDigest     == DigestIn(Anchors)
AnchorsQc         == QcIn(Anchors)
AnchorsVoterRound == VoterRoundIn(Anchors)
AnchorsCertified  == CertifiedIn(Anchors)

SilentHeader     == DOMAIN Silent
SilentAuthor     == AuthorIn(Silent)
SilentRound      == RoundIn(Silent)
SilentParents    == ParentsIn(Silent)
SilentDigest     == DigestIn(Silent)
SilentQc         == QcIn(Silent)
SilentVoterRound == VoterRoundIn(Silent)
SilentCertified  == CertifiedIn(Silent)

(* The end of the first wave: every authority has received the blocks of   *)
(* rounds 1 to 3, and with them the QCs of rounds 1 and 2.                 *)
BoundaryNear ==
    LET early == {h \in Header : round[h] \in 1 .. 3}
        known == {h \in Certified : round[h] \in 1 .. 2}
    IN /\ state = [n \in Node |->
                      [NewShortfin EXCEPT !.dag = @ \cup early,
                                          !.records = @ \cup early,
                                          !.certified = known]]
       /\ sent = [n \in Node |-> early]
       /\ upgraded = [n \in Node |-> known]
       /\ sequence = [n \in Node |-> <<>>]

SpecNear == BoundaryNear /\ [][Next]_vars
=============================================================================
