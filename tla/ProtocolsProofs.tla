--------------------------- MODULE ProtocolsProofs ---------------------------
(***************************************************************************)
(* Theorems about the protocols that MCProtocols runs: the Shortfin task   *)
(* for every committee and DAG, and what the theorems of MahiProofs and    *)
(* BullsharkProofs say of the instances there.                             *)
(*                                                                         *)
(* Shortfin: every record of the state is written out in each operation,   *)
(* so that an operation is shown once to keep the facts of StateOK, and a  *)
(* turn (TurnKeeps) is a sequence of operations.  What keeps blocks and    *)
(* boundaries from being committed twice is carried by every wave          *)
(* (WaveOK) and kept as the state grows (WaveOKGrows).                                *)
(***************************************************************************)
EXTENDS MCProtocols, CommitteeProofs, FiniteSetTheorems, TLAPS

-----------------------------------------------------------------------------
(* Shortfin: the operations on the State.                                  *)

(* The fields of the State of Shortfin.                                    *)
Fields(s) ==
    \E a, b, c, d, e, f :
       s = [last_committed_round |-> a, last_committed |-> b, dag |-> c,
            records |-> d, certified |-> e, processed_boundaries |-> f]

(* Rounds are last committed for all authorities, up to some round.        *)
LastOK(last) ==
    /\ last \in [Authority -> Nat]
    /\ \E b \in Nat : \A a \in Authority : last[a] <= b

(* The State of an authority: its records are blocks, and its last         *)
(* committed round is not above that of every author.                      *)
StateOK(s) ==
    /\ Fields(s)
    /\ LastOK(s.last_committed)
    /\ s.records \subseteq Header
    /\ s.last_committed_round \in Nat
    /\ s.processed_boundaries \subseteq Nat
    /\ \E a \in Authority : s.last_committed_round <= s.last_committed[a]

(* What is appended to the sequence of an authority.                       *)
Wave == [boundary : Nat, chain : Header \X Header \X Header, blocks : SUBSET Header]

(* The Max of the community modules, on a bounded set of numbers.          *)
LEMMA MaxIsGreatest ==
    ASSUME NEW rounds \in SUBSET Nat, rounds # {}, NEW b \in Nat, \A x \in rounds : x <= b
    PROVE  Max(rounds) \in rounds /\ \A x \in rounds : x <= Max(rounds)
<1>1. PICK m \in rounds : \A x \in rounds : x <= m
  BY NatMax
<1>. QED
  BY <1>1 DEF Max

(* The start of a turn forgets old boundaries, and nothing else.           *)
LEMMA BeginKeeps ==
    ASSUME NEW s, StateOK(s)
    PROVE  /\ StateOK(Begin(s))
           /\ Begin(s).last_committed = s.last_committed
           /\ Begin(s).last_committed_round = s.last_committed_round
           /\ Begin(s).processed_boundaries =
                {r \in s.processed_boundaries : r + gc_depth >= s.last_committed_round}
<1>1. PICK a, b, c, d, e, f :
         s = [last_committed_round |-> a, last_committed |-> b, dag |-> c,
              records |-> d, certified |-> e, processed_boundaries |-> f]
  BY DEF StateOK, Fields
<1>. DEFINE g == {r \in f : r + gc_depth >= a}
<1>2. Begin(s) = [last_committed_round |-> a, last_committed |-> b, dag |-> c,
                  records |-> d, certified |-> e, processed_boundaries |-> g]
  BY <1>1 DEF Begin
<1>3. /\ s.last_committed_round = a /\ s.last_committed = b /\ s.records = d
      /\ s.processed_boundaries = f
  BY <1>1
<1>. HIDE DEF g
<1>4. /\ Begin(s).last_committed_round = a /\ Begin(s).last_committed = b
      /\ Begin(s).records = d /\ Begin(s).processed_boundaries = g
  BY <1>2
<1>5. Fields(Begin(s))
  BY <1>2 DEF Fields
<1>. QED
  BY <1>3, <1>4, <1>5 DEF StateOK, g

(* insert_record leaves what is committed alone.                           *)
LEMMA InsertKeeps ==
    ASSUME NEW s, StateOK(s), NEW h \in Header, NEW has_votes
    PROVE  /\ StateOK(insert_record(s, h, has_votes))
           /\ insert_record(s, h, has_votes).last_committed = s.last_committed
           /\ insert_record(s, h, has_votes).last_committed_round = s.last_committed_round
           /\ insert_record(s, h, has_votes).processed_boundaries = s.processed_boundaries
<1>1. PICK a, b, c, d, e, f :
         s = [last_committed_round |-> a, last_committed |-> b, dag |-> c,
              records |-> d, certified |-> e, processed_boundaries |-> f]
  BY DEF StateOK, Fields
<1>. DEFINE C == IF has_votes THEN s.certified \cup {h} ELSE s.certified
            D == IF \E g \in s.dag : slot(g) = slot(h) THEN s.dag ELSE s.dag \cup {h}
            i == insert_record(s, h, has_votes)
<1>0. i = [s EXCEPT !.records = s.records \cup {h}, !.certified = C, !.dag = D]
  BY DEF insert_record
<1>. HIDE DEF C, D, i
<1>2. i = [last_committed_round |-> a, last_committed |-> b, dag |-> D,
           records |-> d \cup {h}, certified |-> C, processed_boundaries |-> f]
  BY <1>0, <1>1
<1>3. /\ s.last_committed_round = a /\ s.last_committed = b /\ s.records = d
      /\ s.processed_boundaries = f
  BY <1>1
<1>4. /\ i.last_committed_round = a /\ i.last_committed = b
      /\ i.records = d \cup {h} /\ i.processed_boundaries = f
  BY <1>2
<1>5. Fields(i)
  BY <1>2 DEF Fields
<1>6. StateOK(i)
  BY <1>3, <1>4, <1>5 DEF StateOK
<1>. QED
  BY <1>3, <1>4, <1>6 DEF i

(* Rounds never decrease, and cover what is output.                        *)
Covers(last, xs) == \A x \in xs : round[x] <= last[author[x]]

(* State::update raises the last committed rounds to cover what is output. *)
LEMMA CommittedCovers ==
    ASSUME NEW s, StateOK(s), NEW xs \in SUBSET Header, NEW r \in Nat,
           \A x \in xs : round[x] < r
    PROVE  /\ LastOK(Committed(s, xs))
           /\ \A a \in Authority : s.last_committed[a] <= Committed(s, xs)[a]
           /\ Covers(Committed(s, xs), xs)
<1>. DEFINE old == s.last_committed
            Of(a) == {round[x] : x \in {y \in xs : author[y] = a}}
            last == Committed(s, xs)
<1>1. PICK b \in Nat : \A a \in Authority : old[a] <= b
  BY DEF StateOK, LastOK
<1>2. old \in [Authority -> Nat]
  BY DEF StateOK, LastOK
<1>3. last = [a \in Authority |-> Max(Of(a) \cup {old[a]})]
  BY DEF Committed
<1>4. \A x \in Header : round[x] \in Nat /\ author[x] \in Authority
  BY HeaderAssumption
<1>. DEFINE k == IF b < r THEN r ELSE b
<1>5. k \in Nat /\ r <= k /\ b <= k
  BY <1>1
<1>6. ASSUME NEW a \in Authority
      PROVE  /\ last[a] \in Nat /\ last[a] <= k /\ old[a] <= last[a]
             /\ \A y \in Of(a) : y <= last[a]
  <2>. DEFINE rounds == Of(a) \cup {old[a]}
  <2>1. rounds \in SUBSET Nat /\ rounds # {} /\ \A y \in rounds : y <= k
    BY <1>1, <1>2, <1>4, <1>5
  <2>. HIDE DEF rounds, k
  <2>2. Max(rounds) \in rounds /\ \A y \in rounds : y <= Max(rounds)
    BY <2>1, <1>5, MaxIsGreatest
  <2>3. last[a] = Max(rounds)
    BY <1>3 DEF rounds
  <2>4. Max(rounds) \in Nat /\ Max(rounds) <= k
    BY <2>1, <2>2
  <2>5. old[a] \in rounds /\ Of(a) \subseteq rounds
    BY DEF rounds
  <2>. HIDE DEF Of, old, last
  <2>. QED
    BY <2>2, <2>3, <2>4, <2>5
<1>7. last \in [Authority -> Nat]
  <2>. HIDE DEF Of, old, k
  <2>1. last = [a \in Authority |-> last[a]]
    BY <1>3
  <2>. HIDE DEF last
  <2>. QED
    BY <2>1, <1>6
<1>8. Covers(last, xs)
  <2>. SUFFICES ASSUME NEW x \in xs PROVE round[x] <= last[author[x]]
    BY DEF Covers
  <2>1. author[x] \in Authority /\ round[x] \in Of(author[x])
    BY <1>4
  <2>. HIDE DEF Of, old, k, last
  <2>. QED
    BY <2>1, <1>6
<1>9. LastOK(last)
  <2>. HIDE DEF Of, old, k, last
  <2>. QED
    BY <1>5, <1>6, <1>7 DEF LastOK
<1>. QED
  <2>. HIDE DEF Of, k
  <2>. QED
    BY <1>6, <1>8, <1>9

(* The clean up after a wave, with blocks or without: nothing committed is *)
(* taken back.                                                             *)
LEMMA RetainedKeeps ==
    ASSUME NEW s, StateOK(s), NEW xs \in SUBSET Header, NEW r \in Nat,
           \A x \in xs : round[x] < r
    PROVE  /\ StateOK(Retained(s, xs))
           /\ \A a \in Authority : s.last_committed[a] <= Retained(s, xs).last_committed[a]
           /\ Covers(Retained(s, xs).last_committed, xs)
           /\ s.last_committed_round <= Retained(s, xs).last_committed_round
           /\ Retained(s, xs).processed_boundaries = s.processed_boundaries
<1>. DEFINE u == IF xs = {} THEN s ELSE update(s, xs)
            live == {h \in u.records : round[h] + gc_depth >= u.last_committed_round}
            t == Retained(s, xs)
<1>1. t = [u EXCEPT !.records = live, !.certified = u.certified \cap live]
  BY DEF Retained
<1>2. PICK a, b, c, d, e, f :
         s = [last_committed_round |-> a, last_committed |-> b, dag |-> c,
              records |-> d, certified |-> e, processed_boundaries |-> f]
  BY DEF StateOK, Fields
<1>3. /\ s.last_committed_round = a /\ s.last_committed = b /\ s.records = d
      /\ s.processed_boundaries = f
  BY <1>2
<1>4. \E aa, bb, cc :
         /\ u = [last_committed_round |-> aa, last_committed |-> bb, dag |-> cc,
                 records |-> d, certified |-> e, processed_boundaries |-> f]
         /\ LastOK(bb) /\ aa \in Nat /\ a <= aa
         /\ \E m \in Authority : aa <= bb[m]
         /\ \A m \in Authority : b[m] <= bb[m]
         /\ Covers(bb, xs)
  <2>1. CASE xs = {}
    <3>1. u = s /\ LastOK(b) /\ a \in Nat /\ \E m \in Authority : a <= b[m]
      BY <2>1, <1>3 DEF StateOK
    <3>2. \A m \in Authority : b[m] <= b[m]
      BY <3>1 DEF LastOK
    <3>3. Covers(b, xs)
      BY <2>1 DEF Covers
    <3>. HIDE DEF u
    <3>4. a <= a
      BY <3>1
    <3>. WITNESS a, b, c
    <3>. QED
      BY <3>1, <3>2, <3>3, <3>4, <1>2
  <2>2. CASE xs # {}
    <3>. DEFINE last == Committed(s, xs)
                T == {last[m] : m \in Authority}
                top == Max(T)
                D == {h \in s.dag : /\ round[h] >= last[author[h]]
                                    /\ round[h] + gc_depth >= top}
    <3>1. u = [s EXCEPT !.last_committed_round = top, !.last_committed = last, !.dag = D]
      BY <2>2 DEF update
    <3>2. /\ LastOK(last)
          /\ \A m \in Authority : b[m] <= last[m]
          /\ Covers(last, xs)
      BY <1>3, CommittedCovers
    <3>. HIDE DEF last
    <3>3. top \in Nat /\ a <= top /\ \E m \in Authority : top <= last[m]
      <4>1. PICK k \in Nat : \A m \in Authority : last[m] <= k
        BY <3>2 DEF LastOK
      <4>2. T \in SUBSET Nat
        BY <3>2 DEF LastOK
      <4>3. T # {}
        BY <2>2, HeaderAssumption
      <4>4. \A x \in T : x <= k
        BY <4>1
      <4>5. PICK m \in Authority : a <= b[m]
        BY <1>3 DEF StateOK
      <4>6. last[m] \in T /\ last[m] \in Nat /\ b[m] \in Nat /\ a \in Nat /\ b[m] <= last[m]
        BY <1>3, <3>2 DEF LastOK, StateOK
      <4>7. \A x \in T : \E j \in Authority : x = last[j]
        OBVIOUS
      <4>. HIDE DEF T
      <4>8. Max(T) \in T /\ \A x \in T : x <= Max(T)
        BY <4>1, <4>2, <4>3, <4>4, MaxIsGreatest
      <4>9. top \in Nat /\ top = Max(T)
        BY <4>2, <4>8
      <4>10. a <= top
        BY <4>5, <4>6, <4>8, <4>9
      <4>11. \E j \in Authority : top = last[j]
        BY <4>7, <4>8
      <4>. QED
        BY <4>9, <4>10, <4>11
    <3>. HIDE DEF D, T, top, u
    <3>4. u = [last_committed_round |-> top, last_committed |-> last, dag |-> D,
               records |-> d, certified |-> e, processed_boundaries |-> f]
      BY <3>1, <1>2
    <3>. QED
      BY <3>2, <3>3, <3>4
  <2>. QED
    BY <2>1, <2>2
<1>5. PICK aa, bb, cc :
         /\ u = [last_committed_round |-> aa, last_committed |-> bb, dag |-> cc,
                 records |-> d, certified |-> e, processed_boundaries |-> f]
         /\ LastOK(bb) /\ aa \in Nat /\ a <= aa
         /\ \E m \in Authority : aa <= bb[m]
         /\ \A m \in Authority : b[m] <= bb[m]
         /\ Covers(bb, xs)
  BY <1>4
<1>. HIDE DEF u
<1>6. live \subseteq d
  BY <1>5
<1>. HIDE DEF live, t
<1>7. t = [last_committed_round |-> aa, last_committed |-> bb, dag |-> cc,
           records |-> live, certified |-> e \cap live, processed_boundaries |-> f]
  BY <1>1, <1>5
<1>8. /\ t.last_committed_round = aa /\ t.last_committed = bb /\ t.records = live
      /\ t.processed_boundaries = f
  BY <1>7
<1>9. Fields(t)
  BY <1>7 DEF Fields
<1>10. StateOK(t)
  BY <1>3, <1>5, <1>6, <1>8, <1>9 DEF StateOK
<1>. QED
  BY <1>3, <1>5, <1>8, <1>10 DEF t

-----------------------------------------------------------------------------
(* Shortfin: chains, waves and the invariant.                              *)

(* The chains are ordered by the digests of their blocks.                  *)
LEMMA FirstChain ==
    ASSUME NEW s, s.records \subseteq Header, NEW r, Chains(s, r) # {}
    PROVE  verify_leader_chain(s, r) \in Chains(s, r)
<1>. DEFINE C == Chains(s, r)
<1>1. \A c \in C : /\ c[1] \in Header /\ c[2] \in Header /\ c[3] \in Header
                   /\ c = <<c[1], c[2], c[3]>>
  BY DEF Chains, records_at_round
<1>2. \A h \in Header : digest[h] \in Nat
  BY ShortfinAssumption
<1>3. \A g, h \in Header : digest[g] = digest[h] => g = h
  BY ShortfinAssumption
<1>. HIDE DEF C
<1>4. ASSUME NEW rounds \in SUBSET C, rounds # {}, NEW k \in 1 .. 3
      PROVE  \E c \in rounds : \A d \in rounds : digest[c[k]] <= digest[d[k]]
  <2>. DEFINE T == {digest[c[k]] : c \in rounds}
  <2>1. \A c \in rounds : c[k] \in Header
    BY <1>1
  <2>2. T \in SUBSET Nat /\ T # {}
    BY <1>2, <1>4, <2>1
  <2>3. PICK x \in T : \A y \in T : x <= y
    <3>. HIDE DEF T
    <3>. QED
      BY <2>2, NatMin
  <2>. QED
    BY <2>3
<1>5. PICK c1 \in C : \A d \in C : digest[c1[1]] <= digest[d[1]]
  BY <1>4, SMTT(30) DEF C
<1>. DEFINE S2 == {c \in C : c[1] = c1[1]}
<1>6. PICK c2 \in S2 : \A d \in S2 : digest[c2[2]] <= digest[d[2]]
  <2>1. S2 \in SUBSET C /\ S2 # {} /\ 2 \in 1 .. 3
    BY <1>5
  <2>. HIDE DEF S2
  <2>. QED
    BY <1>4, <2>1
<1>. DEFINE S3 == {c \in S2 : c[2] = c2[2]}
<1>7. PICK c3 \in S3 : \A d \in S3 : digest[c3[3]] <= digest[d[3]]
  <2>1. S3 \in SUBSET C /\ S3 # {} /\ 3 \in 1 .. 3
    BY <1>6
  <2>. HIDE DEF S3
  <2>. QED
    BY <1>4, <2>1
<1>8. c3 \in C /\ c3[1] = c1[1] /\ c3[2] = c2[2]
  OBVIOUS
<1>9. ASSUME NEW d \in C \ {c3} PROVE Before(c3, d)
  <2>1. /\ digest[c3[1]] \in Nat /\ digest[d[1]] \in Nat
        /\ digest[c3[2]] \in Nat /\ digest[d[2]] \in Nat
        /\ digest[c3[3]] \in Nat /\ digest[d[3]] \in Nat
    BY <1>1, <1>2, <1>8
  <2>2. CASE d[1] # c3[1]
    <3>1. digest[d[1]] # digest[c3[1]]
      BY <2>2, <1>1, <1>3, <1>8
    <3>2. digest[c3[1]] <= digest[d[1]]
      BY <1>5, <1>8
    <3>. QED
      BY <2>1, <3>1, <3>2 DEF Before
  <2>3. CASE d[1] = c3[1] /\ d[2] # c3[2]
    <3>1. digest[d[2]] # digest[c3[2]]
      BY <2>3, <1>1, <1>3, <1>8
    <3>2. digest[c3[2]] <= digest[d[2]]
      BY <1>6, <1>8, <2>3
    <3>. QED
      BY <2>1, <2>3, <3>1, <3>2 DEF Before
  <2>4. CASE d[1] = c3[1] /\ d[2] = c3[2]
    <3>1. d[3] # c3[3]
      BY <2>4, <1>1, <1>8
    <3>2. digest[d[3]] # digest[c3[3]]
      BY <3>1, <1>1, <1>3, <1>8
    <3>3. digest[c3[3]] <= digest[d[3]]
      BY <1>7, <1>8, <2>4
    <3>. QED
      BY <2>1, <2>4, <3>2, <3>3 DEF Before
  <2>. QED
    BY <2>2, <2>3, <2>4
<1>. QED
  BY <1>8, <1>9 DEF verify_leader_chain, C

(* What verify_leader_chain guarantees of a chain.                         *)
Linked(r, c) ==
    /\ c \in Header \X Header \X Header
    /\ c[1] \in qc[c[2]] /\ c[2] \in qc[c[3]]
    /\ round[c[1]] = r - 3 /\ author[c[1]] = leader_of[r - 3]

(* What the chain that verify_leader_chain finds guarantees.               *)
LEMMA ChainLinked ==
    ASSUME NEW s, s.records \subseteq Header, NEW r, Chains(s, r) # {}
    PROVE  Linked(r, verify_leader_chain(s, r))
<1>. DEFINE c == verify_leader_chain(s, r)
<1>1. c \in Chains(s, r)
  BY FirstChain
<1>. HIDE DEF c
<1>2. /\ c \in Header \X Header \X Header
      /\ embedded_qc_links(c[2], c[1], r)
      /\ embedded_qc_links(c[3], c[2], r)
      /\ round[c[1]] = r - 3 /\ author[c[1]] = leader_of[r - 3]
  BY <1>1 DEF Chains, records_at_round
<1>. QED
  BY <1>2 DEF Linked, embedded_qc_links, c

(* The blocks of a wave are recorded, below its boundary and above what is *)
(* last committed of their authors.                                        *)
LEMMA WaveBlocks ==
    ASSUME NEW s, NEW r, NEW chain
    PROVE  /\ collect_wave(s, r, chain) \subseteq s.records
           /\ \A h \in collect_wave(s, r, chain) :
                 round[h] < r /\ ~(s.last_committed[author[h]] >= round[h])
  BY DEF collect_wave, Index, Discarded

(* A committed wave rests on a linked chain, its blocks are at or below    *)
(* the last committed of their authors, and its boundary is remembered, or *)
(* so old that no leader of it can be committed again.                     *)
WaveOK(s, w) ==
    /\ Linked(w.boundary, w.chain)
    /\ Covers(s.last_committed, w.blocks)
    /\ \/ w.boundary \in s.processed_boundaries
       \/ w.boundary + gc_depth < s.last_committed_round

(* The state s of an authority fits its output o: nothing is output, and   *)
(* no boundary committed, twice.                                           *)
ShortfinOK(s, o) ==
    /\ StateOK(s)
    /\ o \in Seq(Wave)
    /\ \A i \in 1 .. Len(o) : WaveOK(s, o[i])
    /\ \A i, j \in 1 .. Len(o) : i # j => /\ o[i].blocks \cap o[j].blocks = {}
                                          /\ o[i].boundary # o[j].boundary

(* The inductive invariant: every authority has a state that fits its      *)
(* output.                                                                 *)
ShortfinInv ==
    /\ state = [n \in Node |-> state[n]]
    /\ sequence = [n \in Node |-> sequence[n]]
    /\ \A n \in Node : ShortfinOK(state[n], sequence[n])

(* A committed wave stays so while the state moves on.                     *)
LEMMA WaveOKGrows ==
    ASSUME NEW s, StateOK(s), NEW t, StateOK(t), NEW w \in Wave, WaveOK(s, w),
           \A a \in Authority : s.last_committed[a] <= t.last_committed[a],
           s.last_committed_round <= t.last_committed_round,
           \A r \in s.processed_boundaries :
              r \in t.processed_boundaries \/ r + gc_depth < t.last_committed_round
    PROVE  WaveOK(t, w)
<1>1. Covers(t.last_committed, w.blocks)
  <2>. SUFFICES ASSUME NEW x \in w.blocks
                PROVE  round[x] <= t.last_committed[author[x]]
    BY DEF Covers
  <2>1. x \in Header
    BY DEF Wave
  <2>2. author[x] \in Authority /\ round[x] \in Nat
    BY <2>1, HeaderAssumption
  <2>3. round[x] <= s.last_committed[author[x]]
    BY DEF WaveOK, Covers
  <2>4. s.last_committed[author[x]] \in Nat /\ t.last_committed[author[x]] \in Nat
    BY <2>2 DEF StateOK, LastOK
  <2>. QED
    BY <2>2, <2>3, <2>4
<1>2. \/ w.boundary \in t.processed_boundaries
      \/ w.boundary + gc_depth < t.last_committed_round
  <2>1. w.boundary \in Nat
    BY DEF Wave
  <2>2. s.last_committed_round \in Nat /\ t.last_committed_round \in Nat
    BY DEF StateOK
  <2>. QED
    BY <2>1, <2>2, GcDepthAssumption DEF WaveOK
<1>. QED
  BY <1>1, <1>2 DEF WaveOK

(* A turn that commits nothing.                                            *)
LEMMA IdleTurn ==
    ASSUME NEW s, NEW o, ShortfinOK(s, o), NEW t, StateOK(t),
           t.last_committed = s.last_committed,
           t.last_committed_round = s.last_committed_round,
           \A r \in s.processed_boundaries :
              r \in t.processed_boundaries \/ r + gc_depth < t.last_committed_round
    PROVE  ShortfinOK(t, o)
<1>1. StateOK(s) /\ o \in Seq(Wave)
  BY DEF ShortfinOK
<1>2. \A a \in Authority : s.last_committed[a] <= t.last_committed[a]
  <2>. DEFINE last == s.last_committed
  <2>1. last \in [Authority -> Nat] /\ t.last_committed = last
    BY <1>1 DEF StateOK, LastOK
  <2>. HIDE DEF last
  <2>2. \A a \in Authority : last[a] <= last[a]
    BY <2>1
  <2>. QED
    BY <2>1, <2>2 DEF last
<1>3. s.last_committed_round <= t.last_committed_round
  BY DEF StateOK
<1>4. ASSUME NEW i \in 1 .. Len(o) PROVE WaveOK(t, o[i])
  <2>1. o[i] \in Wave /\ WaveOK(s, o[i])
    BY <1>1 DEF ShortfinOK
  <2>. QED
    BY <1>1, <1>2, <1>3, <2>1, WaveOKGrows
<1>. QED
  BY <1>1, <1>4 DEF ShortfinOK

(* A turn that commits boundary r: its blocks were above the last          *)
(* committed of their authors, so no earlier wave has them, and its        *)
(* boundary is neither remembered nor old.                                 *)
LEMMA CommitTurn ==
    ASSUME NEW s, NEW o, ShortfinOK(s, o), NEW r \in Nat, NEW chain, Linked(r, chain),
           r \notin s.processed_boundaries, r - 3 > s.last_committed_round,
           NEW t, StateOK(t), NEW xs \in SUBSET Header,
           \A h \in xs : ~(s.last_committed[author[h]] >= round[h]),
           \A a \in Authority : s.last_committed[a] <= t.last_committed[a],
           s.last_committed_round <= t.last_committed_round,
           Covers(t.last_committed, xs),
           t.processed_boundaries = s.processed_boundaries \cup {r}
    PROVE  ShortfinOK(t, Append(o, [boundary |-> r, chain |-> chain, blocks |-> xs]))
<1>. DEFINE w == [boundary |-> r, chain |-> chain, blocks |-> xs]
            p == Append(o, w)
<1>1. w \in Wave /\ w.boundary = r /\ w.chain = chain /\ w.blocks = xs
  BY DEF Wave, Linked
<1>2. StateOK(s) /\ o \in Seq(Wave)
  BY DEF ShortfinOK
<1>. HIDE DEF w
<1>3. /\ p \in Seq(Wave) /\ Len(p) = Len(o) + 1 /\ Len(o) \in Nat
      /\ \A i \in 1 .. Len(o) : p[i] = o[i] /\ o[i] \in Wave
      /\ p[Len(o) + 1] = w
  BY <1>1, <1>2
<1>. HIDE DEF p
<1>4. ASSUME NEW i \in 1 .. Len(o)
      PROVE  WaveOK(t, o[i]) /\ o[i].blocks \cap xs = {} /\ o[i].boundary # r
  <2>1. o[i] \in Wave /\ WaveOK(s, o[i])
    BY <1>3 DEF ShortfinOK
  <2>2. WaveOK(t, o[i])
    <3>1. \A q \in s.processed_boundaries : q \in t.processed_boundaries
      OBVIOUS
    <3>. QED
      BY <1>2, <2>1, <3>1, WaveOKGrows
  <2>3. o[i].blocks \cap xs = {}
    <3>. SUFFICES ASSUME NEW x \in o[i].blocks, x \in xs PROVE FALSE
      OBVIOUS
    <3>1. round[x] <= s.last_committed[author[x]]
      BY <2>1 DEF WaveOK, Covers
    <3>2. ~(s.last_committed[author[x]] >= round[x])
      OBVIOUS
    <3>3. round[x] \in Nat /\ s.last_committed[author[x]] \in Nat
      BY <1>2, HeaderAssumption DEF StateOK, LastOK
    <3>. QED
      BY <3>1, <3>2, <3>3
  <2>4. o[i].boundary # r
    <3>. SUFFICES ASSUME o[i].boundary = r PROVE FALSE
      OBVIOUS
    <3>1. r + gc_depth < s.last_committed_round
      BY <2>1 DEF WaveOK
    <3>. QED
      BY <1>2, <3>1, GcDepthAssumption DEF StateOK
  <2>. QED
    BY <2>2, <2>3, <2>4
<1>5. WaveOK(t, w)
  BY <1>1 DEF WaveOK
<1>6. \A i \in 1 .. Len(p) : WaveOK(t, p[i])
  BY <1>3, <1>4, <1>5
<1>7. ASSUME NEW i \in 1 .. Len(p), NEW j \in 1 .. Len(p), i # j
      PROVE  p[i].blocks \cap p[j].blocks = {} /\ p[i].boundary # p[j].boundary
  <2>1. CASE i \in 1 .. Len(o) /\ j \in 1 .. Len(o)
    BY <2>1, <1>3, <1>7 DEF ShortfinOK
  <2>2. CASE i \in 1 .. Len(o) /\ j = Len(o) + 1
    BY <2>2, <1>1, <1>3, <1>4
  <2>3. CASE i = Len(o) + 1 /\ j \in 1 .. Len(o)
    BY <2>3, <1>1, <1>3, <1>4
  <2>. QED
    BY <1>3, <1>7, <2>1, <2>2, <2>3
<1>. QED
  BY <1>3, <1>6, <1>7 DEF ShortfinOK, p, w

(* A boundary is marked as processed, and nothing else changes.            *)
LEMMA ProcessedKeeps ==
    ASSUME NEW s, StateOK(s), NEW r \in Nat
    PROVE  LET u == [s EXCEPT !.processed_boundaries = @ \cup {r}]
           IN /\ StateOK(u) /\ u.last_committed = s.last_committed
              /\ u.last_committed_round = s.last_committed_round
              /\ u.processed_boundaries = s.processed_boundaries \cup {r}
<1>. DEFINE u == [s EXCEPT !.processed_boundaries = @ \cup {r}]
<1>1. PICK a, b, c, d, e, f :
         s = [last_committed_round |-> a, last_committed |-> b, dag |-> c,
              records |-> d, certified |-> e, processed_boundaries |-> f]
  BY DEF StateOK, Fields
<1>2. /\ s.last_committed_round = a /\ s.last_committed = b /\ s.records = d
      /\ s.processed_boundaries = f
  BY <1>1
<1>3. u = [last_committed_round |-> a, last_committed |-> b, dag |-> c, records |-> d,
           certified |-> e, processed_boundaries |-> f \cup {r}]
  BY <1>1
<1>. HIDE DEF u
<1>4. /\ u.last_committed_round = a /\ u.last_committed = b /\ u.records = d
      /\ u.processed_boundaries = f \cup {r}
  BY <1>3
<1>5. Fields(u)
  BY <1>3 DEF Fields
<1>6. StateOK(u)
  BY <1>2, <1>4, <1>5 DEF StateOK
<1>. QED
  BY <1>2, <1>4, <1>6 DEF u

(* Every turn of the loop.                                                 *)
LEMMA TurnKeeps ==
    ASSUME ShortfinInv, NEW n \in Node, NEW h \in Header, NEW has_votes \in BOOLEAN,
           ReceiveRecord(n, h, has_votes)
    PROVE  ShortfinInv'
<1>. DEFINE o == sequence[n]
            z == state[n]
            b == Begin(z)
            s == insert_record(b, h, has_votes)
            r == round[h]
<1>1. ShortfinOK(z, o)
  BY DEF ShortfinInv
<1>2. r \in Nat
  BY HeaderAssumption
<1>3. /\ StateOK(b) /\ b.last_committed = z.last_committed
      /\ b.last_committed_round = z.last_committed_round
      /\ b.processed_boundaries =
           {q \in z.processed_boundaries : q + gc_depth >= z.last_committed_round}
  BY <1>1, BeginKeeps DEF ShortfinOK
<1>4. ShortfinOK(b, o)
  <2>1. \A q \in z.processed_boundaries :
           q \in b.processed_boundaries \/ ~(q + gc_depth >= z.last_committed_round)
    BY <1>3
  <2>2. z.processed_boundaries \subseteq Nat /\ z.last_committed_round \in Nat
    BY <1>1 DEF ShortfinOK, StateOK
  <2>3. \A q \in z.processed_boundaries :
           q \in b.processed_boundaries \/ q + gc_depth < b.last_committed_round
    BY <1>3, <2>1, <2>2, GcDepthAssumption
  <2>. HIDE DEF b, z, o
  <2>. QED
    BY <1>1, <1>3, <2>3, IdleTurn
<1>5. /\ StateOK(s) /\ s.last_committed = b.last_committed
      /\ s.last_committed_round = b.last_committed_round
      /\ s.processed_boundaries = b.processed_boundaries
  <2>. HIDE DEF b
  <2>. QED
    BY <1>3, InsertKeeps
<1>6. ShortfinOK(s, o)
  <2>1. \A q \in b.processed_boundaries :
           q \in s.processed_boundaries \/ q + gc_depth < s.last_committed_round
    BY <1>5
  <2>. HIDE DEF b, s, o
  <2>. QED
    BY <1>4, <1>5, <2>1, IdleTurn
<1>7. \E t, p : /\ state' = [state EXCEPT ![n] = t]
                /\ sequence' = [sequence EXCEPT ![n] = p]
                /\ ShortfinOK(t, p)
  <2>1. CASE state' = [state EXCEPT ![n] = b] /\ UNCHANGED sequence
    <3>1. sequence' = [sequence EXCEPT ![n] = o]
      BY <2>1 DEF ShortfinInv
    <3>. QED
      BY <2>1, <3>1, <1>4
  <2>2. CASE state' = [state EXCEPT ![n] = s] /\ UNCHANGED sequence
    <3>1. sequence' = [sequence EXCEPT ![n] = o]
      BY <2>2 DEF ShortfinInv
    <3>. QED
      BY <2>2, <3>1, <1>6
  <2>3. CASE Decides(n, s, r) /\ Commit(n, s, r)
    <3>. DEFINE chain == verify_leader_chain(s, r)
                u == [s EXCEPT !.processed_boundaries = @ \cup {r}]
                xs == collect_wave(u, r, chain)
                t == Retained(u, xs)
                w == [boundary |-> r, chain |-> chain, blocks |-> xs]
                p == Append(o, w)
    <3>1. state' = [state EXCEPT ![n] = t] /\ sequence' = [sequence EXCEPT ![n] = p]
      BY <2>3 DEF Commit
    <3>2. /\ Chains(s, r) # {} /\ r \notin s.processed_boundaries
          /\ r - 3 > s.last_committed_round
      BY <2>3 DEF Decides
    <3>3. /\ StateOK(u) /\ u.last_committed = s.last_committed
          /\ u.last_committed_round = s.last_committed_round
          /\ u.processed_boundaries = s.processed_boundaries \cup {r}
      <4>. HIDE DEF s, r
      <4>. QED
        BY <1>2, <1>5, ProcessedKeeps
    <3>4. s.records \subseteq Header /\ u.records \subseteq Header
      BY <1>5, <3>3 DEF StateOK
    <3>5. Linked(r, chain)
      <4>. HIDE DEF s, r
      <4>. QED
        BY <3>2, <3>4, ChainLinked
    <3>6. /\ xs \in SUBSET Header
          /\ \A x \in xs : round[x] < r
          /\ \A x \in xs : ~(s.last_committed[author[x]] >= round[x])
      <4>. HIDE DEF s, r, u, chain
      <4>1. /\ xs \subseteq u.records
            /\ \A x \in xs : round[x] < r /\ ~(u.last_committed[author[x]] >= round[x])
        BY WaveBlocks
      <4>. HIDE DEF xs
      <4>. QED
        BY <4>1, <3>3, <3>4
    <3>7. /\ StateOK(t)
          /\ \A a \in Authority : u.last_committed[a] <= t.last_committed[a]
          /\ Covers(t.last_committed, xs)
          /\ u.last_committed_round <= t.last_committed_round
          /\ t.processed_boundaries = u.processed_boundaries
      <4>. HIDE DEF s, r, u, chain, xs
      <4>. QED
        BY <1>2, <3>3, <3>6, RetainedKeeps
    <3>. HIDE DEF s, r, u, chain, xs, t, o
    <3>8. ShortfinOK(t, p)
      BY <1>2, <1>6, <3>2, <3>3, <3>5, <3>6, <3>7, CommitTurn
    <3>. HIDE DEF p
    <3>. QED
      BY <3>1, <3>8
  <2>. QED
    BY <2>1, <2>2, <2>3 DEF ReceiveRecord
<1>8. PICK t, p : /\ state' = [state EXCEPT ![n] = t]
                  /\ sequence' = [sequence EXCEPT ![n] = p]
                  /\ ShortfinOK(t, p)
  BY <1>7
<1>9. /\ state' = [m \in Node |-> state'[m]] /\ sequence' = [m \in Node |-> sequence'[m]]
      /\ state'[n] = t /\ sequence'[n] = p
      /\ \A m \in Node : m # n => state'[m] = state[m] /\ sequence'[m] = sequence[m]
  <2>1. DOMAIN state = Node /\ DOMAIN sequence = Node
    BY DEF ShortfinInv
  <2>. QED
    BY <1>8, <2>1
<1>10. \A m \in Node : ShortfinOK(state'[m], sequence'[m])
  BY <1>8, <1>9 DEF ShortfinInv
<1>. QED
  BY <1>9, <1>10 DEF ShortfinInv

(* A committee has members.                                                *)
LEMMA SomeAuthority == Authority # {}
<1>1. SUFFICES ASSUME Authority = {} PROVE FALSE
  OBVIOUS
<1>2. Byzantine = {} /\ total_votes = 0
  BY <1>1, ByzantineAssumption, WeightAssumption DEF total_votes
<1>3. validity_threshold = 0
  BY <1>2, Thresholds
<1>. QED
  BY <1>2, <1>3, FaultAssumption, WeightAssumption

(* The task starts with nothing committed.                                 *)
LEMMA ShortfinInit == Init => ShortfinInv
<1>. SUFFICES ASSUME Init PROVE ShortfinInv
  OBVIOUS
<1>1. StateOK(NewShortfin)
  <2>. DEFINE zero == [a \in Authority |-> 0]
  <2>1. /\ NewState.last_committed_round = 0 /\ NewState.last_committed = zero
        /\ NewState.dag = Genesis
    BY DEF NewState
  <2>2. LastOK(zero) /\ \E a \in Authority : 0 <= zero[a]
    BY SomeAuthority DEF LastOK
  <2>. HIDE DEF zero
  <2>3. NewShortfin = [last_committed_round |-> 0, last_committed |-> zero,
                       dag |-> Genesis, records |-> Genesis, certified |-> {},
                       processed_boundaries |-> {}]
    BY <2>1 DEF NewShortfin
  <2>4. Fields(NewShortfin)
    BY <2>3 DEF Fields
  <2>5. /\ NewShortfin.last_committed_round = 0 /\ NewShortfin.last_committed = zero
        /\ NewShortfin.records = Genesis /\ NewShortfin.processed_boundaries = {}
    BY <2>3
  <2>. QED
    BY <2>2, <2>4, <2>5, GenesisAssumption DEF StateOK
<1>2. ShortfinOK(NewShortfin, <<>>)
  BY <1>1 DEF ShortfinOK
<1>. QED
  BY <1>2 DEF Init, ShortfinInv

(* Every step keeps the invariant.                                         *)
LEMMA ShortfinStep == ShortfinInv /\ [Next]_vars => ShortfinInv'
<1>1. ShortfinInv /\ UNCHANGED vars => ShortfinInv'
  BY DEF vars, ShortfinInv
<1>2. ShortfinInv /\ Next => ShortfinInv'
  BY TurnKeeps DEF Next
<1>. QED
  BY <1>1, <1>2

(* The inductive invariant of the Shortfin task (Consensus::run of         *)
(* consensus/src/shortfin.rs), for every committee, DAG and order of       *)
(* delivery.                                                               *)
THEOREM ShortfinInvariance == Spec => []ShortfinInv
  BY ShortfinInit, ShortfinStep, PTL DEF Spec

(* The invariant, for a wave of the sequence.                              *)
LEMMA WavesOK ==
    ASSUME ShortfinInv, NEW n \in Node, NEW w \in Waves(n)
    PROVE  w \in Wave /\ WaveOK(state[n], w)
<1>1. ShortfinOK(state[n], sequence[n])
  BY DEF ShortfinInv
<1>2. PICK i \in DOMAIN sequence[n] : w = sequence[n][i]
  BY DEF Waves
<1>3. sequence[n] \in Seq(Wave)
  BY <1>1 DEF ShortfinOK
<1>4. i \in 1 .. Len(sequence[n])
  BY <1>2, <1>3
<1>. QED
  BY <1>1, <1>2, <1>3, <1>4 DEF ShortfinOK

(* What the QCs of a linked chain say of its first two blocks.             *)
LEMMA LinkedBlocks ==
    ASSUME NEW r \in Nat, NEW c, Linked(r, c)
    PROVE  /\ c[1] \in Certified /\ round[c[1]] = r - 3 /\ author[c[1]] = leader_of[r - 3]
           /\ c[2] \in Certified /\ round[c[2]] = r - 2 /\ author[c[2]] = leader_of[r - 3]
<1>1. /\ c[1] \in Header /\ c[2] \in Header /\ c[3] \in Header
      /\ c[1] \in qc[c[2]] /\ c[2] \in qc[c[3]]
      /\ round[c[1]] = r - 3 /\ author[c[1]] = leader_of[r - 3]
  BY DEF Linked
<1>2. qc \in [Header -> SUBSET Certified]
  BY ShortfinAssumption
<1>3. c[1] \in Certified /\ c[2] \in Certified
  BY <1>1, <1>2
<1>4. author[c[1]] = author[c[2]] /\ round[c[1]] + 1 = round[c[2]]
  BY <1>1, ShortfinAssumption
<1>5. round[c[1]] \in Int /\ round[c[2]] \in Int
  BY <1>1, HeaderAssumption
<1>. QED
  BY <1>1, <1>3, <1>4, <1>5

(* Whatever else the leader of a wave signed, the two blocks of the chain  *)
(* that embedded_qc_links holds to a QC are the ones a quorum voted for.   *)
THEOREM CertifiedChainHolds == Spec => []CertifiedChain
<1>1. ShortfinInv => CertifiedChain
  <2>. SUFFICES ASSUME ShortfinInv, NEW n \in Node, NEW w \in Waves(n)
                PROVE  w.chain[1] \in Certified /\ w.chain[2] \in Certified
    BY DEF CertifiedChain
  <2>1. Linked(w.boundary, w.chain) /\ w.boundary \in Nat
    BY WavesOK DEF WaveOK, Wave
  <2>. QED
    BY <2>1, LinkedBlocks
<1>. QED
  BY <1>1, ShortfinInvariance, PTL

(* Two authorities that commit a boundary commit the same leader, with the *)
(* same second block.                                                      *)
BoundaryAgreement ==
    \A m, n \in Node : \A v \in Waves(m), w \in Waves(n) :
       v.boundary = w.boundary => /\ v.chain[1] = w.chain[1]
                                  /\ v.chain[2] = w.chain[2]

(* verify_leader_chain picks the first of several chains by digest, from   *)
(* the records an authority happens to have; the leader it commits is      *)
(* nevertheless the same everywhere.                                       *)
THEOREM BoundaryAgreementHolds == Spec => []BoundaryAgreement
<1>1. ShortfinInv => BoundaryAgreement
  <2>. SUFFICES ASSUME ShortfinInv, NEW m \in Node, NEW n \in Node,
                       NEW v \in Waves(m), NEW w \in Waves(n), v.boundary = w.boundary
                PROVE  v.chain[1] = w.chain[1] /\ v.chain[2] = w.chain[2]
    BY DEF BoundaryAgreement
  <2>1. /\ Linked(v.boundary, v.chain) /\ v.boundary \in Nat
        /\ Linked(v.boundary, w.chain)
    BY WavesOK DEF WaveOK, Wave
  <2>2. \A g, h \in Certified : slot(g) = slot(h) => g = h
    BY ShortfinAssumption DEF Conflicting
  <2>3. /\ v.chain[1] \in Certified /\ w.chain[1] \in Certified
        /\ slot(v.chain[1]) = slot(w.chain[1])
    BY <2>1, LinkedBlocks DEF slot
  <2>4. /\ v.chain[2] \in Certified /\ w.chain[2] \in Certified
        /\ slot(v.chain[2]) = slot(w.chain[2])
    BY <2>1, LinkedBlocks DEF slot
  <2>. QED
    BY <2>2, <2>3, <2>4
<1>. QED
  BY <1>1, ShortfinInvariance, PTL

(* No authority commits a boundary twice.                                  *)
BoundaryOnce ==
    \A n \in Node : \A i, j \in DOMAIN sequence[n] :
       i # j => sequence[n][i].boundary # sequence[n][j].boundary

(* What the invariant says of two waves of an authority.                   *)
LEMMA WavesApart == ShortfinInv => OutputOnce /\ BoundaryOnce
<1>. SUFFICES ASSUME ShortfinInv, NEW n \in Node, NEW i \in DOMAIN sequence[n],
                     NEW j \in DOMAIN sequence[n], i # j
              PROVE  /\ sequence[n][i].blocks \cap sequence[n][j].blocks = {}
                     /\ sequence[n][i].boundary # sequence[n][j].boundary
  BY DEF OutputOnce, BoundaryOnce
<1>1. ShortfinOK(state[n], sequence[n])
  BY DEF ShortfinInv
<1>2. i \in 1 .. Len(sequence[n]) /\ j \in 1 .. Len(sequence[n])
  BY <1>1 DEF ShortfinOK
<1>. QED
  BY <1>1, <1>2 DEF ShortfinOK

(* collect_wave never returns a block twice, although a block stays in     *)
(* records, and reachable, after its wave.                                 *)
THEOREM ShortfinOutputOnceHolds == Spec => []OutputOnce
  BY WavesApart, ShortfinInvariance, PTL

(* processed_boundaries is trimmed by the gc depth; a boundary that is     *)
(* forgotten is too old for the guard on last_committed_round to let it in *)
(* again.                                                                  *)
THEOREM BoundaryOnceHolds == Spec => []BoundaryOnce
  BY WavesApart, ShortfinInvariance, PTL

-----------------------------------------------------------------------------
(* The run: Shortfin and Mahi-Mahi.                                        *)

(* The committee of M is that of the module: its thresholds and faults.    *)
LEMMA SameThresholds ==
    /\ Weight[Byzantine] < M!validity_threshold
    /\ M!total_votes <= 2147483647
  BY FaultAssumption, StakeFitsU32
     DEF validity_threshold, total_votes, M!validity_threshold, M!total_votes

(* The committee of M: its stake.                                          *)
LEMMA SameWeight ==
    /\ Weight \in [SUBSET Authority -> Nat]
    /\ Weight[{}] = 0
    /\ \A V, T, U \in SUBSET Authority :
          V \cap T = {} /\ U = V \cup T => Weight[U] = Weight[V] + Weight[T]
  BY WeightAssumption

(* The theorems of MahiProofs for the DAGs of the instance M: the          *)
(* invariant holds at the start,                                           *)
LEMMA MahiStart == M!Init => M!MahiInv
<1>1. Weight \in [SUBSET Authority -> Nat]
  BY SameWeight
<1>2. Weight[{}] = 0
  BY SameWeight
<1>3. \A V, T, U \in SUBSET Authority :
         V \cap T = {} /\ U = V \cup T => Weight[U] = Weight[V] + Weight[T]
  BY SameWeight
<1>. QED
  BY <1>1, <1>2, <1>3, M!MahiInvInit, ByzantineAssumption, SameThresholds,
     WorldsWellFormed, SMT

(* it is kept by every step,                                               *)
LEMMA MahiTurn == M!MahiInv /\ [M!Next]_(M!vars) => M!MahiInv'
<1>1. Weight \in [SUBSET Authority -> Nat]
  BY SameWeight
<1>2. Weight[{}] = 0
  BY SameWeight
<1>3. \A V, T, U \in SUBSET Authority :
         V \cap T = {} /\ U = V \cup T => Weight[U] = Weight[V] + Weight[T]
  BY SameWeight
<1>. QED
  BY <1>1, <1>2, <1>3, M!MahiInvStep, ByzantineAssumption, SameThresholds,
     WorldsWellFormed, SMT

(* and it implies what the run checks.                                     *)
LEMMA MahiSafe == M!MahiInv => M!Agreement /\ M!NoPanic /\ M!OutputOnce
<1>1. Weight \in [SUBSET Authority -> Nat]
  BY SameWeight
<1>2. Weight[{}] = 0
  BY SameWeight
<1>3. \A V, T, U \in SUBSET Authority :
         V \cap T = {} /\ U = V \cup T => Weight[U] = Weight[V] + Weight[T]
  BY SameWeight
<1>. QED
  BY <1>1, <1>2, <1>3, M!MahiConsequences, ByzantineAssumption, SameThresholds,
     WorldsWellFormed, SMT

(* The invariant of the Mahi-Mahi committer holds throughout the run.      *)
LEMMA MahiAlways == MCSpec => []M!MahiInv
<1>1. MCInit => M!MahiInv
  BY MahiStart DEF MCInit
<1>2. M!MahiInv /\ [MCNext]_<<protocol, vars, mahi_vars, bullshark_vars>> => M!MahiInv'
  BY MahiTurn DEF MCNext, mahi_vars, M!vars
<1>. QED
  BY <1>1, <1>2, PTL DEF MCSpec

(* In every behaviour of run protocols what an authority has decided from  *)
(* a part of the DAG is what the whole DAG decides (direct_decision,       *)
(* indirect_decision).                                                     *)
THEOREM MahiAgreementInRun == MCSpec => []MahiAgreement
<1>1. M!MahiInv => MahiAgreement
  BY MahiSafe DEF MahiAgreement
<1>. QED
  BY <1>1, MahiAlways, PTL

(* The assertion "Mahi-Mahi safety violation" (single_commit) never fails  *)
(* in the run.                                                             *)
THEOREM MahiNoPanicInRun == MCSpec => []MahiNoPanic
<1>1. M!MahiInv => MahiNoPanic
  BY MahiSafe DEF MahiNoPanic
<1>. QED
  BY <1>1, MahiAlways, PTL

(* The invariant of the Shortfin task holds throughout the run.            *)
LEMMA ShortfinAlways == MCSpec => []ShortfinInv
<1>1. MCInit => ShortfinInv
  BY ShortfinInit DEF MCInit
<1>2. ShortfinInv /\ [MCNext]_<<protocol, vars, mahi_vars, bullshark_vars>> => ShortfinInv'
  BY ShortfinStep DEF MCNext, vars
<1>. QED
  BY <1>1, <1>2, PTL DEF MCSpec

(* Neither Shortfin nor Mahi-Mahi outputs a block twice (collect_wave,     *)
(* linearize).                                                             *)
THEOREM UncertifiedOutputOnceHolds == MCSpec => []UncertifiedOutputOnce
<1>1. ShortfinInv /\ M!MahiInv => UncertifiedOutputOnce
  BY WavesApart, MahiSafe DEF UncertifiedOutputOnce
<1>. QED
  BY <1>1, MahiAlways, ShortfinAlways, PTL

-----------------------------------------------------------------------------
(* The run: Bullshark.                                                     *)

(* The committee of the instance P is finite.                              *)
LEMMA ThreeFinite == \A V \in SUBSET Three : IsFiniteSet(V)
<1>1. IsFiniteSet({}) /\ IsFiniteSet({"a"}) /\ IsFiniteSet({"a", "b"}) /\ IsFiniteSet({"a", "b", "c"})
  <2>1. /\ IsFiniteSet({"a"})
    BY FS_Singleton
  <2>2. IsFiniteSet({"a"} \cup {"b"})
    BY <2>1, FS_AddElement
  <2>3. IsFiniteSet(({"a"} \cup {"b"}) \cup {"c"})
    BY <2>2, FS_AddElement
  <2>4. /\ {"a"} \cup {"b"} = {"a", "b"}
        /\ ({"a"} \cup {"b"}) \cup {"c"} = {"a", "b", "c"}
    OBVIOUS
  <2>. QED
    BY <2>1, <2>2, <2>3, <2>4, FS_EmptySet
<1>. QED
  BY <1>1, FS_Subset DEF Three

(* The stake of the instance P is additive.                                *)
LEMMA ThreeStakeAdds ==
    /\ ThreeStake \in [SUBSET Three -> Nat]
    /\ ThreeStake[{}] = 0
    /\ \A V, T, U \in SUBSET Three :
          V \cap T = {} /\ U = V \cup T => ThreeStake[U] = ThreeStake[V] + ThreeStake[T]
<1>1. \A V \in SUBSET Three : Cardinality(V) \in Nat
  BY ThreeFinite, FS_CardinalityType
<1>2. \A V \in SUBSET Three : V \cap {"b"} \in SUBSET Three
  OBVIOUS
<1>3. \A V \in SUBSET Three :
         ThreeStake[V] = Cardinality(V) + Cardinality(V \cap {"b"})
  BY DEF ThreeStake
<1>4. ThreeStake \in [SUBSET Three -> Nat]
  BY <1>1, <1>2 DEF ThreeStake
<1>5. ThreeStake[{}] = 0
  <2>1. {} \cap {"b"} = {} /\ Cardinality({}) = 0
    BY FS_EmptySet
  <2>. QED
    BY <1>3, <2>1
<1>6. ASSUME NEW V \in SUBSET Three, NEW T \in SUBSET Three, NEW U \in SUBSET Three,
             V \cap T = {}, U = V \cup T
      PROVE  ThreeStake[U] = ThreeStake[V] + ThreeStake[T]
  <2>1. Cardinality(U) = Cardinality(V) + Cardinality(T)
    <3>1. Cardinality(V \cup T) = Cardinality(V) + Cardinality(T) - Cardinality(V \cap T)
      BY ThreeFinite, FS_Union
    <3>2. Cardinality(V) \in Nat /\ Cardinality(T) \in Nat /\ Cardinality({}) = 0
      BY <1>1, FS_EmptySet
    <3>3. V \cup T = U /\ V \cap T = {}
      BY <1>6
    <3>4. Cardinality(U) = Cardinality(V) + Cardinality(T) - Cardinality({})
      BY <3>1, <3>3
    <3>. QED
      BY <3>2, <3>4
  <2>2. Cardinality(U \cap {"b"}) = Cardinality(V \cap {"b"}) + Cardinality(T \cap {"b"})
    <3>. DEFINE v == V \cap {"b"}
                t == T \cap {"b"}
    <3>1. /\ v \in SUBSET Three /\ t \in SUBSET Three
          /\ v \cap t = {} /\ U \cap {"b"} = v \cup t
      BY <1>6
    <3>. HIDE DEF v, t
    <3>2. Cardinality(v \cup t) = Cardinality(v) + Cardinality(t) - Cardinality(v \cap t)
      BY <3>1, ThreeFinite, FS_Union
    <3>3. Cardinality(v) \in Nat /\ Cardinality(t) \in Nat /\ Cardinality({}) = 0
      BY <3>1, <1>1, FS_EmptySet
    <3>4. Cardinality(U \cap {"b"}) = Cardinality(v) + Cardinality(t) - Cardinality({})
      BY <3>1, <3>2
    <3>5. Cardinality(U \cap {"b"}) = Cardinality(v) + Cardinality(t)
      BY <3>3, <3>4
    <3>. QED
      BY <3>5 DEF v, t
  <2>. HIDE DEF ThreeStake
  <2>3. /\ Cardinality(V) \in Nat /\ Cardinality(T) \in Nat
        /\ Cardinality(V \cap {"b"}) \in Nat /\ Cardinality(T \cap {"b"}) \in Nat
    BY <1>1, <1>2
  <2>. QED
    BY <1>3, <2>1, <2>2, <2>3
<1>. QED
  BY <1>4, <1>5, <1>6

(* The stake of each of its authorities.                                   *)
LEMMA ThreeStakes ==
    ThreeStake[{"a"}] = 1 /\ ThreeStake[{"b"}] = 2 /\ ThreeStake[{"c"}] = 1 /\ ThreeStake[Three] = 4
<1>1. \A V \in SUBSET Three :
         ThreeStake[V] = Cardinality(V) + Cardinality(V \cap {"b"})
  BY DEF ThreeStake
<1>2. Cardinality({}) = 0 /\ Cardinality({"a"}) = 1 /\ Cardinality({"b"}) = 1 /\ Cardinality({"c"}) = 1
  BY FS_EmptySet, FS_Singleton
<1>3. {"a"} \in SUBSET Three /\ {"b"} \in SUBSET Three /\ {"c"} \in SUBSET Three
  BY DEF Three
<1>4. {"a"} \cap {"b"} = {} /\ {"b"} \cap {"b"} = {"b"} /\ {"c"} \cap {"b"} = {}
  OBVIOUS
<1>5. ThreeStake[{"a"}] = 1 /\ ThreeStake[{"b"}] = 2 /\ ThreeStake[{"c"}] = 1
  BY <1>1, <1>2, <1>3, <1>4
<1>6. /\ {"a"} \cap {"b"} = {} /\ {"a", "b"} = {"a"} \cup {"b"}
      /\ {"a", "b"} \cap {"c"} = {} /\ Three = {"a", "b"} \cup {"c"}
      /\ {"a", "b"} \in SUBSET Three /\ Three \in SUBSET Three
  BY DEF Three
<1>7. ThreeStake[{"a", "b"}] = 3
  BY <1>3, <1>5, <1>6, ThreeStakeAdds
<1>8. ThreeStake[Three] = ThreeStake[{"a", "b"}] + ThreeStake[{"c"}]
  BY <1>3, <1>6, ThreeStakeAdds
<1>. QED
  BY <1>5, <1>7, <1>8

(* What the theorems of BullsharkProofs assume of the committee: in P no   *)
(* authority is a quorum alone.                                            *)
LEMMA ThreeCommittee ==
    /\ {"c"} \subseteq Three
    /\ ThreeStake[{"c"}] < P!validity_threshold
    /\ P!total_votes <= 2147483647
    /\ P!ConstantsOK
    /\ P!NoSoleQuorum
<1>1. P!total_votes = 4
  BY ThreeStakes DEF P!total_votes
<1>2. P!validity_threshold = 2 /\ P!quorum_threshold = 3
  BY <1>1 DEF P!validity_threshold, P!quorum_threshold
<1>3. \A x \in Three : x = "a" \/ x = "b" \/ x = "c"
  BY DEF Three
<1>4. P!NoSoleQuorum
  BY <1>2, <1>3, ThreeStakes DEF P!NoSoleQuorum, P!HasQuorum
<1>. QED
  BY <1>1, <1>2, <1>4, ThreeStakes DEF P!ConstantsOK, Three

(* The theorems of BullsharkProofs for the instance P: the invariants hold *)
(* at the start,                                                           *)
LEMMA BullsharkStart == P!Init => P!Inv /\ P!OnceInv
<1>1. ThreeStake \in [SUBSET Three -> Nat]
  BY ThreeStakeAdds
<1>2. ThreeStake[{}] = 0
  BY ThreeStakeAdds
<1>3. \A V, T, U \in SUBSET Three :
         V \cap T = {} /\ U = V \cup T => ThreeStake[U] = ThreeStake[V] + ThreeStake[T]
  BY ThreeStakeAdds
<1>4. P!Init => P!Inv
  BY <1>1, <1>2, <1>3, P!InvInit, ThreeCommittee, SMT
<1>5. P!Init => P!OnceInv
  BY <1>1, <1>2, <1>3, P!OnceInit, ThreeCommittee, SMT
<1>. QED
  BY <1>4, <1>5

(* they are kept by every step,                                            *)
LEMMA BullsharkStep ==
    P!Inv /\ P!OnceInv /\ [P!Next]_(P!vars) => P!Inv' /\ P!OnceInv'
<1>1. ThreeStake \in [SUBSET Three -> Nat]
  BY ThreeStakeAdds
<1>2. ThreeStake[{}] = 0
  BY ThreeStakeAdds
<1>3. \A V, T, U \in SUBSET Three :
         V \cap T = {} /\ U = V \cup T => ThreeStake[U] = ThreeStake[V] + ThreeStake[T]
  BY ThreeStakeAdds
<1>4. P!Inv /\ [P!Next]_(P!vars) => P!Inv'
  BY <1>1, <1>2, <1>3, P!InvStep, ThreeCommittee, SMT
<1>5. P!Inv /\ P!OnceInv /\ [P!Next]_(P!vars) => P!OnceInv'
  BY <1>1, <1>2, <1>3, P!OnceStep, ThreeCommittee, SMT
<1>. QED
  BY <1>4, <1>5

(* and they imply what the run checks.                                     *)
LEMMA BullsharkSafe == P!Inv /\ P!OnceInv => BullsharkProposals
<1>1. ThreeStake \in [SUBSET Three -> Nat]
  BY ThreeStakeAdds
<1>2. ThreeStake[{}] = 0
  BY ThreeStakeAdds
<1>3. \A V, T, U \in SUBSET Three :
         V \cap T = {} /\ U = V \cup T => ThreeStake[U] = ThreeStake[V] + ThreeStake[T]
  BY ThreeStakeAdds
<1>4. ASSUME P!Inv, P!OnceInv PROVE P!BullsharkProposals
  <2>1. ThreeStake[{"c"}] < P!validity_threshold /\ P!total_votes <= 2147483647
    BY ThreeCommittee
  <2>2. {"c"} \subseteq Three
    BY ThreeCommittee
  <2>3. P!Inv /\ P!OnceInv
    BY <1>4
  <2>. HIDE DEF ThreeStake, Three
  <2>. QED
    BY <1>1, <1>2, <1>3, <2>1, <2>2, <2>3, P!ProposalsSafe, SMT
<1>. QED
  BY <1>4 DEF BullsharkProposals

(* In every behaviour of run protocols a Bullshark proposer signs headers  *)
(* with a stored quorum of parents only, one per round, after the leader   *)
(* or its votes (Proposer::run, CertificatesVecAggregator::append).        *)
THEOREM BullsharkProposalsInRun == MCSpec => []BullsharkProposals
<1>1. MCInit => P!Inv /\ P!OnceInv
  BY BullsharkStart DEF MCInit
<1>2. P!Inv /\ P!OnceInv /\ [MCNext]_<<protocol, vars, mahi_vars, bullshark_vars>>
        => P!Inv' /\ P!OnceInv'
  BY BullsharkStep DEF MCNext, bullshark_vars, P!vars
<1>. QED
  BY <1>1, <1>2, BullsharkSafe, PTL DEF MCSpec

=============================================================================
