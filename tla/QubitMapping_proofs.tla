------------------------- MODULE QubitMapping_proofs -------------------------
(***************************************************************************)
(* build_global_mapping is correct for every admitted size: the loops      *)
(* write what the closed form of QubitLayout says, and fill the vector.    *)
(***************************************************************************)
EXTENDS QubitMapping, WellFoundedInduction, TLAPS

---------------------------------------------------------------------------
(* The division of the qubits among the ranks *)

(***************************************************************************)
(* Every nonempty set of natural numbers has a least element: the form of  *)
(* induction that the proofs below use.                                    *)
(***************************************************************************)
LEMMA LeastNatural ==
  ASSUME NEW S \in SUBSET Nat, S # {}
  PROVE  \E n \in S : \A m \in S : n <= m
<1>1. IsWellFoundedOn(OpToRel(<, Nat), Nat)
  BY NatLessThanWellFounded
<1>2. PICK n \in S : \A m \in S : ~ (<<m, n>> \in OpToRel(<, Nat))
  BY <1>1, WFMin
<1>3. \A m \in S : ~ (m < n)
  BY <1>2 DEF OpToRel
<1> QED
  BY <1>3

\* parse_cli admits these sizes only.
Admitted(qubits, ranks) ==
  qubits \in Nat \ {0} /\ ranks \in Nat \ {0} /\ ranks <= qubits

\* What division gives: the quotient, the remainder and the bounds of both.
LEMMA Division ==
  ASSUME NEW qubits, NEW ranks, Admitted(qubits, ranks)
  PROVE  /\ qubits \div ranks \in Nat
         /\ qubits % ranks \in 0 .. ranks - 1
         /\ qubits = ranks * (qubits \div ranks) + (qubits % ranks)
         /\ qubits \div ranks >= 1
<1>1. /\ qubits \div ranks \in Int
      /\ qubits % ranks \in 0 .. ranks - 1
      /\ qubits = ranks * (qubits \div ranks) + (qubits % ranks)
  BY DEF Admitted
<1>2. qubits \div ranks >= 1
  <2> SUFFICES ASSUME qubits \div ranks <= 0 PROVE FALSE
    BY <1>1
  <2> DEFINE b == qubits \div ranks
  <2>1. ranks * b <= 0
    <3>1. b \in Int /\ b <= 0 /\ ranks \in Nat /\ ranks >= 1
      BY <1>1 DEF Admitted
    <3> HIDE DEF b
    <3> QED
      BY <3>1
  <2> QED
    BY <1>1, <2>1 DEF Admitted
<1> QED
  BY <1>1, <1>2

(***************************************************************************)
(* The ranks divide 0 .. qubits - 1 into consecutive intervals: the first   *)
(* begins at 0, each next one where the last ends, and none is empty.      *)
(***************************************************************************)
LEMMA Intervals ==
  ASSUME NEW qubits, NEW ranks, Admitted(qubits, ranks)
  PROVE  /\ FirstOf(qubits, ranks, 0) = 0
         /\ FirstOf(qubits, ranks, ranks) = qubits
         /\ \A r \in 0 .. ranks :
              FirstOf(qubits, ranks, r) \in Nat
         /\ \A r \in 0 .. ranks - 1 :
              /\ Partition(qubits, ranks, r) \in Nat \ {0}
              /\ FirstOf(qubits, ranks, r + 1)
                   = FirstOf(qubits, ranks, r) + Partition(qubits, ranks, r)
<1> DEFINE b == qubits \div ranks
           m == qubits % ranks
<1>1. b \in Nat /\ m \in 0 .. ranks - 1 /\ qubits = ranks * b + m /\ b >= 1
  BY Division, Zenon
<1>2. ranks \in Nat \ {0}
  BY DEF Admitted
<1>3. /\ \A r \in Nat : FirstOf(qubits, ranks, r) = r * b + IF r < m THEN r ELSE m
      /\ \A r \in Nat : Partition(qubits, ranks, r) = b + IF r < m THEN 1 ELSE 0
  BY DEF FirstOf, Partition
<1> HIDE DEF b, m
<1>4. FirstOf(qubits, ranks, 0) = 0
  <2>1. FirstOf(qubits, ranks, 0) = 0 * b + IF 0 < m THEN 0 ELSE m
    BY <1>3
  <2> QED
    BY <2>1, <1>1, <1>2
<1>5. FirstOf(qubits, ranks, ranks) = qubits
  <2>1. FirstOf(qubits, ranks, ranks) = ranks * b + IF ranks < m THEN ranks ELSE m
    BY <1>2, <1>3
  <2> QED
    BY <2>1, <1>1, <1>2
<1>6. ASSUME NEW r \in Nat
      PROVE  r * b \in Nat /\ (r + 1) * b = r * b + b
  BY <1>1, <1>6
<1>7. ASSUME NEW r \in 0 .. ranks
      PROVE  FirstOf(qubits, ranks, r) \in Nat
  <2>1. r \in Nat /\ r * b \in Nat
    BY <1>2, <1>6
  <2>2. FirstOf(qubits, ranks, r) = r * b + IF r < m THEN r ELSE m
    BY <2>1, <1>3
  <2> QED
    BY <2>1, <2>2, <1>1
<1>8. ASSUME NEW r \in 0 .. ranks - 1
      PROVE  /\ Partition(qubits, ranks, r) \in Nat \ {0}
             /\ FirstOf(qubits, ranks, r + 1)
                  = FirstOf(qubits, ranks, r) + Partition(qubits, ranks, r)
  <2>1. r \in Nat /\ r + 1 \in Nat /\ r * b \in Nat /\ (r + 1) * b = r * b + b
    BY <1>2, <1>6
  <2>2. /\ FirstOf(qubits, ranks, r) = r * b + IF r < m THEN r ELSE m
        /\ FirstOf(qubits, ranks, r + 1) = (r + 1) * b + IF r + 1 < m THEN r + 1 ELSE m
        /\ Partition(qubits, ranks, r) = b + IF r < m THEN 1 ELSE 0
    BY <2>1, <1>3
  <2>3. Partition(qubits, ranks, r) \in Nat \ {0}
    BY <2>2, <1>1
  <2>4. (IF r + 1 < m THEN r + 1 ELSE m)
          = (IF r < m THEN r ELSE m) + IF r < m THEN 1 ELSE 0
    BY <2>1, <1>1, <1>2
  <2> QED
    BY <2>1, <2>2, <2>3, <2>4, <1>1
<1> QED
  BY <1>4, <1>5, <1>7, <1>8

\* The intervals come in the order of their ranks.
LEMMA IntervalsAscend ==
  ASSUME NEW qubits, NEW ranks, Admitted(qubits, ranks),
         NEW r \in 0 .. ranks, NEW s \in 0 .. ranks, r <= s
  PROVE  FirstOf(qubits, ranks, r) <= FirstOf(qubits, ranks, s)
<1> DEFINE Low == {n \in r .. ranks : FirstOf(qubits, ranks, n) < FirstOf(qubits, ranks, r)}
<1>0. ranks \in Nat /\ \A n \in 0 .. ranks : FirstOf(qubits, ranks, n) \in Nat
  BY Intervals DEF Admitted
<1>1. SUFFICES ASSUME Low # {} PROVE FALSE
  BY <1>0
<1>2. PICK n \in Low : \A m \in Low : n <= m
  <2>1. Low \in SUBSET Nat
    BY <1>0
  <2> HIDE DEF Low
  <2> QED
    BY <2>1, <1>1, LeastNatural
<1>3. n # r /\ n - 1 \in r .. ranks /\ n - 1 \in 0 .. ranks - 1
  BY <1>0, <1>2
<1>4. n - 1 \notin Low
  BY <1>0, <1>2
<1>5. FirstOf(qubits, ranks, n - 1) >= FirstOf(qubits, ranks, r)
  BY <1>0, <1>3, <1>4
<1>6. FirstOf(qubits, ranks, n) >= FirstOf(qubits, ranks, n - 1)
  <2>1. (n - 1) + 1 = n
    BY <1>0, <1>2
  <2>2. /\ Partition(qubits, ranks, n - 1) \in Nat
        /\ FirstOf(qubits, ranks, (n - 1) + 1)
             = FirstOf(qubits, ranks, n - 1) + Partition(qubits, ranks, n - 1)
    BY <1>3, Intervals
  <2> QED
    BY <1>0, <1>3, <2>1, <2>2
<1> QED
  BY <1>0, <1>2, <1>3, <1>5, <1>6

\* A qubit is on one rank at most.
LEMMA HolderUnique ==
  ASSUME NEW qubits, NEW ranks, Admitted(qubits, ranks), NEW q \in Nat,
         NEW r \in 0 .. ranks - 1, NEW s \in 0 .. ranks - 1,
         Holds(qubits, ranks, r, q), Holds(qubits, ranks, s, q)
  PROVE  r = s
<1>0. /\ ranks \in Nat
      /\ \A n \in 0 .. ranks : FirstOf(qubits, ranks, n) \in Nat
  BY Intervals DEF Admitted
<1>1. ASSUME NEW x \in 0 .. ranks - 1, NEW y \in 0 .. ranks - 1, x < y,
             Holds(qubits, ranks, x, q), Holds(qubits, ranks, y, q)
      PROVE  FALSE
  <2>1. x + 1 \in 0 .. ranks /\ y \in 0 .. ranks /\ x + 1 <= y
    BY <1>0, <1>1
  <2>2. FirstOf(qubits, ranks, x + 1) <= FirstOf(qubits, ranks, y)
    BY <2>1, IntervalsAscend
  <2> QED
    BY <1>0, <1>1, <2>1, <2>2 DEF Holds
<1> QED
  BY <1>0, <1>1

(***************************************************************************)
(* Every qubit has a rank of the world, and a place inside the register of *)
(* that rank's circuit.                                                    *)
(***************************************************************************)
THEOREM QubitHasPlace ==
  ASSUME NEW qubits, NEW ranks, Admitted(qubits, ranks), NEW q \in 0 .. qubits - 1
  PROVE  /\ RankOf(qubits, ranks, q) \in 0 .. ranks - 1
         /\ Holds(qubits, ranks, RankOf(qubits, ranks, q), q)
         /\ LocalIdx(qubits, ranks, q)
              \in 0 .. Partition(qubits, ranks, RankOf(qubits, ranks, q)) - 1
<1> DEFINE Above == {n \in 0 .. ranks : q < FirstOf(qubits, ranks, n)}
<1>0. /\ ranks \in Nat /\ qubits \in Nat /\ q \in Nat
      /\ \A n \in 0 .. ranks : FirstOf(qubits, ranks, n) \in Nat
      /\ FirstOf(qubits, ranks, 0) = 0
      /\ FirstOf(qubits, ranks, ranks) = qubits
  BY Intervals DEF Admitted
<1>1. ranks \in Above
  BY <1>0
<1>2. PICK n \in Above : \A m \in Above : n <= m
  <2>1. Above \in SUBSET Nat /\ Above # {}
    BY <1>0, <1>1
  <2> HIDE DEF Above
  <2> QED
    BY <2>1, LeastNatural
<1>3. n # 0 /\ n - 1 \in 0 .. ranks - 1 /\ n - 1 \in 0 .. ranks /\ (n - 1) + 1 = n
  BY <1>0, <1>2
<1>4. n - 1 \notin Above
  BY <1>0, <1>2
<1>5. Holds(qubits, ranks, n - 1, q)
  BY <1>0, <1>2, <1>3, <1>4 DEF Holds
<1>6. /\ RankOf(qubits, ranks, q) \in 0 .. ranks - 1
      /\ Holds(qubits, ranks, RankOf(qubits, ranks, q), q)
  BY <1>3, <1>5 DEF RankOf
<1>7. /\ Partition(qubits, ranks, RankOf(qubits, ranks, q)) \in Nat
      /\ FirstOf(qubits, ranks, RankOf(qubits, ranks, q) + 1)
           = FirstOf(qubits, ranks, RankOf(qubits, ranks, q))
             + Partition(qubits, ranks, RankOf(qubits, ranks, q))
  BY <1>6, Intervals
<1>8. FirstOf(qubits, ranks, RankOf(qubits, ranks, q)) \in Nat
  BY <1>0, <1>6
<1> QED
  BY <1>0, <1>6, <1>7, <1>8 DEF LocalIdx, Holds

---------------------------------------------------------------------------
(* build_global_mapping *)

\* The parts of the partition sum up to the qubits.
LEMMA PartitionSums ==
  ASSUME NEW qubits, NEW ranks, Admitted(qubits, ranks)
  PROVE  SumOfPartition(qubits, ranks) = qubits
<1> DEFINE Eq(f) ==
      f = [r \in 0 .. ranks |->
             IF r = 0 THEN 0 ELSE f[r - 1] + Partition(qubits, ranks, r - 1)]
    sum == CHOOSE f : Eq(f)
    first == [r \in 0 .. ranks |-> FirstOf(qubits, ranks, r)]
<1>0. /\ ranks \in Nat
      /\ FirstOf(qubits, ranks, 0) = 0
      /\ FirstOf(qubits, ranks, ranks) = qubits
  BY Intervals DEF Admitted
<1>1. \A r \in 0 .. ranks : r # 0 =>
        /\ r - 1 \in 0 .. ranks
        /\ FirstOf(qubits, ranks, r)
             = FirstOf(qubits, ranks, r - 1) + Partition(qubits, ranks, r - 1)
  <2> SUFFICES ASSUME NEW r \in 0 .. ranks, r # 0
               PROVE  /\ r - 1 \in 0 .. ranks
                      /\ FirstOf(qubits, ranks, r)
                           = FirstOf(qubits, ranks, r - 1) + Partition(qubits, ranks, r - 1)
    OBVIOUS
  <2>1. r - 1 \in 0 .. ranks - 1 /\ r - 1 \in 0 .. ranks /\ (r - 1) + 1 = r
    BY <1>0
  <2> QED BY <2>1, Intervals
<1>2. Eq(first)
  BY <1>0, <1>1
<1>3. SumOfPartition(qubits, ranks) = sum[ranks]
  BY DEF SumOfPartition
<1>4. Eq(sum)
  <2> HIDE DEF Eq, first
  <2> QED BY <1>2
<1> HIDE DEF sum
<1> DEFINE Wrong == {r \in 0 .. ranks : sum[r] # FirstOf(qubits, ranks, r)}
<1>5. Wrong = {}
  <2> SUFFICES ASSUME Wrong # {} PROVE FALSE
    OBVIOUS
  <2>1. PICK n \in Wrong : \A m \in Wrong : n <= m
    <3>1. Wrong \in SUBSET Nat
      BY <1>0
    <3> HIDE DEF Wrong
    <3> QED BY <3>1, LeastNatural
  <2>2. n # 0 /\ n \in 0 .. ranks
    BY <1>0, <1>4, <2>1
  <2>3. n - 1 \in 0 .. ranks /\ n - 1 \notin Wrong
    BY <1>0, <2>1, <2>2
  <2>4. sum[n] = sum[n - 1] + Partition(qubits, ranks, n - 1)
    BY <1>4, <2>2
  <2> QED BY <1>1, <2>1, <2>2, <2>3, <2>4
<1> QED BY <1>0, <1>3, <1>5

LEMMA SizeAdmitted ==
  ASSUME size \in Sizes
  PROVE  /\ Admitted(total, qpus)
         /\ total \in Nat /\ qpus \in Nat \ {0}
BY SizesAssumption DEF Accepted, Admitted, total, qpus

LEMMA InitMapping == MapInit => MappingInv
<1> SUFFICES ASSUME MapInit PROVE MappingInv
  OBVIOUS
<1>1. Admitted(total, qpus) /\ total \in Nat /\ qpus \in Nat \ {0}
  BY SizeAdmitted DEF MapInit
<1>2. mapping = << >> /\ rank = 0 /\ local_q = 0 /\ size \in Sizes
  BY DEF MapInit
<1>3. Len(mapping) = 0 /\ mapping \in Seq([rank : 0 .. qpus - 1, local_idx : Nat])
  BY <1>2
<1>4. MapTypeOK
  BY <1>1, <1>2, <1>3 DEF MapTypeOK
<1>5. LoopsAgree
  <2>1. FirstOf(total, qpus, 0) = 0
    BY <1>1, Intervals
  <2>2. Partition(total, qpus, 0) \in Nat
    BY <1>1, Intervals
  <2> QED
    BY <1>1, <1>2, <1>3, <2>1, <2>2 DEF LoopsAgree, global_q
<1>6. PlacesQubits
  BY <1>3 DEF PlacesQubits, global_q
<1> QED
  BY <1>4, <1>5, <1>6 DEF MappingInv

\* The qubit that WriteQubit is about to write has its place at the loops.
LEMMA NextPlace ==
  ASSUME MappingInv, WriteQubit
  PROVE  /\ global_q \in 0 .. total - 1
         /\ RankOf(total, qpus, global_q) = rank
         /\ LocalIdx(total, qpus, global_q) = local_q
<1>1. size \in Sizes /\ rank \in 0 .. qpus /\ local_q \in Nat
  BY DEF MappingInv, MapTypeOK
<1>2. Admitted(total, qpus) /\ total \in Nat /\ qpus \in Nat \ {0}
  BY <1>1, SizeAdmitted
<1>3. rank \in 0 .. qpus - 1 /\ rank + 1 \in 0 .. qpus
  BY <1>1, <1>2 DEF WriteQubit
<1>4. /\ FirstOf(total, qpus, rank) \in Nat
      /\ FirstOf(total, qpus, rank + 1) \in Nat
      /\ Partition(total, qpus, rank) \in Nat
      /\ FirstOf(total, qpus, rank + 1)
           = FirstOf(total, qpus, rank) + Partition(total, qpus, rank)
      /\ FirstOf(total, qpus, qpus) = total
  BY <1>1, <1>2, <1>3, Intervals
<1>5. FirstOf(total, qpus, rank + 1) <= total
  <2>1. qpus \in 0 .. qpus /\ rank + 1 <= qpus
    BY <1>2, <1>3
  <2> QED
    BY <1>2, <1>3, <1>4, <2>1, IntervalsAscend
<1>6. global_q = FirstOf(total, qpus, rank) + local_q
  BY DEF MappingInv, LoopsAgree
<1>7. local_q < Partition(total, qpus, rank)
  BY DEF WriteQubit
<1>8. global_q \in 0 .. total - 1 /\ Holds(total, qpus, rank, global_q)
  BY <1>1, <1>2, <1>4, <1>5, <1>6, <1>7 DEF Holds
<1>9. /\ RankOf(total, qpus, global_q) \in 0 .. qpus - 1
      /\ Holds(total, qpus, RankOf(total, qpus, global_q), global_q)
  BY <1>2, <1>8, QubitHasPlace
<1>10. RankOf(total, qpus, global_q) = rank
  <2>1. global_q \in Nat
    BY <1>2, <1>8
  <2> QED
    BY <1>2, <1>3, <1>8, <1>9, <2>1, HolderUnique
<1>11. LocalIdx(total, qpus, global_q) = local_q
  BY <1>1, <1>4, <1>6, <1>10 DEF LocalIdx
<1> QED
  BY <1>8, <1>10, <1>11

LEMMA NextMapping == MappingInv /\ [MapNext]_mapVars => MappingInv'
<1> SUFFICES ASSUME MappingInv, [MapNext]_mapVars PROVE MappingInv'
  OBVIOUS
<1>1. /\ size \in Sizes /\ rank \in 0 .. qpus /\ local_q \in Nat
      /\ mapping \in Seq([rank : 0 .. qpus - 1, local_idx : Nat])
  BY DEF MappingInv, MapTypeOK
<1>2. Admitted(total, qpus) /\ total \in Nat /\ qpus \in Nat \ {0}
  BY <1>1, SizeAdmitted
<1>3. CASE WriteQubit
  <2>1. size' = size /\ total' = total /\ qpus' = qpus
    BY <1>3 DEF WriteQubit, total, qpus
  <2>2. rank \in 0 .. qpus - 1 /\ rank' = rank /\ local_q' = local_q + 1
    BY <1>1, <1>2, <1>3 DEF WriteQubit
  <2> DEFINE e == [rank |-> rank, local_idx |-> local_q]
  <2>3. e \in [rank : 0 .. qpus - 1, local_idx : Nat]
    BY <1>1, <2>2
  <2>4. mapping' = Append(mapping, e)
    BY <1>3 DEF WriteQubit
  <2> HIDE DEF e
  <2>5. /\ Len(mapping) \in Nat
        /\ mapping' \in Seq([rank : 0 .. qpus - 1, local_idx : Nat])
        /\ Len(mapping') = Len(mapping) + 1
        /\ \A i \in 1 .. Len(mapping) : mapping'[i] = mapping[i]
        /\ mapping'[Len(mapping) + 1] = e
    BY <1>1, <2>3, <2>4
  <2>6. MapTypeOK'
    BY <1>1, <1>2, <2>1, <2>2, <2>5 DEF MapTypeOK
  <2>7. LoopsAgree'
    <3>1. global_q = FirstOf(total, qpus, rank) + local_q
      BY DEF MappingInv, LoopsAgree
    <3>2. global_q' = global_q + 1
      BY <2>5 DEF global_q
    <3>3. FirstOf(total, qpus, rank) \in Nat /\ Partition(total, qpus, rank) \in Nat
      BY <1>1, <1>2, <2>2, Intervals
    <3>4. local_q < Partition(total, qpus, rank)
      BY <1>3 DEF WriteQubit
    <3>5. Partition(total, qpus, rank)' = Partition(total, qpus, rank)
      BY <2>1, <2>2 DEF Partition
    <3>6. FirstOf(total, qpus, rank)' = FirstOf(total, qpus, rank)
      BY <2>1, <2>2 DEF FirstOf
    <3> QED
      BY <1>1, <1>2, <2>1, <2>2, <3>1, <3>2, <3>3, <3>4, <3>5, <3>6 DEF LoopsAgree
  <2>8. PlacesQubits'
    <3> SUFFICES ASSUME NEW q \in 0 .. global_q' - 1
                 PROVE  /\ mapping'[q + 1] = [rank |-> RankOf(total, qpus, q),
                                              local_idx |-> LocalIdx(total, qpus, q)]
                        /\ mapping'[q + 1].local_idx
                             \in 0 .. Partition(total, qpus, mapping'[q + 1].rank) - 1
      BY <2>1 DEF PlacesQubits
    <3>1. global_q \in Nat /\ global_q' = global_q + 1 /\ global_q = Len(mapping)
      BY <2>5 DEF global_q
    <3>2. CASE q = global_q
      <4>1. /\ RankOf(total, qpus, global_q) = rank
            /\ LocalIdx(total, qpus, global_q) = local_q
        BY <1>3, NextPlace
      <4>2. mapping'[q + 1] = e
        BY <2>5, <3>1, <3>2
      <4>3. e.rank = rank /\ e.local_idx = local_q
        BY DEF e
      <4>4. Partition(total, qpus, rank) \in Nat /\ local_q < Partition(total, qpus, rank)
        BY <1>2, <1>3, <2>2, Intervals DEF WriteQubit
      <4>5. e = [rank |-> RankOf(total, qpus, q), local_idx |-> LocalIdx(total, qpus, q)]
        BY <3>2, <4>1 DEF e
      <4>6. e.local_idx \in 0 .. Partition(total, qpus, e.rank) - 1
        BY <1>1, <4>3, <4>4
      <4> QED
        BY <4>2, <4>5, <4>6
    <3>3. CASE q # global_q
      <4>1. q \in 0 .. global_q - 1
        BY <3>1, <3>3
      <4>2. mapping'[q + 1] = mapping[q + 1]
        BY <2>5, <3>1, <4>1
      <4> QED
        BY <4>1, <4>2 DEF MappingInv, PlacesQubits
    <3> QED
      BY <3>2, <3>3
  <2> QED
    BY <2>6, <2>7, <2>8 DEF MappingInv
<1>4. CASE NextRank
  <2>1. size' = size /\ mapping' = mapping /\ total' = total /\ qpus' = qpus
        /\ global_q' = global_q
    BY <1>4 DEF NextRank, total, qpus, global_q
  <2>2. rank \in 0 .. qpus - 1 /\ rank' = rank + 1 /\ local_q' = 0
    BY <1>1, <1>2, <1>4 DEF NextRank
  <2>3. MapTypeOK'
    BY <1>1, <1>2, <2>1, <2>2 DEF MapTypeOK
  <2>4. LoopsAgree'
    <3>1. /\ global_q = FirstOf(total, qpus, rank) + local_q
          /\ local_q <= Partition(total, qpus, rank)
      BY <1>1, <1>2, <2>2 DEF MappingInv, LoopsAgree
    <3>2. local_q >= Partition(total, qpus, rank)
      BY <1>4 DEF NextRank
    <3>3. /\ FirstOf(total, qpus, rank) \in Nat
          /\ Partition(total, qpus, rank) \in Nat
          /\ FirstOf(total, qpus, rank + 1)
               = FirstOf(total, qpus, rank) + Partition(total, qpus, rank)
      BY <1>1, <1>2, <2>2, Intervals
    <3>4. FirstOf(total, qpus, rank)' = FirstOf(total, qpus, rank + 1)
      BY <2>1, <2>2 DEF FirstOf
    <3>5. rank' < qpus => Partition(total', qpus', rank') \in Nat
      <4>1. rank' < qpus => rank' \in 0 .. qpus - 1
        BY <1>2, <2>2
      <4> QED
        BY <1>2, <2>1, <4>1, Intervals
    <3>6. global_q' = FirstOf(total, qpus, rank)' + local_q'
      BY <1>1, <2>1, <2>2, <3>1, <3>2, <3>3, <3>4
    <3>7. rank' < qpus' => local_q' <= Partition(total', qpus', rank')
      BY <2>1, <2>2, <3>5
    <3>8. rank' = qpus' => local_q' = 0
      BY <2>2
    <3> QED
      BY <3>6, <3>7, <3>8 DEF LoopsAgree
  <2>5. PlacesQubits'
    BY <2>1 DEF MappingInv, PlacesQubits, Partition, RankOf, LocalIdx, Holds, FirstOf
  <2> QED
    BY <2>3, <2>4, <2>5 DEF MappingInv
<1>5. CASE UNCHANGED mapVars
  <2>1. /\ size' = size /\ rank' = rank /\ local_q' = local_q /\ mapping' = mapping
        /\ total' = total /\ qpus' = qpus /\ global_q' = global_q
    BY <1>5 DEF mapVars, total, qpus, global_q
  <2>2. MapTypeOK'
    BY <2>1 DEF MappingInv, MapTypeOK
  <2>3. LoopsAgree'
    BY <2>1 DEF MappingInv, LoopsAgree
  <2>4. PlacesQubits'
    BY <2>1 DEF MappingInv, PlacesQubits
  <2> QED
    BY <2>2, <2>3, <2>4 DEF MappingInv
<1> QED
  BY <1>3, <1>4, <1>5 DEF MapNext

LEMMA MappingInvariant == MapSpec => []MappingInv
BY InitMapping, NextMapping, PTL DEF MapSpec

\* Every variable of the loops has its type.
THEOREM TypeCorrect == MapSpec => []MapTypeOK
<1>1. MappingInv => MapTypeOK
  BY DEF MappingInv
<1> QED
  BY <1>1, MappingInvariant, PTL

\* The loops write every element of the vector, and none beyond its end.
THEOREM FillsVectorHolds == MapSpec => []FillsVector
<1>1. MappingInv => FillsVector
  <2> SUFFICES ASSUME MappingInv PROVE FillsVector
    OBVIOUS
  <2>1. /\ size \in Sizes /\ rank \in 0 .. qpus /\ local_q \in Nat
        /\ global_q = FirstOf(total, qpus, rank) + local_q
        /\ rank < qpus => local_q <= Partition(total, qpus, rank)
        /\ rank = qpus => local_q = 0
    BY DEF MappingInv, MapTypeOK, LoopsAgree
  <2>2. Admitted(total, qpus) /\ total \in Nat /\ qpus \in Nat \ {0}
    BY <2>1, SizeAdmitted
  <2>3. FirstOf(total, qpus, qpus) = total
    BY <2>2, Intervals
  <2>0. vector_size = total
    BY <2>2, PartitionSums DEF vector_size
  <2>4. CASE rank = qpus
    BY <2>0, <2>1, <2>2, <2>3, <2>4 DEF FillsVector
  <2>5. CASE rank # qpus
    <3>1. rank \in 0 .. qpus - 1 /\ rank + 1 \in 0 .. qpus
          /\ qpus \in 0 .. qpus /\ rank + 1 <= qpus
      BY <2>1, <2>2, <2>5
    <3>2. /\ FirstOf(total, qpus, rank) \in Nat /\ FirstOf(total, qpus, rank + 1) \in Nat
          /\ Partition(total, qpus, rank) \in Nat
          /\ FirstOf(total, qpus, rank + 1)
               = FirstOf(total, qpus, rank) + Partition(total, qpus, rank)
      BY <2>1, <2>2, <3>1, Intervals
    <3>3. FirstOf(total, qpus, rank + 1) <= total
      BY <2>2, <2>3, <3>1, <3>2, IntervalsAscend
    <3> QED
      BY <2>0, <2>1, <2>2, <2>5, <3>1, <3>2, <3>3 DEF FillsVector
  <2> QED
    BY <2>4, <2>5
<1> QED
  BY <1>1, MappingInvariant, PTL

(***************************************************************************)
(* Every qubit is written with the one place that the closed form gives    *)
(* it, on a rank of the world and inside the register of its circuit.      *)
(***************************************************************************)
THEOREM PlacesQubitsHolds == MapSpec => []PlacesQubits
<1>1. MappingInv => PlacesQubits
  BY DEF MappingInv
<1> QED
  BY <1>1, MappingInvariant, PTL

=============================================================================
