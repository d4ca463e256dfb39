---------------------------- MODULE QubitMapping ----------------------------
(***************************************************************************)
(* build_global_mapping of distributed_qft.cpp: two nested loops over the  *)
(* ranks and the qubits of each, which write mapping[global_q].            *)
(***************************************************************************)
EXTENDS QubitLayout, Sequences

CONSTANT Sizes  \* the pairs <<total_qubits, qpus>> that the program is run with

\* parse_cli refuses all others.
Accepted == {s \in (Nat \ {0}) \X (Nat \ {0}) : s[2] <= s[1]}

ASSUME SizesAssumption == Sizes \subseteq Accepted

VARIABLES
  size,     \* the pair at hand
  rank,     \* the index of the outer loop
  local_q,  \* the index of the inner loop
  mapping   \* mapping[0 .. global_q - 1]: what has been written so far

mapVars == <<size, rank, local_q, mapping>>

total == size[1]
qpus == size[2]
global_q == Len(mapping)

\* std::accumulate over the partition.
SumOfPartition(qubits, ranks) ==
  LET sum[r \in 0 .. ranks] ==
        IF r = 0 THEN 0 ELSE sum[r - 1] + Partition(qubits, ranks, r - 1)
  IN  sum[ranks]

\* mapping.size(): build_global_mapping is given the partition only.
vector_size == SumOfPartition(total, qpus)

MapInit ==
  /\ size \in Sizes
  /\ rank = 0
  /\ local_q = 0
  /\ mapping = << >>

WriteQubit ==
  /\ rank < qpus
  /\ local_q < Partition(total, qpus, rank)
  /\ mapping' = Append(mapping, [rank |-> rank, local_idx |-> local_q])
  /\ local_q' = local_q + 1
  /\ UNCHANGED <<size, rank>>

\* Faulty variant: the inner loop does not start again at 0.
KeepsLocalIdx ==
  /\ rank < qpus
  /\ local_q >= Partition(total, qpus, rank)
  /\ rank' = rank + 1
  /\ UNCHANGED <<size, local_q, mapping>>

NextRank ==
  /\ rank < qpus
  /\ local_q >= Partition(total, qpus, rank)
  /\ rank' = rank + 1
  /\ local_q' = 0
  /\ UNCHANGED <<size, mapping>>

MapNext == WriteQubit \/ NextRank

MapSpec == MapInit /\ [][MapNext]_mapVars

---------------------------------------------------------------------------
(* Properties *)

MapTypeOK ==
  /\ size \in Sizes
  /\ rank \in 0 .. qpus
  /\ local_q \in Nat
  /\ mapping \in Seq([rank : 0 .. qpus - 1, local_idx : Nat])

(***************************************************************************)
(* build_global_mapping sizes the vector by the sum of the partition and   *)
(* writes it without looking at its end: the loops write each element, and *)
(* none beyond.  The caller reads one element for each qubit that --qubits *)
(* asks for, which is as many.                                             *)
(***************************************************************************)
FillsVector ==
  /\ global_q <= vector_size
  /\ rank = qpus => global_q = vector_size
  /\ vector_size = total

(***************************************************************************)
(* What the loops write is the closed form: every qubit has one place, on  *)
(* a rank of the world and inside the register of its circuit, so that no  *)
(* instruction on it is refused by addInstruction.                         *)
(***************************************************************************)
PlacesQubits ==
  \A q \in 0 .. global_q - 1 :
    /\ mapping[q + 1] = [rank |-> RankOf(total, qpus, q),
                         local_idx |-> LocalIdx(total, qpus, q)]
    /\ mapping[q + 1].local_idx \in 0 .. Partition(total, qpus, mapping[q + 1].rank) - 1

(***************************************************************************)
(* The inductive invariant of the two: the loops are where the closed form *)
(* says.                                                                   *)
(***************************************************************************)
LoopsAgree ==
  /\ rank < qpus => local_q <= Partition(total, qpus, rank)
  /\ rank = qpus => local_q = 0
  /\ global_q = FirstOf(total, qpus, rank) + local_q

MappingInv ==
  /\ MapTypeOK
  /\ LoopsAgree
  /\ PlacesQubits

=============================================================================
