---------------------------- MODULE QubitLayout ----------------------------
(***************************************************************************)
(* How distributed_qft.cpp divides the qubits of the global circuit among  *)
(* the ranks: the sizes that build_qubit_partition computes, and the place *)
(* that each qubit has by them, in closed form.                            *)
(***************************************************************************)
EXTENDS Integers

\* Faulty variant: the remainder is left out.
EvenPartition(total, qpus, r) == total \div qpus

\* partition[r]
Partition(total, qpus, r) ==
  total \div qpus + IF r < total % qpus THEN 1 ELSE 0

\* The qubits of the ranks below r: the first of r's own.
FirstOf(total, qpus, r) ==
  r * (total \div qpus) + IF r < total % qpus THEN r ELSE total % qpus

\* Rank r has qubit q.
Holds(total, qpus, r, q) ==
  /\ FirstOf(total, qpus, r) <= q
  /\ q < FirstOf(total, qpus, r + 1)

RankOf(total, qpus, q) == CHOOSE r \in 0 .. qpus - 1 : Holds(total, qpus, r, q)

LocalIdx(total, qpus, q) == q - FirstOf(total, qpus, RankOf(total, qpus, q))

=============================================================================
