----------------------------- MODULE MCExamples -----------------------------
(* An instance of Examples for TLC. *)
EXTENDS Examples

MCObject == 0 .. Qpus + 1
MCSizes == {<<TotalQubits, Qpus>>}
MCQubits == [o \in MCObject |-> IF o < Qpus THEN Partition(TotalQubits, Qpus, o) ELSE 1]
MCClbits == [MCQubits EXCEPT ![Qpus] = 0]
MCNamings == {[o \in MCObject |-> "circuit_" \o ToString(o)]}

=============================================================================
