------------------------- MODULE MCCircuitTransform -------------------------
(* An instance of CircuitTransform for TLC: three circuits of one qubit. *)
EXTENDS CircuitTransform, TLC

CONSTANTS q1, q2, q3

Circuits == {q1, q2, q3}

\* All ids different, one id twice, and a circuit without an id.
MCNamings ==
  {(q1 :> "A") @@ (q2 :> "B") @@ (q3 :> "C"),
   (q1 :> "A") @@ (q2 :> "A") @@ (q3 :> "B"),
   (q1 :> "A") @@ (q2 :> "B") @@ (q3 :> "")}

One == [o \in Circuits |-> 1]

Call(name, qubits, clbits, related) ==
  [name |-> name, qubits |-> qubits, clbits |-> clbits, related |-> related]

MCCalls ==
  {Call("h", <<0>>, << >>, << >>),
   Call("cx", <<0, 0>>, << >>, << >>),
   Call("h", <<1>>, << >>, << >>),
   Call("measure", <<0>>, <<1>>, << >>),
   Call("crz", <<-1>>, << >>, <<q2>>),
   Call("send", << >>, <<0>>, <<q2, q1>>),
   Call("rcontrol", <<0>>, << >>, <<q2>>)} \cup
  {Call(name, <<0>>, << >>, related) :
     name \in {"cx", "expose", "recv"}, related \in {<< >>, <<q1>>, <<q2>>, <<q3>>, <<q2, q3>>}}

\* In either order, with a third, one left out, one twice, and none.
MCBatches == {<<q1, q2>>, <<q2, q1>>, <<q3, q2, q1>>, <<q1>>, <<q1, q1>>, << >>}
=============================================================================
