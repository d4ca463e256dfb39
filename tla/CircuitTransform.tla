-------------------------- MODULE CircuitTransform --------------------------
(***************************************************************************)
(* What CunqaApi::run does with the circuits of a program once it has the  *)
(* virtual QPUs: it copies them, maps circuit ids to virtual QPUs, and     *)
(* transforms and sends one circuit after the other.  The program goes on  *)
(* building in the meantime.                                               *)
(*                                                                         *)
(* The virtual QPU of position i is named i; OwnDeployment of CunqaApi     *)
(* says that they are distinct.  JSON is a record; a key that is absent is *)
(* an empty sequence.                                                      *)
(***************************************************************************)
EXTENDS QuantumCircuit

CONSTANT Batches  \* the arguments of run: sequences of objects

ASSUME BatchAssumption == Batches \subseteq Seq(Object)

VARIABLES
  batch,    \* the JSON of the circuits in the hands of run
  sent,     \* what the virtual QPUs have received, by position
  outcome   \* "none", "sending", "refused" or "complete"

runVars == <<batch, sent, outcome>>
vars == <<circuitVars, runVars>>

RemoteGateNames == {"send", "recv", "qsend", "qrecv", "expose", "rcontrol"}

---------------------------------------------------------------------------
(* The correspondence of circuit ids and virtual QPUs *)

Bearers(x) == {i \in 1 .. Len(batch) : batch[i].id = x}

\* Faulty variant: the ids are paired with the virtual QPUs one off.
NextQpu(x) == CHOOSE q \in 1 .. Len(batch) : \E i \in Bearers(x) : q = (i % Len(batch)) + 1

\* correspondence[x]: a later circuit of the same id overwrites an earlier one.
Qpu(x) == CHOOSE q \in Bearers(x) : \A i \in Bearers(x) : i <= q

AllKnown(ids) == \A i \in 1 .. Len(ids) : Bearers(ids[i]) # {}

MapCircuitIdsToQpus(ids) == [i \in 1 .. Len(ids) |-> Qpu(ids[i])]

---------------------------------------------------------------------------
(* The transformation of an instruction, and of a circuit *)

\* Faulty variant: counted from 0.
RemoteQubitsFromZero(n) == [i \in 1 .. n |-> -(i - 1)]

RemoteQubits(n) == [i \in 1 .. n |-> -i]

\* An instruction without related circuits, with the virtual QPUs qpus.
Plain(g, qpus) ==
  [name |-> g.name, qubits |-> g.qubits, clbits |-> g.clbits, qpus |-> qpus,
   instructions |-> << >>]

\* A gate of the own circuit, controlled by the qubits that others expose.
RControl(g, qpus) ==
  [name |-> "rcontrol", qubits |-> << >>, clbits |-> << >>, qpus |-> qpus,
   instructions |-> <<[name |-> g.name, clbits |-> g.clbits,
                       qubits |-> RemoteQubits(Len(qpus)) \o g.qubits]>>]

TransformInstruction(g) ==
  IF g.circuits = << >> \/ g.name \in RemoteGateNames
  THEN Plain(g, MapCircuitIdsToQpus(g.circuits))
  ELSE RControl(g, MapCircuitIdsToQpus(g.circuits))

\* validateRemoteInstructionsHaveQpus, for one instruction.
HasQpus(g) ==
  g.name \in RemoteGateNames =>
    /\ g.qpus # << >>
    /\ g.name = "rcontrol" => g.instructions # << >>
    /\ \A i \in 1 .. Len(g.instructions) : g.instructions[i].name \notin RemoteGateNames

Transform(c) ==
  [id |-> Qpu(c.id),
   instructions |-> [i \in 1 .. Len(c.instructions) |-> TransformInstruction(c.instructions[i])],
   sending_to |-> MapCircuitIdsToQpus(c.sending_to),
   is_dynamic |-> c.is_dynamic]

\* Faulty variant: the targets of a circuit are not looked up.
TransformsUnlessSending(c) ==
  /\ c.sending_to = << >>
  /\ \A i \in 1 .. Len(c.instructions) : AllKnown(c.instructions[i].circuits)
  /\ \A i \in 1 .. Len(c.instructions) : HasQpus(TransformInstruction(c.instructions[i]))

\* transformCircuitForCunqa returns no error.
Transforms(c) ==
  /\ AllKnown(c.sending_to)
  /\ \A i \in 1 .. Len(c.instructions) : AllKnown(c.instructions[i].circuits)
  /\ \A i \in 1 .. Len(c.instructions) : HasQpus(TransformInstruction(c.instructions[i]))

---------------------------------------------------------------------------
(* The steps of run *)

Run(b) ==
  /\ outcome = "none"
  /\ b # << >>
  /\ batch' = [i \in 1 .. Len(b) |-> Raw(b[i])]
  /\ outcome' = "sending"
  /\ UNCHANGED <<sent, circuitVars>>

SendCircuit ==
  /\ outcome = "sending"
  /\ Len(sent) < Len(batch)
  /\ Transforms(batch[Len(sent) + 1])
  /\ sent' = Append(sent, Transform(batch[Len(sent) + 1]))
  /\ UNCHANGED <<batch, outcome, circuitVars>>

RefuseCircuit ==
  /\ outcome = "sending"
  /\ Len(sent) < Len(batch)
  /\ ~Transforms(batch[Len(sent) + 1])
  /\ outcome' = "refused"
  /\ UNCHANGED <<batch, sent, circuitVars>>

Complete ==
  /\ outcome = "sending"
  /\ Len(sent) = Len(batch)
  /\ outcome' = "complete"
  /\ UNCHANGED <<batch, sent, circuitVars>>

Init ==
  /\ CircuitInit
  /\ batch = << >>
  /\ sent = << >>
  /\ outcome = "none"

Next ==
  \/ CircuitNext /\ UNCHANGED runVars
  \/ \E b \in Batches : Run(b)
  \/ SendCircuit \/ RefuseCircuit \/ Complete

Spec == Init /\ [][Next]_vars

---------------------------------------------------------------------------
(* Properties *)

\* The circuits of the run have ids of their own.
DistinctIds == \A i, k \in 1 .. Len(batch) : batch[i].id = batch[k].id => i = k

\* The virtual QPUs of the instructions that send.
SendTargets(c) ==
  UNION {{c.instructions[i].qpus[k] : k \in 1 .. Len(c.instructions[i].qpus)} :
           i \in {m \in 1 .. Len(c.instructions) : c.instructions[m].name \in SendsTo}}

(***************************************************************************)
(* Every virtual QPU that a sent instruction names holds, or is about to   *)
(* get, a circuit of the id that the program related the instruction to:   *)
(* nobody talks to the wrong partner.  A circuit whose id is its own is    *)
(* told the virtual QPU that it is on.                                     *)
(***************************************************************************)
TalksToNamed ==
  \A p \in 1 .. Len(sent) :
    /\ \A i \in 1 .. Len(batch[p].instructions) :
         LET circuits == batch[p].instructions[i].circuits
             qpus == sent[p].instructions[i].qpus
         IN  /\ Len(qpus) = Len(circuits)
             /\ \A k \in 1 .. Len(qpus) :
                  qpus[k] \in 1 .. Len(batch) /\ batch[qpus[k]].id = circuits[k]
    /\ DistinctIds => sent[p].id = p

(***************************************************************************)
(* addInstruction keeps sending_to apart from the instructions; both reach *)
(* CUNQA.  A circuit declares exactly the virtual QPUs that it sends to,   *)
(* and more only when a call of addInstruction had been given up half way. *)
(***************************************************************************)
DeclaresTargets ==
  \A p \in 1 .. Len(sent) :
    LET declared == {sent[p].sending_to[k] : k \in 1 .. Len(sent[p].sending_to)}
    IN  /\ SendTargets(sent[p]) \subseteq declared
        /\ ~batch[p].halfDone => declared = SendTargets(sent[p])

(***************************************************************************)
(* run refuses a circuit only for a cause in what the program added: a     *)
(* related circuit that is not in the run, a remote gate without any, an   *)
(* rcontrol, whose block the builder cannot express, or the remains of a   *)
(* call that returned 4 (quantum_circuit.cpp:43).                          *)
(***************************************************************************)
RefusedForCause ==
  outcome = "refused" =>
    LET c == batch[Len(sent) + 1]
        known == {batch[i].id : i \in 1 .. Len(batch)}
    IN  \/ \E i \in 1 .. Len(c.instructions) :
             LET g == c.instructions[i]
             IN  \/ \E k \in 1 .. Len(g.circuits) : g.circuits[k] \notin known
                 \/ g.name \in RemoteGateNames /\ g.circuits = << >>
                 \/ g.name = "rcontrol"
        \/ c.halfDone

(***************************************************************************)
(* Whatever flag the program has set, and whenever, a circuit that waits   *)
(* for another virtual QPU is sent as a dynamic one: CUNQA runs only       *)
(* those with the others.                                                  *)
(***************************************************************************)
CommunicatesDynamically ==
  \A p \in 1 .. Len(sent) :
    (\E i \in 1 .. Len(sent[p].instructions) : sent[p].instructions[i].qpus # << >>)
      => sent[p].is_dynamic

(***************************************************************************)
(* In a controlled block -1, -2, ... stand for the exposed qubits, and the *)
(* builder accepts every index below the size of the register: each of     *)
(* them stands for one qubit, unless the program itself used one.          *)
(***************************************************************************)
ControlsApart ==
  \A p \in 1 .. Len(sent) : \A i \in 1 .. Len(sent[p].instructions) :
    LET g == sent[p].instructions[i]
        own == batch[p].instructions[i].qubits
    IN  g.name = "rcontrol" /\ (\A k \in 1 .. Len(own) : own[k] >= 0) =>
          \A n \in 1 .. Len(g.qpus) : \E k \in 1 .. Len(g.instructions[1].qubits) :
            /\ g.instructions[1].qubits[k] = -n
            /\ \A m \in 1 .. Len(g.instructions[1].qubits) :
                 g.instructions[1].qubits[m] = -n => m = k

=============================================================================
