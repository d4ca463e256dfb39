------------------------------ MODULE Examples ------------------------------
(***************************************************************************)
(* The example programs from end to end: distributed_qft or                *)
(* simple_telegate builds its circuits call by call, CunqaApi::run         *)
(* transforms and sends them, and the virtual QPUs execute what they have  *)
(* received, each as soon as it has it.                                    *)
(*                                                                         *)
(* The builder and the transformation are those of CircuitTransform.  No   *)
(* call and no circuit is refused (ExamplesAccepted), so that refusals     *)
(* need no action here.                                                    *)
(*                                                                         *)
(* What a virtual QPU does is CUNQA's: it executes its instructions in     *)
(* order; an expose offers its qubit to the virtual QPU that it names and  *)
(* waits; an rcontrol waits for an offer of the one that it names, and     *)
(* ends it.                                                                *)
(***************************************************************************)
EXTENDS QubitMapping, CircuitTransform, SequencesExt

CONSTANTS
  TotalQubits,  \* --qubits
  Qpus          \* --qpus

\* The circuits of simple_telegate, after those of the ranks.
controlCircuit == Qpus
targetCircuit == Qpus + 1

ASSUME ExampleAssumption ==
  /\ Sizes = {<<TotalQubits, Qpus>>}
  /\ Object = 0 .. targetCircuit
  /\ Qubits = [o \in Object |-> IF o < Qpus THEN Partition(TotalQubits, Qpus, o) ELSE 1]
  /\ Clbits = [Qubits EXCEPT ![controlCircuit] = 0]
  /\ \A names \in Namings, o, p \in Object :
       names[o] # NoId /\ (names[o] = names[p] => o = p)

\* The names of instructions that the programs use, a fact TLC evaluates: the
\* provers do not know of a literal that it is a string.
ASSUME NamesAssumption == {"x", "h", "crz", "cx", "expose", "measure"} \subseteq STRING

VARIABLES
  program,   \* "distributed_qft" or "simple_telegate"
  position,  \* the number of instructions that each virtual QPU has finished
  exposed,   \* the virtual QPUs that wait in an expose
  \* History.
  meant,     \* the gate that each instruction of each object is meant to be
  applied    \* the gates applied, with the qubits that took part

qpuVars == <<position, exposed, applied>>
exampleVars == <<vars, mapVars, program, qpuVars, meant>>

---------------------------------------------------------------------------
(* The calls of addInstruction, in the order of the programs.  A gate is   *)
(* named by its loop, as in DistributedQft: 0 (x), 1 (the rotation of      *)
(* qubit j by qubit k, or h when k = j) or 2 (measure).                    *)

CallOn(o, name, qubits, clbits, related, loop, j, k) ==
  <<[object |-> o,
     call |-> [name |-> name, qubits |-> qubits, clbits |-> clbits, related |-> related],
     gate |-> [loop |-> loop, j |-> j, k |-> k]]>>

RankAt(q) == mapping[q + 1].rank
IdxAt(q) == mapping[q + 1].local_idx

XOn(q) ==
  IF q % 2 = 1 THEN CallOn(RankAt(q), "x", <<IdxAt(q)>>, << >>, << >>, 0, q, q) ELSE << >>

\* Faulty variants: nothing is exposed; the place of the target is; the circuit of
\* the control is named in place of that of the target.
NothingExposed(j, k) == << >>
TargetIdxExposed(j, k) ==
  CallOn(RankAt(k), "expose", <<IdxAt(j)>>, << >>, <<RankAt(j)>>, 1, j, k)

ExposedToItself(j, k) ==
  CallOn(RankAt(k), "expose", <<IdxAt(k)>>, << >>, <<RankAt(k)>>, 1, j, k)

ExposeOf(j, k) ==
  CallOn(RankAt(k), "expose", <<IdxAt(k)>>, << >>, <<RankAt(j)>>, 1, j, k)

Rotation(j, k) ==
  IF RankAt(j) = RankAt(k)
  THEN CallOn(RankAt(j), "crz", <<IdxAt(k), IdxAt(j)>>, << >>, << >>, 1, j, k)
  ELSE ExposeOf(j, k)
       \o CallOn(RankAt(j), "crz", <<IdxAt(j)>>, << >>, <<RankAt(k)>>, 1, j, k)

HOn(j) == CallOn(RankAt(j), "h", <<IdxAt(j)>>, << >>, << >>, 1, j, j)

\* Faulty variant: h before the rotations of its qubit.
HFirst(j) == HOn(j) \o FlattenSeq([k \in 1 .. j |-> Rotation(j, k - 1)])

RotationsAndH(j) == FlattenSeq([k \in 1 .. j |-> Rotation(j, k - 1)]) \o HOn(j)

MeasureOf(q) == CallOn(RankAt(q), "measure", <<IdxAt(q)>>, <<IdxAt(q)>>, << >>, 2, q, q)

build_distributed_qft_circuits ==
  FlattenSeq([q \in 1 .. total |-> XOn(q - 1)])
  \o FlattenSeq([j \in 1 .. total |-> RotationsAndH(j - 1)])
  \o FlattenSeq([q \in 1 .. total |-> MeasureOf(q - 1)])

simple_telegate ==
  CallOn(controlCircuit, "h", <<0>>, << >>, << >>, 1, 0, 0)
  \o CallOn(controlCircuit, "expose", <<0>>, << >>, <<targetCircuit>>, 1, 1, 0)
  \o CallOn(targetCircuit, "cx", <<0>>, << >>, <<controlCircuit>>, 1, 1, 0)
  \o CallOn(targetCircuit, "measure", <<0>>, <<0>>, << >>, 2, 1, 1)

ProgramCalls ==
  IF program = "distributed_qft" THEN build_distributed_qft_circuits ELSE simple_telegate

\* build_global_mapping has returned, if the program calls it.
Mapped == program = "distributed_qft" => rank = qpus

Built == Mapped /\ calls = Len(ProgramCalls)

\* The argument of run.
Circuits ==
  IF program = "distributed_qft" THEN [i \in 1 .. qpus |-> i - 1]
                                 ELSE <<controlCircuit, targetCircuit>>

---------------------------------------------------------------------------
(* The steps of the program *)

BuildMapping ==
  /\ ~Mapped
  /\ MapNext
  /\ UNCHANGED <<vars, program, qpuVars, meant>>

AddNext ==
  /\ Mapped /\ ~Built
  /\ LET next == ProgramCalls[calls + 1]
     IN  /\ AddInstruction(next.object, next.call)
         /\ meant' = [meant EXCEPT ![next.object] = Append(@, next.gate)]
  /\ UNCHANGED <<runVars, mapVars, program, qpuVars>>

RunCircuits ==
  /\ Built
  /\ Run(Circuits)
  /\ UNCHANGED <<mapVars, program, qpuVars, meant>>

Send ==
  /\ SendCircuit \/ Complete
  /\ UNCHANGED <<mapVars, program, qpuVars, meant>>

---------------------------------------------------------------------------
(* The steps of the virtual QPUs *)

VirtualQpu == 1 .. Qpus + 2

HasNext(v) == v <= Len(sent) /\ position[v] < Len(sent[v].instructions)

NextOf(v) == sent[v].instructions[position[v] + 1]

\* The qubit of the algorithm at an index of virtual QPU v.
QubitAt(v, idx) ==
  IF program = "distributed_qft"
  THEN CHOOSE q \in 0 .. total - 1 : RankAt(q) = v - 1 /\ IdxAt(q) = idx
  ELSE v - 1

\* Virtual QPU v applies an instruction of that name, controlled by control.
Apply(v, name, idx, control) ==
  applied' = applied \cup
    {[gate |-> meant[Circuits[v]][position[v] + 1], name |-> name,
      target |-> QubitAt(v, idx), control |-> control]}

CanRun(v) == HasNext(v) /\ NextOf(v).name \notin RemoteGateNames

CanExpose(v) == HasNext(v) /\ NextOf(v).name = "expose" /\ v \notin exposed

\* v is at an rcontrol, and meets the offer of w, which it names.
CanMeet(v, w) ==
  /\ HasNext(v)
  /\ NextOf(v).name = "rcontrol"
  /\ NextOf(v).qpus = <<w>>
  /\ w \in exposed
  /\ NextOf(w).qpus = <<v>>

RunLocal(v) ==
  /\ CanRun(v)
  /\ Apply(v, NextOf(v).name, Last(NextOf(v).qubits), QubitAt(v, NextOf(v).qubits[1]))
  /\ position' = [position EXCEPT ![v] = @ + 1]
  /\ UNCHANGED <<vars, mapVars, program, exposed, meant>>

Expose(v) ==
  /\ CanExpose(v)
  /\ exposed' = exposed \cup {v}
  /\ UNCHANGED <<vars, mapVars, program, position, applied, meant>>

RunControlled(v, w) ==
  /\ CanMeet(v, w)
  /\ LET block == NextOf(v).instructions[1]
     IN  Apply(v, block.name, Last(block.qubits), QubitAt(w, NextOf(w).qubits[1]))
  /\ position' = [position EXCEPT ![v] = @ + 1, ![w] = @ + 1]
  /\ exposed' = exposed \ {w}
  /\ UNCHANGED <<vars, mapVars, program, meant>>

---------------------------------------------------------------------------
(* The specification *)

ExamplesInit ==
  /\ Init
  /\ MapInit
  /\ program \in {"distributed_qft", "simple_telegate"}
  /\ position = [v \in VirtualQpu |-> 0]
  /\ exposed = {}
  /\ meant = [o \in Object |-> << >>]
  /\ applied = {}

ProgramStep == BuildMapping \/ AddNext \/ RunCircuits \/ Send

QpuStep(v) == RunLocal(v) \/ Expose(v) \/ \E w \in VirtualQpu : RunControlled(v, w)

ExamplesNext == ProgramStep \/ \E v \in VirtualQpu : QpuStep(v)

ExamplesSpec == ExamplesInit /\ [][ExamplesNext]_exampleVars

\* A virtual QPU that can go on does, and so does the program.
FairExamplesSpec ==
  /\ ExamplesSpec
  /\ WF_exampleVars(ProgramStep)
  /\ \A v \in VirtualQpu : WF_exampleVars(QpuStep(v))

---------------------------------------------------------------------------
(* Properties *)

(***************************************************************************)
(* addInstruction accepts each call of the programs (simple_telegate does  *)
(* not look at its status), and run transforms each circuit.               *)
(***************************************************************************)
ExamplesAccepted ==
  /\ Mapped /\ ~Built =>
       LET next == ProgramCalls[calls + 1]
       IN  /\ RegisterStatus(next.object, next.call) = 0
           /\ Named(next.call) = Len(next.call.related)
  /\ outcome = "sending" /\ Len(sent) < Len(batch) => Transforms(batch[Len(sent) + 1])

NameOf(gate) ==
  CASE gate.loop = 0                        -> {"x"}
    [] gate.loop = 1 /\ gate.k = gate.j     -> {"h"}
    [] gate.loop = 1 /\ gate.k # gate.j     -> {"crz", "cx"}
    [] gate.loop = 2                        -> {"measure"}

(***************************************************************************)
(* Through the mapping of qubits to places, the builder, the ids, the      *)
(* virtual QPUs that they are mapped to and the meeting of an expose and   *)
(* an rcontrol, each gate is applied to the qubit, and controlled by the   *)
(* qubit, that the algorithm names.                                        *)
(***************************************************************************)
AppliesItsGate ==
  \A a \in applied :
    /\ a.name \in NameOf(a.gate)
    /\ a.target = a.gate.j
    /\ a.control = a.gate.k

Executed ==
  /\ outcome = "complete"
  /\ \A v \in 1 .. Len(sent) : ~HasNext(v)

(***************************************************************************)
(* Once all circuits are sent, the virtual QPUs never wait for each other  *)
(* in a circle, nor for an offer that no circuit makes: until all of them  *)
(* have ended, one can go on.                                              *)
(***************************************************************************)
OneGoesOn ==
  outcome = "complete" =>
    \/ Executed
    \/ \E v \in VirtualQpu :
         CanRun(v) \/ CanExpose(v) \/ \E w \in VirtualQpu : CanMeet(v, w)

(***************************************************************************)
(* The circuits end on every virtual QPU, although the first of them start *)
(* while the others have received nothing.                                 *)
(***************************************************************************)
ExamplesEnd == <>Executed

\* The state of DistributedQft that this state stands for: as long as no virtual
\* QPU of distributed_qft has started, and in simple_telegate, the initial one.
RanGates ==
  [r \in 0 .. Qpus - 1 |->
     IF program = "distributed_qft" THEN {meant[r][i] : i \in 1 .. position[r + 1]} ELSE {}]

ExposedRanks == IF program = "distributed_qft" THEN {v - 1 : v \in exposed} ELSE {}

AppliedGates ==
  IF program = "distributed_qft" THEN {<<a.gate, a.control>> : a \in applied} ELSE {}

(***************************************************************************)
(* What the virtual QPUs do with what they receive is what DistributedQft  *)
(* says of the iterations of the source, and so what is proved of it.      *)
(***************************************************************************)
Qft == INSTANCE DistributedQft WITH
  Qubits <- TotalQubits, ran <- RanGates, exposed <- ExposedRanks, applied <- AppliedGates

ImplementsQft == Qft!Spec

=============================================================================
