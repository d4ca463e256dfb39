--------------------------- MODULE QuantumCircuit ---------------------------
(***************************************************************************)
(* The circuit builder of lib/quantum_circuit: a program that makes        *)
(* QuantumCircuit objects and calls their methods in any order.            *)
(*                                                                         *)
(* The related circuits of an instruction are passed by value, but only    *)
(* their ids are kept.  Shots, seed, device and params are left out: no    *)
(* decision reads them.                                                    *)
(***************************************************************************)
EXTENDS Integers, Sequences

CONSTANTS
  Object,    \* the QuantumCircuit objects
  Namings,   \* the ids that the program may give them: functions on Object
  Qubits,    \* num_qubits of each object
  Clbits,    \* num_clbits of each object
  Calls,     \* what addInstruction is called with
  MaxCalls   \* bound: calls of methods in one behaviour

NoId == ""

ASSUME ObjectAssumption ==
  /\ Namings \subseteq [Object -> STRING]
  /\ Qubits \in [Object -> Nat]
  /\ Clbits \in [Object -> Nat]
  /\ Calls \subseteq [name : STRING, qubits : Seq(Int), clbits : Seq(Int),
                      related : Seq(Object)]
  /\ MaxCalls \in Nat

VARIABLES
  id,            \* the id of each object
  instructions,  \* the instructions of each object
  sending_to,    \* the ids in the order of addInstruction
  is_dynamic,
  returned,      \* what the last call of addInstruction on each object returned
  halfDone,      \* history: the objects with a call that returned 4 after it
                 \* had appended to sending_to
  calls          \* the number of calls so far

circuitVars == <<id, instructions, sending_to, is_dynamic, returned, halfDone, calls>>

Instruction == [name : STRING, qubits : Seq(Int), clbits : Seq(Int), circuits : Seq(STRING)]

SendsTo == {"send", "qsend", "expose"}
CommNames == {"send", "recv", "qsend", "qrecv", "expose", "rcontrol", "crz"}

\* The ids of the related circuits.
Ids(c) == [i \in 1 .. Len(c.related) |-> id[c.related[i]]]

\* The number of related circuits before the first one without an id.
Named(c) == CHOOSE n \in 0 .. Len(c.related) :
  /\ \A i \in 1 .. n : id[c.related[i]] # NoId
  /\ n < Len(c.related) => id[c.related[n + 1]] = NoId

\* Faulty variant: expose is forgotten.
PushedUnlessExpose(c) ==
  IF c.name \in SendsTo \ {"expose"} THEN SubSeq(Ids(c), 1, Named(c)) ELSE << >>

\* What the loop over the related circuits appends to sending_to.
Pushed(c) == IF c.name \in SendsTo THEN SubSeq(Ids(c), 1, Named(c)) ELSE << >>

\* Faulty variant: the last index is refused.
BelowTooStrict(indices, size) == \A i \in 1 .. Len(indices) : indices[i] < size - 1

\* Every index is at most size - 1 (negative ones as well).
Below(indices, size) == \A i \in 1 .. Len(indices) : indices[i] <= size - 1

\* The status of the checks on the registers.
RegisterStatus(o, c) ==
  CASE Len(c.qubits) > Qubits[o] \/ Len(c.clbits) > Clbits[o] -> 1
    [] ~Below(c.qubits, Qubits[o])                            -> 2
    [] ~Below(c.clbits, Clbits[o])                            -> 3
    [] OTHER                                                  -> 0

Count == calls < MaxCalls /\ calls' = calls + 1

---------------------------------------------------------------------------
(* The methods *)

\* addInstruction returns 1, 2 or 3.
RefuseRegisters(o, c) ==
  /\ Count
  /\ RegisterStatus(o, c) # 0
  /\ returned' = [returned EXCEPT ![o] = RegisterStatus(o, c)]
  /\ UNCHANGED <<id, instructions, sending_to, is_dynamic, halfDone>>

\* addInstruction returns 4: a related circuit has no id.
RefuseNoId(o, c) ==
  /\ Count
  /\ RegisterStatus(o, c) = 0
  /\ Named(c) < Len(c.related)
  /\ returned' = [returned EXCEPT ![o] = 4]
  /\ sending_to' = [sending_to EXCEPT ![o] = @ \o Pushed(c)]
  /\ halfDone' = IF Pushed(c) = << >> THEN halfDone ELSE halfDone \cup {o}
  /\ UNCHANGED <<id, instructions, is_dynamic>>

AddInstruction(o, c) ==
  /\ Count
  /\ RegisterStatus(o, c) = 0
  /\ Named(c) = Len(c.related)
  /\ returned' = [returned EXCEPT ![o] = 0]
  /\ sending_to' = [sending_to EXCEPT ![o] = @ \o Pushed(c)]
  /\ instructions' = [instructions EXCEPT ![o] = Append(@,
       [name |-> c.name, qubits |-> c.qubits, clbits |-> c.clbits, circuits |-> Ids(c)])]
  /\ UNCHANGED <<id, is_dynamic, halfDone>>

SetDynamic(o) ==
  /\ Count
  /\ \E dynamic \in BOOLEAN : is_dynamic' = [is_dynamic EXCEPT ![o] = dynamic]
  /\ UNCHANGED <<id, instructions, sending_to, returned, halfDone>>

\* Faulty variant: the related circuits are not looked at.
CommunicatesByName(sequence) ==
  \E i \in 1 .. Len(sequence) : sequence[i].name \in CommNames

\* checkCommAndSetDynamic finds an instruction.
Communicates(sequence) ==
  \E i \in 1 .. Len(sequence) :
    sequence[i].circuits # << >> \/ sequence[i].name \in CommNames

\* parseToRawQCJson, called by the program: the flag that it sets stays.
ParseToRawQCJson(o) ==
  /\ Count
  /\ is_dynamic' = [is_dynamic EXCEPT ![o] = @ \/ Communicates(instructions[o])]
  /\ UNCHANGED <<id, instructions, sending_to, returned, halfDone>>

\* The JSON of an object, as a record, with its history.
Raw(o) ==
  [id |-> id[o], instructions |-> instructions[o], sending_to |-> sending_to[o],
   is_dynamic |-> is_dynamic[o] \/ Communicates(instructions[o]),
   halfDone |-> o \in halfDone]

CircuitInit ==
  /\ id \in Namings
  /\ instructions = [o \in Object |-> << >>]
  /\ sending_to = [o \in Object |-> << >>]
  /\ is_dynamic = [o \in Object |-> FALSE]
  /\ returned = [o \in Object |-> 0]
  /\ halfDone = {}
  /\ calls = 0

CircuitNext == \E o \in Object :
  \/ \E c \in Calls : RefuseRegisters(o, c) \/ RefuseNoId(o, c) \/ AddInstruction(o, c)
  \/ SetDynamic(o)
  \/ ParseToRawQCJson(o)

=============================================================================
