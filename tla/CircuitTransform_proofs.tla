----------------------- MODULE CircuitTransform_proofs -----------------------
(***************************************************************************)
(* Theorems about the circuits that run sends, for any objects, names,     *)
(* calls and arguments of run.  The invariants hold of whatever program    *)
(* calls the methods with arguments of their types (AnyNext), so that      *)
(* they can be used of a particular one.                                   *)
(***************************************************************************)
EXTENDS CircuitTransform, WellFoundedInduction, TLAPS

\* What addInstruction can be called with.
Callable == [name : STRING, qubits : Seq(Int), clbits : Seq(Int), related : Seq(Object)]

Building == \E o \in Object :
  \/ \E c \in Callable : RefuseRegisters(o, c) \/ RefuseNoId(o, c) \/ AddInstruction(o, c)
  \/ SetDynamic(o)
  \/ ParseToRawQCJson(o)

\* The steps of any program, whatever calls and arguments it is limited to.
AnyNext ==
  \/ Building /\ UNCHANGED runVars
  \/ \E b \in Seq(Object) : Run(b)
  \/ SendCircuit \/ RefuseCircuit \/ Complete

LEMMA NextIsAny == [Next]_vars => [AnyNext]_vars
<1>1. Calls \subseteq Callable /\ Batches \subseteq Seq(Object)
  BY ObjectAssumption, BatchAssumption DEF Callable
<1>2. CircuitNext => Building
  BY <1>1 DEF CircuitNext, Building
<1> QED BY <1>1, <1>2 DEF Next, AnyNext

(***************************************************************************)
(* The inductive invariant.                                                *)
(***************************************************************************)

\* The objects keep sequences of instructions, and ids for names.
CircuitsTyped ==
  /\ id \in [Object -> STRING]
  /\ instructions \in [Object -> Seq(Instruction)]
  /\ is_dynamic \in [Object -> BOOLEAN]

\* What run holds of an object: the flag covers the instructions.
Formed(r) ==
  /\ r.instructions \in Seq(Instruction)
  /\ r.is_dynamic \in BOOLEAN
  /\ Communicates(r.instructions) => r.is_dynamic

BatchFormed == Len(batch) \in Nat /\ \A p \in 1 .. Len(batch) : Formed(batch[p])

\* What is sent is a first part of the batch, transformed without an error.
SentTransformed ==
  /\ sent \in Seq({Transform(batch[p]) : p \in 1 .. Len(batch)})
  /\ Len(sent) <= Len(batch)
  /\ outcome = "none" => sent = << >>
  /\ \A p \in 1 .. Len(sent) : sent[p] = Transform(batch[p]) /\ Transforms(batch[p])

TransformInv == CircuitsTyped /\ BatchFormed /\ SentTransformed

(***************************************************************************)
(* Lemmas on the operators.                                                *)
(***************************************************************************)

\* A nonempty set of natural numbers with a bound has a greatest element.
LEMMA GreatestBounded ==
  ASSUME NEW n \in Nat, NEW S \in SUBSET (1 .. n), S # {}
  PROVE  \E q \in S : \A i \in S : i <= q
<1> DEFINE T == {n - i : i \in S}
<1>1. T \in SUBSET Nat
  <2> SUFFICES ASSUME NEW i \in S PROVE n - i \in Nat
    OBVIOUS
  <2> QED
    OBVIOUS
<1>2. \A i \in S : n - i \in T
  OBVIOUS
<1>3. \A k \in T : \E i \in S : k = n - i
  OBVIOUS
<1> HIDE DEF T
<1>4. T # {}
  BY <1>2
<1>5. IsWellFoundedOn(OpToRel(<, Nat), Nat)
  BY NatLessThanWellFounded
<1>6. PICK m \in T : \A k \in T : ~ (<<k, m>> \in OpToRel(<, Nat))
  BY <1>1, <1>4, <1>5, WFMin
<1>7. \A k \in T : ~ (k < m)
  BY <1>1, <1>6 DEF OpToRel
<1>8. PICK q \in S : m = n - q
  BY <1>3
<1>9. ASSUME NEW i \in S PROVE i <= q
  <2>1. ~ (n - i < n - q)
    BY <1>2, <1>7, <1>8
  <2> QED
    BY <2>1
<1> QED
  BY <1>9

\* The correspondence gives an id the virtual QPU of a circuit that bears it.
LEMMA QpuBears ==
  ASSUME NEW x, Len(batch) \in Nat, Bearers(x) # {}
  PROVE  Qpu(x) \in Bearers(x)
<1>1. Bearers(x) \in SUBSET (1 .. Len(batch))
  BY DEF Bearers
<1>2. \E q \in Bearers(x) : \A i \in Bearers(x) : i <= q
  BY <1>1, GreatestBounded
<1> QED
  BY <1>2 DEF Qpu

\* The virtual QPUs of a transformed instruction are those of its circuits.
LEMMA QpusOfInstruction ==
  ASSUME NEW g
  PROVE  TransformInstruction(g).qpus = MapCircuitIdsToQpus(g.circuits)
BY DEF TransformInstruction, Plain, RControl

LEMMA InstructionsOfSent ==
  ASSUME TransformInv, NEW p \in 1 .. Len(sent)
  PROVE  /\ p \in 1 .. Len(batch)
         /\ Formed(batch[p])
         /\ Len(batch[p].instructions) \in Nat
         /\ Len(sent[p].instructions) = Len(batch[p].instructions)
         /\ \A i \in 1 .. Len(batch[p].instructions) :
              /\ batch[p].instructions[i] \in Instruction
              /\ sent[p].instructions[i] = TransformInstruction(batch[p].instructions[i])
              /\ AllKnown(batch[p].instructions[i].circuits)
<1>1. p \in 1 .. Len(batch)
  BY DEF TransformInv, BatchFormed, SentTransformed
<1>2. Formed(batch[p])
  BY <1>1 DEF TransformInv, BatchFormed
<1>3. sent[p] = Transform(batch[p]) /\ Transforms(batch[p])
  BY DEF TransformInv, SentTransformed
<1>4. Len(batch[p].instructions) \in Nat
  BY <1>2 DEF Formed
<1>5. sent[p].instructions = [i \in 1 .. Len(batch[p].instructions) |->
                                TransformInstruction(batch[p].instructions[i])]
  BY <1>3 DEF Transform
<1>6. Len(sent[p].instructions) = Len(batch[p].instructions)
  BY <1>4, <1>5
<1>7. \A i \in 1 .. Len(batch[p].instructions) :
        /\ batch[p].instructions[i] \in Instruction
        /\ sent[p].instructions[i] = TransformInstruction(batch[p].instructions[i])
        /\ AllKnown(batch[p].instructions[i].circuits)
  BY <1>2, <1>3, <1>5 DEF Formed, Transforms
<1> QED
  BY <1>1, <1>2, <1>4, <1>6, <1>7

(***************************************************************************)
(* The invariant holds.                                                    *)
(***************************************************************************)

LEMMA InitTransform == Init => TransformInv
<1> SUFFICES ASSUME Init PROVE TransformInv
  OBVIOUS
<1>1. CircuitsTyped
  BY ObjectAssumption DEF Init, CircuitInit, CircuitsTyped
<1>2. BatchFormed
  BY DEF Init, BatchFormed
<1>3. SentTransformed
  BY DEF Init, SentTransformed
<1> QED
  BY <1>1, <1>2, <1>3 DEF TransformInv

\* The correspondence, and with it the transformation, is a function of the batch.
LEMMA SameBatch ==
  ASSUME UNCHANGED batch, NEW c
  PROVE  Transform(c)' = Transform(c) /\ (Transforms(c)' <=> Transforms(c))
BY DEF Transform, Transforms, HasQpus, TransformInstruction, MapCircuitIdsToQpus, Qpu,
       AllKnown, Bearers, Plain, RControl

\* Building leaves what run has alone, and keeps the types.
LEMMA BuildingKeeps ==
  ASSUME TransformInv, Building, UNCHANGED runVars
  PROVE  TransformInv'
<1>1. CircuitsTyped'
  <2> USE DEF TransformInv, CircuitsTyped
  <2>1. PICK o \in Object :
          \/ \E c \in Callable : RefuseRegisters(o, c) \/ RefuseNoId(o, c) \/ AddInstruction(o, c)
          \/ SetDynamic(o)
          \/ ParseToRawQCJson(o)
    BY DEF Building
  <2>2. CASE \E c \in Callable : RefuseRegisters(o, c) \/ RefuseNoId(o, c)
    BY <2>2 DEF RefuseRegisters, RefuseNoId
  <2>3. ASSUME NEW c \in Callable, AddInstruction(o, c) PROVE CircuitsTyped'
    <3> DEFINE new == [name |-> c.name, qubits |-> c.qubits, clbits |-> c.clbits,
                       circuits |-> Ids(c)]
    <3>1. /\ c.name \in STRING /\ c.qubits \in Seq(Int) /\ c.clbits \in Seq(Int)
          /\ c.related \in Seq(Object)
      BY DEF Callable
    <3>2. Ids(c) \in Seq(STRING)
      BY <3>1 DEF Ids
    <3>3. new \in Instruction
      BY <3>1, <3>2 DEF Instruction
    <3>4. instructions' = [instructions EXCEPT ![o] = Append(@, new)]
      BY <2>3 DEF AddInstruction
    <3> HIDE DEF new
    <3>5. instructions' \in [Object -> Seq(Instruction)]
      BY <3>3, <3>4
    <3> QED
      BY <2>3, <3>5 DEF AddInstruction
  <2>4. CASE SetDynamic(o)
    BY <2>4 DEF SetDynamic
  <2>5. CASE ParseToRawQCJson(o)
    <3>1. (is_dynamic[o] \/ Communicates(instructions[o])) \in BOOLEAN
      BY DEF Communicates
    <3> QED
      BY <2>5, <3>1 DEF ParseToRawQCJson
  <2> QED
    BY <2>1, <2>2, <2>3, <2>4, <2>5
<1>2. BatchFormed'
  BY DEF TransformInv, BatchFormed, runVars
<1>3. SentTransformed'
  <2>1. batch' = batch /\ sent' = sent /\ outcome' = outcome
    BY DEF runVars
  <2>2. \A p \in 1 .. Len(batch) :
          Transform(batch[p])' = Transform(batch[p]) /\ (Transforms(batch[p])' <=> Transforms(batch[p]))
    BY <2>1, SameBatch
  <2> QED
    BY <2>1, <2>2 DEF TransformInv, SentTransformed
<1> QED
  BY <1>1, <1>2, <1>3 DEF TransformInv

\* run copies its argument: the flag is set as the JSON is written.
LEMMA RunKeeps ==
  ASSUME TransformInv, NEW b \in Seq(Object), Run(b)
  PROVE  TransformInv'
<1>1. b \in Seq(Object)
  OBVIOUS
<1>2. CircuitsTyped'
  BY DEF TransformInv, CircuitsTyped, Run, circuitVars
<1>3. \A o \in Object : Formed(Raw(o))
  BY DEF TransformInv, CircuitsTyped, Formed, Raw, Communicates
<1>4. batch' = [i \in 1 .. Len(b) |-> Raw(b[i])] /\ Len(b) \in Nat
  BY <1>1 DEF Run
<1>5. Len(batch') = Len(b) /\ \A p \in 1 .. Len(b) : batch'[p] = Raw(b[p]) /\ b[p] \in Object
  BY <1>1, <1>4
<1>6. BatchFormed'
  BY <1>3, <1>4, <1>5 DEF BatchFormed, Formed, Communicates
<1>7. sent' = << >> /\ outcome' = "sending"
  BY DEF TransformInv, SentTransformed, Run
<1>8. SentTransformed'
  BY <1>4, <1>5, <1>7 DEF SentTransformed
<1> QED
  BY <1>2, <1>6, <1>8 DEF TransformInv

\* One more circuit is sent: those sent before stay as they are.
LEMMA SendKeeps ==
  ASSUME TransformInv, SendCircuit
  PROVE  TransformInv'
<1> DEFINE S == {Transform(batch[p]) : p \in 1 .. Len(batch)}
           new == Transform(batch[Len(sent) + 1])
<1>1. /\ sent \in Seq(S)
      /\ Len(sent) < Len(batch)
      /\ Transforms(batch[Len(sent) + 1])
      /\ sent' = Append(sent, new)
      /\ outcome = "sending"
      /\ batch' = batch /\ outcome' = outcome
      /\ Len(batch) \in Nat /\ Len(sent) \in Nat
  BY DEF TransformInv, SentTransformed, BatchFormed, SendCircuit
<1>2. new \in S
  BY <1>1
<1>3. /\ sent' \in Seq(S)
      /\ Len(sent') = Len(sent) + 1
      /\ sent'[Len(sent) + 1] = new
      /\ \A p \in 1 .. Len(sent) : sent'[p] = sent[p]
  <2> HIDE DEF S, new
  <2> QED
    BY <1>1, <1>2
<1>4. ASSUME NEW c
      PROVE  Transform(c)' = Transform(c) /\ (Transforms(c)' <=> Transforms(c))
  BY <1>1, SameBatch
<1>5. SentTransformed'
  <2>1. sent' \in Seq({Transform(batch[p])' : p \in 1 .. Len(batch)})
    BY <1>1, <1>3, <1>4
  <2>2. \A p \in 1 .. Len(sent') : sent'[p] = Transform(batch[p]) /\ Transforms(batch[p])
    <3> SUFFICES ASSUME NEW p \in 1 .. Len(sent')
                 PROVE  sent'[p] = Transform(batch[p]) /\ Transforms(batch[p])
      OBVIOUS
    <3>1. CASE p = Len(sent) + 1
      BY <1>1, <1>3, <3>1
    <3>2. CASE p \in 1 .. Len(sent)
      BY <1>3, <3>2 DEF TransformInv, SentTransformed
    <3> QED
      BY <1>1, <1>3, <3>1, <3>2
  <2> QED
    BY <1>1, <1>3, <1>4, <2>1, <2>2 DEF SentTransformed
<1>6. CircuitsTyped'
  BY DEF TransformInv, CircuitsTyped, SendCircuit, circuitVars
<1>7. BatchFormed'
  BY <1>1 DEF TransformInv, BatchFormed
<1> QED
  BY <1>5, <1>6, <1>7 DEF TransformInv

\* The other steps leave the batch and what was sent alone.
LEMMA OthersKeep ==
  ASSUME TransformInv, UNCHANGED <<batch, sent, circuitVars>>,
         outcome' = "none" => outcome = "none"
  PROVE  TransformInv'
<1>1. batch' = batch /\ sent' = sent
  OBVIOUS
<1>2. CircuitsTyped'
  BY DEF TransformInv, CircuitsTyped, circuitVars
<1>3. BatchFormed'
  BY <1>1 DEF TransformInv, BatchFormed
<1>4. \A p \in 1 .. Len(batch) :
        Transform(batch[p])' = Transform(batch[p]) /\ (Transforms(batch[p])' <=> Transforms(batch[p]))
  BY <1>1, SameBatch
<1>5. SentTransformed'
  BY <1>1, <1>4 DEF TransformInv, SentTransformed
<1> QED
  BY <1>2, <1>3, <1>5 DEF TransformInv

LEMMA NextTransform == TransformInv /\ [AnyNext]_vars => TransformInv'
<1> SUFFICES ASSUME TransformInv, [AnyNext]_vars PROVE TransformInv'
  OBVIOUS
<1>1. CASE Building /\ UNCHANGED runVars
  BY <1>1, BuildingKeeps
<1>2. ASSUME NEW b \in Seq(Object), Run(b) PROVE TransformInv'
  BY <1>2, RunKeeps
<1>3. CASE SendCircuit
  BY <1>3, SendKeeps
<1>4. CASE RefuseCircuit
  BY <1>4, OthersKeep DEF RefuseCircuit
<1>5. CASE Complete
  BY <1>5, OthersKeep DEF Complete
<1>6. CASE UNCHANGED vars
  BY <1>6, OthersKeep DEF vars, runVars
<1> QED
  BY <1>1, <1>2, <1>3, <1>4, <1>5, <1>6 DEF AnyNext

LEMMA TransformInvariant == Spec => []TransformInv
BY InitTransform, NextIsAny, NextTransform, PTL DEF Spec

(***************************************************************************)
(* For every set of circuits, ids and arguments of run: a sent instruction *)
(* names only virtual QPUs that hold, or are about to get, a circuit of    *)
(* the id that the program named.                                          *)
(***************************************************************************)
THEOREM TalksToNamedHolds == Spec => []TalksToNamed
<1>1. TransformInv => TalksToNamed
  <2> SUFFICES ASSUME TransformInv, NEW p \in 1 .. Len(sent)
               PROVE  /\ \A i \in 1 .. Len(batch[p].instructions) :
                           LET circuits == batch[p].instructions[i].circuits
                               qpus == sent[p].instructions[i].qpus
                           IN  /\ Len(qpus) = Len(circuits)
                               /\ \A k \in 1 .. Len(qpus) :
                                    /\ qpus[k] \in 1 .. Len(batch)
                                    /\ batch[qpus[k]].id = circuits[k]
                      /\ DistinctIds => sent[p].id = p
    BY DEF TalksToNamed
  <2>1. p \in 1 .. Len(batch) /\ Len(batch) \in Nat
    BY InstructionsOfSent DEF TransformInv, BatchFormed
  <2>2. ASSUME NEW i \in 1 .. Len(batch[p].instructions)
        PROVE  LET circuits == batch[p].instructions[i].circuits
                   qpus == sent[p].instructions[i].qpus
               IN  /\ Len(qpus) = Len(circuits)
                   /\ \A k \in 1 .. Len(qpus) :
                        /\ qpus[k] \in 1 .. Len(batch)
                        /\ batch[qpus[k]].id = circuits[k]
    <3> DEFINE circuits == batch[p].instructions[i].circuits
               qpus == sent[p].instructions[i].qpus
    <3>1. circuits \in Seq(STRING) /\ AllKnown(circuits)
      BY <2>2, InstructionsOfSent DEF Instruction
    <3>2. qpus = MapCircuitIdsToQpus(circuits)
      BY <2>2, InstructionsOfSent, QpusOfInstruction
    <3> HIDE DEF circuits, qpus
    <3>3. Len(circuits) \in Nat /\ qpus = [k \in 1 .. Len(circuits) |-> Qpu(circuits[k])]
      BY <3>1, <3>2 DEF MapCircuitIdsToQpus
    <3>4. Len(qpus) = Len(circuits)
      BY <3>3
    <3>5. ASSUME NEW k \in 1 .. Len(qpus)
          PROVE  qpus[k] \in 1 .. Len(batch) /\ batch[qpus[k]].id = circuits[k]
      <4>1. Bearers(circuits[k]) # {} /\ qpus[k] = Qpu(circuits[k])
        BY <3>1, <3>3, <3>4 DEF AllKnown
      <4> QED
        BY <2>1, <4>1, QpuBears DEF Bearers
    <3>6. /\ Len(qpus) = Len(circuits)
          /\ \A k \in 1 .. Len(qpus) :
               qpus[k] \in 1 .. Len(batch) /\ batch[qpus[k]].id = circuits[k]
      BY <3>4, <3>5
    <3> QED
      BY <3>6 DEF circuits, qpus
  <2>3. ASSUME DistinctIds PROVE sent[p].id = p
    <3>1. p \in Bearers(batch[p].id)
      BY <2>1 DEF Bearers
    <3>2. Qpu(batch[p].id) \in Bearers(batch[p].id)
      BY <2>1, <3>1, QpuBears
    <3>3. sent[p].id = Qpu(batch[p].id)
      <4>1. sent[p] = Transform(batch[p])
        BY DEF TransformInv, SentTransformed
      <4> QED
        BY <4>1 DEF Transform
    <3> QED
      BY <2>1, <2>3, <3>2, <3>3 DEF Bearers, DistinctIds
  <2> QED
    BY <2>2, <2>3
<1> QED
  BY <1>1, TransformInvariant, PTL

(***************************************************************************)
(* For every program: a sent circuit that waits for another virtual QPU is *)
(* dynamic, as its JSON was written after its last instruction was added.  *)
(***************************************************************************)
THEOREM CommunicatesDynamicallyHolds == Spec => []CommunicatesDynamically
<1>1. TransformInv => CommunicatesDynamically
  <2> SUFFICES ASSUME TransformInv, NEW p \in 1 .. Len(sent),
                      NEW i \in 1 .. Len(sent[p].instructions),
                      sent[p].instructions[i].qpus # << >>
               PROVE  sent[p].is_dynamic
    BY DEF CommunicatesDynamically
  <2> DEFINE g == batch[p].instructions[i]
  <2>1. /\ i \in 1 .. Len(batch[p].instructions)
        /\ g \in Instruction
        /\ sent[p].instructions[i].qpus = MapCircuitIdsToQpus(g.circuits)
    BY InstructionsOfSent, QpusOfInstruction
  <2>2. g.circuits # << >>
    <3> SUFFICES ASSUME g.circuits = << >> PROVE FALSE
      OBVIOUS
    <3>1. MapCircuitIdsToQpus(g.circuits) = << >>
      BY DEF MapCircuitIdsToQpus
    <3> QED
      BY <2>1, <3>1
  <2>3. Communicates(batch[p].instructions)
    BY <2>1, <2>2 DEF Communicates
  <2>4. batch[p].is_dynamic
    BY <2>3, InstructionsOfSent DEF Formed
  <2>5. sent[p] = Transform(batch[p])
    BY DEF TransformInv, SentTransformed
  <2>6. sent[p].is_dynamic = batch[p].is_dynamic
    BY <2>5 DEF Transform
  <2> QED
    BY <2>4, <2>6
<1> QED
  BY <1>1, TransformInvariant, PTL

\* A sequence of controls, before qubits of the own circuit.
LEMMA ControlsFirst ==
  ASSUME NEW size \in Nat, NEW own \in Seq(Int), \A k \in 1 .. Len(own) : own[k] >= 0,
         NEW n \in 1 .. size
  PROVE  LET qubits == RemoteQubits(size) \o own
         IN  \E k \in 1 .. Len(qubits) :
               /\ qubits[k] = -n
               /\ \A m \in 1 .. Len(qubits) : qubits[m] = -n => m = k
<1> DEFINE remote == RemoteQubits(size)
           qubits == remote \o own
<1>1. /\ remote \in Seq(Int)
      /\ Len(remote) = size
      /\ \A k \in 1 .. size : remote[k] = -k
  BY DEF RemoteQubits
<1> HIDE DEF remote
<1>2. /\ Len(qubits) = size + Len(own)
      /\ \A k \in 1 .. size : qubits[k] = -k
      /\ \A k \in size + 1 .. size + Len(own) : qubits[k] = own[k - size]
      /\ Len(own) \in Nat
  <2>1. Len(own) \in Nat
    OBVIOUS
  <2>2. Len(qubits) = size + Len(own)
    BY <1>1, <2>1
  <2>3. \A k \in 1 .. size : qubits[k] = -k
    BY <1>1, <2>1
  <2>4. \A k \in size + 1 .. size + Len(own) : qubits[k] = own[k - size]
    BY <1>1, <2>1
  <2> QED
    BY <2>1, <2>2, <2>3, <2>4
<1> HIDE DEF qubits
<1>3. n \in 1 .. Len(qubits) /\ qubits[n] = -n
  BY <1>2
<1>4. ASSUME NEW m \in 1 .. Len(qubits), qubits[m] = -n PROVE m = n
  <2>1. CASE m \in 1 .. size
    BY <1>2, <1>4, <2>1
  <2>2. CASE m \in size + 1 .. size + Len(own)
    <3>1. m - size \in 1 .. Len(own) /\ own[m - size] = -n
      BY <1>2, <1>4, <2>2
    <3>2. own[m - size] >= 0
      BY <3>1
    <3> QED
      BY <3>1, <3>2
  <2> QED
    BY <1>2, <2>1, <2>2
<1>5. \E k \in 1 .. Len(qubits) :
        /\ qubits[k] = -n
        /\ \A m \in 1 .. Len(qubits) : qubits[m] = -n => m = k
  BY <1>3, <1>4
<1> QED
  BY <1>5 DEF qubits, remote

(***************************************************************************)
(* For every program: in a controlled block each exposed qubit has an      *)
(* index of its own, unless the program has used a negative one.           *)
(***************************************************************************)
THEOREM ControlsApartHolds == Spec => []ControlsApart
<1>1. TransformInv => ControlsApart
  <2> SUFFICES ASSUME TransformInv, NEW p \in 1 .. Len(sent),
                      NEW i \in 1 .. Len(sent[p].instructions),
                      sent[p].instructions[i].name = "rcontrol",
                      \A k \in 1 .. Len(batch[p].instructions[i].qubits) :
                        batch[p].instructions[i].qubits[k] >= 0,
                      NEW n \in 1 .. Len(sent[p].instructions[i].qpus)
               PROVE  LET qubits == sent[p].instructions[i].instructions[1].qubits
                      IN  \E k \in 1 .. Len(qubits) :
                            /\ qubits[k] = -n
                            /\ \A m \in 1 .. Len(qubits) : qubits[m] = -n => m = k
    BY DEF ControlsApart
  <2> DEFINE g == batch[p].instructions[i]
             t == TransformInstruction(g)
  <2>1. /\ i \in 1 .. Len(batch[p].instructions)
        /\ g \in Instruction
        /\ sent[p].instructions[i] = t
    BY InstructionsOfSent
  <2>2. HasQpus(t) /\ t.name = "rcontrol"
    <3>1. Transforms(batch[p])
      BY DEF TransformInv, SentTransformed
    <3> QED
      BY <2>1, <3>1 DEF Transforms
  <2>3. t.instructions # << >>
    BY <2>2 DEF HasQpus, RemoteGateNames
  <2>4. t = RControl(g, t.qpus)
    BY <2>3 DEF TransformInstruction, Plain, RControl
  <2>5. t.instructions[1].qubits = RemoteQubits(Len(t.qpus)) \o g.qubits
    <3> DEFINE block == [name |-> g.name, clbits |-> g.clbits,
                         qubits |-> RemoteQubits(Len(t.qpus)) \o g.qubits]
    <3> HIDE DEF t
    <3>1. t.instructions = <<block>>
      BY <2>4 DEF RControl
    <3>2. block.qubits = RemoteQubits(Len(t.qpus)) \o g.qubits
      OBVIOUS
    <3>3. t.instructions[1] = block
      BY <3>1
    <3> HIDE DEF block
    <3> QED
      BY <3>2, <3>3, Zenon
  <2>6. Len(t.qpus) \in Nat
    <3>1. g.circuits \in Seq(STRING) /\ t.qpus = MapCircuitIdsToQpus(g.circuits)
      BY <2>1, QpusOfInstruction DEF Instruction
    <3> QED
      BY <3>1 DEF MapCircuitIdsToQpus
  <2>7. g.qubits \in Seq(Int)
    BY <2>1 DEF Instruction
  <2> HIDE DEF t
  <2>8. n \in 1 .. Len(t.qpus)
    BY <2>1
  <2>9. \A k \in 1 .. Len(g.qubits) : g.qubits[k] >= 0
    OBVIOUS
  <2>10. LET qubits == RemoteQubits(Len(t.qpus)) \o g.qubits
         IN  \E k \in 1 .. Len(qubits) :
               /\ qubits[k] = -n
               /\ \A m \in 1 .. Len(qubits) : qubits[m] = -n => m = k
    BY <2>6, <2>7, <2>8, <2>9, ControlsFirst
  <2> QED
    BY <2>1, <2>5, <2>10
<1> QED
  BY <1>1, TransformInvariant, PTL

(***************************************************************************)
(* What a circuit declares: sending_to and the instructions that send.     *)
(***************************************************************************)

\* The targets name all circuits of the sending instructions, and no others
\* unless a call had been given up half way.
Declares(sequence, targets, half) ==
  /\ \A i \in 1 .. Len(sequence) : sequence[i].name \in SendsTo =>
       \A k \in 1 .. Len(sequence[i].circuits) :
         \E j \in 1 .. Len(targets) : targets[j] = sequence[i].circuits[k]
  /\ ~half =>
       \A j \in 1 .. Len(targets) : \E i \in 1 .. Len(sequence) :
         /\ sequence[i].name \in SendsTo
         /\ \E k \in 1 .. Len(sequence[i].circuits) : targets[j] = sequence[i].circuits[k]

ObjectsDeclare ==
  /\ sending_to \in [Object -> Seq(STRING)]
  /\ \A o \in Object : Declares(instructions[o], sending_to[o], o \in halfDone)

BatchDeclares ==
  \A p \in 1 .. Len(batch) :
    /\ batch[p].sending_to \in Seq(STRING)
    /\ Declares(batch[p].instructions, batch[p].sending_to, batch[p].halfDone)

\* run stops at the first circuit that does not transform.
RefusedFirst ==
  outcome = "refused" =>
    Len(sent) < Len(batch) /\ ~Transforms(batch[Len(sent) + 1])

TargetsInv == ObjectsDeclare /\ BatchDeclares /\ RefusedFirst

\* The related circuits up to the first one without an id.
LEMMA NamedType ==
  ASSUME NEW c \in Callable
  PROVE  Named(c) \in 0 .. Len(c.related)
<1> DEFINE size == Len(c.related)
           unnamed == {i \in 1 .. size : id[c.related[i]] = NoId}
           Fits(n) == /\ \A i \in 1 .. n : id[c.related[i]] # NoId
                      /\ n < size => id[c.related[n + 1]] = NoId
<1>1. size \in Nat
  BY DEF Callable
<1>2. \E n \in 0 .. size : Fits(n)
  <2>1. CASE unnamed = {}
    <3>1. size \in 0 .. size /\ ~(size < size)
      BY <1>1
    <3>2. \A i \in 1 .. size : id[c.related[i]] # NoId
      BY <2>1
    <3> QED BY <3>1, <3>2
  <2>2. CASE unnamed # {}
    <3>1. unnamed \in SUBSET Nat
      BY <1>1
    <3>2. IsWellFoundedOn(OpToRel(<, Nat), Nat)
      BY NatLessThanWellFounded
    <3>3. PICK m \in unnamed : \A i \in unnamed : ~ (<<i, m>> \in OpToRel(<, Nat))
      <4> HIDE DEF unnamed
      <4> QED BY <2>2, <3>1, <3>2, WFMin
    <3>4. m \in Nat /\ m \in 1 .. size /\ id[c.related[m]] = NoId
          /\ \A i \in unnamed : ~ (i < m)
      BY <3>1, <3>3 DEF OpToRel
    <3>5. m - 1 \in 0 .. size /\ (m - 1) + 1 = m
      BY <1>1, <3>4
    <3>6. \A i \in 1 .. m - 1 : id[c.related[i]] # NoId
      BY <1>1, <3>4
    <3>7. Fits(m - 1)
      BY <3>4, <3>5, <3>6
    <3> QED BY <3>5, <3>7
  <2> QED BY <2>1, <2>2
<1> QED BY <1>2 DEF Named

\* What a call appends to sending_to.
LEMMA PushedType ==
  ASSUME CircuitsTyped, NEW c \in Callable
  PROVE  /\ Pushed(c) \in Seq(STRING)
         /\ Ids(c) \in Seq(STRING)
         /\ c.name \notin SendsTo => Pushed(c) = << >>
         /\ c.name \in SendsTo /\ Named(c) = Len(c.related) => Pushed(c) = Ids(c)
<1>1. c.related \in Seq(Object) /\ Len(c.related) \in Nat
  BY DEF Callable
<1>2. Ids(c) \in Seq(STRING) /\ Len(Ids(c)) = Len(c.related)
  BY <1>1 DEF Ids, CircuitsTyped
<1>3. Named(c) \in 0 .. Len(Ids(c))
  BY <1>2, NamedType
<1> DEFINE ids == Ids(c)
<1>4. SubSeq(ids, 1, Named(c)) \in Seq(STRING)
  <2> HIDE DEF ids
  <2>1. ids \in Seq(STRING) /\ Named(c) \in 0 .. Len(ids) /\ Len(ids) \in Nat
    BY <1>1, <1>2, <1>3 DEF ids
  <2>2. \A i \in 1 .. Named(c) : ids[i] \in STRING
    BY <2>1
  <2> QED BY <2>1, <2>2
<1>5. Named(c) = Len(c.related) => SubSeq(ids, 1, Named(c)) = ids
  <2> HIDE DEF ids
  <2>1. ids \in Seq(STRING) /\ Len(ids) = Len(c.related)
    BY <1>2 DEF ids
  <2> QED BY <2>1
<1>6. << >> \in Seq(STRING)
  OBVIOUS
<1> HIDE DEF ids
<1>7. Pushed(c) = IF c.name \in SendsTo THEN SubSeq(ids, 1, Named(c)) ELSE << >>
  BY DEF Pushed, ids
<1>8. Pushed(c) \in Seq(STRING)
  BY <1>4, <1>6, <1>7
<1>9. c.name \in SendsTo /\ Named(c) = Len(c.related) => Pushed(c) = Ids(c)
  BY <1>5, <1>7 DEF ids
<1> QED BY <1>2, <1>7, <1>8, <1>9

\* The positions of two sequences, one after the other.
LEMMA Concatenated ==
  ASSUME NEW s \in Seq(STRING), NEW t \in Seq(STRING)
  PROVE  /\ s \o t \in Seq(STRING)
         /\ \A i \in 1 .. Len(s) : i \in 1 .. Len(s \o t) /\ (s \o t)[i] = s[i]
         /\ \A k \in 1 .. Len(t) : Len(s) + k \in 1 .. Len(s \o t) /\ (s \o t)[Len(s) + k] = t[k]
         /\ \A j \in 1 .. Len(s \o t) :
              j \in 1 .. Len(s) \/ \E k \in 1 .. Len(t) : j = Len(s) + k
<1>1. Len(s \o t) = Len(s) + Len(t) /\ Len(s) \in Nat /\ Len(t) \in Nat
  OBVIOUS
<1>2. \A j \in 1 .. Len(s \o t) :
        j \in 1 .. Len(s) \/ \E k \in 1 .. Len(t) : j = Len(s) + k
  <2> SUFFICES ASSUME NEW j \in 1 .. Len(s \o t), j \notin 1 .. Len(s)
               PROVE  \E k \in 1 .. Len(t) : j = Len(s) + k
    OBVIOUS
  <2>1. j - Len(s) \in 1 .. Len(t) /\ j = Len(s) + (j - Len(s))
    BY <1>1
  <2> QED BY <2>1
<1> QED BY <1>1, <1>2

\* A call that is given up may leave targets without an instruction.
LEMMA DeclaresMore ==
  ASSUME NEW sequence, NEW s \in Seq(STRING), NEW t \in Seq(STRING), NEW half,
         Declares(sequence, s, half)
  PROVE  Declares(sequence, s \o t, TRUE)
BY Concatenated DEF Declares

\* A call that adds an instruction declares the circuits of that one.
LEMMA DeclaresNew ==
  ASSUME NEW sequence \in Seq(Instruction), NEW s \in Seq(STRING), NEW t \in Seq(STRING),
         NEW half \in BOOLEAN, Declares(sequence, s, half), NEW g \in Instruction,
         t = IF g.name \in SendsTo THEN g.circuits ELSE << >>
  PROVE  Declares(Append(sequence, g), s \o t, half)
<1> DEFINE n == Len(sequence)
           longer == Append(sequence, g)
<1>1. /\ n \in Nat
      /\ Len(longer) = n + 1
      /\ longer[n + 1] = g
      /\ \A i \in 1 .. n : longer[i] = sequence[i]
  OBVIOUS
<1> HIDE DEF longer, n
<1> DEFINE both == s \o t
<1>2. /\ \A i \in 1 .. Len(s) : i \in 1 .. Len(both) /\ both[i] = s[i]
      /\ \A k \in 1 .. Len(t) : Len(s) + k \in 1 .. Len(both) /\ both[Len(s) + k] = t[k]
      /\ \A j \in 1 .. Len(both) :
           j \in 1 .. Len(s) \/ \E k \in 1 .. Len(t) : j = Len(s) + k
  BY Concatenated
<1> HIDE DEF both
<1>3. \A i \in 1 .. Len(longer) : longer[i].name \in SendsTo =>
        \A k \in 1 .. Len(longer[i].circuits) :
          \E j \in 1 .. Len(both) : both[j] = longer[i].circuits[k]
  <2> SUFFICES ASSUME NEW i \in 1 .. Len(longer), longer[i].name \in SendsTo,
                      NEW k \in 1 .. Len(longer[i].circuits)
               PROVE  \E j \in 1 .. Len(both) : both[j] = longer[i].circuits[k]
    OBVIOUS
  <2>1. CASE i = n + 1
    <3>1. longer[i] = g /\ t = g.circuits
      BY <1>1, <2>1
    <3>2. k \in 1 .. Len(t)
      BY <3>1
    <3> QED BY <1>2, <3>1, <3>2
  <2>2. CASE i \in 1 .. n
    <3>1. longer[i] = sequence[i]
      BY <1>1, <2>2
    <3>2. PICK j \in 1 .. Len(s) : s[j] = sequence[i].circuits[k]
      BY <2>2, <3>1 DEF Declares, n
    <3> QED BY <1>2, <3>1, <3>2
  <2> QED BY <1>1, <2>1, <2>2
<1>4. ASSUME ~half, NEW j \in 1 .. Len(both)
      PROVE  \E i \in 1 .. Len(longer) :
               /\ longer[i].name \in SendsTo
               /\ \E k \in 1 .. Len(longer[i].circuits) : both[j] = longer[i].circuits[k]
  <2>1. CASE j \in 1 .. Len(s)
    <3>1. PICK i \in 1 .. n :
            /\ sequence[i].name \in SendsTo
            /\ \E k \in 1 .. Len(sequence[i].circuits) : s[j] = sequence[i].circuits[k]
      BY <1>4, <2>1 DEF Declares, n
    <3>2. i \in 1 .. Len(longer) /\ longer[i] = sequence[i] /\ both[j] = s[j]
      BY <1>1, <1>2, <2>1
    <3> QED BY <3>1, <3>2
  <2>2. ASSUME NEW k \in 1 .. Len(t), j = Len(s) + k
        PROVE  \E i \in 1 .. Len(longer) :
                 /\ longer[i].name \in SendsTo
                 /\ \E m \in 1 .. Len(longer[i].circuits) : both[j] = longer[i].circuits[m]
    <3>1. g.name \in SendsTo /\ t = g.circuits
      BY <2>2
    <3>2. both[j] = g.circuits[k]
      BY <1>2, <2>2, <3>1
    <3>3. n + 1 \in 1 .. Len(longer) /\ longer[n + 1] = g
      BY <1>1
    <3> QED BY <2>2, <3>1, <3>2, <3>3
  <2> QED BY <1>2, <2>1, <2>2
<1> QED BY <1>3, <1>4 DEF Declares, longer, both

LEMMA InitTargets == Init => TargetsInv
<1> SUFFICES ASSUME Init PROVE TargetsInv
  OBVIOUS
<1>1. ObjectsDeclare
  BY DEF Init, CircuitInit, ObjectsDeclare, Declares
<1>2. BatchDeclares
  BY DEF Init, BatchDeclares
<1>3. RefusedFirst
  BY DEF Init, RefusedFirst
<1> QED BY <1>1, <1>2, <1>3 DEF TargetsInv

\* A call of addInstruction keeps what the objects declare.
LEMMA CallDeclares ==
  ASSUME CircuitsTyped, ObjectsDeclare, NEW o \in Object, NEW c \in Callable,
         RefuseNoId(o, c) \/ AddInstruction(o, c)
  PROVE  ObjectsDeclare'
<1>1. /\ Pushed(c) \in Seq(STRING)
      /\ Ids(c) \in Seq(STRING)
      /\ c.name \notin SendsTo => Pushed(c) = << >>
      /\ c.name \in SendsTo /\ Named(c) = Len(c.related) => Pushed(c) = Ids(c)
  BY PushedType
<1> DEFINE old == sending_to[o]
           new == old \o Pushed(c)
<1>2. /\ instructions \in [Object -> Seq(Instruction)]
      /\ sending_to \in [Object -> Seq(STRING)]
      /\ old \in Seq(STRING)
      /\ Declares(instructions[o], old, o \in halfDone)
  BY DEF CircuitsTyped, ObjectsDeclare
<1>3. sending_to' = [sending_to EXCEPT ![o] = new]
  BY DEF RefuseNoId, AddInstruction
<1>4. new \in Seq(STRING)
  BY <1>1, <1>2, Concatenated
<1> HIDE DEF new, old
<1>5. sending_to' \in [Object -> Seq(STRING)] /\ sending_to'[o] = new
  BY <1>2, <1>3, <1>4
<1>6. ASSUME NEW x \in Object \ {o}
      PROVE  Declares(instructions'[x], sending_to'[x], x \in halfDone')
  <2>1. sending_to'[x] = sending_to[x]
    BY <1>2, <1>3
  <2>2. instructions'[x] = instructions[x]
    BY <1>2 DEF RefuseNoId, AddInstruction
  <2>3. x \in halfDone' <=> x \in halfDone
    BY DEF RefuseNoId, AddInstruction
  <2>4. Declares(instructions[x], sending_to[x], x \in halfDone)
    BY DEF ObjectsDeclare
  <2> QED BY <2>1, <2>2, <2>3, <2>4 DEF Declares
<1>7. CASE RefuseNoId(o, c)
  <2>1. Declares(instructions[o], new, o \in halfDone')
    <3>1. CASE Pushed(c) = << >>
      <4>1. new = old
        BY <1>2, <3>1 DEF new
      <4>2. halfDone' = halfDone
        BY <1>7, <3>1 DEF RefuseNoId
      <4> QED BY <1>2, <4>1, <4>2
    <3>2. CASE Pushed(c) # << >>
      <4>1. (o \in halfDone') = TRUE
        BY <1>7, <3>2 DEF RefuseNoId
      <4>2. Declares(instructions[o], new, TRUE)
        BY <1>1, <1>2, DeclaresMore DEF new
      <4> QED BY <4>1, <4>2
    <3> QED BY <3>1, <3>2
  <2>2. instructions' = instructions
    BY <1>7 DEF RefuseNoId
  <2>3. \A x \in Object : Declares(instructions'[x], sending_to'[x], x \in halfDone')
    BY <1>5, <1>6, <2>1, <2>2
  <2> QED BY <1>5, <2>3 DEF ObjectsDeclare
<1>8. CASE AddInstruction(o, c)
  <2> DEFINE g == [name |-> c.name, qubits |-> c.qubits, clbits |-> c.clbits,
                   circuits |-> Ids(c)]
  <2>1. g \in Instruction
    BY <1>1 DEF Instruction, Callable
  <2>2. g.name = c.name /\ g.circuits = Ids(c)
    OBVIOUS
  <2>3. instructions' = [instructions EXCEPT ![o] = Append(@, g)] /\ halfDone' = halfDone
    BY <1>8 DEF AddInstruction
  <2>4. Named(c) = Len(c.related)
    BY <1>8 DEF AddInstruction
  <2> HIDE DEF g
  <2>5. Pushed(c) = IF g.name \in SendsTo THEN g.circuits ELSE << >>
    BY <1>1, <2>2, <2>4
  <2>6. instructions'[o] = Append(instructions[o], g)
    BY <1>2, <2>3
  <2>7. instructions[o] \in Seq(Instruction) /\ (o \in halfDone) \in BOOLEAN
    BY <1>2
  <2>8. Declares(Append(instructions[o], g), new, o \in halfDone)
    BY <1>1, <1>2, <2>1, <2>5, <2>7, DeclaresNew DEF new
  <2>9. \A x \in Object : Declares(instructions'[x], sending_to'[x], x \in halfDone')
    BY <1>5, <1>6, <2>3, <2>6, <2>8
  <2> QED BY <1>5, <2>9 DEF ObjectsDeclare
<1> QED BY <1>7, <1>8

\* What run holds is a copy of what the objects declared.
LEMMA RunDeclares ==
  ASSUME TransformInv, ObjectsDeclare, NEW b \in Seq(Object), Run(b)
  PROVE  BatchDeclares'
<1>1. b \in Seq(Object) /\ batch' = [i \in 1 .. Len(b) |-> Raw(b[i])]
  BY DEF Run
<1>2. Len(batch') = Len(b) /\ \A p \in 1 .. Len(b) : batch'[p] = Raw(b[p]) /\ b[p] \in Object
  BY <1>1
<1>3. ASSUME NEW p \in 1 .. Len(batch')
      PROVE  /\ batch'[p].sending_to \in Seq(STRING)
             /\ Declares(batch'[p].instructions, batch'[p].sending_to, batch'[p].halfDone)
  <2>1. PICK o \in Object : batch'[p] = Raw(o)
    BY <1>2
  <2>2. /\ batch'[p].sending_to = sending_to[o]
        /\ batch'[p].instructions = instructions[o]
        /\ batch'[p].halfDone = (o \in halfDone)
    BY <2>1 DEF Raw
  <2> QED BY <2>2 DEF ObjectsDeclare
<1> QED BY <1>3 DEF BatchDeclares, Declares

\* Whether run refuses the next circuit is a matter of batch and sent.
Refusal == ~Transforms(batch[Len(sent) + 1])

LEMMA SameRefusal ==
  ASSUME UNCHANGED <<batch, sent>>
  PROVE  Refusal' <=> Refusal
BY DEF Refusal, Transforms, HasQpus, TransformInstruction, MapCircuitIdsToQpus, Qpu,
       AllKnown, Bearers, Plain, RControl

LEMMA NextTargets ==
  ASSUME TransformInv, TransformInv', TargetsInv, [AnyNext]_vars
  PROVE  TargetsInv'
<1> USE DEF TargetsInv
<1>1. ASSUME UNCHANGED <<instructions, sending_to, halfDone>> PROVE ObjectsDeclare'
  BY <1>1 DEF ObjectsDeclare
<1>2. ASSUME UNCHANGED batch PROVE BatchDeclares'
  BY <1>2 DEF BatchDeclares
<1>3. ASSUME UNCHANGED runVars PROVE RefusedFirst'
  <2>1. batch' = batch /\ sent' = sent /\ outcome' = outcome
    BY <1>3 DEF runVars
  <2> QED BY <2>1, SameRefusal DEF RefusedFirst, Refusal
<1>4. CASE Building /\ UNCHANGED runVars
  <2>1. PICK o \in Object :
          \/ \E c \in Callable : RefuseRegisters(o, c) \/ RefuseNoId(o, c) \/ AddInstruction(o, c)
          \/ SetDynamic(o)
          \/ ParseToRawQCJson(o)
    BY <1>4 DEF Building
  <2>2. ASSUME NEW c \in Callable, RefuseNoId(o, c) \/ AddInstruction(o, c)
        PROVE  ObjectsDeclare'
    BY <2>2, CallDeclares DEF TransformInv
  <2>3. ASSUME NEW c \in Callable, RefuseRegisters(o, c) PROVE ObjectsDeclare'
    BY <1>1, <2>3 DEF RefuseRegisters
  <2>4. ASSUME SetDynamic(o) PROVE ObjectsDeclare'
    BY <1>1, <2>4 DEF SetDynamic
  <2>5. ASSUME ParseToRawQCJson(o) PROVE ObjectsDeclare'
    BY <1>1, <2>5 DEF ParseToRawQCJson
  <2>6. ObjectsDeclare'
    BY <2>1, <2>2, <2>3, <2>4, <2>5
  <2> QED BY <1>2, <1>3, <1>4, <2>6 DEF runVars
<1>5. ASSUME NEW b \in Seq(Object), Run(b) PROVE TargetsInv'
  <2>1. ObjectsDeclare'
    BY <1>1, <1>5 DEF Run, circuitVars
  <2>2. RefusedFirst'
    BY <1>5 DEF Run, RefusedFirst
  <2> QED BY <1>5, <2>1, <2>2, RunDeclares
<1>6. CASE SendCircuit
  <2>1. ObjectsDeclare' /\ BatchDeclares'
    BY <1>1, <1>2, <1>6 DEF SendCircuit, circuitVars
  <2> QED BY <1>6, <2>1 DEF SendCircuit, RefusedFirst
<1>7. CASE RefuseCircuit
  <2>1. ObjectsDeclare' /\ BatchDeclares'
    BY <1>1, <1>2, <1>7 DEF RefuseCircuit, circuitVars
  <2>2. batch' = batch /\ sent' = sent /\ Len(sent) < Len(batch)
        /\ ~Transforms(batch[Len(sent) + 1])
    BY <1>7 DEF RefuseCircuit
  <2>3. Refusal' <=> Refusal
    BY <2>2, SameRefusal
  <2>4. RefusedFirst'
    BY <2>2, <2>3 DEF RefusedFirst, Refusal
  <2> QED BY <2>1, <2>4
<1>8. CASE Complete
  <2>1. ObjectsDeclare' /\ BatchDeclares'
    BY <1>1, <1>2, <1>8 DEF Complete, circuitVars
  <2> QED BY <1>8, <2>1 DEF Complete, RefusedFirst
<1>9. CASE UNCHANGED vars
  BY <1>1, <1>2, <1>3, <1>9 DEF vars, circuitVars, runVars
<1> QED BY <1>4, <1>5, <1>6, <1>7, <1>8, <1>9 DEF AnyNext

LEMMA TargetsInvariant == Spec => [](TransformInv /\ TargetsInv)
<1>1. Init => TransformInv /\ TargetsInv
  BY InitTransform, InitTargets
<1>2. TransformInv /\ TargetsInv /\ [Next]_vars => (TransformInv /\ TargetsInv)'
  BY NextIsAny, NextTransform, NextTargets
<1> QED BY <1>1, <1>2, PTL DEF Spec

\* A transformed instruction sends when the one of the program does, and the
\* virtual QPUs it sends to are those of its circuits.
LEMMA SendTargetsOfSent ==
  ASSUME TransformInv, NEW p \in 1 .. Len(sent), NEW q
  PROVE  q \in SendTargets(sent[p]) <=>
           \E i \in 1 .. Len(batch[p].instructions) :
             /\ batch[p].instructions[i].name \in SendsTo
             /\ \E k \in 1 .. Len(batch[p].instructions[i].circuits) :
                  q = Qpu(batch[p].instructions[i].circuits[k])
<1>1. ASSUME NEW g PROVE TransformInstruction(g).name \in SendsTo <=> g.name \in SendsTo
  <2>1. TransformInstruction(g).name = g.name \/ TransformInstruction(g).name = "rcontrol"
    BY DEF TransformInstruction, Plain, RControl
  <2>2. CASE g.name \in SendsTo
    <3>1. g.name \in RemoteGateNames
      BY <2>2 DEF SendsTo, RemoteGateNames
    <3>2. TransformInstruction(g).name = g.name
      BY <3>1 DEF TransformInstruction, Plain
    <3> QED BY <2>2, <3>2
  <2>3. CASE g.name \notin SendsTo
    BY <2>1, <2>3 DEF SendsTo
  <2> QED BY <2>2, <2>3
<1>2. /\ Len(sent[p].instructions) = Len(batch[p].instructions)
      /\ \A i \in 1 .. Len(batch[p].instructions) :
           /\ batch[p].instructions[i] \in Instruction
           /\ sent[p].instructions[i] = TransformInstruction(batch[p].instructions[i])
  BY InstructionsOfSent
<1>3. ASSUME NEW i \in 1 .. Len(batch[p].instructions)
      PROVE  /\ Len(sent[p].instructions[i].qpus) = Len(batch[p].instructions[i].circuits)
             /\ \A k \in 1 .. Len(batch[p].instructions[i].circuits) :
                  sent[p].instructions[i].qpus[k] = Qpu(batch[p].instructions[i].circuits[k])
             /\ sent[p].instructions[i].name \in SendsTo
                  <=> batch[p].instructions[i].name \in SendsTo
  <2> DEFINE g == batch[p].instructions[i]
  <2>1. sent[p].instructions[i].qpus = MapCircuitIdsToQpus(g.circuits)
    BY <1>2, QpusOfInstruction
  <2>2. Len(g.circuits) \in Nat
    BY <1>2 DEF Instruction
  <2>3. sent[p].instructions[i].name \in SendsTo <=> g.name \in SendsTo
    BY <1>1, <1>2
  <2> HIDE DEF g
  <2>4. sent[p].instructions[i].qpus = [k \in 1 .. Len(g.circuits) |-> Qpu(g.circuits[k])]
    BY <2>1 DEF MapCircuitIdsToQpus
  <2>5. /\ Len(sent[p].instructions[i].qpus) = Len(g.circuits)
        /\ \A k \in 1 .. Len(g.circuits) :
             sent[p].instructions[i].qpus[k] = Qpu(g.circuits[k])
    BY <2>2, <2>4
  <2> QED BY <2>3, <2>5 DEF g
<1>4. q \in SendTargets(sent[p]) <=>
        \E i \in 1 .. Len(sent[p].instructions) :
          /\ sent[p].instructions[i].name \in SendsTo
          /\ \E k \in 1 .. Len(sent[p].instructions[i].qpus) :
               q = sent[p].instructions[i].qpus[k]
  BY DEF SendTargets
<1>5. ASSUME NEW i \in 1 .. Len(batch[p].instructions)
      PROVE  (\E k \in 1 .. Len(sent[p].instructions[i].qpus) :
                q = sent[p].instructions[i].qpus[k])
               <=> \E k \in 1 .. Len(batch[p].instructions[i].circuits) :
                     q = Qpu(batch[p].instructions[i].circuits[k])
  <2>1. /\ Len(sent[p].instructions[i].qpus) = Len(batch[p].instructions[i].circuits)
        /\ \A k \in 1 .. Len(batch[p].instructions[i].circuits) :
             sent[p].instructions[i].qpus[k] = Qpu(batch[p].instructions[i].circuits[k])
    BY <1>3
  <2> QED BY <2>1, Zenon
<1> QED BY <1>2, <1>3, <1>4, <1>5, Zenon

(***************************************************************************)
(* For every program: the virtual QPUs that a circuit declares are those   *)
(* that its instructions send to, and others only after a call that        *)
(* addInstruction gave up half way.                                        *)
(***************************************************************************)
THEOREM DeclaresTargetsHolds == Spec => []DeclaresTargets
<1>1. TransformInv /\ TargetsInv => DeclaresTargets
  <2> SUFFICES ASSUME TransformInv, TargetsInv, NEW p \in 1 .. Len(sent)
               PROVE  LET declared == {sent[p].sending_to[k] : k \in 1 .. Len(sent[p].sending_to)}
                      IN  /\ SendTargets(sent[p]) \subseteq declared
                          /\ ~batch[p].halfDone => declared = SendTargets(sent[p])
    BY DEF DeclaresTargets
  <2> DEFINE targets == batch[p].sending_to
             declared == {sent[p].sending_to[k] : k \in 1 .. Len(sent[p].sending_to)}
  <2>1. /\ targets \in Seq(STRING)
        /\ Declares(batch[p].instructions, targets, batch[p].halfDone)
    BY InstructionsOfSent DEF TargetsInv, BatchDeclares
  <2>2. sent[p].sending_to = MapCircuitIdsToQpus(targets)
    <3>1. sent[p] = Transform(batch[p])
      BY DEF TransformInv, SentTransformed
    <3> QED BY <3>1 DEF Transform
  <2> HIDE DEF targets
  <2>3. declared = {Qpu(targets[k]) : k \in 1 .. Len(targets)}
    <3>1. Len(targets) \in Nat
      BY <2>1
    <3>2. sent[p].sending_to = [k \in 1 .. Len(targets) |-> Qpu(targets[k])]
      BY <2>2 DEF MapCircuitIdsToQpus
    <3>3. Len(sent[p].sending_to) = Len(targets)
      BY <3>1, <3>2
    <3> QED BY <3>2, <3>3
  <2> HIDE DEF declared
  <2>4. ASSUME NEW q \in SendTargets(sent[p]) PROVE q \in declared
    <3>1. PICK i \in 1 .. Len(batch[p].instructions) :
            /\ batch[p].instructions[i].name \in SendsTo
            /\ \E k \in 1 .. Len(batch[p].instructions[i].circuits) :
                 q = Qpu(batch[p].instructions[i].circuits[k])
      BY SendTargetsOfSent
    <3>2. PICK k \in 1 .. Len(batch[p].instructions[i].circuits) :
            q = Qpu(batch[p].instructions[i].circuits[k])
      BY <3>1
    <3>3. PICK j \in 1 .. Len(targets) : targets[j] = batch[p].instructions[i].circuits[k]
      BY <2>1, <3>1 DEF Declares
    <3> QED BY <2>3, <3>2, <3>3
  <2>5. ASSUME ~batch[p].halfDone, NEW q \in declared PROVE q \in SendTargets(sent[p])
    <3>1. PICK j \in 1 .. Len(targets) : q = Qpu(targets[j])
      BY <2>3
    <3>2. PICK i \in 1 .. Len(batch[p].instructions) :
            /\ batch[p].instructions[i].name \in SendsTo
            /\ \E k \in 1 .. Len(batch[p].instructions[i].circuits) :
                 targets[j] = batch[p].instructions[i].circuits[k]
      BY <2>1, <2>5 DEF Declares
    <3>3. PICK k \in 1 .. Len(batch[p].instructions[i].circuits) :
            targets[j] = batch[p].instructions[i].circuits[k]
      BY <3>2
    <3>4. q = Qpu(batch[p].instructions[i].circuits[k])
      BY <3>1, <3>3
    <3> QED BY <3>2, <3>4, SendTargetsOfSent
  <2> QED BY <2>4, <2>5 DEF declared
<1> QED BY <1>1, TargetsInvariant, PTL

\* An id that no circuit of the batch bears is not among those of the run.
LEMMA UnknownId ==
  ASSUME NEW ids, ~AllKnown(ids)
  PROVE  \E k \in 1 .. Len(ids) : ids[k] \notin {batch[i].id : i \in 1 .. Len(batch)}
BY DEF AllKnown, Bearers

\* Why a transformed instruction lacks the virtual QPUs it needs.
LEMMA LacksQpus ==
  ASSUME NEW g \in Instruction, ~HasQpus(TransformInstruction(g))
  PROVE  (g.name \in RemoteGateNames /\ g.circuits = << >>) \/ g.name = "rcontrol"
<1> DEFINE t == TransformInstruction(g)
           qpus == MapCircuitIdsToQpus(g.circuits)
<1>1. g.circuits \in Seq(STRING) /\ Len(g.circuits) \in Nat
  BY DEF Instruction
<1>2. g.circuits # << >> => qpus # << >>
  <2>1. qpus = [k \in 1 .. Len(g.circuits) |-> Qpu(g.circuits[k])]
    BY DEF MapCircuitIdsToQpus
  <2>2. Len(qpus) = Len(g.circuits)
    BY <1>1, <2>1
  <2>3. g.circuits # << >> => Len(g.circuits) > 0
    BY <1>1
  <2> HIDE DEF qpus
  <2>4. qpus = << >> => Len(qpus) = 0
    OBVIOUS
  <2> QED BY <2>2, <2>3, <2>4
<1> HIDE DEF qpus
<1>3. CASE g.circuits = << >> \/ g.name \in RemoteGateNames
  <2>1. t.name = g.name /\ t.qpus = qpus /\ t.instructions = << >>
    BY <1>3 DEF TransformInstruction, Plain, qpus
  <2>2. g.name \in RemoteGateNames /\ (qpus = << >> \/ g.name = "rcontrol")
    <3> HIDE DEF t
    <3>1. ~HasQpus(t)
      BY DEF t
    <3>2. Len(t.instructions) = 0
      BY <2>1
    <3> QED BY <2>1, <3>1, <3>2 DEF HasQpus
  <2> QED BY <1>2, <2>2
<1>4. CASE g.circuits # << >> /\ g.name \notin RemoteGateNames
  <2> DEFINE block == [name |-> g.name, clbits |-> g.clbits,
                       qubits |-> RemoteQubits(Len(qpus)) \o g.qubits]
  <2>1. t.name = "rcontrol" /\ t.qpus = qpus /\ t.instructions = <<block>>
    BY <1>4 DEF TransformInstruction, RControl, qpus
  <2>2. block.name = g.name
    OBVIOUS
  <2> HIDE DEF t, block
  <2>3. t.instructions # << >> /\ \A i \in 1 .. Len(t.instructions) : t.instructions[i] = block
    BY <2>1
  <2>4. HasQpus(t)
    BY <1>2, <1>4, <2>1, <2>2, <2>3 DEF HasQpus
  <2> QED BY <2>4 DEF t
<1> QED BY <1>3, <1>4

\* Why a circuit of the batch does not transform.
LEMMA RefusalCause ==
  ASSUME TransformInv, TargetsInv, NEW p \in 1 .. Len(batch), ~Transforms(batch[p])
  PROVE  LET c == batch[p]
             known == {batch[i].id : i \in 1 .. Len(batch)}
         IN  \/ \E i \in 1 .. Len(c.instructions) :
                  LET g == c.instructions[i]
                  IN  \/ \E k \in 1 .. Len(g.circuits) : g.circuits[k] \notin known
                      \/ g.name \in RemoteGateNames /\ g.circuits = << >>
                      \/ g.name = "rcontrol"
             \/ c.halfDone
<1> DEFINE c == batch[p]
           known == {batch[i].id : i \in 1 .. Len(batch)}
           Cause == \/ \E i \in 1 .. Len(c.instructions) :
                         \/ \E k \in 1 .. Len(c.instructions[i].circuits) :
                              c.instructions[i].circuits[k] \notin known
                         \/ /\ c.instructions[i].name \in RemoteGateNames
                            /\ c.instructions[i].circuits = << >>
                         \/ c.instructions[i].name = "rcontrol"
                    \/ c.halfDone
<1> SUFFICES Cause
  OBVIOUS
<1>1. ~Transforms(c)
  OBVIOUS
<1>2. Formed(c) /\ Declares(c.instructions, c.sending_to, c.halfDone)
  BY DEF TransformInv, BatchFormed, TargetsInv, BatchDeclares
<1> HIDE DEF c
<1>3. CASE ~AllKnown(c.sending_to)
  <2> SUFFICES ASSUME ~c.halfDone PROVE Cause
    OBVIOUS
  <2>1. PICK j \in 1 .. Len(c.sending_to) : c.sending_to[j] \notin known
    BY <1>3, UnknownId
  <2>2. PICK i \in 1 .. Len(c.instructions) :
          \E k \in 1 .. Len(c.instructions[i].circuits) :
            c.sending_to[j] = c.instructions[i].circuits[k]
    BY <1>2 DEF Declares
  <2> HIDE DEF known
  <2> QED BY <2>1, <2>2
<1>4. ASSUME NEW i \in 1 .. Len(c.instructions), ~AllKnown(c.instructions[i].circuits)
      PROVE  Cause
  <2>1. \E k \in 1 .. Len(c.instructions[i].circuits) :
          c.instructions[i].circuits[k] \notin known
    BY <1>4, UnknownId
  <2> HIDE DEF known
  <2> QED BY <2>1
<1>5. ASSUME NEW i \in 1 .. Len(c.instructions),
             ~HasQpus(TransformInstruction(c.instructions[i]))
      PROVE  Cause
  <2>1. c.instructions[i] \in Instruction
    BY <1>2 DEF Formed
  <2>2. \/ /\ c.instructions[i].name \in RemoteGateNames
           /\ c.instructions[i].circuits = << >>
        \/ c.instructions[i].name = "rcontrol"
    BY <1>5, <2>1, LacksQpus
  <2> HIDE DEF known
  <2> QED BY <2>2
<1> QED BY <1>1, <1>3, <1>4, <1>5 DEF Transforms

(***************************************************************************)
(* For every program: when run refuses a circuit, the cause is an          *)
(* instruction that the program added, or a call of addInstruction that    *)
(* left its targets behind.  sending_to by itself is never the cause.      *)
(***************************************************************************)
THEOREM RefusedForCauseHolds == Spec => []RefusedForCause
<1>1. TransformInv /\ TargetsInv => RefusedForCause
  <2> SUFFICES ASSUME TransformInv, TargetsInv, outcome = "refused" PROVE RefusedForCause
    BY DEF RefusedForCause
  <2>1. /\ Len(sent) + 1 \in 1 .. Len(batch)
        /\ ~Transforms(batch[Len(sent) + 1])
    BY DEF TargetsInv, RefusedFirst, TransformInv, BatchFormed, SentTransformed
  <2> QED BY <2>1, RefusalCause DEF RefusedForCause
<1> QED BY <1>1, TargetsInvariant, PTL

=============================================================================
