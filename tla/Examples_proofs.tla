-------------------------- MODULE Examples_proofs --------------------------
(***************************************************************************)
(* Theorems about the example programs from end to end, for any numbers of *)
(* qubits and ranks that parse_cli accepts.                                *)
(***************************************************************************)
EXTENDS Examples, QubitMapping_proofs, CircuitTransform_proofs

(***************************************************************************)
(* Sequences of calls.                                                     *)
(***************************************************************************)

\* What holds of the first sequence, and of a part of the result with one more
\* sequence behind it, holds of the result.
LEMMA FlattenInduction ==
  ASSUME NEW s, Len(s) \in Nat \ {0}, NEW C, s[1] \in C[1],
         \A i \in 2 .. Len(s) : \A part \in C[i - 1] : part \o s[i] \in C[i]
  PROVE  FlattenSeq(s) \in C[Len(s)]
<1> DEFINE n == Len(s)
           Step(f, i) == IF i = 1 THEN s[i] ELSE f[i - 1] \o s[i]
           Flattens(f, m) == f = [i \in 1 .. m |-> Step(f, i)]
           flatten == CHOOSE f : Flattens(f, n)
           Missing == {m \in 1 .. n : ~ \E f : Flattens(f, m)}
           Wrong == {m \in 1 .. n : flatten[m] \notin C[m]}
<1>1. FlattenSeq(s) = flatten[n]
  BY DEF FlattenSeq
<1>0. n \in Nat /\ n >= 1 /\ \A i \in 2 .. n : \A part \in C[i - 1] : part \o s[i] \in C[i]
  OBVIOUS
<1> HIDE DEF n
<1>2. Missing = {}
  <2> SUFFICES ASSUME Missing # {} PROVE FALSE
    OBVIOUS
  <2>1. PICK m \in Missing : \A x \in Missing : m <= x
    <3>1. Missing \in SUBSET Nat
      <4> HIDE DEF Flattens
      <4> QED BY <1>0
    <3> HIDE DEF Missing
    <3> QED BY <3>1, LeastNatural
  <2>2. m \in 1 .. n /\ ~ \E f : Flattens(f, m)
    OBVIOUS
  <2>3. CASE m = 1
    <3> DEFINE f == [i \in 1 .. 1 |-> s[i]]
    <3>1. Flattens(f, 1)
      OBVIOUS
    <3> QED BY <2>2, <2>3, <3>1
  <2>4. CASE m # 1
    <3>1. m - 1 \in 1 .. n /\ m - 1 \notin Missing
      <4> HIDE DEF Missing
      <4> QED BY <1>0, <2>1, <2>2, <2>4
    <3>2. PICK f : Flattens(f, m - 1)
      BY <3>1
    <3> DEFINE g == [i \in 1 .. m |-> IF i = m THEN f[m - 1] \o s[m] ELSE f[i]]
    <3>3. \A i \in 1 .. m - 1 : g[i] = f[i]
      BY <2>2
    <3>4. \A i \in 1 .. m - 1 : f[i] = Step(f, i)
      BY <3>2
    <3>5. \A i \in 1 .. m : g[i] = Step(g, i)
      <4> SUFFICES ASSUME NEW i \in 1 .. m PROVE g[i] = Step(g, i)
        OBVIOUS
      <4>1. CASE i = m
        <5>0. m - 1 \in 1 .. m - 1 /\ m \in 1 .. m
          BY <1>0, <2>2, <2>4
        <5>1. g[m] = f[m - 1] \o s[m] /\ g[m - 1] = f[m - 1]
          BY <3>3, <5>0
        <5> HIDE DEF g
        <5> QED BY <2>4, <4>1, <5>1
      <4>2. CASE i # m
        <5>1. i \in 1 .. m - 1 /\ g[i] = f[i] /\ (i # 1 => g[i - 1] = f[i - 1])
          BY <2>2, <3>3, <4>2
        <5> HIDE DEF g
        <5> QED BY <3>4, <5>1
      <4> QED BY <4>1, <4>2
    <3>6. Flattens(g, m)
      <4>1. g = [i \in 1 .. m |-> g[i]]
        OBVIOUS
      <4> HIDE DEF g
      <4> QED BY <3>5, <4>1
    <3> QED BY <2>2, <3>6
  <2> QED BY <2>3, <2>4
<1>3. Flattens(flatten, n)
  <2>1. \E f : Flattens(f, n)
    <3> HIDE DEF Flattens
    <3>1. n \in 1 .. n
      BY <1>0
    <3>2. n \notin Missing
      <4> HIDE DEF Missing
      <4> QED BY <1>2
    <3> QED BY <3>1, <3>2, Zenon
  <2> HIDE DEF Flattens
  <2> QED BY <2>1
<1> HIDE DEF flatten
<1>4. \A i \in 1 .. n : flatten[i] = Step(flatten, i)
  BY <1>3
<1>5. Wrong = {}
  <2> SUFFICES ASSUME Wrong # {} PROVE FALSE
    OBVIOUS
  <2>1. PICK m \in Wrong : \A x \in Wrong : m <= x
    <3>1. Wrong \in SUBSET Nat
      BY <1>0
    <3> HIDE DEF Wrong
    <3> QED BY <3>1, LeastNatural
  <2>2. m \in 1 .. n /\ flatten[m] \notin C[m] /\ flatten[m] = Step(flatten, m)
    BY <1>4
  <2>3. m # 1
    BY <2>2
  <2>4. m - 1 \in 1 .. n /\ m - 1 \notin Wrong /\ m \in 2 .. n
    <3> HIDE DEF Wrong
    <3> QED BY <1>0, <2>1, <2>2, <2>3
  <2>5. flatten[m - 1] \in C[m - 1]
    BY <2>4
  <2>6. flatten[m] = flatten[m - 1] \o s[m]
    BY <2>2, <2>3
  <2> QED BY <1>0, <2>2, <2>4, <2>5, <2>6
<1>6. flatten[n] \in C[n]
  BY <1>0, <1>5
<1> QED BY <1>1, <1>6 DEF n

LEMMA FlattenType ==
  ASSUME NEW T, NEW s \in Seq(Seq(T))
  PROVE  FlattenSeq(s) \in Seq(T)
<1>1. CASE s = << >>
  <2>1. FlattenSeq(s) = << >>
    BY <1>1 DEF FlattenSeq
  <2> QED BY <2>1
<1>2. CASE s # << >>
  <2> DEFINE C == [i \in 1 .. Len(s) |-> Seq(T)]
  <2>1. Len(s) \in Nat \ {0} /\ \A i \in 1 .. Len(s) : s[i] \in Seq(T)
    BY <1>2
  <2>2. \A i \in 1 .. Len(s) : C[i] = Seq(T)
    OBVIOUS
  <2> HIDE DEF C
  <2>3. s[1] \in C[1]
    BY <2>1, <2>2
  <2>4. ASSUME NEW i \in 2 .. Len(s), NEW part \in C[i - 1] PROVE part \o s[i] \in C[i]
    <3>0. i \in 1 .. Len(s) /\ i - 1 \in 1 .. Len(s)
      BY <2>1
    <3>1. part \in Seq(T) /\ s[i] \in Seq(T) /\ C[i] = Seq(T)
      BY <2>1, <2>2, <3>0
    <3> QED BY <3>1
  <2>5. FlattenSeq(s) \in C[Len(s)]
    BY <2>1, <2>3, <2>4, FlattenInduction
  <2> QED BY <2>1, <2>2, <2>5
<1> QED BY <1>1, <1>2

(***************************************************************************)
(* The calls that the programs make are good: addInstruction accepts each, *)
(* and what it adds can be transformed.                                    *)
(***************************************************************************)

\* The objects that a program passes to run.
Participant ==
  IF program = "distributed_qft" THEN 0 .. Qpus - 1 ELSE {controlCircuit, targetCircuit}

Good ==
  {n \in [object : Participant, call : Callable, gate : [loop : Nat, j : Nat, k : Nat]] :
     /\ RegisterStatus(n.object, n.call) = 0
     /\ n.call.related \in Seq(Participant)
     /\ n.call.name # "rcontrol"
     /\ n.call.name \in RemoteGateNames => n.call.related # << >>}

LEMMA SizesOfProgram ==
  /\ TotalQubits \in Nat \ {0} /\ Qpus \in Nat \ {0} /\ Qpus <= TotalQubits
  /\ Admitted(TotalQubits, Qpus)
  /\ size \in Sizes => total = TotalQubits /\ qpus = Qpus
<1>1. <<TotalQubits, Qpus>> \in Accepted
  BY ExampleAssumption, SizesAssumption
<1> QED BY <1>1, ExampleAssumption DEF Accepted, Admitted, total, qpus

LEMMA Registers ==
  /\ Participant \subseteq Object
  /\ \A o \in 0 .. Qpus - 1 :
       /\ Qubits[o] = Partition(TotalQubits, Qpus, o)
       /\ Clbits[o] = Partition(TotalQubits, Qpus, o)
  /\ Qubits[controlCircuit] = 1 /\ Clbits[controlCircuit] = 0
  /\ Qubits[targetCircuit] = 1 /\ Clbits[targetCircuit] = 1
BY SizesOfProgram, ExampleAssumption DEF Participant, controlCircuit, targetCircuit

LEMMA CallIsGood ==
  ASSUME NEW o \in Participant, NEW name \in STRING, NEW qubits \in Seq(Int),
         NEW clbits \in Seq(Int), NEW related \in Seq(Participant),
         NEW loop \in Nat, NEW j \in Nat, NEW k \in Nat,
         Len(qubits) <= Qubits[o], Below(qubits, Qubits[o]),
         Len(clbits) <= Clbits[o], Below(clbits, Clbits[o]),
         name # "rcontrol", name \in RemoteGateNames => related # << >>
  PROVE  CallOn(o, name, qubits, clbits, related, loop, j, k) \in Seq(Good)
<1> DEFINE c == [name |-> name, qubits |-> qubits, clbits |-> clbits, related |-> related]
           n == [object |-> o, call |-> c, gate |-> [loop |-> loop, j |-> j, k |-> k]]
<1>1. related \in Seq(Object)
  <2>1. \A i \in 1 .. Len(related) : related[i] \in Object
    BY Registers
  <2> QED BY <2>1
<1>2. c \in Callable
  BY <1>1 DEF Callable
<1>3. RegisterStatus(o, c) = 0
  <2>1. Qubits[o] \in Nat /\ Clbits[o] \in Nat /\ Len(qubits) \in Nat /\ Len(clbits) \in Nat
    BY ObjectAssumption, Registers
  <2> QED BY <2>1 DEF RegisterStatus
<1>4. n \in Good
  BY <1>2, <1>3 DEF Good
<1>5. CallOn(o, name, qubits, clbits, related, loop, j, k) = <<n>>
  BY DEF CallOn
<1> HIDE DEF n
<1> QED BY <1>4, <1>5

\* Where the mapping has a qubit, once the loops have ended.
LEMMA Places ==
  ASSUME MappingInv, Mapped, program = "distributed_qft", NEW q \in 0 .. TotalQubits - 1
  PROVE  /\ RankAt(q) \in 0 .. Qpus - 1
         /\ RankAt(q) = RankOf(TotalQubits, Qpus, q)
         /\ IdxAt(q) = LocalIdx(TotalQubits, Qpus, q)
         /\ IdxAt(q) \in 0 .. Qubits[RankAt(q)] - 1
<1>1. /\ total = TotalQubits /\ qpus = Qpus /\ rank = qpus
      /\ global_q = FirstOf(total, qpus, rank) + local_q /\ local_q = 0
  BY SizesOfProgram DEF MappingInv, MapTypeOK, LoopsAgree, Mapped
<1>2. FirstOf(TotalQubits, Qpus, Qpus) = TotalQubits
  BY SizesOfProgram, Intervals
<1>3. q \in 0 .. global_q - 1
  BY <1>1, <1>2, SizesOfProgram
<1>4. mapping[q + 1] = [rank |-> RankOf(TotalQubits, Qpus, q),
                        local_idx |-> LocalIdx(TotalQubits, Qpus, q)]
  BY <1>1, <1>3 DEF MappingInv, PlacesQubits
<1>5. RankAt(q) = RankOf(TotalQubits, Qpus, q) /\ IdxAt(q) = LocalIdx(TotalQubits, Qpus, q)
  BY <1>4 DEF RankAt, IdxAt
<1>6. /\ RankOf(TotalQubits, Qpus, q) \in 0 .. Qpus - 1
      /\ LocalIdx(TotalQubits, Qpus, q)
           \in 0 .. Partition(TotalQubits, Qpus, RankOf(TotalQubits, Qpus, q)) - 1
  BY SizesOfProgram, QubitHasPlace
<1> QED BY <1>5, <1>6, Registers

\* Two qubits of one rank have places of their own, in a register for both.
LEMMA PlacesApart ==
  ASSUME MappingInv, Mapped, program = "distributed_qft",
         NEW q \in 0 .. TotalQubits - 1, NEW p \in 0 .. TotalQubits - 1,
         q # p, RankAt(q) = RankAt(p)
  PROVE  IdxAt(q) # IdxAt(p) /\ Qubits[RankAt(q)] >= 2
<1> DEFINE first == FirstOf(TotalQubits, Qpus, RankAt(q))
<1>1. first \in Nat
  <2>1. RankAt(q) \in 0 .. Qpus
    BY Places, SizesOfProgram
  <2> QED BY <2>1, SizesOfProgram, Intervals
<1>2. IdxAt(q) = q - first /\ IdxAt(p) = p - first
  BY Places DEF LocalIdx
<1>3. IdxAt(q) \in 0 .. Qubits[RankAt(q)] - 1 /\ IdxAt(p) \in 0 .. Qubits[RankAt(q)] - 1
  BY Places
<1>4. Qubits[RankAt(q)] \in Nat /\ q \in Int /\ p \in Int
  <2>1. RankAt(q) \in Participant
    BY Places DEF Participant
  <2> QED BY <2>1, Registers, ObjectAssumption, SizesOfProgram
<1> HIDE DEF first
<1> QED BY <1>1, <1>2, <1>3, <1>4

\* The calls of one iteration.
LEMMA IterationsGood ==
  ASSUME MappingInv, Mapped, program = "distributed_qft"
  PROVE  /\ \A q \in 0 .. TotalQubits - 1 : XOn(q) \in Seq(Good)
         /\ \A q \in 0 .. TotalQubits - 1 : HOn(q) \in Seq(Good)
         /\ \A q \in 0 .. TotalQubits - 1 : MeasureOf(q) \in Seq(Good)
         /\ \A j, k \in 0 .. TotalQubits - 1 : j # k => Rotation(j, k) \in Seq(Good)
<1> DEFINE none == << >>
           idx(q) == <<IdxAt(q)>>
           both(k, j) == <<IdxAt(k), IdxAt(j)>>
           at(q) == <<RankAt(q)>>
<1>1. ASSUME NEW q \in 0 .. TotalQubits - 1
      PROVE  /\ q \in Nat /\ RankAt(q) \in Participant
             /\ idx(q) \in Seq(Int)
             /\ Len(idx(q)) <= Qubits[RankAt(q)] /\ Len(idx(q)) <= Clbits[RankAt(q)]
             /\ Below(idx(q), Qubits[RankAt(q)])
             /\ Below(idx(q), Clbits[RankAt(q)])
             /\ Len(none) <= Clbits[RankAt(q)]
             /\ Below(none, Clbits[RankAt(q)])
             /\ at(q) \in Seq(Participant) /\ at(q) # << >>
  <2>1. RankAt(q) \in 0 .. Qpus - 1 /\ IdxAt(q) \in 0 .. Qubits[RankAt(q)] - 1
    BY Places
  <2>2. Qubits[RankAt(q)] \in Nat /\ Clbits[RankAt(q)] = Qubits[RankAt(q)]
    <3>1. RankAt(q) \in Object
      BY <2>1, SizesOfProgram, ExampleAssumption DEF targetCircuit
    <3> QED BY <2>1, <3>1, ObjectAssumption, Registers
  <2>3. RankAt(q) \in Participant
    BY <2>1 DEF Participant
  <2> QED BY <2>1, <2>2, <2>3 DEF Below
<1>2. none \in Seq(Int) /\ none \in Seq(Participant) /\ none \in Seq(Good)
  OBVIOUS
<1>3. ASSUME NEW j \in 0 .. TotalQubits - 1, NEW k \in 0 .. TotalQubits - 1, j # k,
             RankAt(j) = RankAt(k)
      PROVE  /\ both(k, j) \in Seq(Int)
             /\ Len(both(k, j)) <= Qubits[RankAt(j)]
             /\ Below(both(k, j), Qubits[RankAt(j)])
  <2>1. Qubits[RankAt(j)] \in Nat
    BY <1>1, Registers, ObjectAssumption
  <2>2. /\ IdxAt(j) \in 0 .. Qubits[RankAt(j)] - 1
        /\ IdxAt(k) \in 0 .. Qubits[RankAt(j)] - 1
        /\ Qubits[RankAt(j)] >= 2
    BY <1>3, Places, PlacesApart
  <2> QED BY <2>1, <2>2 DEF Below
<1> HIDE DEF none, idx, both, at
<1> USE DEF RemoteGateNames
<1>4. ASSUME NEW q \in 0 .. TotalQubits - 1
      PROVE  XOn(q) \in Seq(Good) /\ HOn(q) \in Seq(Good) /\ MeasureOf(q) \in Seq(Good)
  <2>1. CallOn(RankAt(q), "x", idx(q), none, none, 0, q, q) \in Seq(Good)
    BY <1>1, <1>2, CallIsGood, NamesAssumption
  <2>2. CallOn(RankAt(q), "h", idx(q), none, none, 1, q, q) \in Seq(Good)
    BY <1>1, <1>2, CallIsGood, NamesAssumption
  <2>3. CallOn(RankAt(q), "measure", idx(q), idx(q), none, 2, q, q) \in Seq(Good)
    BY <1>1, <1>2, CallIsGood, NamesAssumption
  <2> QED BY <1>2, <2>1, <2>2, <2>3 DEF XOn, HOn, MeasureOf, none, idx
<1>5. ASSUME NEW j \in 0 .. TotalQubits - 1, NEW k \in 0 .. TotalQubits - 1, j # k
      PROVE  Rotation(j, k) \in Seq(Good)
  <2>1. CASE RankAt(j) = RankAt(k)
    <3>1. CallOn(RankAt(j), "crz", both(k, j), none, none, 1, j, k) \in Seq(Good)
      BY <1>1, <1>2, <1>3, <1>5, <2>1, CallIsGood, NamesAssumption
    <3> QED BY <2>1, <3>1 DEF Rotation, both, none
  <2>2. CASE RankAt(j) # RankAt(k)
    <3>1. CallOn(RankAt(k), "expose", idx(k), none, at(j), 1, j, k) \in Seq(Good)
      BY <1>1, <1>2, CallIsGood, NamesAssumption
    <3>2. CallOn(RankAt(j), "crz", idx(j), none, at(k), 1, j, k) \in Seq(Good)
      BY <1>1, <1>2, CallIsGood, NamesAssumption
    <3> DEFINE expose == CallOn(RankAt(k), "expose", idx(k), none, at(j), 1, j, k)
               gate == CallOn(RankAt(j), "crz", idx(j), none, at(k), 1, j, k)
    <3>3. Rotation(j, k) = expose \o gate
      BY <2>2 DEF Rotation, ExposeOf, idx, none, at
    <3> HIDE DEF expose, gate
    <3>4. expose \in Seq(Good) /\ gate \in Seq(Good)
      BY <3>1, <3>2 DEF expose, gate
    <3> QED BY <3>3, <3>4
  <2> QED BY <2>1, <2>2
<1> QED BY <1>4, <1>5

LEMMA QftCallsGood ==
  ASSUME MappingInv, Mapped, program = "distributed_qft"
  PROVE  build_distributed_qft_circuits \in Seq(Good)
<1>1. total = TotalQubits /\ TotalQubits \in Nat
  BY SizesOfProgram DEF MappingInv, MapTypeOK
<1>2. \A q \in 1 .. total : q - 1 \in 0 .. TotalQubits - 1
  BY <1>1
<1>3. [q \in 1 .. total |-> XOn(q - 1)] \in Seq(Seq(Good))
  BY <1>1, <1>2, IterationsGood
<1>4. [q \in 1 .. total |-> MeasureOf(q - 1)] \in Seq(Seq(Good))
  BY <1>1, <1>2, IterationsGood
<1>5. ASSUME NEW j \in 1 .. total PROVE RotationsAndH(j - 1) \in Seq(Good)
  <2>1. j - 1 \in 0 .. TotalQubits - 1
    BY <1>2
  <2>2. [k \in 1 .. j - 1 |-> Rotation(j - 1, k - 1)] \in Seq(Seq(Good))
    <3>1. ASSUME NEW k \in 1 .. j - 1 PROVE Rotation(j - 1, k - 1) \in Seq(Good)
      <4>1. k - 1 \in 0 .. TotalQubits - 1 /\ j - 1 # k - 1
        BY <1>1, <2>1
      <4> QED BY <2>1, <4>1, IterationsGood
    <3> QED BY <1>1, <2>1, <3>1
  <2>3. FlattenSeq([k \in 1 .. j - 1 |-> Rotation(j - 1, k - 1)]) \in Seq(Good)
    BY <2>2, FlattenType
  <2>4. HOn(j - 1) \in Seq(Good)
    BY <2>1, IterationsGood
  <2> QED BY <2>3, <2>4 DEF RotationsAndH
<1>6. [j \in 1 .. total |-> RotationsAndH(j - 1)] \in Seq(Seq(Good))
  BY <1>1, <1>5
<1>7. /\ FlattenSeq([q \in 1 .. total |-> XOn(q - 1)]) \in Seq(Good)
      /\ FlattenSeq([j \in 1 .. total |-> RotationsAndH(j - 1)]) \in Seq(Good)
      /\ FlattenSeq([q \in 1 .. total |-> MeasureOf(q - 1)]) \in Seq(Good)
  BY <1>3, <1>4, <1>6, FlattenType
<1> QED BY <1>7 DEF build_distributed_qft_circuits

LEMMA CallsGood ==
  ASSUME MappingInv, Mapped, program \in {"distributed_qft", "simple_telegate"}
  PROVE  ProgramCalls \in Seq(Good)
<1>1. CASE program = "distributed_qft"
  BY <1>1, QftCallsGood DEF ProgramCalls
<1>2. CASE program = "simple_telegate"
  <2> DEFINE none == << >>
             zero == <<0>>
             control == <<controlCircuit>>
             target == <<targetCircuit>>
  <2>1. controlCircuit \in Participant /\ targetCircuit \in Participant
    BY <1>2 DEF Participant
  <2>2. /\ zero \in Seq(Int) /\ Len(zero) <= 1 /\ Below(zero, 1)
        /\ none \in Seq(Int) /\ none \in Seq(Participant)
        /\ Len(none) <= 0 /\ Len(none) <= 1 /\ Below(none, 0) /\ Below(none, 1)
        /\ control \in Seq(Participant) /\ control # << >>
        /\ target \in Seq(Participant) /\ target # << >>
    BY <2>1 DEF Below
  <2>3. \A o \in {controlCircuit, targetCircuit} :
          /\ Len(zero) <= Qubits[o] /\ Below(zero, Qubits[o])
          /\ Len(none) <= Clbits[o] /\ Below(none, Clbits[o])
    BY <2>2, Registers
  <2>4. Len(zero) <= Clbits[targetCircuit] /\ Below(zero, Clbits[targetCircuit])
    BY <2>2, Registers
  <2> HIDE DEF none, zero, control, target
  <2> DEFINE first == CallOn(controlCircuit, "h", zero, none, none, 1, 0, 0)
             second == CallOn(controlCircuit, "expose", zero, none, target, 1, 1, 0)
             third == CallOn(targetCircuit, "cx", zero, none, control, 1, 1, 0)
             fourth == CallOn(targetCircuit, "measure", zero, zero, none, 2, 1, 1)
  <2>5. first \in Seq(Good)
    BY <2>1, <2>2, <2>3, <2>4, CallIsGood, NamesAssumption DEF RemoteGateNames
  <2>6. second \in Seq(Good)
    BY <2>1, <2>2, <2>3, <2>4, CallIsGood, NamesAssumption DEF RemoteGateNames
  <2>7. third \in Seq(Good)
    BY <2>1, <2>2, <2>3, <2>4, CallIsGood, NamesAssumption DEF RemoteGateNames
  <2>8. fourth \in Seq(Good)
    BY <2>1, <2>2, <2>3, <2>4, CallIsGood, NamesAssumption DEF RemoteGateNames
  <2>9. simple_telegate = first \o second \o third \o fourth
    BY DEF simple_telegate, none, zero, control, target
  <2> HIDE DEF first, second, third, fourth
  <2>10. simple_telegate \in Seq(Good)
    BY <2>5, <2>6, <2>7, <2>8, <2>9
  <2> QED BY <1>2, <2>10 DEF ProgramCalls
<1> QED BY <1>1, <1>2

(***************************************************************************)
(* The calls are those of the gates of the algorithm: each gate has a call *)
(* on each circuit that has one of its qubits, in the order of the loops.  *)
(***************************************************************************)

\* Where a qubit of the algorithm is.
HomeOf(q) ==
  IF program = "distributed_qft" THEN RankAt(q)
  ELSE IF q = 0 THEN controlCircuit ELSE targetCircuit

IndexOf(q) == IF program = "distributed_qft" THEN IdxAt(q) ELSE 0

NamedGate(loop, j, k) == [loop |-> loop, j |-> j, k |-> k]

\* The gates of the program.
Gates ==
  IF program = "distributed_qft" THEN Qft!Gate
  ELSE {NamedGate(1, 0, 0), NamedGate(1, 1, 0), NamedGate(2, 1, 1)}

\* Call n is a gate on qubits of one circuit.
IsLocal(n) ==
  /\ HomeOf(n.gate.k) = HomeOf(n.gate.j)
  /\ n.object = HomeOf(n.gate.j)
  /\ n.call.related = << >>
  /\ n.call.name \in NameOf(n.gate) \ RemoteGateNames
  /\ n.call.qubits # << >>
  /\ n.call.qubits[1] = IndexOf(n.gate.k)
  /\ Last(n.call.qubits) = IndexOf(n.gate.j)

\* It is the side of the control of a gate on qubits of two.
IsExpose(n) ==
  /\ HomeOf(n.gate.k) # HomeOf(n.gate.j)
  /\ n.object = HomeOf(n.gate.k)
  /\ n.call.related = <<HomeOf(n.gate.j)>>
  /\ n.call.name = "expose"
  /\ n.call.qubits = <<IndexOf(n.gate.k)>>

\* It is the side of the target.
IsControlled(n) ==
  /\ HomeOf(n.gate.k) # HomeOf(n.gate.j)
  /\ n.object = HomeOf(n.gate.j)
  /\ n.call.related = <<HomeOf(n.gate.k)>>
  /\ n.call.name \in NameOf(n.gate) \ RemoteGateNames
  /\ n.call.qubits = <<IndexOf(n.gate.j)>>

IsSide(n) == IsLocal(n) \/ IsExpose(n) \/ IsControlled(n)

\* The calls are those of the gates G.
Performs(s, G) ==
  /\ \A p \in 1 .. Len(s) : s[p].gate \in G /\ IsSide(s[p])
  /\ \A p, q \in 1 .. Len(s) : p < q =>
       \/ Qft!Earlier(s[p].gate, s[q].gate)
       \/ s[p].gate = s[q].gate /\ s[p].object # s[q].object
  /\ \A g \in G : \A o \in {HomeOf(g.j), HomeOf(g.k)} :
       \E p \in 1 .. Len(s) : s[p].gate = g /\ s[p].object = o

LEMMA PerformsNothing == Performs(<< >>, {})
BY DEF Performs

LEMMA PerformsLocal ==
  ASSUME NEW n, IsLocal(n)
  PROVE  Performs(<<n>>, {n.gate})
<1> DEFINE s == <<n>>
<1>1. Len(s) = 1 /\ s[1] = n /\ \A p \in 1 .. 1 : p = 1
  OBVIOUS
<1>2. \A p \in 1 .. Len(s) : s[p] = n
  BY <1>1
<1>3. \A p, q \in 1 .. Len(s) : ~ p < q
  BY <1>1
<1>4. 1 \in 1 .. Len(s)
  BY <1>1
<1> HIDE DEF s
<1>5. \A o \in {HomeOf(n.gate.j), HomeOf(n.gate.k)} : n.object = o
  BY DEF IsLocal
<1>6. Performs(s, {n.gate})
  BY <1>2, <1>3, <1>4, <1>5 DEF Performs, IsSide
<1> QED BY <1>6 DEF s

LEMMA PerformsRemote ==
  ASSUME NEW e, NEW c, IsExpose(e), IsControlled(c), e.gate = c.gate
  PROVE  Performs(<<e, c>>, {c.gate})
<1> DEFINE s == <<e, c>>
<1>1. /\ Len(s) = 2 /\ s[1] = e /\ s[2] = c
      /\ \A p \in 1 .. 2 : p = 1 \/ p = 2
      /\ 1 \in 1 .. 2 /\ 2 \in 1 .. 2
  OBVIOUS
<1> HIDE DEF s
<1>2. \A p \in 1 .. Len(s) : s[p] = e \/ s[p] = c
  BY <1>1
<1>3. \A p, q \in 1 .. Len(s) : p < q => s[p] = e /\ s[q] = c
  BY <1>1
<1>4. e.object = HomeOf(c.gate.k) /\ c.object = HomeOf(c.gate.j) /\ e.object # c.object
  BY DEF IsExpose, IsControlled
<1>5. Performs(s, {c.gate})
  BY <1>1, <1>2, <1>3, <1>4 DEF Performs, IsSide
<1> QED BY <1>5 DEF s

\* The calls of earlier gates, and then those of later ones.
LEMMA PerformsBoth ==
  ASSUME NEW T, NEW s \in Seq(T), NEW t \in Seq(T), NEW G, NEW H,
         Performs(s, G), Performs(t, H),
         \A g \in G, h \in H : Qft!Earlier(g, h)
  PROVE  Performs(s \o t, G \cup H)
<1> DEFINE both == s \o t
<1>1. /\ Len(s) \in Nat /\ Len(t) \in Nat /\ Len(both) = Len(s) + Len(t)
      /\ \A p \in 1 .. Len(s) : both[p] = s[p]
      /\ \A p \in 1 .. Len(t) : both[Len(s) + p] = t[p]
  OBVIOUS
<1> HIDE DEF both
<1>2. ASSUME NEW p \in 1 .. Len(both)
      PROVE  \/ p \in 1 .. Len(s) /\ both[p] = s[p]
             \/ \E k \in 1 .. Len(t) : p = Len(s) + k /\ both[p] = t[k]
  <2>1. CASE p <= Len(s)
    BY <1>1, <2>1
  <2>2. CASE p > Len(s)
    <3>1. p - Len(s) \in 1 .. Len(t) /\ Len(s) + (p - Len(s)) = p
      BY <1>1, <2>2
    <3> QED BY <1>1, <3>1
  <2> QED BY <1>1, <2>1, <2>2
<1>3. ASSUME NEW p \in 1 .. Len(both)
      PROVE  both[p].gate \in G \cup H /\ IsSide(both[p])
  <2>1. CASE p \in 1 .. Len(s) /\ both[p] = s[p]
    BY <2>1 DEF Performs
  <2>2. CASE \E k \in 1 .. Len(t) : both[p] = t[k]
    BY <2>2 DEF Performs
  <2> QED BY <1>2, <2>1, <2>2
<1>4. ASSUME NEW p \in 1 .. Len(both), NEW q \in 1 .. Len(both), p < q
      PROVE  \/ Qft!Earlier(both[p].gate, both[q].gate)
             \/ both[p].gate = both[q].gate /\ both[p].object # both[q].object
  <2>1. CASE p \in 1 .. Len(s) /\ q \in 1 .. Len(s)
    <3>1. both[p] = s[p] /\ both[q] = s[q]
      BY <1>1, <2>1
    <3> QED BY <1>4, <2>1, <3>1 DEF Performs
  <2>2. CASE p \in 1 .. Len(s) /\ q \notin 1 .. Len(s)
    <3>1. both[p] = s[p]
      BY <1>1, <2>2
    <3>2. PICK k \in 1 .. Len(t) : both[q] = t[k]
      BY <1>2, <2>2
    <3>3. s[p].gate \in G /\ t[k].gate \in H
      BY <2>2 DEF Performs
    <3> QED BY <3>1, <3>2, <3>3
  <2>3. CASE p \notin 1 .. Len(s)
    <3>1. q \notin 1 .. Len(s)
      BY <1>1, <1>4, <2>3
    <3>2. PICK k \in 1 .. Len(t) : p = Len(s) + k /\ both[p] = t[k]
      BY <1>2, <2>3
    <3>3. PICK m \in 1 .. Len(t) : q = Len(s) + m /\ both[q] = t[m]
      BY <1>2, <3>1
    <3>4. k < m
      BY <1>1, <1>4, <3>2, <3>3
    <3> QED BY <3>2, <3>3, <3>4 DEF Performs
  <2> QED BY <2>1, <2>2, <2>3
<1>5. ASSUME NEW g \in G \cup H, NEW o \in {HomeOf(g.j), HomeOf(g.k)}
      PROVE  \E p \in 1 .. Len(both) : both[p].gate = g /\ both[p].object = o
  <2>1. CASE g \in G
    <3>1. PICK p \in 1 .. Len(s) : s[p].gate = g /\ s[p].object = o
      BY <2>1 DEF Performs
    <3>2. p \in 1 .. Len(both) /\ both[p] = s[p]
      BY <1>1
    <3> QED BY <3>1, <3>2
  <2>2. CASE g \in H
    <3>1. PICK p \in 1 .. Len(t) : t[p].gate = g /\ t[p].object = o
      BY <2>2 DEF Performs
    <3>2. Len(s) + p \in 1 .. Len(both) /\ both[Len(s) + p] = t[p]
      BY <1>1
    <3> QED BY <3>1, <3>2
  <2> QED BY <2>1, <2>2
<1>6. Performs(both, G \cup H)
  BY <1>3, <1>4, <1>5 DEF Performs
<1> QED BY <1>6 DEF both

\* The calls of one iteration after the other.
LEMMA PerformsEach ==
  ASSUME NEW T, NEW s \in Seq(Seq(T)), NEW G,
         \A i \in 1 .. Len(s) : Performs(s[i], G[i]),
         \A i, k \in 1 .. Len(s) : i < k => \A g \in G[i], h \in G[k] : Qft!Earlier(g, h)
  PROVE  Performs(FlattenSeq(s), UNION {G[i] : i \in 1 .. Len(s)})
<1> DEFINE Upto(m) == UNION {G[i] : i \in 1 .. m}
<1>0. Len(s) \in Nat /\ \A i \in 1 .. Len(s) : s[i] \in Seq(T)
  OBVIOUS
<1>1. CASE s = << >>
  <2>1. FlattenSeq(s) = << >>
    BY <1>1 DEF FlattenSeq
  <2>2. UNION {G[i] : i \in 1 .. Len(s)} = {}
    BY <1>1
  <2> QED BY <2>1, <2>2, PerformsNothing
<1>2. CASE s # << >>
  <2> DEFINE C == [i \in 1 .. Len(s) |-> {part \in Seq(T) : Performs(part, Upto(i))}]
  <2>1. Len(s) \in Nat \ {0}
    BY <1>2
  <2>2. \A i \in 1 .. Len(s) : C[i] = {part \in Seq(T) : Performs(part, Upto(i))}
    OBVIOUS
  <2> HIDE DEF C
  <2>3. s[1] \in C[1]
    <3>1. Upto(1) = G[1] /\ 1 \in 1 .. Len(s)
      BY <2>1
    <3> HIDE DEF Upto
    <3> QED BY <1>0, <2>2, <3>1
  <2>4. ASSUME NEW i \in 2 .. Len(s), NEW part \in C[i - 1] PROVE part \o s[i] \in C[i]
    <3>1. i \in 1 .. Len(s) /\ i - 1 \in 1 .. Len(s)
      BY <2>1
    <3>2. part \in Seq(T) /\ Performs(part, Upto(i - 1))
      BY <2>2, <3>1
    <3>3. s[i] \in Seq(T) /\ Performs(s[i], G[i])
      BY <1>0, <3>1
    <3>4. Upto(i) = Upto(i - 1) \cup G[i]
      <4>1. \A k : k \in 1 .. i <=> (k \in 1 .. i - 1 \/ k = i)
        BY <3>1
      <4> QED BY <4>1
    <3>5. \A g \in Upto(i - 1), h \in G[i] : Qft!Earlier(g, h)
      <4>1. \A k \in 1 .. i - 1 : k \in 1 .. Len(s) /\ k < i
        BY <3>1
      <4> QED BY <3>1, <4>1
    <3> HIDE DEF Upto
    <3>6. Performs(part \o s[i], Upto(i))
      <4> DEFINE before == Upto(i - 1)
                 next == s[i]
                 more == G[i]
      <4>1. /\ part \in Seq(T) /\ Performs(part, before)
            /\ next \in Seq(T) /\ Performs(next, more)
            /\ \A g \in before, h \in more : Qft!Earlier(g, h)
        BY <3>2, <3>3, <3>5
      <4> HIDE DEF before, next, more
      <4>2. Performs(part \o next, before \cup more)
        BY <4>1, PerformsBoth
      <4> QED BY <3>4, <4>2 DEF before, next, more
    <3>7. part \o s[i] \in Seq(T)
      BY <3>2, <3>3
    <3> QED BY <2>2, <3>1, <3>6, <3>7
  <2>5. FlattenSeq(s) \in C[Len(s)]
    BY <2>1, <2>3, <2>4, FlattenInduction
  <2>6. Performs(FlattenSeq(s), Upto(Len(s)))
    <3> HIDE DEF Upto
    <3> QED BY <2>1, <2>2, <2>5
  <2> QED BY <2>6
<1> QED BY <1>1, <1>2

\* A call for a gate on qubits of one circuit, and the two for one on qubits of two.
LEMMA LocalCall ==
  ASSUME NEW name, NEW qubits, NEW clbits, NEW loop, NEW j, NEW k,
         HomeOf(k) = HomeOf(j),
         name \in NameOf(NamedGate(loop, j, k)), name \notin RemoteGateNames,
         qubits # << >>, qubits[1] = IndexOf(k), Last(qubits) = IndexOf(j)
  PROVE  Performs(CallOn(HomeOf(j), name, qubits, clbits, << >>, loop, j, k),
                  {NamedGate(loop, j, k)})
<1> DEFINE o == HomeOf(j)
           c == [name |-> name, qubits |-> qubits, clbits |-> clbits, related |-> << >>]
           n == [object |-> o, call |-> c, gate |-> NamedGate(loop, j, k)]
<1>1. CallOn(HomeOf(j), name, qubits, clbits, << >>, loop, j, k) = <<n>>
  BY DEF CallOn, NamedGate
<1>2. /\ n.object = HomeOf(j) /\ n.gate = NamedGate(loop, j, k)
      /\ n.gate.j = j /\ n.gate.k = k
      /\ n.call.name = name /\ n.call.qubits = qubits /\ n.call.related = << >>
  BY DEF NamedGate
<1> HIDE DEF n
<1>3. IsLocal(n)
  BY <1>2 DEF IsLocal
<1> QED BY <1>1, <1>2, <1>3, PerformsLocal

LEMMA RemoteCalls ==
  ASSUME NEW name, NEW loop, NEW j, NEW k,
         HomeOf(k) # HomeOf(j),
         name \in NameOf(NamedGate(loop, j, k)), name \notin RemoteGateNames
  PROVE  Performs(CallOn(HomeOf(k), "expose", <<IndexOf(k)>>, << >>, <<HomeOf(j)>>, loop, j, k)
                  \o CallOn(HomeOf(j), name, <<IndexOf(j)>>, << >>, <<HomeOf(k)>>, loop, j, k),
                  {NamedGate(loop, j, k)})
<1> DEFINE at(q) == <<HomeOf(q)>>
           idx(q) == <<IndexOf(q)>>
           g == NamedGate(loop, j, k)
           e == [object |-> HomeOf(k),
                 call |-> [name |-> "expose", qubits |-> idx(k), clbits |-> << >>,
                           related |-> at(j)],
                 gate |-> g]
           c == [object |-> HomeOf(j),
                 call |-> [name |-> name, qubits |-> idx(j), clbits |-> << >>,
                           related |-> at(k)],
                 gate |-> g]
<1>1. /\ CallOn(HomeOf(k), "expose", idx(k), << >>, at(j), loop, j, k) = <<e>>
      /\ CallOn(HomeOf(j), name, idx(j), << >>, at(k), loop, j, k) = <<c>>
  BY DEF CallOn, NamedGate
<1>2. g.j = j /\ g.k = k
  BY DEF NamedGate
<1>3. /\ e.object = HomeOf(k) /\ e.gate = g
      /\ e.call.name = "expose" /\ e.call.qubits = idx(k) /\ e.call.related = at(j)
      /\ c.object = HomeOf(j) /\ c.gate = g
      /\ c.call.name = name /\ c.call.qubits = idx(j) /\ c.call.related = at(k)
  OBVIOUS
<1> HIDE DEF g, e, c
<1>4. IsExpose(e)
  BY <1>2, <1>3 DEF IsExpose
<1>5. IsControlled(c)
  BY <1>2, <1>3 DEF IsControlled, g
<1>6. Performs(<<e, c>>, {g})
  BY <1>3, <1>4, <1>5, PerformsRemote
<1>7. <<e>> \o <<c>> = <<e, c>>
  <2> DEFINE one == <<e>>
             other == <<c>>
             two == <<e, c>>
  <2>1. one \in Seq({e, c}) /\ other \in Seq({e, c}) /\ two \in Seq({e, c})
    OBVIOUS
  <2>2. /\ Len(one) = 1 /\ one[1] = e /\ Len(other) = 1 /\ other[1] = c
        /\ Len(two) = 2 /\ two[1] = e /\ two[2] = c
    OBVIOUS
  <2> HIDE DEF one, other, two
  <2>3. /\ one \o other \in Seq({e, c}) /\ Len(one \o other) = 2
        /\ (one \o other)[1] = e /\ (one \o other)[2] = c
    <3>1. /\ one \o other \in Seq({e, c}) /\ Len(one \o other) = Len(one) + Len(other)
          /\ \A p \in 1 .. Len(one) : (one \o other)[p] = one[p]
          /\ \A p \in 1 .. Len(other) : (one \o other)[Len(one) + p] = other[p]
      BY <2>1
    <3>2. 1 \in 1 .. Len(one) /\ 1 \in 1 .. Len(other) /\ Len(one) + 1 = 2
      BY <2>2
    <3> QED BY <2>2, <3>1, <3>2
  <2>4. one \o other = two
    BY <2>1, <2>2, <2>3
  <2> QED BY <2>4 DEF one, other, two
<1> QED BY <1>1, <1>6, <1>7 DEF g

\* The gates of the QFT, as names of iterations.
LEMMA QftGates ==
  /\ \A g \in Qft!Gate :
       /\ g = NamedGate(g.loop, g.j, g.k)
       /\ g.loop \in {0, 1, 2}
       /\ g.j \in 0 .. TotalQubits - 1 /\ g.k \in 0 .. TotalQubits - 1
       /\ g.loop = 0 => g.j % 2 = 1
       /\ IF g.loop = 1 THEN g.k <= g.j ELSE g.k = g.j
  /\ \A loop \in {0, 1, 2} : \A j, k \in 0 .. TotalQubits - 1 :
       /\ loop = 0 => j % 2 = 1
       /\ IF loop = 1 THEN k <= j ELSE k = j
       => NamedGate(loop, j, k) \in Qft!Gate
BY DEF Qft!Gate, Qft!Instruction, Qft!Qubit, NamedGate

LEMMA IterationsPerform ==
  ASSUME MappingInv, Mapped, program = "distributed_qft"
  PROVE  /\ \A q \in 0 .. TotalQubits - 1 :
              Performs(XOn(q), IF q % 2 = 1 THEN {NamedGate(0, q, q)} ELSE {})
         /\ \A q \in 0 .. TotalQubits - 1 : Performs(HOn(q), {NamedGate(1, q, q)})
         /\ \A q \in 0 .. TotalQubits - 1 : Performs(MeasureOf(q), {NamedGate(2, q, q)})
         /\ \A j, k \in 0 .. TotalQubits - 1 :
              j # k => Performs(Rotation(j, k), {NamedGate(1, j, k)})
<1>1. \A q : HomeOf(q) = RankAt(q) /\ IndexOf(q) = IdxAt(q)
  BY DEF HomeOf, IndexOf
<1>2. \A q : /\ "x" \in NameOf(NamedGate(0, q, q))
             /\ "h" \in NameOf(NamedGate(1, q, q))
             /\ "measure" \in NameOf(NamedGate(2, q, q))
  BY DEF NameOf, NamedGate
<1>3. \A j, k : j # k => "crz" \in NameOf(NamedGate(1, j, k))
  BY DEF NameOf, NamedGate
<1>4. {"x", "h", "measure", "crz"} \cap RemoteGateNames = {}
  BY DEF RemoteGateNames
<1> DEFINE idx(q) == <<IdxAt(q)>>
           both(k, j) == <<IdxAt(k), IdxAt(j)>>
<1>5. \A q : idx(q) # << >> /\ idx(q)[1] = IdxAt(q) /\ Last(idx(q)) = IdxAt(q)
  BY DEF Last
<1>6. \A j, k : both(k, j) # << >> /\ both(k, j)[1] = IdxAt(k) /\ Last(both(k, j)) = IdxAt(j)
  BY DEF Last
<1> HIDE DEF idx, both
<1>7. ASSUME NEW q \in 0 .. TotalQubits - 1
      PROVE  /\ Performs(XOn(q), IF q % 2 = 1 THEN {NamedGate(0, q, q)} ELSE {})
             /\ Performs(HOn(q), {NamedGate(1, q, q)})
             /\ Performs(MeasureOf(q), {NamedGate(2, q, q)})
  <2>1. Performs(CallOn(RankAt(q), "x", idx(q), << >>, << >>, 0, q, q), {NamedGate(0, q, q)})
    BY <1>1, <1>2, <1>4, <1>5, LocalCall
  <2>2. Performs(CallOn(RankAt(q), "h", idx(q), << >>, << >>, 1, q, q), {NamedGate(1, q, q)})
    BY <1>1, <1>2, <1>4, <1>5, LocalCall
  <2>3. Performs(CallOn(RankAt(q), "measure", idx(q), idx(q), << >>, 2, q, q),
                 {NamedGate(2, q, q)})
    BY <1>1, <1>2, <1>4, <1>5, LocalCall
  <2>4. Performs(XOn(q), IF q % 2 = 1 THEN {NamedGate(0, q, q)} ELSE {})
    <3>1. CASE q % 2 = 1
      BY <2>1, <3>1 DEF XOn, idx
    <3>2. CASE q % 2 # 1
      BY <3>2, PerformsNothing DEF XOn
    <3> QED BY <3>1, <3>2
  <2> QED BY <2>2, <2>3, <2>4 DEF HOn, MeasureOf, idx
<1>8. ASSUME NEW j \in 0 .. TotalQubits - 1, NEW k \in 0 .. TotalQubits - 1, j # k
      PROVE  Performs(Rotation(j, k), {NamedGate(1, j, k)})
  <2>1. CASE RankAt(j) = RankAt(k)
    <3>1. Performs(CallOn(RankAt(j), "crz", both(k, j), << >>, << >>, 1, j, k),
                   {NamedGate(1, j, k)})
      BY <1>1, <1>3, <1>4, <1>6, <1>8, <2>1, LocalCall
    <3> QED BY <2>1, <3>1 DEF Rotation, both
  <2>2. CASE RankAt(j) # RankAt(k)
    <3>1. Performs(CallOn(HomeOf(k), "expose", <<IndexOf(k)>>, << >>, <<HomeOf(j)>>, 1, j, k)
                   \o CallOn(HomeOf(j), "crz", <<IndexOf(j)>>, << >>, <<HomeOf(k)>>, 1, j, k),
                   {NamedGate(1, j, k)})
      BY <1>1, <1>3, <1>4, <1>8, <2>2, RemoteCalls
    <3> QED BY <1>1, <2>2, <3>1 DEF Rotation, ExposeOf
  <2> QED BY <2>1, <2>2
<1> QED BY <1>7, <1>8

\* The calls for one qubit in the second loop.
LEMMA RotationsPerform ==
  ASSUME MappingInv, Mapped, program = "distributed_qft", NEW j \in 0 .. TotalQubits - 1
  PROVE  /\ RotationsAndH(j) \in Seq(Good)
         /\ Performs(RotationsAndH(j), {g \in Qft!Gate : g.loop = 1 /\ g.j = j})
<1> DEFINE rotations == [k \in 1 .. j |-> Rotation(j, k - 1)]
           G == [k \in 1 .. j |-> {NamedGate(1, j, k - 1)}]
           before == FlattenSeq(rotations)
           lower == UNION {G[k] : k \in 1 .. j}
<1>0. TotalQubits \in Nat /\ j \in Nat
  BY SizesOfProgram
<1>1. ASSUME NEW k \in 1 .. j
      PROVE  /\ Rotation(j, k - 1) \in Seq(Good)
             /\ Performs(Rotation(j, k - 1), {NamedGate(1, j, k - 1)})
  <2>1. k - 1 \in 0 .. TotalQubits - 1 /\ j # k - 1
    BY <1>0
  <2> QED BY <2>1, IterationsGood, IterationsPerform
<1>2. rotations \in Seq(Seq(Good)) /\ Len(rotations) = j
  <2>1. \A k \in 1 .. j : Rotation(j, k - 1) \in Seq(Good)
    BY <1>1
  <2> QED BY <1>0, <2>1
<1>3. \A k \in 1 .. j : rotations[k] = Rotation(j, k - 1) /\ G[k] = {NamedGate(1, j, k - 1)}
  OBVIOUS
<1> HIDE DEF rotations, G
<1>4. \A k \in 1 .. Len(rotations) : Performs(rotations[k], G[k])
  BY <1>1, <1>2, <1>3
<1>5. ASSUME NEW i \in 1 .. Len(rotations), NEW k \in 1 .. Len(rotations), i < k,
             NEW g \in G[i], NEW h \in G[k]
      PROVE  Qft!Earlier(g, h)
  <2>1. g = NamedGate(1, j, i - 1) /\ h = NamedGate(1, j, k - 1)
    BY <1>2, <1>3
  <2>2. i - 1 < k - 1
    BY <1>2, <1>5
  <2> QED BY <2>1, <2>2 DEF NamedGate, Qft!Earlier
<1>6. Performs(before, lower)
  BY <1>2, <1>4, <1>5, PerformsEach
<1>7. before \in Seq(Good)
  BY <1>2, FlattenType
<1>8. \A g : g \in lower <=> \E k \in 1 .. j : g = NamedGate(1, j, k - 1)
  BY <1>3
<1>9. HOn(j) \in Seq(Good) /\ Performs(HOn(j), {NamedGate(1, j, j)})
  BY IterationsGood, IterationsPerform
<1>10. \A g \in lower, h \in {NamedGate(1, j, j)} : Qft!Earlier(g, h)
  BY <1>0, <1>8 DEF NamedGate, Qft!Earlier
<1>11. lower \cup {NamedGate(1, j, j)} = {g \in Qft!Gate : g.loop = 1 /\ g.j = j}
  <2>1. ASSUME NEW g \in lower \cup {NamedGate(1, j, j)}
        PROVE  g \in Qft!Gate /\ g.loop = 1 /\ g.j = j
    <3>1. PICK k \in 0 .. j : g = NamedGate(1, j, k)
      BY <1>0, <1>8
    <3>2. k \in 0 .. TotalQubits - 1
      BY <1>0
    <3>3. g \in Qft!Gate
      BY <1>0, <3>1, <3>2, QftGates
    <3> QED BY <3>1, <3>3 DEF NamedGate
  <2>2. ASSUME NEW g \in Qft!Gate, g.loop = 1, g.j = j
        PROVE  g \in lower \cup {NamedGate(1, j, j)}
    <3>1. g = NamedGate(1, j, g.k) /\ g.k \in 0 .. j
      BY <1>0, <2>2, QftGates
    <3>2. CASE g.k = j
      BY <3>1, <3>2
    <3>3. CASE g.k # j
      <4>1. g.k + 1 \in 1 .. j /\ (g.k + 1) - 1 = g.k
        BY <1>0, <3>1, <3>3
      <4> QED BY <1>8, <3>1, <4>1
    <3> QED BY <3>2, <3>3
  <2> HIDE DEF lower
  <2> QED BY <2>1, <2>2
<1>12. RotationsAndH(j) = before \o HOn(j)
  BY DEF RotationsAndH, rotations
<1> DEFINE h == HOn(j)
           last == {NamedGate(1, j, j)}
<1> HIDE DEF before, lower, h, last
<1>13. h \in Seq(Good) /\ Performs(h, last) /\ \A g \in lower, x \in last : Qft!Earlier(g, x)
  BY <1>9, <1>10 DEF h, last
<1>14. before \o h \in Seq(Good) /\ Performs(before \o h, lower \cup last)
  BY <1>6, <1>7, <1>13, PerformsBoth
<1> QED BY <1>11, <1>12, <1>14 DEF h, last

\* The three loops.
LEMMA QftPerforms ==
  ASSUME MappingInv, Mapped, program = "distributed_qft"
  PROVE  Performs(build_distributed_qft_circuits, Qft!Gate)
<1> DEFINE Loop(n) == {g \in Qft!Gate : g.loop = n}
           Of(n) == [q \in 1 .. TotalQubits |-> {g \in Qft!Gate : g.loop = n /\ g.j = q - 1}]
<1>1. total = TotalQubits /\ TotalQubits \in Nat
  BY SizesOfProgram DEF MappingInv, MapTypeOK
<1>2. \A q \in 1 .. total : q - 1 \in 0 .. TotalQubits - 1
  BY <1>1
<1>3. ASSUME NEW n, NEW s \in Seq(Seq(Good)), Len(s) = TotalQubits,
             \A q \in 1 .. TotalQubits :
               Performs(s[q], {g \in Qft!Gate : g.loop = n /\ g.j = q - 1})
      PROVE  FlattenSeq(s) \in Seq(Good) /\ Performs(FlattenSeq(s), Loop(n))
  <2> DEFINE G == Of(n)
  <2>1. \A q \in 1 .. TotalQubits : G[q] = {g \in Qft!Gate : g.loop = n /\ g.j = q - 1}
    OBVIOUS
  <2> HIDE DEF G
  <2>2. \A q \in 1 .. Len(s) : Performs(s[q], G[q])
    BY <1>3, <2>1
  <2>3. ASSUME NEW i \in 1 .. Len(s), NEW k \in 1 .. Len(s), i < k,
               NEW g \in G[i], NEW h \in G[k]
        PROVE  Qft!Earlier(g, h)
    <3>1. g.loop = n /\ h.loop = n /\ g.j = i - 1 /\ h.j = k - 1
      BY <1>3, <2>1
    <3>2. i - 1 < k - 1
      BY <1>1, <1>3, <2>3
    <3> QED BY <3>1, <3>2 DEF Qft!Earlier
  <2>4. Performs(FlattenSeq(s), UNION {G[q] : q \in 1 .. Len(s)})
    BY <2>2, <2>3, PerformsEach
  <2>5. UNION {G[q] : q \in 1 .. TotalQubits} = Loop(n)
    <3>1. ASSUME NEW g \in Loop(n) PROVE \E q \in 1 .. TotalQubits : g \in G[q]
      <4>1. g.j \in 0 .. TotalQubits - 1
        BY QftGates
      <4>2. g.j + 1 \in 1 .. TotalQubits /\ (g.j + 1) - 1 = g.j
        BY <1>1, <4>1
      <4>3. g \in G[g.j + 1]
        BY <2>1, <4>2
      <4> QED BY <4>2, <4>3
    <3>2. \A q \in 1 .. TotalQubits : G[q] \subseteq Loop(n)
      BY <2>1
    <3> HIDE DEF Loop
    <3> QED BY <3>1, <3>2
  <2>6. FlattenSeq(s) \in Seq(Good)
    BY FlattenType
  <2> QED BY <1>3, <2>4, <2>5, <2>6
<1> DEFINE first == [q \in 1 .. total |-> XOn(q - 1)]
           second == [j \in 1 .. total |-> RotationsAndH(j - 1)]
           third == [q \in 1 .. total |-> MeasureOf(q - 1)]
<1>4. /\ first \in Seq(Seq(Good)) /\ second \in Seq(Seq(Good)) /\ third \in Seq(Seq(Good))
      /\ Len(first) = TotalQubits /\ Len(second) = TotalQubits /\ Len(third) = TotalQubits
  <2>1. \A q \in 1 .. total : XOn(q - 1) \in Seq(Good) /\ MeasureOf(q - 1) \in Seq(Good)
    BY <1>2, IterationsGood
  <2>2. \A q \in 1 .. total : RotationsAndH(q - 1) \in Seq(Good)
    BY <1>2, RotationsPerform
  <2> QED BY <1>1, <2>1, <2>2
<1>5. \A q \in 1 .. TotalQubits :
        /\ first[q] = XOn(q - 1) /\ second[q] = RotationsAndH(q - 1)
        /\ third[q] = MeasureOf(q - 1)
  BY <1>1
<1> HIDE DEF first, second, third
<1>6. \A q \in 0 .. TotalQubits - 1 :
        /\ {g \in Qft!Gate : g.loop = 0 /\ g.j = q}
             = IF q % 2 = 1 THEN {NamedGate(0, q, q)} ELSE {}
        /\ {g \in Qft!Gate : g.loop = 2 /\ g.j = q} = {NamedGate(2, q, q)}
  <2> SUFFICES ASSUME NEW q \in 0 .. TotalQubits - 1
               PROVE  /\ {g \in Qft!Gate : g.loop = 0 /\ g.j = q}
                           = IF q % 2 = 1 THEN {NamedGate(0, q, q)} ELSE {}
                      /\ {g \in Qft!Gate : g.loop = 2 /\ g.j = q} = {NamedGate(2, q, q)}
    OBVIOUS
  <2>1. \A g \in Qft!Gate : g.loop # 1 /\ g.j = q => g = NamedGate(g.loop, q, q)
    BY QftGates
  <2>2. /\ q % 2 = 1 => NamedGate(0, q, q) \in Qft!Gate
        /\ NamedGate(2, q, q) \in Qft!Gate
    BY QftGates
  <2>3. /\ NamedGate(0, q, q).loop = 0 /\ NamedGate(2, q, q).loop = 2
        /\ NamedGate(0, q, q).j = q /\ NamedGate(2, q, q).j = q
    BY DEF NamedGate
  <2>4. \A g \in Qft!Gate : g.loop = 0 => g.j % 2 = 1
    BY QftGates
  <2> QED BY <2>1, <2>2, <2>3, <2>4
<1>7. \A q \in 1 .. TotalQubits :
        /\ Performs(first[q], {g \in Qft!Gate : g.loop = 0 /\ g.j = q - 1})
        /\ Performs(second[q], {g \in Qft!Gate : g.loop = 1 /\ g.j = q - 1})
        /\ Performs(third[q], {g \in Qft!Gate : g.loop = 2 /\ g.j = q - 1})
  <2> SUFFICES ASSUME NEW q \in 1 .. TotalQubits
               PROVE  /\ Performs(first[q], {g \in Qft!Gate : g.loop = 0 /\ g.j = q - 1})
                      /\ Performs(second[q], {g \in Qft!Gate : g.loop = 1 /\ g.j = q - 1})
                      /\ Performs(third[q], {g \in Qft!Gate : g.loop = 2 /\ g.j = q - 1})
    OBVIOUS
  <2>1. q - 1 \in 0 .. TotalQubits - 1
    BY <1>1, <1>2
  <2> QED BY <1>5, <1>6, <2>1, IterationsPerform, RotationsPerform
<1> DEFINE xs == FlattenSeq(first)
           rotations == FlattenSeq(second)
           measures == FlattenSeq(third)
<1>8. /\ xs \in Seq(Good) /\ Performs(xs, Loop(0))
      /\ rotations \in Seq(Good) /\ Performs(rotations, Loop(1))
      /\ measures \in Seq(Good) /\ Performs(measures, Loop(2))
  BY <1>3, <1>4, <1>7
<1>9. \A g \in Loop(0), h \in Loop(1) \cup Loop(2) : Qft!Earlier(g, h)
  BY DEF Qft!Earlier
<1>10. \A g \in Loop(0) \cup Loop(1), h \in Loop(2) : Qft!Earlier(g, h)
  BY DEF Qft!Earlier
<1>11. (Loop(0) \cup Loop(1)) \cup Loop(2) = Qft!Gate
  BY QftGates
<1>12. build_distributed_qft_circuits = (xs \o rotations) \o measures
  BY DEF build_distributed_qft_circuits, first, second, third
<1> HIDE DEF xs, rotations, measures, Loop
<1>13. xs \o rotations \in Seq(Good) /\ Performs(xs \o rotations, Loop(0) \cup Loop(1))
  BY <1>8, <1>9, PerformsBoth
<1> DEFINE begin == xs \o rotations
           two == Loop(0) \cup Loop(1)
           all == begin \o measures
<1>14. begin \in Seq(Good) /\ Performs(begin, two) /\ \A g \in two, h \in Loop(2) : Qft!Earlier(g, h)
  BY <1>10, <1>13
<1> HIDE DEF begin, two
<1>15. Performs(all, two \cup Loop(2))
  BY <1>8, <1>14, PerformsBoth
<1> QED BY <1>11, <1>12, <1>15 DEF all, begin, two

\* simple_telegate: h on qubit 0, cx of 1 by 0, and measure of 1.
LEMMA TelegatePerforms ==
  ASSUME program = "simple_telegate"
  PROVE  Performs(simple_telegate,
                  {NamedGate(1, 0, 0), NamedGate(1, 1, 0), NamedGate(2, 1, 1)})
<1> DEFINE zero == <<0>>
<1>1. /\ HomeOf(0) = controlCircuit /\ HomeOf(1) = targetCircuit /\ HomeOf(0) # HomeOf(1)
      /\ IndexOf(0) = 0 /\ IndexOf(1) = 0
  BY SizesOfProgram DEF HomeOf, IndexOf, controlCircuit, targetCircuit
<1>2. /\ "h" \in NameOf(NamedGate(1, 0, 0)) /\ "cx" \in NameOf(NamedGate(1, 1, 0))
      /\ "measure" \in NameOf(NamedGate(2, 1, 1))
      /\ {"h", "cx", "measure"} \cap RemoteGateNames = {}
  BY DEF NameOf, NamedGate, RemoteGateNames
<1>3. zero # << >> /\ zero[1] = 0 /\ Last(zero) = 0
  BY DEF Last
<1> HIDE DEF zero
<1> DEFINE first == CallOn(HomeOf(0), "h", zero, << >>, << >>, 1, 0, 0)
           second == CallOn(HomeOf(0), "expose", <<IndexOf(0)>>, << >>, <<HomeOf(1)>>, 1, 1, 0)
           third == CallOn(HomeOf(1), "cx", <<IndexOf(1)>>, << >>, <<HomeOf(0)>>, 1, 1, 0)
           fourth == CallOn(HomeOf(1), "measure", zero, zero, << >>, 2, 1, 1)
           T == {first[1], second[1], third[1], fourth[1]}
<1>4. Performs(first, {NamedGate(1, 0, 0)})
  BY <1>1, <1>2, <1>3, LocalCall
<1>5. Performs(second \o third, {NamedGate(1, 1, 0)})
  BY <1>1, <1>2, RemoteCalls
<1>6. Performs(fourth, {NamedGate(2, 1, 1)})
  BY <1>1, <1>2, <1>3, LocalCall
<1>7. first \in Seq(T) /\ second \in Seq(T) /\ third \in Seq(T) /\ fourth \in Seq(T)
  <2>1. /\ first = <<first[1]>> /\ second = <<second[1]>>
        /\ third = <<third[1]>> /\ fourth = <<fourth[1]>>
    BY DEF CallOn
  <2> HIDE DEF first, second, third, fourth
  <2>2. first[1] \in T /\ second[1] \in T /\ third[1] \in T /\ fourth[1] \in T
    OBVIOUS
  <2> HIDE DEF T
  <2>3. \A x \in T : <<x>> \in Seq(T)
    OBVIOUS
  <2> QED BY <2>1, <2>2, <2>3, Zenon
<1>8. simple_telegate = ((first \o second) \o third) \o fourth
  BY <1>1 DEF simple_telegate, zero
<1> HIDE DEF first, second, third, fourth, T
<1> DEFINE pair == second \o third
           three == first \o pair
           g == {NamedGate(1, 0, 0)}
           h == {NamedGate(1, 1, 0)}
           m == {NamedGate(2, 1, 1)}
<1>9. pair \in Seq(T) /\ three \in Seq(T) /\ (first \o second) \o third = three
  BY <1>7
<1>10. /\ \A x \in g, y \in h : Qft!Earlier(x, y)
       /\ \A x \in g \cup h, y \in m : Qft!Earlier(x, y)
  BY DEF NamedGate, Qft!Earlier
<1>11. Performs(pair, h)
  BY <1>5
<1> HIDE DEF pair, g, h, m
<1>12. Performs(three, g \cup h)
  BY <1>4, <1>7, <1>9, <1>10, <1>11, PerformsBoth DEF g
<1> DEFINE two == g \cup h
<1>13. Performs(three, two) /\ \A x \in two, y \in m : Qft!Earlier(x, y)
  BY <1>10, <1>12
<1>14. Performs(fourth, m)
  BY <1>6 DEF m
<1> HIDE DEF three, two
<1>15. Performs(three \o fourth, two \cup m)
  BY <1>7, <1>9, <1>13, <1>14, PerformsBoth
<1>16. two \cup m = {NamedGate(1, 0, 0), NamedGate(1, 1, 0), NamedGate(2, 1, 1)}
  BY DEF two, g, h, m
<1> QED BY <1>8, <1>9, <1>15, <1>16

LEMMA CallsPerform ==
  ASSUME MappingInv, Mapped, program \in {"distributed_qft", "simple_telegate"}
  PROVE  Performs(ProgramCalls, Gates)
<1>1. CASE program = "distributed_qft"
  BY <1>1, QftPerforms DEF ProgramCalls, Gates
<1>2. CASE program = "simple_telegate"
  BY <1>2, TelegatePerforms DEF ProgramCalls, Gates
<1> QED BY <1>1, <1>2

(***************************************************************************)
(* The inductive invariant.  It contains those of the mapping and of the   *)
(* transformation, of which these programs are an instance.                *)
(***************************************************************************)

\* An instruction that relates only to circuits of the run, and to one if it
\* is a remote gate.
Sendable(g) ==
  /\ g.name # "rcontrol"
  /\ g.name \in RemoteGateNames => g.circuits # << >>
  /\ \A i \in 1 .. Len(g.circuits) : \E o \in Participant : g.circuits[i] = id[o]

ObjectsSendable ==
  \A o \in Object : \A i \in 1 .. Len(instructions[o]) : Sendable(instructions[o][i])

\* run holds sendable instructions, and all circuits that they relate to.
BatchSendable ==
  /\ \A p \in 1 .. Len(batch) :
       /\ ~batch[p].halfDone
       /\ \A i \in 1 .. Len(batch[p].instructions) : Sendable(batch[p].instructions[i])
  /\ batch # << >> =>
       \A o \in Participant : \E p \in 1 .. Len(batch) : batch[p].id = id[o]

\* No call is made before the mapping is complete, and none after the last.
CallsCounted ==
  /\ calls \in Nat
  /\ Mapped => calls <= Len(ProgramCalls)
  /\ ~Mapped => calls = 0

ProgramInv ==
  /\ program \in {"distributed_qft", "simple_telegate"}
  /\ id \in Namings
  /\ halfDone = {}
  /\ MappingInv
  /\ CallsCounted
  /\ ObjectsSendable
  /\ BatchSendable

ExamplesInv == TransformInv /\ TargetsInv /\ ProgramInv

\* A program that the mapping is ready for asks for a good call next.
LEMMA NextCallGood ==
  ASSUME ProgramInv, Mapped, ~Built
  PROVE  ProgramCalls[calls + 1] \in Good
<1>1. ProgramCalls \in Seq(Good)
  BY CallsGood DEF ProgramInv
<1> DEFINE all == ProgramCalls
<1> HIDE DEF all
<1>2. calls + 1 \in 1 .. Len(all)
  <2>1. all \in Seq(Good) /\ calls \in Nat /\ calls <= Len(all) /\ calls # Len(all)
    BY <1>1 DEF ProgramInv, CallsCounted, Built, all
  <2> QED BY <2>1
<1>3. all \in Seq(Good)
  BY <1>1 DEF all
<1> QED BY <1>2, <1>3 DEF all

\* All related circuits of a good call have ids.
LEMMA GoodIsNamed ==
  ASSUME ProgramInv, NEW n \in Good
  PROVE  Named(n.call) = Len(n.call.related)
<1> DEFINE c == n.call
           Fits(m) == /\ \A i \in 1 .. m : id[c.related[i]] # NoId
                      /\ m < Len(c.related) => id[c.related[m + 1]] = NoId
<1>1. c.related \in Seq(Object)
  BY DEF Good, Callable
<1>2. \A o \in Object : id[o] # NoId
  BY ExampleAssumption DEF ProgramInv
<1> HIDE DEF c
<1>3. Len(c.related) \in Nat /\ \A i \in 1 .. Len(c.related) : id[c.related[i]] # NoId
  BY <1>1, <1>2
<1>4. Len(c.related) \in 0 .. Len(c.related) /\ Fits(Len(c.related))
  BY <1>3
<1>5. Named(c) = CHOOSE m \in 0 .. Len(c.related) : Fits(m)
  BY DEF Named
<1>6. Named(c) \in 0 .. Len(c.related) /\ Fits(Named(c))
  <2> HIDE DEF Fits
  <2> QED BY <1>4, <1>5
<1> DEFINE m == Named(c)
<1>7. m \in 0 .. Len(c.related) /\ Fits(m)
  BY <1>6
<1> HIDE DEF m
<1>8. m = Len(c.related)
  <2> SUFFICES ASSUME m < Len(c.related) PROVE FALSE
    BY <1>3, <1>7
  <2>1. m + 1 \in 1 .. Len(c.related)
    BY <1>3, <1>7
  <2> QED BY <1>3, <1>7, <2>1
<1> QED BY <1>8 DEF m, c

\* The calls are a function of the program and its mapping.
LEMMA SameCalls ==
  ASSUME UNCHANGED <<mapVars, program>>
  PROVE  ProgramCalls' = ProgramCalls
<1>1. /\ mapping' = mapping /\ size' = size /\ program' = program
      /\ total' = total
  BY DEF mapVars, total
<1>2. \A q : RankAt(q)' = RankAt(q) /\ IdxAt(q)' = IdxAt(q)
  BY <1>1 DEF RankAt, IdxAt
<1>3. \A q : XOn(q)' = XOn(q) /\ HOn(q)' = HOn(q) /\ MeasureOf(q)' = MeasureOf(q)
  BY <1>2 DEF XOn, HOn, MeasureOf
<1>4. \A j, k : Rotation(j, k)' = Rotation(j, k)
  BY <1>2 DEF Rotation, ExposeOf
<1>5. \A j : RotationsAndH(j)' = RotationsAndH(j)
  BY <1>3, <1>4 DEF RotationsAndH
<1>6. build_distributed_qft_circuits' = build_distributed_qft_circuits
  BY <1>1, <1>3, <1>5 DEF build_distributed_qft_circuits
<1>7. simple_telegate' = simple_telegate
  BY DEF simple_telegate
<1> QED BY <1>1, <1>6, <1>7 DEF ProgramCalls

\* What the programs pass to run are their participants.
LEMMA ArgumentOfRun ==
  ASSUME program \in {"distributed_qft", "simple_telegate"}, size \in Sizes
  PROVE  /\ Circuits \in Seq(Object)
         /\ \A i \in 1 .. Len(Circuits) : Circuits[i] \in Participant
         /\ \A o \in Participant : \E i \in 1 .. Len(Circuits) : Circuits[i] = o
<1>1. CASE program = "distributed_qft"
  <2>1. Circuits = [i \in 1 .. Qpus |-> i - 1] /\ Participant = 0 .. Qpus - 1 /\ Qpus \in Nat
    BY <1>1, SizesOfProgram DEF Circuits, Participant
  <2>2. Participant \subseteq Object
    BY Registers
  <2>3. Len(Circuits) = Qpus
    BY <2>1
  <2>4. \A o \in Participant : o + 1 \in 1 .. Qpus /\ (o + 1) - 1 = o
    BY <2>1
  <2>5. Circuits \in Seq(Object)
    BY <2>1, <2>2
  <2> QED BY <2>1, <2>3, <2>4, <2>5
<1>2. CASE program = "simple_telegate"
  <2>1. Circuits = <<controlCircuit, targetCircuit>> /\ Participant = {controlCircuit, targetCircuit}
    BY <1>2 DEF Circuits, Participant
  <2>2. controlCircuit \in Object /\ targetCircuit \in Object
    BY <2>1, Registers
  <2>3. Len(Circuits) = 2 /\ Circuits[1] = controlCircuit /\ Circuits[2] = targetCircuit
    BY <2>1
  <2>4. Circuits \in Seq(Object)
    BY <2>1, <2>2
  <2>5. 1 \in 1 .. 2 /\ 2 \in 1 .. 2 /\ \A i \in 1 .. 2 : i = 1 \/ i = 2
    OBVIOUS
  <2> QED BY <2>1, <2>3, <2>4, <2>5
<1> QED BY <1>1, <1>2

\* Each step of the programs is one that the invariants of the transformation allow.
LEMMA ProgramIsAny ==
  ASSUME ProgramInv, [ExamplesNext]_exampleVars
  PROVE  [AnyNext]_vars
<1>1. CASE BuildMapping
  BY <1>1 DEF BuildMapping
<1>2. CASE AddNext
  <2>1. PICK n \in Good : AddInstruction(n.object, n.call)
    BY <1>2, NextCallGood DEF AddNext
  <2>2. n.object \in Object /\ n.call \in Callable
    BY Registers DEF Good
  <2> QED BY <1>2, <2>1, <2>2 DEF AddNext, AnyNext, Building
<1>3. CASE RunCircuits
  <2>1. Circuits \in Seq(Object)
    BY ArgumentOfRun DEF ProgramInv, MappingInv, MapTypeOK
  <2> QED BY <1>3, <2>1 DEF RunCircuits, AnyNext
<1>4. CASE Send
  BY <1>4 DEF Send, AnyNext
<1>5. ASSUME NEW v \in VirtualQpu, QpuStep(v) PROVE UNCHANGED vars
  BY <1>5 DEF QpuStep, RunLocal, Expose, RunControlled
<1>6. CASE UNCHANGED exampleVars
  BY <1>6 DEF exampleVars
<1> QED BY <1>1, <1>2, <1>3, <1>4, <1>5, <1>6 DEF ExamplesNext, ProgramStep

\* The programs have a number of calls.
LEMMA CallsNumbered ==
  MappingInv /\ Mapped /\ program \in {"distributed_qft", "simple_telegate"}
    => Len(ProgramCalls) \in Nat
<1> SUFFICES ASSUME MappingInv, Mapped, program \in {"distributed_qft", "simple_telegate"}
             PROVE  Len(ProgramCalls) \in Nat
  OBVIOUS
<1> DEFINE all == ProgramCalls
<1>1. all \in Seq(Good)
  BY CallsGood
<1> HIDE DEF all
<1>2. Len(all) \in Nat
  BY <1>1
<1> QED BY <1>2 DEF all

LEMMA InitExamples == ExamplesInit => ExamplesInv
<1> SUFFICES ASSUME ExamplesInit PROVE ExamplesInv
  OBVIOUS
<1>1. TransformInv /\ TargetsInv /\ MappingInv
  BY InitTransform, InitTargets, InitMapping DEF ExamplesInit
<1>2. /\ program \in {"distributed_qft", "simple_telegate"}
      /\ id \in Namings /\ halfDone = {} /\ calls = 0 /\ batch = << >>
      /\ \A o \in Object : instructions[o] = << >>
  BY DEF ExamplesInit, Init, CircuitInit
<1>3. CallsCounted
  BY <1>1, <1>2, CallsNumbered DEF CallsCounted
<1>4. ObjectsSendable
  BY <1>2 DEF ObjectsSendable
<1>5. BatchSendable
  BY <1>2 DEF BatchSendable
<1> QED BY <1>1, <1>2, <1>3, <1>4, <1>5 DEF ExamplesInv, ProgramInv

\* The mapping is built by the steps of its module only.
LEMMA ProgramMaps ==
  ASSUME [ExamplesNext]_exampleVars
  PROVE  [MapNext]_mapVars
BY DEF ExamplesNext, ProgramStep, BuildMapping, AddNext, RunCircuits, Send, QpuStep,
       RunLocal, Expose, RunControlled, exampleVars

\* No step changes what the instructions are judged by.
LEMMA ProgramFixed ==
  ASSUME [ExamplesNext]_exampleVars
  PROVE  UNCHANGED <<id, program, halfDone>>
<1>1. CASE BuildMapping
  BY <1>1 DEF BuildMapping, vars, circuitVars
<1>2. CASE AddNext
  BY <1>2 DEF AddNext, AddInstruction
<1>3. CASE RunCircuits
  BY <1>3 DEF RunCircuits, Run, circuitVars
<1>4. CASE Send
  BY <1>4 DEF Send, SendCircuit, Complete, circuitVars
<1>5. ASSUME NEW v \in VirtualQpu, QpuStep(v) PROVE UNCHANGED <<id, program, halfDone>>
  BY <1>5 DEF QpuStep, RunLocal, Expose, RunControlled, vars, circuitVars
<1>6. CASE UNCHANGED exampleVars
  BY <1>6 DEF exampleVars, vars, circuitVars
<1> QED BY <1>1, <1>2, <1>3, <1>4, <1>5, <1>6 DEF ExamplesNext, ProgramStep

LEMMA SameSendable ==
  ASSUME UNCHANGED <<id, program>>
  PROVE  \A g : Sendable(g)' <=> Sendable(g)
<1>1. Participant' = Participant
  BY DEF Participant
<1> QED BY <1>1 DEF Sendable

\* A step that neither adds an instruction nor starts run keeps what is said
\* of the instructions.
LEMMA OthersSendable ==
  ASSUME ProgramInv, UNCHANGED <<id, program, instructions, batch>>
  PROVE  ObjectsSendable' /\ BatchSendable'
<1>1. \A g : Sendable(g)' <=> Sendable(g)
  BY SameSendable
<1>2. Participant' = Participant
  BY DEF Participant
<1>3. ObjectsSendable'
  BY <1>1 DEF ProgramInv, ObjectsSendable
<1>4. BatchSendable'
  BY <1>1, <1>2 DEF ProgramInv, BatchSendable
<1> QED BY <1>3, <1>4

\* What a good call adds is sendable.
LEMMA AddedSendable ==
  ASSUME ExamplesInv, NEW n \in Good, AddInstruction(n.object, n.call),
         UNCHANGED <<program, batch>>
  PROVE  ObjectsSendable' /\ BatchSendable'
<1> DEFINE c == n.call
           g == [name |-> c.name, qubits |-> c.qubits, clbits |-> c.clbits,
                 circuits |-> Ids(c)]
<1>1. /\ n.object \in Object
      /\ c.related \in Seq(Participant) /\ c.name # "rcontrol"
      /\ c.name \in RemoteGateNames => c.related # << >>
  BY Registers DEF Good
<1>2. /\ id' = id
      /\ instructions' = [instructions EXCEPT ![n.object] = Append(@, g)]
  BY DEF AddInstruction
<1>3. Sendable(g)
  <2>1. g.name = c.name /\ g.circuits = [i \in 1 .. Len(c.related) |-> id[c.related[i]]]
    BY DEF Ids
  <2> HIDE DEF g, c
  <2>2. Len(c.related) \in Nat /\ \A i \in 1 .. Len(c.related) : c.related[i] \in Participant
    BY <1>1
  <2>3. Len(g.circuits) = Len(c.related)
    BY <2>1, <2>2
  <2>4. c.related # << >> => g.circuits # << >>
    BY <1>1, <2>3
  <2>5. \A i \in 1 .. Len(g.circuits) : g.circuits[i] = id[c.related[i]]
    BY <2>1, <2>3
  <2> QED BY <1>1, <2>1, <2>2, <2>3, <2>4, <2>5 DEF Sendable
<1>4. \A h : Sendable(h)' <=> Sendable(h)
  BY <1>2, SameSendable
<1> HIDE DEF g
<1>5. ObjectsSendable'
  <2> SUFFICES ASSUME NEW o \in Object, NEW i \in 1 .. Len(instructions'[o])
               PROVE  Sendable(instructions'[o][i])
    BY <1>4 DEF ObjectsSendable
  <2>1. instructions \in [Object -> Seq(Instruction)]
    BY DEF ExamplesInv, TransformInv, CircuitsTyped
  <2> DEFINE old == instructions[o]
  <2>2. \A k \in 1 .. Len(old) : Sendable(old[k])
    BY DEF ExamplesInv, ProgramInv, ObjectsSendable
  <2>3. old \in Seq(Instruction)
    BY <2>1
  <2>4. instructions'[o] = old \/ instructions'[o] = Append(old, g)
    BY <1>1, <1>2, <2>1
  <2> HIDE DEF old
  <2>5. CASE instructions'[o] = old
    BY <2>2, <2>5
  <2>6. CASE instructions'[o] = Append(old, g)
    <3>1. /\ Len(Append(old, g)) = Len(old) + 1 /\ Len(old) \in Nat
          /\ Append(old, g)[Len(old) + 1] = g
          /\ \A k \in 1 .. Len(old) : Append(old, g)[k] = old[k]
      BY <2>3
    <3>2. i \in 1 .. Len(old) \/ i = Len(old) + 1
      BY <2>6, <3>1
    <3> QED BY <1>3, <2>2, <2>6, <3>1, <3>2
  <2> QED BY <2>4, <2>5, <2>6
<1>6. BatchSendable'
  <2>1. Participant' = Participant
    BY DEF Participant
  <2> QED BY <1>2, <1>4, <2>1 DEF ExamplesInv, ProgramInv, BatchSendable
<1> QED BY <1>5, <1>6

\* run is passed all participants, and holds their instructions.
LEMMA RunSendable ==
  ASSUME ProgramInv, RunCircuits
  PROVE  ObjectsSendable' /\ BatchSendable'
<1>1. /\ UNCHANGED <<id, program, instructions>>
      /\ batch' = [i \in 1 .. Len(Circuits) |-> Raw(Circuits[i])]
  BY DEF RunCircuits, Run, circuitVars
<1>2. \A g : Sendable(g)' <=> Sendable(g)
  BY <1>1, SameSendable
<1>3. Participant' = Participant
  BY <1>1 DEF Participant
<1>4. ObjectsSendable'
  BY <1>1, <1>2 DEF ProgramInv, ObjectsSendable
<1> DEFINE all == Circuits
<1>5. /\ all \in Seq(Object)
      /\ \A i \in 1 .. Len(all) : all[i] \in Participant
      /\ \A o \in Participant : \E i \in 1 .. Len(all) : all[i] = o
  BY ArgumentOfRun DEF ProgramInv, MappingInv, MapTypeOK
<1> HIDE DEF all
<1>6. Len(batch') = Len(all) /\ \A i \in 1 .. Len(all) : batch'[i] = Raw(all[i])
  <2>1. Len(all) \in Nat
    BY <1>5
  <2>2. batch' = [i \in 1 .. Len(all) |-> Raw(all[i])]
    BY <1>1 DEF all
  <2> QED BY <2>1, <2>2
<1>7. \A o : /\ Raw(o).id = id[o] /\ Raw(o).instructions = instructions[o]
             /\ ~Raw(o).halfDone
  BY DEF Raw, ProgramInv
<1>8. \A o \in Participant : o \in Object
  BY Registers
<1>9. ASSUME NEW p \in 1 .. Len(batch')
      PROVE  /\ ~batch'[p].halfDone
             /\ \A i \in 1 .. Len(batch'[p].instructions) :
                  Sendable(batch'[p].instructions[i])
  <2>1. batch'[p] = Raw(all[p]) /\ all[p] \in Object
    BY <1>5, <1>6, <1>8
  <2>2. ~batch'[p].halfDone /\ batch'[p].instructions = instructions[all[p]]
    BY <1>7, <2>1
  <2> QED BY <2>1, <2>2 DEF ProgramInv, ObjectsSendable
<1>10. ASSUME NEW o \in Participant PROVE \E p \in 1 .. Len(batch') : batch'[p].id = id[o]
  BY <1>5, <1>6, <1>7
<1>11. BatchSendable'
  BY <1>1, <1>2, <1>3, <1>9, <1>10 DEF BatchSendable
<1> QED BY <1>4, <1>11

\* The calls are counted up to the last, once the mapping is there.
LEMMA NextCounted ==
  ASSUME ProgramInv, MappingInv', [ExamplesNext]_exampleVars
  PROVE  CallsCounted'
<1>1. program' = program
  BY ProgramFixed
<1>2. ASSUME UNCHANGED mapVars
      PROVE  ProgramCalls' = ProgramCalls /\ (Mapped' <=> Mapped)
  BY <1>1, <1>2, SameCalls DEF Mapped, mapVars, qpus
<1>3. ASSUME UNCHANGED <<mapVars, calls>> PROVE CallsCounted'
  BY <1>2, <1>3 DEF ProgramInv, CallsCounted
<1>4. CASE BuildMapping
  <2>1. calls' = 0
    BY <1>4 DEF BuildMapping, ProgramInv, CallsCounted, vars, circuitVars
  <2>2. (MappingInv /\ Mapped /\ program \in {"distributed_qft", "simple_telegate"})'
          => (Len(ProgramCalls) \in Nat)'
    BY CallsNumbered, PTL
  <2>3. Mapped' => Len(ProgramCalls)' \in Nat
    BY <1>1, <2>2 DEF ProgramInv
  <2> QED BY <2>1, <2>3 DEF CallsCounted
<1>5. CASE AddNext
  <2>1. Mapped /\ ~Built /\ UNCHANGED mapVars
    BY <1>5 DEF AddNext
  <2>2. calls' = calls + 1
    BY <1>5 DEF AddNext, AddInstruction, Count
  <2>3. Len(ProgramCalls) \in Nat
    BY <2>1, CallsNumbered DEF ProgramInv
  <2>4. calls \in Nat /\ calls <= Len(ProgramCalls) /\ calls # Len(ProgramCalls)
    BY <2>1 DEF ProgramInv, CallsCounted, Built
  <2>5. ProgramCalls' = ProgramCalls /\ Mapped'
    BY <1>2, <2>1
  <2> QED BY <2>2, <2>3, <2>4, <2>5 DEF CallsCounted
<1>6. CASE RunCircuits
  BY <1>3, <1>6 DEF RunCircuits, Run, circuitVars
<1>7. CASE Send
  BY <1>3, <1>7 DEF Send, SendCircuit, Complete, circuitVars
<1>8. ASSUME NEW v \in VirtualQpu, QpuStep(v) PROVE CallsCounted'
  BY <1>3, <1>8 DEF QpuStep, RunLocal, Expose, RunControlled, vars, circuitVars
<1>9. CASE UNCHANGED exampleVars
  BY <1>3, <1>9 DEF exampleVars, vars, circuitVars
<1> QED BY <1>4, <1>5, <1>6, <1>7, <1>8, <1>9 DEF ExamplesNext, ProgramStep

LEMMA NextExamples == ExamplesInv /\ [ExamplesNext]_exampleVars => ExamplesInv'
<1> SUFFICES ASSUME ExamplesInv, [ExamplesNext]_exampleVars PROVE ExamplesInv'
  OBVIOUS
<1>1. TransformInv /\ TargetsInv /\ ProgramInv
  BY DEF ExamplesInv
<1>2. [AnyNext]_vars
  BY <1>1, ProgramIsAny
<1>3. TransformInv'
  BY <1>1, <1>2, NextTransform
<1>4. TargetsInv'
  BY <1>1, <1>2, <1>3, NextTargets
<1>5. MappingInv'
  BY <1>1, ProgramMaps, NextMapping DEF ProgramInv
<1>6. id' = id /\ program' = program /\ halfDone' = halfDone
  BY ProgramFixed
<1>7. CallsCounted'
  BY <1>1, <1>5, NextCounted
<1>8. ObjectsSendable' /\ BatchSendable'
  <2>1. CASE BuildMapping
    BY <1>1, <1>6, <2>1, OthersSendable DEF BuildMapping, vars, circuitVars, runVars
  <2>2. CASE AddNext
    <3>1. Mapped /\ ~Built /\ UNCHANGED <<program, batch>>
      BY <2>2 DEF AddNext, runVars
    <3>2. PICK n \in Good : AddInstruction(n.object, n.call)
      BY <1>1, <2>2, NextCallGood DEF AddNext
    <3> QED BY <3>1, <3>2, AddedSendable
  <2>3. CASE RunCircuits
    BY <1>1, <2>3, RunSendable
  <2>4. CASE Send
    BY <1>1, <1>6, <2>4, OthersSendable DEF Send, SendCircuit, Complete, circuitVars
  <2>5. ASSUME NEW v \in VirtualQpu, QpuStep(v) PROVE ObjectsSendable' /\ BatchSendable'
    BY <1>1, <1>6, <2>5, OthersSendable
       DEF QpuStep, RunLocal, Expose, RunControlled, vars, circuitVars, runVars
  <2>6. CASE UNCHANGED exampleVars
    BY <1>1, <1>6, <2>6, OthersSendable DEF exampleVars, vars, circuitVars, runVars
  <2> QED BY <2>1, <2>2, <2>3, <2>4, <2>5, <2>6 DEF ExamplesNext, ProgramStep
<1> QED BY <1>1, <1>3, <1>4, <1>5, <1>6, <1>7, <1>8 DEF ExamplesInv, ProgramInv

LEMMA ExamplesInvariant == ExamplesSpec => []ExamplesInv
BY InitExamples, NextExamples, PTL DEF ExamplesSpec

(***************************************************************************)
(* For all numbers of qubits and ranks that parse_cli accepts: no call of  *)
(* addInstruction that distributed_qft or simple_telegate makes is         *)
(* refused, and run refuses none of the circuits, so that all instructions *)
(* reach CUNQA although simple_telegate ignores the statuses.              *)
(***************************************************************************)
THEOREM ExamplesAcceptedHolds == ExamplesSpec => []ExamplesAccepted
<1>1. ExamplesInv => ExamplesAccepted
  <2> SUFFICES ASSUME ExamplesInv PROVE ExamplesAccepted
    OBVIOUS
  <2>1. TransformInv /\ TargetsInv /\ ProgramInv
    BY DEF ExamplesInv
  <2>2. ASSUME Mapped, ~Built
        PROVE  LET next == ProgramCalls[calls + 1]
               IN  /\ RegisterStatus(next.object, next.call) = 0
                   /\ Named(next.call) = Len(next.call.related)
    <3> DEFINE next == ProgramCalls[calls + 1]
    <3>1. next \in Good
      BY <2>1, <2>2, NextCallGood
    <3> HIDE DEF next
    <3>2. RegisterStatus(next.object, next.call) = 0
      BY <3>1 DEF Good
    <3>3. Named(next.call) = Len(next.call.related)
      BY <2>1, <3>1, GoodIsNamed
    <3> QED BY <3>2, <3>3 DEF next
  <2>3. ASSUME Len(sent) < Len(batch) PROVE Transforms(batch[Len(sent) + 1])
    <3> DEFINE p == Len(sent) + 1
               c == batch[p]
               known == {batch[i].id : i \in 1 .. Len(batch)}
    <3> SUFFICES ASSUME ~Transforms(batch[p]) PROVE FALSE
      OBVIOUS
    <3>1. p \in 1 .. Len(batch)
      BY <2>1, <2>3 DEF TransformInv, BatchFormed, SentTransformed
    <3>2. \/ \E i \in 1 .. Len(c.instructions) :
               LET g == c.instructions[i]
               IN  \/ \E k \in 1 .. Len(g.circuits) : g.circuits[k] \notin known
                   \/ g.name \in RemoteGateNames /\ g.circuits = << >>
                   \/ g.name = "rcontrol"
          \/ c.halfDone
      <4> HIDE DEF p
      <4> QED BY <2>1, <3>1, RefusalCause
    <3> HIDE DEF p
    <3>3. ~c.halfDone /\ \A i \in 1 .. Len(c.instructions) : Sendable(c.instructions[i])
      BY <2>1, <3>1 DEF ProgramInv, BatchSendable
    <3>4. \A o \in Participant : id[o] \in known
      <4>1. batch # << >>
        BY <3>1
      <4> QED BY <2>1, <4>1 DEF ProgramInv, BatchSendable
    <3> HIDE DEF known, c
    <3> QED BY <3>2, <3>3, <3>4 DEF Sendable
  <2> QED BY <2>2, <2>3 DEF ExamplesAccepted
<1> QED BY <1>1, ExamplesInvariant, PTL

(***************************************************************************)
(* What the circuits consist of, and where the virtual QPUs are in them.   *)
(***************************************************************************)

GateName == [loop : Nat, j : Nat, k : Nat]

\* The instruction that call n adds, when the circuits have these ids.
InstructionOf(n, names) ==
  [name |-> n.call.name, qubits |-> n.call.qubits, clbits |-> n.call.clbits,
   circuits |-> [i \in 1 .. Len(n.call.related) |-> names[n.call.related[i]]]]

\* Gates and instructions of object o are those of its calls among the first
\* c of s, all of them, in the order of the gates.
Follows(gates, sequence, names, s, c, o) ==
  /\ Len(gates) = Len(sequence)
  /\ \A i \in 1 .. Len(gates) : \E p \in 1 .. c :
       /\ s[p].object = o
       /\ gates[i] = s[p].gate
       /\ sequence[i] = InstructionOf(s[p], names)
  /\ \A p \in 1 .. c : s[p].object = o =>
       \E i \in 1 .. Len(gates) : gates[i] = s[p].gate
  /\ \A i, m \in 1 .. Len(gates) : i < m => Qft!Earlier(gates[i], gates[m])

MeantBuilt ==
  /\ meant \in [Object -> Seq(GateName)]
  /\ \A o \in Object : Follows(meant[o], instructions[o], id, ProgramCalls, calls, o)

\* run holds the finished circuits.
RunBuilt ==
  batch # << >> => Built /\ batch = [i \in 1 .. Len(Circuits) |-> Raw(Circuits[i])]

\* Each virtual QPU is in its circuit, and those that wait are at an expose.
QpusInCircuits ==
  /\ position \in [VirtualQpu -> Nat]
  /\ \A v \in VirtualQpu :
       position[v] <= IF v <= Len(sent) THEN Len(sent[v].instructions) ELSE 0
  /\ exposed \subseteq VirtualQpu
  /\ \A v \in exposed : HasNext(v) /\ NextOf(v).name = "expose"

AppliedToTarget ==
  \A a \in applied :
    /\ a.name \in NameOf(a.gate)
    /\ a.target = a.gate.j
    /\ program = "simple_telegate" => a.control = a.gate.k

ExecutionInv == MeantBuilt /\ RunBuilt /\ QpusInCircuits /\ AppliedToTarget

\* One call more.
LEMMA FollowsOther ==
  ASSUME NEW gates, NEW sequence, NEW names, NEW s, NEW c \in Nat, NEW o,
         Follows(gates, sequence, names, s, c, o), s[c + 1].object # o
  PROVE  Follows(gates, sequence, names, s, c + 1, o)
<1>1. \A p \in 1 .. c + 1 : p \in 1 .. c \/ p = c + 1
  OBVIOUS
<1>2. \A p \in 1 .. c : p \in 1 .. c + 1
  OBVIOUS
<1> QED BY <1>1, <1>2 DEF Follows

LEMMA FollowsOwn ==
  ASSUME NEW G, NEW T, NEW gates \in Seq(G), NEW sequence \in Seq(T), NEW names, NEW s,
         NEW c \in Nat, c + 1 <= Len(s), Len(s) \in Nat, NEW M, Performs(s, M),
         Follows(gates, sequence, names, s, c, s[c + 1].object),
         s[c + 1].gate \in G, InstructionOf(s[c + 1], names) \in T
  PROVE  Follows(Append(gates, s[c + 1].gate), Append(sequence, InstructionOf(s[c + 1], names)),
                 names, s, c + 1, s[c + 1].object)
<1> DEFINE o == s[c + 1].object
           g == s[c + 1].gate
           instruction == InstructionOf(s[c + 1], names)
           more == Append(gates, g)
           longer == Append(sequence, instruction)
<1>1. /\ Len(gates) \in Nat /\ Len(more) = Len(gates) + 1 /\ more[Len(gates) + 1] = g
      /\ \A i \in 1 .. Len(gates) : more[i] = gates[i]
      /\ Len(sequence) \in Nat /\ Len(longer) = Len(sequence) + 1
      /\ longer[Len(sequence) + 1] = instruction
      /\ \A i \in 1 .. Len(sequence) : longer[i] = sequence[i]
  OBVIOUS
<1>2. c + 1 \in 1 .. Len(s) /\ \A p \in 1 .. c : p \in 1 .. Len(s) /\ p < c + 1
  OBVIOUS
<1>3. Follows(gates, sequence, names, s, c, o)
  OBVIOUS
<1>4. s[c + 1].object = o /\ s[c + 1].gate = g /\ instruction = InstructionOf(s[c + 1], names)
  OBVIOUS
<1> HIDE DEF o, g, instruction, more, longer
<1>5. Len(gates) = Len(sequence) /\ Len(more) = Len(longer)
  BY <1>1, <1>3 DEF Follows
<1>6. ASSUME NEW i \in 1 .. Len(more)
      PROVE  i \in 1 .. Len(gates) \/ i = Len(gates) + 1
  BY <1>1
<1>7. ASSUME NEW i \in 1 .. Len(more)
      PROVE  \E p \in 1 .. c + 1 : /\ s[p].object = o
                                   /\ more[i] = s[p].gate
                                   /\ longer[i] = InstructionOf(s[p], names)
  <2>1. CASE i \in 1 .. Len(gates)
    <3>1. PICK p \in 1 .. c : /\ s[p].object = o
                              /\ gates[i] = s[p].gate
                              /\ sequence[i] = InstructionOf(s[p], names)
      BY <1>3, <2>1 DEF Follows
    <3>2. more[i] = gates[i] /\ longer[i] = sequence[i]
      BY <1>1, <1>5, <2>1
    <3>3. p \in 1 .. c + 1
      OBVIOUS
    <3> QED BY <3>1, <3>2, <3>3
  <2>2. CASE i = Len(gates) + 1
    <3>1. more[i] = g /\ longer[i] = instruction /\ c + 1 \in 1 .. c + 1
      BY <1>1, <1>5, <2>2
    <3> QED BY <1>4, <3>1
  <2> QED BY <1>6, <2>1, <2>2
<1>8. ASSUME NEW p \in 1 .. c + 1, s[p].object = o
      PROVE  \E i \in 1 .. Len(more) : more[i] = s[p].gate
  <2>1. CASE p \in 1 .. c
    <3>1. PICK i \in 1 .. Len(gates) : gates[i] = s[p].gate
      BY <1>3, <1>8, <2>1 DEF Follows
    <3>2. i \in 1 .. Len(more) /\ more[i] = gates[i]
      BY <1>1
    <3> QED BY <3>1, <3>2
  <2>2. CASE p = c + 1
    <3>1. Len(gates) + 1 \in 1 .. Len(more)
      BY <1>1
    <3> QED BY <1>1, <1>4, <2>2, <3>1
  <2> QED BY <2>1, <2>2
<1>9. ASSUME NEW i \in 1 .. Len(more), NEW m \in 1 .. Len(more), i < m
      PROVE  Qft!Earlier(more[i], more[m])
  <2>1. i \in 1 .. Len(gates) /\ more[i] = gates[i]
    BY <1>1, <1>6, <1>9
  <2>2. CASE m \in 1 .. Len(gates)
    <3>1. more[m] = gates[m]
      BY <1>1, <2>2
    <3> QED BY <1>3, <1>9, <2>1, <2>2, <3>1 DEF Follows
  <2>3. CASE m = Len(gates) + 1
    <3>1. PICK p \in 1 .. c : s[p].object = o /\ gates[i] = s[p].gate
      BY <1>3, <2>1 DEF Follows
    <3>2. /\ p \in 1 .. Len(s) /\ c + 1 \in 1 .. Len(s) /\ p < c + 1
          /\ s[p].object = s[c + 1].object
      BY <1>2, <1>4, <3>1
    <3>3. Qft!Earlier(s[p].gate, s[c + 1].gate)
      BY <3>2 DEF Performs
    <3> QED BY <1>1, <1>4, <2>1, <2>3, <3>1, <3>3
  <2> QED BY <1>6, <2>2, <2>3
<1>10. Follows(more, longer, names, s, c + 1, o)
  BY <1>5, <1>7, <1>8, <1>9 DEF Follows
<1> QED BY <1>10 DEF o, g, instruction, more, longer

\* Before the first call it does not matter what the calls will be.
LEMMA FollowsNone ==
  ASSUME NEW gates, NEW sequence, NEW names, NEW s, NEW t, NEW o,
         Follows(gates, sequence, names, s, 0, o)
  PROVE  Follows(gates, sequence, names, t, 0, o)
BY DEF Follows

LEMMA NextMeant ==
  ASSUME ExamplesInv, MeantBuilt, [ExamplesNext]_exampleVars
  PROVE  MeantBuilt'
<1>0. ProgramInv /\ TransformInv
  BY DEF ExamplesInv
<1>1. ASSUME UNCHANGED <<meant, instructions, id, calls, mapVars, program>>
      PROVE  MeantBuilt'
  <2>1. ProgramCalls' = ProgramCalls
    BY <1>1, SameCalls
  <2> QED BY <1>1, <2>1 DEF MeantBuilt
<1>2. CASE BuildMapping
  <2>1. UNCHANGED <<meant, instructions, id, calls>> /\ calls = 0
    BY <1>0, <1>2 DEF BuildMapping, vars, circuitVars, ProgramInv, CallsCounted
  <2>2. ASSUME NEW o \in Object
        PROVE  Follows(meant'[o], instructions'[o], id', ProgramCalls', 0, o)
    <3> DEFINE s == ProgramCalls
               t == ProgramCalls'
    <3>1. Follows(meant[o], instructions[o], id, s, 0, o)
      BY <2>1 DEF MeantBuilt
    <3> HIDE DEF s, t
    <3>2. Follows(meant[o], instructions[o], id, t, 0, o)
      BY <3>1, FollowsNone
    <3> QED BY <2>1, <3>2 DEF t
  <2> QED BY <2>1, <2>2 DEF MeantBuilt
<1>3. CASE AddNext
  <2> DEFINE s == ProgramCalls
             next == s[calls + 1]
             o == next.object
  <2>1. /\ Mapped /\ ~Built /\ UNCHANGED <<mapVars, program>>
        /\ AddInstruction(o, next.call)
        /\ meant' = [meant EXCEPT ![o] = Append(@, next.gate)]
    BY <1>3 DEF AddNext
  <2>2. next \in Good
    BY <1>0, <2>1, NextCallGood
  <2>3. s' = s
    BY <2>1, SameCalls
  <2>4. /\ calls' = calls + 1 /\ id' = id
        /\ instructions' = [instructions EXCEPT ![o] = Append(@, InstructionOf(next, id))]
    BY <2>1 DEF AddInstruction, Count, InstructionOf, Ids
  <2>5. calls \in Nat /\ Len(s) \in Nat /\ calls + 1 <= Len(s)
    <3>1. calls \in Nat /\ calls <= Len(s) /\ calls # Len(s) /\ MappingInv
      BY <1>0, <2>1 DEF ProgramInv, CallsCounted, Built
    <3>2. Len(s) \in Nat
      BY <1>0, <2>1, <3>1, CallsNumbered DEF ProgramInv
    <3> HIDE DEF s
    <3> QED BY <3>1, <3>2
  <2>6. Performs(s, Gates)
    BY <1>0, <2>1, CallsPerform DEF ProgramInv
  <2>7. /\ meant \in [Object -> Seq(GateName)]
        /\ instructions \in [Object -> Seq(Instruction)]
        /\ \A x \in Object : Follows(meant[x], instructions[x], id, s, calls, x)
    BY <1>0 DEF MeantBuilt, TransformInv, CircuitsTyped
  <2> HIDE DEF s
  <2>8. o \in Object /\ next.gate \in GateName /\ next.call \in Callable
    BY <2>2, Registers DEF Good, GateName
  <2>9. InstructionOf(next, id) \in Instruction
    <3>1. Len(next.call.related) \in Nat
          /\ \A i \in 1 .. Len(next.call.related) : id[next.call.related[i]] \in STRING
      BY <1>0, <2>8 DEF Callable, TransformInv, CircuitsTyped
    <3>2. [i \in 1 .. Len(next.call.related) |-> id[next.call.related[i]]] \in Seq(STRING)
      BY <3>1
    <3> QED BY <2>8, <3>2 DEF InstructionOf, Instruction, Callable
  <2>10. ASSUME NEW x \in Object
         PROVE  Follows(meant'[x], instructions'[x], id', s', calls', x)
    <3> DEFINE gates == meant[x]
               sequence == instructions[x]
    <3>1. gates \in Seq(GateName) /\ sequence \in Seq(Instruction)
          /\ Follows(gates, sequence, id, s, calls, x)
      BY <2>7
    <3>2. CASE x # o
      <4>1. meant'[x] = gates /\ instructions'[x] = sequence
        BY <2>1, <2>4, <2>7, <3>2
      <4> HIDE DEF gates, sequence
      <4>2. Follows(gates, sequence, id, s, calls + 1, x)
        BY <2>5, <3>1, <3>2, FollowsOther
      <4> QED BY <2>3, <2>4, <4>1, <4>2
    <3>3. CASE x = o
      <4>1. /\ meant'[x] = Append(gates, next.gate)
            /\ instructions'[x] = Append(sequence, InstructionOf(next, id))
        BY <2>1, <2>4, <2>7, <3>3
      <4> HIDE DEF gates, sequence
      <4>2. Follows(Append(gates, next.gate), Append(sequence, InstructionOf(next, id)),
                    id, s, calls + 1, x)
        BY <2>5, <2>6, <2>8, <2>9, <3>1, <3>3, FollowsOwn
      <4> QED BY <2>3, <2>4, <4>1, <4>2
    <3> QED BY <3>2, <3>3
  <2>11. meant' \in [Object -> Seq(GateName)]
    BY <2>1, <2>7, <2>8
  <2> QED BY <2>10, <2>11 DEF MeantBuilt, s
<1>4. CASE RunCircuits
  BY <1>1, <1>4 DEF RunCircuits, Run, circuitVars
<1>5. CASE Send
  BY <1>1, <1>5 DEF Send, SendCircuit, Complete, circuitVars
<1>6. ASSUME NEW v \in VirtualQpu, QpuStep(v) PROVE MeantBuilt'
  BY <1>1, <1>6 DEF QpuStep, RunLocal, Expose, RunControlled, vars, circuitVars
<1>7. CASE UNCHANGED exampleVars
  BY <1>1, <1>7 DEF exampleVars, vars, circuitVars
<1> QED BY <1>2, <1>3, <1>4, <1>5, <1>6, <1>7 DEF ExamplesNext, ProgramStep

LEMMA NextRunBuilt ==
  ASSUME RunBuilt, [ExamplesNext]_exampleVars
  PROVE  RunBuilt'
<1>1. ASSUME UNCHANGED <<circuitVars, mapVars, program>>
      PROVE  /\ Built' <=> Built
             /\ Circuits' = Circuits
             /\ \A o : Raw(o)' = Raw(o)
  <2>1. ProgramCalls' = ProgramCalls
    BY <1>1, SameCalls
  <2>2. Built' <=> Built
    BY <1>1, <2>1 DEF Built, Mapped, mapVars, qpus, circuitVars
  <2>3. Circuits' = Circuits
    BY <1>1 DEF Circuits, mapVars, qpus
  <2>4. \A o : Raw(o)' = Raw(o)
    BY <1>1 DEF Raw, Communicates, circuitVars
  <2> QED BY <2>2, <2>3, <2>4
<1>2. ASSUME UNCHANGED <<circuitVars, mapVars, program, batch>>
      PROVE  RunBuilt'
  <2>1. batch' = batch
    BY <1>2
  <2> QED BY <1>1, <1>2, <2>1 DEF RunBuilt
<1>3. CASE BuildMapping \/ AddNext
  BY <1>3 DEF BuildMapping, AddNext, Built, RunBuilt, vars, runVars
<1>4. CASE RunCircuits
  <2>1. /\ Built /\ UNCHANGED <<circuitVars, mapVars, program>>
        /\ batch' = [i \in 1 .. Len(Circuits) |-> Raw(Circuits[i])]
    BY <1>4 DEF RunCircuits, Run
  <2> QED BY <1>1, <2>1 DEF RunBuilt
<1>5. CASE Send
  BY <1>2, <1>5 DEF Send, SendCircuit, Complete
<1>6. ASSUME NEW v \in VirtualQpu, QpuStep(v) PROVE RunBuilt'
  BY <1>2, <1>6 DEF QpuStep, RunLocal, Expose, RunControlled, vars, runVars
<1>7. CASE UNCHANGED exampleVars
  BY <1>2, <1>7 DEF exampleVars, vars, runVars
<1> QED BY <1>3, <1>4, <1>5, <1>6, <1>7 DEF ExamplesNext, ProgramStep

LEMMA LengthsOfSent ==
  TransformInv => \A p \in 1 .. Len(sent) : Len(sent[p].instructions) \in Nat
<1> SUFFICES ASSUME TransformInv, NEW p \in 1 .. Len(sent)
             PROVE  Len(sent[p].instructions) \in Nat
  OBVIOUS
<1>1. Len(sent[p].instructions) = Len(batch[p].instructions) /\ p \in 1 .. Len(batch)
  BY InstructionsOfSent
<1>2. batch[p].instructions \in Seq(Instruction)
  BY <1>1 DEF TransformInv, BatchFormed, Formed
<1> QED BY <1>1, <1>2

LEMMA NextPositions ==
  ASSUME ExamplesInv, ExamplesInv', QpusInCircuits, RunBuilt, [ExamplesNext]_exampleVars
  PROVE  QpusInCircuits'
<1> USE DEF QpusInCircuits
<1>1. ASSUME UNCHANGED <<sent, position, exposed>> PROVE QpusInCircuits'
  BY <1>1 DEF HasNext, NextOf
<1>2. CASE BuildMapping \/ AddNext \/ RunCircuits \/ UNCHANGED exampleVars
  BY <1>1, <1>2
     DEF BuildMapping, AddNext, RunCircuits, Run, exampleVars, vars, runVars, qpuVars
<1>3. CASE Send
  <2>1. CASE Complete
    BY <1>1, <1>3, <2>1 DEF Send, Complete, qpuVars
  <2>2. CASE SendCircuit
    <3> DEFINE new == Transform(batch[Len(sent) + 1])
    <3>1. sent' = Append(sent, new) /\ UNCHANGED <<position, exposed>>
      BY <1>3, <2>2 DEF Send, SendCircuit, qpuVars
    <3> HIDE DEF new
    <3>2. sent \in Seq({Transform(batch[p]) : p \in 1 .. Len(batch)})
      BY DEF ExamplesInv, TransformInv, SentTransformed
    <3>3. /\ Len(sent) \in Nat /\ Len(sent') = Len(sent) + 1
          /\ \A v \in 1 .. Len(sent) : sent'[v] = sent[v]
      BY <3>1, <3>2
    <3>4. \A v \in VirtualQpu : v <= Len(sent) => v \in 1 .. Len(sent)
      BY <3>3, SizesOfProgram DEF VirtualQpu
    <3>5. ASSUME NEW v \in VirtualQpu
          PROVE  position'[v] <= IF v <= Len(sent') THEN Len(sent'[v].instructions) ELSE 0
      <4>1. CASE v <= Len(sent)
        BY <3>1, <3>3, <3>4, <4>1
      <4>2. CASE ~ v <= Len(sent) /\ v <= Len(sent')
        <5>1. v \in 1 .. Len(sent')
          BY <3>3, <4>2, SizesOfProgram DEF VirtualQpu
        <5>2. (\A p \in 1 .. Len(sent) : Len(sent[p].instructions) \in Nat)'
          <6>1. TransformInv'
            BY DEF ExamplesInv
          <6> QED BY LengthsOfSent, <6>1, PTL
        <5> QED BY <3>1, <4>2, <5>1, <5>2
      <4>3. CASE ~ v <= Len(sent) /\ ~ v <= Len(sent')
        BY <3>1, <4>3
      <4> QED BY <4>1, <4>2, <4>3
    <3>6. ASSUME NEW v \in exposed PROVE HasNext(v)' /\ NextOf(v)'.name = "expose"
      <4>1. HasNext(v) /\ NextOf(v).name = "expose" /\ v \in VirtualQpu
        OBVIOUS
      <4>2. v \in 1 .. Len(sent)
        BY <3>4, <4>1 DEF HasNext
      <4> QED BY <3>1, <3>3, <4>1, <4>2 DEF HasNext, NextOf
    <3> QED BY <3>1, <3>5, <3>6
  <2> QED BY <1>3, <2>1, <2>2 DEF Send
<1>4. ASSUME NEW v \in VirtualQpu, QpuStep(v) PROVE QpusInCircuits'
  <2>0. sent' = sent
    BY <1>4 DEF QpuStep, RunLocal, Expose, RunControlled, vars, runVars
  <2>1. \A u : HasNext(u)' <=> (u <= Len(sent) /\ position'[u] < Len(sent[u].instructions))
    BY <2>0 DEF HasNext
  <2>2. \A u : NextOf(u)' = sent[u].instructions[position'[u] + 1]
    BY <2>0 DEF NextOf
  <2>3. \A u \in VirtualQpu : HasNext(u) => Len(sent[u].instructions) \in Nat
    <3>1. \A u \in VirtualQpu : u <= Len(sent) => u \in 1 .. Len(sent)
      BY SizesOfProgram DEF VirtualQpu, ExamplesInv, TransformInv, SentTransformed
    <3> QED BY <3>1, LengthsOfSent DEF HasNext, ExamplesInv
  <2>4. CASE RunLocal(v)
    <3>1. /\ HasNext(v) /\ NextOf(v).name \notin RemoteGateNames
          /\ position' = [position EXCEPT ![v] = @ + 1] /\ exposed' = exposed
      BY <2>4 DEF RunLocal, CanRun
    <3>2. v \notin exposed
      BY <3>1 DEF RemoteGateNames
    <3> QED BY <2>0, <2>1, <2>2, <2>3, <3>1, <3>2 DEF HasNext, NextOf
  <2>5. CASE Expose(v)
    BY <2>0, <2>5 DEF Expose, CanExpose, HasNext, NextOf
  <2>6. ASSUME NEW w \in VirtualQpu, RunControlled(v, w) PROVE QpusInCircuits'
    <3>1. /\ HasNext(v) /\ NextOf(v).name = "rcontrol" /\ w \in exposed
          /\ position' = [position EXCEPT ![v] = @ + 1, ![w] = @ + 1]
          /\ exposed' = exposed \ {w}
      BY <2>6 DEF RunControlled, CanMeet
    <3>2. v \notin exposed /\ v # w /\ HasNext(w)
      BY <3>1
    <3>3. \A u \in VirtualQpu : position'[u] = IF u = v \/ u = w THEN position[u] + 1
                                                                 ELSE position[u]
      BY <3>1, <3>2
    <3>4. position' \in [VirtualQpu -> Nat]
      BY <3>1
    <3>5. ASSUME NEW u \in VirtualQpu
          PROVE  position'[u] <= IF u <= Len(sent) THEN Len(sent[u].instructions) ELSE 0
      BY <2>3, <3>1, <3>2, <3>3 DEF HasNext
    <3>6. ASSUME NEW u \in exposed' PROVE HasNext(u)' /\ NextOf(u)'.name = "expose"
      <4>1. u \in VirtualQpu /\ HasNext(u) /\ NextOf(u).name = "expose" /\ u # v /\ u # w
        BY <3>1, <3>2
      <4>2. position'[u] = position[u]
        BY <3>3, <4>1
      <4>3. u <= Len(sent) /\ position[u] < Len(sent[u].instructions)
        BY <4>1 DEF HasNext
      <4>4. NextOf(u)' = NextOf(u)
        BY <2>2, <4>2 DEF NextOf
      <4> QED BY <2>1, <4>1, <4>2, <4>3, <4>4
    <3> QED BY <2>0, <3>1, <3>4, <3>5, <3>6
  <2> QED BY <1>4, <2>4, <2>5, <2>6 DEF QpuStep
<1> QED BY <1>2, <1>3, <1>4 DEF ExamplesNext, ProgramStep

(***************************************************************************)
(* What the virtual QPUs have received, in terms of the gates.             *)
(***************************************************************************)

ProgramQubit == IF program = "distributed_qft" THEN 0 .. TotalQubits - 1 ELSE {0, 1}

LEMMA GatePlaces ==
  ASSUME MappingInv, Mapped, program \in {"distributed_qft", "simple_telegate"},
         NEW g \in Gates
  PROVE  /\ g \in GateName
         /\ g.j \in ProgramQubit /\ g.k \in ProgramQubit
         /\ HomeOf(g.j) \in Participant /\ HomeOf(g.k) \in Participant
<1>1. CASE program = "distributed_qft"
  <2>1. /\ g = NamedGate(g.loop, g.j, g.k) /\ g.loop \in {0, 1, 2}
        /\ g.j \in 0 .. TotalQubits - 1 /\ g.k \in 0 .. TotalQubits - 1
    BY <1>1, QftGates DEF Gates
  <2>2. g \in GateName
    BY <2>1, SizesOfProgram DEF GateName, NamedGate
  <2> QED BY <1>1, <2>1, <2>2, Places DEF ProgramQubit, HomeOf, Participant
<1>2. CASE program = "simple_telegate"
  <2>1. /\ g \in GateName /\ g.j \in {0, 1} /\ g.k \in {0, 1}
    BY <1>2 DEF Gates, NamedGate, GateName
  <2> QED BY <1>2, <2>1 DEF ProgramQubit, HomeOf, Participant
<1> QED BY <1>1, <1>2

\* Each participant is passed to run at one place.
LEMMA CircuitsOnce ==
  ASSUME program \in {"distributed_qft", "simple_telegate"}, size \in Sizes
  PROVE  /\ Len(Circuits) \in Nat /\ Len(Circuits) <= Qpus + 2
         /\ \A v, w \in 1 .. Len(Circuits) : Circuits[v] = Circuits[w] => v = w
         /\ program = "distributed_qft" =>
              /\ Len(Circuits) = Qpus
              /\ \A v \in 1 .. Len(Circuits) : Circuits[v] = v - 1
         /\ program = "simple_telegate" =>
              /\ Len(Circuits) = 2
              /\ Circuits[1] = controlCircuit /\ Circuits[2] = targetCircuit
<1>1. CASE program = "distributed_qft"
  <2>1. Circuits = [i \in 1 .. Qpus |-> i - 1] /\ Qpus \in Nat
    BY <1>1, SizesOfProgram DEF Circuits
  <2>2. Len(Circuits) = Qpus /\ \A v \in 1 .. Len(Circuits) : Circuits[v] = v - 1
    BY <2>1
  <2> QED BY <1>1, <2>1, <2>2
<1>2. CASE program = "simple_telegate"
  <2>1. Circuits = <<controlCircuit, targetCircuit>>
    BY <1>2 DEF Circuits
  <2>2. /\ Len(Circuits) = 2 /\ Circuits[1] = controlCircuit /\ Circuits[2] = targetCircuit
        /\ controlCircuit # targetCircuit /\ Qpus \in Nat
    BY <2>1, SizesOfProgram DEF controlCircuit, targetCircuit
  <2>3. \A v \in 1 .. 2 : v = 1 \/ v = 2
    OBVIOUS
  <2> QED BY <1>2, <2>2, <2>3
<1> QED BY <1>1, <1>2

\* An index of a register is that of the qubit placed there.
LEMMA QubitIsAt ==
  ASSUME MappingInv, Mapped, program \in {"distributed_qft", "simple_telegate"},
         NEW q \in ProgramQubit, NEW v \in 1 .. Len(Circuits), Circuits[v] = HomeOf(q)
  PROVE  QubitAt(v, IndexOf(q)) = q
<1>0. size \in Sizes
  BY DEF MappingInv, MapTypeOK
<1>1. CASE program = "distributed_qft"
  <2>1. /\ total = TotalQubits /\ q \in 0 .. TotalQubits - 1 /\ v - 1 = RankAt(q)
        /\ IndexOf(q) = IdxAt(q)
    BY <1>0, <1>1, SizesOfProgram, CircuitsOnce DEF ProgramQubit, HomeOf, IndexOf
  <2>2. \A p \in 0 .. TotalQubits - 1 : RankAt(p) = v - 1 /\ IdxAt(p) = IdxAt(q) => p = q
    BY <1>1, <2>1, PlacesApart
  <2>3. QubitAt(v, IdxAt(q))
          = CHOOSE p \in 0 .. total - 1 : RankAt(p) = v - 1 /\ IdxAt(p) = IdxAt(q)
    BY <1>1 DEF QubitAt
  <2> QED BY <2>1, <2>2, <2>3
<1>2. CASE program = "simple_telegate"
  <2>1. q \in {0, 1} /\ HomeOf(q) = IF q = 0 THEN controlCircuit ELSE targetCircuit
    BY <1>2 DEF ProgramQubit, HomeOf
  <2>2. /\ Len(Circuits) = 2 /\ Circuits[1] = controlCircuit /\ Circuits[2] = targetCircuit
        /\ controlCircuit # targetCircuit
    BY <1>0, <1>2, CircuitsOnce, SizesOfProgram DEF controlCircuit, targetCircuit
  <2>3. v = q + 1
    <3>1. v = 1 \/ v = 2
      BY <2>2
    <3> QED BY <2>1, <2>2, <3>1
  <2> QED BY <1>2, <2>1, <2>3 DEF QubitAt
<1> QED BY <1>1, <1>2

\* The id of a participant is mapped to the virtual QPU of its circuit.
LEMMA QpuOfParticipant ==
  ASSUME ExamplesInv, RunBuilt, batch # << >>, NEW o \in Participant
  PROVE  /\ Qpu(id[o]) \in 1 .. Len(Circuits)
         /\ Circuits[Qpu(id[o])] = o
         /\ \A v \in 1 .. Len(Circuits) : Circuits[v] = o => v = Qpu(id[o])
<1>0. /\ program \in {"distributed_qft", "simple_telegate"} /\ size \in Sizes
      /\ id \in Namings
  BY DEF ExamplesInv, ProgramInv, MappingInv, MapTypeOK
<1> DEFINE all == Circuits
<1>1. /\ all \in Seq(Object) /\ Len(all) \in Nat
      /\ \A i \in 1 .. Len(all) : all[i] \in Participant
      /\ \E i \in 1 .. Len(all) : all[i] = o
      /\ \A v, w \in 1 .. Len(all) : all[v] = all[w] => v = w
  BY <1>0, ArgumentOfRun, CircuitsOnce
<1>2. batch = [i \in 1 .. Len(all) |-> Raw(all[i])]
  BY DEF RunBuilt
<1> HIDE DEF all
<1>3. Len(batch) = Len(all) /\ \A i \in 1 .. Len(all) : batch[i].id = id[all[i]]
  BY <1>1, <1>2 DEF Raw
<1>4. \A i \in 1 .. Len(all) : id[all[i]] = id[o] <=> all[i] = o
  <2>1. \A x, y \in Object : id[x] = id[y] => x = y
    BY <1>0, ExampleAssumption
  <2> QED BY <1>1, <2>1, Registers
<1>5. Bearers(id[o]) = {i \in 1 .. Len(all) : all[i] = o}
  BY <1>3, <1>4 DEF Bearers
<1>6. Bearers(id[o]) # {}
  BY <1>1, <1>5
<1>7. Qpu(id[o]) \in Bearers(id[o])
  BY <1>1, <1>3, <1>6, QpuBears
<1> QED BY <1>1, <1>5, <1>7 DEF all

\* What a virtual QPU finds at a place is what a call of the program added.
LEMMA Received ==
  ASSUME ExamplesInv, MeantBuilt, RunBuilt, NEW v \in 1 .. Len(sent)
  PROVE  /\ batch # << >> /\ Mapped /\ v \in 1 .. Len(Circuits) /\ Circuits[v] \in Participant
         /\ Len(sent[v].instructions) = Len(meant[Circuits[v]])
         /\ \A i \in 1 .. Len(sent[v].instructions) :
              \E n \in Good :
                /\ n.object = Circuits[v]
                /\ n.gate = meant[Circuits[v]][i] /\ n.gate \in Gates
                /\ IsSide(n)
                /\ sent[v].instructions[i] = TransformInstruction(InstructionOf(n, id))
         /\ \A g \in Gates : Circuits[v] \in {HomeOf(g.j), HomeOf(g.k)} =>
              \E i \in 1 .. Len(meant[Circuits[v]]) : meant[Circuits[v]][i] = g
<1>1. TransformInv /\ ProgramInv /\ MappingInv /\ size \in Sizes
      /\ program \in {"distributed_qft", "simple_telegate"}
  BY DEF ExamplesInv, ProgramInv, MappingInv, MapTypeOK
<1>2. /\ v \in 1 .. Len(batch)
      /\ Len(sent[v].instructions) = Len(batch[v].instructions)
      /\ \A i \in 1 .. Len(batch[v].instructions) :
           sent[v].instructions[i] = TransformInstruction(batch[v].instructions[i])
  BY <1>1, InstructionsOfSent
<1>3. batch # << >>
  BY <1>2
<1> DEFINE all == Circuits
           s == ProgramCalls
           o == all[v]
<1>4. Built /\ batch = [i \in 1 .. Len(all) |-> Raw(all[i])]
  BY <1>3 DEF RunBuilt
<1>5. Mapped /\ calls = Len(s)
  BY <1>4 DEF Built
<1>6. s \in Seq(Good) /\ Performs(s, Gates)
  BY <1>1, <1>5, CallsGood, CallsPerform
<1>7. all \in Seq(Object) /\ \A i \in 1 .. Len(all) : all[i] \in Participant
  BY <1>1, ArgumentOfRun
<1> HIDE DEF all, s
<1>8. v \in 1 .. Len(all) /\ o \in Participant /\ batch[v].instructions = instructions[o]
  <2>1. Len(batch) = Len(all)
    BY <1>4, <1>7
  <2> QED BY <1>2, <1>4, <1>7, <2>1 DEF Raw
<1>9. Follows(meant[o], instructions[o], id, s, Len(s), o)
  BY <1>5, <1>8, Registers DEF MeantBuilt, s
<1>10. Len(meant[o]) = Len(instructions[o])
  BY <1>9 DEF Follows
<1>11. ASSUME NEW i \in 1 .. Len(sent[v].instructions)
       PROVE  \E n \in Good :
                /\ n.object = o
                /\ n.gate = meant[o][i] /\ n.gate \in Gates
                /\ IsSide(n)
                /\ sent[v].instructions[i] = TransformInstruction(InstructionOf(n, id))
  <2>1. i \in 1 .. Len(meant[o])
    BY <1>2, <1>8, <1>10
  <2>2. PICK p \in 1 .. Len(s) : /\ s[p].object = o
                                 /\ meant[o][i] = s[p].gate
                                 /\ instructions[o][i] = InstructionOf(s[p], id)
    BY <1>9, <2>1 DEF Follows
  <2>3. s[p] \in Good
    BY <1>6
  <2>4. s[p].gate \in Gates /\ IsSide(s[p])
    BY <1>6 DEF Performs
  <2>5. sent[v].instructions[i] = TransformInstruction(InstructionOf(s[p], id))
    BY <1>2, <1>8, <2>2
  <2> QED BY <2>2, <2>3, <2>4, <2>5
<1>12. ASSUME NEW g \in Gates, o \in {HomeOf(g.j), HomeOf(g.k)}
       PROVE  \E i \in 1 .. Len(meant[o]) : meant[o][i] = g
  <2>1. PICK p \in 1 .. Len(s) : s[p].gate = g /\ s[p].object = o
    BY <1>6, <1>12 DEF Performs
  <2> QED BY <1>9, <2>1 DEF Follows
<1> QED BY <1>2, <1>3, <1>5, <1>8, <1>10, <1>11, <1>12 DEF all

GateAt(v) == meant[Circuits[v]][position[v] + 1]

\* Virtual QPU v applies g by t alone.
LocalNext(t, g, v) ==
  /\ Circuits[v] = HomeOf(g.j) /\ HomeOf(g.k) = HomeOf(g.j)
  /\ t.name \in NameOf(g) \ RemoteGateNames
  /\ t.qubits[1] = IndexOf(g.k)
  /\ Last(t.qubits) = IndexOf(g.j)

\* It offers the control of g by t.
ExposeNext(t, g, v) ==
  /\ Circuits[v] = HomeOf(g.k) /\ HomeOf(g.k) # HomeOf(g.j)
  /\ t.name = "expose"
  /\ t.qpus = <<Qpu(id[HomeOf(g.j)])>>
  /\ t.qubits[1] = IndexOf(g.k)

\* It applies g by t, when it meets an offer.
ControlledNext(t, g, v) ==
  /\ Circuits[v] = HomeOf(g.j) /\ HomeOf(g.k) # HomeOf(g.j)
  /\ t.name = "rcontrol"
  /\ t.qpus = <<Qpu(id[HomeOf(g.k)])>>
  /\ t.instructions[1].name \in NameOf(g)
  /\ Last(t.instructions[1].qubits) = IndexOf(g.j)

LEMMA SideTransformed ==
  ASSUME NEW v, NEW n \in Good, n.object = Circuits[v], IsSide(n)
  PROVE  LET t == TransformInstruction(InstructionOf(n, id))
         IN  \/ LocalNext(t, n.gate, v)
             \/ ExposeNext(t, n.gate, v)
             \/ ControlledNext(t, n.gate, v)
<1> DEFINE c == n.call
           g == n.gate
           f == InstructionOf(n, id)
           t == TransformInstruction(f)
<1>1. /\ f.name = c.name /\ f.qubits = c.qubits
      /\ f.circuits = [i \in 1 .. Len(c.related) |-> id[c.related[i]]]
  BY DEF InstructionOf
<1>2. /\ t = IF f.circuits = << >> \/ f.name \in RemoteGateNames
             THEN Plain(f, MapCircuitIdsToQpus(f.circuits))
             ELSE RControl(f, MapCircuitIdsToQpus(f.circuits))
  BY DEF TransformInstruction
<1> HIDE DEF f, t
<1>3. ASSUME NEW o, c.related = <<o>>
      PROVE  f.circuits # << >> /\ MapCircuitIdsToQpus(f.circuits) = <<Qpu(id[o])>>
  <2>1. f.circuits = <<id[o]>>
    BY <1>1, <1>3
  <2> QED BY <2>1 DEF MapCircuitIdsToQpus
<1>4. CASE IsLocal(n)
  <2>1. c.related = << >>
    BY <1>4 DEF IsLocal
  <2>2. f.circuits = << >>
    BY <1>1, <2>1
  <2>3. t.name = c.name /\ t.qubits = c.qubits
    BY <1>1, <1>2, <2>2 DEF Plain
  <2>4. LocalNext(t, g, v)
    BY <1>4, <2>3 DEF IsLocal, LocalNext
  <2> QED BY <2>4 DEF t, f
<1>5. CASE IsExpose(n)
  <2>1. f.name = "expose" /\ f.name \in RemoteGateNames /\ c.related = <<HomeOf(g.j)>>
    BY <1>1, <1>5 DEF IsExpose, RemoteGateNames
  <2>2. t = Plain(f, <<Qpu(id[HomeOf(g.j)])>>)
    BY <1>2, <1>3, <2>1
  <2>3. t.name = "expose" /\ t.qpus = <<Qpu(id[HomeOf(g.j)])>> /\ t.qubits = <<IndexOf(g.k)>>
    BY <1>1, <1>5, <2>1, <2>2 DEF IsExpose, Plain
  <2>4. t.qubits[1] = IndexOf(g.k)
    BY <2>3
  <2>5. ExposeNext(t, g, v)
    BY <1>5, <2>3, <2>4 DEF IsExpose, ExposeNext
  <2> QED BY <2>5 DEF t, f
<1>6. CASE IsControlled(n)
  <2>1. f.name \notin RemoteGateNames /\ c.related = <<HomeOf(g.k)>>
    BY <1>1, <1>6 DEF IsControlled
  <2> DEFINE qs == <<Qpu(id[HomeOf(g.k)])>>
             block == RemoteQubits(Len(qs)) \o f.qubits
  <2>2. t = RControl(f, qs)
    BY <1>2, <1>3, <2>1
  <2>3. Last(block) = IndexOf(g.j)
    <3>1. RemoteQubits(1) = <<-1>>
      BY DEF RemoteQubits
    <3>2. f.qubits = <<IndexOf(g.j)>> /\ Len(qs) = 1
      BY <1>1, <1>6 DEF IsControlled
    <3>3. block = <<-1>> \o <<IndexOf(g.j)>>
      <4> HIDE DEF qs
      <4> QED BY <3>1, <3>2
    <3> HIDE DEF block
    <3>4. Len(block) = 2 /\ block[2] = IndexOf(g.j)
      BY <3>3
    <3> QED BY <3>4 DEF Last
  <2>4. /\ t.name = "rcontrol" /\ t.qpus = qs
        /\ t.instructions[1].name = f.name /\ t.instructions[1].qubits = block
    BY <2>2 DEF RControl
  <2> HIDE DEF block
  <2>5. ControlledNext(t, g, v)
    BY <1>1, <1>6, <2>3, <2>4 DEF IsControlled, ControlledNext
  <2> QED BY <2>5 DEF t, f
<1> QED BY <1>4, <1>5, <1>6 DEF IsSide

\* What a virtual QPU does next is its side of the gate that is meant.
LEMMA NextGate ==
  ASSUME ExamplesInv, MeantBuilt, RunBuilt, QpusInCircuits,
         NEW v \in VirtualQpu, HasNext(v)
  PROVE  /\ Mapped /\ batch # << >>
         /\ v \in 1 .. Len(sent) /\ v \in 1 .. Len(Circuits) /\ Circuits[v] \in Participant
         /\ position[v] + 1 \in 1 .. Len(meant[Circuits[v]])
         /\ GateAt(v) \in Gates
         /\ \/ LocalNext(NextOf(v), GateAt(v), v)
            \/ ExposeNext(NextOf(v), GateAt(v), v)
            \/ ControlledNext(NextOf(v), GateAt(v), v)
<1>1. v \in 1 .. Len(sent)
  BY SizesOfProgram DEF HasNext, VirtualQpu, ExamplesInv, TransformInv, SentTransformed
<1> DEFINE i == position[v] + 1
<1>2. i \in 1 .. Len(sent[v].instructions)
  <2>1. Len(sent[v].instructions) \in Nat
    BY <1>1, LengthsOfSent DEF ExamplesInv
  <2> QED BY <2>1 DEF HasNext, QpusInCircuits
<1> HIDE DEF i
<1>3. /\ batch # << >> /\ Mapped /\ v \in 1 .. Len(Circuits) /\ Circuits[v] \in Participant
      /\ Len(sent[v].instructions) = Len(meant[Circuits[v]])
      /\ \E n \in Good :
           /\ n.object = Circuits[v]
           /\ n.gate = meant[Circuits[v]][i] /\ n.gate \in Gates
           /\ IsSide(n)
           /\ sent[v].instructions[i] = TransformInstruction(InstructionOf(n, id))
  BY <1>1, <1>2, Received
<1>4. PICK n \in Good :
        /\ n.object = Circuits[v]
        /\ n.gate = meant[Circuits[v]][i] /\ n.gate \in Gates
        /\ IsSide(n)
        /\ sent[v].instructions[i] = TransformInstruction(InstructionOf(n, id))
  BY <1>3
<1>5. n.gate = GateAt(v) /\ TransformInstruction(InstructionOf(n, id)) = NextOf(v)
  BY <1>4 DEF GateAt, NextOf, i
<1>6. \/ LocalNext(NextOf(v), GateAt(v), v)
      \/ ExposeNext(NextOf(v), GateAt(v), v)
      \/ ControlledNext(NextOf(v), GateAt(v), v)
  BY <1>4, <1>5, SideTransformed
<1> QED BY <1>1, <1>2, <1>3, <1>4, <1>5, <1>6 DEF i

\* The gate of a local step.
LEMMA LocalGate ==
  ASSUME ExamplesInv, MeantBuilt, RunBuilt, QpusInCircuits,
         NEW v \in VirtualQpu, RunLocal(v)
  PROVE  /\ GateAt(v) \in Gates /\ HasNext(v)
         /\ Circuits[v] = HomeOf(GateAt(v).j) /\ HomeOf(GateAt(v).k) = HomeOf(GateAt(v).j)
         /\ NextOf(v).name \in NameOf(GateAt(v))
         /\ applied' = applied \cup
              {[gate |-> GateAt(v), name |-> NextOf(v).name,
                target |-> GateAt(v).j, control |-> GateAt(v).k]}
<1> DEFINE g == GateAt(v)
           t == NextOf(v)
<1>1. HasNext(v) /\ t.name \notin RemoteGateNames
  BY DEF RunLocal, CanRun
<1>2. /\ Mapped /\ v \in 1 .. Len(Circuits) /\ g \in Gates
      /\ LocalNext(t, g, v) \/ ExposeNext(t, g, v) \/ ControlledNext(t, g, v)
  BY <1>1, NextGate
<1>3. LocalNext(t, g, v)
  BY <1>1, <1>2 DEF ExposeNext, ControlledNext, RemoteGateNames
<1>4. applied' = applied \cup
        {[gate |-> g, name |-> t.name, target |-> QubitAt(v, Last(t.qubits)),
          control |-> QubitAt(v, t.qubits[1])]}
  BY DEF RunLocal, Apply, GateAt
<1>5. MappingInv /\ program \in {"distributed_qft", "simple_telegate"}
  BY DEF ExamplesInv, ProgramInv
<1>6. g.j \in ProgramQubit /\ g.k \in ProgramQubit
  BY <1>2, <1>5, GatePlaces
<1> HIDE DEF g, t
<1>7. QubitAt(v, IndexOf(g.j)) = g.j /\ QubitAt(v, IndexOf(g.k)) = g.k
  BY <1>2, <1>3, <1>5, <1>6, QubitIsAt DEF LocalNext
<1>8. /\ Circuits[v] = HomeOf(g.j) /\ HomeOf(g.k) = HomeOf(g.j)
      /\ t.name \in NameOf(g)
      /\ Last(t.qubits) = IndexOf(g.j) /\ t.qubits[1] = IndexOf(g.k)
  BY <1>3 DEF LocalNext
<1>9. applied' = applied \cup {[gate |-> g, name |-> t.name, target |-> g.j, control |-> g.k]}
  BY <1>4, <1>7, <1>8
<1> QED BY <1>1, <1>2, <1>8, <1>9 DEF g, t

\* The gate, and the offer, of a meeting.
LEMMA MeetingGates ==
  ASSUME ExamplesInv, MeantBuilt, RunBuilt, QpusInCircuits,
         NEW v \in VirtualQpu, NEW w \in VirtualQpu, RunControlled(v, w)
  PROVE  /\ GateAt(v) \in Gates /\ HasNext(v) /\ GateAt(w) \in Gates /\ HasNext(w)
         /\ w \in exposed /\ v # w
         /\ Circuits[v] = HomeOf(GateAt(v).j) /\ Circuits[w] = HomeOf(GateAt(v).k)
         /\ Circuits[v] = HomeOf(GateAt(w).j) /\ Circuits[w] = HomeOf(GateAt(w).k)
         /\ Circuits[v] # Circuits[w]
         /\ NextOf(v).instructions[1].name \in NameOf(GateAt(v))
         /\ applied' = applied \cup
              {[gate |-> GateAt(v), name |-> NextOf(v).instructions[1].name,
                target |-> GateAt(v).j, control |-> GateAt(w).k]}
<1> DEFINE g == GateAt(v)
           e == GateAt(w)
           t == NextOf(v)
           offer == NextOf(w)
<1>1. /\ HasNext(v) /\ t.name = "rcontrol" /\ t.qpus = <<w>>
      /\ w \in exposed /\ offer.qpus = <<v>>
  BY DEF RunControlled, CanMeet
<1>2. HasNext(w) /\ offer.name = "expose"
  BY <1>1 DEF QpusInCircuits
<1>3. /\ Mapped /\ batch # << >> /\ v \in 1 .. Len(Circuits) /\ g \in Gates
      /\ LocalNext(t, g, v) \/ ExposeNext(t, g, v) \/ ControlledNext(t, g, v)
  BY <1>1, NextGate
<1>4. /\ w \in 1 .. Len(Circuits) /\ e \in Gates
      /\ LocalNext(offer, e, w) \/ ExposeNext(offer, e, w) \/ ControlledNext(offer, e, w)
  BY <1>2, NextGate
<1>5. MappingInv /\ program \in {"distributed_qft", "simple_telegate"}
  BY DEF ExamplesInv, ProgramInv
<1>6. /\ g.j \in ProgramQubit /\ HomeOf(g.k) \in Participant
      /\ e.k \in ProgramQubit /\ HomeOf(e.j) \in Participant
  BY <1>3, <1>4, <1>5, GatePlaces
<1>7. applied' = applied \cup
        {[gate |-> g, name |-> t.instructions[1].name,
          target |-> QubitAt(v, Last(t.instructions[1].qubits)),
          control |-> QubitAt(w, offer.qubits[1])]}
  BY DEF RunControlled, Apply, GateAt
<1> HIDE DEF g, e, t, offer
<1>8. ControlledNext(t, g, v)
  BY <1>1, <1>3 DEF LocalNext, ExposeNext, RemoteGateNames
<1>9. ExposeNext(offer, e, w)
  BY <1>2, <1>4 DEF LocalNext, ControlledNext, RemoteGateNames
<1>10. /\ Circuits[v] = HomeOf(g.j) /\ HomeOf(g.k) # HomeOf(g.j)
       /\ t.qpus = <<Qpu(id[HomeOf(g.k)])>>
       /\ t.instructions[1].name \in NameOf(g)
       /\ Last(t.instructions[1].qubits) = IndexOf(g.j)
  BY <1>8 DEF ControlledNext
<1>11. /\ Circuits[w] = HomeOf(e.k)
       /\ offer.qpus = <<Qpu(id[HomeOf(e.j)])>>
       /\ offer.qubits[1] = IndexOf(e.k)
  BY <1>9 DEF ExposeNext
<1>12. Circuits[w] = HomeOf(g.k)
  <2>1. Circuits[Qpu(id[HomeOf(g.k)])] = HomeOf(g.k)
    BY <1>3, <1>6, QpuOfParticipant
  <2>2. Qpu(id[HomeOf(g.k)]) = w
    BY <1>1, <1>10
  <2> QED BY <2>1, <2>2
<1>13. Circuits[v] = HomeOf(e.j)
  <2>1. Circuits[Qpu(id[HomeOf(e.j)])] = HomeOf(e.j)
    BY <1>3, <1>6, QpuOfParticipant
  <2>2. Qpu(id[HomeOf(e.j)]) = v
    BY <1>1, <1>11
  <2> QED BY <2>1, <2>2
<1>14. QubitAt(v, IndexOf(g.j)) = g.j
  BY <1>3, <1>5, <1>6, <1>10, QubitIsAt
<1>15. QubitAt(w, IndexOf(e.k)) = e.k
  BY <1>3, <1>4, <1>5, <1>6, <1>11, QubitIsAt
<1>16. applied' = applied \cup {[gate |-> g, name |-> t.instructions[1].name,
                                 target |-> g.j, control |-> e.k]}
  BY <1>7, <1>10, <1>11, <1>14, <1>15
<1>17. v # w /\ Circuits[v] # Circuits[w]
  BY <1>10, <1>12
<1> QED BY <1>1, <1>2, <1>3, <1>4, <1>10, <1>11, <1>12, <1>13, <1>16, <1>17 DEF g, e, t, offer

LEMMA NextApplied ==
  ASSUME ExamplesInv, ExecutionInv, [ExamplesNext]_exampleVars
  PROVE  AppliedToTarget'
<1>0. MeantBuilt /\ RunBuilt /\ QpusInCircuits /\ AppliedToTarget
  BY DEF ExecutionInv
<1>1. program' = program
  BY ProgramFixed DEF ExamplesInv
<1>2. ASSUME applied' = applied PROVE AppliedToTarget'
  BY <1>0, <1>1, <1>2 DEF AppliedToTarget, NameOf
<1>3. ASSUME NEW a, applied' = applied \cup {a},
             a.name \in NameOf(a.gate), a.target = a.gate.j,
             program = "simple_telegate" => a.control = a.gate.k
      PROVE  AppliedToTarget'
  BY <1>0, <1>1, <1>3 DEF AppliedToTarget, NameOf
<1>4. CASE ProgramStep \/ UNCHANGED exampleVars
  BY <1>2, <1>4
     DEF ProgramStep, BuildMapping, AddNext, RunCircuits, Send, exampleVars, qpuVars
<1>5. ASSUME NEW v \in VirtualQpu, RunLocal(v) PROVE AppliedToTarget'
  BY <1>0, <1>3, <1>5, LocalGate
<1>6. ASSUME NEW v \in VirtualQpu, Expose(v) PROVE AppliedToTarget'
  BY <1>2, <1>6 DEF Expose
<1>7. ASSUME NEW v \in VirtualQpu, NEW w \in VirtualQpu, RunControlled(v, w)
      PROVE  AppliedToTarget'
  <2> DEFINE g == GateAt(v)
             e == GateAt(w)
             a == [gate |-> g, name |-> NextOf(v).instructions[1].name,
                   target |-> g.j, control |-> e.k]
  <2>1. /\ g \in Gates /\ e \in Gates
        /\ Circuits[w] = HomeOf(g.k) /\ Circuits[w] = HomeOf(e.k)
        /\ a.name \in NameOf(g)
        /\ applied' = applied \cup {a}
    BY <1>0, <1>7, MeetingGates
  <2>2. program = "simple_telegate" => e.k = g.k
    <3>1. ASSUME program = "simple_telegate" PROVE e.k = g.k
      <4>1. g.k \in {0, 1} /\ e.k \in {0, 1}
        BY <2>1, <3>1 DEF Gates, NamedGate
      <4>2. controlCircuit # targetCircuit
        BY SizesOfProgram DEF controlCircuit, targetCircuit
      <4> QED BY <2>1, <3>1, <4>1, <4>2 DEF HomeOf
    <3> QED BY <3>1
  <2>3. a.gate = g /\ a.target = g.j /\ a.control = e.k
    OBVIOUS
  <2> HIDE DEF a, g, e
  <2> QED BY <1>3, <2>1, <2>2, <2>3
<1> QED BY <1>4, <1>5, <1>6, <1>7 DEF ExamplesNext, QpuStep

LEMMA InitExecution == ExamplesInit => ExecutionInv
<1> SUFFICES ASSUME ExamplesInit PROVE ExecutionInv
  OBVIOUS
<1>1. /\ \A o \in Object : instructions[o] = << >>
      /\ calls = 0 /\ batch = << >> /\ sent = << >>
      /\ position = [v \in VirtualQpu |-> 0] /\ exposed = {} /\ applied = {}
      /\ meant = [o \in Object |-> << >>]
  BY DEF ExamplesInit, Init, CircuitInit
<1>2. MeantBuilt
  BY <1>1 DEF MeantBuilt, Follows
<1>3. QpusInCircuits
  BY <1>1, SizesOfProgram DEF QpusInCircuits, VirtualQpu
<1> QED BY <1>1, <1>2, <1>3 DEF ExecutionInv, RunBuilt, AppliedToTarget

LEMMA NextExecution ==
  ExamplesInv /\ ExamplesInv' /\ ExecutionInv /\ [ExamplesNext]_exampleVars => ExecutionInv'
<1> SUFFICES ASSUME ExamplesInv, ExamplesInv', ExecutionInv, [ExamplesNext]_exampleVars
             PROVE  ExecutionInv'
  OBVIOUS
<1>1. MeantBuilt /\ RunBuilt /\ QpusInCircuits
  BY DEF ExecutionInv
<1> QED BY <1>1, NextMeant, NextRunBuilt, NextPositions, NextApplied DEF ExecutionInv

LEMMA ExecutionInvariant == ExamplesSpec => []ExecutionInv
BY ExamplesInvariant, InitExecution, NextExecution, PTL DEF ExamplesSpec

(***************************************************************************)
(* The circuits of distributed_qft are those of DistributedQft.            *)
(***************************************************************************)

LEMMA HomeIsRank ==
  ASSUME MappingInv, Mapped, program = "distributed_qft", NEW q \in 0 .. TotalQubits - 1
  PROVE  HomeOf(q) = Qft!Home(q)
<1>1. HomeOf(q) = RankOf(TotalQubits, Qpus, q)
  BY Places DEF HomeOf
<1>2. RankOf(TotalQubits, Qpus, q) = Qft!RankOf(TotalQubits, Qpus, q)
  BY DEF RankOf, Holds, FirstOf, Qft!RankOf, Qft!Holds, Qft!FirstOf
<1> QED BY <1>1, <1>2 DEF Qft!Home

\* The gates of a circuit, and those that its virtual QPU has finished.
LEMMA CircuitOfRank ==
  ASSUME ExamplesInv, MeantBuilt, RunBuilt, program = "distributed_qft",
         NEW v \in 1 .. Len(sent)
  PROVE  /\ v - 1 \in Qft!Rank /\ Circuits[v] = v - 1
         /\ Qft!Circuit(v - 1) = {meant[v - 1][i] : i \in 1 .. Len(meant[v - 1])}
         /\ RanGates[v - 1] = {meant[v - 1][i] : i \in 1 .. position[v]}
<1>1. MappingInv /\ size \in Sizes /\ program \in {"distributed_qft", "simple_telegate"}
  BY DEF ExamplesInv, ProgramInv, MappingInv, MapTypeOK
<1>2. /\ Mapped /\ v \in 1 .. Len(Circuits)
      /\ Len(sent[v].instructions) = Len(meant[Circuits[v]])
      /\ \A i \in 1 .. Len(sent[v].instructions) :
           \E n \in Good :
             /\ n.object = Circuits[v]
             /\ n.gate = meant[Circuits[v]][i] /\ n.gate \in Gates
             /\ IsSide(n)
             /\ sent[v].instructions[i] = TransformInstruction(InstructionOf(n, id))
      /\ \A g \in Gates : Circuits[v] \in {HomeOf(g.j), HomeOf(g.k)} =>
           \E i \in 1 .. Len(meant[Circuits[v]]) : meant[Circuits[v]][i] = g
  BY Received
<1>3. Circuits[v] = v - 1 /\ Len(Circuits) = Qpus
  BY <1>1, <1>2, CircuitsOnce
<1>4. v - 1 \in Qft!Rank /\ v - 1 \in 0 .. Qpus - 1
  BY <1>2, <1>3, SizesOfProgram DEF Qft!Rank
<1>5. Gates = Qft!Gate
  BY DEF Gates
<1>6. \A g \in Gates : HomeOf(g.j) = Qft!Home(g.j) /\ HomeOf(g.k) = Qft!Home(g.k)
  <2>1. \A g \in Gates : g.j \in 0 .. TotalQubits - 1 /\ g.k \in 0 .. TotalQubits - 1
    BY <1>5, QftGates
  <2> QED BY <1>1, <1>2, <2>1, HomeIsRank
<1> DEFINE gates == meant[v - 1]
<1> HIDE DEF gates
<1>7. ASSUME NEW i \in 1 .. Len(gates) PROVE gates[i] \in Qft!Circuit(v - 1)
  <2>1. PICK n \in Good : /\ n.object = v - 1 /\ n.gate = gates[i] /\ n.gate \in Gates
                          /\ IsSide(n)
    <3>1. i \in 1 .. Len(sent[v].instructions)
      BY <1>2, <1>3 DEF gates
    <3> QED BY <1>2, <1>3, <3>1 DEF gates
  <2>2. n.object = HomeOf(n.gate.j) \/ n.object = HomeOf(n.gate.k)
    BY <2>1 DEF IsSide, IsLocal, IsExpose, IsControlled
  <2> QED BY <1>5, <1>6, <2>1, <2>2 DEF Qft!Circuit
<1>8. ASSUME NEW g \in Qft!Circuit(v - 1) PROVE \E i \in 1 .. Len(gates) : gates[i] = g
  <2>1. g \in Gates /\ (Qft!Home(g.j) = v - 1 \/ Qft!Home(g.k) = v - 1)
    BY <1>5 DEF Qft!Circuit
  <2>2. v - 1 \in {HomeOf(g.j), HomeOf(g.k)}
    BY <1>6, <2>1
  <2> QED BY <1>2, <1>3, <2>1, <2>2 DEF gates
<1>9. Qft!Circuit(v - 1) = {gates[i] : i \in 1 .. Len(gates)}
  BY <1>7, <1>8
<1>10. RanGates[v - 1] = {gates[i] : i \in 1 .. position[v]}
  <2>1. (v - 1) + 1 = v
    OBVIOUS
  <2> QED BY <1>4, <2>1 DEF RanGates, gates
<1> QED BY <1>3, <1>4, <1>9, <1>10 DEF gates

\* The next gate of a virtual QPU is the next of DistributedQft.
LEMMA NextOfRank ==
  ASSUME ExamplesInv, MeantBuilt, RunBuilt, QpusInCircuits, program = "distributed_qft",
         NEW v \in VirtualQpu, HasNext(v)
  PROVE  /\ v - 1 \in Qft!Rank /\ Circuits[v] = v - 1
         /\ GateAt(v) \in Qft!Gate
         /\ HomeOf(GateAt(v).j) = Qft!Home(GateAt(v).j)
         /\ HomeOf(GateAt(v).k) = Qft!Home(GateAt(v).k)
         /\ Qft!IsNext(v - 1, GateAt(v))
<1> DEFINE gates == meant[v - 1]
           n == position[v]
           g == gates[n + 1]
<1>1. /\ Mapped /\ v \in 1 .. Len(sent) /\ Circuits[v] \in Participant
      /\ n + 1 \in 1 .. Len(meant[Circuits[v]])
      /\ GateAt(v) \in Gates
  BY NextGate
<1>2. /\ v - 1 \in Qft!Rank /\ Circuits[v] = v - 1
      /\ Qft!Circuit(v - 1) = {gates[i] : i \in 1 .. Len(gates)}
      /\ RanGates[v - 1] = {gates[i] : i \in 1 .. n}
  BY <1>1, CircuitOfRank
<1>3. GateAt(v) = g /\ Gates = Qft!Gate
  BY <1>2 DEF GateAt, Gates
<1>4. MappingInv /\ n \in Nat
  BY DEF ExamplesInv, ProgramInv, QpusInCircuits
<1>5. HomeOf(g.j) = Qft!Home(g.j) /\ HomeOf(g.k) = Qft!Home(g.k)
  <2>1. g.j \in 0 .. TotalQubits - 1 /\ g.k \in 0 .. TotalQubits - 1
    BY <1>1, <1>3, QftGates
  <2> QED BY <1>1, <1>4, <2>1, HomeIsRank
<1>6. /\ gates \in Seq(GateName)
      /\ \A i, m \in 1 .. Len(gates) : i < m => Qft!Earlier(gates[i], gates[m])
  <2>1. v - 1 \in Object
    BY <1>1, <1>2, Registers
  <2>2. Follows(gates, instructions[v - 1], id, ProgramCalls, calls, v - 1)
    BY <2>1 DEF MeantBuilt
  <2> HIDE DEF gates
  <2>3. \A i, m \in 1 .. Len(gates) : i < m => Qft!Earlier(gates[i], gates[m])
    BY <2>2 DEF Follows
  <2> QED BY <2>1, <2>3 DEF MeantBuilt, gates
<1> HIDE DEF gates
<1>7. n + 1 \in 1 .. Len(gates) /\ Len(gates) \in Nat
  BY <1>1, <1>2, <1>6 DEF gates
<1> HIDE DEF n
<1>8. \A x \in GateName : ~ Qft!Earlier(x, x)
  BY DEF Qft!Earlier, GateName
<1>9. \A i \in 1 .. Len(gates) : gates[i] \in GateName
  BY <1>6
<1>10. ASSUME NEW i \in 1 .. n PROVE gates[i] # g
  <2>1. i \in 1 .. Len(gates) /\ i < n + 1
    BY <1>4, <1>7 DEF n
  <2>2. Qft!Earlier(gates[i], g)
    BY <1>6, <1>7, <2>1
  <2> QED BY <1>8, <1>9, <2>1, <2>2
<1>11. g \in Qft!Circuit(v - 1) \ RanGates[v - 1]
  BY <1>2, <1>7, <1>10
<1>12. ASSUME NEW h \in Qft!Circuit(v - 1) \ RanGates[v - 1]
       PROVE  h = g \/ Qft!Earlier(g, h)
  <2>1. PICK i \in 1 .. Len(gates) : h = gates[i]
    BY <1>2
  <2>2. ~ i \in 1 .. n
    BY <1>2, <2>1
  <2>3. i = n + 1 \/ n + 1 < i
    BY <1>4, <2>2 DEF n
  <2> QED BY <1>6, <1>7, <2>1, <2>3
<1>13. Qft!IsNext(v - 1, g)
  BY <1>11, <1>12 DEF Qft!IsNext, Qft!Order
<1> QED BY <1>1, <1>2, <1>3, <1>5, <1>13

(***************************************************************************)
(* The steps of the virtual QPUs are those of DistributedQft.              *)
(***************************************************************************)

LEMMA InitImplements == ExamplesInit => Qft!Init
<1> SUFFICES ASSUME ExamplesInit PROVE Qft!Init
  OBVIOUS
<1>1. position = [v \in VirtualQpu |-> 0] /\ exposed = {} /\ applied = {}
  BY DEF ExamplesInit
<1>2. ASSUME NEW r \in 0 .. Qpus - 1 PROVE {meant[r][i] : i \in 1 .. position[r + 1]} = {}
  <2>1. r + 1 \in VirtualQpu
    BY SizesOfProgram DEF VirtualQpu
  <2> QED BY <1>1, <2>1
<1>3. RanGates = [r \in 0 .. Qpus - 1 |-> {}]
  BY <1>2 DEF RanGates
<1> QED BY <1>1, <1>3 DEF Qft!Init, Qft!Rank, ExposedRanks, AppliedGates

\* The end of the next gates of some virtual QPUs, seen by DistributedQft.
LEMMA RanMore ==
  ASSUME QpusInCircuits, program = "distributed_qft", program' = program, meant' = meant,
         NEW U \in SUBSET (1 .. Qpus), \A u \in U : Circuits[u] = u - 1,
         \A u \in VirtualQpu : position'[u] = IF u \in U THEN position[u] + 1 ELSE position[u]
  PROVE  RanGates' = [r \in 0 .. Qpus - 1 |->
                        IF r + 1 \in U THEN RanGates[r] \cup {GateAt(r + 1)} ELSE RanGates[r]]
<1>1. ASSUME NEW r \in 0 .. Qpus - 1
      PROVE  {meant[r][i] : i \in 1 .. position'[r + 1]} =
               IF r + 1 \in U THEN RanGates[r] \cup {GateAt(r + 1)} ELSE RanGates[r]
  <2>1. r + 1 \in VirtualQpu /\ (r + 1) - 1 = r
    BY SizesOfProgram DEF VirtualQpu
  <2>2. RanGates[r] = {meant[r][i] : i \in 1 .. position[r + 1]}
    BY DEF RanGates
  <2>3. CASE r + 1 \in U
    <3> DEFINE n == position[r + 1]
    <3>1. position'[r + 1] = n + 1 /\ n \in Nat
      BY <2>1, <2>3 DEF QpusInCircuits
    <3>2. GateAt(r + 1) = meant[r][n + 1]
      BY <2>1, <2>3 DEF GateAt
    <3>3. \A i : i \in 1 .. n + 1 <=> i \in 1 .. n \/ i = n + 1
      BY <3>1
    <3> HIDE DEF n
    <3>4. {meant[r][i] : i \in 1 .. n + 1} = {meant[r][i] : i \in 1 .. n} \cup {meant[r][n + 1]}
      BY <3>3
    <3> QED BY <2>2, <2>3, <3>1, <3>2, <3>4 DEF n
  <2>4. CASE r + 1 \notin U
    BY <2>1, <2>2, <2>4
  <2> QED BY <2>3, <2>4
<1>2. RanGates' = [r \in 0 .. Qpus - 1 |-> {meant[r][i] : i \in 1 .. position'[r + 1]}]
  BY DEF RanGates
<1> QED BY <1>1, <1>2

LEMMA LocalImplements ==
  ASSUME ExamplesInv, MeantBuilt, RunBuilt, QpusInCircuits, program = "distributed_qft",
         NEW v \in VirtualQpu, RunLocal(v)
  PROVE  Qft!Next
<1> DEFINE g == GateAt(v)
           r == v - 1
<1>1. /\ HasNext(v)
      /\ HomeOf(g.k) = HomeOf(g.j)
      /\ applied' = applied \cup
           {[gate |-> g, name |-> NextOf(v).name, target |-> g.j, control |-> g.k]}
  BY LocalGate
<1>2. /\ r \in Qft!Rank /\ Circuits[v] = v - 1 /\ g \in Qft!Gate
      /\ HomeOf(g.j) = Qft!Home(g.j) /\ HomeOf(g.k) = Qft!Home(g.k)
      /\ Qft!IsNext(r, g)
  BY <1>1, NextOfRank
<1> HIDE DEF g
<1>3. Qft!CanRun(r, g)
  BY <1>1, <1>2 DEF Qft!CanRun, Qft!IsRemote
<1>4. /\ program' = program /\ meant' = meant /\ exposed' = exposed
      /\ position' = [position EXCEPT ![v] = @ + 1]
  BY DEF RunLocal, CanRun
<1>5. RanGates' = [RanGates EXCEPT ![r] = @ \cup {g}]
  <2>1. v \in 1 .. Qpus
    BY <1>2, SizesOfProgram DEF Qft!Rank, VirtualQpu
  <2>2. \A u \in VirtualQpu :
          position'[u] = IF u \in {v} THEN position[u] + 1 ELSE position[u]
    BY <1>4 DEF QpusInCircuits
  <2>3. {v} \in SUBSET (1 .. Qpus) /\ \A u \in {v} : Circuits[u] = u - 1
    BY <1>2, <2>1
  <2>4. RanGates' = [x \in 0 .. Qpus - 1 |->
                       IF x + 1 \in {v} THEN RanGates[x] \cup {GateAt(x + 1)} ELSE RanGates[x]]
    BY <1>4, <2>2, <2>3, RanMore
  <2>5. \A x \in 0 .. Qpus - 1 :
          /\ x + 1 \in {v} <=> x = r
          /\ x = r => x + 1 = v
    BY SizesOfProgram DEF VirtualQpu
  <2>6. RanGates = [x \in 0 .. Qpus - 1 |-> RanGates[x]]
    BY DEF RanGates
  <2> DEFINE old == RanGates
  <2> HIDE DEF old, r
  <2>7. RanGates' = [x \in 0 .. Qpus - 1 |-> IF x = r THEN old[x] \cup {g} ELSE old[x]]
    BY <2>4, <2>5 DEF old, g
  <2>8. old = [x \in 0 .. Qpus - 1 |-> old[x]]
    BY <2>6 DEF old
  <2> QED BY <2>7, <2>8 DEF old
<1>6. ExposedRanks' = ExposedRanks
  BY <1>4 DEF ExposedRanks
<1>7. AppliedGates' = AppliedGates \cup {<<g, g.k>>}
  <2> DEFINE a == [gate |-> g, name |-> NextOf(v).name, target |-> g.j, control |-> g.k]
  <2>1. a.gate = g /\ a.control = g.k /\ applied' = applied \cup {a}
    BY <1>1
  <2> HIDE DEF a
  <2> QED BY <1>4, <2>1 DEF AppliedGates
<1>8. Qft!Local(r)
  BY <1>2, <1>3, <1>5, <1>6, <1>7 DEF Qft!Local
<1> QED BY <1>2, <1>8 DEF Qft!Next

LEMMA ExposeImplements ==
  ASSUME ExamplesInv, MeantBuilt, RunBuilt, QpusInCircuits, program = "distributed_qft",
         NEW v \in VirtualQpu, Expose(v)
  PROVE  Qft!Next
<1> DEFINE g == GateAt(v)
           r == v - 1
<1>1. /\ HasNext(v) /\ NextOf(v).name = "expose" /\ v \notin exposed
      /\ exposed' = exposed \cup {v}
      /\ UNCHANGED <<program, meant, position, applied>>
  BY DEF Expose, CanExpose
<1>2. /\ r \in Qft!Rank /\ Circuits[v] = r /\ g \in Qft!Gate
      /\ HomeOf(g.j) = Qft!Home(g.j) /\ HomeOf(g.k) = Qft!Home(g.k)
      /\ Qft!IsNext(r, g)
  BY <1>1, NextOfRank
<1>3. \/ LocalNext(NextOf(v), g, v) \/ ExposeNext(NextOf(v), g, v)
      \/ ControlledNext(NextOf(v), g, v)
  BY <1>1, NextGate
<1> HIDE DEF g
<1>4. Circuits[v] = HomeOf(g.k) /\ HomeOf(g.k) # HomeOf(g.j)
  BY <1>1, <1>3 DEF LocalNext, ExposeNext, ControlledNext, RemoteGateNames
<1>5. r \notin ExposedRanks
  <2>1. \A u \in exposed : u \in Int /\ u # v
    BY <1>1, SizesOfProgram DEF QpusInCircuits, VirtualQpu
  <2>2. v \in Int
    BY SizesOfProgram DEF VirtualQpu
  <2> QED BY <2>1, <2>2 DEF ExposedRanks
<1>6. Qft!CanExpose(r, g)
  BY <1>2, <1>4, <1>5 DEF Qft!CanExpose, Qft!IsRemote
<1>7. ExposedRanks' = ExposedRanks \cup {r}
  BY <1>1 DEF ExposedRanks
<1>8. RanGates' = RanGates /\ AppliedGates' = AppliedGates
  BY <1>1 DEF RanGates, AppliedGates
<1>9. Qft!Expose(r)
  BY <1>2, <1>6, <1>7, <1>8 DEF Qft!Expose
<1> QED BY <1>2, <1>9 DEF Qft!Next

LEMMA MeetingImplements ==
  ASSUME ExamplesInv, MeantBuilt, RunBuilt, QpusInCircuits, program = "distributed_qft",
         NEW v \in VirtualQpu, NEW w \in VirtualQpu, RunControlled(v, w)
  PROVE  Qft!Next
<1> DEFINE g == GateAt(v)
           e == GateAt(w)
           r == v - 1
           p == w - 1
<1>1. /\ HasNext(v) /\ HasNext(w) /\ w \in exposed /\ v # w
      /\ Circuits[v] = HomeOf(g.j) /\ Circuits[w] = HomeOf(g.k)
      /\ Circuits[v] = HomeOf(e.j) /\ Circuits[w] = HomeOf(e.k)
      /\ Circuits[v] # Circuits[w]
      /\ applied' = applied \cup
           {[gate |-> g, name |-> NextOf(v).instructions[1].name,
             target |-> g.j, control |-> e.k]}
  BY MeetingGates
<1>2. /\ r \in Qft!Rank /\ Circuits[v] = r /\ g \in Qft!Gate
      /\ HomeOf(g.j) = Qft!Home(g.j) /\ HomeOf(g.k) = Qft!Home(g.k)
      /\ Qft!IsNext(r, g)
  BY <1>1, NextOfRank
<1>3. /\ p \in Qft!Rank /\ Circuits[w] = p /\ e \in Qft!Gate
      /\ HomeOf(e.j) = Qft!Home(e.j) /\ HomeOf(e.k) = Qft!Home(e.k)
      /\ Qft!IsNext(p, e)
  BY <1>1, NextOfRank
<1> HIDE DEF g, e
<1>4. p \in ExposedRanks
  BY <1>1 DEF ExposedRanks
<1>5. Qft!Home(g.j) = r /\ Qft!Home(g.k) = p /\ Qft!Home(e.j) = r /\ r # p
  BY <1>1, <1>2, <1>3
<1>6. Qft!CanControl(r, g, e)
  BY <1>2, <1>3, <1>4, <1>5 DEF Qft!CanControl, Qft!IsRemote
<1>7. /\ program' = program /\ meant' = meant /\ exposed' = exposed \ {w}
      /\ position' = [position EXCEPT ![v] = @ + 1, ![w] = @ + 1]
  BY DEF RunControlled, CanMeet
<1>8. RanGates' = [RanGates EXCEPT ![r] = @ \cup {g}, ![p] = @ \cup {e}]
  <2>1. v \in 1 .. Qpus /\ w \in 1 .. Qpus
    BY <1>2, <1>3, SizesOfProgram DEF Qft!Rank, VirtualQpu
  <2>2. \A u \in VirtualQpu :
          position'[u] = IF u \in {v, w} THEN position[u] + 1 ELSE position[u]
    BY <1>1, <1>7 DEF QpusInCircuits
  <2>3. {v, w} \in SUBSET (1 .. Qpus) /\ \A u \in {v, w} : Circuits[u] = u - 1
    BY <1>2, <1>3, <2>1
  <2>4. RanGates' = [x \in 0 .. Qpus - 1 |->
                       IF x + 1 \in {v, w} THEN RanGates[x] \cup {GateAt(x + 1)}
                                           ELSE RanGates[x]]
    BY <1>7, <2>2, <2>3, RanMore
  <2>5. \A x \in 0 .. Qpus - 1 :
          /\ x + 1 \in {v, w} <=> x = r \/ x = p
          /\ x = r => x + 1 = v
          /\ x = p => x + 1 = w
    BY SizesOfProgram DEF VirtualQpu
  <2> DEFINE old == RanGates
  <2>6. old = [x \in 0 .. Qpus - 1 |-> old[x]]
    BY DEF RanGates
  <2>7. RanGates' = [x \in 0 .. Qpus - 1 |->
                       IF x = r THEN old[x] \cup {g} ELSE IF x = p THEN old[x] \cup {e}
                                                                  ELSE old[x]]
    <3> HIDE DEF r, p, old
    <3> QED BY <1>5, <2>4, <2>5 DEF old, g, e
  <2> HIDE DEF r, p, old
  <2>8. RanGates' = [old EXCEPT ![r] = @ \cup {g}, ![p] = @ \cup {e}]
    BY <1>5, <2>6, <2>7
  <2> QED BY <2>8 DEF old
<1>9. ExposedRanks' = ExposedRanks \ {p}
  <2>1. \A u \in exposed : u - 1 = p <=> u = w
    BY SizesOfProgram DEF QpusInCircuits, VirtualQpu
  <2> HIDE DEF p
  <2> QED BY <1>7, <2>1 DEF ExposedRanks
<1>10. AppliedGates' = AppliedGates \cup {<<g, e.k>>}
  <2> DEFINE a == [gate |-> g, name |-> NextOf(v).instructions[1].name,
                   target |-> g.j, control |-> e.k]
  <2>1. a.gate = g /\ a.control = e.k /\ applied' = applied \cup {a}
    BY <1>1
  <2> HIDE DEF a
  <2> QED BY <1>7, <2>1 DEF AppliedGates
<1>11. Qft!Control(r)
  <2> HIDE DEF r, p
  <2> QED BY <1>2, <1>3, <1>5, <1>6, <1>8, <1>9, <1>10 DEF Qft!Control
<1> QED BY <1>2, <1>11 DEF Qft!Next

\* No virtual QPU has started while the program builds its circuits.
LEMMA NoneStarted ==
  ASSUME ExamplesInv, RunBuilt, QpusInCircuits, ~Built
  PROVE  \A v \in VirtualQpu : position[v] = 0
<1>1. sent = << >>
  <2>1. batch = << >>
    BY DEF RunBuilt
  <2>2. /\ sent \in Seq({Transform(batch[p]) : p \in 1 .. Len(batch)})
        /\ Len(sent) <= Len(batch)
    BY DEF ExamplesInv, TransformInv, SentTransformed
  <2> QED BY <2>1, <2>2
<1>2. \A v \in VirtualQpu : ~ v <= Len(sent)
  BY <1>1, SizesOfProgram DEF VirtualQpu
<1> QED BY <1>2 DEF QpusInCircuits

LEMMA BuildingImplements ==
  ASSUME ExamplesInv, RunBuilt, QpusInCircuits, AddNext
  PROVE  UNCHANGED <<RanGates, ExposedRanks, AppliedGates>>
<1>1. ~Built /\ UNCHANGED <<program, position, exposed, applied>>
  BY DEF AddNext, qpuVars
<1>2. \A v \in VirtualQpu : position[v] = 0
  BY <1>1, NoneStarted
<1>3. ASSUME NEW r \in 0 .. Qpus - 1, NEW G PROVE {G[r][i] : i \in 1 .. position[r + 1]} = {}
  <2>1. r + 1 \in VirtualQpu
    BY SizesOfProgram DEF VirtualQpu
  <2> QED BY <1>2, <2>1
<1>4. RanGates = [r \in 0 .. Qpus - 1 |-> {}] /\ RanGates' = [r \in 0 .. Qpus - 1 |-> {}]
  BY <1>1, <1>3 DEF RanGates
<1> QED BY <1>1, <1>4 DEF ExposedRanks, AppliedGates

LEMMA NextImplements ==
  ExamplesInv /\ ExecutionInv /\ [ExamplesNext]_exampleVars => [Qft!Next]_(Qft!vars)
<1> SUFFICES ASSUME ExamplesInv, ExecutionInv, [ExamplesNext]_exampleVars
             PROVE  [Qft!Next]_(Qft!vars)
  OBVIOUS
<1>0. /\ MeantBuilt /\ RunBuilt /\ QpusInCircuits
      /\ program \in {"distributed_qft", "simple_telegate"}
  BY DEF ExecutionInv, ExamplesInv, ProgramInv
<1>1. ASSUME UNCHANGED <<RanGates, ExposedRanks, AppliedGates>>
      PROVE  [Qft!Next]_(Qft!vars)
  BY <1>1 DEF Qft!vars
<1>2. ASSUME UNCHANGED <<program, meant, position, exposed, applied>>
      PROVE  [Qft!Next]_(Qft!vars)
  BY <1>1, <1>2 DEF RanGates, ExposedRanks, AppliedGates
<1>3. CASE BuildMapping \/ RunCircuits \/ Send \/ UNCHANGED exampleVars
  BY <1>2, <1>3 DEF BuildMapping, RunCircuits, Send, exampleVars, qpuVars
<1>4. CASE AddNext
  BY <1>0, <1>1, <1>4, BuildingImplements
<1>5. ASSUME NEW v \in VirtualQpu, QpuStep(v) PROVE [Qft!Next]_(Qft!vars)
  <2>1. CASE program = "simple_telegate"
    <3>1. program' = program
      BY ProgramFixed DEF ExamplesInv
    <3>2. UNCHANGED <<RanGates, ExposedRanks, AppliedGates>>
      BY <2>1, <3>1 DEF RanGates, ExposedRanks, AppliedGates
    <3> QED BY <1>1, <3>2
  <2>2. CASE program = "distributed_qft"
    BY <1>0, <1>5, <2>2, LocalImplements, ExposeImplements, MeetingImplements DEF QpuStep
  <2> QED BY <1>0, <2>1, <2>2
<1> QED BY <1>3, <1>4, <1>5 DEF ExamplesNext, ProgramStep

(***************************************************************************)
(* For all numbers of qubits and ranks that parse_cli accepts: what the    *)
(* virtual QPUs do with the instructions that they have received is a      *)
(* behaviour of DistributedQft.  Places, ids and virtual QPUs stand for    *)
(* qubits throughout, each circuit has its gates in the order of the       *)
(* iterations, and no virtual QPU starts before it has its whole circuit.  *)
(***************************************************************************)
THEOREM ImplementsQftHolds == ExamplesSpec => ImplementsQft
BY ExamplesInvariant, ExecutionInvariant, InitImplements, NextImplements, PTL
   DEF ExamplesSpec, ImplementsQft, Qft!Spec

(***************************************************************************)
(* So the theorems about DistributedQft are theorems about the programs.   *)
(***************************************************************************)

QftProofs == INSTANCE QftProgram_proofs WITH
  Qubits <- TotalQubits, ran <- RanGates, exposed <- ExposedRanks, applied <- AppliedGates

\* The module has a copy of DistributedQft of its own.
LEMMA SameGuards ==
  /\ Qft!Rank = QftProofs!Rank /\ Qft!Gate = QftProofs!Gate
  /\ \A q : Qft!Home(q) = QftProofs!Home(q)
  /\ \A r : Qft!Circuit(r) = QftProofs!Circuit(r)
  /\ \A r, g : Qft!CanRun(r, g) <=> QftProofs!CanRun(r, g)
  /\ \A r, g : Qft!CanExpose(r, g) <=> QftProofs!CanExpose(r, g)
  /\ \A r, g, e : Qft!CanControl(r, g, e) <=> QftProofs!CanControl(r, g, e)
<1>1. Qft!Rank = QftProofs!Rank /\ Qft!Qubit = QftProofs!Qubit
  BY DEF Qft!Rank, QftProofs!Rank, Qft!Qubit, QftProofs!Qubit
<1>2. Qft!Gate = QftProofs!Gate
  BY <1>1 DEF Qft!Gate, QftProofs!Gate, Qft!Instruction, QftProofs!Instruction
<1>3. \A q : Qft!Home(q) = QftProofs!Home(q)
  BY DEF Qft!Home, QftProofs!Home, Qft!RankOf, QftProofs!RankOf, Qft!Holds,
         QftProofs!Holds, Qft!FirstOf, QftProofs!FirstOf
<1>4. \A r, g, h : Qft!Order(r, g, h) <=> QftProofs!Order(r, g, h)
  BY DEF Qft!Order, QftProofs!Order, Qft!Earlier, QftProofs!Earlier
<1>5. \A r : Qft!Circuit(r) = QftProofs!Circuit(r)
  BY <1>2, <1>3 DEF Qft!Circuit, QftProofs!Circuit
<1>6. \A g : Qft!IsRemote(g) <=> QftProofs!IsRemote(g)
  BY <1>3 DEF Qft!IsRemote, QftProofs!IsRemote
<1>7. \A r, g : Qft!IsNext(r, g) <=> QftProofs!IsNext(r, g)
  BY <1>4, <1>5 DEF Qft!IsNext, QftProofs!IsNext
<1>8. \A r, g : Qft!CanRun(r, g) <=> QftProofs!CanRun(r, g)
  BY <1>6, <1>7 DEF Qft!CanRun, QftProofs!CanRun
<1>9. \A r, g : Qft!CanExpose(r, g) <=> QftProofs!CanExpose(r, g)
  BY <1>3, <1>6, <1>7, Zenon DEF Qft!CanExpose, QftProofs!CanExpose
<1>10. ASSUME NEW r, NEW g, NEW e
       PROVE  Qft!CanControl(r, g, e) <=> QftProofs!CanControl(r, g, e)
  <2>1. /\ Qft!Home(g.k) = QftProofs!Home(g.k)
        /\ Qft!Home(g.j) = QftProofs!Home(g.j)
        /\ Qft!Home(e.j) = QftProofs!Home(e.j)
    BY <1>3
  <2>2. Qft!IsNext(Qft!Home(g.k), e) <=> QftProofs!IsNext(QftProofs!Home(g.k), e)
    BY <1>7, <2>1
  <2> QED BY <1>6, <1>7, <2>1, <2>2 DEF Qft!CanControl, QftProofs!CanControl
<1> QED BY <1>1, <1>2, <1>3, <1>5, <1>8, <1>9, <1>10

LEMMA SameQft ==
  /\ Qft!Init = QftProofs!Init
  /\ [Qft!Next]_(Qft!vars) = [QftProofs!Next]_(QftProofs!vars)
<1>1. Qft!Init = QftProofs!Init
  BY DEF Qft!Init, QftProofs!Init, Qft!Rank, QftProofs!Rank
<1>2. \A r : Qft!Local(r) <=> QftProofs!Local(r)
  BY SameGuards, Zenon DEF Qft!Local, QftProofs!Local
<1>3. \A r : Qft!Expose(r) <=> QftProofs!Expose(r)
  BY SameGuards, Zenon DEF Qft!Expose, QftProofs!Expose
<1>4. \A r : Qft!Control(r) <=> QftProofs!Control(r)
  BY SameGuards, Zenon DEF Qft!Control, QftProofs!Control
<1>5. Qft!Next = QftProofs!Next
  BY <1>2, <1>3, <1>4, SameGuards DEF Qft!Next, QftProofs!Next
<1> QED BY <1>1, <1>5 DEF Qft!vars, QftProofs!vars

LEMMA QftSizes == QftProofs!SizeAssumption /\ QftProofs!SizesAssumption
BY SizesOfProgram, SizesAssumption
   DEF QftProofs!SizeAssumption, QftProofs!SizesAssumption, QftProofs!Accepted, Accepted

LEMMA SpecOfPrograms == ExamplesSpec => QftProofs!Spec
<1>1. Qft!Init => QftProofs!Init
  BY SameQft
<1>2. [Qft!Next]_(Qft!vars) => [QftProofs!Next]_(QftProofs!vars)
  BY SameQft
<1>3. Qft!Spec => QftProofs!Spec
  BY <1>1, <1>2, PTL DEF Qft!Spec, QftProofs!Spec
<1> QED BY <1>3, ImplementsQftHolds, PTL DEF ImplementsQft

(***************************************************************************)
(* For all numbers of qubits and ranks that parse_cli accepts: each gate   *)
(* that a virtual QPU applies in distributed_qft or simple_telegate is the *)
(* gate that the iteration meant, on the qubit and with the control that   *)
(* it names, whichever virtual QPUs and local indices they went through.   *)
(***************************************************************************)
THEOREM AppliesItsGateHolds == ExamplesSpec => []AppliesItsGate
<1>1. ExamplesInv /\ ExecutionInv /\ QftProofs!RightControl => AppliesItsGate
  <2> SUFFICES ASSUME ExamplesInv, ExecutionInv, QftProofs!RightControl, NEW a \in applied
               PROVE  /\ a.name \in NameOf(a.gate)
                      /\ a.target = a.gate.j
                      /\ a.control = a.gate.k
    BY DEF AppliesItsGate
  <2>1. /\ a.name \in NameOf(a.gate) /\ a.target = a.gate.j
        /\ program = "simple_telegate" => a.control = a.gate.k
        /\ program \in {"distributed_qft", "simple_telegate"}
    BY DEF ExecutionInv, AppliedToTarget, ExamplesInv, ProgramInv
  <2>2. ASSUME program = "distributed_qft" PROVE a.control = a.gate.k
    <3>1. <<a.gate, a.control>> \in AppliedGates
      BY <2>2 DEF AppliedGates
    <3> QED BY <3>1 DEF QftProofs!RightControl
  <2> QED BY <2>1, <2>2
<1>2. QftProofs!Spec => []QftProofs!RightControl
  BY QftSizes, QftProofs!RightControlHolds
<1> QED BY <1>1, <1>2, ExamplesInvariant, ExecutionInvariant, SpecOfPrograms, PTL

(***************************************************************************)
(* For all numbers of qubits and ranks that parse_cli accepts: the gates   *)
(* that the virtual QPUs apply in distributed_qft, from what run has sent  *)
(* them, are in an order that computes the serial QFT, also while the      *)
(* later circuits have not been sent.                                      *)
(***************************************************************************)
THEOREM ProgramsInQftOrder == ExamplesSpec => []Qft!QftOrder
<1>1. QftProofs!QftOrder => Qft!QftOrder
  <2>1. Qft!Qubit = QftProofs!Qubit
    BY DEF Qft!Qubit, QftProofs!Qubit
  <2>2. Qft!Gate = QftProofs!Gate
    BY <2>1 DEF Qft!Gate, QftProofs!Gate, Qft!Instruction, QftProofs!Instruction
  <2>3. \A g, h : Qft!MustPrecede(g, h) <=> QftProofs!MustPrecede(g, h)
    BY DEF Qft!MustPrecede, QftProofs!MustPrecede, Qft!IsRotation, QftProofs!IsRotation,
           Qft!IsHadamard, QftProofs!IsHadamard
  <2>4. \A g : Qft!WasApplied(g) <=> QftProofs!WasApplied(g)
    BY <2>1 DEF Qft!WasApplied, QftProofs!WasApplied
  <2> QED BY <2>2, <2>3, <2>4 DEF Qft!QftOrder, QftProofs!QftOrder
<1>2. QftProofs!Spec => []QftProofs!QftOrder
  BY QftSizes, QftProofs!QftOrderHolds
<1> QED BY <1>1, <1>2, SpecOfPrograms, PTL

(***************************************************************************)
(* The virtual QPUs do not wait for each other in a circle.                *)
(***************************************************************************)

\* The gate of simple_telegate in which both virtual QPUs take part.
Telegate == NamedGate(1, 1, 0)

Done(v, g) == \E i \in 1 .. position[v] : meant[Circuits[v]][i] = g

\* What run returns on.
SentAll ==
  /\ outcome \in {"sending", "complete"} => batch # << >>
  /\ outcome = "complete" => Len(sent) = Len(batch)

\* Both virtual QPUs of simple_telegate end their remote gate at once.
EndTogether == program = "simple_telegate" => (Done(1, Telegate) <=> Done(2, Telegate))

WaitInv == SentAll /\ EndTogether

LEMMA NextSentAll ==
  ASSUME ExamplesInv, SentAll, [ExamplesNext]_exampleVars
  PROVE  SentAll'
<1>1. ASSUME UNCHANGED runVars PROVE SentAll'
  BY <1>1 DEF SentAll, runVars
<1>2. CASE BuildMapping \/ AddNext \/ UNCHANGED exampleVars
  BY <1>1, <1>2 DEF BuildMapping, AddNext, exampleVars, vars
<1>3. CASE RunCircuits
  <2> DEFINE all == Circuits
  <2>1. all \in Seq(Object)
    BY ArgumentOfRun DEF ExamplesInv, ProgramInv, MappingInv, MapTypeOK
  <2>2. all # << >> /\ outcome' = "sending" /\ batch' = [i \in 1 .. Len(all) |-> Raw(all[i])]
    BY <1>3 DEF RunCircuits, Run
  <2> HIDE DEF all
  <2>3. Len(batch') = Len(all) /\ Len(all) # 0
    BY <2>1, <2>2
  <2>4. batch' # << >>
    BY <2>3
  <2> QED BY <2>2, <2>4 DEF SentAll
<1>4. CASE Send
  BY <1>4 DEF Send, SendCircuit, Complete, SentAll
<1>5. ASSUME NEW v \in VirtualQpu, QpuStep(v) PROVE SentAll'
  BY <1>1, <1>5 DEF QpuStep, RunLocal, Expose, RunControlled, vars
<1> QED BY <1>2, <1>3, <1>4, <1>5 DEF ExamplesNext, ProgramStep

LEMMA DoneMore ==
  ASSUME QpusInCircuits, meant' = meant, Circuits' = Circuits, NEW v \in VirtualQpu,
         position'[v] = position[v] + 1, NEW g
  PROVE  Done(v, g)' <=> Done(v, g) \/ GateAt(v) = g
<1>1. position[v] \in Nat
  BY DEF QpusInCircuits
<1>2. \A i : i \in 1 .. position[v] + 1 <=> i \in 1 .. position[v] \/ i = position[v] + 1
  BY <1>1
<1> QED BY <1>2 DEF Done, GateAt

LEMMA TelegateGates ==
  program = "simple_telegate" =>
    /\ HomeOf(0) = controlCircuit /\ HomeOf(1) = targetCircuit
    /\ controlCircuit # targetCircuit
    /\ Circuits = <<controlCircuit, targetCircuit>>
    /\ Circuits[1] = controlCircuit /\ Circuits[2] = targetCircuit /\ Len(Circuits) = 2
    /\ 1 \in VirtualQpu /\ 2 \in VirtualQpu
    /\ Telegate \in Gates /\ Telegate.j = 1 /\ Telegate.k = 0
    /\ \A g \in Gates : HomeOf(g.j) # HomeOf(g.k) <=> g = Telegate
<1> SUFFICES ASSUME program = "simple_telegate"
             PROVE  /\ HomeOf(0) = controlCircuit /\ HomeOf(1) = targetCircuit
                    /\ controlCircuit # targetCircuit
                    /\ Circuits = <<controlCircuit, targetCircuit>>
                    /\ Circuits[1] = controlCircuit /\ Circuits[2] = targetCircuit
                    /\ Len(Circuits) = 2
                    /\ 1 \in VirtualQpu /\ 2 \in VirtualQpu
                    /\ Telegate \in Gates /\ Telegate.j = 1 /\ Telegate.k = 0
                    /\ \A g \in Gates : HomeOf(g.j) # HomeOf(g.k) <=> g = Telegate
  OBVIOUS
<1>1. /\ HomeOf(0) = controlCircuit /\ HomeOf(1) = targetCircuit
      /\ controlCircuit # targetCircuit
  BY SizesOfProgram DEF HomeOf, controlCircuit, targetCircuit
<1>2. Circuits = <<controlCircuit, targetCircuit>>
  BY DEF Circuits
<1>3. Circuits[1] = controlCircuit /\ Circuits[2] = targetCircuit /\ Len(Circuits) = 2
  BY <1>2
<1>4. 1 \in VirtualQpu /\ 2 \in VirtualQpu
  BY SizesOfProgram DEF VirtualQpu
<1>5. Gates = {NamedGate(1, 0, 0), Telegate, NamedGate(2, 1, 1)}
  BY DEF Gates, Telegate
<1>6. /\ Telegate.j = 1 /\ Telegate.k = 0
      /\ NamedGate(1, 0, 0).j = 0 /\ NamedGate(1, 0, 0).k = 0
      /\ NamedGate(2, 1, 1).j = 1 /\ NamedGate(2, 1, 1).k = 1
  BY DEF NamedGate, Telegate
<1>7. \A g \in Gates : HomeOf(g.j) # HomeOf(g.k) <=> g = Telegate
  BY <1>1, <1>5, <1>6
<1> QED BY <1>1, <1>2, <1>3, <1>4, <1>5, <1>6, <1>7

LEMMA NextTogether ==
  ASSUME ExamplesInv, ExecutionInv, EndTogether, [ExamplesNext]_exampleVars
  PROVE  EndTogether'
<1>0. MeantBuilt /\ RunBuilt /\ QpusInCircuits
  BY DEF ExecutionInv
<1>1. program' = program
  BY ProgramFixed DEF ExamplesInv
<1> SUFFICES ASSUME program = "simple_telegate"
             PROVE  Done(1, Telegate)' <=> Done(2, Telegate)'
  BY <1>1 DEF EndTogether, Telegate, NamedGate
<1>2. /\ 1 \in VirtualQpu /\ 2 \in VirtualQpu
      /\ Circuits[1] = controlCircuit /\ Circuits[2] = targetCircuit
      /\ controlCircuit # targetCircuit
      /\ \A g \in Gates : HomeOf(g.j) # HomeOf(g.k) <=> g = Telegate
  BY TelegateGates
<1>3. Circuits' = Circuits
  BY <1>1 DEF Circuits, controlCircuit, targetCircuit
<1>4. ASSUME meant' = meant, NEW v \in VirtualQpu, position'[v] = position[v]
      PROVE  Done(v, Telegate)' <=> Done(v, Telegate)
  BY <1>3, <1>4 DEF Done, Telegate, NamedGate
<1>5. ASSUME meant' = meant, position' = position
      PROVE  Done(1, Telegate)' <=> Done(2, Telegate)'
  BY <1>2, <1>4, <1>5 DEF EndTogether
<1>6. CASE BuildMapping \/ RunCircuits \/ Send \/ UNCHANGED exampleVars
  BY <1>5, <1>6 DEF BuildMapping, RunCircuits, Send, exampleVars, qpuVars
<1>7. CASE AddNext
  <2>1. ~Built /\ position' = position
    BY <1>7 DEF AddNext, qpuVars
  <2>2. position'[1] = 0 /\ position'[2] = 0
    BY <1>0, <1>2, <2>1, NoneStarted
  <2> QED BY <2>2 DEF Done
<1>8. ASSUME NEW v \in VirtualQpu, RunLocal(v)
      PROVE  Done(1, Telegate)' <=> Done(2, Telegate)'
  <2>1. GateAt(v) \in Gates /\ HomeOf(GateAt(v).k) = HomeOf(GateAt(v).j)
    BY <1>0, <1>8, LocalGate
  <2>2. GateAt(v) # Telegate
    BY <1>2, <2>1
  <2>3. meant' = meant /\ position' = [position EXCEPT ![v] = @ + 1]
    BY <1>8 DEF RunLocal
  <2>4. ASSUME NEW u \in VirtualQpu PROVE Done(u, Telegate)' <=> Done(u, Telegate)
    <3>1. CASE u = v
      <4>1. position'[v] = position[v] + 1
        BY <1>0, <2>3 DEF QpusInCircuits
      <4>2. ASSUME NEW h PROVE Done(v, h)' <=> Done(v, h) \/ GateAt(v) = h
        BY <1>0, <1>3, <2>3, <4>1, DoneMore
      <4> QED BY <2>2, <3>1, <4>2 DEF Telegate, NamedGate
    <3>2. CASE u # v
      BY <1>0, <1>4, <2>3, <3>2 DEF QpusInCircuits
    <3> QED BY <3>1, <3>2
  <2> QED BY <1>2, <2>4 DEF EndTogether
<1>9. ASSUME NEW v \in VirtualQpu, Expose(v)
      PROVE  Done(1, Telegate)' <=> Done(2, Telegate)'
  BY <1>5, <1>9 DEF Expose
<1>10. ASSUME NEW v \in VirtualQpu, NEW w \in VirtualQpu, RunControlled(v, w)
       PROVE  Done(1, Telegate)' <=> Done(2, Telegate)'
  <2>1. /\ GateAt(v) \in Gates /\ GateAt(w) \in Gates /\ v # w
        /\ Circuits[v] = HomeOf(GateAt(v).j) /\ Circuits[w] = HomeOf(GateAt(v).k)
        /\ Circuits[v] = HomeOf(GateAt(w).j) /\ Circuits[w] = HomeOf(GateAt(w).k)
        /\ Circuits[v] # Circuits[w]
        /\ HasNext(v) /\ HasNext(w)
    BY <1>0, <1>10, MeetingGates
  <2>2. GateAt(v) = Telegate /\ GateAt(w) = Telegate
    BY <1>2, <2>1
  <2>3. v \in {1, 2} /\ w \in {1, 2}
    <3>1. v \in 1 .. Len(Circuits) /\ w \in 1 .. Len(Circuits)
      BY <1>0, <2>1, NextGate
    <3>2. Len(Circuits) = 2
      BY TelegateGates
    <3>3. \A u \in 1 .. 2 : u = 1 \/ u = 2
      OBVIOUS
    <3> QED BY <3>1, <3>2, <3>3
  <2>4. /\ meant' = meant
        /\ position' = [position EXCEPT ![v] = @ + 1, ![w] = @ + 1]
    BY <1>10 DEF RunControlled
  <2>5. position'[v] = position[v] + 1 /\ position'[w] = position[w] + 1
    BY <1>0, <2>1, <2>4 DEF QpusInCircuits
  <2>6. ASSUME NEW u \in {v, w} PROVE Done(u, Telegate)'
    <3>1. ASSUME NEW h PROVE Done(u, h)' <=> Done(u, h) \/ GateAt(u) = h
      BY <1>0, <1>3, <2>4, <2>5, DoneMore
    <3> QED BY <2>2, <3>1 DEF Telegate, NamedGate
  <2> QED BY <2>1, <2>3, <2>6
<1> QED BY <1>6, <1>7, <1>8, <1>9, <1>10 DEF ExamplesNext, ProgramStep, QpuStep

LEMMA WaitInvariant == ExamplesSpec => []WaitInv
<1>1. ExamplesInit => WaitInv
  <2> SUFFICES ASSUME ExamplesInit PROVE WaitInv
    OBVIOUS
  <2>1. outcome = "none" /\ position = [v \in VirtualQpu |-> 0]
    BY DEF ExamplesInit, Init
  <2>2. 1 \in VirtualQpu /\ 2 \in VirtualQpu
    BY SizesOfProgram DEF VirtualQpu
  <2>3. position[1] = 0 /\ position[2] = 0
    BY <2>1, <2>2
  <2>4. \A g : ~Done(1, g) /\ ~Done(2, g)
    BY <2>3 DEF Done
  <2> QED BY <2>1, <2>4 DEF WaitInv, SentAll, EndTogether
<1>2. ExamplesInv /\ ExecutionInv /\ WaitInv /\ [ExamplesNext]_exampleVars => WaitInv'
  BY NextSentAll, NextTogether DEF WaitInv
<1> QED BY <1>1, <1>2, ExamplesInvariant, ExecutionInvariant, PTL DEF ExamplesSpec

\* Where virtual QPU v is: its next gate is not done, and at the end all are.
LEMMA NextNotDone ==
  ASSUME ExamplesInv, MeantBuilt, RunBuilt, QpusInCircuits,
         NEW v \in VirtualQpu, HasNext(v)
  PROVE  ~Done(v, GateAt(v))
<1> DEFINE o == Circuits[v]
           gates == meant[o]
           n == position[v]
<1>1. o \in Object /\ n + 1 \in 1 .. Len(gates) /\ n \in Nat
  BY NextGate, Registers DEF QpusInCircuits
<1>2. /\ gates \in Seq(GateName)
      /\ Follows(gates, instructions[o], id, ProgramCalls, calls, o)
  BY <1>1 DEF MeantBuilt
<1>3. GateAt(v) = gates[n + 1] /\ (Done(v, GateAt(v)) <=> \E i \in 1 .. n : gates[i] = GateAt(v))
  BY DEF GateAt, Done
<1> HIDE DEF o, gates
<1>4. \A i, m \in 1 .. Len(gates) : i < m => Qft!Earlier(gates[i], gates[m])
  BY <1>2 DEF Follows
<1> HIDE DEF n
<1>5. ASSUME NEW i \in 1 .. n PROVE gates[i] # gates[n + 1]
  <2>1. i \in 1 .. Len(gates) /\ i < n + 1
    BY <1>1, <1>2
  <2>2. Qft!Earlier(gates[i], gates[n + 1])
    BY <1>1, <1>4, <2>1
  <2>3. gates[i] \in GateName
    BY <1>2, <2>1
  <2>4. ~Qft!Earlier(gates[i], gates[i])
    BY <2>3 DEF Qft!Earlier, GateName
  <2> QED BY <2>2, <2>4
<1> QED BY <1>3, <1>5

LEMMA EndedIsDone ==
  ASSUME ExamplesInv, MeantBuilt, RunBuilt, QpusInCircuits,
         NEW v \in 1 .. Len(sent), v \in VirtualQpu, ~HasNext(v), NEW g \in Gates,
         Circuits[v] = HomeOf(g.j) \/ Circuits[v] = HomeOf(g.k)
  PROVE  Done(v, g)
<1>1. /\ Len(sent[v].instructions) = Len(meant[Circuits[v]])
      /\ \E i \in 1 .. Len(meant[Circuits[v]]) : meant[Circuits[v]][i] = g
  BY Received
<1>2. Len(sent[v].instructions) \in Nat
  BY LengthsOfSent DEF ExamplesInv
<1>3. position[v] = Len(sent[v].instructions)
  <2>1. v <= Len(sent) /\ Len(sent) \in Nat
    BY DEF ExamplesInv, TransformInv, SentTransformed
  <2> QED BY <1>2, <2>1 DEF HasNext, QpusInCircuits
<1> QED BY <1>1, <1>3 DEF Done

\* An rcontrol and an offer that name each other meet.
LEMMA SidesCanMeet ==
  ASSUME ExamplesInv, MeantBuilt, RunBuilt, QpusInCircuits,
         NEW v \in VirtualQpu, NEW w \in VirtualQpu, HasNext(v), w \in exposed,
         Circuits[v] = HomeOf(GateAt(v).j), Circuits[w] = HomeOf(GateAt(v).k),
         Circuits[v] = HomeOf(GateAt(w).j), Circuits[v] # Circuits[w]
  PROVE  CanMeet(v, w)
<1> DEFINE g == GateAt(v)
           e == GateAt(w)
           t == NextOf(v)
           offer == NextOf(w)
<1>1. /\ Mapped /\ batch # << >> /\ v \in 1 .. Len(Circuits) /\ g \in Gates
      /\ LocalNext(t, g, v) \/ ExposeNext(t, g, v) \/ ControlledNext(t, g, v)
  BY NextGate
<1>2. HasNext(w) /\ offer.name = "expose"
  BY DEF QpusInCircuits
<1>3. /\ w \in 1 .. Len(Circuits) /\ e \in Gates
      /\ LocalNext(offer, e, w) \/ ExposeNext(offer, e, w) \/ ControlledNext(offer, e, w)
  BY <1>2, NextGate
<1>4. HomeOf(g.k) \in Participant /\ HomeOf(e.j) \in Participant
  BY <1>1, <1>3, GatePlaces DEF ExamplesInv, ProgramInv
<1> HIDE DEF t, offer
<1>5. t.name = "rcontrol" /\ t.qpus = <<Qpu(id[HomeOf(g.k)])>>
  BY <1>1 DEF LocalNext, ExposeNext, ControlledNext
<1>6. offer.qpus = <<Qpu(id[HomeOf(e.j)])>>
  BY <1>2, <1>3 DEF LocalNext, ExposeNext, ControlledNext, RemoteGateNames
<1>7. w = Qpu(id[HomeOf(g.k)])
  BY <1>1, <1>3, <1>4, QpuOfParticipant
<1>8. v = Qpu(id[HomeOf(e.j)])
  BY <1>1, <1>4, QpuOfParticipant
<1> QED BY <1>5, <1>6, <1>7, <1>8 DEF CanMeet, t, offer

\* Some virtual QPU can go on, or all have ended.
Goes ==
  \/ Executed
  \/ \E v \in VirtualQpu : CanRun(v) \/ CanExpose(v) \/ \E w \in VirtualQpu : CanMeet(v, w)

LEMMA AllSent ==
  ASSUME ExamplesInv, RunBuilt, SentAll, outcome = "complete"
  PROVE  Len(sent) = Len(Circuits) /\ Len(sent) \in Nat /\ 1 .. Len(sent) \subseteq VirtualQpu
<1> DEFINE all == Circuits
<1>1. batch = [i \in 1 .. Len(all) |-> Raw(all[i])] /\ Len(sent) = Len(batch)
  BY DEF SentAll, RunBuilt
<1>2. Len(all) \in Nat /\ Len(all) <= Qpus + 2
  BY CircuitsOnce DEF ExamplesInv, ProgramInv, MappingInv, MapTypeOK
<1> HIDE DEF all
<1>3. Len(sent) = Len(all)
  BY <1>1, <1>2
<1> QED BY <1>2, <1>3, SizesOfProgram DEF all, VirtualQpu

LEMMA TelegateGoes ==
  ASSUME ExamplesInv, ExecutionInv, WaitInv, outcome = "complete", program = "simple_telegate"
  PROVE  Goes
<1> SUFFICES ASSUME ~Goes PROVE FALSE
  OBVIOUS
<1>0. MeantBuilt /\ RunBuilt /\ QpusInCircuits /\ SentAll /\ EndTogether
  BY DEF ExecutionInv, WaitInv
<1>1. /\ HomeOf(0) = controlCircuit /\ HomeOf(1) = targetCircuit
      /\ controlCircuit # targetCircuit
      /\ Circuits[1] = controlCircuit /\ Circuits[2] = targetCircuit /\ Len(Circuits) = 2
      /\ 1 \in VirtualQpu /\ 2 \in VirtualQpu
      /\ Telegate \in Gates /\ Telegate.j = 1 /\ Telegate.k = 0
      /\ \A g \in Gates : HomeOf(g.j) # HomeOf(g.k) <=> g = Telegate
  BY TelegateGates
<1>2. Len(sent) = 2 /\ 1 \in 1 .. Len(sent) /\ 2 \in 1 .. Len(sent)
  <2>1. Len(sent) = Len(Circuits)
    BY <1>0, AllSent
  <2> QED BY <1>1, <2>1
<1>3. /\ ~Executed
      /\ \A v \in VirtualQpu : ~CanRun(v) /\ ~CanExpose(v)
      /\ \A v, w \in VirtualQpu : ~CanMeet(v, w)
  BY DEF Goes
<1>4. ASSUME NEW v \in {1, 2}, HasNext(v)
      PROVE  GateAt(v) = Telegate /\ (v = 1 => v \in exposed)
  <2>1. v \in VirtualQpu /\ ~CanRun(v) /\ ~CanExpose(v)
    BY <1>1, <1>3
  <2>2. /\ GateAt(v) \in Gates
        /\ \/ LocalNext(NextOf(v), GateAt(v), v)
           \/ ExposeNext(NextOf(v), GateAt(v), v)
           \/ ControlledNext(NextOf(v), GateAt(v), v)
    BY <1>0, <1>4, <2>1, NextGate
  <2>3. ~LocalNext(NextOf(v), GateAt(v), v)
    BY <1>4, <2>1 DEF LocalNext, CanRun
  <2>4. GateAt(v) = Telegate
    BY <1>1, <2>2, <2>3 DEF ExposeNext, ControlledNext
  <2>5. ASSUME v = 1 PROVE v \in exposed
    <3>1. Circuits[v] # HomeOf(GateAt(v).j)
      BY <1>1, <2>4, <2>5
    <3>2. NextOf(v).name = "expose"
      BY <2>2, <2>3, <3>1 DEF ExposeNext, ControlledNext
    <3> QED BY <1>4, <2>1, <3>2 DEF CanExpose
  <2> QED BY <2>4, <2>5
<1>5. \A v \in {1, 2} : HasNext(v) => ~Done(v, Telegate)
  BY <1>0, <1>1, <1>4, NextNotDone
<1>6. \A v \in {1, 2} : ~HasNext(v) => Done(v, Telegate)
  BY <1>0, <1>1, <1>2, EndedIsDone
<1>7. HasNext(1) <=> HasNext(2)
  BY <1>0, <1>5, <1>6 DEF EndTogether
<1>8. HasNext(1) /\ HasNext(2)
  <2>1. \A v \in 1 .. Len(sent) : v = 1 \/ v = 2
    BY <1>2
  <2>2. \E v \in 1 .. Len(sent) : HasNext(v)
    BY <1>3 DEF Executed
  <2> QED BY <1>7, <2>1, <2>2
<1>9. GateAt(1) = Telegate /\ GateAt(2) = Telegate /\ 1 \in exposed
  BY <1>4, <1>8
<1>10. CanMeet(2, 1)
  BY <1>0, <1>1, <1>8, <1>9, SidesCanMeet
<1> QED BY <1>1, <1>3, <1>10

\* A rank with an instruction left is at the one that DistributedQft says.
LEMMA RankIsAt ==
  ASSUME ExamplesInv, ExecutionInv, SentAll, outcome = "complete",
         program = "distributed_qft", NEW r \in Qft!Rank, NEW g, Qft!IsNext(r, g)
  PROVE  /\ r + 1 \in VirtualQpu /\ HasNext(r + 1) /\ GateAt(r + 1) = g
         /\ Circuits[r + 1] = r
         /\ g \in Gates
         /\ HomeOf(g.j) = Qft!Home(g.j) /\ HomeOf(g.k) = Qft!Home(g.k)
<1> DEFINE v == r + 1
<1>0. MeantBuilt /\ RunBuilt /\ QpusInCircuits
  BY DEF ExecutionInv
<1>1. v \in 1 .. Len(sent) /\ v \in VirtualQpu /\ v - 1 = r
  <2>1. Len(sent) = Qpus
    BY <1>0, AllSent, CircuitsOnce DEF ExamplesInv, ProgramInv, MappingInv, MapTypeOK
  <2> QED BY <2>1, SizesOfProgram DEF Qft!Rank, VirtualQpu
<1> HIDE DEF v
<1>2. /\ Circuits[v] = r
      /\ Qft!Circuit(r) = {meant[r][i] : i \in 1 .. Len(meant[r])}
      /\ RanGates[r] = {meant[r][i] : i \in 1 .. position[v]}
  BY <1>0, <1>1, CircuitOfRank
<1>3. g \in Qft!Circuit(r) \ RanGates[r] /\ Gates = Qft!Gate
  BY DEF Qft!IsNext, Gates
<1>4. g \in Gates
  BY <1>3 DEF Qft!Circuit
<1>5. Mapped
  BY <1>0, <1>1, Received
<1>6. HomeOf(g.j) = Qft!Home(g.j) /\ HomeOf(g.k) = Qft!Home(g.k)
  <2>1. g.j \in 0 .. TotalQubits - 1 /\ g.k \in 0 .. TotalQubits - 1
    BY <1>3, <1>4, QftGates
  <2> QED BY <1>5, <2>1, HomeIsRank DEF ExamplesInv, ProgramInv
<1>7. HasNext(v)
  <2> SUFFICES ASSUME ~HasNext(v) PROVE FALSE
    OBVIOUS
  <2>1. Circuits[v] = HomeOf(g.j) \/ Circuits[v] = HomeOf(g.k)
    BY <1>2, <1>3, <1>6 DEF Qft!Circuit
  <2>2. Done(v, g)
    BY <1>0, <1>1, <1>4, <2>1, EndedIsDone
  <2>3. g \in RanGates[r]
    BY <1>2, <2>2 DEF Done
  <2> QED BY <1>3, <2>3
<1>8. Qft!IsNext(r, GateAt(v)) /\ GateAt(v) \in Qft!Gate
  BY <1>0, <1>1, <1>7, NextOfRank
<1>9. GateAt(v) = g
  <2> DEFINE h == GateAt(v)
  <2> HIDE DEF h
  <2>1. h \in Qft!Circuit(r) \ RanGates[r]
    BY <1>8 DEF Qft!IsNext, h
  <2>2. h = g \/ (Qft!Earlier(g, h) /\ Qft!Earlier(h, g))
    BY <1>3, <1>8, <2>1 DEF Qft!IsNext, Qft!Order, h
  <2>3. g \in GateName /\ h \in GateName
    BY <1>0, <1>3, <1>4, <1>5, <1>8, GatePlaces DEF ExamplesInv, ProgramInv, h
  <2>4. ~ (Qft!Earlier(g, h) /\ Qft!Earlier(h, g))
    BY <2>3 DEF Qft!Earlier, GateName
  <2> QED BY <2>2, <2>4 DEF h
<1> QED BY <1>1, <1>2, <1>4, <1>6, <1>7, <1>9 DEF v

LEMMA QftGoes ==
  ASSUME ExamplesInv, ExecutionInv, WaitInv, outcome = "complete",
         program = "distributed_qft", Qft!NoCircularWait
  PROVE  Goes
<1>0. MeantBuilt /\ RunBuilt /\ QpusInCircuits /\ SentAll
  BY DEF ExecutionInv, WaitInv
<1>1. CASE Qft!Finished
  <2>1. ASSUME NEW v \in 1 .. Len(sent) PROVE ~HasNext(v)
    <3> SUFFICES ASSUME HasNext(v) PROVE FALSE
      OBVIOUS
    <3>1. v \in VirtualQpu
      BY <1>0, AllSent
    <3>2. v - 1 \in Qft!Rank /\ Qft!IsNext(v - 1, GateAt(v))
      BY <1>0, <3>1, NextOfRank
    <3> QED BY <1>1, <3>2 DEF Qft!Finished, Qft!IsNext
  <2> QED BY <2>1 DEF Goes, Executed
<1>2. ASSUME NEW r \in Qft!Rank, NEW g \in Qft!Gate, Qft!CanRun(r, g) PROVE Goes
  <2>1. Qft!IsNext(r, g) /\ Qft!Home(g.j) = Qft!Home(g.k)
    BY <1>2 DEF Qft!CanRun, Qft!IsRemote
  <2> DEFINE v == r + 1
  <2>2. /\ v \in VirtualQpu /\ HasNext(v) /\ GateAt(v) = g
        /\ HomeOf(g.j) = HomeOf(g.k)
    BY <1>0, <2>1, RankIsAt
  <2>3. \/ LocalNext(NextOf(v), g, v) \/ ExposeNext(NextOf(v), g, v)
        \/ ControlledNext(NextOf(v), g, v)
    BY <1>0, <2>2, NextGate
  <2> HIDE DEF v
  <2>4. CanRun(v)
    BY <2>2, <2>3 DEF LocalNext, ExposeNext, ControlledNext, CanRun
  <2> QED BY <2>2, <2>4 DEF Goes
<1>3. ASSUME NEW r \in Qft!Rank, NEW g \in Qft!Gate, Qft!CanExpose(r, g) PROVE Goes
  <2>1. /\ Qft!IsNext(r, g) /\ Qft!Home(g.j) # Qft!Home(g.k) /\ Qft!Home(g.k) = r
        /\ r \notin ExposedRanks
    BY <1>3 DEF Qft!CanExpose, Qft!IsRemote
  <2> DEFINE v == r + 1
  <2>2. /\ v \in VirtualQpu /\ HasNext(v) /\ GateAt(v) = g
        /\ HomeOf(g.j) # HomeOf(g.k) /\ HomeOf(g.j) # r /\ Circuits[v] = r
    BY <1>0, <2>1, RankIsAt
  <2>3. \/ LocalNext(NextOf(v), g, v) \/ ExposeNext(NextOf(v), g, v)
        \/ ControlledNext(NextOf(v), g, v)
    BY <1>0, <2>2, NextGate
  <2>4. v \notin exposed
    BY <2>1, SizesOfProgram DEF ExposedRanks, Qft!Rank
  <2> HIDE DEF v
  <2>5. CanExpose(v)
    BY <2>2, <2>3, <2>4 DEF LocalNext, ExposeNext, ControlledNext, CanExpose
  <2> QED BY <2>2, <2>5 DEF Goes
<1>4. ASSUME NEW r \in Qft!Rank, NEW g \in Qft!Gate, NEW e \in Qft!Gate,
             Qft!CanControl(r, g, e)
      PROVE  Goes
  <2> DEFINE p == Qft!Home(g.k)
  <2>1. /\ Qft!IsNext(r, g) /\ Qft!Home(g.j) = r /\ r # p
        /\ p \in ExposedRanks
        /\ Qft!IsNext(p, e) /\ Qft!Home(e.j) = r
    BY <1>4 DEF Qft!CanControl, Qft!IsRemote
  <2>2. PICK w \in exposed : p = w - 1
    BY <2>1 DEF ExposedRanks
  <2> DEFINE v == r + 1
  <2>3. /\ v \in VirtualQpu /\ HasNext(v) /\ GateAt(v) = g /\ Circuits[v] = r
        /\ HomeOf(g.j) = r /\ HomeOf(g.k) = p
    BY <1>0, <2>1, RankIsAt
  <2>4. w \in VirtualQpu /\ HasNext(w)
    BY <1>0, <2>2 DEF QpusInCircuits
  <2>5. p \in Qft!Rank /\ Circuits[w] = p
    BY <1>0, <2>2, <2>4, NextOfRank
  <2>6. GateAt(w) = e
    <3>1. p + 1 = w
      BY <2>2, <2>4, SizesOfProgram DEF VirtualQpu
    <3> HIDE DEF p
    <3>2. GateAt(p + 1) = e
      BY <1>0, <2>1, <2>5, RankIsAt
    <3> QED BY <3>1, <3>2
  <2>7. HomeOf(e.j) = r /\ Circuits[v] # Circuits[w]
    <3> HIDE DEF p
    <3>1. HomeOf(e.j) = Qft!Home(e.j)
      BY <1>0, <2>1, <2>5, RankIsAt
    <3> QED BY <2>1, <2>3, <2>5, <3>1
  <2> HIDE DEF v, p
  <2>8. CanMeet(v, w)
    BY <1>0, <2>3, <2>4, <2>5, <2>6, <2>7, SidesCanMeet
  <2> QED BY <2>3, <2>4, <2>8 DEF Goes
<1> QED BY <1>1, <1>2, <1>3, <1>4 DEF Qft!NoCircularWait

(***************************************************************************)
(* For all numbers of qubits and ranks that parse_cli accepts: once run    *)
(* has sent all circuits of distributed_qft or simple_telegate, one of the *)
(* virtual QPUs can go on until all have ended.  No offer is awaited that  *)
(* no circuit makes, and none stands that nobody meets.                    *)
(***************************************************************************)
THEOREM OneGoesOnHolds == ExamplesSpec => []OneGoesOn
<1>1. QftProofs!NoCircularWait => Qft!NoCircularWait
  <2>1. QftProofs!Finished => Qft!Finished
    BY SameGuards DEF Qft!Finished, QftProofs!Finished
  <2> QED BY <2>1, SameGuards, Zenon DEF Qft!NoCircularWait, QftProofs!NoCircularWait
<1>2. QftProofs!Spec => []QftProofs!NoCircularWait
  BY QftSizes, QftProofs!NoCircularWaitHolds
<1>3. ExamplesInv /\ ExecutionInv /\ WaitInv /\ Qft!NoCircularWait => OneGoesOn
  <2> SUFFICES ASSUME ExamplesInv, ExecutionInv, WaitInv, Qft!NoCircularWait,
                      outcome = "complete"
               PROVE  Goes
    BY DEF OneGoesOn, Goes
  <2>1. program \in {"distributed_qft", "simple_telegate"}
    BY DEF ExamplesInv, ProgramInv
  <2> QED BY <2>1, TelegateGoes, QftGoes
<1> QED BY <1>1, <1>2, <1>3, ExamplesInvariant, ExecutionInvariant, WaitInvariant,
           SpecOfPrograms, PTL

=============================================================================
