--------------------------- MODULE DistributedQft ---------------------------
(***************************************************************************)
(* The circuits that build_distributed_qft_circuits of distributed_qft.cpp *)
(* makes, one per rank, and their execution by the virtual QPUs that       *)
(* CunqaApi::run sends them to.                                            *)
(*                                                                         *)
(* An instruction is named by the iteration that adds it: loop 0 (x),      *)
(* loop 1 (the rotation of qubit j by qubit k, or h on j when k = j) or    *)
(* loop 2 (measure).  Each circuit has its instructions in the order of    *)
(* the iterations, as addInstruction only appends.  A rotation between     *)
(* qubits of two ranks is an expose in the circuit of k and a controlled   *)
(* gate in that of j, which the transformation makes an rcontrol.          *)
(*                                                                         *)
(* What the two do is CUNQA's: an expose offers its qubit to the other     *)
(* virtual QPU and waits; an rcontrol waits for an offer of the virtual    *)
(* QPU that it names, whichever qubit that is, and ends it.                *)
(***************************************************************************)
EXTENDS QubitLayout

CONSTANTS
  Qubits,  \* total_qubits
  Qpus     \* qpus

ASSUME SizeAssumption == Qubits \in Nat \ {0} /\ Qpus \in 1 .. Qubits

Rank == 0 .. Qpus - 1
Qubit == 0 .. Qubits - 1

\* qubit_map[q].rank
Home(q) == RankOf(Qubits, Qpus, q)

---------------------------------------------------------------------------
(* The circuits *)

Instruction ==
  [loop : {0}, j : {q \in Qubit : q % 2 = 1}, k : Qubit] \cup
  [loop : {1, 2}, j : Qubit, k : Qubit]

Gate ==
  {g \in Instruction : IF g.loop = 1 THEN g.k <= g.j ELSE g.k = g.j}

\* The order of the iterations.
Earlier(g, h) ==
  \/ g.loop < h.loop
  \/ g.loop = h.loop /\ g.j < h.j
  \/ g.loop = h.loop /\ g.j = h.j /\ g.k < h.k

\* Faulty variant: the circuit of the target takes its controls from above.
ControlsFromAbove(r, g, h) ==
  IF Home(g.j) = r /\ g.loop = 1 /\ h.loop = 1 /\ g.j = h.j /\ g.k # g.j /\ h.k # h.j
  THEN g.k > h.k
  ELSE Earlier(g, h)

\* Faulty variant: h comes before the rotations of its qubit.
HadamardFirst(r, g, h) ==
  IF g.loop = 1 /\ h.loop = 1 /\ g.j = h.j
  THEN h.k # h.j /\ (g.k = g.j \/ g.k < h.k)
  ELSE Earlier(g, h)

\* The order of two instructions of the circuit of r.
Order(r, g, h) == Earlier(g, h)

\* Faulty variant: the circuit of the control has no expose.
NoExposes(r) == {g \in Gate : Home(g.j) = r}

Circuit(r) == {g \in Gate : Home(g.j) = r \/ Home(g.k) = r}

IsRemote(g) == Home(g.j) # Home(g.k)

---------------------------------------------------------------------------
(* Their execution *)

VARIABLES
  ran,      \* the instructions that the virtual QPU of each rank has finished
  exposed,  \* the ranks whose virtual QPU waits in an expose
  applied   \* history: the gates applied, each with the qubit that controlled it

vars == <<ran, exposed, applied>>

IsNext(r, g) ==
  /\ g \in Circuit(r) \ ran[r]
  /\ \A h \in Circuit(r) \ ran[r] : h = g \/ Order(r, g, h)

CanRun(r, g) == IsNext(r, g) /\ ~IsRemote(g)

CanExpose(r, g) ==
  IsNext(r, g) /\ IsRemote(g) /\ Home(g.k) = r /\ r \notin exposed

\* The rcontrol g of rank r meets the expose e of the rank that it names.
CanControl(r, g, e) ==
  /\ IsNext(r, g) /\ IsRemote(g) /\ Home(g.j) = r
  /\ Home(g.k) \in exposed
  /\ IsNext(Home(g.k), e) /\ Home(e.j) = r

Local(r) == \E g \in Gate :
  /\ CanRun(r, g)
  /\ ran' = [ran EXCEPT ![r] = @ \cup {g}]
  /\ applied' = applied \cup {<<g, g.k>>}
  /\ UNCHANGED exposed

Expose(r) == \E g \in Gate :
  /\ CanExpose(r, g)
  /\ exposed' = exposed \cup {r}
  /\ UNCHANGED <<ran, applied>>

Control(r) == \E g, e \in Gate :
  /\ CanControl(r, g, e)
  /\ ran' = [ran EXCEPT ![r] = @ \cup {g}, ![Home(g.k)] = @ \cup {e}]
  /\ exposed' = exposed \ {Home(g.k)}
  /\ applied' = applied \cup {<<g, e.k>>}

Finished == \A r \in Rank : ran[r] = Circuit(r)

Init ==
  /\ ran = [r \in Rank |-> {}]
  /\ exposed = {}
  /\ applied = {}

Next == \E r \in Rank : Local(r) \/ Expose(r) \/ Control(r)

Spec == Init /\ [][Next]_vars

---------------------------------------------------------------------------
(* Properties *)

TypeOK ==
  /\ ran \in [Rank -> SUBSET Gate]
  /\ exposed \subseteq Rank
  /\ applied \subseteq Gate \X Qubit

(***************************************************************************)
(* The virtual QPUs never wait for each other in a circle: until all of    *)
(* them have finished, one can go on.                                      *)
(***************************************************************************)
NoCircularWait ==
  \/ Finished
  \/ \E r \in Rank, g \in Gate :
       CanRun(r, g) \/ CanExpose(r, g) \/ \E e \in Gate : CanControl(r, g, e)

(***************************************************************************)
(* An rcontrol names a virtual QPU, not a qubit: every rotation all the    *)
(* same is applied with the control qubit that it was computed for.        *)
(***************************************************************************)
RightControl == \A x \in applied : x[2] = x[1].k

IsRotation(g) == g.loop = 1 /\ g.k # g.j
IsHadamard(g) == g.loop = 1 /\ g.k = g.j

(***************************************************************************)
(* The gates on one qubit that do not commute (distributed_qft.cpp:194 and *)
(* 209): x first; then the rotations of j by lower qubits; then h on j;    *)
(* then the rotations that j controls; and measure last.                   *)
(***************************************************************************)
MustPrecede(g, h) ==
  \/ g.loop < h.loop /\ {g.j, g.k} \cap {h.j, h.k} # {}
  \/ IsRotation(g) /\ IsHadamard(h) /\ g.j = h.j
  \/ IsHadamard(g) /\ IsRotation(h) /\ g.j = h.k

WasApplied(g) == \E c \in Qubit : <<g, c>> \in applied

(***************************************************************************)
(* However the virtual QPUs are interleaved, the gates that they apply are *)
(* those of the serial QFT in an order that computes the same.             *)
(***************************************************************************)
QftOrder ==
  \A g, h \in Gate : MustPrecede(g, h) /\ WasApplied(h) => WasApplied(g)

(***************************************************************************)
(* The inductive invariant, in named parts.                                *)
(***************************************************************************)

\* Each virtual QPU has run a first part of its own circuit.
RanFirst ==
  \A r \in Rank :
    /\ ran[r] \subseteq Circuit(r)
    /\ \A g \in ran[r], h \in Circuit(r) : Earlier(h, g) => h \in ran[r]

\* The two sides of a remote gate end together.
SidesAgree == \A g \in Gate : g \in ran[Home(g.j)] <=> g \in ran[Home(g.k)]

AppliedRan == \A x \in applied : x[1] \in ran[Home(x[1].j)]

RanApplied == \A g \in Gate : g \in ran[Home(g.j)] => <<g, g.k>> \in applied

QftInv ==
  /\ TypeOK
  /\ RanFirst
  /\ SidesAgree
  /\ AppliedRan
  /\ RanApplied
  /\ RightControl

=============================================================================
