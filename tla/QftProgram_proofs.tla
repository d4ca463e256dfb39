------------------------- MODULE QftProgram_proofs -------------------------
(***************************************************************************)
(* Theorems about distributed_qft.cpp, for every number of qubits and      *)
(* ranks: the circuits never wait for each other in a circle, and apply    *)
(* the gates of the serial QFT in an order that computes the same.         *)
(***************************************************************************)
EXTENDS QftProgram, QubitMapping_proofs

---------------------------------------------------------------------------
(* The gates and their order *)

LEMMA HomeInRank == \A q \in Qubit : Home(q) \in Rank
<1>1. Admitted(Qubits, Qpus)
  BY SizeAssumption DEF Admitted
<1> QED
  BY <1>1, QubitHasPlace DEF Home, Qubit, Rank

LEMMA GateFields ==
  ASSUME NEW g \in Gate
  PROVE  /\ g.loop \in Nat /\ g.j \in Qubit /\ g.k \in Qubit
         /\ g.j \in Nat /\ g.k \in Nat
         /\ g = [loop |-> g.loop, j |-> g.j, k |-> g.k]
         /\ g.loop # 1 => g.k = g.j
         /\ g.loop = 1 => g.k <= g.j
BY SizeAssumption DEF Gate, Instruction, Qubit

\* Two different gates are ordered one way, and only one.
LEMMA EarlierTotal ==
  ASSUME NEW g \in Gate, NEW h \in Gate
  PROVE  /\ g = h \/ Earlier(g, h) \/ Earlier(h, g)
         /\ ~ (Earlier(g, h) /\ Earlier(h, g))
         /\ ~ Earlier(g, g)
<1>1. /\ g.loop \in Nat /\ g.j \in Nat /\ g.k \in Nat
      /\ h.loop \in Nat /\ h.j \in Nat /\ h.k \in Nat
      /\ g = [loop |-> g.loop, j |-> g.j, k |-> g.k]
      /\ h = [loop |-> h.loop, j |-> h.j, k |-> h.k]
  BY GateFields
<1>2. g.loop = h.loop /\ g.j = h.j /\ g.k = h.k => g = h
  BY <1>1
<1> QED
  BY <1>1, <1>2 DEF Earlier

\* Among some gates one comes first.
LEMMA EarliestGate ==
  ASSUME NEW S \in SUBSET Gate, S # {}
  PROVE  \E g \in S : \A h \in S : h = g \/ Earlier(g, h)
<1> DEFINE Loops == {g.loop : g \in S}
<1>0. \A g \in S : g.loop \in Nat /\ g.j \in Nat /\ g.k \in Nat
  BY GateFields
<1>1. PICK a \in Loops : \A x \in Loops : a <= x
  <2>1. Loops \in SUBSET Nat /\ Loops # {}
    BY <1>0
  <2> HIDE DEF Loops
  <2> QED
    BY <2>1, LeastNatural
<1> DEFINE InLoop == {g \in S : g.loop = a}
           Targets == {g.j : g \in InLoop}
<1>2. PICK b \in Targets : \A x \in Targets : b <= x
  <2>1. Targets \in SUBSET Nat /\ Targets # {}
    BY <1>0, <1>1
  <2> HIDE DEF Targets
  <2> QED
    BY <2>1, LeastNatural
<1> DEFINE OfTarget == {g \in InLoop : g.j = b}
           Controls == {g.k : g \in OfTarget}
<1>3. PICK c \in Controls : \A x \in Controls : c <= x
  <2>1. Controls \in SUBSET Nat /\ Controls # {}
    BY <1>0, <1>2
  <2> HIDE DEF Controls
  <2> QED
    BY <2>1, LeastNatural
<1>4. PICK g \in OfTarget : g.k = c
  BY <1>3
<1>5. g \in S /\ g.loop = a /\ g.j = b /\ g.k = c
  BY <1>4
<1>6. ASSUME NEW h \in S
      PROVE  ~ Earlier(h, g)
  <2>1. a <= h.loop
    BY <1>1
  <2>2. h.loop = a => b <= h.j
    BY <1>2
  <2>3. h.loop = a /\ h.j = b => c <= h.k
    BY <1>3
  <2> QED
    BY <1>0, <1>5, <2>1, <2>2, <2>3 DEF Earlier
<1> QED
  BY <1>5, <1>6, EarlierTotal

\* What must come first does so in the order of the iterations.
LEMMA MustPrecedeIsEarlier ==
  ASSUME NEW g \in Gate, NEW h \in Gate, MustPrecede(g, h)
  PROVE  /\ Earlier(g, h)
         /\ {g.j, g.k} \cap {h.j, h.k} # {}
<1>1. /\ g.loop \in Nat /\ g.j \in Nat /\ g.k \in Nat
      /\ h.loop \in Nat /\ h.j \in Nat /\ h.k \in Nat
      /\ g.loop = 1 => g.k <= g.j
      /\ h.loop = 1 => h.k <= h.j
  BY GateFields
<1>2. CASE g.loop < h.loop /\ {g.j, g.k} \cap {h.j, h.k} # {}
  BY <1>2 DEF Earlier
<1>3. CASE IsRotation(g) /\ IsHadamard(h) /\ g.j = h.j
  BY <1>1, <1>3 DEF Earlier, IsRotation, IsHadamard
<1>4. CASE IsHadamard(g) /\ IsRotation(h) /\ g.j = h.k
  BY <1>1, <1>4 DEF Earlier, IsRotation, IsHadamard
<1> QED
  BY <1>2, <1>3, <1>4 DEF MustPrecede

---------------------------------------------------------------------------
(* The inductive invariant *)

\* The next instruction of a rank is one that no rank has finished.
LEMMA NextIsOpen ==
  ASSUME QftInv, NEW r \in Rank, NEW g \in Gate, IsNext(r, g)
  PROVE  /\ g \notin ran[Home(g.j)]
         /\ g \notin ran[Home(g.k)]
         /\ Home(g.j) = r \/ Home(g.k) = r
BY DEF QftInv, SidesAgree, IsNext, Circuit

\* The rcontrol and the expose that meet are the two sides of one rotation.
LEMMA SidesMeet ==
  ASSUME QftInv, NEW r \in Rank, NEW g \in Gate, NEW e \in Gate, CanControl(r, g, e)
  PROVE  e = g
<1>1. IsNext(r, g) /\ IsNext(Home(g.k), e) /\ Home(g.j) = r /\ Home(e.j) = r
  BY DEF CanControl
<1>2. Home(g.k) \in Rank
  BY HomeInRank, GateFields
<1>3. /\ g \notin ran[Home(g.j)] /\ g \notin ran[Home(g.k)]
      /\ e \notin ran[Home(e.j)]
  BY <1>1, <1>2, NextIsOpen
<1>4. e \in Circuit(r) \ ran[r] /\ g \in Circuit(Home(g.k)) \ ran[Home(g.k)]
  BY <1>1, <1>3 DEF Circuit
<1>5. e = g \/ (Earlier(g, e) /\ Earlier(e, g))
  BY <1>1, <1>4 DEF IsNext, Order
<1> QED
  BY <1>5, EarlierTotal

(***************************************************************************)
(* To finish its next instruction leaves a rank with a first part of its   *)
(* circuit.                                                                *)
(***************************************************************************)
LEMMA FinishNext ==
  ASSUME QftInv, NEW r \in Rank, NEW g \in Gate, IsNext(r, g)
  PROVE  /\ ran[r] \cup {g} \subseteq Circuit(r)
         /\ \A x \in ran[r] \cup {g}, h \in Circuit(r) :
              Earlier(h, x) => h \in ran[r] \cup {g}
<1>1. ran[r] \subseteq Circuit(r) /\ g \in Circuit(r)
  BY DEF QftInv, RanFirst, IsNext
<1>2. ASSUME NEW x \in ran[r] \cup {g}, NEW h \in Circuit(r), Earlier(h, x)
      PROVE  h \in ran[r] \cup {g}
  <2>1. CASE x \in ran[r]
    BY <1>2, <2>1 DEF QftInv, RanFirst
  <2>2. CASE x = g
    <3>1. h \in Gate
      BY <1>2 DEF Circuit
    <3>2. h \in ran[r] \/ h = g \/ Earlier(g, h)
      BY <1>2 DEF IsNext, Order
    <3> QED
      BY <1>2, <2>2, <3>1, <3>2, EarlierTotal
  <2> QED
    BY <2>1, <2>2
<1> QED
  BY <1>1, <1>2

LEMMA InitQft == Init => QftInv
BY HomeInRank, GateFields
DEF Init, QftInv, TypeOK, RanFirst, SidesAgree, AppliedRan, RanApplied, RightControl

\* The finished sets after a step in which the ranks of g finish g.
LEMMA GateStep ==
  ASSUME QftInv, NEW g \in Gate,
         IsNext(Home(g.j), g), IsNext(Home(g.k), g),
         ran' \in [Rank -> SUBSET Gate],
         \A r \in Rank : ran'[r] = IF r = Home(g.j) \/ r = Home(g.k)
                                   THEN ran[r] \cup {g} ELSE ran[r],
         exposed' \subseteq Rank,
         applied' = applied \cup {<<g, g.k>>}
  PROVE  QftInv'
<1>1. /\ Home(g.j) \in Rank /\ Home(g.k) \in Rank /\ g.k \in Qubit
  BY HomeInRank, GateFields
<1>2. TypeOK'
  BY <1>1 DEF QftInv, TypeOK
<1>3. RanFirst'
  <2> SUFFICES ASSUME NEW r \in Rank
               PROVE  /\ ran'[r] \subseteq Circuit(r)
                      /\ \A x \in ran'[r], h \in Circuit(r) : Earlier(h, x) => h \in ran'[r]
    BY DEF RanFirst
  <2>1. CASE r = Home(g.j) \/ r = Home(g.k)
    BY <1>1, <2>1, FinishNext
  <2>2. CASE ~ (r = Home(g.j) \/ r = Home(g.k))
    BY <2>2 DEF QftInv, RanFirst
  <2> QED
    BY <2>1, <2>2
<1>4. \A h \in Gate : Home(h.j) \in Rank /\ Home(h.k) \in Rank
  BY HomeInRank, GateFields
<1>5. \A h \in Gate : h # g =>
        /\ h \in ran'[Home(h.j)] <=> h \in ran[Home(h.j)]
        /\ h \in ran'[Home(h.k)] <=> h \in ran[Home(h.k)]
  BY <1>4
<1>6. g \in ran'[Home(g.j)] /\ g \in ran'[Home(g.k)]
  BY <1>1
<1>7. SidesAgree'
  BY <1>5, <1>6 DEF QftInv, SidesAgree
<1>8. AppliedRan'
  <2> SUFFICES ASSUME NEW x \in applied' PROVE x[1] \in ran'[Home(x[1].j)]
    BY DEF AppliedRan
  <2>1. CASE x = <<g, g.k>>
    BY <1>6, <2>1
  <2>2. CASE x \in applied
    <3>1. x[1] \in Gate /\ x[1] \in ran[Home(x[1].j)]
      BY <2>2 DEF QftInv, TypeOK, AppliedRan
    <3> QED
      BY <1>5, <1>6, <3>1
  <2> QED
    BY <2>1, <2>2
<1>9. RanApplied'
  BY <1>5 DEF QftInv, RanApplied
<1>10. RightControl'
  BY DEF QftInv, RightControl
<1> QED
  BY <1>2, <1>3, <1>7, <1>8, <1>9, <1>10 DEF QftInv

LEMMA NextQft == QftInv /\ [Next]_vars => QftInv'
<1> SUFFICES ASSUME QftInv, [Next]_vars PROVE QftInv'
  OBVIOUS
<1>0. ran \in [Rank -> SUBSET Gate] /\ exposed \subseteq Rank
  BY DEF QftInv, TypeOK
<1>1. ASSUME NEW r \in Rank, Local(r) PROVE QftInv'
  <2>1. PICK g \in Gate :
          /\ CanRun(r, g)
          /\ ran' = [ran EXCEPT ![r] = @ \cup {g}]
          /\ applied' = applied \cup {<<g, g.k>>}
          /\ exposed' = exposed
    BY <1>1 DEF Local
  <2>2. IsNext(r, g) /\ Home(g.j) = r /\ Home(g.k) = r
    BY <2>1, NextIsOpen DEF CanRun, IsRemote
  <2>3. ran' \in [Rank -> SUBSET Gate]
    BY <1>0, <2>1
  <2>4. \A p \in Rank : ran'[p] = IF p = Home(g.j) \/ p = Home(g.k)
                                  THEN ran[p] \cup {g} ELSE ran[p]
    BY <1>0, <2>1, <2>2
  <2>5. exposed' \subseteq Rank
    BY <1>0, <2>1
  <2> QED
    BY <2>1, <2>2, <2>3, <2>4, <2>5, GateStep
<1>2. ASSUME NEW r \in Rank, Expose(r) PROVE QftInv'
  <2>1. ran' = ran /\ applied' = applied /\ exposed' = exposed \cup {r}
    BY <1>2 DEF Expose
  <2> QED
    BY <1>0, <2>1
    DEF QftInv, TypeOK, RanFirst, SidesAgree, AppliedRan, RanApplied, RightControl
<1>3. ASSUME NEW r \in Rank, Control(r) PROVE QftInv'
  <2>1. PICK g \in Gate, e \in Gate :
          /\ CanControl(r, g, e)
          /\ ran' = [ran EXCEPT ![r] = @ \cup {g}, ![Home(g.k)] = @ \cup {e}]
          /\ exposed' = exposed \ {Home(g.k)}
          /\ applied' = applied \cup {<<g, e.k>>}
    BY <1>3 DEF Control
  <2>2. e = g
    BY <2>1, SidesMeet
  <2>3. IsNext(Home(g.j), g) /\ IsNext(Home(g.k), g) /\ Home(g.j) = r
    BY <2>1, <2>2 DEF CanControl
  <2>4. Home(g.k) \in Rank /\ Home(g.k) # r
    BY <2>1, <2>3, HomeInRank, GateFields DEF CanControl, IsRemote
  <2>5. ran' \in [Rank -> SUBSET Gate]
    BY <1>0, <2>1
  <2>6. \A p \in Rank : ran'[p] = IF p = Home(g.j) \/ p = Home(g.k)
                                  THEN ran[p] \cup {g} ELSE ran[p]
    BY <1>0, <2>1, <2>2, <2>3, <2>4
  <2>7. exposed' \subseteq Rank
    BY <1>0, <2>1
  <2> QED
    BY <2>1, <2>2, <2>3, <2>5, <2>6, <2>7, GateStep
<1>4. CASE UNCHANGED vars
  BY <1>4
  DEF vars, QftInv, TypeOK, RanFirst, SidesAgree, AppliedRan, RanApplied, RightControl
<1> QED
  BY <1>1, <1>2, <1>3, <1>4 DEF Next

LEMMA QftInvariant == Spec => []QftInv
BY InitQft, NextQft, PTL DEF Spec

---------------------------------------------------------------------------
(* The theorems *)

(***************************************************************************)
(* No circle of waits: the earliest gate that is not finished is the next  *)
(* of all of its ranks, so one of them can go on.                          *)
(***************************************************************************)
THEOREM NoCircularWaitHolds == Spec => []NoCircularWait
<1>1. QftInv => NoCircularWait
  <2> SUFFICES ASSUME QftInv, ~ Finished
               PROVE  \E r \in Rank, g \in Gate :
                        \/ CanRun(r, g) \/ CanExpose(r, g)
                        \/ \E e \in Gate : CanControl(r, g, e)
    BY DEF NoCircularWait
  <2> DEFINE Open == {g \in Gate : g \notin ran[Home(g.j)]}
  <2>1. \A g \in Gate : Home(g.j) \in Rank /\ Home(g.k) \in Rank
    BY HomeInRank, GateFields
  <2>2. ASSUME NEW r \in Rank, NEW g \in Circuit(r) \ ran[r]
        PROVE  g \in Open
    BY <2>2 DEF QftInv, SidesAgree, Circuit
  <2>3. Open # {}
    <3>1. PICK r \in Rank : ran[r] # Circuit(r)
      BY DEF Finished
    <3>2. ran[r] \subseteq Circuit(r)
      BY <3>1 DEF QftInv, RanFirst
    <3>3. PICK g \in Circuit(r) : g \notin ran[r]
      BY <3>1, <3>2
    <3> QED
      BY <2>2, <3>3
  <2>4. PICK g \in Open : \A h \in Open : h = g \/ Earlier(g, h)
    <3>1. Open \in SUBSET Gate
      OBVIOUS
    <3> HIDE DEF Open
    <3> QED
      BY <2>3, <3>1, EarliestGate
  <2>5. g \in Gate /\ g \notin ran[Home(g.j)] /\ g \notin ran[Home(g.k)]
    BY <2>4 DEF QftInv, SidesAgree
  <2>6. ASSUME NEW r \in Rank, Home(g.j) = r \/ Home(g.k) = r
        PROVE  IsNext(r, g)
    <3>1. g \in Circuit(r) \ ran[r]
      BY <2>5, <2>6 DEF Circuit
    <3>2. \A h \in Circuit(r) \ ran[r] : h = g \/ Earlier(g, h)
      BY <2>2, <2>4
    <3> QED
      BY <3>1, <3>2 DEF IsNext, Order
  <2>7. IsNext(Home(g.j), g) /\ IsNext(Home(g.k), g)
    BY <2>1, <2>5, <2>6
  <2>8. CASE ~ IsRemote(g)
    <3>1. CanRun(Home(g.j), g)
      BY <2>7, <2>8 DEF CanRun
    <3> QED
      BY <2>1, <2>5, <3>1
  <2>9. CASE IsRemote(g) /\ Home(g.k) \notin exposed
    <3>1. CanExpose(Home(g.k), g)
      BY <2>7, <2>9 DEF CanExpose
    <3> QED
      BY <2>1, <2>5, <3>1
  <2>10. CASE IsRemote(g) /\ Home(g.k) \in exposed
    <3>1. CanControl(Home(g.j), g, g)
      BY <2>7, <2>10 DEF CanControl
    <3> QED
      BY <2>1, <2>5, <3>1
  <2> QED
    BY <2>8, <2>9, <2>10
<1> QED
  BY <1>1, QftInvariant, PTL

(***************************************************************************)
(* Every rotation is applied with its own control qubit, although an       *)
(* rcontrol only names the virtual QPU that has it.                        *)
(***************************************************************************)
THEOREM RightControlHolds == Spec => []RightControl
<1>1. QftInv => RightControl
  BY DEF QftInv
<1> QED
  BY <1>1, QftInvariant, PTL

(***************************************************************************)
(* Gates that do not commute are applied in their order in the serial QFT: *)
(* they share a qubit, whose rank runs both, in the order of its circuit.  *)
(***************************************************************************)
THEOREM QftOrderHolds == Spec => []QftOrder
<1>1. QftInv => QftOrder
  <2> SUFFICES ASSUME QftInv, NEW g \in Gate, NEW h \in Gate,
                      MustPrecede(g, h), WasApplied(h)
               PROVE  WasApplied(g)
    BY DEF QftOrder
  <2>1. Earlier(g, h) /\ {g.j, g.k} \cap {h.j, h.k} # {}
    BY MustPrecedeIsEarlier
  <2>2. PICK c \in Qubit : <<h, c>> \in applied
    BY DEF WasApplied
  <2>3. h \in ran[Home(h.j)]
    BY <2>2 DEF QftInv, AppliedRan
  <2>4. h \in ran[Home(h.k)]
    BY <2>3 DEF QftInv, SidesAgree
  <2>5. PICK q \in Qubit : q \in {g.j, g.k} /\ q \in {h.j, h.k}
    BY <2>1, GateFields
  <2>6. Home(q) \in Rank /\ h \in ran[Home(q)] /\ g \in Circuit(Home(q))
    BY <2>3, <2>4, <2>5, HomeInRank DEF Circuit
  <2>7. g \in ran[Home(q)]
    BY <2>1, <2>6 DEF QftInv, RanFirst
  <2>8. g \in ran[Home(g.j)]
    BY <2>5, <2>7 DEF QftInv, SidesAgree
  <2>9. <<g, g.k>> \in applied /\ g.k \in Qubit
    BY <2>8, GateFields DEF QftInv, RanApplied
  <2> QED
    BY <2>9 DEF WasApplied
<1> QED
  BY <1>1, QftInvariant, PTL

---------------------------------------------------------------------------
(* The program *)

(***************************************************************************)
(* A run of the program is a run of build_global_mapping and one of the    *)
(* circuits, so that the theorems above hold of it.                        *)
(***************************************************************************)
THEOREM ProgramImplementsParts == ProgramSpec => MapSpec /\ Spec
<1>1. ProgramInit => MapInit /\ Init
  BY DEF ProgramInit
<1>2. [ProgramNext]_<<mapVars, vars>> => [MapNext]_mapVars /\ [Next]_vars
  BY DEF ProgramNext, BuildMapping, Execute
<1> QED BY <1>1, <1>2, PTL DEF ProgramSpec, MapSpec, Spec

=============================================================================
