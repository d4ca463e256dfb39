------------------------- MODULE QuantumMPI_proofs -------------------------
(***************************************************************************)
(* Proofs about QuantumMPI, for every Size, every set of tags, roots,      *)
(* forms of payload and operations, and every bound on the calls: types,   *)
(* the mailbox across finalize(), one payload of each rank in a reduce();  *)
(* then what a channel holds, and in which order: the rounds of the        *)
(* collectives that read it, and the queues that the mailbox implements.   *)
(***************************************************************************)
EXTENDS QuantumMPIFifo, FiniteSetTheorems, TLAPS

---------------------------------------------------------------------------
(* Types of the parts that the actions are made of *)

\* A payload that a caller passes now is a Payload.
LEMMA NewPayloadType ==
  ASSUME TypeOK, NEW op \in Origin, NEW r \in Rank, NEW peer \in Rank,
         NEW form \in Forms
  PROVE  NewPayload(op, r, peer, form) \in Payload
BY FormsAssumption DEF TypeOK, NewPayload, Payload

\* push_back keeps the types of the mailbox.
LEMMA PushBackType ==
  ASSUME TypeOK, NEW r \in Rank, NEW dst \in Rank, NEW tag \in Tag,
         NEW payload \in Payload, PushBack(r, dst, tag, payload)
  PROVE  /\ mailbox' \subseteq Message
         /\ arrivals' \in Nat
         /\ present' \in BOOLEAN
<1>1. arrivals \in Nat /\ arrivals + 1 \in Nat
  BY DEF TypeOK
<1>2. [src |-> r, dst |-> dst, tag |-> tag, payload |-> payload, at |-> arrivals + 1]
        \in Message
  BY <1>1 DEF Message
<1> QED BY <1>1, <1>2 DEF TypeOK, PushBack

\* Both outcomes of recv keep the types of the mailbox.
LEMMA RecvType ==
  ASSUME TypeOK, NEW src, NEW dst, NEW tag,
         \/ FindNothing(src, dst, tag)
         \/ \E m \in mailbox : TakeFirst(m, src, dst, tag)
  PROVE  /\ mailbox' \subseteq mailbox
         /\ mailbox' \subseteq Message
         /\ arrivals' = arrivals
         /\ arrivals' \in Nat
         /\ present' = TRUE
BY DEF TypeOK, FindNothing, TakeFirst

LEMMA ReturnsType ==
  ASSUME TypeOK, NEW r \in Rank, NEW op \in Operation \cup {"none"}, NEW outcome \in Outcome,
         NEW result \in SUBSET Payload, Returns(r, op, outcome, result)
  PROVE  returned' \in [Rank -> Return]
BY DEF TypeOK, Returns, Return

LEMMA CompletesType ==
  ASSUME TypeOK, NEW op \in Origin, NEW r \in Rank, NEW peer \in Rank,
         Completes(r, op, peer)
  PROVE  done' \in [Origin -> [Rank -> [Rank -> Nat]]]
<1>1. done[op][peer][r] + 1 \in Nat
  BY DEF TypeOK
<1>2. [done[op][peer] EXCEPT ![r] = @ + 1] \in [Rank -> Nat]
  BY <1>1 DEF TypeOK
<1>3. [done[op] EXCEPT ![peer][r] = @ + 1] \in [Rank -> [Rank -> Nat]]
  BY <1>2 DEF TypeOK
<1> QED BY <1>3 DEF TypeOK, Completes

LEMMA BeginType ==
  ASSUME TypeOK, NEW r \in Rank, NEW op, Begin(r, op)
  PROVE  calls' \in [Rank -> 0 .. MaxCalls]
<1>1. calls[r] + 1 \in 0 .. MaxCalls
  BY MaxCallsAssumption DEF TypeOK, Begin
<1> QED BY <1>1 DEF TypeOK, Begin

\* The loop variables, when a loop begins, goes on and ends.
LEMMA EnterLoopType ==
  ASSUME TypeOK, NEW r \in Rank, NEW loop \in {"bcast", "reduce"},
         NEW payload \in Payload, Size > 1, EnterLoop(r, loop, payload)
  PROVE  /\ pc' \in [Rank -> {"idle", "bcast", "reduce"}]
         /\ cursor' \in [Rank -> Rank]
         /\ values' \in [Rank -> SUBSET Payload]
<1>1. NextPeer(r, 0) \in Rank
  BY SizeAssumption DEF NextPeer, Rank
<1> QED BY <1>1 DEF TypeOK, EnterLoop

LEMMA LeaveLoopType ==
  ASSUME TypeOK, NEW r \in Rank, LeaveLoop(r)
  PROVE  /\ pc' \in [Rank -> {"idle", "bcast", "reduce"}]
         /\ cursor' \in [Rank -> Rank]
         /\ values' \in [Rank -> SUBSET Payload]
<1>1. 0 \in Rank
  BY SizeAssumption DEF Rank
<1> QED BY <1>1 DEF TypeOK, LeaveLoop

LEMMA AdvanceType ==
  ASSUME TypeOK, NEW r \in Rank, ~LastPeer(r), Advance(r)
  PROVE  cursor' \in [Rank -> Rank]
<1>1. cursor[r] \in Rank
  BY DEF TypeOK
<1>2. NextPeer(r, cursor[r] + 1) \in Rank
  BY <1>1, SizeAssumption DEF LastPeer, NextPeer, Rank
<1> QED BY <1>2 DEF TypeOK, Advance

LEMMA TagTypes ==
  /\ BcastTag \in Tag
  /\ ReduceTag \in Tag
  /\ UserTags \subseteq Tag
BY DEF Tag

---------------------------------------------------------------------------
(* Type correctness *)

LEMMA TypeInit == Init => TypeOK
<1> SUFFICES ASSUME Init PROVE TypeOK
  OBVIOUS
<1>1. 0 \in Rank
  BY SizeAssumption DEF Rank
<1>2. 0 \in 0 .. MaxCalls
  BY MaxCallsAssumption
<1>3. NoReturn \in Return
  BY DEF NoReturn, Return, Throws, Operation, Outcome
<1>4. mailbox \subseteq Message /\ lost \subseteq Channel /\ dropped \subseteq Rank
  BY DEF Init
<1>5. done \in [Origin -> [Rank -> [Rank -> Nat]]]
  BY DEF Init
<1> QED BY <1>1, <1>2, <1>3, <1>4, <1>5 DEF Init, TypeOK

LEMMA TypeNext == TypeOK /\ [Next]_vars => TypeOK'
<1> SUFFICES ASSUME TypeOK, [Next]_vars PROVE TypeOK'
  OBVIOUS
<1> USE DEF mailboxVars, loopVars, historyVars
<1>1. CASE UNCHANGED vars
  BY <1>1 DEF vars, TypeOK
<1>2. ASSUME NEW r \in Rank, InitRank(r) PROVE TypeOK'
  BY <1>2 DEF InitRank, TypeOK
<1>3. ASSUME NEW r \in Rank, Finalize(r) PROVE TypeOK'
  <2>1. calls' \in [Rank -> 0 .. MaxCalls]
    BY <1>3, BeginType DEF Finalize
  <2>2. returned' \in [Rank -> Return]
    BY <1>3, ReturnsType DEF Finalize, Throws, Operation, Outcome
  <2>3. CASE ~initialized[r]
    BY <1>3, <2>1, <2>2, <2>3 DEF Finalize, TypeOK
  <2>4. CASE initialized[r]
    <3>1. mailbox' \subseteq Message /\ present' \in BOOLEAN
      BY <1>3, <2>4 DEF Finalize, TypeOK, KeyAfter
    <3>2. horizon' \in [Rank -> Nat] /\ initialized' \in [Rank -> BOOLEAN]
      <4>1. arrivals \in Nat /\ horizon \in [Rank -> Nat]
            /\ initialized \in [Rank -> BOOLEAN]
        BY DEF TypeOK
      <4>2. /\ horizon' = [horizon EXCEPT ![r] = arrivals]
            /\ initialized' = [initialized EXCEPT ![r] = FALSE]
        BY <1>3, <2>4 DEF Finalize
      <4> QED BY <4>1, <4>2
    <3>3. \A m \in mailbox : ChannelOf(m) \in Channel
      BY DEF TypeOK, Message, ChannelOf, Channel
    <3>4. lost' \subseteq Channel /\ dropped' \subseteq Rank
      BY <1>3, <2>4, <3>3 DEF Finalize, TypeOK
    <3> QED BY <1>3, <2>1, <2>2, <2>4, <3>1, <3>2, <3>4 DEF Finalize, TypeOK
  <2> QED BY <2>3, <2>4
<1>4. ASSUME NEW r \in Rank, Drop(r) PROVE TypeOK'
  <2>1. calls' \in [Rank -> 0 .. MaxCalls]
    BY <1>4, BeginType DEF Drop
  <2> QED BY <1>4, <2>1 DEF Drop, TypeOK
<1>5. ASSUME NEW r \in Rank, Rejected(r) PROVE TypeOK'
  <2>1. calls' \in [Rank -> 0 .. MaxCalls]
    BY <1>5, BeginType DEF Rejected
  <2>2. returned' \in [Rank -> Return]
    BY <1>5, ReturnsType DEF Rejected, Throws, Operation, Outcome
  <2> QED BY <1>5, <2>1, <2>2 DEF Rejected, TypeOK
<1>6. ASSUME NEW r \in Rank, Barrier(r) PROVE TypeOK'
  <2>1. calls' \in [Rank -> 0 .. MaxCalls]
    BY <1>6, BeginType DEF Barrier
  <2>2. returned' \in [Rank -> Return]
    BY <1>6, ReturnsType DEF Barrier, Throws, Operation, Outcome
  <2> QED BY <1>6, <2>1, <2>2 DEF Barrier, TypeOK
<1>7. ASSUME NEW r \in Rank, Send(r) PROVE TypeOK'
  <2>1. calls' \in [Rank -> 0 .. MaxCalls]
    BY <1>7, BeginType DEF Send
  <2>2. returned' \in [Rank -> Return]
    BY <1>7, ReturnsType DEF Send, Throws, Operation, Outcome
  <2>3. PICK dst \in Rank, tag \in UserTags, form \in Forms :
          \/ UNCHANGED <<mailboxVars, done>>
          \/ /\ PushBack(r, dst, tag, NewPayload("send", r, dst, form))
             /\ Completes(r, "send", dst)
    BY <1>7 DEF Send
  <2>4. NewPayload("send", r, dst, form) \in Payload
    BY NewPayloadType DEF Origin
  <2>5. mailbox' \subseteq Message /\ arrivals' \in Nat /\ present' \in BOOLEAN
    BY <2>3, <2>4, PushBackType, TagTypes DEF TypeOK
  <2>6. done' \in [Origin -> [Rank -> [Rank -> Nat]]]
    BY <2>3, CompletesType DEF TypeOK, Origin
  <2> QED BY <1>7, <2>1, <2>2, <2>5, <2>6 DEF Send, TypeOK
<1>8. ASSUME NEW r \in Rank, Recv(r) PROVE TypeOK'
  <2>1. calls' \in [Rank -> 0 .. MaxCalls]
    BY <1>8, BeginType DEF Recv
  <2>2. \A m \in mailbox : {m.payload} \in SUBSET Payload
    BY DEF TypeOK, Message
  <2>3. returned' \in [Rank -> Return]
    <3>1. \/ Throws(r, "no_match")
          \/ \E m \in mailbox : Returns(r, "recv", "ok", {m.payload})
      BY <1>8 DEF Recv
    <3>2. CASE Throws(r, "no_match")
      BY <3>2, ReturnsType DEF Throws, Operation, Outcome
    <3>3. ASSUME NEW m \in mailbox, Returns(r, "recv", "ok", {m.payload})
          PROVE  returned' \in [Rank -> Return]
      BY <2>2, <3>3, ReturnsType DEF Throws, Operation, Outcome
    <3> QED BY <3>1, <3>2, <3>3
  <2>4. mailbox' \subseteq Message /\ arrivals' \in Nat /\ present' \in BOOLEAN
    BY <1>8, RecvType DEF Recv
  <2> QED BY <1>8, <2>1, <2>3, <2>4 DEF Recv, TypeOK
<1>9. ASSUME NEW r \in Rank, BcastRoot(r) PROVE TypeOK'
  <2>1. calls' \in [Rank -> 0 .. MaxCalls]
    BY <1>9, BeginType DEF BcastRoot
  <2>2. PICK form \in Forms :
          LET payload == NewPayload("bcast", r, r, form) IN
          \/ /\ Size = 1
             /\ Returns(r, "bcast", "ok", {payload})
             /\ Completes(r, "bcast", r)
             /\ UNCHANGED loopVars
          \/ /\ Size > 1
             /\ form = "empty"
             /\ Throws(r, "invalid")
             /\ UNCHANGED <<loopVars, done>>
          \/ /\ Size > 1
             /\ form # "empty"
             /\ EnterLoop(r, "bcast", payload)
             /\ UNCHANGED <<returned, done>>
    BY <1>9 DEF BcastRoot
  <2>3. NewPayload("bcast", r, r, form) \in Payload
    BY NewPayloadType DEF Origin
  <2>4. returned' \in [Rank -> Return]
    BY <2>2, <2>3, ReturnsType DEF Throws, Operation, Outcome, TypeOK
  <2>5. done' \in [Origin -> [Rank -> [Rank -> Nat]]]
    BY <2>2, CompletesType DEF TypeOK, Origin
  <2>6. /\ pc' \in [Rank -> {"idle", "bcast", "reduce"}]
        /\ cursor' \in [Rank -> Rank]
        /\ values' \in [Rank -> SUBSET Payload]
    BY <2>2, <2>3, EnterLoopType DEF TypeOK
  <2> QED BY <1>9, <2>1, <2>4, <2>5, <2>6 DEF BcastRoot, TypeOK
<1>10. ASSUME NEW r \in Rank, BcastSend(r) PROVE TypeOK'
  <2>1. PICK payload \in values[r] :
          /\ PushBack(r, cursor[r], BcastTag, payload)
          /\ \/ /\ ~LastPeer(r)
                /\ Advance(r)
                /\ UNCHANGED <<pc, values, returned, done>>
             \/ /\ LastPeer(r)
                /\ LeaveLoop(r)
                /\ Returns(r, "bcast", "ok", {payload})
                /\ Completes(r, "bcast", r)
    BY <1>10 DEF BcastSend
  <2>2. payload \in Payload /\ cursor[r] \in Rank
    BY DEF TypeOK
  <2>3. mailbox' \subseteq Message /\ arrivals' \in Nat /\ present' \in BOOLEAN
    BY <2>1, <2>2, PushBackType, TagTypes
  <2>4. returned' \in [Rank -> Return]
    BY <2>1, <2>2, ReturnsType DEF Throws, Operation, Outcome, TypeOK
  <2>5. done' \in [Origin -> [Rank -> [Rank -> Nat]]]
    BY <2>1, CompletesType DEF TypeOK, Origin
  <2>6. /\ pc' \in [Rank -> {"idle", "bcast", "reduce"}]
        /\ cursor' \in [Rank -> Rank]
        /\ values' \in [Rank -> SUBSET Payload]
    BY <2>1, LeaveLoopType, AdvanceType DEF TypeOK
  <2> QED BY <1>10, <2>3, <2>4, <2>5, <2>6 DEF BcastSend, TypeOK
<1>11. ASSUME NEW r \in Rank, BcastRecv(r) PROVE TypeOK'
  <2>1. calls' \in [Rank -> 0 .. MaxCalls]
    BY <1>11, BeginType DEF BcastRecv
  <2>2. PICK root \in Roots \ {r} :
          \/ /\ FindNothing(root, r, BcastTag)
             /\ Throws(r, "no_match")
             /\ UNCHANGED done
          \/ \E m \in mailbox :
               /\ TakeFirst(m, root, r, BcastTag)
               /\ Returns(r, "bcast", "ok", {m.payload})
               /\ Completes(r, "bcast", root)
    BY <1>11 DEF BcastRecv
  <2>3. root \in Rank
    BY RootsAssumption
  <2>4. \A m \in mailbox : {m.payload} \in SUBSET Payload
    BY DEF TypeOK, Message
  <2>5. returned' \in [Rank -> Return]
    <3>1. CASE Throws(r, "no_match")
      BY <3>1, ReturnsType DEF Throws, Operation, Outcome
    <3>2. ASSUME NEW m \in mailbox, Returns(r, "bcast", "ok", {m.payload})
          PROVE  returned' \in [Rank -> Return]
      BY <2>4, <3>2, ReturnsType DEF Throws, Operation, Outcome
    <3> QED BY <2>2, <3>1, <3>2
  <2>6. done' \in [Origin -> [Rank -> [Rank -> Nat]]]
    BY <2>2, <2>3, CompletesType DEF TypeOK, Origin
  <2>7. mailbox' \subseteq Message /\ arrivals' \in Nat /\ present' \in BOOLEAN
    BY <2>2, RecvType
  <2> QED BY <1>11, <2>1, <2>5, <2>6, <2>7 DEF BcastRecv, TypeOK
<1>12. ASSUME NEW r \in Rank, ReduceContribute(r) PROVE TypeOK'
  <2>1. calls' \in [Rank -> 0 .. MaxCalls]
    BY <1>12, BeginType DEF ReduceContribute
  <2>2. PICK root \in Roots \ {r}, form \in Forms :
          LET payload == NewPayload("reduce", r, root, form) IN
          \/ /\ Throws(r, "invalid")
             /\ UNCHANGED <<mailboxVars, done>>
          \/ /\ PushBack(r, root, ReduceTag, payload)
             /\ Returns(r, "reduce", "ok", {payload})
             /\ Completes(r, "reduce", root)
    BY <1>12 DEF ReduceContribute
  <2>3. root \in Rank
    BY RootsAssumption
  <2>4. NewPayload("reduce", r, root, form) \in Payload
    BY <2>3, NewPayloadType DEF Origin
  <2>5. mailbox' \subseteq Message /\ arrivals' \in Nat /\ present' \in BOOLEAN
    BY <2>2, <2>3, <2>4, PushBackType, TagTypes DEF TypeOK
  <2>6. returned' \in [Rank -> Return]
    BY <2>2, <2>4, ReturnsType DEF Throws, Operation, Outcome
  <2>7. done' \in [Origin -> [Rank -> [Rank -> Nat]]]
    BY <2>2, <2>3, CompletesType DEF TypeOK, Origin
  <2> QED BY <1>12, <2>1, <2>5, <2>6, <2>7 DEF ReduceContribute, TypeOK
<1>13. ASSUME NEW r \in Rank, ReduceRoot(r) PROVE TypeOK'
  <2>1. calls' \in [Rank -> 0 .. MaxCalls]
    BY <1>13, BeginType DEF ReduceRoot
  <2>2. PICK form \in Forms :
          LET payload == NewPayload("reduce", r, r, form) IN
          \/ /\ form # "number"
             /\ Throws(r, "invalid")
             /\ UNCHANGED <<loopVars, done>>
          \/ /\ form = "number"
             /\ Size = 1
             /\ Returns(r, "reduce", "ok", {payload})
             /\ Completes(r, "reduce", r)
             /\ UNCHANGED loopVars
          \/ /\ form = "number"
             /\ Size > 1
             /\ EnterLoop(r, "reduce", payload)
             /\ UNCHANGED <<returned, done>>
    BY <1>13 DEF ReduceRoot
  <2>3. NewPayload("reduce", r, r, form) \in Payload
    BY NewPayloadType DEF Origin
  <2>4. returned' \in [Rank -> Return]
    BY <2>2, <2>3, ReturnsType DEF Throws, Operation, Outcome, TypeOK
  <2>5. done' \in [Origin -> [Rank -> [Rank -> Nat]]]
    BY <2>2, CompletesType DEF TypeOK, Origin
  <2>6. /\ pc' \in [Rank -> {"idle", "bcast", "reduce"}]
        /\ cursor' \in [Rank -> Rank]
        /\ values' \in [Rank -> SUBSET Payload]
    BY <2>2, <2>3, EnterLoopType DEF TypeOK
  <2> QED BY <1>13, <2>1, <2>4, <2>5, <2>6 DEF ReduceRoot, TypeOK
<1>14. ASSUME NEW r \in Rank, ReduceRecv(r) PROVE TypeOK'
  <2>1. Taken(r) \subseteq Channel
    BY TagTypes DEF TypeOK, Taken, Channel, Payload
  <2>2. \A m \in mailbox : m.payload \in Payload /\ ChannelOf(m) \in Channel
    BY DEF TypeOK, Message, ChannelOf, Channel
  <2>3. mailbox' \subseteq Message /\ arrivals' \in Nat /\ present' \in BOOLEAN
    BY <1>14, RecvType DEF ReduceRecv
  <2>4. CASE /\ LeaveLoop(r)
             /\ \/ Throws(r, "no_match")
                \/ Throws(r, "invalid")
             /\ lost' \subseteq lost \cup Taken(r) \cup {ChannelOf(m) : m \in mailbox}
             /\ UNCHANGED done
    <3>1. returned' \in [Rank -> Return]
      BY <2>4, ReturnsType DEF Throws, Operation, Outcome
    <3>2. lost' \subseteq Channel
      BY <2>1, <2>2, <2>4 DEF TypeOK
    <3> QED BY <1>14, <2>3, <2>4, <3>1, <3>2, LeaveLoopType DEF ReduceRecv, TypeOK
  <2>5. ASSUME NEW m \in mailbox,
               ~LastPeer(r), Advance(r),
               values' = [values EXCEPT ![r] = @ \cup {m.payload}],
               UNCHANGED <<pc, returned, done, lost>>
        PROVE  TypeOK'
    <3>1. values' \in [Rank -> SUBSET Payload]
      BY <2>2, <2>5 DEF TypeOK
    <3> QED BY <1>14, <2>3, <2>5, <3>1, AdvanceType DEF ReduceRecv, TypeOK
  <2>6. ASSUME NEW m \in mailbox,
               LeaveLoop(r),
               Returns(r, "reduce", "ok", values[r] \cup {m.payload}),
               Completes(r, "reduce", r),
               UNCHANGED lost
        PROVE  TypeOK'
    <3>1. values[r] \cup {m.payload} \in SUBSET Payload
      BY <2>2 DEF TypeOK
    <3>2. returned' \in [Rank -> Return]
      BY <2>6, <3>1, ReturnsType DEF Throws, Operation, Outcome
    <3>3. done' \in [Origin -> [Rank -> [Rank -> Nat]]]
      BY <2>6, CompletesType DEF Origin
    <3> QED BY <1>14, <2>3, <2>6, <3>2, <3>3, LeaveLoopType DEF ReduceRecv, TypeOK
  <2> QED BY <1>14, <2>4, <2>5, <2>6 DEF ReduceRecv
<1> QED
  BY <1>1, <1>2, <1>3, <1>4, <1>5, <1>6, <1>7, <1>8, <1>9, <1>10, <1>11, <1>12,
     <1>13, <1>14 DEF Next, RankStep

\* Every reachable state has its type.
THEOREM TypeCorrect == Spec => []TypeOK
BY TypeInit, TypeNext, PTL DEF Spec

---------------------------------------------------------------------------
(* What a step does to the mailbox *)

\* Nothing is pushed, and nobody finalizes.
QuietStep ==
  /\ mailbox' \subseteq mailbox
  /\ UNCHANGED <<arrivals, horizon>>
  /\ dropped \subseteq dropped'
  /\ \A p \in Rank : initialized[p] => initialized'[p] \/ p \in dropped'
  /\ present => present'
  /\ present' => present \/ \E p \in Rank : initialized'[p]

\* An initialized rank pushes one message.
PushStep(r) ==
  /\ initialized[r]
  /\ \E dst \in Rank, tag \in Tag, payload \in Payload : PushBack(r, dst, tag, payload)
  /\ UNCHANGED <<initialized, horizon, dropped>>

\* An initialized rank finalizes.
FinalizeStep(r) ==
  /\ initialized[r]
  /\ Finalize(r)

LEMMA StepKinds ==
  ASSUME TypeOK, LoopInitialized, [Next]_vars
  PROVE  \/ QuietStep
         \/ \E r \in Rank : PushStep(r) \/ FinalizeStep(r)
<1> USE DEF mailboxVars, loopVars, historyVars
<1>1. CASE UNCHANGED vars
  BY <1>1 DEF vars, QuietStep
<1>2. ASSUME NEW r \in Rank, InitRank(r) PROVE QuietStep
  BY <1>2 DEF InitRank, QuietStep, TypeOK
<1>3. ASSUME NEW r \in Rank, Finalize(r) PROVE QuietStep \/ FinalizeStep(r)
  BY <1>3 DEF Finalize, FinalizeStep, QuietStep
<1>4. ASSUME NEW r \in Rank, Drop(r) PROVE QuietStep
  BY <1>4 DEF Drop, QuietStep, TypeOK
<1>5. ASSUME NEW r \in Rank, Rejected(r) PROVE QuietStep
  BY <1>5 DEF Rejected, QuietStep
<1>6. ASSUME NEW r \in Rank, Barrier(r) PROVE QuietStep
  BY <1>6 DEF Barrier, QuietStep
<1>7. ASSUME NEW r \in Rank, Send(r) PROVE QuietStep \/ PushStep(r)
  <2>1. PICK dst \in Rank, tag \in UserTags, form \in Forms :
          \/ UNCHANGED mailboxVars
          \/ PushBack(r, dst, tag, NewPayload("send", r, dst, form))
    BY <1>7 DEF Send
  <2>2. CASE UNCHANGED mailboxVars
    BY <1>7, <2>2 DEF Send, QuietStep
  <2>3. CASE PushBack(r, dst, tag, NewPayload("send", r, dst, form))
    <3>1. NewPayload("send", r, dst, form) \in Payload /\ tag \in Tag
      BY NewPayloadType, TagTypes DEF Origin
    <3> QED BY <1>7, <2>3, <3>1 DEF Send, PushStep
  <2> QED BY <2>1, <2>2, <2>3
<1>8. ASSUME NEW r \in Rank, Recv(r) PROVE QuietStep
  BY <1>8 DEF Recv, FindNothing, TakeFirst, QuietStep
<1>9. ASSUME NEW r \in Rank, BcastRoot(r) PROVE QuietStep
  BY <1>9 DEF BcastRoot, QuietStep
<1>10. ASSUME NEW r \in Rank, BcastSend(r) PROVE PushStep(r)
  <2>1. PICK payload \in values[r] : PushBack(r, cursor[r], BcastTag, payload)
    BY <1>10 DEF BcastSend
  <2>2. payload \in Payload /\ cursor[r] \in Rank
    BY DEF TypeOK
  <2>3. initialized[r]
    BY <1>10 DEF BcastSend, LoopInitialized
  <2> QED BY <1>10, <2>1, <2>2, <2>3, TagTypes DEF BcastSend, PushStep
<1>11. ASSUME NEW r \in Rank, BcastRecv(r) PROVE QuietStep
  BY <1>11 DEF BcastRecv, FindNothing, TakeFirst, QuietStep
<1>12. ASSUME NEW r \in Rank, ReduceContribute(r) PROVE QuietStep \/ PushStep(r)
  <2>1. PICK root \in Roots \ {r}, form \in Forms :
          \/ UNCHANGED mailboxVars
          \/ PushBack(r, root, ReduceTag, NewPayload("reduce", r, root, form))
    BY <1>12 DEF ReduceContribute
  <2>2. CASE UNCHANGED mailboxVars
    BY <1>12, <2>2 DEF ReduceContribute, QuietStep
  <2>3. CASE PushBack(r, root, ReduceTag, NewPayload("reduce", r, root, form))
    <3>1. root \in Rank
      BY RootsAssumption
    <3>2. NewPayload("reduce", r, root, form) \in Payload
      BY <3>1, NewPayloadType DEF Origin
    <3> QED BY <1>12, <2>3, <3>1, <3>2, TagTypes DEF ReduceContribute, PushStep
  <2> QED BY <2>1, <2>2, <2>3
<1>13. ASSUME NEW r \in Rank, ReduceRoot(r) PROVE QuietStep
  BY <1>13 DEF ReduceRoot, QuietStep
<1>14. ASSUME NEW r \in Rank, ReduceRecv(r) PROVE QuietStep
  <2>1. initialized[r]
    BY <1>14 DEF ReduceRecv, LoopInitialized
  <2> QED BY <1>14, <2>1 DEF ReduceRecv, FindNothing, TakeFirst, QuietStep
<1> QED
  BY <1>1, <1>2, <1>3, <1>4, <1>5, <1>6, <1>7, <1>8, <1>9, <1>10, <1>11, <1>12,
     <1>13, <1>14 DEF Next, RankStep

---------------------------------------------------------------------------
(* The mailbox across finalize() *)

LEMMA MailInit == Init => MailInv
<1> SUFFICES ASSUME Init PROVE MailInv
  OBVIOUS
<1>1. TypeOK
  BY TypeInit
<1> QED
  BY <1>1 DEF Init, MailInv, HorizonPast, LoopInitialized, MailHasOwner,
              NoStaleMail, WorldReclaimed

\* A rank enters a loop and leaves it in one life: neither ends inside one.
LEMMA LoopInitializedNext ==
  ASSUME TypeOK, LoopInitialized, [Next]_vars
  PROVE  LoopInitialized'
<1> USE DEF mailboxVars, loopVars, historyVars
<1>1. CASE UNCHANGED vars
  BY <1>1 DEF vars, LoopInitialized
<1>2. ASSUME NEW r \in Rank,
             /\ UNCHANGED initialized
             /\ \A p \in Rank \ {r} : pc'[p] = pc[p]
             /\ initialized[r]
      PROVE  LoopInitialized'
  BY <1>2 DEF LoopInitialized
<1>3. ASSUME NEW r \in Rank, InitRank(r) \/ Finalize(r) \/ Drop(r) PROVE LoopInitialized'
  BY <1>3 DEF InitRank, Finalize, Drop, Begin, LoopInitialized, TypeOK
<1>4. ASSUME NEW r \in Rank,
             Rejected(r) \/ Barrier(r) \/ Send(r) \/ Recv(r) \/ BcastRecv(r)
               \/ ReduceContribute(r)
      PROVE  LoopInitialized'
  BY <1>4 DEF Rejected, Barrier, Send, Recv, BcastRecv, ReduceContribute, LoopInitialized
<1>5. ASSUME NEW r \in Rank, BcastRoot(r) \/ ReduceRoot(r) PROVE LoopInitialized'
  <2>1. initialized[r] /\ UNCHANGED initialized
    BY <1>5 DEF BcastRoot, ReduceRoot
  <2>2. \A p \in Rank \ {r} : pc'[p] = pc[p]
    BY <1>5 DEF BcastRoot, ReduceRoot, EnterLoop, TypeOK
  <2> QED BY <1>2, <2>1, <2>2
<1>6. ASSUME NEW r \in Rank, BcastSend(r) \/ ReduceRecv(r) PROVE LoopInitialized'
  <2>1. initialized[r] /\ UNCHANGED initialized
    BY <1>6 DEF BcastSend, ReduceRecv, LoopInitialized
  <2>2. \A p \in Rank \ {r} : pc'[p] = pc[p]
    BY <1>6 DEF BcastSend, ReduceRecv, LeaveLoop, TypeOK
  <2> QED BY <1>2, <2>1, <2>2
<1> QED BY <1>1, <1>3, <1>4, <1>5, <1>6 DEF Next, RankStep

LEMMA MailNext == MailInv /\ [Next]_vars => MailInv'
<1> SUFFICES ASSUME MailInv, [Next]_vars PROVE MailInv'
  OBVIOUS
<1>1. TypeOK' /\ LoopInitialized'
  BY TypeNext, LoopInitializedNext DEF MailInv
<1>2. \A m \in mailbox : m.src \in Rank /\ m.dst \in Rank
  BY DEF MailInv, TypeOK, Message
<1>3. CASE QuietStep
  <2>1. HorizonPast' /\ NoStaleMail'
    BY <1>3 DEF QuietStep, MailInv, HorizonPast, NoStaleMail
  <2>2. MailHasOwner'
    BY <1>2, <1>3 DEF QuietStep, MailInv, MailHasOwner
  <2>3. WorldReclaimed'
    BY <1>3 DEF QuietStep, MailInv, WorldReclaimed
  <2> QED BY <1>1, <2>1, <2>2, <2>3 DEF MailInv
<1>4. ASSUME NEW r \in Rank, PushStep(r) PROVE MailInv'
  <2>1. PICK dst \in Rank, tag \in Tag, payload \in Payload :
          PushBack(r, dst, tag, payload)
    BY <1>4 DEF PushStep
  <2>2. arrivals \in Nat /\ \A p \in Rank : horizon[p] \in Nat /\ horizon[p] <= arrivals
    BY DEF MailInv, TypeOK, HorizonPast
  <2>3. HorizonPast'
    BY <1>4, <2>1, <2>2 DEF PushStep, PushBack, HorizonPast
  <2>4. \A m \in mailbox' \ mailbox : m.src = r /\ m.dst = dst /\ m.at = arrivals + 1
    BY <2>1 DEF PushBack
  <2>5. NoStaleMail'
    BY <1>4, <2>2, <2>4 DEF PushStep, MailInv, NoStaleMail
  <2>6. MailHasOwner'
    BY <1>4, <2>1, <2>4 DEF PushStep, PushBack, MailInv, MailHasOwner
  <2>7. WorldReclaimed'
    BY <1>4 DEF PushStep, WorldReclaimed
  <2> QED BY <1>1, <2>3, <2>5, <2>6, <2>7 DEF MailInv
<1>5. ASSUME NEW r \in Rank, FinalizeStep(r) PROVE MailInv'
  <2>1. /\ initialized' = [initialized EXCEPT ![r] = FALSE]
        /\ mailbox' = {m \in mailbox : ~Involves(m, r)}
        /\ present' = KeyAfter(mailbox')
        /\ horizon' = [horizon EXCEPT ![r] = arrivals]
        /\ dropped' = dropped \ {r}
        /\ arrivals' = arrivals
    BY <1>5 DEF FinalizeStep, Finalize
  <2>2. \A m \in mailbox' : m \in mailbox /\ m.src # r /\ m.dst # r
    BY <2>1 DEF Involves
  <2>3. arrivals \in Nat /\ \A p \in Rank : horizon[p] \in Nat /\ horizon[p] <= arrivals
    BY DEF MailInv, TypeOK, HorizonPast
  <2>4. /\ horizon'[r] = arrivals
        /\ \A p \in Rank \ {r} : horizon'[p] = horizon[p] /\ initialized'[p] = initialized[p]
    BY <2>1 DEF MailInv, TypeOK
  <2>5. HorizonPast'
    BY <2>1, <2>3, <2>4 DEF HorizonPast
  <2>6. NoStaleMail'
    BY <1>2, <2>2, <2>4 DEF MailInv, NoStaleMail
  <2>7. MailHasOwner'
    BY <1>2, <2>1, <2>2, <2>4 DEF MailInv, MailHasOwner, KeyAfter
  <2>8. WorldReclaimed'
    BY <1>2, <2>1, <2>2, <2>7, <1>1 DEF WorldReclaimed, MailHasOwner, KeyAfter
  <2> QED BY <1>1, <2>5, <2>6, <2>7, <2>8 DEF MailInv
<1> QED BY <1>3, <1>4, <1>5, StepKinds DEF MailInv

LEMMA MailCorrect == Spec => []MailInv
BY MailInit, MailNext, PTL DEF Spec

\* No message survives finalize() by its sender or its receiver.
THEOREM NoStaleMailHolds == Spec => []NoStaleMail
<1>1. MailInv => NoStaleMail
  BY DEF MailInv
<1> QED BY <1>1, MailCorrect, PTL

\* The key of a world goes with its last rank.
THEOREM WorldReclaimedHolds == Spec => []WorldReclaimed
<1>1. MailInv => WorldReclaimed
  BY DEF MailInv
<1> QED BY <1>1, MailCorrect, PTL

---------------------------------------------------------------------------
(* The loops of the collectives *)

LEMMA LoopInit == Init => LoopInv
<1> SUFFICES ASSUME Init PROVE LoopInv
  OBVIOUS
<1>1. TypeOK
  BY TypeInit
<1>2. \A r \in Rank : pc[r] = "idle"
  BY DEF Init
<1> QED BY <1>1, <1>2 DEF Init, LoopInv, SenderNamed, BcastLoop, ReduceLoop

\* A push of a payload that bears the name of its sender.
LEMMA PushNamed ==
  ASSUME TypeOK, SenderNamed, NEW r \in Rank, NEW dst, NEW tag, NEW payload,
         payload.by = r, PushBack(r, dst, tag, payload)
  PROVE  SenderNamed'
BY DEF PushBack, SenderNamed

LEMMA SenderNamedNext ==
  ASSUME LoopInv, [Next]_vars
  PROVE  SenderNamed'
<1> USE DEF mailboxVars, loopVars, historyVars
<1>1. ASSUME mailbox' \subseteq mailbox PROVE SenderNamed'
  BY <1>1 DEF LoopInv, SenderNamed
<1>2. CASE UNCHANGED vars
  BY <1>1, <1>2 DEF vars
<1>3. ASSUME NEW r \in Rank, InitRank(r) \/ Finalize(r) \/ Drop(r) \/ Rejected(r)
                               \/ Barrier(r) \/ BcastRoot(r) \/ ReduceRoot(r)
      PROVE  SenderNamed'
  BY <1>1, <1>3 DEF InitRank, Finalize, Drop, Rejected, Barrier, BcastRoot, ReduceRoot
<1>4. ASSUME NEW r \in Rank, Recv(r) \/ BcastRecv(r) \/ ReduceRecv(r)
      PROVE  SenderNamed'
  BY <1>1, <1>4 DEF Recv, BcastRecv, ReduceRecv, FindNothing, TakeFirst
<1>5. ASSUME NEW r \in Rank, Send(r) PROVE SenderNamed'
  <2>1. PICK dst \in Rank, tag \in UserTags, form \in Forms :
          \/ UNCHANGED mailboxVars
          \/ PushBack(r, dst, tag, NewPayload("send", r, dst, form))
    BY <1>5 DEF Send
  <2>2. NewPayload("send", r, dst, form).by = r
    BY DEF NewPayload
  <2> QED BY <1>1, <2>1, <2>2, PushNamed DEF LoopInv
<1>6. ASSUME NEW r \in Rank, BcastSend(r) PROVE SenderNamed'
  <2>1. PICK payload \in values[r] : PushBack(r, cursor[r], BcastTag, payload)
    BY <1>6 DEF BcastSend
  <2>2. payload.by = r
    BY <1>6 DEF BcastSend, LoopInv, BcastLoop
  <2> QED BY <2>1, <2>2, PushNamed DEF LoopInv
<1>7. ASSUME NEW r \in Rank, ReduceContribute(r) PROVE SenderNamed'
  <2>1. PICK root \in Roots \ {r}, form \in Forms :
          \/ UNCHANGED mailboxVars
          \/ PushBack(r, root, ReduceTag, NewPayload("reduce", r, root, form))
    BY <1>7 DEF ReduceContribute
  <2>2. NewPayload("reduce", r, root, form).by = r
    BY DEF NewPayload
  <2> QED BY <1>1, <2>1, <2>2, PushNamed DEF LoopInv
<1> QED BY <1>2, <1>3, <1>4, <1>5, <1>6, <1>7 DEF Next, RankStep

\* A step that leaves the loop variables alone, or ends a loop.
LEMMA LoopsKept ==
  ASSUME TypeOK, BcastLoop, ReduceLoop, NEW r \in Rank,
         UNCHANGED loopVars \/ LeaveLoop(r)
  PROVE  BcastLoop' /\ ReduceLoop'
<1>1. CASE UNCHANGED loopVars
  BY <1>1 DEF loopVars, BcastLoop, ReduceLoop
<1>2. CASE LeaveLoop(r)
  <2>1. pc'[r] = "idle"
    BY <1>2 DEF LeaveLoop, TypeOK
  <2>2. \A p \in Rank \ {r} : pc'[p] = pc[p] /\ cursor'[p] = cursor[p]
                                /\ values'[p] = values[p]
    BY <1>2 DEF LeaveLoop, TypeOK
  <2> QED BY <2>1, <2>2 DEF BcastLoop, ReduceLoop
<1> QED BY <1>1, <1>2

\* The parts of a loop's invariant that speak of one rank.
BcastLoopOf(r) == pc[r] = "bcast" => \A v \in values[r] : v.by = r

ReduceLoopOf(r) ==
  pc[r] = "reduce" =>
    /\ cursor[r] # r
    /\ \A v \in values[r] : v.form = "number" /\ (v.by = r \/ v.by < cursor[r])
    /\ \A p \in Rank : p = r \/ p < cursor[r] => \E v \in values[r] : v.by = p
    /\ \A v, w \in values[r] : v.by = w.by => v = w

\* A step of rank r has only the loop of r to care for.
LEMMA OneLoop ==
  ASSUME TypeOK, BcastLoop, ReduceLoop, NEW r \in Rank,
         \A p \in Rank \ {r} : pc'[p] = pc[p] /\ cursor'[p] = cursor[p]
                                 /\ values'[p] = values[p],
         BcastLoopOf(r)', ReduceLoopOf(r)'
  PROVE  BcastLoop' /\ ReduceLoop'
BY DEF BcastLoop, ReduceLoop, BcastLoopOf, ReduceLoopOf

LEMMA EnterLoopOthers ==
  ASSUME TypeOK, NEW r \in Rank, NEW loop, NEW payload, EnterLoop(r, loop, payload)
  PROVE  /\ pc'[r] = loop
         /\ cursor'[r] = NextPeer(r, 0)
         /\ values'[r] = {payload}
         /\ \A p \in Rank \ {r} : pc'[p] = pc[p] /\ cursor'[p] = cursor[p]
                                    /\ values'[p] = values[p]
BY DEF EnterLoop, TypeOK

\* A number of the cursor's rank, added to a reduce in progress.
LEMMA ReduceGrows ==
  ASSUME TypeOK, NEW r \in Rank, pc[r] = "reduce", ReduceLoopOf(r), NEW v,
         v.by = cursor[r], v.form = "number"
  PROVE  /\ \A w \in values[r] \cup {v} :
              w.form = "number" /\ (w.by = r \/ w.by < cursor[r] + 1)
         /\ \A p \in Rank : p = r \/ p < cursor[r] + 1 =>
              \E w \in values[r] \cup {v} : w.by = p
         /\ \A w, x \in values[r] \cup {v} : w.by = x.by => w = x
<1>1. cursor[r] \in Int /\ r \in Int /\ \A p \in Rank : p \in Int
  BY DEF TypeOK, Rank
<1>2. \A w \in values[r] : w.by \in Int
  BY DEF TypeOK, Payload, Rank
<1>3. \A w \in values[r] : w.by # cursor[r]
  BY <1>1, <1>2 DEF ReduceLoopOf
<1>4. \A p \in Rank : p < cursor[r] + 1 => p < cursor[r] \/ p = cursor[r]
  BY <1>1
<1>5. \A w \in values[r] \cup {v} :
        w.form = "number" /\ (w.by = r \/ w.by < cursor[r] + 1)
  BY <1>1, <1>2 DEF ReduceLoopOf
<1>6. \A p \in Rank : p = r \/ p < cursor[r] + 1 =>
        \E w \in values[r] \cup {v} : w.by = p
  BY <1>4 DEF ReduceLoopOf
<1>7. \A w, x \in values[r] \cup {v} : w.by = x.by => w = x
  BY <1>3 DEF ReduceLoopOf
<1> QED BY <1>5, <1>6, <1>7

LEMMA LoopsNext ==
  ASSUME LoopInv, [Next]_vars
  PROVE  BcastLoop' /\ ReduceLoop'
<1> USE DEF LoopInv
<1>1. CASE UNCHANGED vars
  BY <1>1 DEF vars, BcastLoop, ReduceLoop
<1>2. ASSUME NEW r \in Rank, UNCHANGED loopVars \/ LeaveLoop(r)
      PROVE  BcastLoop' /\ ReduceLoop'
  BY <1>2, LoopsKept
<1>3. ASSUME NEW r \in Rank,
             InitRank(r) \/ Finalize(r) \/ Drop(r) \/ Rejected(r) \/ Barrier(r)
               \/ Send(r) \/ Recv(r) \/ BcastRecv(r) \/ ReduceContribute(r)
      PROVE  BcastLoop' /\ ReduceLoop'
  BY <1>2, <1>3 DEF InitRank, Finalize, Drop, Rejected, Barrier, Send, Recv,
                    BcastRecv, ReduceContribute
<1>4. ASSUME NEW r \in Rank, BcastRoot(r) PROVE BcastLoop' /\ ReduceLoop'
  <2>1. PICK form \in Forms :
          \/ UNCHANGED loopVars
          \/ EnterLoop(r, "bcast", NewPayload("bcast", r, r, form))
    BY <1>4 DEF BcastRoot
  <2>2. CASE EnterLoop(r, "bcast", NewPayload("bcast", r, r, form))
    <3>1. NewPayload("bcast", r, r, form).by = r
      BY DEF NewPayload
    <3>2. BcastLoopOf(r)' /\ ReduceLoopOf(r)'
      BY <2>2, <3>1, EnterLoopOthers DEF BcastLoopOf, ReduceLoopOf
    <3> QED BY <2>2, <3>2, EnterLoopOthers, OneLoop
  <2> QED BY <1>2, <2>1, <2>2
<1>5. ASSUME NEW r \in Rank, ReduceRoot(r) PROVE BcastLoop' /\ ReduceLoop'
  <2>1. PICK form \in Forms :
          \/ UNCHANGED loopVars
          \/ /\ form = "number"
             /\ EnterLoop(r, "reduce", NewPayload("reduce", r, r, form))
    BY <1>5 DEF ReduceRoot
  <2>2. CASE /\ form = "number"
             /\ EnterLoop(r, "reduce", NewPayload("reduce", r, r, form))
    <3> DEFINE payload == NewPayload("reduce", r, r, form)
    <3>1. payload.by = r /\ payload.form = "number"
      BY <2>2 DEF NewPayload
    <3>2. cursor'[r] # r /\ \A p \in Rank : p < cursor'[r] => p = r
      BY <2>2, EnterLoopOthers DEF NextPeer, Rank
    <3>3. pc'[r] = "reduce" /\ values'[r] = {payload}
      BY <2>2, EnterLoopOthers
    <3> HIDE DEF payload
    <3>4. BcastLoopOf(r)' /\ ReduceLoopOf(r)'
      BY <3>1, <3>2, <3>3 DEF BcastLoopOf, ReduceLoopOf
    <3> QED BY <2>2, <3>4, EnterLoopOthers, OneLoop
  <2> QED BY <1>2, <2>1, <2>2
<1>6. ASSUME NEW r \in Rank, BcastSend(r) PROVE BcastLoop' /\ ReduceLoop'
  <2>1. LeaveLoop(r) \/ (Advance(r) /\ UNCHANGED <<pc, values>>)
    BY <1>6 DEF BcastSend
  <2>2. CASE Advance(r) /\ UNCHANGED <<pc, values>>
    <3>1. BcastLoopOf(r)' /\ ReduceLoopOf(r)'
      BY <1>6, <2>2 DEF BcastSend, BcastLoop, BcastLoopOf, ReduceLoopOf
    <3>2. \A p \in Rank \ {r} : cursor'[p] = cursor[p]
      BY <2>2 DEF Advance, TypeOK
    <3> QED BY <2>2, <3>1, <3>2, OneLoop
  <2> QED BY <1>2, <2>1, <2>2
<1>7. ASSUME NEW r \in Rank, ReduceRecv(r) PROVE BcastLoop' /\ ReduceLoop'
  <2>1. \/ LeaveLoop(r)
        \/ \E m \in mailbox :
             /\ TakeFirst(m, cursor[r], r, ReduceTag)
             /\ m.payload.form = "number"
             /\ Advance(r)
             /\ values' = [values EXCEPT ![r] = @ \cup {m.payload}]
             /\ UNCHANGED pc
    BY <1>7 DEF ReduceRecv
  <2>2. ASSUME NEW m \in mailbox,
               TakeFirst(m, cursor[r], r, ReduceTag),
               m.payload.form = "number",
               Advance(r),
               values' = [values EXCEPT ![r] = @ \cup {m.payload}],
               UNCHANGED pc
        PROVE  BcastLoop' /\ ReduceLoop'
    <3> DEFINE v == m.payload
    <3>1. v.by = cursor[r] /\ v.form = "number"
      BY <2>2 DEF TakeFirst, Matching, Matches, SenderNamed
    <3>2. pc[r] = "reduce" /\ ReduceLoopOf(r)
      BY <1>7 DEF ReduceRecv, ReduceLoop, ReduceLoopOf
    <3>3. /\ \A w \in values[r] \cup {v} :
               w.form = "number" /\ (w.by = r \/ w.by < cursor[r] + 1)
          /\ \A p \in Rank : p = r \/ p < cursor[r] + 1 =>
               \E w \in values[r] \cup {v} : w.by = p
          /\ \A w, x \in values[r] \cup {v} : w.by = x.by => w = x
      <4> HIDE DEF v
      <4> QED BY <3>1, <3>2, ReduceGrows
    <3>4. values'[r] = values[r] \cup {v} /\ cursor'[r] = NextPeer(r, cursor[r] + 1)
      BY <2>2 DEF TypeOK, Advance
    <3>5. \A w \in values[r] \cup {v} : w.by \in Int
      <4>1. v \in Payload /\ values[r] \subseteq Payload
        BY DEF TypeOK, Message
      <4>2. \A w \in Payload : w.by \in Int
        BY DEF Payload, Rank
      <4> QED BY <4>1, <4>2
    <3> HIDE DEF v
    <3>6. cursor[r] \in Int /\ r \in Int /\ \A p \in Rank : p \in Int
      BY DEF TypeOK, Rank
    <3>7. /\ cursor'[r] # r
          /\ \A p \in Rank : p < cursor'[r] => p = r \/ p < cursor[r] + 1
          /\ cursor'[r] >= cursor[r] + 1
          /\ cursor'[r] \in Int
      BY <3>4, <3>6 DEF NextPeer
    <3>8. \A w \in values[r] \cup {v} : w.by < cursor[r] + 1 => w.by < cursor'[r]
      BY <3>5, <3>6, <3>7
    <3>9. ReduceLoopOf(r)'
      BY <3>3, <3>4, <3>7, <3>8 DEF ReduceLoopOf
    <3>10. BcastLoopOf(r)'
      BY <2>2, <3>2 DEF BcastLoopOf
    <3>11. \A p \in Rank \ {r} : cursor'[p] = cursor[p] /\ values'[p] = values[p]
      BY <2>2 DEF Advance, TypeOK
    <3> QED BY <2>2, <3>9, <3>10, <3>11, OneLoop
  <2> QED BY <1>2, <2>1, <2>2
<1> QED BY <1>1, <1>3, <1>4, <1>5, <1>6, <1>7 DEF Next, RankStep

LEMMA LoopNext == LoopInv /\ [Next]_vars => LoopInv'
BY TypeNext, SenderNamedNext, LoopsNext DEF LoopInv

LEMMA LoopCorrect == Spec => []LoopInv
BY LoopInit, LoopNext, PTL DEF Spec

\* A completed reduce at a root has one number of each rank.
LEMMA ReduceStepComplete ==
  ASSUME LoopInv, Next, NEW r \in Rank, RootReduced(r)
  PROVE  OneOfEach(returned'[r].values)
<1> USE DEF LoopInv
<1>1. ASSUME NEW q \in Rank, NEW op \in Origin, NEW peer \in Rank,
             Completes(q, op, peer)
      PROVE  op = "reduce" /\ peer = r /\ q = r
  BY <1>1 DEF Completes, RootReduced, TypeOK, Origin
<1>2. PICK q \in Rank : RankStep(q)
  BY DEF Next
<1>3. done' # done
  BY DEF RootReduced
<1>4. ~(InitRank(q) \/ Finalize(q) \/ Drop(q) \/ Rejected(q) \/ Barrier(q) \/ Recv(q))
  BY <1>3 DEF InitRank, Finalize, Drop, Rejected, Barrier, Recv, historyVars
<1>5. ~(Send(q) \/ BcastRoot(q) \/ BcastSend(q) \/ BcastRecv(q) \/ ReduceContribute(q))
  <2>1. ~Send(q)
    BY <1>1, <1>3 DEF Send, Origin
  <2>2. ~BcastRoot(q)
    BY <1>1, <1>3 DEF BcastRoot, Origin
  <2>3. ~BcastSend(q)
    BY <1>1, <1>3 DEF BcastSend, Origin
  <2>4. ~BcastRecv(q)
    BY <1>1, <1>3, RootsAssumption DEF BcastRecv, Origin
  <2>5. ~ReduceContribute(q)
    BY <1>1, <1>3, RootsAssumption DEF ReduceContribute, Origin
  <2> QED BY <2>1, <2>2, <2>3, <2>4, <2>5
<1>6. CASE ReduceRoot(q)
  <2>1. PICK form \in Forms :
          /\ form = "number"
          /\ Size = 1
          /\ Returns(q, "reduce", "ok", {NewPayload("reduce", q, q, form)})
          /\ Completes(q, "reduce", q)
    BY <1>3, <1>6 DEF ReduceRoot
  <2>2. q = r /\ Rank = {r}
    BY <1>1, <2>1 DEF Origin, Rank
  <2>3. returned'[r].values = {NewPayload("reduce", r, r, form)}
    BY <2>1, <2>2 DEF Returns, TypeOK
  <2>4. NewPayload("reduce", r, r, form).by = r
        /\ NewPayload("reduce", r, r, form).form = "number"
    BY <2>1 DEF NewPayload
  <2> QED BY <2>2, <2>3, <2>4 DEF OneOfEach
<1>7. CASE ReduceRecv(q)
  <2>1. PICK m \in mailbox :
          /\ pc[q] = "reduce"
          /\ TakeFirst(m, cursor[q], q, ReduceTag)
          /\ m.payload.form = "number"
          /\ LastPeer(q)
          /\ Returns(q, "reduce", "ok", values[q] \cup {m.payload})
          /\ Completes(q, "reduce", q)
    BY <1>3, <1>7 DEF ReduceRecv
  <2>2. q = r
    BY <1>1, <2>1 DEF Origin
  <2> DEFINE v == m.payload
  <2>3. v.by = cursor[r] /\ v.form = "number"
    BY <2>1, <2>2 DEF TakeFirst, Matching, Matches, SenderNamed
  <2>4. pc[r] = "reduce" /\ ReduceLoopOf(r)
    BY <2>1, <2>2 DEF ReduceLoop, ReduceLoopOf
  <2>5. returned'[r].values = values[r] \cup {v}
    BY <2>1, <2>2 DEF Returns, TypeOK
  <2> HIDE DEF v
  <2>6. \A p \in Rank : p = r \/ p < cursor[r] + 1
    <3>1. cursor[r] \in Int /\ r \in Int /\ Size \in Int
      BY SizeAssumption DEF TypeOK, Rank
    <3>2. \A p \in Rank : p \in Int /\ p < Size
      BY SizeAssumption DEF Rank
    <3>3. cursor[r] + 1 >= Size \/ (cursor[r] + 1 = r /\ r + 1 >= Size)
      BY <2>1, <2>2, <3>1 DEF LastPeer, NextPeer
    <3> QED BY <3>1, <3>2, <3>3
  <2> QED BY <2>3, <2>4, <2>5, <2>6, ReduceGrows DEF OneOfEach
<1> QED BY <1>2, <1>4, <1>5, <1>6, <1>7 DEF RankStep

\* Whatever comes between the iterations of its loop, a reduce that returns
\* to its root has combined one number of each rank.
THEOREM ReduceCompleteHolds == Spec => ReduceComplete
<1>1. LoopInv /\ [Next]_vars =>
        [\A r \in Rank : RootReduced(r) => OneOfEach(returned'[r].values)]_vars
  BY ReduceStepComplete
<1> QED BY <1>1, LoopCorrect, PTL DEF Spec, ReduceComplete

---------------------------------------------------------------------------
(* Consecutive messages *)

\* The first of consecutive messages is the next call, and leaves the rest.
LEMMA ConsecutiveTake ==
  ASSUME NEW ms, ms \subseteq Message, NEW op, NEW low \in Nat, NEW high \in Nat,
         Consecutive(ms, op, low, high), NEW m \in ms, IsFirst(m, ms)
  PROVE  /\ InRound(m.payload, op, low + 1)
         /\ Consecutive(ms \ {m}, op, low + 1, high)
<1>1. \A x \in ms : x.at \in Nat /\ x.payload.n \in Nat
  BY DEF Message, Payload
<1>2. low < m.payload.n /\ m.payload.n <= high
  BY DEF Consecutive
<1>3. PICK x \in ms : x.payload.n = low + 1
  BY <1>1, <1>2 DEF Consecutive
<1>4. m.payload.n = low + 1
  BY <1>1, <1>2, <1>3 DEF Consecutive, IsFirst
<1>5. \A y \in ms \ {m} : low + 1 < y.payload.n
  BY <1>1, <1>4 DEF Consecutive
<1>6. low + 1 <= high
  BY <1>1, <1>2
<1>7. \A n \in low + 1 + 1 .. high : \E y \in ms \ {m} : y.payload.n = n
  <2> SUFFICES ASSUME NEW n \in low + 1 + 1 .. high
               PROVE  \E y \in ms \ {m} : y.payload.n = n
    OBVIOUS
  <2>1. PICK y \in ms : y.payload.n = n
    BY DEF Consecutive
  <2> QED BY <2>1, <1>4
<1> QED BY <1>4, <1>5, <1>6, <1>7 DEF Consecutive, InRound

\* A newer message of the next call goes to the end.
LEMMA ConsecutivePut ==
  ASSUME NEW ms, ms \subseteq Message, NEW op, NEW low \in Nat, NEW high \in Nat,
         Consecutive(ms, op, low, high), NEW m \in Message,
         InRound(m.payload, op, high + 1), \A x \in ms : x.at < m.at
  PROVE  Consecutive(ms \cup {m}, op, low, high + 1)
<1>1. \A x \in ms \cup {m} : x.at \in Nat /\ x.payload.n \in Nat
  BY DEF Message, Payload
<1>2. \A x \in ms \cup {m} : x.payload.op = op /\ low < x.payload.n /\ x.payload.n <= high + 1
  BY <1>1 DEF Consecutive, InRound
<1>3. \A n \in low + 1 .. high + 1 : \E x \in ms \cup {m} : x.payload.n = n
  <2> SUFFICES ASSUME NEW n \in low + 1 .. high + 1
               PROVE  \E x \in ms \cup {m} : x.payload.n = n
    OBVIOUS
  <2>1. CASE n = high + 1
    BY <2>1 DEF InRound
  <2>2. CASE n # high + 1
    <3>1. n \in low + 1 .. high
      BY <2>2
    <3> QED BY <3>1 DEF Consecutive
  <2> QED BY <2>1, <2>2
<1>4. \A x \in ms : x.payload.n < m.payload.n
  BY <1>1 DEF Consecutive, InRound
<1>5. \A x, y \in ms \cup {m} : x.payload.n = y.payload.n => x = y
  BY <1>1, <1>4 DEF Consecutive
<1>6. \A x, y \in ms \cup {m} : x.payload.n < y.payload.n => x.at < y.at
  BY <1>1, <1>4 DEF Consecutive
<1> QED BY <1>2, <1>3, <1>5, <1>6 DEF Consecutive

---------------------------------------------------------------------------
(* What a step does to a channel *)

\* push_back adds its message to one channel, behind all others.
LEMMA PushOrder ==
  ASSUME TypeOK, ArrivalsPast, NEW r \in Rank, NEW dst \in Rank, NEW tag \in Tag,
         NEW payload \in Payload, PushBack(r, dst, tag, payload)
  PROVE  /\ ArrivalsPast'
         /\ \A s, d, t : <<s, d, t>> # <<r, dst, tag>> =>
              Matching(s, d, t)' = Matching(s, d, t)
         /\ \E m \in Message :
              /\ m.payload = payload
              /\ \A x \in mailbox : x.at < m.at
              /\ Matching(r, dst, tag)' = Matching(r, dst, tag) \cup {m}
<1> DEFINE m == [src |-> r, dst |-> dst, tag |-> tag, payload |-> payload,
                 at |-> arrivals + 1]
<1>1. arrivals \in Nat /\ \A x \in mailbox : x.at \in Nat
  BY DEF TypeOK, Message
<1>2. m \in Message
  BY <1>1 DEF Message
<1>3. m.payload = payload /\ m.src = r /\ m.dst = dst /\ m.tag = tag
      /\ m.at = arrivals + 1
  OBVIOUS
<1>4. mailbox' = mailbox \cup {m} /\ arrivals' = arrivals + 1
  BY DEF PushBack
<1> HIDE DEF m
<1>5. \A x \in mailbox : x.at < m.at
  BY <1>1, <1>3 DEF ArrivalsPast
<1>6. ArrivalsPast'
  BY <1>1, <1>3, <1>4 DEF ArrivalsPast
<1>7. ASSUME NEW s, NEW d, NEW t, <<s, d, t>> # <<r, dst, tag>>
      PROVE  Matching(s, d, t)' = Matching(s, d, t)
  BY <1>3, <1>4, <1>7 DEF Matching, Matches
<1>8. Matching(r, dst, tag)' = Matching(r, dst, tag) \cup {m}
  BY <1>3, <1>4 DEF Matching, Matches
<1> QED BY <1>2, <1>3, <1>5, <1>6, <1>7, <1>8

\* recv takes its message out of one channel.
LEMMA TakeOrder ==
  ASSUME TypeOK, ArrivalsPast, NEW src, NEW dst, NEW tag, NEW m,
         TakeFirst(m, src, dst, tag)
  PROVE  /\ ArrivalsPast'
         /\ \A s, d, t : <<s, d, t>> # <<src, dst, tag>> =>
              Matching(s, d, t)' = Matching(s, d, t)
         /\ m \in Matching(src, dst, tag)
         /\ IsFirst(m, Matching(src, dst, tag))
         /\ Matching(src, dst, tag)' = Matching(src, dst, tag) \ {m}
<1>1. mailbox' = mailbox \ {m} /\ arrivals' = arrivals /\ m \in mailbox
      /\ m.src = src /\ m.dst = dst /\ m.tag = tag
  BY DEF TakeFirst, Matching, Matches
<1>2. ArrivalsPast'
  BY <1>1 DEF ArrivalsPast
<1>3. ASSUME NEW s, NEW d, NEW t, <<s, d, t>> # <<src, dst, tag>>
      PROVE  Matching(s, d, t)' = Matching(s, d, t)
  BY <1>1, <1>3 DEF Matching, Matches
<1>4. Matching(src, dst, tag)' = Matching(src, dst, tag) \ {m}
  BY <1>1 DEF Matching
<1> QED BY <1>2, <1>3, <1>4 DEF TakeFirst

\* The messages of a channel are messages.
LEMMA MatchingType ==
  ASSUME TypeOK, NEW s, NEW d, NEW t
  PROVE  /\ Matching(s, d, t) \subseteq Message
         /\ Matching(s, d, t) \subseteq mailbox
BY DEF TypeOK, Matching

\* A call that completes counts for its own operation, peer and rank only.
LEMMA CompletesOthers ==
  ASSUME TypeOK, NEW q \in Rank, NEW op \in Origin, NEW peer \in Rank,
         Completes(q, op, peer)
  PROVE  /\ done'[op][peer][q] = done[op][peer][q] + 1
         /\ \A o \in Origin, p \in Rank, r \in Rank :
              <<o, p, r>> # <<op, peer, q>> => done'[o][p][r] = done[o][p][r]
BY DEF TypeOK, Completes

---------------------------------------------------------------------------
(* Arrival numbers *)

LEMMA ArrivalsNext ==
  ASSUME MailInv, ArrivalsPast, [Next]_vars
  PROVE  ArrivalsPast'
<1>1. CASE QuietStep
  BY <1>1 DEF QuietStep, ArrivalsPast
<1>2. ASSUME NEW r \in Rank, PushStep(r) PROVE ArrivalsPast'
  BY <1>2, PushOrder DEF PushStep, MailInv
<1>3. ASSUME NEW r \in Rank, FinalizeStep(r) PROVE ArrivalsPast'
  BY <1>3 DEF FinalizeStep, Finalize, ArrivalsPast
<1> QED BY <1>1, <1>2, <1>3, StepKinds DEF MailInv

LEMMA ArrivalsCorrect == Spec => []ArrivalsPast
<1>1. Init => ArrivalsPast
  BY DEF Init, ArrivalsPast
<1> QED BY <1>1, ArrivalsNext, MailCorrect, PTL DEF Spec

---------------------------------------------------------------------------
(* Steps that are nothing to a collective operation *)

\* What one rank's call returns leaves the other ranks' results alone.
LEMMA ReturnsOne ==
  ASSUME TypeOK, NEW r \in Rank, NEW op, NEW outcome, NEW result,
         Returns(r, op, outcome, result)
  PROVE  /\ returned'[r].op = op
         /\ returned'[r].values = result
         /\ \A p \in Rank \ {r} : returned'[p] = returned[p]
BY DEF TypeOK, Returns

\* A result of a collective that was there before, or holds nothing.
ResultsKept(op) ==
  \A r \in Rank : \/ returned'[r] = returned[r]
                  \/ returned'[r].op # op
                  \/ returned'[r].values = {}

\* Neither the channels of a collective nor its loops and counts change.
Untouched(op, tag) ==
  /\ lost \subseteq lost'
  /\ done'[op] = done[op]
  /\ \A r \in Rank : pc'[r] = op <=> pc[r] = op
  /\ \A r \in Rank : pc[r] = op => cursor'[r] = cursor[r] /\ values'[r] = values[r]
  /\ \A s, d \in Rank :
       <<s, d, tag>> \notin lost' => Matching(s, d, tag)' = Matching(s, d, tag)
  /\ ResultsKept(op)

\* The calls that are not collectives, on tags of the caller.
LEMMA OtherCalls ==
  ASSUME TypeOK, ArrivalsPast, NEW op \in {"bcast", "reduce"}, NEW tag \in Tag \ UserTags,
         NEW r \in Rank,
         InitRank(r) \/ Finalize(r) \/ Drop(r) \/ Rejected(r) \/ Barrier(r)
           \/ Send(r) \/ Recv(r)
  PROVE  Untouched(op, tag)
<1> USE DEF mailboxVars, loopVars, historyVars
<1>1. ASSUME UNCHANGED <<mailbox, loopVars, done, lost>>, ResultsKept(op)
      PROVE  Untouched(op, tag)
  BY <1>1 DEF Untouched, Matching
<1>2. CASE InitRank(r) \/ Drop(r)
  BY <1>1, <1>2 DEF InitRank, Drop, ResultsKept
<1>3. CASE Rejected(r)
  <2>1. \E outcome \in Outcome : Throws(r, outcome)
    BY <1>3 DEF Rejected, Outcome
  <2>2. ResultsKept(op)
    BY <2>1, ReturnsOne DEF ResultsKept, Throws
  <2> QED BY <1>1, <1>3, <2>2 DEF Rejected
<1>4. CASE Barrier(r)
  <2>1. ResultsKept(op)
    BY <1>4, ReturnsOne DEF Barrier, ResultsKept
  <2> QED BY <1>1, <1>4, <2>1 DEF Barrier
<1>5. CASE Finalize(r)
  <2>1. ResultsKept(op)
    BY <1>5, ReturnsOne DEF Finalize, ResultsKept
  <2>2. CASE ~initialized[r]
    BY <1>1, <1>5, <2>1, <2>2 DEF Finalize
  <2>3. CASE initialized[r]
    <3>1. /\ mailbox' \subseteq mailbox
          /\ lost' = lost \cup {ChannelOf(m) : m \in mailbox \ mailbox'}
          /\ UNCHANGED <<loopVars, done>>
      BY <1>5, <2>3 DEF Finalize
    <3>2. ASSUME NEW s \in Rank, NEW d \in Rank, <<s, d, tag>> \notin lost'
          PROVE  Matching(s, d, tag)' = Matching(s, d, tag)
      <4>1. \A m \in mailbox : Matches(m, s, d, tag) => ChannelOf(m) = <<s, d, tag>>
        BY DEF Matches, ChannelOf
      <4>2. \A m \in mailbox : Matches(m, s, d, tag) => m \in mailbox'
        BY <3>1, <3>2, <4>1
      <4> QED BY <3>1, <4>2 DEF Matching
    <3> QED BY <2>1, <3>1, <3>2 DEF Untouched
  <2> QED BY <2>2, <2>3
<1>6. CASE Send(r)
  <2>1. PICK dst \in Rank, t \in UserTags, form \in Forms :
          \/ /\ Throws(r, "invalid")
             /\ UNCHANGED <<mailboxVars, done>>
          \/ /\ PushBack(r, dst, t, NewPayload("send", r, dst, form))
             /\ Returns(r, "send", "ok", {})
             /\ Completes(r, "send", dst)
    BY <1>6 DEF Send
  <2>2. ResultsKept(op)
    BY <2>1, ReturnsOne DEF ResultsKept, Throws
  <2>3. UNCHANGED <<loopVars, lost>>
    BY <1>6 DEF Send
  <2>4. CASE UNCHANGED <<mailboxVars, done>>
    BY <1>1, <2>2, <2>3, <2>4
  <2>5. CASE /\ PushBack(r, dst, t, NewPayload("send", r, dst, form))
             /\ Completes(r, "send", dst)
    <3>1. NewPayload("send", r, dst, form) \in Payload /\ t \in Tag
      BY NewPayloadType, TagTypes DEF Origin
    <3>2. \A s, d \in Rank : Matching(s, d, tag)' = Matching(s, d, tag)
      BY <2>5, <3>1, PushOrder
    <3>3. done'[op] = done[op]
      BY <2>5 DEF Completes, TypeOK, Origin
    <3> QED BY <2>2, <2>3, <3>2, <3>3 DEF Untouched
  <2> QED BY <2>1, <2>4, <2>5
<1>7. CASE Recv(r)
  <2>1. PICK src \in Rank, t \in UserTags :
          \/ /\ FindNothing(src, r, t)
             /\ Throws(r, "no_match")
          \/ \E m \in mailbox :
               /\ TakeFirst(m, src, r, t)
               /\ Returns(r, "recv", "ok", {m.payload})
    BY <1>7 DEF Recv
  <2>2. ResultsKept(op)
    <3>1. \/ Throws(r, "no_match")
          \/ \E m \in mailbox : Returns(r, "recv", "ok", {m.payload})
      BY <2>1
    <3>2. returned'[r].op \in {"none", "recv"} /\ \A p \in Rank \ {r} : returned'[p] = returned[p]
      BY <3>1, ReturnsOne DEF Throws
    <3> QED BY <3>2 DEF ResultsKept
  <2>3. UNCHANGED <<loopVars, done, lost>>
    BY <1>7 DEF Recv
  <2>4. CASE FindNothing(src, r, t)
    BY <1>1, <2>2, <2>3, <2>4 DEF FindNothing
  <2>5. ASSUME NEW m \in mailbox, TakeFirst(m, src, r, t)
        PROVE  Untouched(op, tag)
    <3>1. \A s, d \in Rank : Matching(s, d, tag)' = Matching(s, d, tag)
      BY <2>5, TakeOrder
    <3> QED BY <2>2, <2>3, <3>1 DEF Untouched
  <2> QED BY <2>1, <2>4, <2>5
<1> QED BY <1>2, <1>3, <1>4, <1>5, <1>6, <1>7

\* The calls of one collective are nothing to the other.
LEMMA BcastLeavesReduce ==
  ASSUME TypeOK, ArrivalsPast, ReduceTag \notin UserTags, NEW r \in Rank,
         BcastRoot(r) \/ BcastSend(r) \/ BcastRecv(r)
  PROVE  Untouched("reduce", ReduceTag)
<1> USE DEF mailboxVars, loopVars, historyVars
<1>1. CASE BcastRoot(r)
  <2>1. PICK form \in Forms :
          LET payload == NewPayload("bcast", r, r, form) IN
          \/ /\ Returns(r, "bcast", "ok", {payload})
             /\ Completes(r, "bcast", r)
             /\ UNCHANGED loopVars
          \/ /\ Throws(r, "invalid")
             /\ UNCHANGED <<loopVars, done>>
          \/ /\ EnterLoop(r, "bcast", payload)
             /\ UNCHANGED <<returned, done>>
    BY <1>1 DEF BcastRoot
  <2>2. pc[r] = "idle" /\ UNCHANGED <<mailbox, lost>>
    BY <1>1 DEF BcastRoot, Begin
  <2>3. ResultsKept("reduce")
    BY <2>1, ReturnsOne DEF ResultsKept, Throws
  <2>4. done'["reduce"] = done["reduce"]
    BY <2>1 DEF Completes, TypeOK, Origin
  <2>5. /\ \A p \in Rank : pc'[p] = "reduce" <=> pc[p] = "reduce"
        /\ \A p \in Rank : pc[p] = "reduce" =>
             cursor'[p] = cursor[p] /\ values'[p] = values[p]
    BY <2>1, <2>2, EnterLoopOthers
  <2> QED BY <2>2, <2>3, <2>4, <2>5 DEF Untouched, Matching
<1>2. CASE BcastSend(r)
  <2>1. PICK payload \in values[r] :
          /\ PushBack(r, cursor[r], BcastTag, payload)
          /\ \/ /\ Advance(r)
                /\ UNCHANGED <<pc, values, returned, done>>
             \/ /\ LeaveLoop(r)
                /\ Returns(r, "bcast", "ok", {payload})
                /\ Completes(r, "bcast", r)
    BY <1>2 DEF BcastSend
  <2>2. pc[r] = "bcast" /\ UNCHANGED lost
    BY <1>2 DEF BcastSend
  <2>3. payload \in Payload /\ cursor[r] \in Rank
    BY DEF TypeOK
  <2>4. ResultsKept("reduce")
    BY <2>1, ReturnsOne DEF ResultsKept
  <2>5. done'["reduce"] = done["reduce"]
    BY <2>1 DEF Completes, TypeOK, Origin
  <2>6. /\ \A p \in Rank : pc'[p] = "reduce" <=> pc[p] = "reduce"
        /\ \A p \in Rank : pc[p] = "reduce" =>
             cursor'[p] = cursor[p] /\ values'[p] = values[p]
    BY <2>1, <2>2 DEF Advance, LeaveLoop, TypeOK
  <2>7. \A s, d \in Rank : Matching(s, d, ReduceTag)' = Matching(s, d, ReduceTag)
    BY <2>1, <2>3, PushOrder, TagTypes DEF BcastTag, ReduceTag
  <2> QED BY <2>2, <2>4, <2>5, <2>6, <2>7 DEF Untouched
<1>3. CASE BcastRecv(r)
  <2>1. PICK root \in Roots \ {r} :
          \/ /\ FindNothing(root, r, BcastTag)
             /\ Throws(r, "no_match")
             /\ UNCHANGED done
          \/ \E m \in mailbox :
               /\ TakeFirst(m, root, r, BcastTag)
               /\ Returns(r, "bcast", "ok", {m.payload})
               /\ Completes(r, "bcast", root)
    BY <1>3 DEF BcastRecv
  <2>2. UNCHANGED <<loopVars, lost>>
    BY <1>3 DEF BcastRecv
  <2>3. ResultsKept("reduce")
    BY <2>1, ReturnsOne DEF ResultsKept, Throws
  <2>4. done'["reduce"] = done["reduce"]
    BY <2>1 DEF Completes, TypeOK, Origin
  <2>5. \A s, d \in Rank : Matching(s, d, ReduceTag)' = Matching(s, d, ReduceTag)
    <3>1. CASE FindNothing(root, r, BcastTag)
      BY <3>1 DEF FindNothing, Matching
    <3>2. ASSUME NEW m \in mailbox, TakeFirst(m, root, r, BcastTag)
          PROVE  \A s, d \in Rank : Matching(s, d, ReduceTag)' = Matching(s, d, ReduceTag)
      BY <3>2, TakeOrder DEF BcastTag, ReduceTag
    <3> QED BY <2>1, <3>1, <3>2
  <2> QED BY <2>2, <2>3, <2>4, <2>5 DEF Untouched
<1> QED BY <1>1, <1>2, <1>3

LEMMA ReduceLeavesBcast ==
  ASSUME TypeOK, ArrivalsPast, BcastTag \notin UserTags, NEW r \in Rank,
         ReduceContribute(r) \/ ReduceRoot(r) \/ ReduceRecv(r)
  PROVE  Untouched("bcast", BcastTag)
<1> USE DEF mailboxVars, loopVars, historyVars
<1>1. CASE ReduceContribute(r)
  <2>1. PICK root \in Roots \ {r}, form \in Forms :
          LET payload == NewPayload("reduce", r, root, form) IN
          \/ /\ Throws(r, "invalid")
             /\ UNCHANGED <<mailboxVars, done>>
          \/ /\ PushBack(r, root, ReduceTag, payload)
             /\ Returns(r, "reduce", "ok", {payload})
             /\ Completes(r, "reduce", root)
    BY <1>1 DEF ReduceContribute
  <2>2. UNCHANGED <<loopVars, lost>>
    BY <1>1 DEF ReduceContribute
  <2>3. ResultsKept("bcast")
    BY <2>1, ReturnsOne DEF ResultsKept, Throws
  <2>4. done'["bcast"] = done["bcast"]
    BY <2>1 DEF Completes, TypeOK, Origin
  <2>5. \A s, d \in Rank : Matching(s, d, BcastTag)' = Matching(s, d, BcastTag)
    <3>1. CASE UNCHANGED mailbox
      BY <3>1 DEF Matching
    <3>2. CASE PushBack(r, root, ReduceTag, NewPayload("reduce", r, root, form))
      <4>1. root \in Rank /\ NewPayload("reduce", r, root, form) \in Payload
        BY RootsAssumption, NewPayloadType DEF Origin
      <4> QED BY <3>2, <4>1, PushOrder, TagTypes DEF BcastTag, ReduceTag
    <3> QED BY <2>1, <3>1, <3>2
  <2> QED BY <2>2, <2>3, <2>4, <2>5 DEF Untouched
<1>2. CASE ReduceRoot(r)
  <2>1. PICK form \in Forms :
          LET payload == NewPayload("reduce", r, r, form) IN
          \/ /\ Throws(r, "invalid")
             /\ UNCHANGED <<loopVars, done>>
          \/ /\ Returns(r, "reduce", "ok", {payload})
             /\ Completes(r, "reduce", r)
             /\ UNCHANGED loopVars
          \/ /\ EnterLoop(r, "reduce", payload)
             /\ UNCHANGED <<returned, done>>
    BY <1>2 DEF ReduceRoot
  <2>2. pc[r] = "idle" /\ UNCHANGED <<mailbox, lost>>
    BY <1>2 DEF ReduceRoot, Begin
  <2>3. ResultsKept("bcast")
    BY <2>1, ReturnsOne DEF ResultsKept, Throws
  <2>4. done'["bcast"] = done["bcast"]
    BY <2>1 DEF Completes, TypeOK, Origin
  <2>5. /\ \A p \in Rank : pc'[p] = "bcast" <=> pc[p] = "bcast"
        /\ \A p \in Rank : pc[p] = "bcast" =>
             cursor'[p] = cursor[p] /\ values'[p] = values[p]
    BY <2>1, <2>2, EnterLoopOthers
  <2> QED BY <2>2, <2>3, <2>4, <2>5 DEF Untouched, Matching
<1>3. CASE ReduceRecv(r)
  <2>1. pc[r] = "reduce" /\ lost \subseteq lost'
    BY <1>3 DEF ReduceRecv
  <2>2. \/ LeaveLoop(r)
        \/ UNCHANGED pc /\ \A p \in Rank \ {r} :
             cursor'[p] = cursor[p] /\ values'[p] = values[p]
    <3>1. \/ LeaveLoop(r)
          \/ \E m \in mailbox : /\ Advance(r)
                                /\ values' = [values EXCEPT ![r] = @ \cup {m.payload}]
                                /\ UNCHANGED pc
      BY <1>3 DEF ReduceRecv
    <3> QED BY <3>1 DEF Advance, TypeOK
  <2>3. /\ \A p \in Rank : pc'[p] = "bcast" <=> pc[p] = "bcast"
        /\ \A p \in Rank : pc[p] = "bcast" =>
             cursor'[p] = cursor[p] /\ values'[p] = values[p]
    BY <2>1, <2>2 DEF LeaveLoop, TypeOK
  <2>4. ResultsKept("bcast")
    <3>1. \/ UNCHANGED returned
          \/ Throws(r, "no_match")
          \/ Throws(r, "invalid")
          \/ \E m \in mailbox : Returns(r, "reduce", "ok", values[r] \cup {m.payload})
      BY <1>3 DEF ReduceRecv
    <3>2. CASE UNCHANGED returned
      BY <3>2 DEF ResultsKept
    <3>3. CASE \E outcome, result :
                 Returns(r, "none", outcome, result) \/ Returns(r, "reduce", outcome, result)
      <4>1. returned'[r].op \in {"none", "reduce"} /\ \A p \in Rank \ {r} : returned'[p] = returned[p]
        BY <3>3, ReturnsOne
      <4> QED BY <4>1 DEF ResultsKept
    <3> QED BY <3>1, <3>2, <3>3 DEF Throws
  <2>5. done'["bcast"] = done["bcast"]
    <3>1. UNCHANGED done \/ Completes(r, "reduce", r)
      BY <1>3 DEF ReduceRecv
    <3> QED BY <3>1 DEF Completes, TypeOK, Origin
  <2>6. \A s, d \in Rank : Matching(s, d, BcastTag)' = Matching(s, d, BcastTag)
    <3>1. CASE FindNothing(cursor[r], r, ReduceTag)
      BY <3>1 DEF FindNothing, Matching
    <3>2. ASSUME NEW m \in mailbox, TakeFirst(m, cursor[r], r, ReduceTag)
          PROVE  \A s, d \in Rank : Matching(s, d, BcastTag)' = Matching(s, d, BcastTag)
      BY <3>2, TakeOrder DEF BcastTag, ReduceTag
    <3> QED BY <1>3, <3>1, <3>2 DEF ReduceRecv
  <2> QED BY <2>1, <2>3, <2>4, <2>5, <2>6 DEF Untouched
<1> QED BY <1>1, <1>2, <1>3

---------------------------------------------------------------------------
(* The rounds of reduce *)

\* The channels hold their contributions in order, the loops their round,
\* and the results their numbers, if a step is nothing to reduce.
LEMMA ReduceUntouched ==
  ASSUME ReduceRounds, ReduceTag \notin UserTags, TypeOK, Untouched("reduce", ReduceTag)
  PROVE  ReduceRounds'
<1>1. ReduceOrder'
  <2> SUFFICES ASSUME NEW s \in Rank, NEW d \in Rank, s # d,
                      <<s, d, ReduceTag>> \notin lost'
               PROVE  Consecutive(Matching(s, d, ReduceTag), "reduce",
                                  Combined(s, d), done["reduce"][d][s])'
    BY DEF ReduceOrder
  <2>1. Combined(s, d)' = Combined(s, d)
    BY DEF Untouched, Combined
  <2>2. <<s, d, ReduceTag>> \notin lost
        /\ Matching(s, d, ReduceTag)' = Matching(s, d, ReduceTag)
        /\ done'["reduce"][d][s] = done["reduce"][d][s]
    BY DEF Untouched
  <2> QED BY <2>1, <2>2 DEF ReduceRounds, ReduceOrder, Consecutive
<1>2. ReduceRound'
  BY DEF Untouched, ReduceRounds, ReduceRound, InRound
<1>3. ReduceAligned'
  BY DEF Untouched, ResultsKept, ReduceRounds, ReduceAligned, InRound
<1> QED BY <1>1, <1>2, <1>3 DEF ReduceRounds

\* The receiver of a channel and what it has combined of it are numbers.
LEMMA CountTypes ==
  ASSUME TypeOK, NEW s \in Rank, NEW d \in Rank
  PROVE  /\ done["reduce"][d][s] \in Nat
         /\ done["bcast"][s][d] \in Nat
         /\ Combined(s, d) \in Nat
         /\ Broadcast(s, d) \in Nat
<1>1. \A op \in Origin, p \in Rank, r \in Rank : done[op][p][r] \in Nat
  BY DEF TypeOK
<1> QED BY <1>1 DEF Combined, Broadcast, Origin

\* A contribution goes to the end of its channel, and counts.
LEMMA ContributeRounds ==
  ASSUME LoopInv, ArrivalsPast, ReduceRounds, ReduceTag \notin UserTags,
         NEW r \in Rank, ReduceContribute(r)
  PROVE  ReduceRounds'
<1> USE DEF mailboxVars, loopVars, historyVars
<1>1. TypeOK
  BY DEF LoopInv
<1>2. PICK root \in Roots \ {r}, form \in Forms :
        LET payload == NewPayload("reduce", r, root, form) IN
        \/ /\ Throws(r, "invalid")
           /\ UNCHANGED <<mailboxVars, done>>
        \/ /\ PushBack(r, root, ReduceTag, payload)
           /\ Returns(r, "reduce", "ok", {payload})
           /\ Completes(r, "reduce", root)
  BY DEF ReduceContribute
<1>3. UNCHANGED <<loopVars, lost>>
  BY DEF ReduceContribute
<1>4. CASE /\ Throws(r, "invalid")
           /\ UNCHANGED <<mailboxVars, done>>
  <2>1. ResultsKept("reduce")
    BY <1>1, <1>4, ReturnsOne DEF ResultsKept, Throws
  <2>2. Untouched("reduce", ReduceTag)
    BY <1>3, <1>4, <2>1 DEF Untouched, Matching
  <2> QED BY <1>1, <2>2, ReduceUntouched
<1> DEFINE payload == NewPayload("reduce", r, root, form)
<1>5. CASE /\ PushBack(r, root, ReduceTag, payload)
           /\ Returns(r, "reduce", "ok", {payload})
           /\ Completes(r, "reduce", root)
  <2>1. root \in Rank /\ root # r /\ payload \in Payload
    BY <1>1, RootsAssumption, NewPayloadType DEF Origin
  <2>2. payload.by = r /\ InRound(payload, "reduce", done["reduce"][root][r] + 1)
    BY DEF NewPayload, InRound
  <2> HIDE DEF payload
  <2>3. /\ done'["reduce"][root][r] = done["reduce"][root][r] + 1
        /\ \A p, q \in Rank : <<p, q>> # <<root, r>> =>
             done'["reduce"][p][q] = done["reduce"][p][q]
    BY <1>1, <1>5, <2>1, CompletesOthers DEF Origin
  <2>4. \A p \in Rank : done'["reduce"][p][p] = done["reduce"][p][p]
    BY <2>1, <2>3
  <2>5. \A s, d \in Rank : Combined(s, d)' = Combined(s, d)
    BY <1>3, <2>4 DEF Combined
  <2>6. /\ \A s, d \in Rank : <<s, d>> # <<r, root>> =>
             Matching(s, d, ReduceTag)' = Matching(s, d, ReduceTag)
        /\ \E m \in Message :
             /\ m.payload = payload
             /\ \A x \in mailbox : x.at < m.at
             /\ Matching(r, root, ReduceTag)' = Matching(r, root, ReduceTag) \cup {m}
    BY <1>1, <1>5, <2>1, PushOrder, TagTypes
  <2>7. ReduceOrder'
    <3> SUFFICES ASSUME NEW s \in Rank, NEW d \in Rank, s # d,
                        <<s, d, ReduceTag>> \notin lost
                 PROVE  Consecutive(Matching(s, d, ReduceTag)', "reduce",
                                    Combined(s, d)', done'["reduce"][d][s])
      BY <1>3 DEF ReduceOrder, Consecutive
    <3>1. Consecutive(Matching(s, d, ReduceTag), "reduce",
                      Combined(s, d), done["reduce"][d][s])
      BY DEF ReduceRounds, ReduceOrder
    <3>2. CASE <<s, d>> # <<r, root>>
      BY <2>3, <2>5, <2>6, <3>1, <3>2
    <3>3. CASE s = r /\ d = root
      <4>1. PICK m \in Message :
               /\ m.payload = payload
               /\ \A x \in mailbox : x.at < m.at
               /\ Matching(r, root, ReduceTag)' = Matching(r, root, ReduceTag) \cup {m}
        BY <2>6
      <4>2. Consecutive(Matching(r, root, ReduceTag) \cup {m}, "reduce",
                        Combined(r, root), done["reduce"][root][r] + 1)
        BY <1>1, <2>1, <2>2, <3>1, <3>3, <4>1, ConsecutivePut, MatchingType, CountTypes
      <4> QED BY <2>3, <2>5, <3>3, <4>1, <4>2
    <3> QED BY <3>2, <3>3
  <2>8. ReduceRound'
    BY <1>3, <2>4 DEF ReduceRounds, ReduceRound, InRound
  <2>9. ReduceAligned'
    <3>1. /\ returned'[r].values = {payload}
          /\ \A p \in Rank \ {r} : returned'[p] = returned[p]
      BY <1>1, <1>5, ReturnsOne
    <3> QED BY <1>3, <2>2, <2>4, <3>1 DEF ReduceRounds, ReduceAligned, InRound
  <2> QED BY <2>7, <2>8, <2>9 DEF ReduceRounds
<1> QED BY <1>2, <1>4, <1>5

\* A root that enters its loop has taken nothing yet.
LEMMA RootRounds ==
  ASSUME LoopInv, LoopInv', ReduceRounds, ReduceTag \notin UserTags,
         NEW r \in Rank, ReduceRoot(r)
  PROVE  ReduceRounds'
<1> USE DEF mailboxVars, loopVars, historyVars
<1>1. TypeOK /\ TypeOK'
  BY DEF LoopInv
<1>2. PICK form \in Forms :
        LET payload == NewPayload("reduce", r, r, form) IN
        \/ /\ Throws(r, "invalid")
           /\ UNCHANGED <<loopVars, done>>
        \/ Size = 1
        \/ /\ EnterLoop(r, "reduce", payload)
           /\ UNCHANGED <<returned, done>>
  BY DEF ReduceRoot
<1>3. pc[r] = "idle" /\ UNCHANGED <<mailbox, lost>>
  BY DEF ReduceRoot, Begin
<1>4. CASE /\ Throws(r, "invalid")
           /\ UNCHANGED <<loopVars, done>>
  <2>1. ResultsKept("reduce")
    BY <1>1, <1>4, ReturnsOne DEF ResultsKept, Throws
  <2>2. Untouched("reduce", ReduceTag)
    BY <1>3, <1>4, <2>1 DEF Untouched, Matching
  <2> QED BY <1>1, <2>2, ReduceUntouched
<1>5. CASE Size = 1
  <2>1. \A p, q \in Rank : p = q
    BY <1>5 DEF Rank
  <2>2. \A p \in Rank : /\ \A v \in values'[p] : v.by \in Rank
                        /\ \A v \in returned'[p].values : v.by \in Rank
    BY <1>1 DEF TypeOK, Return, Payload
  <2> QED BY <2>1, <2>2 DEF ReduceRounds, ReduceOrder, ReduceRound, ReduceAligned
<1> DEFINE payload == NewPayload("reduce", r, r, form)
<1>6. CASE EnterLoop(r, "reduce", payload) /\ UNCHANGED <<returned, done>>
  <2>1. payload.by = r
    BY DEF NewPayload
  <2> HIDE DEF payload
  <2>2. /\ values'[r] = {payload}
        /\ \A p \in Rank \ {r} : pc'[p] = pc[p] /\ values'[p] = values[p]
    BY <1>1, <1>6, EnterLoopOthers
  <2>3. \A s, d \in Rank : s # d => Combined(s, d)' = Combined(s, d)
    BY <1>3, <1>6, <2>1, <2>2 DEF Combined
  <2>4. ReduceOrder'
    BY <1>3, <1>6, <2>3 DEF ReduceRounds, ReduceOrder, Consecutive, Matching
  <2>5. ReduceRound'
    BY <1>3, <1>6, <2>1, <2>2 DEF ReduceRounds, ReduceRound, InRound
  <2>6. ReduceAligned'
    BY <1>3, <1>6 DEF ReduceRounds, ReduceAligned, InRound
  <2> QED BY <2>4, <2>5, <2>6 DEF ReduceRounds
<1> QED BY <1>2, <1>4, <1>5, <1>6

\* What a root has combined of each channel, when the loop of r ends in failure.
LEMMA FailedCombined ==
  ASSUME TypeOK, NEW r \in Rank, LeaveLoop(r), UNCHANGED done,
         NEW s \in Rank, NEW d \in Rank, s # d, <<s, d, ReduceTag>> \notin Taken(r)
  PROVE  Combined(s, d)' = Combined(s, d)
<1>1. CASE d = r
  <2>1. \A v \in values[r] : v.by # s
    BY <1>1 DEF Taken
  <2> QED BY <1>1, <2>1 DEF LeaveLoop, TypeOK, Combined
<1>2. CASE d # r
  BY <1>2 DEF LeaveLoop, TypeOK, Combined
<1> QED BY <1>1, <1>2

\* A failed reduce spoils the channels that it has taken from.
LEMMA FailedRounds ==
  ASSUME LoopInv, ReduceRounds, ReduceTag \notin UserTags, NEW r \in Rank,
         LeaveLoop(r), UNCHANGED done, NEW outcome, Throws(r, outcome),
         lost \cup Taken(r) \subseteq lost',
         \A s, d \in Rank : <<s, d, ReduceTag>> \notin lost' =>
           Matching(s, d, ReduceTag)' = Matching(s, d, ReduceTag)
  PROVE  ReduceRounds'
<1>1. TypeOK
  BY DEF LoopInv
<1>2. ReduceOrder'
  <2> SUFFICES ASSUME NEW s \in Rank, NEW d \in Rank, s # d,
                      <<s, d, ReduceTag>> \notin lost'
               PROVE  Consecutive(Matching(s, d, ReduceTag)', "reduce",
                                  Combined(s, d)', done'["reduce"][d][s])
    BY DEF ReduceOrder, Consecutive
  <2>1. Combined(s, d)' = Combined(s, d)
    BY <1>1, FailedCombined
  <2> QED BY <2>1 DEF ReduceRounds, ReduceOrder
<1>3. ReduceRound'
  <2>1. \A p \in Rank : pc'[p] = "reduce" => p # r /\ pc[p] = "reduce" /\ values'[p] = values[p]
    BY <1>1 DEF LeaveLoop, TypeOK
  <2> QED BY <2>1 DEF ReduceRounds, ReduceRound, InRound
<1>4. ReduceAligned'
  <2>1. /\ returned'[r].values = {}
        /\ \A p \in Rank \ {r} : returned'[p] = returned[p]
    BY <1>1, ReturnsOne DEF Throws
  <2> QED BY <2>1 DEF ReduceRounds, ReduceAligned, InRound
<1> QED BY <1>2, <1>3, <1>4 DEF ReduceRounds

\* What the loop takes is the next contribution of the rank at its cursor.
LEMMA TakenInRound ==
  ASSUME LoopInv, ArrivalsPast, ReduceRounds, ReduceTag \notin UserTags, NEW r \in Rank,
         pc[r] = "reduce", NEW c \in Rank, c = cursor[r],
         NEW m \in mailbox, TakeFirst(m, c, r, ReduceTag)
  PROVE  /\ m.payload.by = c /\ c # r
         /\ \A v \in values[r] : v.by # c
         /\ <<c, r, ReduceTag>> \notin lost =>
              /\ InRound(m.payload, "reduce", done["reduce"][r][r] + 1)
              /\ Consecutive(Matching(c, r, ReduceTag)', "reduce",
                             done["reduce"][r][r] + 1, done["reduce"][r][c])
<1>1. TypeOK
  BY DEF LoopInv
<1>2. c # r /\ c \in Int
  BY <1>1 DEF LoopInv, ReduceLoop, TypeOK, Rank
<1>3. m.payload.by = c
  BY DEF TakeFirst, Matching, Matches, LoopInv, SenderNamed
<1>4. \A v \in values[r] : v.by # c
  <2>1. \A v \in values[r] : v.by = r \/ v.by < c
    BY DEF LoopInv, ReduceLoop
  <2>2. ~(c < c)
    BY <1>2
  <2> QED BY <1>2, <2>1, <2>2
<1>5. ASSUME <<c, r, ReduceTag>> \notin lost
      PROVE  /\ InRound(m.payload, "reduce", done["reduce"][r][r] + 1)
             /\ Consecutive(Matching(c, r, ReduceTag)', "reduce",
                            done["reduce"][r][r] + 1, done["reduce"][r][c])
  <2>1. Combined(c, r) = done["reduce"][r][r]
    BY <1>4 DEF Combined
  <2>2. Consecutive(Matching(c, r, ReduceTag), "reduce",
                    done["reduce"][r][r], done["reduce"][r][c])
    BY <1>2, <1>5, <2>1 DEF ReduceRounds, ReduceOrder
  <2>3. /\ m \in Matching(c, r, ReduceTag)
        /\ IsFirst(m, Matching(c, r, ReduceTag))
        /\ Matching(c, r, ReduceTag)' = Matching(c, r, ReduceTag) \ {m}
    BY <1>1, TakeOrder
  <2>4. Matching(c, r, ReduceTag) \subseteq Message
    BY <1>1, MatchingType
  <2>5. done["reduce"][r][r] \in Nat /\ done["reduce"][r][c] \in Nat
    BY <1>1, <1>2, CountTypes
  <2> DEFINE ms == Matching(c, r, ReduceTag)
             low == done["reduce"][r][r]
             high == done["reduce"][r][c]
  <2>6. Consecutive(ms, "reduce", low, high) /\ m \in ms /\ IsFirst(m, ms)
        /\ ms \subseteq Message /\ low \in Nat /\ high \in Nat
    BY <2>2, <2>3, <2>4, <2>5
  <2>7. Matching(c, r, ReduceTag)' = ms \ {m}
    BY <2>3
  <2> HIDE DEF ms, low, high
  <2>8. InRound(m.payload, "reduce", low + 1)
        /\ Consecutive(ms \ {m}, "reduce", low + 1, high)
    BY <2>6, ConsecutiveTake
  <2> QED BY <2>7, <2>8 DEF low, high
<1> QED BY <1>2, <1>3, <1>4, <1>5

\* The loop takes one contribution and goes on.
LEMMA TakingRounds ==
  ASSUME LoopInv, ArrivalsPast, ReduceRounds, ReduceTag \notin UserTags, NEW r \in Rank,
         pc[r] = "reduce", NEW c \in Rank, c = cursor[r],
         NEW m \in mailbox, TakeFirst(m, c, r, ReduceTag),
         values' = [values EXCEPT ![r] = @ \cup {m.payload}],
         UNCHANGED <<pc, returned, done, lost>>
  PROVE  ReduceRounds'
<1> DEFINE v == m.payload
<1>1. TypeOK
  BY DEF LoopInv
<1>2. /\ v.by = c /\ c # r
      /\ \A w \in values[r] : w.by # c
      /\ <<c, r, ReduceTag>> \notin lost =>
           /\ InRound(v, "reduce", done["reduce"][r][r] + 1)
           /\ Consecutive(Matching(c, r, ReduceTag)', "reduce",
                          done["reduce"][r][r] + 1, done["reduce"][r][c])
  BY TakenInRound
<1>3. \A s, d \in Rank : <<s, d>> # <<c, r>> =>
        Matching(s, d, ReduceTag)' = Matching(s, d, ReduceTag)
  BY <1>1, TakeOrder
<1>4. /\ values'[r] = values[r] \cup {v}
      /\ \A p \in Rank \ {r} : values'[p] = values[p]
  BY <1>1 DEF TypeOK
<1> HIDE DEF v
<1>5. ReduceOrder'
  <2> SUFFICES ASSUME NEW s \in Rank, NEW d \in Rank, s # d,
                      <<s, d, ReduceTag>> \notin lost
               PROVE  Consecutive(Matching(s, d, ReduceTag)', "reduce",
                                  Combined(s, d)', done["reduce"][d][s])
    BY DEF ReduceOrder, Consecutive
  <2>1. CASE s = c /\ d = r
    BY <1>2, <1>4, <2>1 DEF Combined
  <2>2. CASE <<s, d>> # <<c, r>>
    <3>1. Combined(s, d)' = Combined(s, d)
      BY <1>2, <1>4, <2>2 DEF Combined
    <3> QED BY <1>3, <2>2, <3>1 DEF ReduceRounds, ReduceOrder
  <2> QED BY <2>1, <2>2
<1>6. ReduceRound'
  BY <1>2, <1>4 DEF ReduceRounds, ReduceRound, InRound
<1>7. ReduceAligned'
  BY DEF ReduceRounds, ReduceAligned, InRound
<1> QED BY <1>5, <1>6, <1>7 DEF ReduceRounds

\* The loop ends with the contribution of its last peer: its round is over.
LEMMA LastPeerTaken ==
  ASSUME TypeOK, NEW r \in Rank, cursor[r] # r, LastPeer(r), NEW p \in Rank
  PROVE  p = r \/ p < cursor[r] \/ p = cursor[r]
<1>1. cursor[r] \in Int /\ r \in Int /\ Size \in Int /\ p \in Int /\ p < Size
  BY SizeAssumption DEF TypeOK, Rank
<1>2. r < Size
  BY SizeAssumption DEF Rank
<1>3. cursor[r] + 1 >= Size \/ (cursor[r] + 1 = r /\ r + 1 >= Size)
  BY <1>1 DEF LastPeer, NextPeer
<1> QED BY <1>1, <1>2, <1>3

LEMMA EndingRounds ==
  ASSUME LoopInv, ArrivalsPast, ReduceRounds, ReduceTag \notin UserTags, NEW r \in Rank,
         pc[r] = "reduce", NEW c \in Rank, c = cursor[r],
         NEW m \in mailbox, TakeFirst(m, c, r, ReduceTag),
         LastPeer(r), LeaveLoop(r), Completes(r, "reduce", r),
         Returns(r, "reduce", "ok", values[r] \cup {m.payload}), UNCHANGED lost
  PROVE  ReduceRounds'
<1> DEFINE v == m.payload
           n == done["reduce"][r][r] + 1
<1>1. TypeOK
  BY DEF LoopInv
<1>2. /\ v.by = c /\ c # r
      /\ \A w \in values[r] : w.by # c
      /\ <<c, r, ReduceTag>> \notin lost =>
           /\ InRound(v, "reduce", n)
           /\ Consecutive(Matching(c, r, ReduceTag)', "reduce", n, done["reduce"][r][c])
  BY TakenInRound
<1>3. \A s, d \in Rank : <<s, d>> # <<c, r>> =>
        Matching(s, d, ReduceTag)' = Matching(s, d, ReduceTag)
  BY <1>1, TakeOrder
<1>4. /\ done'["reduce"][r][r] = n
      /\ \A p, q \in Rank : <<p, q>> # <<r, r>> =>
           done'["reduce"][p][q] = done["reduce"][p][q]
  BY <1>1, CompletesOthers DEF Origin
<1>5. /\ pc'[r] = "idle"
      /\ \A p \in Rank \ {r} : pc'[p] = pc[p] /\ values'[p] = values[p]
  BY <1>1 DEF LeaveLoop, TypeOK
<1>6. \A s \in Rank : s # r /\ s # c => \E w \in values[r] : w.by = s
  BY <1>1, <1>2, LastPeerTaken DEF LoopInv, ReduceLoop
<1>7. /\ returned'[r].values = values[r] \cup {v}
      /\ \A p \in Rank \ {r} : returned'[p] = returned[p]
  BY <1>1, ReturnsOne
<1> HIDE DEF v, n
<1>8. ReduceOrder'
  <2> SUFFICES ASSUME NEW s \in Rank, NEW d \in Rank, s # d,
                      <<s, d, ReduceTag>> \notin lost
               PROVE  Consecutive(Matching(s, d, ReduceTag)', "reduce",
                                  Combined(s, d)', done'["reduce"][d][s])
    BY DEF ReduceOrder, Consecutive
  <2>1. Consecutive(Matching(s, d, ReduceTag), "reduce",
                    Combined(s, d), done["reduce"][d][s])
    BY DEF ReduceRounds, ReduceOrder
  <2>2. CASE s = c /\ d = r
    BY <1>2, <1>4, <1>5, <2>2 DEF Combined
  <2>3. CASE s # c /\ d = r
    <3>1. Combined(s, r) = n /\ Combined(s, r)' = n
      BY <1>4, <1>5, <1>6, <2>3 DEF Combined, n
    <3> QED BY <1>3, <1>4, <2>1, <2>3, <3>1
  <2>4. CASE d # r
    <3>1. Combined(s, d)' = Combined(s, d)
      BY <1>4, <1>5, <2>4 DEF Combined
    <3> QED BY <1>3, <1>4, <2>1, <2>4, <3>1
  <2> QED BY <2>2, <2>3, <2>4
<1>9. ReduceRound'
  BY <1>4, <1>5 DEF ReduceRounds, ReduceRound, InRound
<1>10. ReduceAligned'
  <2>1. \A w \in values[r] : w.by # r /\ <<w.by, r, ReduceTag>> \notin lost =>
          InRound(w, "reduce", n)
    BY DEF ReduceRounds, ReduceRound, n
  <2> QED BY <1>2, <1>4, <1>7, <2>1 DEF ReduceRounds, ReduceAligned, InRound
<1> QED BY <1>8, <1>9, <1>10 DEF ReduceRounds

LEMMA RootRecvRounds ==
  ASSUME LoopInv, ArrivalsPast, ReduceRounds, ReduceTag \notin UserTags,
         NEW r \in Rank, ReduceRecv(r)
  PROVE  ReduceRounds'
<1>1. TypeOK /\ pc[r] = "reduce"
  BY DEF LoopInv, ReduceRecv
<1> PICK c \in Rank : c = cursor[r]
  BY <1>1 DEF TypeOK
<1>2. CASE /\ FindNothing(cursor[r], r, ReduceTag)
           /\ LeaveLoop(r)
           /\ Throws(r, "no_match")
           /\ lost' = lost \cup Taken(r)
           /\ UNCHANGED done
  <2>1. \A s, d \in Rank : Matching(s, d, ReduceTag)' = Matching(s, d, ReduceTag)
    BY <1>2 DEF FindNothing, Matching
  <2> QED BY <1>2, <2>1, FailedRounds
<1>3. ASSUME NEW m \in mailbox,
             TakeFirst(m, c, r, ReduceTag),
             LeaveLoop(r),
             Throws(r, "invalid"),
             lost' = lost \cup Taken(r) \cup {ChannelOf(m)},
             UNCHANGED done
      PROVE  ReduceRounds'
  <2>1. ChannelOf(m) = <<c, r, ReduceTag>>
    BY <1>3 DEF TakeFirst, Matching, Matches, ChannelOf
  <2>2. \A s, d \in Rank : <<s, d, ReduceTag>> \notin lost' =>
          Matching(s, d, ReduceTag)' = Matching(s, d, ReduceTag)
    BY <1>1, <1>3, <2>1, TakeOrder
  <2> QED BY <1>3, <2>2, FailedRounds
<1>4. ASSUME NEW m \in mailbox,
             TakeFirst(m, c, r, ReduceTag),
             values' = [values EXCEPT ![r] = @ \cup {m.payload}],
             UNCHANGED <<pc, returned, done, lost>>
      PROVE  ReduceRounds'
  BY <1>1, <1>4, TakingRounds
<1>5. ASSUME NEW m \in mailbox,
             TakeFirst(m, c, r, ReduceTag),
             LastPeer(r), LeaveLoop(r),
             Returns(r, "reduce", "ok", values[r] \cup {m.payload}),
             Completes(r, "reduce", r),
             UNCHANGED lost
      PROVE  ReduceRounds'
  BY <1>1, <1>5, EndingRounds
<1> QED BY <1>2, <1>3, <1>4, <1>5 DEF ReduceRecv

LEMMA ReduceRoundsNext ==
  ASSUME LoopInv, LoopInv', ArrivalsPast, ReduceRounds, [Next]_vars
  PROVE  ReduceRounds'
<1>1. CASE ReduceTag \in UserTags
  BY <1>1 DEF ReduceRounds, ReduceOrder, ReduceRound, ReduceAligned
<1>2. CASE ReduceTag \notin UserTags
  <2>1. TypeOK /\ ReduceTag \in Tag \ UserTags
    BY <1>2, TagTypes DEF LoopInv
  <2>2. CASE UNCHANGED vars
    <3>1. Untouched("reduce", ReduceTag)
      BY <2>2 DEF vars, Untouched, ResultsKept, Matching
    <3> QED BY <1>2, <2>1, <3>1, ReduceUntouched
  <2>3. ASSUME NEW r \in Rank,
               InitRank(r) \/ Finalize(r) \/ Drop(r) \/ Rejected(r) \/ Barrier(r)
                 \/ Send(r) \/ Recv(r)
        PROVE  ReduceRounds'
    BY <1>2, <2>1, <2>3, OtherCalls, ReduceUntouched
  <2>4. ASSUME NEW r \in Rank, BcastRoot(r) \/ BcastSend(r) \/ BcastRecv(r)
        PROVE  ReduceRounds'
    BY <1>2, <2>1, <2>4, BcastLeavesReduce, ReduceUntouched
  <2>5. ASSUME NEW r \in Rank, ReduceContribute(r) \/ ReduceRoot(r) \/ ReduceRecv(r)
        PROVE  ReduceRounds'
    BY <1>2, <2>5, ContributeRounds, RootRounds, RootRecvRounds
  <2> QED BY <2>2, <2>3, <2>4, <2>5 DEF Next, RankStep
<1> QED BY <1>1, <1>2

\* The k-th reduce() that a root completes combines the k-th contribution of
\* each rank whose channel to it has lost nothing.
THEOREM ReduceAlignedHolds == Spec => []ReduceAligned
<1>1. Init => ReduceRounds
  <2> SUFFICES ASSUME Init PROVE ReduceRounds
    OBVIOUS
  <2>1. \A s, d, t : Matching(s, d, t) = {}
    BY DEF Init, Matching
  <2>2. ReduceOrder
    BY <2>1 DEF Init, ReduceOrder, Consecutive, Combined, Origin
  <2> QED BY <2>2 DEF Init, NoReturn, ReduceRounds, ReduceRound, ReduceAligned
<1>2. ReduceRounds => ReduceAligned
  BY DEF ReduceRounds
<1> QED BY <1>1, <1>2, ReduceRoundsNext, LoopCorrect, ArrivalsCorrect, PTL DEF Spec

---------------------------------------------------------------------------
(* The rounds of bcast *)

LEMMA BcastUntouched ==
  ASSUME BcastRounds, BcastTag \notin UserTags, TypeOK, Untouched("bcast", BcastTag)
  PROVE  BcastRounds'
<1>1. BcastOrder'
  <2> SUFFICES ASSUME NEW s \in Rank, NEW d \in Rank, s # d,
                      <<s, d, BcastTag>> \notin lost'
               PROVE  Consecutive(Matching(s, d, BcastTag)', "bcast",
                                  done'["bcast"][s][d], Broadcast(s, d)')
    BY DEF BcastOrder, Consecutive
  <2>1. Broadcast(s, d)' = Broadcast(s, d)
    BY DEF Untouched, Broadcast
  <2>2. <<s, d, BcastTag>> \notin lost
        /\ Matching(s, d, BcastTag)' = Matching(s, d, BcastTag)
        /\ done'["bcast"] = done["bcast"]
    BY DEF Untouched
  <2> QED BY <2>1, <2>2 DEF BcastRounds, BcastOrder
<1>2. BcastRound'
  BY DEF Untouched, BcastRounds, BcastRound, InRound
<1>3. BcastAligned'
  BY DEF Untouched, ResultsKept, BcastRounds, BcastAligned, InRound
<1> QED BY <1>1, <1>2, <1>3 DEF BcastRounds

\* Ranks below the first peer of a loop: none but the root itself.
LEMMA FirstPeer ==
  ASSUME NEW r \in Rank, NEW d \in Rank, d < NextPeer(r, 0)
  PROVE  d = r
BY DEF NextPeer, Rank

\* A root that enters its loop has sent nothing yet.
LEMMA EnteringRounds ==
  ASSUME LoopInv, LoopInv', BcastRounds, BcastTag \notin UserTags,
         NEW r \in Rank, BcastRoot(r)
  PROVE  BcastRounds'
<1> USE DEF mailboxVars, loopVars, historyVars
<1>1. TypeOK /\ TypeOK'
  BY DEF LoopInv
<1>2. PICK form \in Forms :
        LET payload == NewPayload("bcast", r, r, form) IN
        \/ /\ Throws(r, "invalid")
           /\ UNCHANGED <<loopVars, done>>
        \/ /\ Size = 1
           /\ UNCHANGED loopVars
        \/ /\ EnterLoop(r, "bcast", payload)
           /\ UNCHANGED <<returned, done>>
  BY DEF BcastRoot
<1>3. pc[r] = "idle" /\ UNCHANGED <<mailbox, lost>>
  BY DEF BcastRoot, Begin
<1>4. CASE /\ Throws(r, "invalid")
           /\ UNCHANGED <<loopVars, done>>
  <2>1. ResultsKept("bcast")
    BY <1>1, <1>4, ReturnsOne DEF ResultsKept, Throws
  <2>2. Untouched("bcast", BcastTag)
    BY <1>3, <1>4, <2>1 DEF Untouched, Matching
  <2> QED BY <1>1, <2>2, BcastUntouched
<1>5. CASE Size = 1 /\ UNCHANGED loopVars
  <2>1. \A p, q \in Rank : p = q
    BY <1>5 DEF Rank
  <2>2. \A p \in Rank : pc'[p] # "bcast"
    BY <1>3, <1>5, <2>1
  <2>3. \A p \in Rank : \A v \in returned'[p].values : v.by \in Rank
    BY <1>1 DEF TypeOK, Return, Payload
  <2> QED BY <2>1, <2>2, <2>3 DEF BcastRounds, BcastOrder, BcastRound, BcastAligned
<1> DEFINE payload == NewPayload("bcast", r, r, form)
<1>6. CASE EnterLoop(r, "bcast", payload) /\ UNCHANGED <<returned, done>>
  <2>1. InRound(payload, "bcast", done["bcast"][r][r] + 1)
    BY DEF NewPayload, InRound
  <2> HIDE DEF payload
  <2>2. /\ pc'[r] = "bcast"
        /\ cursor'[r] = NextPeer(r, 0)
        /\ values'[r] = {payload}
        /\ \A p \in Rank \ {r} : pc'[p] = pc[p] /\ cursor'[p] = cursor[p]
                                   /\ values'[p] = values[p]
    BY <1>1, <1>6, EnterLoopOthers
  <2>3. NextPeer(r, 0) # r
    BY DEF NextPeer
  <2>4. \A s, d \in Rank : s # d => Broadcast(s, d)' = Broadcast(s, d)
    BY <1>3, <1>6, <2>2, FirstPeer DEF Broadcast
  <2>5. BcastOrder'
    BY <1>3, <1>6, <2>4 DEF BcastRounds, BcastOrder, Consecutive, Matching
  <2>6. BcastRound'
    BY <1>6, <2>1, <2>2, <2>3 DEF BcastRounds, BcastRound, InRound
  <2>7. BcastAligned'
    BY <1>3, <1>6 DEF BcastRounds, BcastAligned, InRound
  <2> QED BY <2>5, <2>6, <2>7 DEF BcastRounds
<1> QED BY <1>2, <1>4, <1>5, <1>6

\* How far a loop has come: to the peers before its cursor, then to its cursor.
LEMMA PassesCursor ==
  ASSUME TypeOK, NEW r \in Rank, NEW d \in Rank, d # r, d # cursor[r],
         cursor'[r] = NextPeer(r, cursor[r] + 1)
  PROVE  d < cursor'[r] <=> d < cursor[r]
<1>1. cursor[r] \in Int /\ r \in Int /\ d \in Int
  BY DEF TypeOK, Rank
<1> QED BY <1>1 DEF NextPeer

\* One iteration of the root's loop: its peer's channel gets the payload.
LEMMA SendingRounds ==
  ASSUME LoopInv, ArrivalsPast, BcastRounds, BcastTag \notin UserTags,
         NEW r \in Rank, BcastSend(r)
  PROVE  BcastRounds'
<1>1. TypeOK
  BY DEF LoopInv
<1> PICK c \in Rank : c = cursor[r]
  BY <1>1 DEF TypeOK
<1>2. PICK payload \in values[r] :
        /\ PushBack(r, c, BcastTag, payload)
        /\ \/ /\ Advance(r)
              /\ UNCHANGED <<pc, values, returned, done>>
           \/ /\ LastPeer(r)
              /\ LeaveLoop(r)
              /\ Returns(r, "bcast", "ok", {payload})
              /\ Completes(r, "bcast", r)
  BY DEF BcastSend
<1>3. pc[r] = "bcast" /\ UNCHANGED lost
  BY DEF BcastSend
<1> DEFINE n == done["bcast"][r][r] + 1
<1>4. /\ c # r
      /\ payload \in Payload
      /\ payload.by = r
      /\ InRound(payload, "bcast", n)
  BY <1>1, <1>3 DEF BcastRounds, BcastRound, LoopInv, BcastLoop, TypeOK
<1>5. Broadcast(r, c) = done["bcast"][r][r]
  <2>1. ~(c < c)
    BY DEF Rank
  <2> QED BY <2>1 DEF Broadcast
<1>6. /\ \A s, d \in Rank : <<s, d>> # <<r, c>> =>
           Matching(s, d, BcastTag)' = Matching(s, d, BcastTag)
      /\ \E m \in Message :
           /\ m.payload = payload
           /\ \A x \in mailbox : x.at < m.at
           /\ Matching(r, c, BcastTag)' = Matching(r, c, BcastTag) \cup {m}
  BY <1>1, <1>2, <1>4, PushOrder, TagTypes
<1> HIDE DEF n
<1>7. \A p \in Rank \ {r} : pc'[p] = pc[p] /\ cursor'[p] = cursor[p] /\ values'[p] = values[p]
  BY <1>1, <1>2 DEF Advance, LeaveLoop, TypeOK
<1>8. \A p, q \in Rank : p # q => done'["bcast"][p][q] = done["bcast"][p][q]
  BY <1>1, <1>2, CompletesOthers DEF Origin
<1>9. \A p \in Rank \ {r} : done'["bcast"][p][p] = done["bcast"][p][p]
  BY <1>1, <1>2, CompletesOthers DEF Origin
<1>10. /\ Broadcast(r, c)' = n
       /\ \A d \in Rank : d # r /\ d # c => Broadcast(r, d)' = Broadcast(r, d)
  <2>1. CASE Advance(r) /\ UNCHANGED <<pc, values, returned, done>>
    <3>1. cursor'[r] = NextPeer(r, cursor[r] + 1)
      BY <1>1, <2>1 DEF Advance, TypeOK
    <3>2. c < cursor'[r]
      BY <3>1 DEF NextPeer, Rank
    <3>3. \A d \in Rank : d # r /\ d # c => (d < cursor'[r] <=> d < cursor[r])
      BY <1>1, <3>1, PassesCursor
    <3> QED BY <1>3, <2>1, <3>2, <3>3 DEF Broadcast, n
  <2>2. CASE LastPeer(r) /\ LeaveLoop(r) /\ Completes(r, "bcast", r)
    <3>1. pc'[r] = "idle"
      BY <1>1, <2>2 DEF LeaveLoop, TypeOK
    <3>2. done'["bcast"][r][r] = n
      BY <1>1, <2>2, CompletesOthers DEF Origin, n
    <3>3. \A d \in Rank : d # r /\ d # c => d < cursor[r]
      BY <1>1, <1>4, <2>2, LastPeerTaken
    <3> QED BY <1>3, <3>1, <3>2, <3>3 DEF Broadcast, n
  <2> QED BY <1>2, <2>1, <2>2
<1>11. BcastOrder'
  <2> SUFFICES ASSUME NEW s \in Rank, NEW d \in Rank, s # d,
                      <<s, d, BcastTag>> \notin lost
               PROVE  Consecutive(Matching(s, d, BcastTag)', "bcast",
                                  done'["bcast"][s][d], Broadcast(s, d)')
    BY <1>3 DEF BcastOrder, Consecutive
  <2>1. Consecutive(Matching(s, d, BcastTag), "bcast",
                    done["bcast"][s][d], Broadcast(s, d))
    BY DEF BcastRounds, BcastOrder
  <2>2. CASE s = r /\ d = c
    <3>1. PICK m \in Message :
             /\ m.payload = payload
             /\ \A x \in mailbox : x.at < m.at
             /\ Matching(r, c, BcastTag)' = Matching(r, c, BcastTag) \cup {m}
      BY <1>6
    <3> DEFINE ms == Matching(r, c, BcastTag)
               low == done["bcast"][r][c]
               high == done["bcast"][r][r]
    <3>2. /\ Consecutive(ms, "bcast", low, high)
          /\ ms \subseteq Message /\ ms \subseteq mailbox /\ low \in Nat
      BY <1>1, <1>5, <2>1, <2>2, MatchingType, CountTypes
    <3>3. high \in Nat
      BY <1>1, <1>5, CountTypes
    <3>4. InRound(m.payload, "bcast", high + 1)
      BY <1>4, <3>1 DEF n
    <3>5. Matching(r, c, BcastTag)' = ms \cup {m}
      BY <3>1
    <3> HIDE DEF ms, low, high
    <3>6. Consecutive(ms \cup {m}, "bcast", low, high + 1)
      BY <3>1, <3>2, <3>3, <3>4, ConsecutivePut
    <3> QED BY <1>4, <1>8, <1>10, <2>2, <3>5, <3>6 DEF low, high, n
  <2>3. CASE s = r /\ d # c
    BY <1>6, <1>8, <1>10, <2>1, <2>3
  <2>4. CASE s # r
    <3>1. Broadcast(s, d)' = Broadcast(s, d)
      BY <1>7, <1>9, <2>4 DEF Broadcast
    <3> QED BY <1>6, <1>8, <2>1, <2>4, <3>1
  <2> QED BY <2>2, <2>3, <2>4
<1>12. BcastRound'
  <2>1. CASE Advance(r) /\ UNCHANGED <<pc, values, returned, done>>
    <3>1. cursor'[r] = NextPeer(r, cursor[r] + 1)
      BY <1>1, <2>1 DEF Advance, TypeOK
    <3>2. cursor'[r] # r
      BY <3>1 DEF NextPeer, Rank
    <3> QED BY <1>7, <2>1, <3>2 DEF BcastRounds, BcastRound, InRound
  <2>2. CASE LeaveLoop(r)
    <3>1. pc'[r] = "idle"
      BY <1>1, <2>2 DEF LeaveLoop, TypeOK
    <3> QED BY <1>7, <1>9, <3>1 DEF BcastRounds, BcastRound, InRound
  <2> QED BY <1>2, <2>1, <2>2
<1>13. BcastAligned'
  <2>1. \A p \in Rank : returned'[p] = returned[p] \/ (p = r /\ returned'[p].values = {payload})
    BY <1>1, <1>2, ReturnsOne
  <2>2. \A p \in Rank : \A v \in returned[p].values : v.by \in Rank
    BY <1>1 DEF TypeOK, Return, Payload
  <2> QED BY <1>3, <1>4, <1>8, <2>1, <2>2 DEF BcastRounds, BcastAligned, InRound
<1> QED BY <1>11, <1>12, <1>13 DEF BcastRounds

\* A receiver takes the payload of its own round.
LEMMA ReceivingRounds ==
  ASSUME LoopInv, ArrivalsPast, BcastRounds, BcastTag \notin UserTags,
         NEW r \in Rank, BcastRecv(r)
  PROVE  BcastRounds'
<1> USE DEF mailboxVars, loopVars, historyVars
<1>1. TypeOK
  BY DEF LoopInv
<1>2. PICK root \in Roots \ {r} :
        \/ /\ FindNothing(root, r, BcastTag)
           /\ Throws(r, "no_match")
           /\ UNCHANGED done
        \/ \E m \in mailbox :
             /\ TakeFirst(m, root, r, BcastTag)
             /\ Returns(r, "bcast", "ok", {m.payload})
             /\ Completes(r, "bcast", root)
  BY DEF BcastRecv
<1>3. UNCHANGED <<loopVars, lost>> /\ root \in Rank /\ root # r
  BY RootsAssumption DEF BcastRecv
<1>4. CASE /\ FindNothing(root, r, BcastTag)
           /\ Throws(r, "no_match")
           /\ UNCHANGED done
  <2>1. ResultsKept("bcast")
    BY <1>1, <1>4, ReturnsOne DEF ResultsKept, Throws
  <2>2. Untouched("bcast", BcastTag)
    BY <1>3, <1>4, <2>1 DEF Untouched, FindNothing, Matching
  <2> QED BY <1>1, <2>2, BcastUntouched
<1>5. ASSUME NEW m \in mailbox,
             TakeFirst(m, root, r, BcastTag),
             Returns(r, "bcast", "ok", {m.payload}),
             Completes(r, "bcast", root)
      PROVE  BcastRounds'
  <2> DEFINE ms == Matching(root, r, BcastTag)
             low == done["bcast"][root][r]
             high == Broadcast(root, r)
  <2>1. /\ m \in ms /\ IsFirst(m, ms)
        /\ Matching(root, r, BcastTag)' = ms \ {m}
        /\ \A s, d \in Rank : <<s, d>> # <<root, r>> =>
             Matching(s, d, BcastTag)' = Matching(s, d, BcastTag)
    BY <1>1, <1>5, TakeOrder
  <2>2. m.payload.by = root
    BY <1>5 DEF TakeFirst, Matching, Matches, LoopInv, SenderNamed
  <2>3. ms \subseteq Message /\ low \in Nat /\ high \in Nat
    BY <1>1, <1>3, MatchingType, CountTypes
  <2>4. /\ done'["bcast"][root][r] = low + 1
        /\ \A p, q \in Rank : <<p, q>> # <<root, r>> =>
             done'["bcast"][p][q] = done["bcast"][p][q]
    BY <1>1, <1>3, <1>5, CompletesOthers DEF Origin
  <2>5. \A s, d \in Rank : Broadcast(s, d)' = Broadcast(s, d)
    BY <1>3, <2>4 DEF Broadcast
  <2>6. <<root, r, BcastTag>> \notin lost => Consecutive(ms, "bcast", low, high)
    BY <1>3 DEF BcastRounds, BcastOrder
  <2>7. Broadcast(root, r)' = high
    BY <1>3, <2>5
  <2> HIDE DEF ms, low, high
  <2>8. <<root, r, BcastTag>> \notin lost =>
          /\ InRound(m.payload, "bcast", low + 1)
          /\ Consecutive(ms \ {m}, "bcast", low + 1, high)
    BY <2>1, <2>3, <2>6, ConsecutiveTake
  <2>9. BcastOrder'
    <3> SUFFICES ASSUME NEW s \in Rank, NEW d \in Rank, s # d,
                        <<s, d, BcastTag>> \notin lost
                 PROVE  Consecutive(Matching(s, d, BcastTag)', "bcast",
                                    done'["bcast"][s][d], Broadcast(s, d)')
      BY <1>3 DEF BcastOrder, Consecutive
    <3>1. CASE s = root /\ d = r
      BY <2>1, <2>4, <2>7, <2>8, <3>1
    <3>2. CASE <<s, d>> # <<root, r>>
      BY <2>1, <2>4, <2>5, <3>2 DEF BcastRounds, BcastOrder
    <3> QED BY <3>1, <3>2
  <2>10. BcastRound'
    BY <1>3, <2>4 DEF BcastRounds, BcastRound, InRound
  <2>11. BcastAligned'
    <3>1. /\ returned'[r].values = {m.payload}
          /\ \A p \in Rank \ {r} : returned'[p] = returned[p]
      BY <1>1, <1>5, ReturnsOne
    <3>2. \A p \in Rank : \A v \in returned[p].values : v.by \in Rank
      BY <1>1 DEF TypeOK, Return, Payload
    <3>3. ASSUME NEW p \in Rank, p # r PROVE
            \A v \in returned'[p].values :
              /\ returned'[p].op = "bcast"
              /\ v.by # p
              /\ <<v.by, p, BcastTag>> \notin lost'
              => InRound(v, "bcast", done'["bcast"][v.by][p])
      BY <1>3, <2>4, <3>1, <3>2, <3>3 DEF BcastRounds, BcastAligned, InRound
    <3>4. \A v \in returned'[r].values :
            <<v.by, r, BcastTag>> \notin lost' =>
              InRound(v, "bcast", done'["bcast"][v.by][r])
      BY <1>3, <2>2, <2>4, <2>8, <3>1
    <3> QED BY <3>3, <3>4 DEF BcastAligned, InRound
  <2> QED BY <2>9, <2>10, <2>11 DEF BcastRounds
<1> QED BY <1>2, <1>4, <1>5

LEMMA BcastRoundsNext ==
  ASSUME LoopInv, LoopInv', ArrivalsPast, BcastRounds, [Next]_vars
  PROVE  BcastRounds'
<1>1. CASE BcastTag \in UserTags
  BY <1>1 DEF BcastRounds, BcastOrder, BcastRound, BcastAligned
<1>2. CASE BcastTag \notin UserTags
  <2>1. TypeOK /\ BcastTag \in Tag \ UserTags
    BY <1>2, TagTypes DEF LoopInv
  <2>2. CASE UNCHANGED vars
    <3>1. Untouched("bcast", BcastTag)
      BY <2>2 DEF vars, Untouched, ResultsKept, Matching
    <3> QED BY <1>2, <2>1, <3>1, BcastUntouched
  <2>3. ASSUME NEW r \in Rank,
               InitRank(r) \/ Finalize(r) \/ Drop(r) \/ Rejected(r) \/ Barrier(r)
                 \/ Send(r) \/ Recv(r)
        PROVE  BcastRounds'
    BY <1>2, <2>1, <2>3, OtherCalls, BcastUntouched
  <2>4. ASSUME NEW r \in Rank, BcastRoot(r) \/ BcastSend(r) \/ BcastRecv(r)
        PROVE  BcastRounds'
    BY <1>2, <2>4, EnteringRounds, SendingRounds, ReceivingRounds
  <2>5. ASSUME NEW r \in Rank, ReduceContribute(r) \/ ReduceRoot(r) \/ ReduceRecv(r)
        PROVE  BcastRounds'
    BY <1>2, <2>1, <2>5, ReduceLeavesBcast, BcastUntouched
  <2> QED BY <2>2, <2>3, <2>4, <2>5 DEF Next, RankStep
<1> QED BY <1>1, <1>2

\* The k-th bcast() that a rank completes for a root returns the root's k-th
\* payload, if the channel between them has lost nothing.
THEOREM BcastAlignedHolds == Spec => []BcastAligned
<1>1. Init => BcastRounds
  <2> SUFFICES ASSUME Init PROVE BcastRounds
    OBVIOUS
  <2>1. \A s, d, t : Matching(s, d, t) = {}
    BY DEF Init, Matching
  <2>2. BcastOrder
    BY <2>1 DEF Init, BcastOrder, Consecutive, Broadcast, Origin
  <2> QED BY <2>2 DEF Init, NoReturn, BcastRounds, BcastRound, BcastAligned
<1>2. BcastRounds => BcastAligned
  BY DEF BcastRounds
<1> QED BY <1>1, <1>2, BcastRoundsNext, LoopCorrect, ArrivalsCorrect, PTL DEF Spec

---------------------------------------------------------------------------
(* The queue of a channel *)

\* Of a set of messages: no two arrived at once.
ArrivedApart(ms) == \A m, x \in ms : m.at = x.at => m = x

Position(ms, m) == Cardinality({x \in ms : x.at <= m.at})

\* The messages up to m and up to x: those up to the later one are more.
LEMMA PositionsApart ==
  ASSUME NEW ms, ms \subseteq Message, IsFiniteSet(ms), ArrivedApart(ms)
  PROVE  /\ \A m \in ms : Position(ms, m) \in 1 .. Cardinality(ms)
         /\ \A m, x \in ms : Position(ms, m) = Position(ms, x) => m = x
<1> DEFINE UpTo(m) == {x \in ms : x.at <= m.at}
<1>1. \A x \in ms : x.at \in Nat
  BY DEF Message
<1>2. Cardinality(ms) \in Nat
  BY FS_CardinalityType
<1>3. ASSUME NEW m \in ms
      PROVE  /\ IsFiniteSet(UpTo(m))
             /\ Position(ms, m) = Cardinality(UpTo(m))
             /\ Position(ms, m) \in 1 .. Cardinality(ms)
  <2>1. UpTo(m) \in SUBSET ms /\ m \in UpTo(m)
    BY <1>1
  <2>2. IsFiniteSet(UpTo(m)) /\ Cardinality(UpTo(m)) <= Cardinality(ms)
    BY <2>1, FS_Subset
  <2>3. Cardinality(UpTo(m)) \in Nat /\ Cardinality(UpTo(m)) # 0
    BY <2>1, <2>2, FS_CardinalityType, FS_EmptySet
  <2>4. Position(ms, m) = Cardinality(UpTo(m))
    BY DEF Position
  <2> HIDE DEF UpTo
  <2> QED BY <1>2, <2>2, <2>3, <2>4
<1>4. ASSUME NEW m \in ms, NEW x \in ms, m.at < x.at
      PROVE  Position(ms, m) # Position(ms, x)
  <2>1. UpTo(m) \in SUBSET UpTo(x) /\ x \in UpTo(x) /\ x \notin UpTo(m)
    BY <1>1, <1>4
  <2>2. Cardinality(UpTo(x)) = Cardinality(UpTo(m)) => UpTo(x) = UpTo(m)
    BY <1>3, <2>1, FS_Subset
  <2> HIDE DEF UpTo
  <2> QED BY <1>3, <2>1, <2>2
<1>5. ASSUME NEW m \in ms, NEW x \in ms, Position(ms, m) = Position(ms, x)
      PROVE  m = x
  <2>1. ~(m.at < x.at) /\ ~(x.at < m.at)
    BY <1>4, <1>5
  <2>2. m.at = x.at
    BY <1>1, <2>1
  <2> QED BY <2>2 DEF ArrivedApart
<1> QED BY <1>3, <1>5

\* The positions are 1 .. Cardinality(ms), and Nth is their inverse.
LEMMA NthInverse ==
  ASSUME NEW ms, ms \subseteq Message, IsFiniteSet(ms), ArrivedApart(ms)
  PROVE  /\ \A i \in 1 .. Cardinality(ms) :
              Nth(ms, i) \in ms /\ Position(ms, Nth(ms, i)) = i
         /\ \A m \in ms : Nth(ms, Position(ms, m)) = m
<1> DEFINE size == Cardinality(ms)
           f == [m \in ms |-> Position(ms, m)]
<1>1. size \in Nat
  BY FS_CardinalityType
<1>2. f \in Injection(ms, 1 .. size)
  BY PositionsApart DEF Injection, IsInjective
<1>3. IsFiniteSet(1 .. size) /\ Cardinality(1 .. size) = size
  BY <1>1, FS_Interval
<1>4. f \in Surjection(ms, 1 .. size)
  <2> HIDE DEF f
  <2> QED BY <1>2, <1>3, FS_Injection
<1>5. \A i \in 1 .. size : \E m \in ms : Position(ms, m) = i
  BY <1>4 DEF Surjection
<1>6. ASSUME NEW i \in 1 .. size
      PROVE  Nth(ms, i) \in ms /\ Position(ms, Nth(ms, i)) = i
  BY <1>5 DEF Nth, Position
<1>7. ASSUME NEW m \in ms PROVE Nth(ms, Position(ms, m)) = m
  <2>1. Position(ms, m) \in 1 .. size
    BY PositionsApart
  <2>2. Nth(ms, Position(ms, m)) \in ms
        /\ Position(ms, Nth(ms, Position(ms, m))) = Position(ms, m)
    BY <1>6, <2>1
  <2> QED BY <2>2, PositionsApart
<1> QED BY <1>6, <1>7

\* A queue of payloads.
LEMMA InOrderType ==
  ASSUME NEW ms, ms \subseteq Message, IsFiniteSet(ms), ArrivedApart(ms)
  PROVE  /\ InOrder(ms) \in Seq(Payload)
         /\ Len(InOrder(ms)) = Cardinality(ms)
         /\ \A i \in 1 .. Cardinality(ms) : InOrder(ms)[i] = Nth(ms, i).payload
<1> DEFINE size == Cardinality(ms)
<1>1. size \in Nat
  BY FS_CardinalityType
<1>2. \A i \in 1 .. size : Nth(ms, i).payload \in Payload
  BY NthInverse DEF Message
<1>3. InOrder(ms) = [i \in 1 .. size |-> Nth(ms, i).payload]
  BY DEF InOrder
<1> HIDE DEF size
<1>4. /\ InOrder(ms) \in Seq(Payload)
      /\ Len(InOrder(ms)) = size
      /\ \A i \in 1 .. size : InOrder(ms)[i] = Nth(ms, i).payload
  BY <1>1, <1>2, <1>3
<1> QED BY <1>4 DEF size

LEMMA InOrderEmpty == InOrder({}) = << >>
<1>1. InOrder({}) = [i \in 1 .. 0 |-> Nth({}, i).payload]
  BY FS_EmptySet DEF InOrder
<1> QED BY <1>1

\* A message that arrives after all others goes to the end of the queue.
LEMMA InOrderPut ==
  ASSUME NEW ms, ms \subseteq Message, IsFiniteSet(ms), ArrivedApart(ms),
         NEW m \in Message, \A x \in ms : x.at < m.at
  PROVE  InOrder(ms \cup {m}) = Append(InOrder(ms), m.payload)
<1> DEFINE more == ms \cup {m}
           size == Cardinality(ms)
<1>1. \A x \in more : x.at \in Nat
  BY DEF Message
<1>2. m \notin ms
  BY <1>1
<1>3. IsFiniteSet(more) /\ Cardinality(more) = size + 1 /\ size \in Nat
  BY <1>2, FS_AddElement, FS_CardinalityType
<1>4. more \subseteq Message /\ ArrivedApart(more)
  BY <1>1 DEF ArrivedApart
<1>5. Position(more, m) = size + 1
  <2>1. {x \in more : x.at <= m.at} = more
    BY <1>1
  <2> QED BY <1>3, <2>1 DEF Position
<1>6. ASSUME NEW x \in ms PROVE Position(more, x) = Position(ms, x)
  <2>1. {y \in more : y.at <= x.at} = {y \in ms : y.at <= x.at}
    BY <1>1
  <2> QED BY <2>1 DEF Position
<1> HIDE DEF more, size
<1>7. Nth(more, size + 1) = m
  BY <1>3, <1>4, <1>5, NthInverse DEF more
<1>8. ASSUME NEW i \in 1 .. size PROVE Nth(more, i) = Nth(ms, i)
  <2>1. Nth(ms, i) \in ms /\ Position(ms, Nth(ms, i)) = i
    BY NthInverse DEF size
  <2>2. Position(more, Nth(ms, i)) = i /\ Nth(ms, i) \in more
    BY <1>6, <2>1 DEF more
  <2> QED BY <1>3, <1>4, <2>2, NthInverse
<1>9. /\ InOrder(ms) \in Seq(Payload) /\ Len(InOrder(ms)) = size
      /\ \A i \in 1 .. size : InOrder(ms)[i] = Nth(ms, i).payload
  BY InOrderType DEF size
<1>10. /\ InOrder(more) \in Seq(Payload) /\ Len(InOrder(more)) = size + 1
       /\ \A i \in 1 .. size + 1 : InOrder(more)[i] = Nth(more, i).payload
  BY <1>3, <1>4, InOrderType
<1>11. m.payload \in Payload
  BY DEF Message
<1>12. \A i \in 1 .. size + 1 : InOrder(more)[i] = Append(InOrder(ms), m.payload)[i]
  <2> SUFFICES ASSUME NEW i \in 1 .. size + 1
               PROVE  InOrder(more)[i] = Append(InOrder(ms), m.payload)[i]
    OBVIOUS
  <2> DEFINE queue == InOrder(ms)
             longer == Append(queue, m.payload)
  <2>1. longer[size + 1] = m.payload /\ \A k \in 1 .. size : longer[k] = queue[k]
    <3>1. queue \in Seq(Payload) /\ Len(queue) = size
      BY <1>9
    <3> HIDE DEF queue
    <3> QED BY <1>3, <1>11, <3>1
  <2> HIDE DEF longer
  <2>2. ASSUME i = size + 1 PROVE longer[i] = InOrder(more)[i]
    BY <1>7, <1>10, <2>1, <2>2
  <2>3. ASSUME i \in 1 .. size PROVE longer[i] = InOrder(more)[i]
    BY <1>3, <1>8, <1>9, <1>10, <2>1, <2>3
  <2>4. longer[i] = InOrder(more)[i]
    BY <1>3, <2>2, <2>3
  <2> QED BY <2>4 DEF longer
<1>13. /\ Append(InOrder(ms), m.payload) \in Seq(Payload)
       /\ Len(Append(InOrder(ms), m.payload)) = size + 1
  BY <1>9, <1>11
<1>14. InOrder(more) = Append(InOrder(ms), m.payload)
  BY <1>3, <1>10, <1>12, <1>13
<1> QED BY <1>14 DEF more

\* The first message to have arrived is the head of the queue.
LEMMA InOrderTake ==
  ASSUME NEW ms, ms \subseteq Message, IsFiniteSet(ms), ArrivedApart(ms),
         NEW m \in ms, IsFirst(m, ms)
  PROVE  /\ InOrder(ms) # << >>
         /\ InOrder(ms \ {m}) = Tail(InOrder(ms))
<1> DEFINE less == ms \ {m}
           size == Cardinality(less)
<1>1. \A x \in ms : x.at \in Nat
  BY DEF Message
<1>2. IsFiniteSet(less) /\ Cardinality(ms) = size + 1 /\ size \in Nat
  <2>1. IsFiniteSet(less) /\ size = Cardinality(ms) - 1
    BY FS_RemoveElement
  <2>2. Cardinality(ms) \in Nat /\ size \in Nat
    BY <2>1, FS_CardinalityType
  <2> HIDE DEF size, less
  <2> QED BY <2>1, <2>2
<1>3. less \subseteq Message /\ ArrivedApart(less)
  BY DEF ArrivedApart
<1>4. ASSUME NEW x \in less PROVE Position(ms, x) = Position(less, x) + 1
  <2> DEFINE upTo == {y \in ms : y.at <= x.at}
  <2>1. m \in upTo
    BY <1>1 DEF IsFirst
  <2>2. {y \in less : y.at <= x.at} = upTo \ {m}
    OBVIOUS
  <2>3. IsFiniteSet(upTo)
    BY FS_Subset
  <2>4. Cardinality(upTo \ {m}) = Cardinality(upTo) - 1 /\ Cardinality(upTo) \in Nat
    BY <2>1, <2>3, FS_RemoveElement, FS_CardinalityType
  <2>5. Position(ms, x) = Cardinality(upTo)
    BY DEF Position
  <2>6. Position(less, x) = Cardinality(upTo \ {m})
    BY <2>2 DEF Position
  <2> HIDE DEF upTo, less
  <2> QED BY <2>4, <2>5, <2>6
<1> HIDE DEF less, size
<1>5. ASSUME NEW i \in 1 .. size PROVE Nth(less, i) = Nth(ms, i + 1)
  <2>1. Nth(less, i) \in less /\ Position(less, Nth(less, i)) = i
    BY <1>2, <1>3, NthInverse DEF size
  <2>2. Position(ms, Nth(less, i)) = i + 1 /\ Nth(less, i) \in ms
    BY <1>4, <2>1 DEF less
  <2> QED BY <2>2, NthInverse
<1>6. /\ InOrder(ms) \in Seq(Payload) /\ Len(InOrder(ms)) = size + 1
      /\ \A i \in 1 .. size + 1 : InOrder(ms)[i] = Nth(ms, i).payload
  BY <1>2, InOrderType
<1>7. /\ InOrder(less) \in Seq(Payload) /\ Len(InOrder(less)) = size
      /\ \A i \in 1 .. size : InOrder(less)[i] = Nth(less, i).payload
  BY <1>2, <1>3, InOrderType DEF size
<1>8. InOrder(ms) # << >>
  BY <1>2, <1>6
<1>9. /\ Tail(InOrder(ms)) \in Seq(Payload)
      /\ Len(Tail(InOrder(ms))) = size
      /\ \A i \in 1 .. size : Tail(InOrder(ms))[i] = InOrder(ms)[i + 1]
  BY <1>2, <1>6, <1>8
<1>10. \A i \in 1 .. size : InOrder(less)[i] = Tail(InOrder(ms))[i]
  <2> SUFFICES ASSUME NEW i \in 1 .. size
               PROVE  InOrder(less)[i] = Tail(InOrder(ms))[i]
    OBVIOUS
  <2>1. i + 1 \in 1 .. size + 1
    BY <1>2
  <2> QED BY <1>5, <1>6, <1>7, <1>9, <2>1
<1>11. InOrder(less) = Tail(InOrder(ms))
  BY <1>2, <1>7, <1>9, <1>10
<1> QED BY <1>8, <1>11 DEF less

---------------------------------------------------------------------------
(* The mailbox implements its queues *)

\* The vector is finite, and its order is total.
MailboxOrdered == IsFiniteSet(mailbox) /\ ArrivedApart(mailbox)

\* What a step may do to the mailbox.
Takes(src, dst, tag) == \E m : TakeFirst(m, src, dst, tag)
Pushes(src, dst, tag) == \E payload \in Payload : PushBack(src, dst, tag, payload)
Erases(r) == mailbox' = {m \in mailbox : ~Involves(m, r)}

LEMMA MailboxSteps ==
  ASSUME TypeOK, LoopInitialized, [Next]_vars
  PROVE  \/ mailbox' = mailbox
         \/ \E c \in Channel : Takes(c[1], c[2], c[3]) \/ Pushes(c[1], c[2], c[3])
         \/ \E r \in Rank : Erases(r)
<1> USE DEF mailboxVars
<1> DEFINE Kept == mailbox' = mailbox
           OnChannel == \E c \in Channel : Takes(c[1], c[2], c[3]) \/ Pushes(c[1], c[2], c[3])
<1>1. ASSUME NEW src \in Rank, NEW dst \in Rank, NEW tag \in Tag,
             Takes(src, dst, tag) \/ Pushes(src, dst, tag)
      PROVE  OnChannel
  <2> DEFINE c == <<src, dst, tag>>
  <2>1. c \in Channel /\ c[1] = src /\ c[2] = dst /\ c[3] = tag
    BY DEF Channel
  <2> HIDE DEF c
  <2> QED BY <1>1, <2>1
<1>2. \/ QuietStep
      \/ \E r \in Rank : PushStep(r) \/ FinalizeStep(r)
  BY StepKinds
<1>3. ASSUME NEW r \in Rank, PushStep(r) PROVE OnChannel
  BY <1>1, <1>3 DEF PushStep, Pushes
<1>4. ASSUME NEW r \in Rank, Finalize(r) PROVE Kept \/ Erases(r)
  BY <1>4 DEF Finalize, Erases
<1>5. ASSUME NEW r \in Rank, NEW src \in Rank, NEW tag \in Tag,
             FindNothing(src, r, tag) \/ \E m \in mailbox : TakeFirst(m, src, r, tag)
      PROVE  Kept \/ OnChannel
  BY <1>1, <1>5 DEF FindNothing, Takes
<1>6. ASSUME NEW r \in Rank, Recv(r) PROVE Kept \/ OnChannel
  <2>1. \E src \in Rank, tag \in UserTags :
          FindNothing(src, r, tag) \/ \E m \in mailbox : TakeFirst(m, src, r, tag)
    BY <1>6 DEF Recv
  <2> QED BY <1>5, <2>1 DEF Tag
<1>7. ASSUME NEW r \in Rank, BcastRecv(r) PROVE Kept \/ OnChannel
  <2>1. \E root \in Roots \ {r} :
          FindNothing(root, r, BcastTag) \/ \E m \in mailbox : TakeFirst(m, root, r, BcastTag)
    BY <1>7 DEF BcastRecv
  <2> QED BY <1>5, <2>1, RootsAssumption DEF Tag
<1>8. ASSUME NEW r \in Rank, ReduceRecv(r) PROVE Kept \/ OnChannel
  <2>1. \/ FindNothing(cursor[r], r, ReduceTag)
        \/ \E m \in mailbox : TakeFirst(m, cursor[r], r, ReduceTag)
    BY <1>8 DEF ReduceRecv
  <2>2. PICK src \in Rank : src = cursor[r]
    BY DEF TypeOK
  <2> QED BY <1>5, <2>1, <2>2 DEF Tag
<1>9. ASSUME NEW r \in Rank, InitRank(r) \/ Drop(r) \/ Rejected(r) \/ Barrier(r)
                               \/ BcastRoot(r) \/ ReduceRoot(r)
      PROVE  Kept
  BY <1>9 DEF InitRank, Drop, Rejected, Barrier, BcastRoot, ReduceRoot
<1>10. ASSUME NEW r \in Rank, Send(r) PROVE Kept \/ OnChannel
  <2>1. CASE mailbox' = mailbox
    BY <2>1
  <2>2. ASSUME NEW dst \in Rank, NEW tag \in UserTags, NEW form \in Forms,
               PushBack(r, dst, tag, NewPayload("send", r, dst, form))
        PROVE  OnChannel
    <3>1. NewPayload("send", r, dst, form) \in Payload /\ tag \in Tag
      BY NewPayloadType, TagTypes DEF Origin
    <3> QED BY <1>1, <2>2, <3>1 DEF Pushes
  <2> QED BY <1>10, <2>1, <2>2 DEF Send
<1>11. ASSUME NEW r \in Rank, ReduceContribute(r) PROVE Kept \/ OnChannel
  <2>1. ASSUME NEW root \in Roots \ {r}, NEW form \in Forms,
               PushBack(r, root, ReduceTag, NewPayload("reduce", r, root, form))
        PROVE  OnChannel
    <3>1. root \in Rank
      BY RootsAssumption
    <3>2. NewPayload("reduce", r, root, form) \in Payload /\ ReduceTag \in Tag
      BY <3>1, NewPayloadType, TagTypes DEF Origin
    <3> QED BY <1>1, <2>1, <3>1, <3>2 DEF Pushes
  <2> QED BY <1>11, <2>1 DEF ReduceContribute
<1>12. ASSUME NEW r \in Rank, BcastSend(r) PROVE OnChannel
  <2>1. PICK payload \in values[r] : PushBack(r, cursor[r], BcastTag, payload)
    BY <1>12 DEF BcastSend
  <2>2. PICK dst \in Rank : dst = cursor[r]
    BY DEF TypeOK
  <2>3. payload \in Payload /\ BcastTag \in Tag
    BY TagTypes DEF TypeOK
  <2> QED BY <1>1, <2>1, <2>2, <2>3 DEF Pushes
<1>13. CASE UNCHANGED vars
  BY <1>13 DEF vars
<1> HIDE DEF Kept, OnChannel
<1>14. Kept \/ OnChannel \/ \E r \in Rank : Erases(r)
  BY <1>4, <1>6, <1>7, <1>8, <1>9, <1>10, <1>11, <1>12, <1>13 DEF Next, RankStep, vars, Kept
<1> QED BY <1>14 DEF Kept, OnChannel

\* The messages on a channel.
MailOn(c) == {m \in mailbox : ChannelOf(m) = c}

LEMMA MailOnOrdered ==
  ASSUME TypeOK, MailboxOrdered, NEW c
  PROVE  /\ MailOn(c) \subseteq Message
         /\ IsFiniteSet(MailOn(c))
         /\ ArrivedApart(MailOn(c))
<1>1. MailOn(c) \in SUBSET mailbox
  BY DEF MailOn
<1>2. IsFiniteSet(MailOn(c))
  BY <1>1, FS_Subset DEF MailboxOrdered
<1> QED BY <1>1, <1>2 DEF TypeOK, MailboxOrdered, ArrivedApart

\* push_back lengthens the queue of one channel.
LEMMA PushQueued ==
  ASSUME TypeOK, ArrivalsPast, MailboxOrdered, NEW c \in Channel, Pushes(c[1], c[2], c[3])
  PROVE  MailboxOrdered' /\ Abstract!Put(c)
<1>1. PICK payload \in Payload : PushBack(c[1], c[2], c[3], payload)
  BY DEF Pushes
<1> DEFINE m == [src |-> c[1], dst |-> c[2], tag |-> c[3], payload |-> payload,
                 at |-> arrivals + 1]
<1>2. c = <<c[1], c[2], c[3]>> /\ c[1] \in Rank /\ c[2] \in Rank /\ c[3] \in Tag
  BY DEF Channel
<1>3. arrivals \in Nat /\ \A x \in mailbox : x.at \in Nat
  BY DEF TypeOK, Message
<1>4. /\ m \in Message
      /\ m.payload = payload /\ m.at = arrivals + 1
      /\ ChannelOf(m) = <<c[1], c[2], c[3]>>
  BY <1>2, <1>3 DEF Message, ChannelOf
<1>5. mailbox' = mailbox \cup {m}
  BY <1>1 DEF PushBack
<1> HIDE DEF m
<1>6. \A x \in mailbox : x.at < m.at
  BY <1>3, <1>4 DEF ArrivalsPast
<1>7. MailboxOrdered'
  <2>1. IsFiniteSet(mailbox')
    BY <1>5, FS_AddElement DEF MailboxOrdered
  <2>2. ArrivedApart(mailbox')
    BY <1>3, <1>4, <1>5, <1>6 DEF MailboxOrdered, ArrivedApart
  <2> QED BY <2>1, <2>2 DEF MailboxOrdered
<1>8. /\ {x \in mailbox' : ChannelOf(x) = c} = MailOn(c) \cup {m}
      /\ \A d \in Channel \ {c} : {x \in mailbox' : ChannelOf(x) = d} = MailOn(d)
  BY <1>2, <1>4, <1>5 DEF MailOn
<1>9. InOrder(MailOn(c) \cup {m}) = Append(InOrder(MailOn(c)), payload)
  <2>1. \A x \in MailOn(c) : x.at < m.at
    BY <1>6 DEF MailOn
  <2> QED BY <1>4, <2>1, MailOnOrdered, InOrderPut
<1>10. /\ Queued'[c] = Append(Queued[c], payload)
       /\ \A d \in Channel \ {c} : Queued'[d] = Queued[d]
       /\ Queued[c] \in Seq(Payload)
  <2>1. /\ \A d \in Channel : Queued[d] = InOrder(MailOn(d))
        /\ \A d \in Channel : Queued'[d] = InOrder({x \in mailbox' : ChannelOf(x) = d})
    BY DEF Queued, MailOn
  <2>2. Queued[c] \in Seq(Payload)
    BY <2>1, MailOnOrdered, InOrderType
  <2> QED BY <1>8, <1>9, <2>1, <2>2
<1>11. Queued = [d \in Channel |-> Queued[d]] /\ Queued' = [d \in Channel |-> Queued'[d]]
  BY DEF Queued
<1>12. /\ Len(Queued'[c]) = Len(Queued[c]) + 1
       /\ Queued'[c][Len(Queued'[c])] = payload
  <2> DEFINE queue == Queued[c]
             longer == Append(queue, payload)
  <2>1. queue \in Seq(Payload)
    BY <1>10
  <2> HIDE DEF queue
  <2>2. Len(longer) = Len(queue) + 1 /\ longer[Len(longer)] = payload
    BY <2>1
  <2> HIDE DEF longer
  <2>3. Queued'[c] = longer
    BY <1>10 DEF longer, queue
  <2> QED BY <2>2, <2>3 DEF queue
<1>13. Queued' = [Queued EXCEPT ![c] = Append(@, payload)]
  BY <1>10, <1>11
<1>14. Abstract!Put(c)
  BY <1>12, <1>13 DEF Abstract!Put, Abstract!Newest
<1> QED BY <1>7, <1>14

\* recv shortens the queue of one channel, at its head.
LEMMA TakeQueued ==
  ASSUME TypeOK, MailboxOrdered, NEW c \in Channel, Takes(c[1], c[2], c[3])
  PROVE  MailboxOrdered' /\ Abstract!Take(c)
<1>1. PICK m : TakeFirst(m, c[1], c[2], c[3])
  BY DEF Takes
<1>2. c = <<c[1], c[2], c[3]>>
  BY DEF Channel
<1>3. Matching(c[1], c[2], c[3]) = MailOn(c)
  <2>1. \A x : Matches(x, c[1], c[2], c[3]) <=> ChannelOf(x) = <<c[1], c[2], c[3]>>
    BY DEF Matches, ChannelOf
  <2> QED BY <1>2, <2>1 DEF Matching, MailOn
<1>4. m \in MailOn(c) /\ IsFirst(m, MailOn(c)) /\ mailbox' = mailbox \ {m}
  BY <1>1, <1>3 DEF TakeFirst
<1>5. MailboxOrdered'
  <2>1. IsFiniteSet(mailbox')
    BY <1>4, FS_RemoveElement DEF MailboxOrdered
  <2> QED BY <1>4, <2>1 DEF MailboxOrdered, ArrivedApart
<1>6. /\ {x \in mailbox' : ChannelOf(x) = c} = MailOn(c) \ {m}
      /\ \A d \in Channel \ {c} : {x \in mailbox' : ChannelOf(x) = d} = MailOn(d)
  BY <1>4 DEF MailOn
<1>7. InOrder(MailOn(c)) # << >> /\ InOrder(MailOn(c) \ {m}) = Tail(InOrder(MailOn(c)))
  BY <1>4, MailOnOrdered, InOrderTake
<1>8. /\ Queued[c] # << >>
      /\ Queued'[c] = Tail(Queued[c])
      /\ \A d \in Channel \ {c} : Queued'[d] = Queued[d]
      /\ Queued[c] \in Seq(Payload)
  <2>1. /\ \A d \in Channel : Queued[d] = InOrder(MailOn(d))
        /\ \A d \in Channel : Queued'[d] = InOrder({x \in mailbox' : ChannelOf(x) = d})
    BY DEF Queued, MailOn
  <2>2. Queued[c] \in Seq(Payload)
    BY <2>1, MailOnOrdered, InOrderType
  <2> QED BY <1>6, <1>7, <2>1, <2>2
<1>9. Queued = [d \in Channel |-> Queued[d]] /\ Queued' = [d \in Channel |-> Queued'[d]]
  BY DEF Queued
<1>10. Len(Queued'[c]) = Len(Queued[c]) - 1
  <2> DEFINE queue == Queued[c]
  <2>1. queue \in Seq(Payload) /\ queue # << >>
    BY <1>8
  <2> HIDE DEF queue
  <2>2. Len(Tail(queue)) = Len(queue) - 1
    BY <2>1
  <2> QED BY <1>8, <2>2 DEF queue
<1>11. Queued' = [Queued EXCEPT ![c] = Tail(@)]
  BY <1>8, <1>9
<1>12. Abstract!Take(c)
  BY <1>8, <1>10, <1>11 DEF Abstract!Take
<1> QED BY <1>5, <1>12

\* finalize empties the queues of all channels of its rank.
LEMMA EraseQueued ==
  ASSUME TypeOK, MailboxOrdered, NEW r \in Rank, Erases(r)
  PROVE  MailboxOrdered' /\ Abstract!Clear(r)
<1>1. mailbox' = {m \in mailbox : ~Involves(m, r)}
  BY DEF Erases
<1>2. MailboxOrdered'
  <2>1. mailbox' \in SUBSET mailbox
    BY <1>1
  <2>2. IsFiniteSet(mailbox')
    BY <2>1, FS_Subset DEF MailboxOrdered
  <2> QED BY <2>1, <2>2 DEF MailboxOrdered, ArrivedApart
<1>3. ASSUME NEW c \in Channel
      PROVE  Queued'[c] = IF c[1] = r \/ c[2] = r THEN << >> ELSE Queued[c]
  <2>1. c = <<c[1], c[2], c[3]>>
    BY DEF Channel
  <2>2. \A m \in MailOn(c) : m.src = c[1] /\ m.dst = c[2]
    BY <2>1 DEF MailOn, ChannelOf
  <2>3. /\ Queued[c] = InOrder(MailOn(c))
        /\ Queued'[c] = InOrder({m \in mailbox' : ChannelOf(m) = c})
    BY DEF Queued, MailOn
  <2>4. CASE c[1] = r \/ c[2] = r
    <3>1. {m \in mailbox' : ChannelOf(m) = c} = {}
      BY <1>1, <2>2, <2>4 DEF Involves, MailOn
    <3> QED BY <2>3, <2>4, <3>1, InOrderEmpty
  <2>5. CASE ~(c[1] = r \/ c[2] = r)
    <3>1. {m \in mailbox' : ChannelOf(m) = c} = MailOn(c)
      BY <1>1, <2>2, <2>5 DEF Involves, MailOn
    <3> QED BY <2>3, <2>5, <3>1
  <2> QED BY <2>4, <2>5
<1>4. Queued' = [c \in Channel |-> Queued'[c]]
  BY DEF Queued
<1>5. Queued' = [c \in Channel |-> IF c[1] = r \/ c[2] = r THEN << >> ELSE Queued[c]]
  BY <1>3, <1>4
<1> QED BY <1>2, <1>5 DEF Abstract!Clear, Abstract!Line, Channel

LEMMA QueuesNext ==
  ASSUME TypeOK, LoopInitialized, ArrivalsPast, MailboxOrdered, [Next]_vars
  PROVE  MailboxOrdered' /\ [Abstract!Next]_Queued
<1>1. CASE mailbox' = mailbox
  BY <1>1 DEF MailboxOrdered, ArrivedApart, Queued
<1>2. ASSUME NEW c \in Channel, Takes(c[1], c[2], c[3]) \/ Pushes(c[1], c[2], c[3])
      PROVE  MailboxOrdered' /\ Abstract!Next
  <2>1. MailboxOrdered' /\ (Abstract!Take(c) \/ Abstract!Put(c))
    BY <1>2, TakeQueued, PushQueued
  <2> QED BY <2>1 DEF Abstract!Next, Abstract!Line, Channel
<1>3. ASSUME NEW r \in Rank, Erases(r) PROVE MailboxOrdered' /\ Abstract!Next
  BY <1>3, EraseQueued DEF Abstract!Next
<1> QED BY <1>1, <1>2, <1>3, MailboxSteps

(***************************************************************************)
(* For every number of ranks, tag and interleaving: the one vector under   *)
(* the lock is one queue per sender, receiver and tag.  A recv takes the   *)
(* oldest message of its channel, from wherever it lies in the vector, and *)
(* only a finalize() of either end discards any.                           *)
(***************************************************************************)
THEOREM ImplementsFifoHolds == Spec => ImplementsFifo
<1>1. Init => Abstract!Init /\ MailboxOrdered
  <2> SUFFICES ASSUME Init PROVE Abstract!Init /\ MailboxOrdered
    OBVIOUS
  <2>1. mailbox = {}
    BY DEF Init
  <2>2. Queued = [c \in Channel |-> << >>]
    <3>1. \A c \in Channel : {m \in mailbox : ChannelOf(m) = c} = {}
      BY <2>1
    <3> QED BY <3>1, InOrderEmpty DEF Queued
  <2> QED BY <2>1, <2>2, FS_EmptySet
       DEF Abstract!Init, Abstract!Line, Channel, MailboxOrdered, ArrivedApart
<1>2. MailInv => TypeOK /\ LoopInitialized
  BY DEF MailInv
<1> QED BY <1>1, <1>2, QueuesNext, MailCorrect, ArrivalsCorrect, PTL
     DEF Spec, ImplementsFifo, Abstract!Spec

=============================================================================
