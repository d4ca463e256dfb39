-------------------------- MODULE Programs_proofs --------------------------
(***************************************************************************)
(* Proofs about CunqaApi, for any runs, families, numbers of circuits,     *)
(* states of the registry file and kinds of entry; and about Programs, for *)
(* any processes, plans and sizes of the worlds.  A step of a process is a *)
(* step of CunqaApi, so what is proved of single runs holds in programs;   *)
(* the rest follows from the order in which a process makes its calls.     *)
(***************************************************************************)
EXTENDS Programs, TLAPS

---------------------------------------------------------------------------
(* Type correctness *)

LEMMA GotoType ==
  ASSUME TypeOK, NEW r \in Run, NEW place \in Place, Goto(r, place)
  PROVE  pc' \in [Run -> Place]
BY DEF TypeOK, Goto

LEMMA AbortType ==
  ASSUME TypeOK, NEW r \in Run, NEW code \in {0, 1, 2, 3, 7, 8, 9},
         Abort(r, code) \/ Fail(r, code)
  PROVE  /\ pc' \in [Run -> Place]
         /\ status' \in [Run -> {0, 1, 2, 3, 7, 8, 9}]
         /\ UNCHANGED <<results, endpoints, sent>>
<1>1. "abort" \in Place /\ "done" \in Place
  BY DEF Place
<1>2. pc' \in [Run -> Place]
  BY <1>1, GotoType DEF Abort, Fail
<1>3. status' = [status EXCEPT ![r] = code] /\ UNCHANGED <<results, endpoints, sent>>
  BY DEF Abort, Fail
<1>4. status' \in [Run -> {0, 1, 2, 3, 7, 8, 9}]
  BY <1>3 DEF TypeOK
<1> QED BY <1>2, <1>3, <1>4

LEMMA QraiseType ==
  ASSUME TypeOK, NEW r \in Run,
         QraiseSucceeds(r) \/ QraiseDuplicate(r) \/ QraiseFails(r)
  PROVE  /\ deployment' \in [Run -> {"none", "pending", "up", "gone"}]
         /\ registry' = registry
         /\ file' = file
BY DEF QraiseSucceeds, QraiseDuplicate, QraiseFails, cunqaVars, TypeOK

LEMMA QdropType ==
  ASSUME TypeOK, NEW r \in Run, Qdrop(r) \/ QdropFails(r)
  PROVE  /\ deployment' \in [Run -> {"none", "pending", "up", "gone"}]
         /\ registry' \subseteq registry
         /\ file' = file
<1>1. CASE Qdrop(r)
  <2>1. \A d \in Run :
          (IF d \in Dropped(r) /\ IsLive(d) THEN "gone" ELSE deployment[d])
            \in {"none", "pending", "up", "gone"}
    BY DEF TypeOK
  <2> QED BY <1>1, <2>1 DEF Qdrop
<1>2. CASE UNCHANGED cunqaVars
  BY <1>2 DEF cunqaVars, TypeOK
<1> QED BY <1>1, <1>2 DEF QdropFails

LEMMA TypeInit == Init => TypeOK
<1> SUFFICES ASSUME Init PROVE TypeOK
  OBVIOUS
<1>1. results \in [Run -> Seq(Nat)] /\ answered \in [Run -> SUBSET Nat]
  BY DEF Init
<1>2. registry \subseteq Entry /\ dropFailed \subseteq Run
  BY DEF Init
<1>3. file \in FileState
  BY FilesAssumption DEF Init
<1>4. pc \in [Run -> Place]
  BY DEF Init, Place
<1>5. endpoints = [r \in Run |-> endpoints[r]] /\ \A r \in Run : endpoints[r] = << >>
  BY DEF Init
<1> QED BY <1>1, <1>2, <1>3, <1>4, <1>5 DEF Init, TypeOK

LEMMA TypeNext == TypeOK /\ [Next]_vars => TypeOK'
<1> SUFFICES ASSUME TypeOK, [Next]_vars PROVE TypeOK'
  OBVIOUS
<1> USE DEF apiVars, cunqaVars
<1>1. CASE UNCHANGED vars
  BY <1>1 DEF vars, TypeOK
<1>2. ASSUME NEW r \in Run, Start(r) PROVE TypeOK'
  <2>1. pc' \in [Run -> Place] /\ status' \in [Run -> {0, 1, 2, 3, 7, 8, 9}]
    BY <1>2, AbortType, GotoType DEF Start, Place, TypeOK
  <2>2. UNCHANGED <<results, endpoints, sent>>
    BY <1>2 DEF Start, Fail
  <2> QED BY <1>2, <2>1, <2>2 DEF Start, TypeOK
<1>3. ASSUME NEW r \in Run, Raise(r) \/ RaiseAgain(r) PROVE TypeOK'
  <2>1. pc' \in [Run -> Place] /\ status' \in [Run -> {0, 1, 2, 3, 7, 8, 9}]
    BY <1>3, AbortType, GotoType DEF Raise, RaiseAgain, Place, TypeOK
  <2>2. UNCHANGED <<results, endpoints, sent, expired, answered, dropFailed>>
    BY <1>3 DEF Raise, RaiseAgain, Fail
  <2>3. /\ deployment' \in [Run -> {"none", "pending", "up", "gone"}]
        /\ UNCHANGED <<registry, file>>
    BY <1>3, QraiseType DEF Raise, RaiseAgain
  <2> QED BY <2>1, <2>2, <2>3 DEF TypeOK
<1>4. ASSUME NEW r \in Run, DropNamesake(r) PROVE TypeOK'
  <2>1. pc' \in [Run -> Place]
    BY <1>4, GotoType DEF DropNamesake, Place
  <2>2. /\ deployment' \in [Run -> {"none", "pending", "up", "gone"}]
        /\ registry' \subseteq registry /\ file' = file
    BY <1>4, QdropType DEF DropNamesake
  <2> QED BY <1>4, <2>1, <2>2 DEF DropNamesake, TypeOK
<1>5. ASSUME NEW r \in Run, Load(r) PROVE TypeOK'
  <2>1. pc' \in [Run -> Place]
    BY <1>5, GotoType DEF Load, Place
  <2>2. \A f \in Choices(r) : f \in [1 .. Width[r] -> Entry]
    BY DEF Choices, Candidates, TypeOK
  <2>3. UNCHANGED endpoints \/ \E f \in Choices(r) : endpoints' = [endpoints EXCEPT ![r] = f]
    BY <1>5 DEF Load
  <2>4. /\ endpoints' = [q \in Run |-> endpoints'[q]]
        /\ \A q \in Run : endpoints'[q] = << >> \/ endpoints'[q] \in [1 .. Width[q] -> Entry]
    <3>1. CASE UNCHANGED endpoints
      BY <3>1 DEF TypeOK
    <3>2. ASSUME NEW f \in Choices(r), endpoints' = [endpoints EXCEPT ![r] = f]
          PROVE  /\ endpoints' = [q \in Run |-> endpoints'[q]]
                 /\ \A q \in Run : endpoints'[q] = << >>
                                     \/ endpoints'[q] \in [1 .. Width[q] -> Entry]
      <4>1. \A q \in Run : endpoints'[q] = IF q = r THEN f ELSE endpoints[q]
        BY <3>2 DEF TypeOK
      <4>2. endpoints' = [q \in Run |-> endpoints'[q]]
        BY <3>2 DEF TypeOK
      <4> QED BY <2>2, <4>1, <4>2 DEF TypeOK
    <3> QED BY <2>3, <3>1, <3>2
  <2> QED BY <1>5, <2>1, <2>4 DEF Load, TypeOK
<1>6. ASSUME NEW r \in Run, CheckClock(r) \/ TransformFails(r) \/ ClientThrows(r)
      PROVE  TypeOK'
  <2>1. pc' \in [Run -> Place] /\ status' \in [Run -> {0, 1, 2, 3, 7, 8, 9}]
    BY <1>6, AbortType, GotoType DEF CheckClock, TransformFails, ClientThrows, Place, TypeOK
  <2>2. UNCHANGED <<results, endpoints, sent, expired, cunqaVars, answered, dropFailed>>
    BY <1>6 DEF CheckClock, TransformFails, ClientThrows, Abort
  <2> QED BY <2>1, <2>2 DEF TypeOK
<1>7. ASSUME NEW r \in Run, SendCircuit(r) PROVE TypeOK'
  <2>1. pc' \in [Run -> Place]
    BY <1>7, GotoType DEF SendCircuit, Place
  <2>2. sent' \in [Run -> Nat]
    BY <1>7 DEF SendCircuit, TypeOK
  <2> QED BY <1>7, <2>1, <2>2 DEF SendCircuit, TypeOK
<1>8. ASSUME NEW r \in Run, RecvResult(r) PROVE TypeOK'
  <2>1. pc' \in [Run -> Place]
    BY <1>8, GotoType DEF RecvResult, Place
  <2>2. results' \in [Run -> Seq(Nat)]
    <3>1. PICK i \in 1 .. Width[r] : results' = [results EXCEPT ![r] = Append(@, i)]
      BY <1>8 DEF RecvResult
    <3>2. i \in Nat /\ results[r] \in Seq(Nat)
      BY WidthAssumption DEF TypeOK
    <3>3. Append(results[r], i) \in Seq(Nat)
      BY <3>2
    <3> QED BY <3>1, <3>3 DEF TypeOK
  <2> QED BY <1>8, <2>1, <2>2 DEF RecvResult, TypeOK
<1>9. ASSUME NEW r \in Run, Finish(r) \/ AbortDrop(r) PROVE TypeOK'
  <2>1. pc' \in [Run -> Place]
    BY <1>9, GotoType DEF Finish, AbortDrop, Place
  <2>2. /\ deployment' \in [Run -> {"none", "pending", "up", "gone"}]
        /\ registry' \subseteq registry /\ file' = file
    BY <1>9, QdropType DEF Finish, AbortDrop
  <2>3. status' \in [Run -> {0, 1, 2, 3, 7, 8, 9}]
    BY <1>9 DEF Finish, AbortDrop, TypeOK
  <2>4. << >> \in Seq(Nat)
    OBVIOUS
  <2>5. results' \in [Run -> Seq(Nat)]
    BY <1>9, <2>4 DEF Finish, AbortDrop, TypeOK
  <2>6. dropFailed' \subseteq Run
    BY <1>9 DEF Finish, AbortDrop, TypeOK
  <2>7. UNCHANGED <<endpoints, sent, expired, answered>>
    BY <1>9 DEF Finish, AbortDrop
  <2> QED BY <2>1, <2>2, <2>3, <2>5, <2>6, <2>7 DEF TypeOK
<1>10. ASSUME NEW r \in Run, Expire(r) \/ JobStarts(r) \/ JobEnds(r) \/ Purge(r)
       PROVE  TypeOK'
  BY <1>10 DEF Expire, JobStarts, JobEnds, Purge, TypeOK
<1>11. ASSUME NEW d \in Run, Register(d) PROVE TypeOK'
  <2>1. PICK q \in 1 .. Width[d], kind \in Kinds[d] :
          registry' = registry \cup {[owner |-> d, qpu |-> q, kind |-> kind]}
    BY <1>11 DEF Register
  <2>2. [owner |-> d, qpu |-> q, kind |-> kind] \in Entry
    BY WidthAssumption, KindsAssumption DEF Entry
  <2>3. registry' \subseteq Entry
    BY <2>1, <2>2 DEF TypeOK
  <2>4. file' \in FileState
    BY <1>11 DEF Register, FileState
  <2> QED BY <1>11, <2>3, <2>4 DEF Register, TypeOK
<1>12. ASSUME NEW r \in Run, NEW i \in 1 .. Width[r], Answer(r, i) PROVE TypeOK'
  <2>1. i \in Nat
    BY WidthAssumption
  <2>2. answered' \in [Run -> SUBSET Nat]
    BY <1>12, <2>1 DEF Answer, TypeOK
  <2> QED BY <1>12, <2>2 DEF Answer, TypeOK
<1>13. CASE Written
  BY <1>13 DEF Written, TypeOK, FileState
<1> QED
  BY <1>1, <1>2, <1>3, <1>4, <1>5, <1>6, <1>7, <1>8, <1>9, <1>10, <1>11, <1>12,
     <1>13 DEF Next, RunStep, WorldStep

\* Every reachable state has its type.
THEOREM TypeCorrect == Spec => []TypeOK
BY TypeInit, TypeNext, PTL DEF Spec

---------------------------------------------------------------------------
(* No deployment is left behind *)

LEMMA LeakInit == Init => LiveHasRun
BY DEF Init, LiveHasRun, IsLive

\* A step that touches no deployment, nor the place of a run with a live one.
LEMMA LeakKept ==
  ASSUME TypeOK, LiveHasRun, NEW r \in Run, NEW place \in Raised \cup {"escaped"},
         UNCHANGED <<deployment, dropFailed>>,
         \A d \in Run \ {r} : status'[d] = status[d],
         Goto(r, place)
  PROVE  LiveHasRun'
BY DEF TypeOK, LiveHasRun, IsLive, Goto

\* qdrop of one's own family ends one's own deployment.
LEMMA QdropEndsOwn ==
  ASSUME TypeOK, NEW r \in Run, Qdrop(r)
  PROVE  /\ ~IsLive(r)'
         /\ \A d \in Run : IsLive(d)' => IsLive(d)
         /\ \A d \in Run : d \notin Namesakes(r) => deployment'[d] = deployment[d]
<1>1. r \in Namesakes(r)
  BY DEF Namesakes
<1>2. \A d \in Run : deployment'[d] =
        IF d \in Namesakes(r) /\ IsLive(d) THEN "gone" ELSE deployment[d]
  BY DEF Qdrop, Dropped
<1> QED BY <1>1, <1>2 DEF IsLive

\* A run that has raised nothing may go anywhere.
LEMMA LeakMoved ==
  ASSUME TypeOK, LiveHasRun, NEW r \in Run, NEW place \in Place,
         ~IsLive(r)', Goto(r, place),
         \A d \in Run : IsLive(d)' => IsLive(d),
         \A d \in Run \ {r} : status'[d] = status[d],
         dropFailed \subseteq dropFailed'
  PROVE  LiveHasRun'
BY DEF TypeOK, LiveHasRun, IsLive, Goto

LEMMA LeakNext == TypeOK /\ LiveHasRun /\ [Next]_vars => LiveHasRun'
<1> SUFFICES ASSUME TypeOK, LiveHasRun, [Next]_vars PROVE LiveHasRun'
  OBVIOUS
<1> USE DEF apiVars, cunqaVars
<1>1. CASE UNCHANGED vars
  BY <1>1 DEF vars, LiveHasRun, IsLive
<1>2. ASSUME NEW r \in Run, pc[r] \in {"idle", "qraise", "qdrop", "retry"}
      PROVE  ~IsLive(r)
  BY <1>2 DEF LiveHasRun, Raised
<1>0. ASSUME NEW r \in Run, NEW code, status' = [status EXCEPT ![r] = code]
      PROVE  \A d \in Run \ {r} : status'[d] = status[d]
  BY <1>0 DEF TypeOK
<1>3. ASSUME NEW r \in Run, NEW place \in Place, ~IsLive(r), Goto(r, place),
             \A d \in Run \ {r} : status'[d] = status[d],
             UNCHANGED <<deployment, dropFailed>>
      PROVE  LiveHasRun'
  BY <1>3, LeakMoved DEF IsLive
<1>4. ASSUME NEW r \in Run, Start(r) PROVE LiveHasRun'
  BY <1>0, <1>2, <1>3, <1>4 DEF Start, Fail, At, Place
<1>5. ASSUME NEW r \in Run, Raise(r) \/ RaiseAgain(r) PROVE LiveHasRun'
  <2>1. ~IsLive(r) /\ UNCHANGED dropFailed
    BY <1>2, <1>5 DEF Raise, RaiseAgain, At
  <2>2. CASE QraiseSucceeds(r) /\ Goto(r, "poll") /\ UNCHANGED status
    <3>1. /\ pc'[r] = "poll"
          /\ \A d \in Run \ {r} : deployment'[d] = deployment[d] /\ pc'[d] = pc[d]
      BY <2>2 DEF QraiseSucceeds, Goto, TypeOK
    <3> QED BY <2>1, <2>2, <3>1 DEF LiveHasRun, IsLive, Raised
  <2>3. CASE QraiseDuplicate(r) /\ Goto(r, "qdrop") /\ UNCHANGED status
    BY <1>3, <2>1, <2>3 DEF QraiseDuplicate, Place
  <2>4. CASE Fail(r, 2) /\ QraiseFails(r)
    <3>1. /\ pc'[r] = "done" /\ status'[r] = 2
          /\ \A d \in Run \ {r} : pc'[d] = pc[d] /\ status'[d] = status[d]
      BY <2>4 DEF Fail, Goto, TypeOK
    <3>2. \A d \in Run \ {r} : deployment'[d] = deployment[d]
      BY <2>4 DEF QraiseFails, QraiseSucceeds, TypeOK
    <3> QED BY <2>1, <3>1, <3>2 DEF LiveHasRun, IsLive
  <2> QED BY <1>5, <2>2, <2>3, <2>4 DEF Raise, RaiseAgain
<1>6. ASSUME NEW r \in Run, DropNamesake(r) PROVE LiveHasRun'
  <2>1. ~IsLive(r) /\ Goto(r, "retry") /\ UNCHANGED <<status, dropFailed>>
    BY <1>2, <1>6 DEF DropNamesake, At
  <2>2. CASE Qdrop(r)
    BY <2>1, <2>2, QdropEndsOwn, LeakMoved DEF Place
  <2>3. CASE UNCHANGED cunqaVars
    BY <1>3, <2>1, <2>3 DEF Place
  <2> QED BY <1>6, <2>2, <2>3 DEF DropNamesake, QdropFails
<1>7. ASSUME NEW r \in Run, Load(r) PROVE LiveHasRun'
  BY <1>7, LeakKept DEF Load, Raised
<1>8. ASSUME NEW r \in Run, CheckClock(r) \/ TransformFails(r) \/ ClientThrows(r)
      PROVE  LiveHasRun'
  BY <1>0, <1>8, LeakKept DEF CheckClock, TransformFails, ClientThrows, Abort, Raised
<1>9. ASSUME NEW r \in Run, SendCircuit(r) \/ RecvResult(r) PROVE LiveHasRun'
  <2>1. \E place \in {"send", "recv", "finish"} : Goto(r, place)
    BY <1>9 DEF SendCircuit, RecvResult
  <2>2. UNCHANGED <<deployment, dropFailed, status>>
    BY <1>9 DEF SendCircuit, RecvResult
  <2> QED BY <2>1, <2>2, LeakKept DEF Raised
<1>10. ASSUME NEW r \in Run, Finish(r) \/ AbortDrop(r) PROVE LiveHasRun'
  <2>1. Goto(r, "done")
    BY <1>10 DEF Finish, AbortDrop
  <2>2. \A d \in Run \ {r} : status'[d] = status[d]
    BY <1>0, <1>10 DEF Finish, AbortDrop
  <2>3. CASE Qdrop(r)
    <3>1. dropFailed \subseteq dropFailed'
      BY <1>10 DEF Finish, AbortDrop
    <3> QED BY <2>1, <2>2, <2>3, <3>1, QdropEndsOwn, LeakMoved DEF Place
  <2>4. CASE UNCHANGED cunqaVars /\ dropFailed' = dropFailed \cup {r}
    <3>1. /\ pc'[r] = "done"
          /\ \A d \in Run \ {r} : pc'[d] = pc[d]
      BY <2>1 DEF Goto, TypeOK
    <3> QED BY <2>2, <2>4, <3>1 DEF LiveHasRun, IsLive
  <2> QED BY <1>10, <2>3, <2>4 DEF Finish, AbortDrop, QdropFails
<1>11. ASSUME NEW r \in Run, JobStarts(r) \/ JobEnds(r) PROVE LiveHasRun'
  <2>1. IsLive(r) /\ UNCHANGED <<pc, status, dropFailed>>
    BY <1>11 DEF JobStarts, JobEnds, IsLive
  <2>2. \A d \in Run \ {r} : deployment'[d] = deployment[d]
    BY <1>11 DEF JobStarts, JobEnds, TypeOK
  <2> QED BY <2>1, <2>2 DEF LiveHasRun, IsLive
<1>12. ASSUME UNCHANGED <<pc, status, deployment, dropFailed>> PROVE LiveHasRun'
  BY <1>12 DEF LiveHasRun, IsLive
<1>13. ASSUME NEW r \in Run, Expire(r) \/ Register(r) \/ Purge(r) PROVE LiveHasRun'
  BY <1>12, <1>13 DEF Expire, Register, Purge
<1>14. ASSUME NEW r \in Run, NEW i \in 1 .. Width[r], Answer(r, i) PROVE LiveHasRun'
  BY <1>12, <1>14 DEF Answer
<1>15. CASE Written
  BY <1>12, <1>15 DEF Written
<1> QED
  BY <1>1, <1>4, <1>5, <1>6, <1>7, <1>8, <1>9, <1>10, <1>11, <1>13, <1>14, <1>15
     DEF Next, RunStep, WorldStep

\* Whatever the other runs do, and whatever goes wrong, a run that returns
\* has dropped what it raised, unless the last qdrop itself failed.
LEMMA LiveCorrect == Spec => []LiveHasRun
<1>1. Init => TypeOK /\ LiveHasRun
  BY TypeInit, LeakInit
<1>2. TypeOK /\ LiveHasRun /\ [Next]_vars => (TypeOK /\ LiveHasRun)'
  BY TypeNext, LeakNext
<1> QED BY <1>1, <1>2, PTL DEF Spec

\* A run that returns leaves none of its virtual QPUs behind.
THEOREM NoLeakHolds == Spec => []NoLeak
<1>1. LiveHasRun => NoLeak
  BY DEF LiveHasRun, NoLeak, Raised
<1> QED BY <1>1, LiveCorrect, PTL

---------------------------------------------------------------------------
(* What a step leaves alone *)

\* A step of a run changes nothing of the others but their deployments.
LEMMA OthersKept ==
  ASSUME TypeOK, NEW q \in Run, RunStep(q), NEW r \in Run, r # q
  PROVE  /\ pc'[r] = pc[r]
         /\ status'[r] = status[r]
         /\ results'[r] = results[r]
         /\ endpoints'[r] = endpoints[r]
         /\ r \in dropFailed' <=> r \in dropFailed
<1> USE DEF apiVars, cunqaVars
<1>1. pc' = [pc EXCEPT ![q] = pc'[q]]
  BY DEF RunStep, Start, Raise, DropNamesake, RaiseAgain, Load, CheckClock, SendCircuit,
         TransformFails, ClientThrows, RecvResult, Finish, AbortDrop, Abort, Fail,
         Goto, TypeOK
<1>2. status' = status \/ \E code : status' = [status EXCEPT ![q] = code]
  BY DEF RunStep, Start, Raise, DropNamesake, RaiseAgain, Load, CheckClock, SendCircuit,
         TransformFails, ClientThrows, RecvResult, Finish, AbortDrop, Abort, Fail
<1>3. results' = results \/ \E value : results' = [results EXCEPT ![q] = value]
  BY DEF RunStep, Start, Raise, DropNamesake, RaiseAgain, Load, CheckClock, SendCircuit,
         TransformFails, ClientThrows, RecvResult, Finish, AbortDrop, Abort, Fail
<1>4. dropFailed' = dropFailed \/ dropFailed' = dropFailed \cup {q}
  BY DEF RunStep, Start, Raise, DropNamesake, RaiseAgain, Load, CheckClock, SendCircuit,
         TransformFails, ClientThrows, RecvResult, Finish, AbortDrop
<1>5. endpoints' = endpoints \/ \E f : endpoints' = [endpoints EXCEPT ![q] = f]
  BY DEF RunStep, Start, Raise, DropNamesake, RaiseAgain, Load, CheckClock, SendCircuit,
         TransformFails, ClientThrows, RecvResult, Finish, AbortDrop, Abort, Fail
<1> QED BY <1>1, <1>2, <1>3, <1>4, <1>5 DEF TypeOK

LEMMA WorldKeepsRuns ==
  ASSUME WorldStep
  PROVE  UNCHANGED <<pc, status, results, endpoints, sent, dropFailed>>
BY DEF WorldStep, Expire, JobStarts, JobEnds, Register, Purge, Answer, Written, apiVars

\* A run raises its own deployment, and ends those of its family.
LEMMA RunMovesDeployment ==
  ASSUME TypeOK, NEW q \in Run, RunStep(q), NEW d \in Run
  PROVE  \/ deployment'[d] = deployment[d]
         \/ /\ d = q
            /\ pc[q] \in {"qraise", "retry"}
            /\ pc'[q] \in {"poll", "done"}
            /\ deployment'[d] = "pending"
         \/ /\ d \in Namesakes(q)
            /\ IsLive(d)
            /\ deployment'[d] = "gone"
<1> USE DEF apiVars, cunqaVars
<1>1. CASE Raise(q) \/ RaiseAgain(q)
  <2>1. pc[q] \in {"qraise", "retry"}
    BY <1>1 DEF Raise, RaiseAgain, At
  <2>2. \/ UNCHANGED deployment
        \/ QraiseSucceeds(q) /\ (Goto(q, "poll") \/ Goto(q, "done"))
    BY <1>1 DEF Raise, RaiseAgain, Fail, QraiseFails, QraiseDuplicate
  <2> QED BY <2>1, <2>2 DEF QraiseSucceeds, Goto, TypeOK
<1>2. CASE Qdrop(q)
  BY <1>2 DEF Qdrop, Dropped
<1>3. CASE UNCHANGED deployment
  BY <1>3
<1>4. Raise(q) \/ RaiseAgain(q) \/ Qdrop(q) \/ UNCHANGED deployment
  BY DEF RunStep, Start, DropNamesake, Load, CheckClock, SendCircuit, TransformFails,
         ClientThrows, RecvResult, Finish, AbortDrop, QdropFails
<1> QED BY <1>1, <1>2, <1>3, <1>4

LEMMA WorldMovesDeployment ==
  ASSUME TypeOK, WorldStep, NEW d \in Run
  PROVE  \/ deployment'[d] = deployment[d]
         \/ deployment[d] = "pending" /\ deployment'[d] = "up"
         \/ deployment[d] = "up" /\ deployment'[d] = "gone"
<1>1. UNCHANGED deployment \/ \E q \in Run : JobStarts(q) \/ JobEnds(q)
  BY DEF WorldStep, Expire, Register, Purge, Answer, Written, cunqaVars
<1> QED BY <1>1 DEF JobStarts, JobEnds, TypeOK

LEMMA RunRegistersNothing ==
  ASSUME TypeOK, NEW q \in Run, RunStep(q)
  PROVE  registry' \subseteq registry
BY QdropType DEF RunStep, Start, Raise, DropNamesake, RaiseAgain, Load, CheckClock,
   SendCircuit, TransformFails, ClientThrows, RecvResult, Finish, AbortDrop,
   QraiseSucceeds, QraiseDuplicate, QraiseFails, cunqaVars

\* Only a run itself brings up a deployment of its own, by qraise.
LEMMA RaisedByItself ==
  ASSUME TypeOK, NEW q \in Run, RunStep(q), NEW d \in Run, IsLive(d)', ~IsLive(d)
  PROVE  d = q /\ pc[d] \in {"qraise", "retry"}
BY RunMovesDeployment DEF IsLive

LEMMA WorldRaisesNothing ==
  ASSUME TypeOK, WorldStep, NEW d \in Run, IsLive(d)'
  PROVE  IsLive(d)
BY WorldMovesDeployment DEF IsLive

---------------------------------------------------------------------------
(* The virtual QPUs that a run chooses *)

LEMMA OwnInit == Init => OwnInv
<1> SUFFICES ASSUME Init PROVE OwnInv
  OBVIOUS
<1>1. TypeOK
  BY TypeInit
<1> QED
  BY <1>1 DEF Init, OwnInv, EntriesSound, RaisesOnce, OwnDeployment, InUse

LEMMA EntriesSoundNext ==
  ASSUME TypeOK, EntriesSound, [Next]_vars
  PROVE  EntriesSound'
<1> USE DEF apiVars, cunqaVars
<1>0. \A e \in registry : e.owner \in Run
  BY DEF TypeOK, Entry
<1>1. ASSUME registry' \subseteq registry,
             \A d \in Run : deployment[d] \in {"up", "gone"}
                              => deployment'[d] \in {"up", "gone"}
      PROVE  EntriesSound'
  BY <1>0, <1>1 DEF EntriesSound
<1>2. CASE UNCHANGED vars
  BY <1>1, <1>2 DEF vars
<1>3. ASSUME NEW r \in Run, Raise(r) \/ RaiseAgain(r) PROVE EntriesSound'
  <2>1. CASE QraiseSucceeds(r)
    <3>1. r \in Namesakes(r)
      BY DEF Namesakes
    <3>2. \A e \in registry : e.owner # r
      BY <2>1, <3>1 DEF QraiseSucceeds, Registered
    <3>3. \A d \in Run \ {r} : deployment'[d] = deployment[d]
      BY <2>1 DEF QraiseSucceeds, TypeOK
    <3> QED BY <1>0, <2>1, <3>2, <3>3 DEF QraiseSucceeds, EntriesSound
  <2>2. CASE UNCHANGED cunqaVars
    BY <1>1, <2>2
  <2> QED BY <1>3, <2>1, <2>2 DEF Raise, RaiseAgain, QraiseDuplicate, QraiseFails
<1>4. ASSUME NEW r \in Run, Qdrop(r) \/ QdropFails(r) PROVE EntriesSound'
  <2>1. registry' \subseteq registry
    BY <1>4, QdropType
  <2>2. \A d \in Run : deployment[d] \in {"up", "gone"}
                         => deployment'[d] \in {"up", "gone"}
    BY <1>4 DEF Qdrop, QdropFails, IsLive
  <2> QED BY <1>1, <2>1, <2>2
<1>5. ASSUME NEW r \in Run, DropNamesake(r) \/ Finish(r) \/ AbortDrop(r)
      PROVE  EntriesSound'
  BY <1>4, <1>5 DEF DropNamesake, Finish, AbortDrop
<1>6. ASSUME NEW r \in Run,
             Start(r) \/ Load(r) \/ CheckClock(r) \/ SendCircuit(r)
               \/ TransformFails(r) \/ ClientThrows(r) \/ RecvResult(r) \/ Expire(r)
      PROVE  EntriesSound'
  BY <1>1, <1>6 DEF Start, Load, CheckClock, SendCircuit, TransformFails,
                    ClientThrows, RecvResult, Expire
<1>7. ASSUME NEW r \in Run, JobStarts(r) \/ JobEnds(r) \/ Purge(r) PROVE EntriesSound'
  BY <1>1, <1>7 DEF JobStarts, JobEnds, Purge, TypeOK
<1>8. ASSUME NEW d \in Run, Register(d) PROVE EntriesSound'
  <2>1. PICK q \in 1 .. Width[d], kind \in Kinds[d] :
          /\ \A e \in registry : e.owner = d => e.qpu # q
          /\ registry' = registry \cup {[owner |-> d, qpu |-> q, kind |-> kind]}
    BY <1>8 DEF Register
  <2>2. deployment[d] = "up" /\ deployment' = deployment
    BY <1>8 DEF Register
  <2> DEFINE new == [owner |-> d, qpu |-> q, kind |-> kind]
  <2>3. new.owner = d /\ new.qpu = q
    OBVIOUS
  <2>4. registry' = registry \cup {new}
    BY <2>1
  <2> HIDE DEF new
  <2> QED BY <2>1, <2>2, <2>3, <2>4 DEF EntriesSound
<1>9. ASSUME NEW r \in Run, NEW i \in 1 .. Width[r], Answer(r, i) PROVE EntriesSound'
  BY <1>1, <1>9 DEF Answer
<1>10. CASE Written
  BY <1>1, <1>10 DEF Written
<1> QED
  BY <1>2, <1>3, <1>5, <1>6, <1>7, <1>8, <1>9, <1>10 DEF Next, RunStep, WorldStep

LEMMA RaisesOnceNext ==
  ASSUME TypeOK, RaisesOnce, [Next]_vars
  PROVE  RaisesOnce'
<1> DEFINE Early == {"idle", "qraise", "qdrop", "retry"}
<1> SUFFICES ASSUME NEW r \in Run, pc'[r] \in Early
             PROVE  deployment'[r] = "none"
  BY DEF RaisesOnce
<1>1. ASSUME pc'[r] = pc[r] PROVE deployment[r] = "none"
  BY <1>1 DEF RaisesOnce
<1>2. CASE UNCHANGED vars
  BY <1>1, <1>2 DEF vars, apiVars, cunqaVars
<1>3. CASE WorldStep
  BY <1>1, <1>3, WorldKeepsRuns, WorldMovesDeployment
<1>4. ASSUME NEW q \in Run, RunStep(q), r # q PROVE deployment'[r] = "none"
  BY <1>1, <1>4, OthersKept, RunMovesDeployment DEF IsLive
<1>5. CASE RunStep(r)
  <2>1. pc[r] \in Early
    <3>1. ASSUME NEW place, Goto(r, place) PROVE place \in Early
      BY <3>1 DEF Goto, TypeOK
    <3> HIDE DEF Early
    <3>2. {"poll", "check", "send", "recv", "finish", "abort", "escaped", "done"}
            \cap Early = {}
      BY DEF Early
    <3>3. ~ (\/ Load(r) \/ CheckClock(r) \/ SendCircuit(r) \/ TransformFails(r)
             \/ ClientThrows(r) \/ RecvResult(r) \/ Finish(r) \/ AbortDrop(r))
      BY <3>1, <3>2 DEF Load, CheckClock, SendCircuit, TransformFails, ClientThrows,
                        RecvResult, Finish, AbortDrop, Abort
    <3> QED
      BY <1>5, <3>3 DEF RunStep, Start, Raise, DropNamesake, RaiseAgain, At, Early
  <2>2. deployment[r] = "none"
    BY <2>1 DEF RaisesOnce
  <2> QED BY <1>5, <2>2, RunMovesDeployment DEF IsLive
<1> QED BY <1>2, <1>3, <1>4, <1>5 DEF Next

\* Circuits go to distinct virtual QPUs, those of r unless an entry has no family.
LEMMA OwnChoices ==
  ASSUME TypeOK, EntriesSound, NEW r \in Run, NEW f \in Choices(r)
  PROVE  \A i, j \in 1 .. Width[r] :
           /\ f[i] \in registry
           /\ Alone(r) /\ f[i].kind # "untagged" => f[i].owner = r
           /\ f[i].owner = f[j].owner /\ f[i].qpu = f[j].qpu => i = j
<1>1. \A e \in Candidates(r) :
        /\ e \in registry
        /\ Alone(r) /\ e.kind # "untagged" => e.owner = r
  BY DEF Candidates, BelongsTo, TypeOK, Entry, Alone, Namesakes
<1>2. \A i \in 1 .. Width[r] : f[i] \in Candidates(r)
  BY DEF Choices
<1>3. \A i, j \in 1 .. Width[r] : f[i] = f[j] => i = j
  BY DEF Choices
<1> QED BY <1>1, <1>2, <1>3 DEF EntriesSound

\* A run that is using virtual QPUs has just chosen them, or goes on with them.
LEMMA InUseStep ==
  ASSUME TypeOK, NEW r \in Run, [Next]_vars, InUse(r)'
  PROVE  \/ InUse(r) /\ endpoints'[r] = endpoints[r]
         \/ /\ Load(r)
            /\ \E f \in Choices(r) : endpoints'[r] = f
<1> USE DEF apiVars
<1>1. CASE UNCHANGED vars \/ WorldStep
  BY <1>1, WorldKeepsRuns DEF vars, InUse
<1>2. ASSUME NEW q \in Run, RunStep(q), r # q
      PROVE  InUse(r) /\ endpoints'[r] = endpoints[r]
  BY <1>2, OthersKept DEF InUse
<1>3. CASE RunStep(r)
  <2>1. ASSUME NEW place, Goto(r, place) PROVE place \in {"send", "recv", "finish"}
    BY <2>1 DEF Goto, TypeOK, InUse
  <2>2. ~ (\/ Start(r) \/ Raise(r) \/ DropNamesake(r) \/ RaiseAgain(r) \/ CheckClock(r)
           \/ TransformFails(r) \/ ClientThrows(r) \/ Finish(r) \/ AbortDrop(r))
    BY <2>1 DEF Start, Raise, DropNamesake, RaiseAgain, CheckClock, TransformFails,
                ClientThrows, Finish, AbortDrop, Abort, Fail
  <2>3. CASE SendCircuit(r) \/ RecvResult(r)
    BY <2>3 DEF SendCircuit, RecvResult, At, InUse
  <2>4. CASE Load(r)
    <3>1. PICK f \in Choices(r) : endpoints' = [endpoints EXCEPT ![r] = f]
      BY <2>1, <2>4 DEF Load
    <3> QED BY <2>4, <3>1 DEF TypeOK
  <2> QED BY <1>3, <2>2, <2>3, <2>4 DEF RunStep
<1> QED BY <1>1, <1>2, <1>3 DEF Next

LEMMA OwnDeploymentNext ==
  ASSUME TypeOK, EntriesSound, OwnDeployment, [Next]_vars
  PROVE  OwnDeployment'
<1> SUFFICES ASSUME NEW r \in Run, InUse(r)', NEW i \in 1 .. Width[r], NEW j \in 1 .. Width[r]
             PROVE  /\ Alone(r) /\ endpoints'[r][i].kind # "untagged"
                         => endpoints'[r][i].owner = r
                    /\ endpoints'[r][i].owner = endpoints'[r][j].owner
                         /\ endpoints'[r][i].qpu = endpoints'[r][j].qpu => i = j
  BY DEF OwnDeployment, Alone, Namesakes
<1>1. CASE InUse(r) /\ endpoints'[r] = endpoints[r]
  BY <1>1 DEF OwnDeployment
<1>2. CASE \E f \in Choices(r) : endpoints'[r] = f
  BY <1>2, OwnChoices
<1> QED BY <1>1, <1>2, InUseStep

LEMMA OwnNext == OwnInv /\ [Next]_vars => OwnInv'
BY TypeNext, EntriesSoundNext, RaisesOnceNext, OwnDeploymentNext DEF OwnInv

LEMMA OwnCorrect == Spec => []OwnInv
BY OwnInit, OwnNext, PTL DEF Spec

\* Circuits go to distinct virtual QPUs of the deployment that their own run
\* raised, or to one that has registered without a family.
THEOREM OwnDeploymentHolds == Spec => []OwnDeployment
<1>1. OwnInv => OwnDeployment
  BY DEF OwnInv
<1> QED BY <1>1, OwnCorrect, PTL

---------------------------------------------------------------------------
(* Results *)

LEMMA ActiveHasCircuitsNext ==
  ASSUME TypeOK, ActiveHasCircuits, [Next]_vars
  PROVE  ActiveHasCircuits'
<1> USE DEF apiVars
<1>1. ASSUME UNCHANGED pc PROVE ActiveHasCircuits'
  BY <1>1 DEF ActiveHasCircuits
<1>2. ASSUME NEW r \in Run, NEW place, Goto(r, place),
             Width[r] > 0 \/ place \in {"idle", "done", "escaped"}
      PROVE  ActiveHasCircuits'
  BY <1>2 DEF Goto, TypeOK, ActiveHasCircuits
<1>3. ASSUME NEW r \in Run, Start(r) PROVE ActiveHasCircuits'
  BY <1>2, <1>3 DEF Start, Fail
<1>4. ASSUME NEW r \in Run, RunStep(r), ~Start(r) PROVE ActiveHasCircuits'
  <2>1. pc[r] \notin {"idle", "done", "escaped"}
    BY <1>4 DEF RunStep, Raise, DropNamesake, RaiseAgain, Load, CheckClock, SendCircuit,
                TransformFails, ClientThrows, RecvResult, Finish, AbortDrop, At
  <2>2. Width[r] > 0
    BY <2>1 DEF ActiveHasCircuits
  <2>3. \E place : Goto(r, place)
    BY <1>4 DEF RunStep, Raise, DropNamesake, RaiseAgain, Load, CheckClock, SendCircuit,
                TransformFails, ClientThrows, RecvResult, Finish, AbortDrop, Abort, Fail
  <2> QED BY <1>2, <2>2, <2>3
<1>5. CASE WorldStep
  BY <1>1, <1>5 DEF WorldStep, Expire, JobStarts, JobEnds, Register, Purge, Answer, Written
<1>6. CASE UNCHANGED vars
  BY <1>1, <1>6 DEF vars
<1> QED BY <1>3, <1>4, <1>5, <1>6 DEF Next

\* A run that returns with a status of its own has dropped its whole family.
LEMMA ReturnDropsFamily ==
  ASSUME TypeOK, NEW r \in Run, RunStep(r), ~At(r, "idle"), At(r, "done")',
         status'[r] \notin {1, 2}, r \notin dropFailed', NEW d \in Namesakes(r)
  PROVE  ~IsLive(d)'
<1> USE DEF At
<1>1. ASSUME NEW place, Goto(r, place) PROVE pc'[r] = place
  BY <1>1 DEF Goto, TypeOK
<1>2. ASSUME Fail(r, 2) PROVE FALSE
  BY <1>2 DEF Fail, TypeOK
<1>3. Finish(r) \/ AbortDrop(r)
  BY <1>1, <1>2 DEF RunStep, Start, Raise, DropNamesake, RaiseAgain, Load, CheckClock,
         SendCircuit, TransformFails, ClientThrows, RecvResult, Abort
<1>4. Qdrop(r)
  BY <1>3 DEF Finish, AbortDrop
<1>5. d \in Dropped(r) /\ d \in Run
  BY DEF Dropped, Namesakes
<1> QED BY <1>4, <1>5 DEF Qdrop, IsLive

\* What ResultsSound and AllOrNothing say of one run.
ResultsOf(r) ==
  /\ pc[r] \notin {"recv", "finish", "abort", "done"} => results[r] = << >>
  /\ pc[r] = "recv" => Len(results[r]) < Width[r]
  /\ pc[r] = "recv" => results[r] = [i \in 1 .. Len(results[r]) |-> i]
  /\ pc[r] = "finish" => results[r] = [i \in 1 .. Width[r] |-> i]
  /\ pc[r] = "abort" => status[r] # 0
  /\ r \in dropFailed => pc[r] = "done" /\ status[r] # 0
  /\ pc[r] = "done" =>
       results[r] = IF status[r] = 0 THEN [i \in 1 .. Width[r] |-> i] ELSE << >>

LEMMA ResultsParts == ResultsSound /\ AllOrNothing <=> \A r \in Run : ResultsOf(r)
BY DEF ResultsSound, AllOrNothing, ResultsOf

LEMMA ResultsOwnStep ==
  ASSUME TypeOK, ActiveHasCircuits, NEW r \in Run, ResultsOf(r), RunStep(r)
  PROVE  ResultsOf(r)'
<1> USE DEF apiVars, At
<1>1. ASSUME NEW place, Goto(r, place) PROVE pc'[r] = place
  BY <1>1 DEF Goto, TypeOK
<1>2. ASSUME NEW code, status' = [status EXCEPT ![r] = code] PROVE status'[r] = code
  BY <1>2 DEF TypeOK
<1>3. ASSUME NEW value, results' = [results EXCEPT ![r] = value] PROVE results'[r] = value
  BY <1>3 DEF TypeOK
<1>4. pc[r] # "done" => r \notin dropFailed
  BY DEF ResultsOf
<1>5. ASSUME NEW code, Fail(r, code), code # 0, pc[r] \in {"idle", "qraise", "retry"},
             UNCHANGED dropFailed
      PROVE  ResultsOf(r)'
  BY <1>1, <1>2, <1>4, <1>5 DEF Fail, ResultsOf
<1>6. ASSUME NEW code, Abort(r, code), code # 0, pc[r] # "done", UNCHANGED dropFailed
      PROVE  ResultsOf(r)'
  BY <1>1, <1>2, <1>4, <1>6 DEF Abort, ResultsOf
<1>7. ASSUME NEW place \in {"qraise", "qdrop", "retry", "poll", "check", "send", "escaped"},
             Goto(r, place), pc[r] \notin {"recv", "finish", "abort", "done"},
             UNCHANGED <<results, dropFailed>>
      PROVE  ResultsOf(r)'
  BY <1>1, <1>4, <1>7 DEF ResultsOf
<1>8. CASE Start(r) \/ Raise(r) \/ DropNamesake(r) \/ RaiseAgain(r) \/ Load(r)
  BY <1>5, <1>7, <1>8 DEF Start, Raise, DropNamesake, RaiseAgain, Load
<1>9. CASE CheckClock(r) \/ TransformFails(r) \/ ClientThrows(r)
  BY <1>6, <1>7, <1>9 DEF CheckClock, TransformFails, ClientThrows
<1>10. CASE SendCircuit(r)
  <2>1. results'[r] = << >> /\ dropFailed' = dropFailed /\ Width[r] > 0
    BY <1>10 DEF SendCircuit, ResultsOf, ActiveHasCircuits
  <2>2. pc'[r] \in {"recv", "send"}
    BY <1>1, <1>10 DEF SendCircuit
  <2>3. << >> = [i \in 1 .. Len(<< >>) |-> i]
    OBVIOUS
  <2> QED BY <1>4, <1>10, <2>1, <2>2, <2>3 DEF SendCircuit, ResultsOf
<1>11. CASE RecvResult(r)
  <2> DEFINE n == Len(results[r])
  <2>1. /\ results[r] \in Seq(Nat)
        /\ n \in Nat
        /\ n < Width[r]
        /\ results[r] = [i \in 1 .. n |-> i]
        /\ Width[r] \in Nat
    <3>1. results[r] \in Seq(Nat) /\ Width[r] \in Nat
      BY WidthAssumption DEF TypeOK
    <3>2. n \in Nat
      BY <3>1
    <3>3. n < Width[r] /\ results[r] = [i \in 1 .. n |-> i]
      BY <1>11 DEF RecvResult, ResultsOf
    <3> QED BY <3>1, <3>2, <3>3
  <2>2. results'[r] = Append(results[r], n + 1)
    BY <1>3, <1>11 DEF RecvResult, IsNext
  <2>3. results'[r] = [i \in 1 .. n + 1 |-> i] /\ Len(results'[r]) = n + 1
    BY <2>1, <2>2
  <2>4. pc'[r] = IF n + 1 = Width[r] THEN "finish" ELSE "recv"
    BY <1>1, <1>11, <2>3 DEF RecvResult
  <2>5. dropFailed' = dropFailed
    BY <1>11 DEF RecvResult
  <2> HIDE DEF n
  <2>6. CASE n + 1 = Width[r]
    BY <1>4, <1>11, <2>3, <2>4, <2>5, <2>6 DEF RecvResult, ResultsOf
  <2>7. CASE n + 1 # Width[r]
    <3>1. pc'[r] = "recv" /\ n + 1 < Width[r]
      BY <2>1, <2>4, <2>7
    <3>2. r \notin dropFailed'
      BY <1>4, <1>11, <2>5 DEF RecvResult
    <3> QED BY <2>3, <3>1, <3>2 DEF ResultsOf
  <2> QED BY <2>6, <2>7
<1>12. CASE Finish(r)
  <2>1. pc'[r] = "done" /\ r \notin dropFailed
    BY <1>1, <1>4, <1>12 DEF Finish
  <2>2. \/ status'[r] = 0 /\ UNCHANGED <<results, dropFailed>>
        \/ status'[r] = 3 /\ results'[r] = << >>
    BY <1>2, <1>3, <1>12 DEF Finish
  <2> QED BY <1>12, <2>1, <2>2 DEF Finish, ResultsOf
<1>13. CASE AbortDrop(r)
  <2>1. pc'[r] = "done" /\ results'[r] = << >> /\ status'[r] # 0
    BY <1>1, <1>3, <1>13 DEF AbortDrop, ResultsOf
  <2> QED BY <2>1 DEF ResultsOf
<1> QED BY <1>8, <1>9, <1>10, <1>11, <1>12, <1>13 DEF RunStep

LEMMA ResultsInit == Init => ResultsInv
BY TypeInit DEF Init, ResultsInv, ActiveHasCircuits, ResultsSound, AllOrNothing

LEMMA ResultsNext == ResultsInv /\ [Next]_vars => ResultsInv'
<1> SUFFICES ASSUME ResultsInv, [Next]_vars PROVE ResultsInv'
  OBVIOUS
<1>1. TypeOK' /\ ActiveHasCircuits'
  BY TypeNext, ActiveHasCircuitsNext DEF ResultsInv
<1>2. ASSUME NEW r \in Run PROVE ResultsOf(r)'
  <2>1. ResultsOf(r)
    BY ResultsParts DEF ResultsInv
  <2>2. CASE RunStep(r)
    BY <2>1, <2>2, ResultsOwnStep DEF ResultsInv
  <2>3. ASSUME NEW q \in Run, RunStep(q), r # q PROVE ResultsOf(r)'
    BY <2>1, <2>3, OthersKept DEF ResultsInv, ResultsOf
  <2>4. CASE WorldStep \/ UNCHANGED vars
    BY <2>1, <2>4, WorldKeepsRuns DEF ResultsOf, vars, apiVars
  <2> QED BY <2>2, <2>3, <2>4 DEF Next
<1>3. (ResultsSound /\ AllOrNothing)'
  BY <1>2 DEF ResultsSound, AllOrNothing, ResultsOf
<1> QED BY <1>1, <1>3 DEF ResultsInv

LEMMA ResultsCorrect == Spec => []ResultsInv
BY ResultsInit, ResultsNext, PTL DEF Spec

\* A run returns all of its results in order, or none.
THEOREM AllOrNothingHolds == Spec => []AllOrNothing
<1>1. ResultsInv => AllOrNothing
  BY DEF ResultsInv
<1> QED BY <1>1, ResultsCorrect, PTL

---------------------------------------------------------------------------
(* Plans *)

LEMMA PlanOfRuns ==
  ASSUME ProgramsType, NEW p \in Process
  PROVE  /\ plan[p] \in Seq(Run)
         /\ Len(plan[p]) \in Nat
         /\ DOMAIN plan[p] = 1 .. Len(plan[p])
         /\ \A i \in 1 .. Len(plan[p]) : plan[p][i] \in Run /\ plan[p][i] \in Runs(p)
<1>1. plan[p] \in Seq(Run)
  BY PlansAssumption DEF ProgramsType
<1>2. Len(plan[p]) \in Nat /\ DOMAIN plan[p] = 1 .. Len(plan[p])
  BY <1>1
<1>3. \A i \in 1 .. Len(plan[p]) : plan[p][i] \in Run
  BY <1>1
<1> QED BY <1>1, <1>2, <1>3 DEF Runs, Range

\* A call belongs to one process, and is made once.
LEMMA OwnedOnce ==
  ASSUME ProgramsType, NEW p \in Process, NEW q \in Process,
         NEW i \in 1 .. Len(plan[p]), NEW j \in 1 .. Len(plan[q]),
         plan[p][i] = plan[q][j]
  PROVE  p = q /\ i = j
<1>1. plan[p][i] \in Runs(p) /\ plan[q][j] \in Runs(q)
  BY PlanOfRuns
<1>2. p = q
  BY <1>1, PlansAssumption DEF ProgramsType, Runs
<1>3. i = j
  <2>1. IsInjective(plan[p])
    BY PlansAssumption DEF ProgramsType
  <2>2. i \in DOMAIN plan[p] /\ j \in DOMAIN plan[p]
    BY <1>2, PlanOfRuns
  <2> QED BY <1>2, <2>1, <2>2 DEF IsInjective
<1> QED BY <1>2, <1>3

LEMMA OneOwner ==
  ASSUME ProgramsType, NEW p \in Process, NEW q \in Process, NEW d,
         d \in Runs(p), d \in Runs(q)
  PROVE  p = q
BY PlansAssumption DEF ProgramsType, Runs

LEMMA IndexOfRun ==
  ASSUME ProgramsType, NEW p \in Process, NEW d \in Runs(p)
  PROVE  \E i \in 1 .. Len(plan[p]) : plan[p][i] = d
BY PlanOfRuns DEF Runs, Range

LEMMA CurrentCall ==
  ASSUME ProgramsType, NEW p \in Process, Active(p)
  PROVE  /\ turn[p] + 1 \in 1 .. Len(plan[p])
         /\ Current(p) = plan[p][turn[p] + 1]
         /\ Current(p) \in Run
         /\ Current(p) \in Runs(p)
<1>1. turn[p] \in Nat /\ Len(plan[p]) \in Nat /\ turn[p] < Len(plan[p])
  BY PlanOfRuns DEF ProgramsType, Active
<1>2. turn[p] + 1 \in 1 .. Len(plan[p])
  BY <1>1
<1> QED BY <1>2, PlanOfRuns DEF Current

---------------------------------------------------------------------------
(* Programs implement CunqaApi *)

\* A step of a process is one of its current call, or changes no run at all.
LEMMA ProcessMoves ==
  ASSUME ProgramsType, NEW p \in Process, ProcessStep(p)
  PROVE  /\ Active(p)
         /\ UNCHANGED plan
         /\ \/ /\ Begin(p) \/ Work(p)
               /\ RunStep(Current(p))
               /\ UNCHANGED <<turn, exit>>
            \/ /\ Refused(p) \/ GoOn(p) \/ GiveUp(p) \/ Escape(p) \/ Kill(p)
               /\ UNCHANGED <<vars, inherited, dropped, timedOut>>
BY DEF ProcessStep, Begin, Work, Refused, GoOn, GiveUp, Escape, Kill, End, RunStep, progVars

LEMMA ProgramsTypeNext ==
  ProgramsType /\ [ProgramsNext]_programVars => ProgramsType'
<1> SUFFICES ASSUME ProgramsType, [ProgramsNext]_programVars PROVE ProgramsType'
  OBVIOUS
<1>1. CASE UNCHANGED progVars
  BY <1>1 DEF progVars, ProgramsType
<1>2. ASSUME NEW p \in Process, ProcessStep(p) PROVE ProgramsType'
  <2>1. Active(p) /\ plan' = plan
    BY <1>2, ProcessMoves
  <2>2. turn[p] \in Nat /\ Len(plan[p]) \in Nat /\ turn[p] < Len(plan[p])
    BY <2>1, PlanOfRuns DEF Active, ProgramsType
  <2>3. CASE Begin(p)
    <3>1. inherited' \in [Run -> SUBSET Run]
      BY <2>3 DEF Begin, ProgramsType, Namesakes
    <3> QED BY <2>3, <3>1 DEF Begin, ProgramsType
  <2>4. CASE Work(p)
    <3>1. dropped' \in [Run -> SUBSET Run]
      BY <2>4 DEF Work, Ended, ProgramsType
    <3> QED BY <2>4, <3>1 DEF Work, ProgramsType
  <2>5. CASE GoOn(p)
    <3>1. turn' = [turn EXCEPT ![p] = turn[p] + 1]
      BY <2>5 DEF GoOn
    <3>2. turn' \in [Process -> Nat] /\ \A q \in Process : turn'[q] <= Len(plan'[q])
      BY <2>1, <2>2, <3>1 DEF ProgramsType
    <3>3. exit' \in [Process -> {"none", "success", "error", "killed"}]
      BY <2>5 DEF GoOn, ProgramsType
    <3> QED BY <2>1, <2>5, <3>2, <3>3 DEF GoOn, ProgramsType
  <2>6. CASE Refused(p) \/ GiveUp(p) \/ Escape(p) \/ Kill(p)
    BY <2>6 DEF Refused, GiveUp, Escape, Kill, End, ProgramsType
  <2> QED BY <1>2, <2>3, <2>4, <2>5, <2>6 DEF ProcessStep
<1>3. CASE WorldMoves
  BY <1>3 DEF WorldMoves, Ended, ProgramsType
<1> QED BY <1>1, <1>2, <1>3 DEF ProgramsNext, programVars

LEMMA ProgramsTypeInit == ProgramsInit => ProgramsType
<1> SUFFICES ASSUME ProgramsInit PROVE ProgramsType
  OBVIOUS
<1>1. plan \in Plans /\ turn = [p \in Process |-> 0]
  BY DEF ProgramsInit
<1>2. \A p \in Process : Len(plan[p]) \in Nat
  BY <1>1, PlansAssumption
<1> QED BY <1>1, <1>2 DEF ProgramsInit, ProgramsType

LEMMA ProgramsStep == ProgramsType /\ [ProgramsNext]_programVars => [Next]_vars
<1> SUFFICES ASSUME ProgramsType, [ProgramsNext]_programVars PROVE [Next]_vars
  OBVIOUS
<1>1. CASE UNCHANGED programVars
  BY <1>1 DEF programVars
<1>2. CASE WorldMoves
  BY <1>2 DEF WorldMoves, Next
<1>3. ASSUME NEW p \in Process, ProcessStep(p) PROVE [Next]_vars
  <2>1. Current(p) \in Run
    BY <1>3, ProcessMoves, CurrentCall
  <2>2. RunStep(Current(p)) \/ UNCHANGED vars
    BY <1>3, ProcessMoves
  <2> QED BY <2>1, <2>2 DEF Next
<1> QED BY <1>1, <1>2, <1>3 DEF ProgramsNext

\* Whatever is proved of all runs holds of the runs of programs.
THEOREM ProgramsImplement == ProgramsSpec => Spec
<1>1. ProgramsInit => ProgramsType /\ Init
  BY ProgramsTypeInit DEF ProgramsInit
<1> QED BY <1>1, ProgramsTypeNext, ProgramsStep, PTL DEF ProgramsSpec, Spec

THEOREM NoLeakInPrograms == ProgramsSpec => []NoLeak
BY ProgramsImplement, NoLeakHolds, PTL

THEOREM AllOrNothingInPrograms == ProgramsSpec => []AllOrNothing
BY ProgramsImplement, AllOrNothingHolds, PTL

---------------------------------------------------------------------------
(* The order of the calls *)

\* A process leaves the calls of others, and its own other calls, as they are.
LEMMA OtherCallsKept ==
  ASSUME TypeOK, ProgramsType, NEW p \in Process, ProcessStep(p),
         NEW d \in Run, d # Current(p)
  PROVE  /\ pc'[d] = pc[d]
         /\ status'[d] = status[d]
         /\ d \in dropFailed' <=> d \in dropFailed
<1>1. CASE RunStep(Current(p))
  BY <1>1, ProcessMoves, CurrentCall, OthersKept
<1>2. CASE UNCHANGED vars
  BY <1>2 DEF vars, apiVars
<1> QED BY <1>1, <1>2, ProcessMoves

LEMMA InTurnNext ==
  ASSUME TypeOK, ProgramsType, InTurn, [ProgramsNext]_programVars
  PROVE  InTurn'
<1> USE DEF At
<1>1. ASSUME UNCHANGED <<plan, turn, pc, status>> PROVE InTurn'
  BY <1>1 DEF InTurn
<1>2. CASE UNCHANGED programVars
  BY <1>1, <1>2 DEF programVars, progVars, vars, apiVars
<1>3. CASE WorldMoves
  BY <1>1, <1>3, WorldKeepsRuns DEF WorldMoves
<1>4. ASSUME NEW p \in Process, ProcessStep(p) PROVE InTurn'
  <2>1. /\ Active(p) /\ plan' = plan
        /\ turn[p] + 1 \in 1 .. Len(plan[p])
        /\ Current(p) = plan[p][turn[p] + 1]
        /\ turn \in [Process -> Nat]
    BY <1>4, ProcessMoves, CurrentCall DEF ProgramsType
  <2>2. CASE UNCHANGED turn
    <3> SUFFICES ASSUME NEW q \in Process, NEW i \in 1 .. Len(plan[q])
                 PROVE  /\ i <= turn[q] => pc'[plan[q][i]] = "done" /\ status'[plan[q][i]] = 0
                        /\ i > turn[q] + 1 => pc'[plan[q][i]] = "idle"
      BY <2>1, <2>2 DEF InTurn
    <3>1. plan[q][i] \in Run
      BY PlanOfRuns
    <3>2. CASE plan[q][i] # Current(p)
      BY <1>4, <3>1, <3>2, OtherCallsKept DEF InTurn
    <3>3. CASE plan[q][i] = Current(p)
      <4>1. q = p /\ i = turn[p] + 1
        BY <2>1, <3>3, OwnedOnce
      <4> QED BY <2>1, <4>1
    <3> QED BY <3>2, <3>3
  <2>3. CASE GoOn(p)
    <3>1. UNCHANGED <<pc, status>>
      BY <2>3 DEF GoOn, vars, apiVars
    <3>2. turn' = [turn EXCEPT ![p] = turn[p] + 1]
      BY <2>3 DEF GoOn
    <3>3. pc[Current(p)] = "done" /\ status[Current(p)] = 0
      BY <2>3 DEF GoOn, Succeeded
    <3> SUFFICES ASSUME NEW q \in Process, NEW i \in 1 .. Len(plan[q])
                 PROVE  /\ i <= turn'[q] => pc[plan[q][i]] = "done" /\ status[plan[q][i]] = 0
                        /\ i > turn'[q] + 1 => pc[plan[q][i]] = "idle"
      BY <2>1, <3>1 DEF InTurn
    <3>4. CASE q # p
      BY <2>1, <3>2, <3>4 DEF InTurn
    <3>5. CASE q = p
      <4>1. turn'[p] = turn[p] + 1 /\ turn[p] \in Nat
        BY <2>1, <3>2
      <4>2. CASE i = turn[p] + 1
        BY <2>1, <3>3, <3>5, <4>1, <4>2
      <4>3. CASE i # turn[p] + 1
        BY <3>5, <4>1, <4>3 DEF InTurn
      <4> QED BY <4>2, <4>3
    <3> QED BY <3>4, <3>5
  <2>4. UNCHANGED turn \/ GoOn(p)
    BY <1>4 DEF ProcessStep, Begin, Work, Refused, GiveUp, Escape, Kill, End, progVars
  <2> QED BY <2>2, <2>3, <2>4
<1> QED BY <1>2, <1>3, <1>4 DEF ProgramsNext

LEMMA EndsBetweenNext ==
  ASSUME TypeOK, ProgramsType, EndsBetween, [ProgramsNext]_programVars
  PROVE  EndsBetween'
<1> USE DEF At
<1>1. ASSUME UNCHANGED <<plan, turn, exit, pc>> PROVE EndsBetween'
  BY <1>1 DEF EndsBetween
<1>2. CASE UNCHANGED programVars
  BY <1>1, <1>2 DEF programVars, progVars, vars, apiVars
<1>3. CASE WorldMoves
  BY <1>1, <1>3, WorldKeepsRuns DEF WorldMoves
<1>4. ASSUME NEW p \in Process, ProcessStep(p) PROVE EndsBetween'
  <2>1. /\ plan' = plan
        /\ exit[p] = "none"
        /\ turn[p] + 1 \in 1 .. Len(plan[p])
        /\ Current(p) = plan[p][turn[p] + 1]
        /\ turn \in [Process -> Nat]
        /\ exit \in [Process -> {"none", "success", "error", "killed"}]
    BY <1>4, ProcessMoves, CurrentCall DEF Active, ProgramsType
  <2>2. ASSUME NEW q \in Process, q # p, exit[q] = "error",
               NEW i \in 1 .. Len(plan[q]), i = turn[q] + 1
        PROVE  pc'[plan[q][i]] \in {"idle", "done", "escaped"}
    <3>1. plan[q][i] \in Run /\ plan[q][i] # Current(p)
      BY <2>1, <2>2, PlanOfRuns, OwnedOnce
    <3>2. pc'[plan[q][i]] = pc[plan[q][i]]
      BY <1>4, <3>1, OtherCallsKept
    <3> QED BY <2>2, <3>2 DEF EndsBetween
  <2>3. \A q \in Process \ {p} : turn'[q] = turn[q] /\ exit'[q] = exit[q]
    BY <1>4, <2>1 DEF ProcessStep, Begin, Work, Refused, GoOn, GiveUp, Escape, Kill, End,
                      progVars
  <2>4. exit'[p] = "success" => turn'[p] = Len(plan[p])
    BY <1>4, <2>1 DEF ProcessStep, Begin, Work, Refused, GoOn, GiveUp, Escape, Kill, End,
                      progVars
  <2>5. exit'[p] = "error" =>
          turn'[p] = turn[p] /\ pc'[Current(p)] \in {"idle", "done", "escaped"}
    BY <1>4, <2>1 DEF ProcessStep, Begin, Work, Refused, GoOn, GiveUp, Escape, Kill, End,
                      progVars, vars, apiVars
  <2> QED BY <2>1, <2>2, <2>3, <2>4, <2>5 DEF EndsBetween
<1> QED BY <1>2, <1>3, <1>4 DEF ProgramsNext

LEMMA BegunAdmittedNext ==
  ASSUME TypeOK, ProgramsType, BegunAdmitted, [ProgramsNext]_programVars
  PROVE  BegunAdmitted'
<1> USE DEF At
<1>1. ASSUME UNCHANGED pc PROVE BegunAdmitted'
  BY <1>1 DEF BegunAdmitted, Admitted
<1>2. CASE UNCHANGED programVars
  BY <1>1, <1>2 DEF programVars, vars, apiVars
<1>3. CASE WorldMoves
  BY <1>1, <1>3, WorldKeepsRuns DEF WorldMoves
<1>4. ASSUME NEW p \in Process, ProcessStep(p) PROVE BegunAdmitted'
  <2>1. UNCHANGED pc \/ Begin(p) \/ Work(p)
    BY <1>4 DEF ProcessStep, Refused, GoOn, GiveUp, Escape, Kill, End, vars, apiVars
  <2>2. CASE Begin(p) \/ Work(p)
    <3>1. Admitted(Current(p))
      BY <2>2, CurrentCall DEF Begin, Work, BegunAdmitted
    <3>2. \A d \in Run \ {Current(p)} : pc'[d] = pc[d]
      BY <1>4, OtherCallsKept
    <3> QED BY <3>1, <3>2 DEF BegunAdmitted, Admitted
  <2> QED BY <1>1, <2>1, <2>2
<1> QED BY <1>2, <1>3, <1>4 DEF ProgramsNext

---------------------------------------------------------------------------
(* Restarts *)

\* What is over stays over, and is not raised again.
LEMMA OverStays ==
  ASSUME TypeOK, ProgramsType, [ProgramsNext]_programVars, NEW d \in Run, Over(d)
  PROVE  Over(d)' /\ (IsLive(d)' => IsLive(d))
<1> USE DEF At
<1>1. CASE UNCHANGED programVars
  BY <1>1 DEF programVars, progVars, vars, apiVars, cunqaVars, Over, Runs, IsLive
<1>2. CASE WorldMoves
  <2>1. UNCHANGED <<pc, plan, exit>>
    BY <1>2, WorldKeepsRuns DEF WorldMoves
  <2> QED BY <1>2, <2>1, WorldRaisesNothing DEF WorldMoves, Over, Runs
<1>3. ASSUME NEW p \in Process, ProcessStep(p)
      PROVE  Over(d)' /\ (IsLive(d)' => IsLive(d))
  <2>1. /\ exit[p] = "none"
        /\ plan' = plan
        /\ Current(p) \in Run /\ Current(p) \in Runs(p)
    BY <1>3, ProcessMoves, CurrentCall DEF Active
  <2>2. \A q \in Process \ {p} : exit'[q] = exit[q]
    BY <1>3 DEF ProcessStep, Begin, Work, Refused, GoOn, GiveUp, Escape, Kill, End,
                progVars, ProgramsType
  <2>3. CASE pc[d] = "done"
    <3>1. pc'[d] = "done"
      <4>1. CASE d # Current(p)
        BY <1>3, <2>3, <4>1, OtherCallsKept
      <4>2. CASE UNCHANGED vars
        BY <2>3, <4>2 DEF vars, apiVars
      <4>3. ~RunStep(d)
        BY <2>3 DEF RunStep, Start, Raise, DropNamesake, RaiseAgain, Load, CheckClock,
             SendCircuit, TransformFails, ClientThrows, RecvResult, Finish, AbortDrop
      <4> QED BY <1>3, <4>1, <4>2, <4>3, ProcessMoves
    <3>2. IsLive(d)' => IsLive(d)
      <4>1. CASE RunStep(Current(p))
        BY <2>1, <2>3, <4>1, RaisedByItself
      <4>2. CASE UNCHANGED vars
        BY <4>2 DEF vars, cunqaVars, IsLive
      <4> QED BY <1>3, <4>1, <4>2, ProcessMoves
    <3> QED BY <3>1, <3>2 DEF Over
  <2>4. CASE pc[d] # "done"
    <3>1. PICK q \in Process : d \in Runs(q) /\ exit[q] # "none"
      BY <2>4 DEF Over
    <3>2. q # p /\ d # Current(p)
      BY <2>1, <3>1, OneOwner
    <3>3. exit'[q] # "none" /\ d \in Runs(q)'
      BY <2>1, <2>2, <3>1, <3>2 DEF Runs
    <3>4. IsLive(d)' => IsLive(d)
      <4>1. CASE RunStep(Current(p))
        BY <2>1, <3>2, <4>1, RaisedByItself
      <4>2. CASE UNCHANGED vars
        BY <4>2 DEF vars, cunqaVars, IsLive
      <4> QED BY <1>3, <4>1, <4>2, ProcessMoves
    <3> QED BY <3>3, <3>4 DEF Over
  <2> QED BY <2>3, <2>4
<1> QED BY <1>1, <1>2, <1>3 DEF ProgramsNext

LEMMA InheritedKept ==
  ASSUME ProgramsType, [ProgramsNext]_programVars, NEW r \in Run
  PROVE  \/ inherited'[r] = inherited[r]
         \/ \E p \in Process :
              /\ Begin(p)
              /\ r = Current(p)
              /\ inherited'[r] = {d \in Namesakes(r) : Orphan(d)}
BY CurrentCall DEF ProgramsNext, WorldMoves, ProcessStep, Begin, Work, Refused, GoOn,
   GiveUp, Escape, Kill, End, progVars, programVars, ProgramsType

LEMMA InheritedOverNext ==
  ASSUME TypeOK, ProgramsType, InheritedOver, [ProgramsNext]_programVars
  PROVE  InheritedOver'
<1> SUFFICES ASSUME NEW r \in Run, NEW d \in inherited'[r]
             PROVE  d \in Namesakes(r) /\ Over(d)'
  BY DEF InheritedOver, Namesakes
<1>1. d \in Namesakes(r) /\ Over(d)
  BY InheritedKept DEF InheritedOver, Orphan
<1>2. d \in Run
  BY <1>1 DEF Namesakes
<1> QED BY <1>1, <1>2, OverStays

LEMMA RestartRecoversNext ==
  ASSUME TypeOK, ProgramsType, InheritedOver, RestartRecovers, [ProgramsNext]_programVars
  PROVE  RestartRecovers'
<1> USE DEF At
<1> SUFFICES ASSUME NEW r \in Run, pc'[r] = "done", status'[r] \notin {1, 2},
                    r \notin dropFailed', NEW d \in inherited'[r]
             PROVE  ~IsLive(d)'
  BY DEF RestartRecovers
<1>1. ASSUME inherited'[r] = inherited[r], pc'[r] = pc[r], status'[r] = status[r],
             r \notin dropFailed
      PROVE  ~IsLive(d)'
  <2>1. ~IsLive(d) /\ Over(d) /\ d \in Run
    BY <1>1 DEF RestartRecovers, InheritedOver, Namesakes
  <2> QED BY <2>1, OverStays
<1>2. CASE UNCHANGED programVars
  BY <1>1, <1>2 DEF programVars, progVars, vars, apiVars
<1>3. CASE WorldMoves
  BY <1>1, <1>3, WorldKeepsRuns DEF WorldMoves
<1>4. ASSUME NEW p \in Process, ProcessStep(p) PROVE ~IsLive(d)'
  <2>1. Current(p) \in Run
    BY <1>4, ProcessMoves, CurrentCall
  <2>2. CASE r # Current(p)
    <3>1. inherited'[r] = inherited[r]
      BY <1>4, <2>2 DEF ProcessStep, Begin, Work, Refused, GoOn, GiveUp, Escape, Kill, End,
                        progVars, ProgramsType
    <3>2. /\ pc'[r] = pc[r]
          /\ status'[r] = status[r]
          /\ r \in dropFailed' <=> r \in dropFailed
      BY <1>4, <2>2, OtherCallsKept
    <3> QED BY <1>1, <3>1, <3>2
  <2>3. CASE r = Current(p) /\ Begin(p)
    <3>1. pc'[r] = "qraise" \/ status'[r] = 1
      BY <2>3 DEF Begin, Start, Fail, Goto, TypeOK
    <3> QED BY <3>1
  <2>4. CASE r = Current(p) /\ Work(p)
    <3>1. RunStep(r) /\ pc[r] # "idle" /\ inherited' = inherited
      BY <2>4 DEF Work, progVars
    <3>2. d \in Namesakes(r)
      BY <3>1 DEF InheritedOver
    <3> QED BY <3>1, <3>2, ReturnDropsFamily
  <2>5. CASE UNCHANGED <<vars, inherited>>
    BY <1>1, <2>5 DEF vars, apiVars
  <2> QED BY <1>4, <2>2, <2>3, <2>4, <2>5, ProcessMoves
<1> QED BY <1>2, <1>3, <1>4 DEF ProgramsNext

---------------------------------------------------------------------------
(* How deployments end *)

\* Only what the current call of a process does is put down to it.
LEMMA DroppedByItself ==
  ASSUME ProgramsType, NEW p \in Process, ProcessStep(p), NEW r \in Run
  PROVE  /\ timedOut' = timedOut
         /\ \/ dropped'[r] = dropped[r]
            \/ r = Current(p) /\ RunStep(r) /\ dropped'[r] = dropped[r] \cup Ended
BY CurrentCall DEF ProcessStep, Begin, Work, Refused, GoOn, GiveUp, Escape, Kill, End,
   ProgramsType

\* What has ended stays so, what is up ends at most, and an end has an author.
LEMMA EndHasAuthor ==
  ASSUME TypeOK, ProgramsType, RaisesOnce, [ProgramsNext]_programVars, NEW d \in Run
  PROVE  /\ deployment[d] = "gone" => deployment'[d] = "gone"
         /\ deployment[d] = "up" => deployment'[d] \in {"up", "gone"}
         /\ deployment[d] # "gone" /\ deployment'[d] = "gone" =>
              d \in timedOut' \/ \E q \in Namesakes(d) : d \in dropped'[q]
<1>1. CASE UNCHANGED programVars
  BY <1>1 DEF programVars, vars, cunqaVars
<1>2. CASE WorldMoves
  BY <1>2, WorldMovesDeployment DEF WorldMoves, Ended, IsLive
<1>3. ASSUME NEW p \in Process, ProcessStep(p)
      PROVE  /\ deployment[d] = "gone" => deployment'[d] = "gone"
             /\ deployment[d] = "up" => deployment'[d] \in {"up", "gone"}
             /\ deployment[d] # "gone" /\ deployment'[d] = "gone" =>
                  \E q \in Namesakes(d) : d \in dropped'[q]
  <2>1. CASE UNCHANGED deployment
    BY <2>1
  <2>2. CASE (Begin(p) \/ Work(p)) /\ ~ UNCHANGED deployment
    <3> DEFINE q == Current(p)
    <3>1. q \in Run /\ RunStep(q)
      BY <1>3, <2>2, ProcessMoves, CurrentCall DEF Begin, Work, RunStep
    <3>2. Work(p)
      BY <2>2 DEF Begin, Start, cunqaVars
    <3>3. dropped'[q] = dropped[q] \cup Ended
      BY <3>1, <3>2 DEF Work, ProgramsType
    <3> HIDE DEF q
    <3>4. CASE deployment'[d] = deployment[d]
      BY <3>4
    <3>5. CASE d = q /\ pc[q] \in {"qraise", "retry"} /\ deployment'[d] = "pending"
      BY <3>5 DEF RaisesOnce
    <3>6. CASE d \in Namesakes(q) /\ IsLive(d) /\ deployment'[d] = "gone"
      <4>1. d \in Ended /\ q \in Namesakes(d)
        BY <3>1, <3>6 DEF Ended, IsLive, Namesakes
      <4> QED BY <3>3, <3>6, <4>1 DEF IsLive
    <3> QED BY <3>1, <3>4, <3>5, <3>6, RunMovesDeployment
  <2> QED BY <1>3, <2>1, <2>2, ProcessMoves DEF vars, cunqaVars
<1> QED BY <1>1, <1>2, <1>3 DEF ProgramsNext

LEMMA EndedSoundNext ==
  ASSUME TypeOK, ProgramsType, RaisesOnce, EndedSound, [ProgramsNext]_programVars
  PROVE  EndedSound'
<1>1. ASSUME NEW q \in Run, NEW d \in dropped'[q]
      PROVE  d \in Namesakes(q) /\ deployment'[d] = "gone"
  <2>1. CASE d \in dropped[q]
    BY <2>1, EndHasAuthor DEF EndedSound, Namesakes
  <2>2. CASE d \notin dropped[q]
    <3>1. RunStep(q) /\ d \in Ended
      BY <1>1, <2>2, DroppedByItself DEF ProgramsNext, programVars, progVars, WorldMoves
    <3> QED BY <3>1, RunMovesDeployment DEF Ended, IsLive
  <2> QED BY <2>1, <2>2
<1>2. timedOut \subseteq timedOut' /\ \A q \in Run : dropped[q] \subseteq dropped'[q]
  <2>1. CASE UNCHANGED programVars
    BY <2>1 DEF programVars, progVars
  <2>2. CASE WorldMoves
    BY <2>2 DEF WorldMoves
  <2>3. ASSUME NEW p \in Process, ProcessStep(p), NEW q \in Run
        PROVE  timedOut \subseteq timedOut' /\ dropped[q] \subseteq dropped'[q]
    BY <2>3, DroppedByItself
  <2>4. ASSUME NEW p \in Process, ProcessStep(p) PROVE timedOut \subseteq timedOut'
    BY <2>4, CurrentCall, ProcessMoves, DroppedByItself
  <2> QED BY <2>1, <2>2, <2>3, <2>4 DEF ProgramsNext
<1>3. ASSUME NEW d \in Run, deployment'[d] = "gone"
      PROVE  d \in timedOut' \/ \E q \in Namesakes(d) : d \in dropped'[q]
  <2>1. CASE deployment[d] = "gone"
    BY <1>2, <2>1 DEF EndedSound, Namesakes
  <2>2. CASE deployment[d] # "gone"
    BY <1>3, <2>2, EndHasAuthor
  <2> QED BY <2>1, <2>2
<1> QED BY <1>1, <1>3 DEF EndedSound, Namesakes

\* Before it chooses, a run has nothing in its way of what it has dropped.
LEMMA PollsClear ==
  ASSUME TypeOK, EntriesSound, ProgramsType, RaisesOnce, EndedSound, EndedSound',
         UsesStanding, [ProgramsNext]_programVars,
         NEW r \in Run, pc'[r] \in {"poll", "check"}, NEW e \in registry'
  PROVE  e.owner \notin dropped'[r]
<1> USE DEF At
<1>1. \A x \in registry : x.owner \in Run
  BY DEF TypeOK, Entry
<1>2. ASSUME pc'[r] = pc[r], dropped'[r] = dropped[r], e \in registry
      PROVE  e.owner \notin dropped'[r]
  BY <1>2 DEF UsesStanding
<1>3. CASE UNCHANGED programVars
  BY <1>2, <1>3 DEF programVars, progVars, vars, apiVars, cunqaVars
<1>4. CASE WorldMoves
  <2>1. pc'[r] = pc[r] /\ dropped' = dropped
    BY <1>4, WorldKeepsRuns DEF WorldMoves
  <2>2. e \in registry \/ deployment[e.owner] = "up"
    BY <1>4 DEF WorldMoves, WorldStep, Expire, JobStarts, JobEnds, Register, Purge, Answer,
                Written, cunqaVars
  <2>3. CASE deployment[e.owner] = "up"
    BY <2>1, <2>3 DEF EndedSound
  <2> QED BY <1>2, <2>1, <2>2, <2>3
<1>5. ASSUME NEW p \in Process, ProcessStep(p) PROVE e.owner \notin dropped'[r]
  <2>1. CASE UNCHANGED vars
    <3>1. dropped' = dropped
      BY <1>5, <2>1 DEF ProcessStep, Begin, Work, Refused, GoOn, GiveUp, Escape, Kill, End,
                        Ended, IsLive, vars, cunqaVars, ProgramsType
    <3> QED BY <1>2, <2>1, <3>1 DEF vars, apiVars, cunqaVars
  <2>2. CASE RunStep(Current(p)) /\ r # Current(p)
    <3>1. Current(p) \in Run
      BY <1>5, ProcessMoves, CurrentCall
    <3>2. pc'[r] = pc[r] /\ dropped'[r] = dropped[r]
      BY <1>5, <2>2, <3>1, OthersKept, DroppedByItself
    <3>3. registry' \subseteq registry
      BY <2>2, <3>1, RunRegistersNothing
    <3> QED BY <1>2, <3>2, <3>3
  <2>3. CASE RunStep(r)
    <3>1. e \in registry
      BY <2>3, RunRegistersNothing
    <3>2. CASE QraiseSucceeds(r)
      <4>1. e.owner \notin Namesakes(r)
        BY <1>1, <3>1, <3>2 DEF QraiseSucceeds, Registered
      <4> QED BY <4>1 DEF EndedSound, Namesakes
    <3>3. CASE pc[r] \in {"poll", "check"} /\ UNCHANGED deployment
      <4>1. Ended = {}
        BY <3>3 DEF Ended, IsLive
      <4>2. dropped'[r] = dropped[r]
        BY <1>5, <4>1, DroppedByItself
      <4> QED BY <3>1, <3>3, <4>2 DEF UsesStanding
    <3>4. QraiseSucceeds(r) \/ (pc[r] \in {"poll", "check"} /\ UNCHANGED deployment)
      <4>1. ASSUME NEW place, Goto(r, place) PROVE place \in {"poll", "check"}
        BY <4>1 DEF Goto, TypeOK
      <4>2. ~ (\/ Start(r) \/ DropNamesake(r) \/ SendCircuit(r) \/ TransformFails(r)
               \/ ClientThrows(r) \/ RecvResult(r) \/ Finish(r) \/ AbortDrop(r))
        BY <4>1 DEF Start, DropNamesake, SendCircuit, TransformFails, ClientThrows,
                    RecvResult, Finish, AbortDrop, Abort, Fail
      <4>3. CASE Raise(r) \/ RaiseAgain(r)
        BY <4>1, <4>3 DEF Raise, RaiseAgain, Fail
      <4>4. CASE Load(r) \/ CheckClock(r)
        BY <4>4 DEF Load, CheckClock, cunqaVars
      <4> QED BY <2>3, <4>2, <4>3, <4>4 DEF RunStep
    <3> QED BY <3>2, <3>3, <3>4
  <2> QED BY <1>5, <2>1, <2>2, <2>3, ProcessMoves
<1> QED BY <1>3, <1>4, <1>5 DEF ProgramsNext

LEMMA UsesStandingNext ==
  ASSUME TypeOK, EntriesSound, ProgramsType, RaisesOnce, EndedSound, EndedSound',
         UsesStanding, [ProgramsNext]_programVars
  PROVE  UsesStanding'
<1>1. ASSUME NEW r \in Run, InUse(r)', NEW i \in 1 .. Width[r]
      PROVE  /\ endpoints'[r][i].owner \in Run
             /\ deployment'[endpoints'[r][i].owner] \in {"up", "gone"}
             /\ endpoints'[r][i].owner \notin dropped'[r]
  <2> DEFINE d == endpoints'[r][i].owner
  <2>1. [Next]_vars
    BY ProgramsStep
  <2>2. /\ d \in Run
        /\ deployment[d] \in {"up", "gone"}
        /\ d \notin dropped[r]
    <3>1. CASE InUse(r) /\ endpoints'[r] = endpoints[r]
      BY <3>1 DEF UsesStanding
    <3>2. ASSUME Load(r), NEW f \in Choices(r), endpoints'[r] = f
          PROVE  /\ d \in Run
                 /\ deployment[d] \in {"up", "gone"}
                 /\ d \notin dropped[r]
      <4>1. f[i] \in registry
        BY <3>2, OwnChoices
      <4>2. f[i].owner \in Run /\ deployment[f[i].owner] \in {"up", "gone"}
        BY <4>1 DEF EntriesSound, TypeOK, Entry
      <4>3. f[i].owner \notin dropped[r]
        BY <3>2, <4>1 DEF UsesStanding, Load, At
      <4> QED BY <3>2, <4>2, <4>3
    <3> QED BY <1>1, <2>1, <3>1, <3>2, InUseStep
  <2> HIDE DEF d
  <2>3. deployment'[d] \in {"up", "gone"}
    BY <2>2, EndHasAuthor
  <2>4. d \notin dropped'[r]
    <3>1. CASE dropped'[r] = dropped[r]
      BY <2>2, <3>1
    <3>2. CASE RunStep(r) /\ dropped'[r] = dropped[r] \cup Ended
      <4>1. UNCHANGED deployment
        <5>1. ASSUME NEW place, Goto(r, place) PROVE place \in {"send", "recv", "finish"}
          BY <1>1, <5>1 DEF Goto, TypeOK, InUse
        <5> QED
          BY <3>2, <5>1 DEF RunStep, Start, Raise, DropNamesake, RaiseAgain, Load,
               CheckClock, SendCircuit, TransformFails, ClientThrows, RecvResult, Finish,
               AbortDrop, Abort, Fail, cunqaVars
      <4> QED BY <2>2, <3>2, <4>1 DEF Ended, IsLive
    <3> QED
      BY <3>1, <3>2, DroppedByItself DEF ProgramsNext, programVars, progVars, WorldMoves
  <2> QED BY <2>2, <2>3, <2>4 DEF d
<1> QED BY <1>1, PollsClear DEF UsesStanding

---------------------------------------------------------------------------
(* The properties of programs *)

LEMMA ProgramsInvInit == ProgramsInit => ProgramsInv
<1> SUFFICES ASSUME ProgramsInit PROVE ProgramsInv
  OBVIOUS
<1>1. ProgramsType
  BY ProgramsTypeInit
<1>2. /\ \A r \in Run : pc[r] = "idle" /\ inherited[r] = {}
      /\ \A p \in Process : turn[p] = 0 /\ exit[p] = "none"
  BY DEF ProgramsInit, Init
<1>3. InTurn
  BY <1>1, <1>2, PlanOfRuns DEF InTurn, At
<1> QED BY <1>1, <1>2, <1>3
     DEF ProgramsInv, EndsBetween, BegunAdmitted, InheritedOver, RestartRecovers, At

LEMMA ProgramsInvNext ==
  TypeOK /\ ProgramsInv /\ [ProgramsNext]_programVars => ProgramsInv'
BY ProgramsTypeNext, InTurnNext, EndsBetweenNext, BegunAdmittedNext, InheritedOverNext,
   RestartRecoversNext DEF ProgramsInv

\* What the proofs about single runs give, in every state of the programs.
LEMMA ProgramsCorrect == ProgramsSpec => [](ProgramsInv /\ TypeOK /\ LiveHasRun /\ ResultsInv)
<1>1. ProgramsSpec => []TypeOK
  BY ProgramsImplement, TypeCorrect, PTL
<1>2. ProgramsSpec => []ResultsInv
  BY ProgramsImplement, ResultsCorrect, PTL
<1>3. ProgramsSpec => []LiveHasRun
  BY ProgramsImplement, LiveCorrect, PTL
<1>4. ProgramsSpec => []ProgramsInv
  BY <1>1, ProgramsInvInit, ProgramsInvNext, PTL DEF ProgramsSpec
<1> QED BY <1>1, <1>2, <1>3, <1>4, PTL

\* A call that has returned 0 has its results, and its deployment is down.
LEMMA TurnedIsClean ==
  ASSUME ProgramsInv, TypeOK, LiveHasRun, ResultsInv,
         NEW p \in Process, NEW i \in 1 .. turn[p]
  PROVE  /\ i \in 1 .. Len(plan[p])
         /\ ~IsLive(plan[p][i])
         /\ results[plan[p][i]] = [k \in 1 .. Width[plan[p][i]] |-> k]
<1>1. i \in 1 .. Len(plan[p])
  BY PlanOfRuns DEF ProgramsInv, ProgramsType
<1>2. plan[p][i] \in Run
  BY <1>1, PlanOfRuns DEF ProgramsInv
<1>3. pc[plan[p][i]] = "done" /\ status[plan[p][i]] = 0
  BY <1>1 DEF ProgramsInv, InTurn, At
<1>4. plan[p][i] \notin dropFailed
  BY <1>2, <1>3 DEF ResultsInv, ResultsSound
<1>5. ~IsLive(plan[p][i])
  BY <1>2, <1>3, <1>4 DEF LiveHasRun, Raised
<1>6. results[plan[p][i]] = [k \in 1 .. Width[plan[p][i]] |-> k]
  BY <1>2, <1>3 DEF ResultsInv, AllOrNothing
<1> QED BY <1>1, <1>5, <1>6

\* No repetition runs while the virtual QPUs of an earlier one are up.
THEOREM CleanBetweenHolds == ProgramsSpec => []CleanBetween
<1>1. ProgramsInv /\ TypeOK /\ LiveHasRun /\ ResultsInv => CleanBetween
  BY TurnedIsClean DEF CleanBetween
<1> QED BY <1>1, ProgramsCorrect, PTL

\* A process that exits with 0 has had all of its results and left nothing up.
THEOREM ExitMeansDoneHolds == ProgramsSpec => []ExitMeansDone
<1>1. ASSUME ProgramsInv, TypeOK, LiveHasRun, ResultsInv PROVE ExitMeansDone
  <2> SUFFICES ASSUME NEW p \in Process, exit[p] = "success", NEW r \in Runs(p)
               PROVE  /\ ~IsLive(r)
                      /\ Len(results[r]) = Width[r]
                      /\ r \in Distributed => Len(results[r]) = WorldSize[r]
    BY DEF ExitMeansDone
  <2>1. PICK i \in 1 .. Len(plan[p]) : plan[p][i] = r
    BY <1>1, IndexOfRun DEF ProgramsInv
  <2>2. i \in 1 .. turn[p]
    BY <1>1 DEF ProgramsInv, EndsBetween
  <2>3. ~IsLive(r) /\ results[r] = [k \in 1 .. Width[r] |-> k]
    BY <1>1, <2>1, <2>2, TurnedIsClean
  <2>4. r \in Run /\ Width[r] \in Nat
    BY <1>1, <2>1, PlanOfRuns, WidthAssumption DEF ProgramsInv
  <2>5. Len(results[r]) = Width[r]
    BY <2>3, <2>4
  <2>6. ~At(r, "idle")
    BY <1>1, <2>1, <2>2 DEF ProgramsInv, InTurn, At
  <2> QED BY <1>1, <2>3, <2>4, <2>5, <2>6 DEF ProgramsInv, BegunAdmitted, Admitted
<1> QED BY <1>1, ProgramsCorrect, PTL

\* Whatever nobody is going to drop has a cause.
THEOREM OrphanHasCauseHolds == ProgramsSpec => []OrphanHasCause
<1>1. ASSUME ProgramsInv, TypeOK, LiveHasRun, ResultsInv PROVE OrphanHasCause
  <2> SUFFICES ASSUME NEW d \in Run, Orphan(d),
                      \A p \in Process : d \in Runs(p) => exit[p] # "killed"
               PROVE  pc[d] = "escaped" \/ d \in dropFailed \/ status[d] = 2
    BY DEF OrphanHasCause
  <2>1. IsLive(d) /\ Over(d)
    BY DEF Orphan
  <2>2. CASE pc[d] = "done"
    BY <1>1, <2>1, <2>2 DEF LiveHasRun, Raised
  <2>3. CASE pc[d] # "done"
    <3>1. PICK p \in Process : d \in Runs(p) /\ exit[p] # "none"
      BY <2>1, <2>3 DEF Over, At
    <3>2. PICK i \in 1 .. Len(plan[p]) : plan[p][i] = d
      BY <1>1, <3>1, IndexOfRun DEF ProgramsInv
    <3>3. turn[p] \in Nat /\ exit[p] \in {"success", "error"}
      BY <1>1, <3>1 DEF ProgramsInv, ProgramsType
    <3>4. ~(i <= turn[p])
      <4>1. i <= turn[p] => i \in 1 .. turn[p]
        BY <3>3
      <4> QED BY <1>1, <2>1, <3>2, <4>1, TurnedIsClean
    <3>5. exit[p] = "error"
      BY <1>1, <3>3, <3>4 DEF ProgramsInv, EndsBetween
    <3>6. pc[d] \in {"idle", "done", "escaped"}
      <4>1. CASE i = turn[p] + 1
        BY <1>1, <3>2, <3>5, <4>1 DEF ProgramsInv, EndsBetween
      <4>2. CASE i > turn[p] + 1
        BY <1>1, <3>2, <4>2 DEF ProgramsInv, InTurn, At
      <4> QED BY <3>3, <3>4, <4>1, <4>2
    <3>7. pc[d] # "idle"
      BY <1>1, <2>1 DEF LiveHasRun, Raised
    <3> QED BY <2>3, <3>6, <3>7
  <2> QED BY <2>2, <2>3
<1> QED BY <1>1, ProgramsCorrect, PTL

\* A restart in the same family recovers what dead processes have left.
THEOREM RestartRecoversHolds == ProgramsSpec => []RestartRecovers
<1>1. ProgramsInv => RestartRecovers
  BY DEF ProgramsInv
<1> QED BY <1>1, ProgramsCorrect, PTL

LEMMA LostInit == ProgramsInit => EndedSound /\ UsesStanding
BY DEF ProgramsInit, Init, EndedSound, UsesStanding, InUse

LEMMA LostCorrect == ProgramsSpec => [](TypeOK /\ EndedSound /\ UsesStanding)
<1>1. ProgramsSpec => []OwnInv
  BY ProgramsImplement, OwnCorrect, PTL
<1>2. ProgramsSpec => []ProgramsInv
  BY ProgramsCorrect, PTL
<1>3. ASSUME OwnInv, ProgramsInv, EndedSound, UsesStanding, [ProgramsNext]_programVars
      PROVE  EndedSound' /\ UsesStanding'
  BY <1>3, EndedSoundNext, UsesStandingNext DEF OwnInv, ProgramsInv
<1>4. OwnInv => TypeOK
  BY DEF OwnInv
<1> QED BY <1>1, <1>2, <1>3, <1>4, LostInit, PTL DEF ProgramsSpec

\* The virtual QPUs that a run uses are lost to the wall time or to another run
\* of their family, never to a run of another family or to its own retry.
THEOREM LostForCauseHolds == ProgramsSpec => []LostForCause
<1>1. ASSUME TypeOK, EndedSound, UsesStanding PROVE LostForCause
  <2> SUFFICES ASSUME NEW r \in Run, InUse(r), NEW i \in 1 .. Width[r],
                      NEW d, d = endpoints[r][i].owner,
                      deployment[d] # "up", d \notin timedOut
               PROVE  \E q \in Namesakes(d) \ {r} : d \in dropped[q]
    BY DEF LostForCause
  <2>1. d \in Run /\ deployment[d] = "gone" /\ d \notin dropped[r]
    BY <1>1 DEF UsesStanding
  <2> QED BY <1>1, <2>1 DEF EndedSound
<1> QED BY <1>1, LostCorrect, PTL

=============================================================================
