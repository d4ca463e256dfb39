------------------------------ MODULE CunqaApi ------------------------------
(***************************************************************************)
(* CunqaApi::run of lib/cunqa_api: one call raises a deployment of virtual *)
(* QPUs with qraise, polls the file in which they register, sends each its *)
(* circuit, collects the results in order and drops the deployment.        *)
(*                                                                         *)
(* Several runs are in progress at a time, in one process or in several.   *)
(* They share the registry file and, when they use one family name, the    *)
(* deployments: qraise and qdrop know a deployment by its family only.     *)
(*                                                                         *)
(* A step is one external command, one reading of the file or of the       *)
(* clock, or one message.  The deployments, the registry and the answers   *)
(* are CUNQA's and Slurm's: they are modelled by what run relies on, and   *)
(* as free as it leaves them.                                              *)
(***************************************************************************)
EXTENDS Integers, FiniteSets, Sequences

CONSTANTS
  Run,       \* the calls of run
  Family,    \* the family names
  FamilyOf,  \* the family_name of the object that each call is made on
  Width,     \* circuits.size() of each call
  Files,     \* the states that the registry file may be in at the start
  Kinds,     \* the kinds of entry that the virtual QPUs of each run may register
  Cleans     \* whether qdrop has removed the entries by the time it returns

(***************************************************************************)
(* An entry of the registry names its family and its endpoint ("full"), or *)
(* lacks the first ("untagged") or the second ("bare").                    *)
(***************************************************************************)
Kind == {"full", "untagged", "bare"}

(***************************************************************************)
(* The file cannot be opened ("absent"), holds JSON ("ready"), is caught   *)
(* in the middle of a write, or holds neither an array nor an object       *)
(* ("torn"), or is an object with a member that is a string, a number or   *)
(* an array ("odd").                                                       *)
(***************************************************************************)
FileState == {"absent", "ready", "torn", "odd"}

ASSUME FamilyOfAssumption == FamilyOf \in [Run -> Family]
ASSUME WidthAssumption == Width \in [Run -> Nat]
ASSUME FilesAssumption == Files \subseteq FileState
ASSUME KindsAssumption == Kinds \in [Run -> SUBSET Kind]
ASSUME CleansAssumption == Cleans \in BOOLEAN

VARIABLES
  pc,          \* where each run is
  status,      \* the status it returns, once decided
  results,     \* result.results: the circuits whose results it holds, in order
  endpoints,   \* the entries that loadQpuEndpoints chose, one per circuit
  sent,        \* the number of circuits sent
  expired,     \* whether endpoint_timeout_seconds have passed since qraise
  \* The world of CUNQA.
  deployment,  \* the deployment that each run raised, if any
  registry,    \* the entries of the registry file
  file,        \* the state of that file
  answered,    \* the circuits of each run whose results have been computed
  \* History.
  dropFailed   \* the runs whose last qdrop failed

apiVars == <<pc, status, results, endpoints, sent>>
cunqaVars == <<deployment, registry, file>>
vars == <<apiVars, expired, cunqaVars, answered, dropFailed>>

Entry == [owner : Run, qpu : Nat, kind : Kind]

Place == {"idle", "qraise", "qdrop", "retry", "poll", "check",
          "send", "recv", "finish", "abort", "escaped", "done"}

Namesakes(r) == {d \in Run : FamilyOf[d] = FamilyOf[r]}

IsLive(d) == deployment[d] \in {"pending", "up"}

---------------------------------------------------------------------------
(* The commands *)

(***************************************************************************)
(* The two commands are CUNQA's.  qraise refuses a family that it finds in *)
(* use; it is sure to find what has registered, and may not see the rest.  *)
(* qdrop is taken to know better: it ends every job of the family, the     *)
(* pending and the unregistered ones included.                             *)
(***************************************************************************)
Registered(d) == \E e \in registry : e.owner = d

QraiseSucceeds(r) ==
  /\ \A d \in Namesakes(r) : ~Registered(d)
  /\ deployment' = [deployment EXCEPT ![r] = "pending"]
  /\ UNCHANGED <<registry, file>>

\* It is reported as failed, by itself or because its shell was lost, after it
\* has submitted the job or before.
QraiseFails(r) == QraiseSucceeds(r) \/ UNCHANGED cunqaVars

QraiseDuplicate(r) ==
  /\ \E d \in Namesakes(r) : IsLive(d) \/ Registered(d)
  /\ UNCHANGED cunqaVars

\* Faulty variant: every deployment is dropped, as by qdrop --all.
EveryRun(r) == Run

\* Faulty variant: the deployments of earlier runs of the family stay.
OwnOnly(r) == {r}

\* The deployments that qdrop --family_name ends.
Dropped(r) == Namesakes(r)

Qdrop(r) ==
  /\ deployment' = [d \in Run |->
       IF d \in Dropped(r) /\ IsLive(d) THEN "gone" ELSE deployment[d]]
  /\ registry' = IF Cleans THEN {e \in registry : e.owner \notin Dropped(r)}
                           ELSE registry
  /\ UNCHANGED file

\* It is reported as failed, whatever it has done.
QdropFails(r) == Qdrop(r) \/ UNCHANGED cunqaVars

---------------------------------------------------------------------------
(* The registry file *)

\* Faulty variant: the family of an entry is not looked at.
AnyEntry(e, r) == TRUE

\* An entry without a family belongs to all of them.
BelongsTo(e, r) == e.kind = "untagged" \/ FamilyOf[e.owner] = FamilyOf[r]

Candidates(r) == {e \in registry : BelongsTo(e, r)}

\* Faulty variant: one entry fewer than there are circuits.
OneChoiceShort(r) ==
  {f \in [1 .. Width[r] - 1 -> Candidates(r)] :
     \A i, j \in 1 .. Width[r] - 1 : f[i] = f[j] => i = j}

(***************************************************************************)
(* The first entries, as many as there are circuits.  The order of the     *)
(* file is CUNQA's (that of the keys, when the file is an object): any.    *)
(***************************************************************************)
Choices(r) ==
  {f \in [1 .. Width[r] -> Candidates(r)] :
     \A i, j \in 1 .. Width[r] : f[i] = f[j] => i = j}

---------------------------------------------------------------------------
(* Steps of run *)

At(r, place) == pc[r] = place

Goto(r, place) == pc' = [pc EXCEPT ![r] = place]

\* return makeCunqaError(code, ...), without another qdrop.
Fail(r, code) ==
  /\ Goto(r, "done")
  /\ status' = [status EXCEPT ![r] = code]
  /\ UNCHANGED <<results, endpoints, sent>>

\* Faulty variant: the error is returned and the deployment left behind.
AbortWithoutQdrop(r, code) == Fail(r, code)

\* Leave for the qdrop that comes before returning code.
Abort(r, code) ==
  /\ Goto(r, "abort")
  /\ status' = [status EXCEPT ![r] = code]
  /\ UNCHANGED <<results, endpoints, sent>>

Start(r) ==
  /\ At(r, "idle")
  /\ \/ /\ Width[r] = 0
        /\ Fail(r, 1)
     \/ /\ Width[r] > 0
        /\ Goto(r, "qraise")
        /\ UNCHANGED <<status, results, endpoints, sent>>
  /\ UNCHANGED <<expired, cunqaVars, answered, dropFailed>>

Raise(r) ==
  /\ At(r, "qraise")
  /\ \/ /\ QraiseSucceeds(r)
        /\ Goto(r, "poll")
        /\ UNCHANGED <<status, results, endpoints, sent>>
     \/ /\ QraiseDuplicate(r)
        /\ Goto(r, "qdrop")
        /\ UNCHANGED <<status, results, endpoints, sent>>
     \/ /\ QraiseFails(r)
        /\ Fail(r, 2)
  /\ UNCHANGED <<expired, answered, dropFailed>>

\* The qdrop of a family in use: whether it succeeds is not looked at.
DropNamesake(r) ==
  /\ At(r, "qdrop")
  /\ Qdrop(r) \/ QdropFails(r)
  /\ Goto(r, "retry")
  /\ UNCHANGED <<status, results, endpoints, sent, expired, answered, dropFailed>>

RaiseAgain(r) ==
  /\ At(r, "retry")
  /\ \/ /\ QraiseSucceeds(r)
        /\ Goto(r, "poll")
        /\ UNCHANGED <<status, results, endpoints, sent>>
     \/ /\ QraiseFails(r)
        /\ Fail(r, 2)
  /\ UNCHANGED <<expired, answered, dropFailed>>

(***************************************************************************)
(* loadQpuEndpoints.  To add a key to a member that is not an object makes *)
(* it throw, and run does not catch what it throws.                        *)
(***************************************************************************)
Load(r) ==
  /\ At(r, "poll")
  /\ \/ /\ file = "ready"
        /\ \E f \in Choices(r) :
             /\ \A i \in DOMAIN f : f[i].kind # "bare"
             /\ endpoints' = [endpoints EXCEPT ![r] = f]
        /\ Goto(r, "send")
     \/ /\ \/ file \in {"absent", "torn"}
           \/ /\ file = "ready"
              /\ Cardinality(Candidates(r)) < Width[r]
           \/ /\ file = "ready"
              /\ \E f \in Choices(r) : \E i \in DOMAIN f : f[i].kind = "bare"
        /\ Goto(r, "check")
        /\ UNCHANGED endpoints
     \/ /\ file = "odd"
        /\ Goto(r, "escaped")
        /\ UNCHANGED endpoints
  /\ UNCHANGED <<status, results, sent, expired, cunqaVars, answered, dropFailed>>

\* Faulty variant: the clock is never looked at.
NeverLate(r) == FALSE

IsLate(r) == expired[r]

\* The clock is read after the file: a late registration goes unseen.
CheckClock(r) ==
  /\ At(r, "check")
  /\ \/ /\ IsLate(r)
        /\ Abort(r, 8)
     \/ /\ ~IsLate(r)
        /\ Goto(r, "poll")
        /\ UNCHANGED <<status, results, endpoints, sent>>
  /\ UNCHANGED <<expired, cunqaVars, answered, dropFailed>>

\* Circuit number sent[r] + 1 is transformed and sent.
SendCircuit(r) ==
  /\ At(r, "send")
  /\ sent' = [sent EXCEPT ![r] = @ + 1]
  /\ Goto(r, IF sent'[r] = Width[r] THEN "recv" ELSE "send")
  /\ UNCHANGED <<status, results, endpoints, expired, cunqaVars, answered, dropFailed>>

\* It cannot be transformed, whatever was sent before it.
TransformFails(r) ==
  /\ At(r, "send")
  /\ Abort(r, 9)
  /\ UNCHANGED <<expired, cunqaVars, answered, dropFailed>>

\* connect, send_circuit or recv_results throws.
ClientThrows(r) ==
  /\ At(r, "send") \/ At(r, "recv")
  /\ Abort(r, 7)
  /\ UNCHANGED <<expired, cunqaVars, answered, dropFailed>>

\* Faulty variant: the results are taken as they come.
IsAnswered(r, i) == i \in answered[r] /\ \A k \in 1 .. Len(results[r]) : results[r][k] # i

\* recv_results of the next client waits, without a limit, for its result.
IsNext(r, i) == i = Len(results[r]) + 1 /\ i \in answered[r]

RecvResult(r) ==
  /\ At(r, "recv")
  /\ \E i \in 1 .. Width[r] :
       /\ IsNext(r, i)
       /\ results' = [results EXCEPT ![r] = Append(@, i)]
  /\ Goto(r, IF Len(results'[r]) = Width[r] THEN "finish" ELSE "recv")
  /\ UNCHANGED <<status, endpoints, sent, expired, cunqaVars, answered, dropFailed>>

\* The last qdrop: when it fails, the results are not returned.
Finish(r) ==
  /\ At(r, "finish")
  /\ Goto(r, "done")
  /\ \/ /\ Qdrop(r)
        /\ status' = [status EXCEPT ![r] = 0]
        /\ UNCHANGED <<results, dropFailed>>
     \/ /\ QdropFails(r)
        /\ status' = [status EXCEPT ![r] = 3]
        /\ results' = [results EXCEPT ![r] = << >>]
        /\ dropFailed' = dropFailed \cup {r}
  /\ UNCHANGED <<endpoints, sent, expired, answered>>

\* The qdrop before an error: whether it succeeds is not looked at.
AbortDrop(r) ==
  /\ At(r, "abort")
  /\ Goto(r, "done")
  /\ results' = [results EXCEPT ![r] = << >>]
  /\ \/ /\ Qdrop(r)
        /\ UNCHANGED dropFailed
     \/ /\ QdropFails(r)
        /\ dropFailed' = dropFailed \cup {r}
  /\ UNCHANGED <<status, endpoints, sent, expired, answered>>

---------------------------------------------------------------------------
(* Steps of the world *)

\* The steady clock passes endpoint_timeout_seconds.
Expire(r) ==
  /\ pc[r] \in {"poll", "check"}
  /\ ~expired[r]
  /\ expired' = [expired EXCEPT ![r] = TRUE]
  /\ UNCHANGED <<apiVars, cunqaVars, answered, dropFailed>>

\* Slurm starts the job, if ever.
JobStarts(d) ==
  /\ deployment[d] = "pending"
  /\ deployment' = [deployment EXCEPT ![d] = "up"]
  /\ UNCHANGED <<apiVars, expired, registry, file, answered, dropFailed>>

\* The wall time that was asked of qraise is over (or Slurm ends the job for
\* reasons of its own): whatever the run is doing, its virtual QPUs are gone.
JobEnds(d) ==
  /\ deployment[d] = "up"
  /\ deployment' = [deployment EXCEPT ![d] = "gone"]
  /\ UNCHANGED <<apiVars, expired, registry, file, answered, dropFailed>>

\* A virtual QPU of d writes its entry.
Register(d) ==
  /\ deployment[d] = "up"
  /\ file # "odd"
  /\ \E q \in 1 .. Width[d], kind \in Kinds[d] :
       /\ \A e \in registry : e.owner = d => e.qpu # q
       /\ registry' = registry \cup {[owner |-> d, qpu |-> q, kind |-> kind]}
  /\ file' = "torn"
  /\ UNCHANGED <<apiVars, expired, deployment, answered, dropFailed>>

\* The write ends.
Written ==
  /\ file = "torn"
  /\ file' = "ready"
  /\ UNCHANGED <<apiVars, expired, deployment, registry, answered, dropFailed>>

\* The entries of a deployment that has ended go, sooner or later.
Purge(d) ==
  /\ deployment[d] = "gone"
  /\ Registered(d)
  /\ registry' = {e \in registry : e.owner # d}
  /\ UNCHANGED <<apiVars, expired, deployment, file, answered, dropFailed>>

\* The virtual QPU that has circuit i of r computes its result.
Answer(r, i) ==
  /\ i \in 1 .. sent[r]
  /\ i \notin answered[r]
  /\ deployment[endpoints[r][i].owner] = "up"
  /\ answered' = [answered EXCEPT ![r] = @ \cup {i}]
  /\ UNCHANGED <<apiVars, expired, cunqaVars, dropFailed>>

---------------------------------------------------------------------------
(* The specification *)

Init ==
  /\ pc = [r \in Run |-> "idle"]
  /\ status = [r \in Run |-> 0]
  /\ results = [r \in Run |-> << >>]
  /\ endpoints = [r \in Run |-> << >>]
  /\ sent = [r \in Run |-> 0]
  /\ expired = [r \in Run |-> FALSE]
  /\ deployment = [r \in Run |-> "none"]
  /\ registry = {}
  /\ file \in Files
  /\ answered = [r \in Run |-> {}]
  /\ dropFailed = {}

RunStep(r) ==
  \/ Start(r)
  \/ Raise(r)
  \/ DropNamesake(r)
  \/ RaiseAgain(r)
  \/ Load(r)
  \/ CheckClock(r)
  \/ SendCircuit(r)
  \/ TransformFails(r)
  \/ ClientThrows(r)
  \/ RecvResult(r)
  \/ Finish(r)
  \/ AbortDrop(r)

WorldStep ==
  \/ \E r \in Run : Expire(r) \/ JobStarts(r) \/ JobEnds(r) \/ Register(r) \/ Purge(r)
                      \/ \E i \in 1 .. Width[r] : Answer(r, i)
  \/ Written

Next == WorldStep \/ \E r \in Run : RunStep(r)

Spec == Init /\ [][Next]_vars

\* What the thread of r does of itself, no exception of the client included.
ThreadStep(r) ==
  \/ Start(r)
  \/ Raise(r)
  \/ DropNamesake(r)
  \/ RaiseAgain(r)
  \/ Load(r)
  \/ CheckClock(r)
  \/ SendCircuit(r)
  \/ RecvResult(r)
  \/ Finish(r)
  \/ AbortDrop(r)

(***************************************************************************)
(* A run that can go on does, time passes, and a virtual QPU that has a    *)
(* circuit computes its result while its job lasts.  Slurm may leave a job *)
(* pending for ever, or up, a virtual QPU may never register or never      *)
(* finish its write, and no exception need come to the rescue of a run     *)
(* that waits for a result.                                                *)
(***************************************************************************)
Fairness ==
  \A r \in Run :
    /\ WF_vars(ThreadStep(r))
    /\ WF_vars(Expire(r))
    /\ \A i \in 1 .. Width[r] : WF_vars(Answer(r, i))

FairSpec == Spec /\ Fairness

---------------------------------------------------------------------------
(* Properties *)

TypeOK ==
  /\ pc \in [Run -> Place]
  /\ status \in [Run -> {0, 1, 2, 3, 7, 8, 9}]
  /\ results \in [Run -> Seq(Nat)]
  /\ endpoints = [r \in Run |-> endpoints[r]]
  /\ \A r \in Run : endpoints[r] = << >> \/ endpoints[r] \in [1 .. Width[r] -> Entry]
  /\ sent \in [Run -> Nat]
  /\ expired \in [Run -> BOOLEAN]
  /\ deployment \in [Run -> {"none", "pending", "up", "gone"}]
  /\ registry \subseteq Entry
  /\ file \in FileState
  /\ answered \in [Run -> SUBSET Nat]
  /\ dropFailed \subseteq Run

(***************************************************************************)
(* A run that returns, with whatever status, leaves none of its virtual    *)
(* QPUs behind, unless its own last qdrop, or qraise itself, was reported  *)
(* as failed: not when it times out while they register, not when a        *)
(* circuit is refused after others were sent, and not when a run of the    *)
(* same family drops them meanwhile.                                       *)
(***************************************************************************)
NoLeak ==
  \A r \in Run :
    pc[r] = "done" /\ r \notin dropFailed /\ status[r] # 2 => ~IsLive(r)

\* Nobody else uses the family of r.
Alone(r) == Namesakes(r) = {r}

InUse(r) == pc[r] \in {"send", "recv", "finish"}

(***************************************************************************)
(* The circuits of a run go to virtual QPUs each of its own.  If its       *)
(* family is its own they are those of the deployment that it raised,      *)
(* whatever else is in the file that it reads while others write it: only  *)
(* an entry without a family can be somebody else's.                       *)
(***************************************************************************)
OwnDeployment ==
  \A r \in Run : InUse(r) =>
    \A i, j \in 1 .. Width[r] :
      /\ Alone(r) /\ endpoints[r][i].kind # "untagged" => endpoints[r][i].owner = r
      /\ endpoints[r][i].owner = endpoints[r][j].owner
           /\ endpoints[r][i].qpu = endpoints[r][j].qpu => i = j

(***************************************************************************)
(* A run returns all of its results, in the order of its circuits          *)
(* whatever the order in which they were computed, or, with an error,      *)
(* none.                                                                   *)
(***************************************************************************)
AllOrNothing ==
  \A r \in Run : pc[r] = "done" =>
    results[r] = IF status[r] = 0 THEN [i \in 1 .. Width[r] |-> i] ELSE << >>

\* recv_results waits for a virtual QPU whose job has ended.
WaitsForGone(r) ==
  /\ pc[r] = "recv"
  /\ LET next == Len(results[r]) + 1
     IN  next \notin answered[r] /\ deployment[endpoints[r][next].owner] = "gone"

(***************************************************************************)
(* A run ends, even if Slurm leaves its job pending for ever (README.md:86,*)
(* "endpoint resolution can timeout"), or waits for a result that cannot   *)
(* come any more, since its virtual QPU was dropped by another run of its  *)
(* family or has used up its wall time: recv_results has no limit.         *)
(***************************************************************************)
RunsEnd ==
  \A r \in Run :
    pc[r] # "idle" ~> pc[r] \in {"done", "escaped"} \/ WaitsForGone(r)

---------------------------------------------------------------------------
(* The inductive invariants, in named parts *)

Raised == {"poll", "check", "send", "recv", "finish", "abort"}

\* A live deployment has a run that will drop it, or that failed to, or that
\* was told that there is none.
LiveHasRun ==
  \A r \in Run : IsLive(r) =>
    \/ pc[r] \in Raised \cup {"escaped"}
    \/ pc[r] = "done" /\ (r \in dropFailed \/ status[r] = 2)

\* Only a deployment that has been up has entries, one for each virtual QPU.
EntriesSound ==
  \A e \in registry :
    /\ deployment[e.owner] \in {"up", "gone"}
    /\ \A x \in registry : x.owner = e.owner /\ x.qpu = e.qpu => x = e

\* A run raises once: a deployment that has ended does not come back.
RaisesOnce ==
  \A r \in Run : pc[r] \in {"idle", "qraise", "qdrop", "retry"} => deployment[r] = "none"

\* A run without circuits returns at once.
ActiveHasCircuits ==
  \A r \in Run : pc[r] \notin {"idle", "done", "escaped"} => Width[r] > 0

\* Results are collected one by one, and an error is decided before the end.
ResultsSound ==
  \A r \in Run :
    /\ pc[r] \notin {"recv", "finish", "abort", "done"} => results[r] = << >>
    /\ pc[r] = "recv" => Len(results[r]) < Width[r]
    /\ pc[r] = "recv" => results[r] = [i \in 1 .. Len(results[r]) |-> i]
    /\ pc[r] = "finish" => results[r] = [i \in 1 .. Width[r] |-> i]
    /\ pc[r] = "abort" => status[r] # 0
    /\ r \in dropFailed => pc[r] = "done" /\ status[r] # 0

ResultsInv ==
  /\ TypeOK
  /\ ActiveHasCircuits
  /\ ResultsSound
  /\ AllOrNothing

OwnInv ==
  /\ TypeOK
  /\ EntriesSound
  /\ RaisesOnce
  /\ OwnDeployment

=============================================================================
