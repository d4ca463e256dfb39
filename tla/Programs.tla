------------------------------ MODULE Programs ------------------------------
(***************************************************************************)
(* The processes that call CunqaApi::run: distributed_qft, which runs one  *)
(* list of circuits after another, each in a family of its own, through    *)
(* QuantumMPI::run_distributed, and simple_telegate, which calls run once, *)
(* in the family that QUANTUM_MPI_FAMILY_NAME names if it is set.          *)
(*                                                                         *)
(* A process may be killed at any point.  What CUNQA holds for it stays,   *)
(* and a later process may use its family.  A command that the process was *)
(* waiting for ends on its own: a kill in the middle of it is a kill right *)
(* after it.                                                               *)
(***************************************************************************)
EXTENDS CunqaApi, Functions

CONSTANTS
  Process,
  Plans,        \* what the processes may do: the runs of each, in their order
  Distributed,  \* the runs that are calls of run_distributed (or run_circuit)
  WorldSize     \* size() of the object of such a call; 0 if it throws before it looks at it

ASSUME PlansAssumption ==
  /\ Plans \subseteq [Process -> Seq(Run)]
  /\ \A f \in Plans, p, q \in Process :
       /\ p # q => Range(f[p]) \cap Range(f[q]) = {}
       /\ IsInjective(f[p])

ASSUME WorldAssumption == Distributed \subseteq Run /\ WorldSize \in [Run -> Nat]

VARIABLES
  plan,      \* the plan at hand
  turn,      \* the number of calls that have returned to each process with 0
  exit,      \* how each process ended: "none", "success", "error", "killed"
  \* History.
  inherited, \* the orphans in the family of each run when it began
  dropped,   \* the deployments that each run has ended, by qdrop
  timedOut   \* the deployments that ended without a run

progVars == <<plan, turn, exit, inherited, dropped, timedOut>>
programVars == <<vars, progVars>>

Runs(p) == Range(plan[p])

Active(p) == exit[p] = "none" /\ turn[p] < Len(plan[p])

Current(p) == plan[p][turn[p] + 1]

\* The call has returned, or its process is gone: it raises nothing any more.
Over(d) == At(d, "done") \/ \E p \in Process : d \in Runs(p) /\ exit[p] # "none"

\* The deployment of d is live, and what should have dropped it is over.
Orphan(d) == IsLive(d) /\ Over(d)

\* What a step ends.
Ended == {d \in Run : IsLive(d) /\ ~IsLive(d)'}

---------------------------------------------------------------------------
(* The calls *)

(***************************************************************************)
(* run_distributed returns 1 without calling run unless each rank of an    *)
(* initialized world has a circuit; run_circuit always has one circuit.    *)
(***************************************************************************)
Admitted(r) == r \in Distributed => Width[r] > 0 /\ Width[r] = WorldSize[r]

Begin(p) ==
  /\ Active(p)
  /\ Admitted(Current(p))
  /\ Start(Current(p))
  /\ inherited' = [inherited EXCEPT ![Current(p)] = {d \in Namesakes(Current(p)) : Orphan(d)}]
  /\ UNCHANGED <<plan, turn, exit, dropped, timedOut>>

Work(p) ==
  /\ Active(p)
  /\ ~At(Current(p), "idle")
  /\ RunStep(Current(p))
  /\ dropped' = [dropped EXCEPT ![Current(p)] = @ \cup Ended]
  /\ UNCHANGED <<plan, turn, exit, inherited, timedOut>>

End(p, how) ==
  /\ exit' = [exit EXCEPT ![p] = how]
  /\ UNCHANGED <<plan, turn, inherited, dropped, timedOut, vars>>

\* An error of either call ends the program.
Refused(p) ==
  /\ Active(p)
  /\ At(Current(p), "idle")
  /\ ~Admitted(Current(p))
  /\ End(p, "error")

\* Faulty variants: the status is not looked at; a failed qdrop is forgiven.
AnyStatus(r) == TRUE
QdropForgiven(r) == status[r] \in {0, 3}

Succeeded(r) == status[r] = 0

GoOn(p) ==
  /\ Active(p)
  /\ At(Current(p), "done")
  /\ Succeeded(Current(p))
  /\ turn' = [turn EXCEPT ![p] = @ + 1]
  /\ exit' = IF turn'[p] = Len(plan[p]) THEN [exit EXCEPT ![p] = "success"] ELSE exit
  /\ UNCHANGED <<plan, inherited, dropped, timedOut, vars>>

\* run failed, or the program cannot make sense of a result.
GiveUp(p) ==
  /\ Active(p)
  /\ At(Current(p), "done")
  /\ End(p, "error")

\* What loadQpuEndpoints throws leaves run, and ends the program.
Escape(p) ==
  /\ Active(p)
  /\ At(Current(p), "escaped")
  /\ End(p, "error")

Kill(p) ==
  /\ Active(p)
  /\ End(p, "killed")

---------------------------------------------------------------------------
(* The specification *)

ProgramsInit ==
  /\ Init
  /\ plan \in Plans
  /\ turn = [p \in Process |-> 0]
  /\ exit = [p \in Process |-> "none"]
  /\ inherited = [r \in Run |-> {}]
  /\ dropped = [r \in Run |-> {}]
  /\ timedOut = {}

ProcessStep(p) ==
  \/ Begin(p)
  \/ Work(p)
  \/ Refused(p)
  \/ GoOn(p)
  \/ GiveUp(p)
  \/ Escape(p)
  \/ Kill(p)

WorldMoves ==
  /\ WorldStep
  /\ timedOut' = timedOut \cup Ended
  /\ UNCHANGED <<plan, turn, exit, inherited, dropped>>

ProgramsNext == WorldMoves \/ \E p \in Process : ProcessStep(p)

ProgramsSpec == ProgramsInit /\ [][ProgramsNext]_programVars

---------------------------------------------------------------------------
(* Properties *)

(***************************************************************************)
(* A process that exits with 0 has had all results of all of its circuits, *)
(* one for each rank of the world where there is one, and has left no      *)
(* virtual QPU up (simple_telegate.cpp:41, distributed_qft.cpp:347).       *)
(***************************************************************************)
ExitMeansDone ==
  \A p \in Process : exit[p] = "success" =>
    \A r \in Runs(p) :
      /\ ~IsLive(r)
      /\ Len(results[r]) = Width[r]
      /\ r \in Distributed => Len(results[r]) = WorldSize[r]

(***************************************************************************)
(* No repetition of a benchmark runs while the virtual QPUs of an earlier  *)
(* one are up: they would compete for the node.                            *)
(***************************************************************************)
CleanBetween ==
  \A p \in Process : \A i \in 1 .. turn[p] : ~IsLive(plan[p][i])

(***************************************************************************)
(* Whatever nobody is going to drop has a cause: its process was killed,   *)
(* an exception left run, or qraise or qdrop was reported as failed.       *)
(***************************************************************************)
OrphanHasCause ==
  \A d \in Run : Orphan(d) =>
    \/ \E p \in Process : d \in Runs(p) /\ exit[p] = "killed"
    \/ pc[d] = "escaped"
    \/ d \in dropFailed
    \/ status[d] = 2

(***************************************************************************)
(* A restart recovers: a run that got past qraise and whose own qdrop did  *)
(* not fail leaves nothing of what dead processes had left in its family   *)
(* before it began.                                                        *)
(***************************************************************************)
RestartRecovers ==
  \A r \in Run :
    At(r, "done") /\ status[r] \notin {1, 2} /\ r \notin dropFailed =>
      \A d \in inherited[r] : ~IsLive(d)

(***************************************************************************)
(* The virtual QPUs that a run uses are up until the wall time of their    *)
(* job is over, or another run of their family drops them: no run of       *)
(* another family ends them, and they are not those that the run itself    *)
(* dropped before its retry, whose entries stay for a while under the same *)
(* family.                                                                 *)
(***************************************************************************)
LostForCause ==
  \A r \in Run : InUse(r) =>
    \A i \in 1 .. Width[r] :
      LET d == endpoints[r][i].owner
      IN  \/ deployment[d] = "up"
          \/ d \in timedOut
          \/ \E q \in Namesakes(d) \ {r} : d \in dropped[q]

---------------------------------------------------------------------------
(* The inductive invariants, in named parts *)

ProgramsType ==
  /\ plan \in Plans
  /\ turn \in [Process -> Nat]
  /\ \A p \in Process : turn[p] <= Len(plan[p])
  /\ exit \in [Process -> {"none", "success", "error", "killed"}]
  /\ inherited \in [Run -> SUBSET Run]
  /\ dropped \in [Run -> SUBSET Run]
  /\ timedOut \subseteq Run

\* The calls of a process are made one after another.
InTurn ==
  \A p \in Process : \A i \in 1 .. Len(plan[p]) :
    /\ i <= turn[p] => At(plan[p][i], "done") /\ status[plan[p][i]] = 0
    /\ i > turn[p] + 1 => At(plan[p][i], "idle")

\* A process that ends of itself is not in the middle of a call.
EndsBetween ==
  \A p \in Process :
    /\ exit[p] = "success" => turn[p] = Len(plan[p])
    /\ exit[p] = "error" => \A i \in 1 .. Len(plan[p]) :
         i = turn[p] + 1 => pc[plan[p][i]] \in {"idle", "done", "escaped"}

BegunAdmitted == \A r \in Run : ~At(r, "idle") => Admitted(r)

InheritedOver ==
  \A r \in Run : \A d \in inherited[r] : d \in Namesakes(r) /\ Over(d)

ProgramsInv ==
  /\ ProgramsType
  /\ InTurn
  /\ EndsBetween
  /\ BegunAdmitted
  /\ InheritedOver
  /\ RestartRecovers

\* Whatever has ended was ended by a run of its family, or without one.
EndedSound ==
  /\ \A q \in Run : \A d \in dropped[q] : d \in Namesakes(q) /\ deployment[d] = "gone"
  /\ \A d \in Run : deployment[d] = "gone" =>
       d \in timedOut \/ \E q \in Namesakes(d) : d \in dropped[q]

\* Once a run has raised, nothing of what it dropped is in its way: qraise has
\* found no entry of it, and what has ended registers nothing.
UsesStanding ==
  \A r \in Run :
    /\ pc[r] \in {"poll", "check"} => \A e \in registry : e.owner \notin dropped[r]
    /\ InUse(r) => \A i \in 1 .. Width[r] :
         /\ endpoints[r][i].owner \in Run
         /\ deployment[endpoints[r][i].owner] \in {"up", "gone"}
         /\ endpoints[r][i].owner \notin dropped[r]

=============================================================================
