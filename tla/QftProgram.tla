----------------------------- MODULE QftProgram -----------------------------
(***************************************************************************)
(* distributed_qft.cpp: the loops of build_global_mapping for any accepted *)
(* sizes and, for those of DistributedQft, the execution of the circuits   *)
(* that are built when the loops have ended.                               *)
(***************************************************************************)
EXTENDS QubitMapping, DistributedQft

ProgramInit == MapInit /\ Init

BuildMapping == MapNext /\ UNCHANGED vars

Execute ==
  /\ size = <<Qubits, Qpus>>
  /\ rank = qpus
  /\ Next
  /\ UNCHANGED mapVars

ProgramNext == BuildMapping \/ Execute

ProgramSpec == ProgramInit /\ [][ProgramNext]_<<mapVars, vars>>

=============================================================================
