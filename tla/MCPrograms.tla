----------------------------- MODULE MCPrograms -----------------------------
(* An instance of Programs for TLC. *)
EXTENDS Programs, TLC

CONSTANTS p, q

(***************************************************************************)
(* The baseline and the target of distributed_qft; the baseline and then   *)
(* run_circuit in a world of two ranks, next to simple_telegate; and a     *)
(* program of one circuit, twice in one family.                            *)
(***************************************************************************)
Calls == {"baseline", "target", "circuit", "telegate", "first", "again"}

MCFamilyOf == [r \in Calls |-> IF r = "again" THEN "first" ELSE r]

\* The two circuits of simple_telegate are cut down to one.
MCWidth == [r \in Calls |-> IF r = "target" THEN 2 ELSE 1]

MCDistributed == {"baseline", "target", "circuit"}

MCWorldSize == [r \in Calls |-> IF r = "baseline" THEN 1 ELSE 2]

\* The entry of baseline has no family: target and telegate may take it.
MCKinds == [r \in Calls |-> IF r = "baseline" THEN {"untagged"} ELSE {"full"}]

MCPlans ==
  {(p :> <<"baseline", "target">>) @@ (q :> << >>),
   (p :> <<"baseline", "circuit">>) @@ (q :> <<"telegate">>),
   (p :> <<"first">>) @@ (q :> <<"again">>)}

=============================================================================
