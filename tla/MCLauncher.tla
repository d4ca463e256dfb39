----------------------------- MODULE MCLauncher -----------------------------
(* Instances of Launcher for TLC. *)
EXTENDS Launcher

CONSTANTS l1, l2, l3

\* Two launches of one program, and one of another, in the foreground.
Launches == {l1, l2, l3}
Targets == [l \in Launches |-> IF l = l3 THEN "simple_telegate" ELSE "distributed_qft"]
Background == {l1, l2}

\* Two launches of one program.
Twins == {l1, l2}
OneTarget == [l \in Twins |-> "distributed_qft"]

=============================================================================
