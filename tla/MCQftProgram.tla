---------------------------- MODULE MCQftProgram ----------------------------
(* An instance of QftProgram for TLC. *)
EXTENDS QftProgram

CONSTANT MaxQubits  \* bound of the sizes

UpToMaxQubits == {s \in (1 .. MaxQubits) \X (1 .. MaxQubits) : s[2] <= s[1]}

=============================================================================
