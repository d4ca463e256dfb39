----------------------------- MODULE MCCunqaApi -----------------------------
(* An instance of CunqaApi for TLC. *)
EXTENDS CunqaApi

CONSTANTS r1, r2

\* Two runs of one family, of which one drops what the other has raised.  The
\* entries of r2 lack their endpoints: it gets on with those of r1 only.
TwoRuns == {r1, r2}
OneFamily == {"f"}
SharedFamily == [r \in TwoRuns |-> "f"]
SomeBare == [r \in TwoRuns |-> IF r = r1 THEN {"full"} ELSE {"bare"}]
TwoAndOne == [r \in TwoRuns |-> IF r = r1 THEN 2 ELSE 1]

=============================================================================
