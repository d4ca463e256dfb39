--------------------------- MODULE MCEnvironment ---------------------------
(* An instance of Environment for TLC. *)
EXTENDS Environment

\* A program may be started without run.sh; with it, its libraries may already
\* be there, and more than once, as run.sh does not look before it adds them.
MCDirs == <<"lib", "zmq", "maestro">>
MCInherited == {<<"user">>, <<"zmq", "user", "zmq">>}

MCRootsSet == {{"store", "cwd", "home"}, {"project", "cwd", "home"}}
=============================================================================
