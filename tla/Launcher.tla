------------------------------ MODULE Launcher ------------------------------
(***************************************************************************)
(* run.sh: several launches of it, by one user and at one time, which      *)
(* share the directory run/, the clock and the registry file of CUNQA.     *)
(*                                                                         *)
(* A line of a log is named by the launch that writes it, its place in     *)
(* what that launch writes, and its kind.  The header is written in one    *)
(* step.  The checks of the environment before line 122 are left out.      *)
(***************************************************************************)
EXTENDS Integers, Sequences, FiniteSets

CONSTANTS
  Launch,     \* the executions of run.sh
  Target,     \* the executable of each (TARGET_LABEL)
  Detached,   \* the launches with QUANTUM_MPI_DETACH = 1
  MaxOutput,  \* bound: lines that a program writes
  MaxTime     \* bound: the clock, in seconds

ASSUME LaunchAssumption ==
  /\ IsFiniteSet(Launch)
  /\ Target \in [Launch -> STRING]
  /\ Detached \subseteq Launch
  /\ MaxOutput \in Nat
  /\ MaxTime \in Nat

VARIABLES
  pc,          \* where each launch is
  now,         \* the clock
  stamp,       \* LAUNCH_TS of each launch
  logs,        \* the contents of launcher.log in each directory
  file,        \* qpus.json exists
  registry,    \* the launches with entries in qpus.json
  written,     \* history: the lines that each launch has written
  registered,  \* history: the launches whose virtual QPUs have registered
  missed       \* history: the launches that have found no qpus.json

vars == <<pc, now, stamp, logs, file, registry, written, registered, missed>>

\* Faulty variant: the name does not tell the targets apart.
DirBySecond(l) == <<stamp[l], Target[CHOOSE k \in Launch : TRUE]>>

\* RUN_INSTANCE_DIR
Dir(l) == <<stamp[l], Target[l]>>

Line(l, kind) == <<l, Len(written[l]), kind>>

\* >> and tee -a
AppendLine(l, kind) ==
  /\ logs' = [logs EXCEPT ![Dir(l)] = Append(@, Line(l, kind))]
  /\ written' = [written EXCEPT ![l] = Append(@, Line(l, kind))]

Goto(l, from, to) == pc[l] = from /\ pc' = [pc EXCEPT ![l] = to]

---------------------------------------------------------------------------
(* A launch *)

\* Faulty variant: the file is written anew in any case.
AlwaysCreates(l) ==
  /\ Goto(l, "start", "missing")
  /\ missed' = IF file THEN missed ELSE missed \cup {l}
  /\ UNCHANGED <<now, stamp, logs, file, registry, written, registered>>

CheckRegistry(l) ==
  /\ Goto(l, "start", IF file THEN "ready" ELSE "missing")
  /\ missed' = IF file THEN missed ELSE missed \cup {l}
  /\ UNCHANGED <<now, stamp, logs, file, registry, written, registered>>

CreateRegistry(l) ==
  /\ Goto(l, "missing", "ready")
  /\ file' = TRUE
  /\ registry' = {}
  /\ UNCHANGED <<now, stamp, logs, written, registered, missed>>

\* date, to the second, mkdir -p of the directory, and the copy in it.
Stamp(l) ==
  /\ Goto(l, "ready", "stamped")
  /\ stamp' = [stamp EXCEPT ![l] = now]
  /\ UNCHANGED <<now, logs, file, registry, written, registered, missed>>

\* > "${LAUNCH_LOG}"
WriteHeader(l) ==
  /\ Goto(l, "stamped", "headed")
  /\ logs' = [logs EXCEPT ![Dir(l)] = <<Line(l, "header")>>]
  /\ written' = [written EXCEPT ![l] = Append(@, Line(l, "header"))]
  /\ UNCHANGED <<now, stamp, file, registry, registered, missed>>

\* The launch mode, appended, and the start of the program.
StartProgram(l) ==
  /\ Goto(l, "headed", "running")
  /\ AppendLine(l, "mode")
  /\ UNCHANGED <<now, stamp, file, registry, registered, missed>>

\* A line of stdout or stderr of the program.
Output(l) ==
  /\ pc[l] = "running"
  /\ Len(written[l]) < 2 + MaxOutput
  /\ AppendLine(l, "output")
  /\ UNCHANGED <<pc, now, stamp, file, registry, registered, missed>>

\* The virtual QPUs that the program has raised write themselves into the file.
Register(l) ==
  /\ pc[l] = "running"
  /\ l \notin registered
  /\ file' = TRUE
  /\ registry' = registry \cup {l}
  /\ registered' = registered \cup {l}
  /\ UNCHANGED <<pc, now, stamp, logs, written, missed>>

\* The end of a program in the background is logged.
ExitDetached(l) ==
  /\ l \in Detached
  /\ Goto(l, "running", "done")
  /\ AppendLine(l, "exit")
  /\ UNCHANGED <<now, stamp, file, registry, registered, missed>>

ExitForeground(l) ==
  /\ l \notin Detached
  /\ Goto(l, "running", "done")
  /\ UNCHANGED <<now, stamp, logs, file, registry, written, registered, missed>>

Tick ==
  /\ now < MaxTime
  /\ now' = now + 1
  /\ UNCHANGED <<pc, stamp, logs, file, registry, written, registered, missed>>

Init ==
  /\ pc = [l \in Launch |-> "start"]
  /\ now = 0
  /\ stamp = [l \in Launch |-> 0]
  /\ logs = [d \in (0 .. MaxTime) \X {Target[l] : l \in Launch} |-> << >>]
  /\ file \in BOOLEAN
  /\ registry = {}
  /\ written = [l \in Launch |-> << >>]
  /\ registered = {}
  /\ missed = {}

Next ==
  \/ \E l \in Launch :
       \/ CheckRegistry(l) \/ CreateRegistry(l)
       \/ Stamp(l) \/ WriteHeader(l) \/ StartProgram(l)
       \/ Output(l) \/ Register(l)
       \/ ExitDetached(l) \/ ExitForeground(l)
  \/ Tick

Spec == Init /\ [][Next]_vars

---------------------------------------------------------------------------
(* Properties *)

HasDir(l) == pc[l] \notin {"start", "missing", "ready"}

(***************************************************************************)
(* README.md:85: "Program stdout/stderr is always written to               *)
(* `run/<execution>/launcher.log`": what a program has written is there.   *)
(***************************************************************************)
LogComplete ==
  \A l \in Launch : \A i \in 1 .. Len(written[l]) :
    written[l][i] = <<l, i - 1, "output">> =>
      \E k \in 1 .. Len(logs[Dir(l)]) : logs[Dir(l)][k] = written[l][i]

(***************************************************************************)
(* A launch whose second and target no other launch has is alone in its    *)
(* log: it has all of its lines, once, in order, and nothing else.         *)
(***************************************************************************)
LogsApart ==
  \A l \in Launch :
    /\ HasDir(l)
    /\ \A k \in Launch \ {l} :
         HasDir(k) => <<stamp[k], Target[k]>> # <<stamp[l], Target[l]>>
    => logs[Dir(l)] = written[l]

(***************************************************************************)
(* Launches that find no registry file create it, without looking again.   *)
(* Entries of virtual QPUs are lost only if two launches found none: the   *)
(* script is sound when the file exists, or one launch comes first.        *)
(***************************************************************************)
RegistryKept ==
  registered \subseteq registry \/ Cardinality(missed) > 1

=============================================================================
