--------------------------- MODULE Launcher_proofs ---------------------------
(***************************************************************************)
(* Theorems about the launches of run.sh, for any set of launches, targets *)
(* and modes, and any bounds on the output and on the clock.               *)
(***************************************************************************)
EXTENDS Launcher, FiniteSetTheorems, TLAPS

(***************************************************************************)
(* The inductive invariant, in named parts.                                *)
(***************************************************************************)

Place == {"start", "missing", "ready", "stamped", "headed", "running", "done"}
Kind == {"header", "mode", "output", "exit"}
LogLine == Launch \X Nat \X Kind
LogDir == (0 .. MaxTime) \X {Target[l] : l \in Launch}

Typed ==
  /\ pc \in [Launch -> Place]
  /\ now \in 0 .. MaxTime
  /\ stamp \in [Launch -> 0 .. MaxTime]
  /\ logs \in [LogDir -> Seq(LogLine)]
  /\ file \in BOOLEAN
  /\ registry \subseteq Launch
  /\ written \in [Launch -> Seq(LogLine)]
  /\ registered \subseteq Launch
  /\ missed \subseteq Launch

\* A launch writes nothing before it has its directory and its header.
NothingYet == \A l \in Launch : ~HasDir(l) \/ pc[l] = "stamped" => written[l] = << >>

\* A log has lines only of launches whose directory it is in.
LogsOwned ==
  \A d \in LogDir : logs[d] # << >> => \E l \in Launch : HasDir(l) /\ Dir(l) = d

LogsInv == Typed /\ NothingYet /\ LogsOwned /\ LogsApart

\* A launch that is about to create the file has found none.
MissingMissed == \A l \in Launch : pc[l] = "missing" => l \in missed

\* Only a launch that has gone past its own check registers.
RegisteredLate == \A l \in registered : HasDir(l)

\* No launch gets past its check while there is no file.
FileFirst == ~file => \A l \in Launch : pc[l] \in {"start", "missing"}

\* When there is a file, launches that found none are not all about to create it.
SomeCreated == file /\ missed # {} => \E l \in missed : pc[l] # "missing"

RegistryInv ==
  /\ Typed
  /\ MissingMissed
  /\ RegisteredLate
  /\ FileFirst
  /\ SomeCreated
  /\ RegistryKept

(***************************************************************************)
(* Types                                                                   *)
(***************************************************************************)

LEMMA DirType ==
  ASSUME Typed, NEW l \in Launch
  PROVE  Dir(l) \in LogDir
BY DEF Typed, Dir, LogDir

LEMMA LineType ==
  ASSUME Typed, NEW l \in Launch, NEW kind \in Kind
  PROVE  Line(l, kind) \in LogLine
BY DEF Typed, Line, LogLine

\* A launch goes on to another place.
LEMMA GotoType ==
  ASSUME Typed, NEW l \in Launch, NEW from, NEW to \in Place, Goto(l, from, to)
  PROVE  /\ pc[l] = from
         /\ pc'[l] = to
         /\ \A k \in Launch \ {l} : pc'[k] = pc[k]
         /\ pc' \in [Launch -> Place]
BY DEF Typed, Goto

\* A line goes to the end of one log, and of what its launch has written.
LEMMA AppendType ==
  ASSUME Typed, NEW l \in Launch, NEW kind \in Kind, AppendLine(l, kind)
  PROVE  /\ logs'[Dir(l)] = Append(logs[Dir(l)], Line(l, kind))
         /\ \A d \in LogDir \ {Dir(l)} : logs'[d] = logs[d]
         /\ written'[l] = Append(written[l], Line(l, kind))
         /\ \A k \in Launch \ {l} : written'[k] = written[k]
         /\ logs' \in [LogDir -> Seq(LogLine)]
         /\ written' \in [Launch -> Seq(LogLine)]
<1>1. Dir(l) \in LogDir /\ Line(l, kind) \in LogLine
  BY DirType, LineType
<1>2. /\ Append(logs[Dir(l)], Line(l, kind)) \in Seq(LogLine)
      /\ Append(written[l], Line(l, kind)) \in Seq(LogLine)
  BY <1>1 DEF Typed
<1> QED BY <1>1, <1>2 DEF Typed, AppendLine

LEMMA TypedInit == Init => Typed
BY LaunchAssumption DEF Init, Typed, Place, LogDir

LEMMA TypedNext ==
  ASSUME Typed, [Next]_vars
  PROVE  Typed'
<1> USE DEF Place, Kind
<1>1. CASE UNCHANGED vars
  BY <1>1 DEF vars, Typed
<1>2. ASSUME NEW l \in Launch, CheckRegistry(l) PROVE Typed'
  <2>1. pc' \in [Launch -> Place]
    BY <1>2, GotoType DEF CheckRegistry
  <2> QED BY <1>2, <2>1 DEF CheckRegistry, Typed
<1>3. ASSUME NEW l \in Launch, CreateRegistry(l) PROVE Typed'
  <2>1. pc' \in [Launch -> Place]
    BY <1>3, GotoType DEF CreateRegistry
  <2> QED BY <1>3, <2>1 DEF CreateRegistry, Typed
<1>4. ASSUME NEW l \in Launch, Stamp(l) PROVE Typed'
  <2>1. pc' \in [Launch -> Place]
    BY <1>4, GotoType DEF Stamp
  <2> QED BY <1>4, <2>1 DEF Stamp, Typed
<1>5. ASSUME NEW l \in Launch, WriteHeader(l) PROVE Typed'
  <2>1. pc' \in [Launch -> Place]
    BY <1>5, GotoType DEF WriteHeader
  <2>2. Dir(l) \in LogDir /\ Line(l, "header") \in LogLine
    BY DirType, LineType
  <2>3. /\ <<Line(l, "header")>> \in Seq(LogLine)
        /\ Append(written[l], Line(l, "header")) \in Seq(LogLine)
    BY <2>2 DEF Typed
  <2> QED BY <1>5, <2>1, <2>2, <2>3 DEF WriteHeader, Typed
<1>6. ASSUME NEW l \in Launch, StartProgram(l) PROVE Typed'
  <2>1. pc' \in [Launch -> Place]
    BY <1>6, GotoType DEF StartProgram
  <2> QED BY <1>6, <2>1, AppendType DEF StartProgram, Typed
<1>7. ASSUME NEW l \in Launch, Output(l) PROVE Typed'
  BY <1>7, AppendType DEF Output, Typed
<1>8. ASSUME NEW l \in Launch, Register(l) PROVE Typed'
  BY <1>8 DEF Register, Typed
<1>9. ASSUME NEW l \in Launch, ExitDetached(l) PROVE Typed'
  <2>1. pc' \in [Launch -> Place]
    BY <1>9, GotoType DEF ExitDetached
  <2> QED BY <1>9, <2>1, AppendType DEF ExitDetached, Typed
<1>10. ASSUME NEW l \in Launch, ExitForeground(l) PROVE Typed'
  <2>1. pc' \in [Launch -> Place]
    BY <1>10, GotoType DEF ExitForeground
  <2> QED BY <1>10, <2>1 DEF ExitForeground, Typed
<1>11. CASE Tick
  BY <1>11, LaunchAssumption DEF Tick, Typed
<1> QED
  BY <1>1, <1>2, <1>3, <1>4, <1>5, <1>6, <1>7, <1>8, <1>9, <1>10, <1>11 DEF Next

(***************************************************************************)
(* The registry                                                            *)
(***************************************************************************)

\* Two launches that have found no file are more than one.
LEMMA TwoMissed ==
  ASSUME Typed, NEW k \in missed, NEW l \in missed, k # l
  PROVE  Cardinality(missed) > 1
<1>1. IsFiniteSet(missed)
  BY LaunchAssumption, FS_Subset DEF Typed
<1>2. /\ Cardinality(missed \ {l}) = Cardinality(missed) - 1
      /\ IsFiniteSet(missed \ {l})
      /\ Cardinality(missed) \in Nat
  BY <1>1, FS_RemoveElement, FS_CardinalityType
<1>3. Cardinality(missed \ {l}) # 0 /\ Cardinality(missed \ {l}) \in Nat
  BY <1>2, FS_EmptySet, FS_CardinalityType
<1> QED BY <1>2, <1>3

\* Launches that have found no file are not forgotten.
LEMMA MissedGrows ==
  ASSUME Typed, Typed', missed \subseteq missed', Cardinality(missed) > 1
  PROVE  Cardinality(missed') > 1
<1>1. IsFiniteSet(missed')
  BY LaunchAssumption, FS_Subset DEF Typed
<1>2. /\ Cardinality(missed) <= Cardinality(missed')
      /\ Cardinality(missed) \in Nat
      /\ Cardinality(missed') \in Nat
  BY <1>1, FS_Subset, FS_CardinalityType
<1> QED BY <1>2

\* A step that leaves the file and the registry alone.
LEMMA RegistryLeft ==
  ASSUME RegistryInv, Typed', NEW l \in Launch, NEW to \in Place \ {"start", "missing"},
         Goto(l, pc[l], to), HasDir(l) \/ pc[l] = "ready", HasDir(l) => to # "ready",
         UNCHANGED <<file, registry, registered, missed>>
  PROVE  RegistryInv'
<1>1. /\ pc'[l] = to
      /\ \A k \in Launch \ {l} : pc'[k] = pc[k]
  BY GotoType DEF RegistryInv
<1>2. MissingMissed' /\ RegisteredLate' /\ FileFirst' /\ SomeCreated'
  BY <1>1 DEF RegistryInv, MissingMissed, RegisteredLate, FileFirst, SomeCreated, HasDir, Typed
<1> QED BY <1>2 DEF RegistryInv, RegistryKept

LEMMA RegistryNext ==
  ASSUME RegistryInv, [Next]_vars
  PROVE  RegistryInv'
<1>1. Typed /\ Typed'
  BY TypedNext DEF RegistryInv
<1> USE DEF Place
<1>2. ASSUME UNCHANGED <<pc, file, registry, registered, missed>> PROVE RegistryInv'
  BY <1>1, <1>2 DEF RegistryInv, MissingMissed, RegisteredLate, FileFirst, SomeCreated,
                    RegistryKept, HasDir
<1>3. CASE UNCHANGED vars \/ Tick
  BY <1>2, <1>3 DEF vars, Tick
<1>4. ASSUME NEW l \in Launch, Output(l) PROVE RegistryInv'
  BY <1>2, <1>4 DEF Output
<1>5. ASSUME NEW l \in Launch,
             Stamp(l) \/ WriteHeader(l) \/ StartProgram(l) \/ ExitDetached(l)
               \/ ExitForeground(l)
      PROVE  RegistryInv'
  <2>1. PICK to \in Place \ {"start", "missing", "ready"} : Goto(l, pc[l], to)
    BY <1>5 DEF Stamp, WriteHeader, StartProgram, ExitDetached, ExitForeground, Goto
  <2>2. HasDir(l) \/ pc[l] = "ready"
    BY <1>5 DEF Stamp, WriteHeader, StartProgram, ExitDetached, ExitForeground, Goto, HasDir
  <2>3. UNCHANGED <<file, registry, registered, missed>>
    BY <1>5 DEF Stamp, WriteHeader, StartProgram, ExitDetached, ExitForeground
  <2> QED BY <1>1, <2>1, <2>2, <2>3, RegistryLeft
<1>6. ASSUME NEW l \in Launch, CheckRegistry(l) PROVE RegistryInv'
  <2>1. /\ pc[l] = "start"
        /\ pc'[l] = IF file THEN "ready" ELSE "missing"
        /\ \A k \in Launch \ {l} : pc'[k] = pc[k]
        /\ missed' = IF file THEN missed ELSE missed \cup {l}
        /\ UNCHANGED <<file, registry, registered>>
    BY <1>1, <1>6 DEF CheckRegistry, Goto, Typed
  <2>2. MissingMissed' /\ FileFirst'
    BY <2>1 DEF RegistryInv, MissingMissed, FileFirst
  <2>3. RegisteredLate' /\ SomeCreated'
    BY <1>1, <2>1 DEF RegistryInv, Typed, RegisteredLate, SomeCreated, HasDir
  <2>4. RegistryKept'
    BY <1>1, <2>1, MissedGrows DEF RegistryInv, RegistryKept
  <2> QED BY <1>1, <2>2, <2>3, <2>4 DEF RegistryInv
<1>7. ASSUME NEW l \in Launch, CreateRegistry(l) PROVE RegistryInv'
  <2>1. /\ pc[l] = "missing"
        /\ pc'[l] = "ready"
        /\ \A k \in Launch \ {l} : pc'[k] = pc[k]
        /\ file' = TRUE
        /\ UNCHANGED <<registered, missed>>
    BY <1>1, <1>7 DEF CreateRegistry, Goto, Typed
  <2>2. l \in missed
    BY <2>1 DEF RegistryInv, MissingMissed
  <2>3. MissingMissed' /\ FileFirst' /\ SomeCreated'
    BY <1>1, <2>1, <2>2 DEF RegistryInv, Typed, MissingMissed, FileFirst, SomeCreated
  <2>4. RegisteredLate'
    BY <1>1, <2>1 DEF RegistryInv, Typed, RegisteredLate, HasDir
  <2>5. RegistryKept'
    <3>1. CASE registered = {}
      BY <2>1, <3>1 DEF RegistryKept
    <3>2. CASE registered # {}
      <4>1. file
        BY <1>1, <3>2 DEF RegistryInv, Typed, RegisteredLate, FileFirst, HasDir
      <4>2. PICK k \in missed : pc[k] # "missing"
        BY <2>2, <4>1 DEF RegistryInv, SomeCreated
      <4>3. Cardinality(missed) > 1
        BY <1>1, <2>1, <2>2, <4>2, TwoMissed
      <4> QED BY <2>1, <4>3 DEF RegistryKept
    <3> QED BY <3>1, <3>2
  <2> QED BY <1>1, <2>3, <2>4, <2>5 DEF RegistryInv
<1>8. ASSUME NEW l \in Launch, Register(l) PROVE RegistryInv'
  <2>1. /\ pc[l] = "running"
        /\ registry' = registry \cup {l}
        /\ registered' = registered \cup {l}
        /\ file' = TRUE
        /\ UNCHANGED <<pc, missed>>
    BY <1>8 DEF Register
  <2>2. file
    BY <1>1, <2>1 DEF RegistryInv, Typed, FileFirst
  <2> QED BY <1>1, <2>1, <2>2 DEF RegistryInv, MissingMissed, RegisteredLate, FileFirst,
                                  SomeCreated, RegistryKept, HasDir
<1> QED BY <1>3, <1>4, <1>5, <1>6, <1>7, <1>8 DEF Next

(***************************************************************************)
(* For any number of launches, in any order: entries of virtual QPUs are   *)
(* lost only when two launches have found no registry file.                *)
(***************************************************************************)
THEOREM RegistryKeptHolds == Spec => []RegistryKept
<1>1. Init => RegistryInv
  BY TypedInit DEF Init, RegistryInv, MissingMissed, RegisteredLate, FileFirst, SomeCreated,
                   RegistryKept
<1>2. RegistryInv => RegistryKept
  BY DEF RegistryInv
<1> QED BY <1>1, <1>2, RegistryNext, PTL DEF Spec

(***************************************************************************)
(* The logs                                                                *)
(***************************************************************************)

\* No other launch has the directory of l.
Alone(l) == HasDir(l) /\ \A k \in Launch \ {l} : HasDir(k) => Dir(k) # Dir(l)

LEMMA AloneLogs == LogsApart <=> \A l \in Launch : Alone(l) => logs[Dir(l)] = written[l]
BY DEF LogsApart, Alone, Dir

\* A step that touches no log and moves no launch into a directory.
LEMMA LogsLeft ==
  ASSUME LogsInv, Typed', UNCHANGED <<stamp, logs, written>>,
         \A l \in Launch : HasDir(l)' <=> HasDir(l),
         \A l \in Launch : pc'[l] = "stamped" => pc[l] = "stamped"
  PROVE  LogsInv'
<1>1. \A l \in Launch : Dir(l)' = Dir(l)
  BY DEF Dir
<1>2. NothingYet' /\ LogsOwned'
  BY <1>1 DEF LogsInv, NothingYet, LogsOwned
<1>3. LogsApart'
  BY DEF LogsInv, LogsApart, Dir
<1> QED BY <1>2, <1>3 DEF LogsInv

\* A launch that writes a line puts it into its own log.
LEMMA LogsWritten ==
  ASSUME LogsInv, Typed', NEW l \in Launch, HasDir(l),
         NEW line, written'[l] = Append(written[l], line),
         logs'[Dir(l)] = Append(logs[Dir(l)], line)
           \/ (written[l] = << >> /\ logs'[Dir(l)] = <<line>>),
         \A d \in LogDir \ {Dir(l)} : logs'[d] = logs[d],
         \A k \in Launch \ {l} : written'[k] = written[k],
         UNCHANGED stamp,
         \A k \in Launch : HasDir(k)' <=> HasDir(k),
         \A k \in Launch \ {l} : pc'[k] = pc[k],
         pc'[l] # "stamped"
  PROVE  LogsInv'
<1>1. \A k \in Launch : Dir(k)' = Dir(k) /\ Dir(k) \in LogDir /\ (Alone(k)' <=> Alone(k))
  BY DirType DEF LogsInv, Dir, Alone
<1>2. NothingYet'
  BY DEF LogsInv, NothingYet
<1>3. LogsOwned'
  BY <1>1 DEF LogsInv, LogsOwned
<1>4. ASSUME NEW k \in Launch, Alone(k) PROVE logs'[Dir(k)] = written'[k]
  <2>1. logs[Dir(k)] = written[k]
    BY <1>4, AloneLogs DEF LogsInv
  <2>2. CASE k = l
    <3>1. <<line>> = Append(<< >>, line)
      OBVIOUS
    <3> QED BY <2>1, <2>2, <3>1
  <2>3. CASE k # l
    BY <1>1, <1>4, <2>1, <2>3 DEF Alone
  <2> QED BY <2>2, <2>3
<1>5. LogsApart'
  BY <1>1, <1>4 DEF LogsApart, Alone, Dir
<1> QED BY <1>2, <1>3, <1>5 DEF LogsInv

LEMMA LogsNext ==
  ASSUME LogsInv, [Next]_vars
  PROVE  LogsInv'
<1>1. Typed /\ Typed'
  BY TypedNext DEF LogsInv
<1> USE DEF Place, Kind
<1>2. CASE UNCHANGED vars \/ Tick
  <2>1. UNCHANGED <<pc, stamp, logs, written>>
    BY <1>2 DEF vars, Tick
  <2> QED BY <1>1, <2>1, LogsLeft DEF HasDir
<1>3. ASSUME NEW l \in Launch,
             CheckRegistry(l) \/ CreateRegistry(l) \/ Register(l) \/ ExitForeground(l)
      PROVE  LogsInv'
  <2>1. UNCHANGED <<stamp, logs, written>>
    BY <1>3 DEF CheckRegistry, CreateRegistry, Register, ExitForeground
  <2>2. \/ UNCHANGED pc
        \/ /\ HasDir(l)' <=> HasDir(l)
           /\ pc'[l] # "stamped"
           /\ \A k \in Launch \ {l} : pc'[k] = pc[k]
    BY <1>1, <1>3 DEF CheckRegistry, CreateRegistry, Register, ExitForeground, Goto, HasDir,
                      Typed
  <2> QED BY <1>1, <2>1, <2>2, LogsLeft DEF HasDir
<1>4. ASSUME NEW l \in Launch, Stamp(l) PROVE LogsInv'
  <2>1. /\ pc[l] = "ready" /\ pc'[l] = "stamped"
        /\ \A k \in Launch \ {l} : pc'[k] = pc[k] /\ stamp'[k] = stamp[k]
        /\ UNCHANGED <<logs, written>>
    BY <1>1, <1>4 DEF Stamp, Goto, Typed
  <2>2. /\ ~HasDir(l) /\ HasDir(l)'
        /\ \A k \in Launch \ {l} : (HasDir(k)' <=> HasDir(k)) /\ Dir(k)' = Dir(k)
    BY <2>1 DEF HasDir, Dir
  <2>3. written[l] = << >>
    BY <2>2 DEF LogsInv, NothingYet
  <2>4. NothingYet'
    BY <2>1, <2>2, <2>3 DEF LogsInv, NothingYet
  <2>5. LogsOwned'
    <3> SUFFICES ASSUME NEW d \in LogDir, logs[d] # << >>
                 PROVE  \E k \in Launch : HasDir(k)' /\ Dir(k)' = d
      BY <2>1 DEF LogsOwned
    <3>1. PICK k \in Launch : HasDir(k) /\ Dir(k) = d
      BY DEF LogsInv, LogsOwned
    <3> QED BY <2>2, <3>1
  <2>6. ASSUME NEW k \in Launch, Alone(k)' PROVE logs'[Dir(k)'] = written'[k]
    <3>1. CASE k = l
      <4>1. Dir(l)' \in LogDir
        BY <1>1 DEF Typed, Dir, LogDir
      <4>2. \A j \in Launch : HasDir(j) => Dir(j) # Dir(l)'
        BY <2>2, <2>6, <3>1 DEF Alone
      <4>3. logs[Dir(l)'] = << >>
        BY <4>1, <4>2 DEF LogsInv, LogsOwned
      <4> QED BY <2>1, <2>3, <3>1, <4>3
    <3>2. CASE k # l
      <4>1. Alone(k)
        BY <2>2, <2>6, <3>2 DEF Alone
      <4>2. logs[Dir(k)] = written[k]
        BY <4>1, AloneLogs DEF LogsInv
      <4> QED BY <2>1, <2>2, <3>2, <4>2
    <3> QED BY <3>1, <3>2
  <2>7. LogsApart'
    BY <2>6 DEF LogsApart, Alone, Dir
  <2> QED BY <1>1, <2>4, <2>5, <2>7 DEF LogsInv
<1>5. ASSUME NEW l \in Launch, WriteHeader(l) PROVE LogsInv'
  <2>1. /\ pc[l] = "stamped" /\ pc'[l] = "headed"
        /\ \A k \in Launch \ {l} : pc'[k] = pc[k]
        /\ UNCHANGED stamp
        /\ written' = [written EXCEPT ![l] = Append(@, Line(l, "header"))]
        /\ logs' = [logs EXCEPT ![Dir(l)] = <<Line(l, "header")>>]
    BY <1>1, <1>5 DEF WriteHeader, Goto, Typed
  <2>2. written[l] = << >> /\ HasDir(l) /\ Dir(l) \in LogDir
    BY <1>1, <2>1, DirType DEF LogsInv, NothingYet, HasDir
  <2>3. \A k \in Launch : HasDir(k)' <=> HasDir(k)
    BY <2>1 DEF HasDir
  <2>4. /\ written'[l] = Append(written[l], Line(l, "header"))
        /\ logs'[Dir(l)] = <<Line(l, "header")>>
        /\ \A d \in LogDir \ {Dir(l)} : logs'[d] = logs[d]
        /\ \A k \in Launch \ {l} : written'[k] = written[k]
    BY <1>1, <2>1, <2>2 DEF Typed
  <2> QED BY <1>1, <2>1, <2>2, <2>3, <2>4, LogsWritten
<1>6. ASSUME NEW l \in Launch, StartProgram(l) \/ Output(l) \/ ExitDetached(l)
      PROVE  LogsInv'
  <2>1. PICK kind \in Kind : AppendLine(l, kind)
    BY <1>6 DEF StartProgram, Output, ExitDetached
  <2>2. /\ HasDir(l) /\ UNCHANGED stamp
        /\ \A k \in Launch : HasDir(k)' <=> HasDir(k)
        /\ \A k \in Launch \ {l} : pc'[k] = pc[k]
        /\ pc'[l] # "stamped"
    BY <1>1, <1>6 DEF StartProgram, Output, ExitDetached, Goto, HasDir, Typed
  <2> QED BY <1>1, <2>1, <2>2, AppendType, LogsWritten
<1> QED BY <1>2, <1>3, <1>4, <1>5, <1>6 DEF Next

(***************************************************************************)
(* For any launches and any clock: a launch with a second and a target of  *)
(* its own has all of its lines in its log, once, in order, and no other.  *)
(***************************************************************************)
THEOREM LogsApartHolds == Spec => []LogsApart
<1>1. Init => LogsInv
  BY TypedInit DEF Init, LogsInv, NothingYet, LogsOwned, LogsApart, HasDir, LogDir
<1>2. LogsInv => LogsApart
  BY DEF LogsInv
<1> QED BY <1>1, <1>2, LogsNext, PTL DEF Spec

=============================================================================
