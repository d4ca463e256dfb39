---------------------------- MODULE Environment ----------------------------
(***************************************************************************)
(* What CunqaApi::run takes from its surroundings, for threads of one      *)
(* process that call it at any time: it completes LD_LIBRARY_PATH, which   *)
(* the commands that it starts inherit, and it looks for the file in which *)
(* CUNQA registers virtual QPUs, again at each reading.                    *)
(*                                                                         *)
(* LD_LIBRARY_PATH is a sequence of directories.  getenv and setenv are    *)
(* not synchronized: a getenv next to a setenv gets the old value or the   *)
(* new one, as both strings stay allocated.                                *)
(***************************************************************************)
EXTENDS Naturals, SequencesExt

CONSTANTS
  Thread,
  Directory,
  Dirs,         \* the directories of CUNQA that exist, in the order of the source
  Inherited,    \* the values that LD_LIBRARY_PATH may have at the start
  Configured,   \* what qpus_file_path or CUNQA_QPUS_FILE may name: a place or "none"
  RootsSet,     \* the roots that may be set: sets of places
  CunqaPlaces   \* where CUNQA may keep its registry

\* The places of the file, by $STORE, $QUANTUM_MPI_PROJECT_DIR, the current
\* directory and $HOME, in the order in which they are looked at.
Places == <<"store", "project", "cwd", "home">>
Place == Range(Places)

ASSUME EnvironmentAssumption ==
  /\ Dirs \in Seq(Directory) /\ IsInjective(Dirs)
  /\ Inherited \subseteq Seq(Directory)
  /\ "unread" \notin Directory
  /\ Configured \subseteq Place \cup {"none"}
  /\ \A s \in RootsSet : "cwd" \in s /\ s \subseteq Place
  /\ CunqaPlaces \subseteq Place

VARIABLES
  LD_LIBRARY_PATH,
  next,         \* the index of the directory that each thread deals with
  current,      \* what it has read of LD_LIBRARY_PATH for it: a value, or Unread
  found,        \* the place whose file gave it its endpoints, or "none"
  file,         \* what the file of each place holds
  configured, roots, cunqa,  \* chosen at the start
  inherited,    \* history: LD_LIBRARY_PATH at the start
  overlapped    \* history: the threads that were not alone while they last completed it

libraryVars == <<LD_LIBRARY_PATH, next, current, inherited, overlapped>>
fileVars == <<found, file, configured, roots, cunqa>>
vars == <<libraryVars, fileVars>>

Unread == <<"unread">>

---------------------------------------------------------------------------
(* ensureCunqaRuntimeEnvironment *)

Completing(t) == next[t] \in 1 .. Len(Dirs)
Completed(t) == next[t] > Len(Dirs)

Begin(t) ==
  /\ next[t] = 0
  /\ next' = [next EXCEPT ![t] = 1]
  /\ LET others == {u \in Thread \ {t} : Completing(u)}
     IN  overlapped' = IF others = {} THEN overlapped \ {t} ELSE overlapped \cup others \cup {t}
  /\ UNCHANGED <<LD_LIBRARY_PATH, current, inherited, fileVars>>

\* Faulty variant: the value is read once, before the first directory.
ReadOnce == inherited

GetEnvString == LD_LIBRARY_PATH

Read(t) ==
  /\ Completing(t)
  /\ current[t] = Unread
  /\ current' = [current EXCEPT ![t] = GetEnvString]
  /\ UNCHANGED <<LD_LIBRARY_PATH, next, inherited, overlapped, fileVars>>

\* Faulty variants: the directory is not looked for; the value is replaced.
NeverHas(value, dir) == FALSE
OnlyDir(dir, value) == <<dir>>

Has(value, dir) == dir \in Range(value)
Prepend(dir, value) == <<dir>> \o value

\* What setenv writes is made from what getenv returned, whatever came between.
Write(t) ==
  /\ Completing(t)
  /\ current[t] # Unread
  /\ LET dir == Dirs[next[t]]
     IN  LD_LIBRARY_PATH' =
           IF Has(current[t], dir) THEN LD_LIBRARY_PATH ELSE Prepend(dir, current[t])
  /\ next' = [next EXCEPT ![t] = @ + 1]
  /\ current' = [current EXCEPT ![t] = Unread]
  /\ UNCHANGED <<inherited, overlapped, fileVars>>

---------------------------------------------------------------------------
(* resolveQpusFilePath and the file *)

Exists(p) == p \in roots /\ file[p] # "absent"

\* Faulty variant: a file in $HOME goes before the others.
HomeFirst ==
  IF configured # "none" THEN configured
  ELSE IF Exists("home") THEN "home"
  ELSE CHOOSE p \in roots : Exists(p) \/ \A q \in roots : ~ Exists(q)

\* The first place with a file, or the last one that has a root.
Resolve ==
  LET here == {i \in 1 .. 3 : Exists(Places[i])}
  IN  IF configured # "none" THEN configured
      ELSE IF here # {} THEN Places[CHOOSE i \in here : \A k \in here : i <= k]
      ELSE IF "home" \in roots THEN "home" ELSE "cwd"

\* loadQpuEndpoints finds the virtual QPUs; what else it reads is tried again.
Load(t) ==
  /\ Completed(t)
  /\ found[t] = "none"
  /\ file[Resolve] = "own"
  /\ found' = [found EXCEPT ![t] = Resolve]
  /\ UNCHANGED <<libraryVars, file, configured, roots, cunqa>>

\* The thread calls run again.
RunAgain(t) ==
  /\ found[t] # "none"
  /\ next' = [next EXCEPT ![t] = 0]
  /\ found' = [found EXCEPT ![t] = "none"]
  /\ UNCHANGED <<LD_LIBRARY_PATH, current, inherited, overlapped, file, configured, roots, cunqa>>

\* The virtual QPUs of the family register.
Register ==
  /\ file[cunqa] \in {"absent", "others"}
  /\ file' = [file EXCEPT ![cunqa] = "own"]
  /\ UNCHANGED <<libraryVars, found, configured, roots, cunqa>>

\* A file of other families appears.
Appear(p) ==
  /\ file[p] = "absent"
  /\ file' = [file EXCEPT ![p] = "others"]
  /\ UNCHANGED <<libraryVars, found, configured, roots, cunqa>>

---------------------------------------------------------------------------
(* The specification *)

Init ==
  /\ LD_LIBRARY_PATH \in Inherited
  /\ inherited = LD_LIBRARY_PATH
  /\ next = [t \in Thread |-> 0]
  /\ current = [t \in Thread |-> Unread]
  /\ overlapped = {}
  /\ found = [t \in Thread |-> "none"]
  /\ file = [p \in Place |-> "absent"]
  /\ configured \in Configured
  /\ roots \in RootsSet
  /\ cunqa \in CunqaPlaces \cap roots

ThreadStep(t) == Begin(t) \/ Read(t) \/ Write(t) \/ Load(t)

Next ==
  \/ \E t \in Thread : ThreadStep(t) \/ RunAgain(t)
  \/ Register
  \/ \E p \in Place : Appear(p)

Spec == Init /\ [][Next]_vars

\* A run that can go on does.
FairSpec == Spec /\ \A t \in Thread : WF_vars(ThreadStep(t))

---------------------------------------------------------------------------
(* Properties *)

\* What run has put before the value that the process was started with.
Added == SubSeq(LD_LIBRARY_PATH, 1, Len(LD_LIBRARY_PATH) - Len(inherited))

(***************************************************************************)
(* However the threads overlap, and however often run is called, they add  *)
(* no directory twice, and none that was there: LD_LIBRARY_PATH does not   *)
(* grow call by call.  (It may have been handed over with duplicates:      *)
(* add_ld_path of run.sh does not look for the directory that it adds.)    *)
(***************************************************************************)
NoDirTwice == IsInjective(Added) /\ Range(Added) \cap Range(inherited) = {}

(***************************************************************************)
(* A lost update loses directories of CUNQA, never what the user had set:  *)
(* that stays, in its order, at the end.                                   *)
(***************************************************************************)
InheritedKept == IsSuffix(inherited, LD_LIBRARY_PATH)

(***************************************************************************)
(* A run that was alone while it completed LD_LIBRARY_PATH has all of the  *)
(* directories from then on, whatever other runs begin, and overlap, later *)
(* (two that overlap at first may leave one out for good).                 *)
(***************************************************************************)
CompleteWhenAlone ==
  \A t \in Thread : Completed(t) /\ t \notin overlapped =>
    Range(Dirs) \subseteq Range(LD_LIBRARY_PATH)

(***************************************************************************)
(* A file in an earlier place, or another configured one, hides CUNQA's.   *)
(***************************************************************************)
Hidden ==
  IF configured = "none"
  THEN \E i, k \in 1 .. 4 : i < k /\ Places[k] = cunqa /\ Exists(Places[i])
  ELSE configured # cunqa

(***************************************************************************)
(* A run finds the file in which its virtual QPUs register, even if it was *)
(* not there, or a later place was read, when the run began to look,       *)
(* unless another file hides it.                                           *)
(***************************************************************************)
FoundUnlessHidden ==
  \A t \in Thread :
    Completed(t) /\ file[cunqa] = "own" ~> found[t] # "none" \/ Hidden

=============================================================================
