# A TLA+ verification of quantum-mpi

quantum-mpi runs distributed quantum circuits on CUNQA, an emulator of quantum
processors (virtual QPUs) that Slurm starts on an HPC cluster. The code is a
stack of small libraries:

    distributed_qft, simple_telegate  ->  quantum_mpi  ->  quantum_circuit
                                                       ->  cunqa_api  ->  CUNQA, Slurm

This directory holds TLA+ modules of its stateful parts, configurations that
model-check them with TLC, and proofs checked with TLAPS.

## 1. Inventory of the system

| Component | State | Operations | What makes it correct |
|---|---|---|---|
| `lib/quantum_mpi`: `QuantumMPI` | per object `initialized_`; per process one map of mailboxes, `g_world_mailboxes`, one vector of messages per world, under one mutex | `init`, `finalize`, `barrier`, `send`, `recv`, `bcast`, `reduce`, `run_circuit`, `run_distributed` | messages of one sender, receiver and tag in order and once; collectives combine what belongs together; no mail of a former life; nothing kept for a world that nobody uses |
| `lib/cunqa_api`: `CunqaApi::run` | none between calls; within a call the endpoints, the circuits sent, the results; outside, the deployments of CUNQA and the registry file `qpus.json` | `run`, `loadQpuEndpoints`, the `qraise` and `qdrop` commands | no deployment left behind; each run uses its own, and loses it only to the wall time or its family; all results in order or an error; a run ends |
| `lib/cunqa_api`: the circuit transformation | none (a function of JSON) | `transformCircuitForCunqa`, `mapCircuitIdsToQpus`, `validateRemoteInstructionsHaveQpus` | every circuit id becomes the virtual QPU of that circuit; what passes is accepted by CUNQA |
| `lib/quantum_circuit`: `QuantumCircuit` | instructions, `sending_to`, configuration | `addInstruction`, `parseToRawQCJson`, setters | a refused instruction changes nothing; indices lie in the registers; `sending_to` names the targets of the remote gates |
| `lib/cunqa_api`: environment and paths | `LD_LIBRARY_PATH` of the process, shared by its threads | `ensureCunqaRuntimeEnvironment`, `resolveQpusFilePath` | the commands inherit all directories; what the user had set stays; the registry file that is read is CUNQA's |
| `src/distributed_qft.cpp` | none between executions; within one, the repetitions that are over | partition, mapping, construction of one circuit per rank; a baseline and a target, some times each | the pieces execute the gates of the QFT and never wait for each other in a circle; no repetition runs next to what is left of an earlier one |
| `src/simple_telegate.cpp` | none | two circuits, one `run` | its calls are accepted although it does not look; the circuits end |
| `lib/utils` | none | `popen` of a command, string helpers, unique family names | a command that failed is reported as failed |
| `cunqa_client_logger.cpp` | one logger under `std::call_once` | - | - |
| `run.sh` | the directory and the log of a launch, the registry file | launch in the foreground or the background | each launch has its own log, complete |
| `configure.sh`, CMake | - | build | - |

How they interact. The objects of a world share one process and talk only
through the mailbox, each call of `send` and `recv` in one critical section of
`g_mailbox_mutex`; `bcast` and `reduce` are loops of such calls, so that other
ranks act between two iterations. `run_distributed` hands the circuits to
`CunqaApi::run`, which talks to CUNQA by two commands (`qraise`, `qdrop`), by
polling a file that virtual QPUs write, and by one connection per circuit.
Several runs, of one process or of several, share the file and, when they use
one family name, the deployments. A process that is killed leaves what CUNQA
holds for it to whoever uses the family next.

What is hard here:

* Interleaving: ranks between the iterations of a loop of another rank; runs
  that share a family drop each other's deployment at any point; threads that
  call `run` together complete one `LD_LIBRARY_PATH` without a lock; a virtual
  QPU executes its circuit while others have received none.
* Failure: `recv` throws when nothing is there, which leaves a collective half
  done; a circuit is refused after others were sent; `qraise` or `qdrop` is
  reported as failed, whatever it did.
* Restart: `finalize()` and `init()` again; an object destroyed without
  `finalize()` (there is no destructor); a program killed while its virtual QPUs
  are up, and started again in the same family.
* Time: the endpoint timeout races with late registration; `recv_results` has
  no limit, but the job of the virtual QPUs has one (the wall time of `qraise -t`).
* Staleness: entries of ended deployments in the file, entries without a family,
  a file that is being written.

`PROJECT.json` lists the hazards one by one, each at its line, with the
properties that cover it or the reason why none does yet.

## 2. Modules

### QuantumMPI: ranks and their mailbox

`QuantumMPI.tla` is `lib/quantum_mpi` without the two execution calls. `Size`
rank objects act on the mailbox of one world.

| Code | Model |
|---|---|
| `initialized_` | `initialized[r]` |
| `g_world_mailboxes[world_id_]` | `mailbox`: a set of messages with arrival numbers `at`; the vector is only appended to and erased from, so its order is that of `at` |
| the key `world_id_` in the map | `present`: `operator[]` creates it in `send` and in `recv` (also when `recv` then throws), `finalize` erases it when the vector is empty |
| a payload | a record naming the call that made it (operation, rank, its number) and its form: a number to `parse_numeric_payload`, another text, or empty |
| the loop variables of `bcast` and `reduce` | `pc`, `cursor`, `values` |
| a thrown exception, a return | `returned[r]`: the operation and the payloads of a call that returned; of one that threw, what it threw |

An action is one critical section with the thread's own work up to the next
one. `send`, `recv`, a contribution to `reduce` and a receiving `bcast` are one
action; the root's loops are an action to enter them and one action per
message. `Rejected` holds the checks that throw before anything changes.
`Drop` is the destruction of an object that was not finalized. `init` on an
initialized object changes nothing and is left to stuttering.
`done`, `horizon`, `dropped` and `lost` are history: no action's
guard reads them.

What is abstracted: the arithmetic of `reduce` (the result is the *set* of
payloads it combines; the four operations are a fold over that set), the text
of exceptions, the private fields that nothing reads (`job_id_`, `endpoint_`,
`mailbox_`), other worlds (every access goes through the key of the own world).

### FifoChannels and QuantumMPIFifo: what the mailbox promises

`FifoChannels.tla` is the abstract mailbox: one queue per sender, receiver and
tag, with `Put`, `Take` of the oldest value, and `Clear` of all queues of one
end. `QuantumMPIFifo.tla` maps the mailbox to it: the queue of a channel is
what the vector holds for it in order of arrival, and states
`ImplementsFifo == Abstract!Spec`.

### CunqaApi: one call of run

`CunqaApi.tla` follows each call of `CunqaApi::run` from place to place (`pc`),
one external command, one reading of the file or the clock, or one message per
action.

| Code | Model |
|---|---|
| `qraise`, its duplicate-family answer, `qdrop` and one retry | `Raise`, `DropNamesake`, `RaiseAgain` |
| `loadQpuEndpoints` | `Load`: the file (absent, torn, odd, ready), the filter by family, too few entries, an entry without an endpoint, the first entries otherwise |
| the elapsed time, read after the file; `sleep_for` | `expired`, `CheckClock` |
| connect, transform, send | `SendCircuit`, `TransformFails`, `ClientThrows` |
| `recv_results` in the order of the circuits | `RecvResult` |
| the last `qdrop`, and the `qdrop` before each error | `Finish`, `AbortDrop` |
| a command that is reported as failed, or whose shell is lost, although it did its work | `QraiseFails`, `QdropFails` |
| an exception that leaves `run` | the place `"escaped"` |

CUNQA and Slurm are not in the repository. They are modelled from what `run`
relies on, and are otherwise free: `qraise` answers "duplicate" only for a
family in use, and may fail for any reason; a job may stay pending for ever;
one that is up may end at any point, as the wall time that `run` asks for
(`cunqa_api.cpp:505`) passes whatever `run` is doing (`JobEnds`); virtual QPUs
register one by one, in any order, each tearing the file while it writes; their
entries may lack the family or the endpoint (`Kinds`, for each run); entries of a
deployment that has ended disappear sooner or later (`Cleans` chooses whether
`qdrop` waits for that); results are computed in any order, and only while the
deployment is up.

Two assumptions on the commands are CUNQA's to keep; nothing in the repository
shows them:

* `qdrop --family_name` ends every job of the family, also one that is pending or
  up without an entry yet, while `qraise` need not see such a job (`Qdrop`).
  `NoLeak`, `CleanBetween` and `RestartRecovers` need it: with a `qdrop` that goes
  by the file alone, a run that times out before its virtual QPUs register would
  leave them.
* `qraise` refuses a family that has an entry in the file (`QraiseSucceeds`).
  `LostForCause` needs it: otherwise a run that has just dropped a namesake could
  take the entries that this one has left.

`MCCunqaApi.tla` gives the constants of `CunqaApi` their values for TLC.

### Programs: the processes that call run

`Programs.tla` composes processes with the runs of `CunqaApi`. A process has a
plan, the list of its calls: `distributed_qft` runs the baseline and the target
some times, each call through `run_distributed` in a family of its own;
`simple_telegate` calls `run` once.

| Code | Model |
|---|---|
| the checks of `run_distributed`; `run_circuit`, which has one circuit always | `Admitted`, `Refused` |
| the call | `Begin`, and `Work`: a step of `CunqaApi` |
| `execution.status != 0`, or a result that cannot be used, throws; the next repetition otherwise | `Succeeded`, `GoOn`, `GiveUp` |
| an exception of `loadQpuEndpoints` | `Escape` |
| the process is killed | `Kill`, at any point of a call or between calls |

A second call in one family stands for the restart of a program under
`QUANTUM_MPI_FAMILY_NAME`. Ranks of one world that call `run_distributed` at
once are two processes of the model, as `CunqaApi` keeps nothing between calls.
`inherited`, `dropped` (what each run has ended) and `timedOut` (what ended without
a run) are history. Each behaviour is one of `CunqaApi` (`ProgramsImplement`
in section 4): a killed process is one whose run takes no further step.

### QuantumCircuit and CircuitTransform: from the builder to CUNQA

`QuantumCircuit.tla` is `lib/quantum_circuit`: objects on which a program calls
`addInstruction`, `setDynamic` and `parseToRawQCJson` in any order.
`CircuitTransform.tla` is what `run` does with copies of them
(`cunqa_api.cpp:109-393` and `802-836`), while the program goes on building.

| Code | Model |
|---|---|
| the statuses 1, 2 and 3 of `addInstruction` | `RegisterStatus`, `RefuseRegisters` |
| status 4, returned from the middle of the loop that fills `sending_to` | `RefuseNoId`; `halfDone` is history |
| `checkCommAndSetDynamic`, at the time the JSON is written | `Communicates`, `Raw` |
| the map from circuit ids to virtual QPUs, where a later circuit of the same id wins | `Bearers`, `Qpu` |
| `mapCircuitIdsToQpus`, its failure | `MapCircuitIdsToQpus`, `AllKnown` |
| a remote gate; the block that a local gate with related circuits becomes | `Plain`, `RControl` |
| `validateRemoteInstructionsHaveQpus` | `HasQpus` |
| `transformCircuitForCunqa`, its result and its error | `Transform`, `Transforms` |

JSON is a record, and a key that is absent an empty sequence. Names are those
that the code compares; params, shots, seed and the device are left out.
`CunqaApi` has the same loop with the outcome of a transformation left open.

### QubitLayout, QubitMapping, DistributedQft and QftProgram: the QFT

`QubitLayout.tla` has the partition of `build_qubit_partition` and the place of
a qubit by it in closed form. `QubitMapping.tla` is `build_global_mapping` as
what it is, two nested loops that write a vector without looking at its end. The
size of the vector is the sum of the partition (`SumOfPartition`), as in the code;
`FillsVector` says that it is the number of qubits of the command line.

`DistributedQft.tla` has the circuits of `build_distributed_qft_circuits` and
their execution. An instruction is named by the iteration that adds it, so a
circuit is the set of instructions of its rank in the order of the iterations:
`addInstruction` appends. A rotation between two ranks is an `expose` in one
circuit and a controlled gate in the other, which `CircuitTransform` makes an
`rcontrol`. Their execution is CUNQA's and assumed: an `expose` offers its qubit
to the virtual QPU that it names and waits until an `rcontrol` of that one ends
it; an `rcontrol` takes the offer of the virtual QPU that it names, whichever
qubit it is of. `applied` is history: the gates, each with the qubit that
controlled it. `QftProgram.tla` is the two in sequence.

### Examples: the programs from end to end

`Examples.tla` composes `QubitMapping`, the builder, the transformation and
virtual QPUs: `distributed_qft` or `simple_telegate` makes its calls of
`addInstruction` in the order of its loops (`ProgramCalls`), `run` transforms and
sends the circuits, and each virtual QPU executes what it has received, as soon
as it has it. What a virtual QPU executes is what arrived: names of gates, indices
and virtual QPUs, from which `QubitAt` finds the qubit of the algorithm. `meant` is
history: the iteration that each instruction comes from. `ImplementsQft` says that
the execution refines `DistributedQft`, so that what is proved of that module, for
every number of qubits and ranks, is about what the code sends (`RanGates`,
`ExposedRanks` and `AppliedGates` are the mapping of the states). The shots, and the
angle of a rotation, are left out.

### Environment: what run takes from its process

`Environment.tla` has threads of one process that call `run` again and again. For
each directory of CUNQA that exists, `prependLdLibraryPathIfDir` reads
`LD_LIBRARY_PATH` (`Read`) and sets it (`Write`); other threads act between the two.
`getenv` next to `setenv` is modelled as returning the old value or the new one.
`Resolve` is the search for the registry file: the configured path, or the first
of `$STORE`, the project and the current directory with a file, or `$HOME`. It is
repeated at each reading, while CUNQA writes its file and files of others appear.
Paths are places or directories of small sets, and what the search for the build
directory and the compiler finds is the constant `Dirs`. The inherited value is
any sequence, with duplicates too: `add_ld_path` of `run.sh` (lines 50-63) puts a
directory in front without looking for it.

### Launcher: run.sh

`Launcher.tla` follows launches of `run.sh` from line 122: the test for the
registry file and its creation, the second that names the directory, the header
that truncates the log, the lines that the launch and the program append. The
header is one step; a program's virtual QPUs register at any time of its run.

### The proof modules

`QuantumMPI_proofs`, `Programs_proofs` (with those of `CunqaApi`),
`CircuitTransform_proofs`, `QubitMapping_proofs` (with those of `QubitLayout`),
`QftProgram_proofs` (with those of `DistributedQft`), `Examples_proofs`,
`Environment_proofs` and `Launcher_proofs` have the theorems of section 4. The `MC`
modules give constants their values for TLC.

## 3. Runs

All bounds are constants of the configurations. `MaxCalls` bounds the calls of
one rank (in `transform`, of the program), `MaxOutput` and `MaxTime` the lines of
a program and the seconds of the clock. Deadlock is not checked: ranks and
launches stop at their bounds, and calls of `run`, loops and circuits end.

| Run | Instance | Checks |
|---|---|---|
| `mailbox` | 2 ranks; all calls but `reduce`, with `finalize`, a new life and a destruction without `finalize`; 3 calls each | `NoStaleMail`, `WorldReclaimed`, `ImplementsFifo` |
| `collectives` | 3 ranks, root 1, `bcast` and `reduce` of numbers and texts, `finalize`; 2 calls each | `TypeOK`, `BcastAligned`, `ReduceAligned`, `ReduceComplete`, `CallsReturn` |
| `reduce_retry` | 3 ranks, `reduce` twice | violates `ReduceOneRound` |
| `bcast_tag_clash` | 2 ranks, `send` and `bcast` | violates `BcastReturnsBroadcast` |
| `shared_family` | 2 runs of one family with 2 circuits and 1; file absent or odd at first; the entries of the second without endpoints; jobs ended at any point | `TypeOK`, `NoLeak`, `AllOrNothing`, `RunsEnd` |
| `programs` | 2 processes, 3 plans: a baseline and a target; a baseline and `run_circuit` in a world of 2, next to `simple_telegate` (one of its circuits) in a family of its own; a program of one circuit twice in one family. The entry of the baseline without a family. Each process killed, each command reported as failed, each job ended, at any point | `OwnDeployment`, `LostForCause`, `ExitMeansDone`, `CleanBetween`, `OrphanHasCause`, `RestartRecovers` |
| `transform` | 3 circuits of one qubit with ids of their own, one id twice, or one without; any 2 of 22 calls and the other methods; 6 arguments of `run` | `TalksToNamed`, `DeclaresTargets`, `RefusedForCause`, `CommunicatesDynamically`, `ControlsApart` |
| `qft` | the mapping for all 55 pairs up to 10 qubits; the circuits of 6 qubits on 4 ranks | `FillsVector`, `PlacesQubits`, `NoCircularWait`, `RightControl`, `QftOrder` |
| `examples` | `distributed_qft` with 5 qubits on 3 ranks; `simple_telegate` | `ExamplesAccepted`, `AppliesItsGate`, `OneGoesOn`, `ExamplesEnd`, `ImplementsQft` |
| `environment` | 2 threads, 3 directories; a directory of the user set before, alone or between two copies of one of the three; CUNQA's file and files of others in 4 places; a configured path or none | `NoDirTwice`, `InheritedKept`, `CompleteWhenAlone`, `FoundUnlessHidden` |
| `launches` | 3 launches of 2 programs in 2 seconds, with and without a registry file | `LogsApart`, `RegistryKept` |
| `twins` | 2 launches of one program | violates `LogComplete` |

Why the bounds are enough to be interesting. Three ranks are the fewest for
which the loop of a root has an inside (two iterations with another rank's step
between them), and the middle one as the root makes the loop skip the root
itself between two peers; two calls per rank make a failed collective and its
retry. With two ranks, three calls make two sends and a receive, or a send, a
`finalize()` and a new life; a `send` and a `bcast` are two channels between the
same ranks. Two circuits per run are the fewest for which a result can come out
of order and a file can hold a part of a deployment. Two runs in one family let
each meet the deployment of the other pending, registered, or half gone, alive
or left behind by a process that was killed; two calls in a plan are the fewest
that follow one another. The entry of the baseline, without a family, is one that
the target or `simple_telegate` can take; that entries without an endpoint are of
the second run only leaves both outcomes to each run. Two calls of the builder build a pair of partners, or leave a half-done
call behind before a good one. Six qubits on four ranks give registers of two and
of one qubit, and two ranks between the ends of the longest rotation; five on
three do the same for the code around them. With two threads and three
directories one thread can lose each of the updates of the other, and a thread
can be alone, begin alone, or end alone. A world of one rank, where `bcast` and
`reduce` return at once, is in the theorems, and in `programs` as the baseline.

Fairness. In `QuantumMPI` only the steps inside a loop are fair: a thread that
is in a call goes on, and no caller has to make another call; `CallsReturn` says
that each rank is outside of a call again and again. In `CunqaApi` the
steps of the thread, the passing of time and the computation of a result are
weakly fair; Slurm, the registration and the end of a write are not, and no
exception need occur. `RunsEnd` holds although the job may never start, because
the endpoint timeout is then reached. It names the one wait that may not end:
`recv_results` has no limit, and the virtual QPU that it waits for may have been
dropped by another run of its family or have used up its wall time, which can
happen to a run alone in its family too (`LostForCause` says that nothing else ends
a virtual QPU). That one computes its result while its job lasts is an assumption
on CUNQA. In `Examples` the program and each virtual QPU are weakly fair: both are
single threads that wait only for what their guards name. In `Environment` a thread in `run` goes on, and the file is
not fair: a run that waits finds CUNQA's file if that appears. The endpoint
timeout, which may end the wait first, is in `CunqaApi`. The other modules have
safety properties only; `NoCircularWait` is one, as it says that some step is
possible.

### Findings

* `reduce_retry`. The root's loop in `reduce` takes contributions out of the
  mailbox one by one and throws when one is missing. What it has taken is lost,
  so that a second attempt combines the second contribution of one rank with
  the first of another. `ReduceAligned` says exactly when the rounds agree: on
  channels where nothing was sent and thrown away.
* `bcast_tag_clash`. `bcast` uses tag 0, the default tag of `send`, and so
  returns an earlier point-to-point message of the root. `BcastAligned` says
  that the rounds agree when callers leave that tag alone.
* `twins`. Two launches of one program in one second have one directory; the
  header of the second truncates the log, and the output that the first program
  has written by then is gone, which `README.md:85` excludes. `LogsApart` says
  that nothing else mixes or loses logs.

Less than a finding, but worth knowing: a call of `addInstruction` that returns 4
may leave ids in `sending_to` (`DeclaresTargets`, `RefusedForCause`); two circuits
of one id are both told the virtual QPU of the later one (`TalksToNamed`, whose
last part needs distinct ids); negative indices are accepted and mean exposed
qubits to the virtual QPU (`ControlsApart`); two first launches may wipe the
registry file (`RegistryKept`); two runs that overlap may leave a directory out of
`LD_LIBRARY_PATH` until a later run puts it back (`CompleteWhenAlone`, which claims
it for a run that was alone); a file in an earlier place, or one configured and not
CUNQA's, hides the registry from every run (`FoundUnlessHidden`); a `qraise` that is
reported as failed is believed, and what it may have raised is not dropped
(`NoLeak`, `OrphanHasCause`); `run_circuit` works in a world of one rank only
(`ExitMeansDone`). No text of the repository promises otherwise.

## 4. Theorems

`QuantumMPI_proofs.tla`, for every number of ranks, tags, roots, forms,
operations and calls:

* `TypeCorrect`: `Spec => []TypeOK`. The only conjunct that is not routine is
  the range of `cursor`: the loops visit ranks below `Size` other than their
  own, which `LastPeer` and `NextPeer` keep.
* `NoStaleMailHolds`, `WorldReclaimedHolds`: by the inductive invariant
  `MailInv`. It adds that a finalize lies in the past (`HorizonPast`), that only
  an initialized rank is inside a loop (`LoopInitialized`: otherwise a rank that
  has finalized could go on pushing), and that each message has a sender whose
  `finalize()` will erase it (`MailHasOwner`: it makes the mailbox empty, and
  so the key go, when the last rank leaves).
* `ReduceCompleteHolds`: by the inductive invariant `LoopInv`. It adds that a
  message carries the rank that sent it (`SenderNamed`) and that the root in its
  loop has one number of itself and of each rank before the cursor
  (`ReduceLoop`).
* `ReduceAlignedHolds`, `BcastAlignedHolds`: by the inductive invariants
  `ReduceRounds` and `BcastRounds`. On a channel where nothing was thrown away
  and that callers leave alone, what lies in the mailbox is, in the order of
  arrival, the calls after the last one taken up to the last one made
  (`ReduceOrder`, `BcastOrder`, by `Consecutive`), so that a receiver takes the
  next round, and what a loop holds is of the round it will complete
  (`ReduceRound`, `BcastRound`). A root counts its `bcast` at the end of its loop,
  and `reduce` at the end of its own: `Broadcast` and `Combined` count the round in
  progress for the peers that the loop has passed.
* `ImplementsFifoHolds`: `Spec => ImplementsFifo`. Each step of the code leaves the
  mailbox, pushes to one channel, takes the first message of one, or erases all of
  a rank's (`MailboxSteps`), and maps to a stutter, `Put`, `Take` or `Clear`. The
  mapping numbers the messages of a channel by how many have arrived up to each;
  `NthInverse` shows that these are the numbers from 1 to their count, as the
  vector is finite and no two messages arrive at once (`MailboxOrdered`).

`Programs_proofs.tla`, for every set of runs, families and widths of `CunqaApi`:

* `TypeCorrect`: `Spec => []TypeOK`.
* `NoLeakHolds`: a live deployment has a run that will drop it (`LiveHasRun`).
* `OwnDeploymentHolds`: by the inductive invariant `OwnInv`. It adds that an entry
  belongs to a deployment that has been up and that no two entries are of one
  virtual QPU (`EntriesSound`), and that a run raises once (`RaisesOnce`).
* `AllOrNothingHolds`: by `ResultsInv`. It adds that the results at hand are
  those of the first circuits, in their order (`ResultsSound`).

and for every set of processes, plans, families, widths and sizes of worlds.
`ProgramsImplement` shows that each step of the programs is a
step of `CunqaApi` or leaves it alone, from which `NoLeakInPrograms` and
`AllOrNothingInPrograms` follow. The rest is by the inductive invariant
`ProgramsInv`, with what was shown of single runs:

* `CleanBetweenHolds`, `ExitMeansDoneHolds`: a process has had status 0 from each
  call before the present one (`InTurn`), a run with status 0 has had its last
  `qdrop` succeed and all of its results, and what was called was admitted
  (`BegunAdmitted`).
* `OrphanHasCauseHolds`: a process that ends of itself does so between calls
  (`EndsBetween`), so that only a kill leaves a run in the middle.
* `RestartRecoversHolds`: what was left in the family before a run began belongs
  to calls that are over (`InheritedOver`), and so raise nothing any more; the
  run's own `qdrop` has taken all of it, whatever became of it before.
* `LostForCauseHolds`: by two further inductive invariants. What has ended was ended
  by a run of its family or without a run, and each `qdrop` ends deployments of the
  family only (`EndedSound`). Once a run has raised, the file has no entry of what it
  dropped before its retry, and gets none, so that it uses none (`UsesStanding`, by
  the assumption on `qraise` and, as what has ended registers nothing, `PollsClear`).

`CircuitTransform_proofs.tla`, for every set of objects, ids, calls and arguments
of `run`: `TalksToNamedHolds`, `CommunicatesDynamicallyHolds` and
`ControlsApartHolds`, by the inductive invariant `TransformInv`. It says that what
`run` holds is well formed, its flag up to date (`BatchFormed`), and that what
was sent is the transformation, without an error, of a first part of the batch
(`SentTransformed`); building does not disturb it because `run` has copies.
`DeclaresTargetsHolds` and `RefusedForCauseHolds` need `TargetsInv` as well: the
ids in `sending_to` are those of the instructions that send, or of a call that was
given up half way, for the objects (`ObjectsDeclare`) and for the copies
(`BatchDeclares`). A circuit with an unknown target then has an instruction with
one, and the validation refuses nothing that the shim has made (`LacksQpus`).

`QubitMapping_proofs.tla`, for every accepted number of qubits and ranks:
`QubitHasPlace`. The ranks divide the qubits into consecutive intervals, none of
them empty; where a statement needs induction on the ranks the proof takes a
least counterexample instead. `PartitionSums`: the sum of the partition, which the
model computes by a recursive function, is the number of qubits (the function
exists, as the closed form satisfies its equation, and a least counterexample shows
that it has no other value). `FillsVectorHolds` and `PlacesQubitsHolds`, by
`MappingInv`, which ties the indices of the loops to the closed form (`LoopsAgree`).

`QftProgram_proofs.tla`, for every accepted number of qubits and ranks and
every interleaving, by the inductive invariant `QftInv`: each virtual QPU has run
a first part of its circuit (`RanFirst`), the two sides of a remote gate end
together (`SidesAgree`), and what was applied is what was run.

* `NoCircularWaitHolds`: the earliest gate, in the order of the loops, that is
  not finished is the next one of every circuit that it is in, so that it can
  run, be exposed, or be controlled.
* `RightControlHolds`: an `expose` and an `rcontrol` that meet are the same gate,
  as each is the earliest unfinished one of those that the two circuits share.
* `QftOrderHolds`: of two gates on one qubit that do not commute, the earlier is
  in a circuit with the later one.
* `ProgramImplementsParts`: a run of the program is one of `build_global_mapping`
  and one of the circuits, so that the theorems on each hold of the program.

`Examples_proofs.tla`, for every accepted number of qubits and ranks and all ids
that tell the circuits apart, as those of the sources do (`ExampleAssumption`; two
circuits of one id would share a virtual QPU). `NamesAssumption` says that the names
of the gates are strings, which TLC evaluates and the provers cannot know.

* `ExamplesAcceptedHolds`, by `ExamplesInv`. Each call of `ProgramCalls` is good: its
  indices lie in the registers, and a remote gate relates to a circuit of the
  program (`CallsGood`, by `PlacesQubits` and by `FlattenInduction`, an induction on
  the sequences of calls by a least counterexample). So all that the objects hold,
  and the batch after them, relates to circuits of the run (`ObjectsSendable`,
  `BatchSendable`), and no cause of a refusal is left (`RefusalCause`). The builder
  and the transformation bring their own invariants, `TransformInv` and
  `TargetsInv`, which are proved of any program (`AnyNext`), this one among them
  (`ProgramIsAny`).
* `ImplementsQftHolds`, by `ExecutionInv` on top of it. The sequence of calls has,
  for each gate of the algorithm, one call on each circuit that has one of its
  qubits, in the order of the loops (`CallsPerform`, by an induction on the loops);
  the circuits keep both, call by call (`MeantBuilt`, `Follows`), `run` holds the
  circuits as they were at the end (`RunBuilt`), and a virtual QPU that waits is at
  an `expose` (`QpusInCircuits`). So the next instruction of a virtual QPU is its
  side of the earliest gate it has not finished (`NextGate`, `NextOfRank`), and each
  of its steps is one of `DistributedQft` (`LocalImplements`, `ExposeImplements`,
  `MeetingImplements`); until a circuit is sent nothing has run
  (`BuildingImplements`).
* `AppliesItsGateHolds`: the name and the target by `AppliedToTarget`, as an index of
  a register is that of one qubit (`QubitIsAt`); the control, which comes from
  another virtual QPU, by the refinement and `RightControlHolds` (`QftProofs`, the
  instance of the proofs of `QftProgram` for this state).
* `ProgramsInQftOrder`: by the refinement, `QftOrderHolds` is about what is sent.
* `OneGoesOnHolds`: a refinement allows to stop, so that `NoCircularWaitHolds` alone
  does not say it. Once all is sent (`SentAll`), the gate that `DistributedQft` names
  next is that of the virtual QPU (`RankIsAt`), and its instructions and ids fit the
  partner's (`SidesCanMeet`). For `simple_telegate`, both virtual QPUs end their
  remote gate together (`EndTogether`).

`Environment_proofs.tla`, for every set of threads, directories and values of
`LD_LIBRARY_PATH`, by the inductive invariant `PathInv`:

* `NoDirTwiceHolds`: each value that a thread has read, and may write back later,
  is the inherited one with directories before it that are distinct and were not in
  it (`EachDirOnce`).
* `CompleteWhenAloneHolds`: while a thread is alone, what it has read is current and
  what it has done is kept (`AloneSoFar`); afterwards each value that anybody has
  read has all directories, so that no update is lost (`AloneToTheEnd`).
* `InheritedKeptHolds`: what a thread writes ends with what it read (`Kept`).

`Launcher_proofs.tla`, for every set of launches, targets and bounds:

* `RegistryKeptHolds`: by `RegistryInv`. Nobody registers before there is a file
  (`FileFirst`, `RegisteredLate`), and once there is one, a launch that is still
  about to create it is not the only one that found none (`SomeCreated`).
* `LogsApartHolds`: by `LogsInv`. A log has lines only if a launch with its directory
  has begun (`LogsOwned`), and a launch writes nothing before its header
  (`NothingYet`): the header of a launch alone in its directory truncates nothing.

The proofs rest on the named assumptions of the modules, which TLC evaluates in
every run.

Only model-checked: the liveness properties `CallsReturn`, `RunsEnd`,
`ExamplesEnd` and `FoundUnlessHidden` (fairness is out of the prover's reach).

## 5. Not modelled

* `barrier()` promises nothing in the code beyond its check: it returns at once,
  and the model says so. No property is stated of it.
* The text of commands, errors, logs and JSON; the defaults that the
  transformation gives to `config`; the string helpers of `lib/utils`, and the
  making of a unique family name (both outcomes, shared and not shared, are
  instances of `FamilyOf`).
* Where the directories of CUNQA and of the compiler come from (a variable or a
  path that was compiled in): a chain of defaults without state.
* The arithmetic of `reduce`, the angles of the rotations, the command line and the
  accuracy measure of `distributed_qft`: numbers that are printed.
* The checks of `run.sh` before line 122, and the link `run/latest`.
* `cunqa_client_logger.cpp`: one logger made under `std::call_once`, whose guarantee
  is the library's and on which no state of the system depends.
* `configure.sh` and CMake: they build, and keep no state at run time.

## 6. Plan

Done: the mailbox with its refinement; `CunqaApi`, alone and called by programs
that are killed and started again; the builder, the transformation and the
execution of what arrives; the distributed QFT with its refinement; the
environment; the launcher; and the proofs of section 4, of every safety property
that the runs check. Liveness stays with TLC.
