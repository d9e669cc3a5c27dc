# A verification development for midge-destroyer

midge-destroyer runs seeded workloads against the Midge storage engine in worker
processes, stops those workers on purpose, and judges from what they reported and
from what the database holds afterwards whether the engine kept its promises. Its
verdict is only worth as much as its own control logic: where a worker resumes,
which fault counts as struck, what a failed verification means. That logic is what
these TLA+ modules model, check with TLC and, in part, prove with TLAPS.

Paths below are relative to the repository (`src/runner.rs` is the Rust file in the
crate's `src` directory).

## 1. Inventory

| Part | Source | State it keeps | Operations |
| --- | --- | --- | --- |
| Scenario controller | `src/runner.rs` | resume point, faults not yet injected, pending recovery, reports kept, recovery events, report flags, deadlines | start a worker, poll it, kill it, reap it, retry a fenced one, strike a fault, retry after a failure, give up, verify, conclude |
| Worker process | `src/bin/worker.rs` | position in the plan, outcomes not yet reported, keys not yet verified | open the engine, publish readiness, execute a chunk (four executors), report, crash or interrupt on request, verify, shut down |
| Ledger | `src/ledger.rs` | a classification per planned operation | two passes over the reports, settling the rest |
| Catalog, plan | `src/scenario.rs` | none (derived from name, seed and scale) | select scenarios, generate operations, place faults |
| Report | `src/report.rs` | none | grade a recovery, derive the verdict, mark an infrastructure error |
| Budget | `src/config.rs`, `lease_durations` in `src/bin/worker.rs` | none | derive the deadlines of a recovery; open the engine with the same durations |
| Worker protocol | `src/worker_protocol.rs` | report, readiness, progress and lifecycle files | append, replace |
| Fault injection | `apply_fault` in `src/runner.rs`, `src/failpoint.rs` | files of the database, sentinels | damage, mark, arm a failpoint |
| Run, suite, frontier | `run_scenario`, `run_suite`, `run_frontier` in `src/runner.rs` | reports so far, scenario reports on disk, first wobble, bend and break | run scenarios in sequence with the emulator around them, skip, override, escalate scales, write the manifest |
| Emulator | `src/emulator.rs` | teardown guard, endpoint; the compose project | start, probe, capture, tear down |
| Command line, scripts | `src/cli.rs`, `src/main.rs`, `scripts/` | none | parse, print, plan CI campaigns |
| Midge engine | external crate | values, writer lease, acquisition lock file | open, transactions, snapshots, flush, compaction, shutdown |

Controller and worker share no memory. The controller passes a command file and
triggers (`--crash-on-step`, `--crash-after-step`, `--interrupt-on-step`), and sees
the exit status, the report file (one synced line per outcome), the readiness
artifact, and a lifecycle file with the error, if any. It can kill the worker. The
database directory is the only thing successive workers share, and the engine
guards it with a writer lease that outlives a dead holder and a lock file a worker
holds while it acquires the lease.

What is hard here:

* a worker can die between any two of: commit, report line, next report line,
  readiness, exit; the controller must resume without skipping an operation;
* one pending recovery, four retry paths, three deadlines, and a clock that keeps
  running; every fault must be graded once and every path must end;
* the crash thread of a snapshot chunk is detached and may fire anywhere later;
* operations are replayed, so reports repeat and contradict each other, and
  verification reports of several workers follow one another;
* two programs keep separate tables of lease durations;
* a failpoint is armed through a file that is consumed before it takes effect, by a
  process that may die in between;
* the emulator can fail before, during and after a scenario, or at any step of its own
  start; somebody has to be charged for it, and somebody has to take it down;
* plans are made by arithmetic on scales, with a short last chunk, and two lanes
  that run concurrently must never draw each other's keys.

`PROJECT.json` lists the hazards with the line where each bites.

What makes each part correct: the *ledger* says nothing the reports do not back;
the *controller* skips no operation, drops no fault, starts no worker against a
dead worker's lock, always ends, and passes only a database that holds the plan's
final state; the *budget* never charges the engine for a wait that fencing makes
mandatory; a *plan* is one that controller and worker can run, has all the faults
its scenario asks for, and lanes that never meet; a *command* reports everything it
had to do once, tells the same story on disk and in its manifest, charges the engine
with nothing an outage it can see explains, leaves no container behind, and returns.

## 2. Modules

| Module | What it is |
| --- | --- |
| `LedgerRules` | what one report does to one classification; shared by the next module and the controller |
| `Ledger` | the classification as a machine that reads arbitrary reports one by one |
| `LedgerProofs` | its type invariant and safety properties, proved |
| `RecoveryRules` | `RecoveryEvent::recovered` and `classify_verdict` |
| `WorkloadPlan` | plans, chunks, transactions, expectations, `next_worker_start` |
| `WorkerProcess` | `run_engine` and the engine under it |
| `ScenarioRun` | `run_scenario_at` and `run_worker`, composed with the worker |
| `ScenarioCatalog` | the scenarios, where each may run, its workload and its faults; shared by the next module and `SuiteRun` |
| `PlanGeneration` | `Scenario::new` and `DeterministicPlan::from_seed`, operation by operation; an instance of `WorkloadPlan` says what they must yield |
| `PlanGenerationProofs` | every invariant of `PlanGeneration`, proved |
| `Emulator` | `EmulatorController` and the container it starts |
| `SuiteRun` | `run_scenario`, `run_suite` and `run_frontier`, composed with the emulator |
| `SuiteRunProofs` | its type invariant and safety properties, proved |
| `MCSuiteRun`, `MCPlanGeneration` | command lines, and scenarios with scales, for TLC |
| `FaultRecovery` | the abstract promise about faults, which `ScenarioRun` implements |
| `MCScenarioRun` | small plans and fault schedules for TLC |
| `ScenarioTypeProofs` | `TypeOK` of the composed controller and worker, proved; the other three build on it |
| `ScenarioFaultProofs` | locks, faults, failpoints, grades, resume points and the refinement of `FaultRecovery`, proved |
| `ScenarioRunProofs` | how the ledger reads the reports, `VerifiedMeansChecked` and `PassMeansStruck`, proved |
| `ScenarioVerdictProofs` | what a verdict says of the operations and of the database: `CompleteRunAllAcked` and `PassMeansDurable`, proved |
| `LeaseTakeover`, `LeaseTakeoverProofs` | budget against fence, checked and proved |

### Ledger

`pass` is the loop of `classify_reports_with_unobserved` that is running,
`entries` the classifications, `identities` the local map
`mutation_identities`. `ReadMutationReport`, `ReadVerificationReport` and
`SettleUnobserved` are the loop bodies; a report may name an id outside the plan,
which changes the identity map and no entry, as in the code. `acked`,
`conflicted`, `heard` and `lastCheck` are history variables that only the
properties read. The code filters one list of reports twice; as the first pass
only reads mutation reports and the second only verification reports, the model
enumerates them in that order.

### Plan

A plan maps 0..NumOps-1 to `[key, action, lane, batch]`; the sequence number of an
operation is its index and the value it writes is its index too, so values are
distinct as the generated ones are. A key stands for a (column family, key) pair.
`Noop` is never generated and is left out, and so is the `durable` flag: a
recovery that drops an acknowledged write shows as a lost value whatever the flag
says. `WellFormed` states what a plan looks like: batches are contiguous, faults sit
at chunk boundaries except in pointwise plans, the acknowledged window is only placed
at the last put on a key, lanes of a chunk write disjoint keys. The kinds with a batch
and a trickle lane are one kind, `Mixed`; the lanes of a hot and cold plan are its
column families, by which its executor splits a chunk. `Failpoint` stands for the
classes of the failpoint tier and `ForcedReopen` for every other class whose boundary
is a graceful interrupt; what such a class then does to the database is the engine's
trouble.

`ScenarioRun` *assumes* `WellFormed` of its plan; `PlanGeneration` *checks* it of what
the generators make (`GeneratedPlanIsWellFormed`, through `Generated == INSTANCE
WorkloadPlan`). Its state is the plan so far and the two `live` vectors of
`mixed_lsm_operations`; one action emits one operation. The seed enters where it makes
a difference: `offset` is its remainder modulo 15, and an index drawn from it may be
any. A made-up key is the number of the operation that made it up (keys of the two
lanes come from different hash domains), any other key its slot. The scales of
`RunScale` are the constant `Requests`, and the factors 16 and 32 the constants
`OpsFactor` and `ChunkFactor`, so that TLC can use small ones. `RoomAssumption` is what
the table of `RunScale` (`config.rs:95-113`) has to do with faults: more than eight
operations, or more than one chunk, for every unit of concurrency. It holds of its four
rows by far, and of the requests of the run by little.

### Worker

One record, `worker`, holds the process: its phase, its index, the transactions of
the chunk that have not committed, the operations the engine refused, the outcomes
not yet in the report file, the keys not yet verified, whether a crash thread is
running, and what it left (readiness, exit code, whether its error names the
lease). Each commit, report line, verification read and exit is a step, so that
kills and crashes fall between any two. The lanes of a mixed chunk commit in any
order, the trickle lane in its own order. `Abort` is any unrequested exit: a panic,
an engine error outside a transaction, an unwritable artifact. `FailTransaction` is
an engine error inside one; the engine may have applied the transaction all the
same. `MaxTrouble` bounds how often either happens in a run, together with stalls,
failed fault injections, failed shutdowns, lost values (`MayLose`) and wrong answers
(`MayMisread`). A report line cut short by a kill is dropped by
`read_report_lines`, so it is a line that was not written.

A failpoint is a file, `sentinel`, that `apply_fault` writes and the next worker reads
and removes (`TakeSentinel`) before it configures the failpoint
(`ConfigureFailpoint`); it can be killed in between, and then the failpoint is lost.
While one is configured the engine errs and panics as often as it likes, at no price.

Exit status 1 is only produced by a requested crash and 3 only by a requested
interrupt, so the controller's branch for a worker that "stopped without an
expected fault trigger" cannot be reached and is not modelled.

### Controller

`pc` is the place in `run_scenario_at`: `Launch` and `Poll` are `run_worker`,
`Settle` is what follows it, `LoopExit` the code between main loop and verifier,
`Conclude` the end. `mode` tells the main loop from the verifier's. The actions on
`Settle` are the arms of `match status`, with the fenced retry that precedes them.
`Settled` is what every attempt does first (lock cleanup, recorded readiness).
Time is `age`, the ticks since the pending recovery began, and `late`, whether the
observation deadline of the current loop has passed. The no-progress watchdog may
fire at any moment (`KillStalled`), at the price of a unit of trouble. The numbers
the report only prints (attempts, contention) are left out. An error of the
controller's own file operations ends the run without a verdict and is left out.

### Abstract specification

`FaultRecovery` sees of each fault only whether it is planned, open, or how it was
graded. `ScenarioRun` refines it: `FaultView` computes that view from the events
and the pending recovery, and has no image for a fault with two events or with an
event and an open recovery.

### Commands and the emulator

`Emulator` takes `ensure_ready` apart: `step` says which of its calls is next,
`guarded` whether `teardown` is `Some`, `resolved` whether `endpoints` is. `project`
is docker's side: no container, one that is healthy or sick, or one that exited.
Dropping the teardown is `compose down`, which may fail (`leaked`). Everything that goes
wrong outside the program - a compose command, a container, a file that cannot be
written - spends one of `MaxOutages`; a sick container recovers for nothing.

`SuiteRun` is the loop around a scenario for all three commands, which differ in
guards: `todo` holds what the loops have yet to visit, in order, `results` the reports
that go into the manifest, `onDisk` the verdict in each `scenario-report.json`. A
scenario is one step, with any verdict (what happens inside is `ScenarioRun`);
`disturbed`, `atFault` and `unfinished` are history and say what really happened
during it, for `VerdictIsCharged`. Returning drops the controller.

### Lease takeover

`LeaseTakeover` puts the controller's table (`config.rs`) and the worker's
(`lease_durations`) side by side. Ticks are 500 ms, the pause between fenced
attempts; all durations in both tables are multiples of it.

## 3. Runs

Bounds common to the `ScenarioRun` runs: warning = soft = 1 tick, hard = 2, clock up
to 3, so every grade can happen and the clock can stand before, at and behind the
hard deadline. Three to six operations are the least that show an overwritten
key, a delete, an operation before, at and after a fault, and two or three chunks
with two lanes. `CHECK_DEADLOCK FALSE` is set because a run ends.

| Run | Question | Bound that matters |
| --- | --- | --- |
| `ledger_classification` | does every classification follow from the reports? | three ids of which two are planned, two identities, unbounded reports |
| `takeover_grades` | does the budget charge for fencing? | all profiles and backends; timeouts 0, 60 s and 120 s, below, between and above the derived deadlines |
| `pointwise` | kill, then acknowledged window: anything skipped, dodged, locked out, endless? | 2 troubles; errors may name the lease |
| `ackwindow` | failpoint, then acknowledged window at the end of the plan: failpoint fired once and in its own recovery, all accounted for, each fault graded once and by the attempt that completed its recovery? | 2 troubles, and any number of errors and panics behind the failpoint; no error after readiness names the lease |
| `mixed` | lanes in any interleaving, kill in the second chunk, a transaction that puts and deletes one key | 2 troubles, 6 operations |
| `snapshot` | detached crash thread that fires late, under an engine that loses values | 3 chunks, so that a whole chunk lies behind the one cut |
| `hotcold` | chunk resumed without its cold lane; engine that loses values and misreads | 2 chunks, 2 troubles: a loss and a failed verifier together |
| `suite` | what do the commands report, charge, leave behind? do they return? | 17 command lines over three scenarios (local only, any backend, cloud with failpoints) and a name outside the catalog; 2 outages; 2 scales and 2 seeds for a frontier, so that there is a scale behind a break and an item after the first of its kind |
| `plan` | is every generated plan one the runner can run, with all its faults? | every scenario; chunks of 5 and 10 operations in place of 32 and more; plans that end in a whole and in half a chunk |

Two outages are one that interrupts something and one that hits what the program does
about it. The factors of `plan` keep what makes 16 and 32 delicate: a chunk is at least
as long as the five operations among which one is cold, and a plan may end within a
chunk. With 25 operations on random keys the run sees overwrites in both lanes and
deletes in the batch lane; a delete in the trickle lane first occurs at operation 34,
and real scales are beyond TLC altogether: for both, all the invariants are proved.

Two units of trouble are what the interesting failures take: one to leave the
planned path and one to fail on the way back. A transaction-history chunk is one
transaction, as a snapshot chunk is, and has no run of its own. `PassMeansStruck` is not claimed for
snapshot plans: their crash thread sleeps 2 ms and is detached, so that nothing but
timing makes it fire before the worker has finished.

### Disagreements found

Three runs expect a violation; each checks one sentence of the repository.

* `midchunk` - the assertion at `src/runner.rs:2314`. A worker killed between two
  report lines leaves a resume point inside a chunk. The run still ends
  (`Terminates`) and skips nothing (`NoSkippedOperation`), but a mixed chunk without
  its batch lane is refused by every retry until the hard deadline: a break the
  engine did not earn.
* `masked` - `docs/lease-profiles.md:17`. A mismatch found by one verifier is erased
  by the next one that finds the value. Keys that should be absent emit no
  verification report, so for deletes the first answer stays.
* `unverified` - `docs/contract.md:23`. A worker that acknowledged everything and
  then never finished its final verification passes when no recovery was open, and
  in a scenario without faults `recovery_verified` is reported true.

Six more have no run:

* `docs/contract.md:17` and `:23`: recovery preserves what was acknowledged, and `pass`
  means that safety holds. The operation of an acknowledged window has no mutation
  report. A segment behind it may read its value back, report it, and then be cut short;
  the verifier of the incomplete run is held to mutation reports only
  (`runner.rs:1197`, from 434), so a value the engine loses at that verifier's open is
  not looked for, while the verification report keeps the ledger entry acknowledged, and
  the run passes. `PassMeansDurable` excepts this case, and only this one: without the
  exception TLC finds it with two puts on two keys and a window at the first.

* The assertion at `src/runner.rs:1777`: "recovery is not complete until the ready worker
  reaches a stable boundary". A worker that becomes ready and then ends with an error
  that names the lease is retried (`runner.rs:301` and, for a verifier, `:490`) without
  `reset_unstable_recovery_readiness`, and `record_ready_recovery` keeps the first
  readiness: the recovery is then graded by the latency of the attempt that failed.
  `GradedByCompletingAttempt` is therefore claimed where no error after readiness names
  the lease; with `MayReportHeld = TRUE` in `ScenarioRun_ackwindow.cfg`, TLC finds it
  violated. The text the controller looks for, "Writer lease held", is the refusal of an
  acquisition, which comes before readiness, so this takes an engine that uses it later.
* `docs/contract.md:11`: `duplicate` means observed more than once. An identical replay
  is not a duplicate in the code, and its comment says so.
* `src/report.rs:176` and `docs/contract.md:12`, on `missing`: an operation of the
  acknowledged window whose verifier did not finish is reported as lost.
* `docs/contract.md:26`: `skipped` means that backend or feature does not make the
  scenario executable. A frontier over one named scenario does not ask
  `suite_scenarios`; where `validate_scenario` refuses it, the report is a break
  (`failure_report`). `SelectedIsExecutable` is therefore only claimed of suites and
  of frontiers over all scenarios.
* A failpoint lost with a worker that dies between removing its sentinel and
  configuring it, and an outage that heals before the probe, leave no trace in a report.

## 4. Fairness

Only the controller and the clock are fair. `WF(Controller)`: the controller is a
loop that polls every 25 ms and acts on what it sees, so an action that stays
enabled is taken. `WF(Tick)`, `WF(DeadlinePasses)`: time passes. Nothing is assumed
of the worker or the engine: it may hang in any state, which is why `Terminates`
needs the deadlines. `KillStalled` and `FaultNotApplied` are not fair: they are
adversity. `Terminates` holds although the fenced retry has no bound of its own:
its recovery's hard deadline ends it.

`SuiteRun` assumes `WF(CommandStep)`: a command is one sequential program, each of
whose calls returns; that a scenario returns is `Terminates`, and that the wait for the
emulator does is `StartupDeadline`, which is a step of the code. The container is not
fair: it may stay sick for ever.

## 5. What is proved

For every value of the constants, from the assumptions named in the modules:

* `LedgerProofs`, from `LedgerAssumption`: `TypeOK`, then `WarrantInv`, the
  inductive strengthening. None of the three safety properties is inductive: an
  entry is `Missing` because it *was* acknowledged, which the classification no
  longer shows. `WarrantInv` says of every entry, in every pass, what the history
  must have been for it to be what it is; `DuplicateTheorem`, `AckedTheorem` and
  `MissingTheorem` read their property off it. `AckSurvivesReplayTheorem` is an
  action property.
* `ScenarioTypeProofs`: `RunTypeCorrect`. The types alone are not inductive: the worker
  indexes the plan at `worker.index`, and the controller opens a recovery for
  `NextFault`. `RunInv` adds what the phase of a worker says of its position
  (`WorkerInv`), and that a worker stops as planned only in a segment that ends in a
  fault, and only after it showed readiness (`StopInv`), which is why the recovery from
  the fault before is complete when the next one is opened.
* `ScenarioFaultProofs`: `NoOrphanedLockTheorem`. `LockInv` adds that a lock file
  exists only while a settled attempt has yet to clean it, and that the status it
  is settled with is one that cleans: a live worker holds none, a dead one has left
  with a code the cleanup covers. `GradedByCompletingAttemptTheorem` assumes, as its run
  does, that errors after readiness do not name the lease (otherwise the code does not
  have the property: see "Disagreements found"); `ReadyInv` then says that no
  readiness of an earlier attempt is ever pending. `RecordInv` adds to `EveryFaultRecorded` that the faults
  remaining and those that struck are disjoint and that no step is on record twice;
  `SentinelInv` adds to `FailpointOfOpenRecovery` that no worker becomes ready, and so
  completes a recovery, before it has taken the sentinel. `FailpointFiresOnce` is an
  action property of it. `FaultProtocolTheorem` is the refinement: `FaultInitMapped` for
  the initial states, and one lemma for each kind of step that maps to a step of the
  abstract specification (`StrikeMapped`, `MisfireMapped`, `CompletionMapped`, and the
  verdict in `StepMapped`); every other step stutters.
  `NoSkippedOperationTheorem` is about where the run goes on after a fault. The report file is the only link
  between the position of a worker that is dead and the resume point the controller
  chooses. `ProgressInv` says that the file of a segment names the operations from its
  start on without a gap, which needs that a chunk reports in the order of its
  operations (`Position`), and that a worker that ended well or stopped as planned had
  acknowledged everything up to its end. The least refused operation of such a file is
  then the least that lacks an acknowledgement. An ack-kill window is a chunk by itself,
  so the controller may step over it alone.
* `ScenarioRunProofs`. The two passes of the ledger are recursive functions; what they
  leave is read off their intermediate classes, step by step along an interval of naturals
  (`IntervalInduction`): `AckedIsReported`, for instance, says that an entry is only
  acknowledged by a report that says so.
  `VerifiedMeansCheckedTheorem`: `CheckInv` says that a worker that verifies has found
  the keys it has read and that nothing writes meanwhile, and that a verifier reports on
  keys only, so that what it was held to is still what the run is held to after its
  reports were added. It assumes a plan with a fault: without any, `recovery_verified`
  starts as true (`runner.rs:226`) and stays so when the run is cut short, which the run
  `unverified` is about.
  `PassMeansStruckTheorem`: `StruckInv` says that nothing at or behind the first fault
  that has yet to strike is on report, neither in what the controller kept nor in the file
  of the running worker, and that no resume point is behind it: a worker reaches the
  fault only to stop there. A run that passes has a report of every operation
  (`PassInv`), so no fault is left. `NoSkippedOperation` keeps the resume point behind an
  ack-kill window from stepping over two operations. The hypothesis `NoSnapshotKill`
  excludes the plans whose crash thread is detached and can be outrun.
* `ScenarioVerdictProofs`: `CompleteRunAllAckedTheorem` and `PassMeansDurableTheorem`, both
  for every plan and without a hypothesis. `LoopInv` says how the controller came to where
  it is: the loop over the segments is left early only by a run that says so, and anything
  but one undisturbed worker brings a verifier. `WarrantInv` says that a verification only
  names an operation that was acknowledged or that a window covers, `ReadInv` that a
  worker that leaves well has read every key and that the last read has the last word.
  A run with a fault then passes on what its verifier read. A run without one passes on
  what its only worker wrote: `StoreInv` says that the database holds what was
  committed, which needs that the transactions of the lanes share a chunk out among
  them (`TransactionsShare`) and write one key only in the order in which it trickles
  through the plan (`CommitInOrder`, `CommitHolds`); `RereadInv` carries it to the
  verifier such a run may still have. The two cases meet in the verdict.
* `LeaseTakeoverProofs`, from `TakeoverAssumption`: `TablesAgree` (the two tables
  give the same mandatory wait for every profile and backend), `BudgetClearsFence`
  (for every requested timeout), and from them `FencingTheorem` and
  `NotGivenUpFencedTheorem`.
* `SuiteRunProofs`, from `SuiteAssumption` and `OutageAssumption`, for every catalog and
  command line and any list of scales and seeds. `NoLeakedProjectTheorem`: `TeardownInv`
  adds that a container is always somebody's to tear down, and that compose up is only
  about to run inside `ensure_ready` and with the teardown in place, so that no other step
  drops it there. The other theorems rest on what a command has to do: `SuiteReads` and
  `FrontierReads` say which scenario, scale and seed each item is, from what the nested
  loops flatten to (`FlattenLines`, `KeptPicks`), hence that items come in ascending scales
  (`ItemsAscend`), that none comes twice (`ItemsDiffer`) and that all that was selected fits
  the backend (`ItemsSelected`). `QueueInv` says that reports and what is left to do are the
  items, in order: no step but a report for the next item moves either (`TypeOKTheorem`).
  `PhaseInv` says what each phase may rely on: an item at hand, endpoints resolved, a report
  on disk. `FirstsInv` reads the clones of a frontier off the reports entered so far
  (`FrontierNamesFirstTheorem`); with it, `BreakInv` says that no report is from a larger
  scale than a break, so that a finished frontier has gone exactly to the end of the scale
  that broke (`EveryItemReportedTheorem`). `SkippedInv` carries what will be skipped from
  selection to the report (`SelectedIsExecutableTheorem`; that two filters of the code
  agree is `SelectionAgrees`). `ArtifactsInv` says that the file of every item reported has
  the verdict of its report, and `FaultInv` that the engine has broken a promise only in
  items that have a report or are at hand, and that a break that waits for its report has a
  cause; `CauseStep` gives the four reasons why a report is entered, and
  `VerdictIsChargedTheorem`, an action property, follows for each. These last two theorems
  assume that the seeds of a frontier differ. They do unless `seed_start.saturating_add`
  (`runner.rs:1394`) saturates. Two runs with one seed would then share the directories
  that `failure_report` and `infrastructure_report` name without the time, and
  the second such report would replace the first; the directory of a run that completes
  carries the time (`runner.rs:156`) and is its own. The model has one directory for each
  scenario, scale and seed, which is the same as long as the seeds differ.
* `PlanGenerationProofs`, for every scenario, seed and scale and for all factors that
  `GenerationAssumption` admits (a unit of operations of at least five, and a chunk
  factor that is a multiple of it, as 16 and 32 are). Four invariants carry the six
  theorems, each from `Init` and `Next`, most through one lemma on `Emit`:
  `LaneInv` says that a key that was made up tells the lane that made it up, and that
  other keys are the slot of their operation; that two operations of one chunk then have
  different slots is arithmetic (`ChunkMeetsSlotOnce`: a slot comes back after two
  chunks), and `LanesNeverMeetTheorem` follows.
  `ShapeInv` says which batch and lane an operation of a chunked workload has; that a
  chunk has room for both lanes (`RoomForBothLanes`) and a cold key is arithmetic again,
  and `ChunksAreExecutableTheorem` follows.
  `PlanInv` has the types, the keys and actions of a pointwise plan, and that faults are
  of the scenario's catalog and on its candidates (`TypeOKTheorem`). A candidate is where
  the worker looks (`PlacesAreLookedAt`, `CutsAreFinal`), a catalog has no class that its
  workload has no trigger for (`CatalogFitsWorkload`), and batches go up: with the other
  two invariants, `GeneratedPlanIsWellFormedTheorem`. It is what `ScenarioRun` assumes of
  its plan, so that no theorem of `ScenarioRun` rests on an assumption that a plan of
  this program does not meet.
  `LiveInv` says of every key, and not only of the live ones, whether it is live: then an
  operation decides on its own key alone (`EmitDecides`), and
  `LiveIsWhatSurvivesTheorem` follows; it needs `LaneInv`, for a key that one lane
  overwrites must not be live in the other.
  `EveryFaultPlacedTheorem` needs `RoomAssumption` too. Each workload has its reason why
  there is a place for every fault asked for: the multiples of eight, those of the chunk
  size, and, for the acknowledgement window, that of four operations in a row in the last
  round of keys one is a final put and durable (`RoomForCuts`).

Only model-checked: `Terminates` and `CommandReturns`. Liveness and `ENABLED` are beyond
the prover.

## 6. Not modelled, and why

* Key text, payloads and shuffles of the generators; report, evidence and artifact
  formats; `collect_reports`, which reads manifests and prints them. That made-up keys
  differ from one another is taken for granted (a 128-bit hash).
* Errors of the controller's own file operations inside a scenario, which end it without
  a verdict: `SuiteRun` has them as `RunnerFails`, `ScenarioRun` leaves them out. That
  the evidence file of a probe can be written is taken for granted.
* `write_readiness` as write and rename and the truncated tail of a report file: readers
  see an artifact or none, a line or none.
* What a failpoint does inside the engine, and what a damaged file does to it: external.
* `max_scenarios`, which cuts a suite's list short; `SuitePreset::Soak`, which selects as
  `Standard` does.
* `Ledger::classify` and `classify_after_timeout`, and `with_faults` and `append_fault`,
  which only tests call.
* The command line and the CI scripts: no state, or no part of the program.

## 7. Plan

Built, in this order: `LedgerRules`/`Ledger`, `RecoveryRules`, `WorkloadPlan`,
`WorkerProcess`, `ScenarioRun`, `FaultRecovery`, `LeaseTakeover` and their proofs;
then the failpoint sentinels and stable readiness in `ScenarioRun`, `ScenarioCatalog`,
`PlanGeneration`, `Emulator`, `SuiteRun` and their proofs;
then the proofs of types, faults, resume points, verification and verdicts of
`ScenarioRun`, and of what commands report and charge;
then the proofs of what plans are at every scale.

Left to prove: nothing that a run states as an invariant or an action property. Liveness
stays with TLC.
