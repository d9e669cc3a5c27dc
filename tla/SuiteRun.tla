------------------------------ MODULE SuiteRun ------------------------------
(***************************************************************************)
(* The commands run, suite and frontier (run_scenario, run_suite and       *)
(* run_frontier in src/src/runner.rs): scenarios one after the other, with *)
(* an emulator around them when the backend is a cloud protocol.  Whom is  *)
(* an interruption charged to: the engine, or the emulator?                *)
(*                                                                         *)
(* What happens inside a scenario is ScenarioRun; here it ends with any    *)
(* verdict, and with Break for a reason.  Artifacts that cannot be written *)
(* spend an outage, as compose failures do.                                *)
(***************************************************************************)
EXTENDS Emulator, ScenarioCatalog, SequencesExt

CONSTANTS
  Catalog,   \* the part of ScenarioCatalog on offer, in its order
  Commands,  \* the command lines to consider
  Scales,    \* the scales a frontier escalates over, up to its max_scale
  Seeds      \* the seeds of a frontier at each scale

Kinds == {"Run", "Suite", "Frontier"}
AllScenarios == "all"

\* name: the scenario asked for (Run, Frontier), or the preset (Suite);
\* failpoints: the binary has the failpoint-tier feature; cloudSmoke: the
\* environment asks for the Sqrzl tier.
Command == [kind : Kinds, backend : Backends, name : STRING,
            failpoints : BOOLEAN, cloudSmoke : BOOLEAN]

\* The scales of run_frontier are written down in ascending order.
ASSUME SuiteAssumption ==
  /\ Catalog \in Seq(Scenarios)
  /\ IsInjective(Catalog)
  /\ Commands \subseteq Command
  /\ Scales \in Seq(Nat) /\ Seeds \in Seq(Nat)
  /\ \A m, n \in DOMAIN Scales : m < n => Scales[m] < Scales[n]

VARIABLES
  command,   \* the command line
  pc,        \* where the command is
  todo,      \* the items its loops have yet to visit
  results,   \* reports so far: the item and its verdict
  onDisk,    \* the verdict in the scenario-report.json of an item
  first,     \* frontier: first wobble, bend and break, as cloned
  manifest,  \* the manifest of the command has been written
  failed,    \* the command returns an error
  disturbed, \* history: items during which the emulator was not healthy
  atFault,   \* history: items during which the engine broke a promise
  unfinished \* history: items whose runner gave up with an error

suiteVars == <<command, pc, todo, results, onDisk, first, manifest, failed,
               disturbed, atFault, unfinished>>
vars == <<suiteVars, emulatorVars>>

Graded == {"Pass", "Wobble", "Bend", "Break"}
SuiteVerdicts == Graded \cup {"InfrastructureError", "Skipped"}
None == [verdict |-> "None"]
Firsts == {"Wobble", "Bend", "Break"}

-----------------------------------------------------------------------------
(* What there is to do *)

\* for_backend: the Sqrzl facade runs inside the worker and needs no emulator.
Emulated == command.backend \notin {"Local", "Sqrzl"}

\* suite_scenarios.
Selected(scenario) ==
  /\ Includes(scenario, command.backend)
  /\ command.kind = "Suite" /\ command.name = "Smoke" => scenario \in Smoke
Available(scenario) == scenario \in FailpointTier => command.failpoints

\* The members of S in a sequence, in their order.
Kept(seq, S) ==
  LET kept[n \in 0..Len(seq)] ==
        IF n = 0 THEN <<>>
        ELSE IF seq[n] \in S THEN Append(kept[n - 1], seq[n]) ELSE kept[n - 1]
  IN  kept[Len(seq)]

FrontierNames ==
  IF command.name = AllScenarios
  THEN Kept(Catalog, {s \in Scenarios : Selected(s) /\ Available(s)})
  ELSE <<command.name>>

AtScale(scale) ==
  FlattenSeq([n \in DOMAIN FrontierNames |->
    [i \in DOMAIN Seeds |->
       [scenario |-> FrontierNames[n], scale |-> scale, seed |-> Seeds[i]]]])

Alone(scenario) == [scenario |-> scenario, scale |-> 0, seed |-> 0]

Items ==
  CASE command.kind = "Run"   -> <<Alone(command.name)>>
    [] command.kind = "Suite" ->
         LET chosen == Kept(Catalog, {s \in Scenarios : Selected(s)})
         IN  [n \in DOMAIN chosen |-> Alone(chosen[n])]
    [] command.kind = "Frontier" ->
         FlattenSeq([n \in DOMAIN Scales |-> AtScale(Scales[n])])

Item == Head(todo)
Known == Item.scenario \in Range(Catalog)

\* A frontier stops behind a scale at which something broke.
BehindBreak ==
  /\ command.kind = "Frontier" /\ todo # <<>>
  /\ first.Break # None
  /\ Item.scale # Last(results).item.scale
Finished == todo = <<>> \/ BehindBreak

-----------------------------------------------------------------------------
Report == [item : Range(Items), verdict : SuiteVerdicts]

TypeOK ==
  /\ EmulatorType
  /\ command \in Commands
  /\ pc \in {"Select", "Ensuring", "Executing", "Probing", "Leaving", "Returned"}
  /\ IsSuffix(todo, Items)
  /\ results \in Seq(Report)
  /\ DOMAIN onDisk \subseteq Range(Items)
  /\ Range(onDisk) \subseteq SuiteVerdicts
  /\ first \in [Firsts -> Report \cup {None}]
  /\ {manifest, failed} \subseteq BOOLEAN
  /\ disturbed \cup atFault \cup unfinished \subseteq Range(Items)

Init ==
  /\ EmulatorInit
  /\ command \in Commands
  /\ pc = "Select"
  /\ todo = Items
  /\ results = <<>>
  /\ onDisk = <<>>
  /\ first = [v \in Firsts |-> None]
  /\ manifest = FALSE
  /\ failed = FALSE
  /\ disturbed = {}
  /\ atFault = {}
  /\ unfinished = {}

-----------------------------------------------------------------------------
(* Reports *)

Enter(verdict) ==
  /\ results' = Append(results, [item |-> Item, verdict |-> verdict])
  /\ todo' = Tail(todo)
  /\ pc' = "Select"

OnDisk(verdict) ==
  onDisk' = [item \in DOMAIN onDisk \cup {Item} |->
               IF item = Item THEN verdict ELSE onDisk[item]]

\* The first of its kind is cloned for the frontier.
Cloned(verdict) ==
  IF command.kind = "Frontier" /\ verdict \in Firsts /\ first[verdict] = None
  THEN [first EXCEPT ![verdict] = [item |-> Item, verdict |-> verdict]]
  ELSE first

\* The question mark operator: the command returns the error.
ReturnError ==
  /\ failed' = TRUE
  /\ pc' = "Leaving"
  /\ UNCHANGED <<todo, results, manifest, first>>

-----------------------------------------------------------------------------
(* Before a scenario *)

SkipUnavailable ==
  /\ pc = "Select" /\ ~Finished
  /\ command.kind = "Suite" /\ ~Available(Item.scenario)
  /\ OnDisk("Skipped")
  /\ Enter("Skipped")
  /\ UNCHANGED <<command, first, manifest, failed, disturbed, atFault, unfinished,
                 emulatorVars>>

RejectUnknown ==
  /\ pc = "Select" /\ ~Finished
  /\ command.kind = "Frontier" /\ ~Known
  /\ ReturnError
  /\ UNCHANGED <<command, onDisk, disturbed, atFault, unfinished, emulatorVars>>

Startable ==
  /\ pc = "Select" /\ ~Finished
  /\ command.kind = "Suite" => Available(Item.scenario)
  /\ command.kind = "Frontier" => Known

CallEnsureReady ==
  /\ Startable /\ Emulated
  /\ BeginEnsure
  /\ pc' = "Ensuring"
  /\ UNCHANGED <<command, todo, results, onDisk, first, manifest, failed, disturbed,
                 atFault, unfinished>>

StartWithoutEmulator ==
  /\ Startable /\ ~Emulated
  /\ pc' = "Executing"
  /\ UNCHANGED <<command, todo, results, onDisk, first, manifest, failed, disturbed,
                 atFault, unfinished, emulatorVars>>

Started ==
  /\ pc = "Ensuring" /\ step = "Ready"
  /\ step' = "Idle"
  /\ pc' = "Executing"
  /\ disturbed' = disturbed \cup IF project = "Healthy" THEN {} ELSE {Item}
  /\ UNCHANGED <<command, todo, results, onDisk, first, manifest, failed, atFault,
                 unfinished, guarded, resolved, project, outages, leaked>>

\* The emulator is not available: infrastructure_report.  run leaves the broken
\* project to the drop of the controller.  Mutants: the loops go on without it; it is
\* put off to the end.
Unreported == todo' = Tail(todo) /\ pc' = "Select" /\ UNCHANGED results
PutOff == todo' = Append(Tail(todo), Item) /\ pc' = "Select" /\ UNCHANGED results
EnterUnavailable == Enter("InfrastructureError")
ReportUnavailable ==
  /\ pc = "Ensuring" /\ step = "Refused" /\ Known
  /\ step' = "Idle"
  /\ IF command.kind = "Run"
     THEN UNCHANGED <<guarded, resolved, project, outages, leaked>>
     ELSE MarkUnhealthy
  /\ OnDisk("InfrastructureError")
  /\ EnterUnavailable
  /\ UNCHANGED <<command, first, manifest, failed, disturbed, atFault, unfinished>>

UnavailableForUnknown ==
  /\ pc = "Ensuring" /\ step = "Refused" /\ ~Known
  /\ step' = "Idle"
  /\ ReturnError
  /\ UNCHANGED <<command, onDisk, disturbed, atFault, unfinished, guarded, resolved,
                 project, outages, leaked>>

-----------------------------------------------------------------------------
(* run_scenario_at *)

Executing == pc = "Executing"
CanExecute == Known /\ Executable(Item.scenario, command.backend, command.failpoints)
OptedIn == command.backend = "Sqrzl" => command.cloudSmoke

EndsWith(verdict) ==
  /\ OnDisk(verdict)
  /\ pc' = "Probing"
  /\ UNCHANGED <<command, todo, results, first, manifest, failed, disturbed,
                 emulatorVars>>

\* The engine keeps its promises or breaks one; an outage can make it look as
\* if it had.
ScenarioPasses ==
  /\ Executing /\ CanExecute /\ OptedIn
  /\ \E verdict \in Graded \ {"Break"} : EndsWith(verdict)
  /\ UNCHANGED <<atFault, unfinished>>

ScenarioBreaks ==
  /\ Executing /\ CanExecute /\ OptedIn
  /\ EndsWith("Break")
  /\ \/ atFault' = atFault \cup {Item}
     \/ Item \in disturbed /\ UNCHANGED atFault
  /\ UNCHANGED unfinished

ScenarioSkipped ==
  /\ Executing /\ CanExecute /\ ~OptedIn
  /\ EndsWith("Skipped")
  /\ UNCHANGED <<atFault, unfinished>>

\* An error of the runner is the error of run, and a failure_report elsewhere.
RunnerError ==
  /\ IF command.kind = "Run"
     THEN ReturnError /\ UNCHANGED onDisk
     ELSE /\ OnDisk("Break")
          /\ pc' = "Probing"
          /\ UNCHANGED <<todo, results, first, manifest, failed>>
  /\ UNCHANGED <<command, disturbed, atFault, step, guarded, resolved, project, leaked>>

ScenarioRefused ==
  /\ Executing /\ ~CanExecute
  /\ RunnerError
  /\ UNCHANGED <<outages, unfinished>>

RunnerFails ==
  /\ Executing /\ CanExecute
  /\ Outage
  /\ RunnerError
  /\ unfinished' = unfinished \cup {Item}

-----------------------------------------------------------------------------
(* After a scenario *)

\* Mutant: only a scenario that did not pass is probed.
FailuresProbed == onDisk[Item] \in {"Pass", "Wobble", "Bend"} \/ ~Emulated \/ Probed
StillHealthy == Emulated => Probed

EnterVerdict ==
  /\ pc = "Probing" /\ StillHealthy
  /\ Enter(onDisk[Item])
  /\ first' = Cloned(onDisk[Item])
  /\ UNCHANGED <<command, onDisk, manifest, failed, disturbed, atFault, unfinished,
                 emulatorVars>>

\* mark_infrastructure_error overrides any verdict, then the artifact is written
\* again.  Mutants: it is not; the report was cloned before it was marked.
MarkInMemory == UNCHANGED onDisk
Rewrite == OnDisk("InfrastructureError")
CloneUnmarked == first' = Cloned(onDisk[Item])
CloneMarked == first' = Cloned("InfrastructureError")

MarkInfrastructureError ==
  /\ pc = "Probing" /\ ~StillHealthy
  /\ MarkUnhealthy
  /\ Rewrite
  /\ Enter("InfrastructureError")
  /\ CloneMarked
  /\ UNCHANGED <<command, manifest, failed, disturbed, atFault, unfinished, step>>

\* A report, a directory or a manifest that cannot be written.
WriteFails ==
  /\ pc \in {"Select", "Probing"}
  /\ Outage
  /\ ReturnError
  /\ UNCHANGED <<command, onDisk, disturbed, atFault, unfinished, step, guarded,
                 resolved, project, leaked>>

WriteManifest ==
  /\ pc = "Select" /\ Finished
  /\ manifest' = TRUE
  /\ pc' = "Leaving"
  /\ UNCHANGED <<command, todo, results, onDisk, first, failed, disturbed, atFault,
                 unfinished, emulatorVars>>

\* The function returns, with or without an error, and drops the controller.
Return ==
  /\ pc = "Leaving"
  /\ DropTeardown
  /\ pc' = "Returned"
  /\ UNCHANGED <<command, todo, results, onDisk, first, manifest, failed, disturbed,
                 atFault, unfinished, step, resolved>>

Disturb ==
  /\ Container
  /\ disturbed' = IF pc = "Executing" /\ project' # "Healthy"
                  THEN disturbed \cup {Item} ELSE disturbed
  /\ UNCHANGED <<command, pc, todo, results, onDisk, first, manifest, failed, atFault,
                 unfinished>>

-----------------------------------------------------------------------------
CommandStep ==
  \/ SkipUnavailable
  \/ RejectUnknown
  \/ CallEnsureReady
  \/ StartWithoutEmulator
  \/ Started
  \/ ReportUnavailable
  \/ UnavailableForUnknown
  \/ ScenarioPasses
  \/ ScenarioBreaks
  \/ ScenarioSkipped
  \/ ScenarioRefused
  \/ EnterVerdict
  \/ MarkInfrastructureError
  \/ WriteManifest
  \/ Return
  \/ pc = "Ensuring" /\ Ensuring /\ UNCHANGED suiteVars

Next ==
  \/ CommandStep
  \/ RunnerFails
  \/ WriteFails
  \/ Disturb

\* The command is a sequential program: it goes on as long as it can, and its
\* wait for the emulator ends.  That a scenario ends is ScenarioRun!Terminates.
\* Nothing is assumed of the container.
Fairness == WF_vars(CommandStep)

Spec == Init /\ [][Next]_vars /\ Fairness

-----------------------------------------------------------------------------
(* Safety *)

\* README.md:62, the controller "brings it down even when the harness returns an
\* error": when a command has returned, however it did, no container of its
\* project is left, unless compose down itself failed.  The teardown must be in
\* place before anything can fail and survive every restart of the emulator.
NoLeakedProject == pc = "Returned" => project = "Absent" \/ leaked

\* The manifest and the scenario reports on disk tell the same story, also of a
\* scenario whose verdict was overridden after its report had been written.
ArtifactsAgree ==
  manifest => \A n \in DOMAIN results : onDisk[results[n].item] = results[n].verdict

\* A finished command has exactly one report for everything it had to do, in
\* order, whatever was skipped, refused or interrupted on the way; a frontier
\* completes the scale at which something broke and goes no further.
EveryItemReported ==
  LET BeyondBreak(item) ==
        \E n \in DOMAIN results :
          results[n].verdict = "Break" /\ results[n].item.scale < item.scale
      due == {n \in DOMAIN Items : command.kind = "Frontier" => ~BeyondBreak(Items[n])}
  IN  manifest => DOMAIN results = due /\ \A n \in due : results[n].item = Items[n]

\* The first wobble, bend and break of a frontier are the first ones among its
\* reports as they stand in the manifest, marks of the emulator included.
FrontierNamesFirst ==
  manifest /\ command.kind = "Frontier" =>
    \A v \in Firsts :
      LET hits == {n \in DOMAIN results : results[n].verdict = v}
      IN  first[v] = IF hits = {} THEN None ELSE results[Min(hits)]

\* What a suite or a frontier over all scenarios selects, run_scenario_at does
\* not refuse: a scenario is skipped exactly if backend or features rule it out,
\* or if the Sqrzl tier was not asked for.
SelectedIsExecutable ==
  command.kind = "Suite" \/ command.name = AllScenarios =>
    \A n \in DOMAIN results : results[n].item \notin unfinished =>
      results[n].verdict = "Skipped" <=>
        \/ ~Executable(results[n].item.scenario, command.backend, command.failpoints)
        \/ command.backend = "Sqrzl" /\ ~command.cloudSmoke

\* Whom a verdict is charged to.  While the emulator is down nothing is said
\* about the engine.  While it is up, a promise the engine broke is a break, and
\* a break has a cause: the engine, the runner, a scenario that could not be
\* executed, or an outage that had healed before the probe.
VerdictIsCharged ==
  [][Len(results') > Len(results) =>
       LET entered == Last(results').verdict
           up      == Emulated => project = "Healthy"
       IN  /\ ~up => entered \in {"InfrastructureError", "Skipped"}
           /\ up /\ Item \in atFault => entered = "Break"
           /\ entered = "Break" =>
                \/ Item \in atFault \cup unfinished \cup disturbed
                \/ ~CanExecute]_vars

(* Liveness *)

\* Every command returns, however often the emulator fails.
CommandReturns == <>(pc = "Returned")
=============================================================================
