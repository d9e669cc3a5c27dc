------------------------------- MODULE Emulator -------------------------------
(***************************************************************************)
(* The emulator of a cloud backend (src/src/emulator.rs): a compose        *)
(* project, which is external and fails as it likes, and the controller    *)
(* that starts, probes and tears it down.  Whoever runs scenarios calls    *)
(* ensure_ready, which is taken apart here step by step, probe and         *)
(* mark_unhealthy, and drops the controller when it returns.               *)
(*                                                                         *)
(* Everything compose or the container does wrong spends one outage.       *)
(***************************************************************************)
EXTENDS Naturals

CONSTANT MaxOutages   \* bound on what goes wrong in one command

ASSUME OutageAssumption == MaxOutages \in Nat

VARIABLES
  step,       \* where ensure_ready is; Ready and Refused are its answers
  guarded,    \* teardown is Some: dropping it will run compose down
  resolved,   \* endpoints is Some
  project,    \* compose: no container, or one that is healthy, sick or exited
  outages,    \* outages left
  leaked      \* history: a compose down has failed

emulatorVars == <<step, guarded, resolved, project, outages, leaked>>

EnsureSteps == {"Idle", "Rechecking", "Starting", "Composed", "Up", "Settling",
                "Confirming", "Ready", "Refused"}

EmulatorType ==
  /\ step \in EnsureSteps
  /\ guarded \in BOOLEAN
  /\ resolved \in BOOLEAN
  /\ project \in {"Absent", "Healthy", "Sick", "Exited"}
  /\ outages \in 0..MaxOutages
  /\ leaked \in BOOLEAN

EmulatorInit ==
  /\ step = "Idle"
  /\ guarded = FALSE
  /\ resolved = FALSE
  /\ project = "Absent"
  /\ outages = MaxOutages
  /\ leaked = FALSE

Outage == outages > 0 /\ outages' = outages - 1
Running == project \in {"Healthy", "Sick"}

\* probe: an HTTP 200 from the resolved health endpoint.
Probed == resolved /\ project = "Healthy"

-----------------------------------------------------------------------------
(* The container *)

Recovers ==
  /\ project = "Sick"
  /\ project' = "Healthy"
  /\ UNCHANGED <<step, guarded, resolved, outages, leaked>>

Fails ==
  /\ Running
  /\ Outage
  /\ project' \in {"Sick", "Exited"} \ {project}
  /\ UNCHANGED <<step, guarded, resolved, leaked>>

Container == Recovers \/ Fails

-----------------------------------------------------------------------------
(* Teardown *)

\* Dropping a ComposeTeardown: compose down, whose failure is only written down.
DropTeardown ==
  /\ guarded' = FALSE
  /\ \/ /\ project' = IF guarded THEN "Absent" ELSE project
        /\ UNCHANGED <<outages, leaked>>
     \/ /\ guarded /\ Outage
        /\ leaked' = TRUE
        /\ UNCHANGED project

\* mark_unhealthy
MarkUnhealthy == DropTeardown /\ resolved' = FALSE

-----------------------------------------------------------------------------
(* ensure_ready and start *)

BeginEnsure ==
  /\ step = "Idle"
  /\ step' = IF guarded THEN "Rechecking" ELSE "Starting"
  /\ UNCHANGED <<guarded, resolved, project, outages, leaked>>

KeepRunning ==
  /\ step = "Rechecking"
  /\ Probed
  /\ step' = "Ready"
  /\ UNCHANGED <<guarded, resolved, project, outages, leaked>>

TakeDown ==
  /\ step = "Rechecking"
  /\ ~Probed
  /\ MarkUnhealthy
  /\ step' = "Starting"

\* A step of start that fails leaves everything for the teardown.
Refuse ==
  /\ Outage
  /\ step' = "Refused"
  /\ UNCHANGED <<resolved, leaked>>

\* The teardown is in place before compose is first called.
ArmTeardown ==
  /\ step = "Starting"
  /\ guarded' = TRUE
  /\ \/ step' = "Composed" /\ UNCHANGED <<resolved, project, outages, leaked>>
     \/ Refuse /\ UNCHANGED project

\* compose up -d: a running container stays as it is, any other is started; a
\* failing up may have created one.  Mutant: a failed up leaves nothing to tear
\* down.
UpSucceeds ==
  /\ step' = "Up"
  /\ project' = IF Running THEN project ELSE "Sick"
  /\ UNCHANGED <<guarded, resolved, outages, leaked>>
UpFails ==
  /\ Refuse
  /\ project' \in IF Running THEN {project} ELSE {project, "Exited"}
ComposeUpOrNothing ==
  /\ step = "Composed"
  /\ \/ UpSucceeds
     \/ UpFails /\ guarded' = FALSE
ComposeUp ==
  /\ step = "Composed"
  /\ \/ UpSucceeds
     \/ UpFails /\ UNCHANGED guarded

\* compose port, for the API and for the health port.
ResolvePorts ==
  /\ step = "Up"
  /\ \/ /\ Running
        /\ step' = "Settling"
        /\ resolved' = TRUE
        /\ UNCHANGED <<outages, leaked>>
     \/ /\ ~Running
        /\ step' = "Refused"
        /\ UNCHANGED <<resolved, outages, leaked>>
     \/ Refuse
  /\ UNCHANGED <<guarded, project>>

\* Probes for 30 seconds.
Settle ==
  /\ step = "Settling"
  /\ Probed
  /\ step' = "Confirming"
  /\ UNCHANGED <<guarded, resolved, project, outages, leaked>>

\* Mutant: the probes have no deadline.
NoStartupDeadline == FALSE /\ UNCHANGED emulatorVars
StartupDeadline ==
  /\ step = "Settling"
  /\ ~Probed
  /\ step' = "Refused"
  /\ UNCHANGED <<guarded, resolved, project, outages, leaked>>

\* ensure_ready probes once more after start.
Confirm ==
  /\ step = "Confirming"
  /\ step' = IF Probed THEN "Ready" ELSE "Refused"
  /\ UNCHANGED <<guarded, resolved, project, outages, leaked>>

Ensuring ==
  \/ KeepRunning
  \/ TakeDown
  \/ ArmTeardown
  \/ ComposeUp
  \/ ResolvePorts
  \/ Settle
  \/ StartupDeadline
  \/ Confirm
=============================================================================
