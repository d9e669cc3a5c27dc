---------------------------- MODULE LeaseTakeover ----------------------------
(***************************************************************************)
(* A recovery that has to wait for the lease of a worker that died.        *)
(*                                                                         *)
(* Two programs hold the numbers: the controller derives the recovery      *)
(* budget from its table of lease profiles (src/src/config.rs), the worker *)
(* opens the engine with its own table (lease_durations in                 *)
(* src/src/bin/worker.rs) and is fenced for as long as that one says.      *)
(* Time is in ticks of 500 ms, the pause between two fenced attempts.      *)
(***************************************************************************)
EXTENDS Naturals, RecoveryRules

CONSTANTS
  Requested,  \* values of --recovery-timeout
  Horizon     \* bound of the clock

ASSUME TakeoverAssumption == Requested \subseteq Nat /\ Horizon \in Nat

Profiles == {"Conservative", "BoundedFailover"}
Backends == {"Local", "Sqrzl", "S3", "Azure", "Gcs"}

-----------------------------------------------------------------------------
(* The controller's table and the budget *)

Ttl(profile) == IF profile = "Conservative" THEN 60 ELSE 20
Skew(profile) == IF profile = "Conservative" THEN 30 ELSE 10

\* Mutant: the nominal ttl of the profile, whatever the backend.
TtlIgnoringBackend(profile, backend) == Ttl(profile)
TtlForBackend(profile, backend) ==
  IF profile = "BoundedFailover" /\ backend # "Local" THEN 60 ELSE Ttl(profile)

\* Mutant: the requested timeout taken as it is.
RequestedAsGiven(floor, requested) ==
  [warning |-> floor + 6, soft |-> floor + 16, hard |-> requested]
BudgetAbove(floor, requested) ==
  LET soft == floor + 16
  IN  [warning |-> floor + 6,
       soft    |-> soft,
       hard    |-> IF requested > 2 * soft THEN requested ELSE 2 * soft]

RecoveryBudget(profile, backend, requested) ==
  BudgetAbove(Skew(profile) + TtlForBackend(profile, backend), requested)

-----------------------------------------------------------------------------
(* The worker's table *)

\* lease_durations: ttl and clock skew, of which the fenced wait is the sum.
LeaseDurations(profile, backend) ==
  IF profile = "Conservative" THEN [ttl |-> 60, skew |-> 30]
  ELSE IF backend = "Local" THEN [ttl |-> 20, skew |-> 10]
  ELSE [ttl |-> 60, skew |-> 10]

FencedFor(profile, backend) ==
  LeaseDurations(profile, backend).ttl + LeaseDurations(profile, backend).skew

-----------------------------------------------------------------------------
VARIABLES
  profile, backend, requested,  \* the configuration of the run
  phase,                        \* of the recovery
  clock,                        \* ticks since the recovery began
  grade                         \* RecoveryOutcome, once there is one

vars == <<profile, backend, requested, phase, clock, grade>>
config == <<profile, backend, requested>>

Ungraded == "Ungraded"
Budget == RecoveryBudget(profile, backend, requested)
Fence == FencedFor(profile, backend)

TypeOK ==
  /\ profile \in Profiles
  /\ backend \in Backends
  /\ requested \in Requested
  /\ phase \in {"Fenced", "Opening", "Graded"}
  /\ clock \in 0..Horizon
  /\ grade \in RecoveryOutcomes \cup {Ungraded}

\* The holder renewed just before it died: the longest wait there is.
Init ==
  /\ profile \in Profiles
  /\ backend \in Backends
  /\ requested \in Requested
  /\ phase = "Fenced"
  /\ clock = 0
  /\ grade = Ungraded

\* Engine::open is refused; the controller pauses and tries again.
AttemptFenced ==
  /\ phase = "Fenced"
  /\ clock < Fence
  /\ clock < Budget.hard
  /\ clock < Horizon
  /\ clock' = clock + 1
  /\ UNCHANGED <<config, phase, grade>>

AttemptAdmitted ==
  /\ phase = "Fenced"
  /\ clock >= Fence
  /\ clock < Budget.hard
  /\ phase' = "Opening"
  /\ UNCHANGED <<config, clock, grade>>

\* The engine recovers for as long as it takes.
KeepOpening ==
  /\ phase = "Opening"
  /\ clock < Horizon
  /\ clock' = clock + 1
  /\ UNCHANGED <<config, phase, grade>>

\* run_worker sees the readiness artifact, and the worker then completes.
BecomeReady ==
  /\ phase = "Opening"
  /\ phase' = "Graded"
  /\ grade' = RecoveryOutcome(clock, Budget)
  /\ UNCHANGED <<config, clock>>

\* The hard deadline: the worker is killed, or no further attempt is made.
GiveUp ==
  /\ phase # "Graded"
  /\ clock >= Budget.hard
  /\ phase' = "Graded"
  /\ grade' = "HardDeadlineExceeded"
  /\ UNCHANGED <<config, clock>>

Next ==
  \/ AttemptFenced
  \/ AttemptAdmitted
  \/ KeepOpening
  \/ BecomeReady
  \/ GiveUp

Spec == Init /\ [][Next]_vars

-----------------------------------------------------------------------------
(* Safety *)

\* config.rs:57: the wait fencing makes mandatory is never graded against the
\* engine.  A takeover marked slower than the warning threshold spent at least
\* three seconds of its own after the lease of the dead worker ran out - the
\* worker's lease, not the one in the controller's table.
FencingIsNotGraded ==
  grade \in RecoveryOutcomes \ {"RecoveredBeforeWarning"} => clock >= Fence + 6

\* A recovery is given up only when the engine had as long again as it was
\* fenced to open after it was admitted, however small the requested timeout.
NotGivenUpFenced ==
  grade = "HardDeadlineExceeded" => clock >= 2 * Fence
=============================================================================
