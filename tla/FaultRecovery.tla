---------------------------- MODULE FaultRecovery ----------------------------
(***************************************************************************)
(* What a run promises about its faults, seen from the report: a fault     *)
(* strikes at most once, at most one recovery is open at a time, and a     *)
(* recovery, once graded, keeps its grade.  The run ends with no recovery  *)
(* open, and it passes only if every recovery succeeded.                   *)
(*                                                                         *)
(* ScenarioRun, with its retries, deadlines and dying workers, implements  *)
(* this specification.                                                     *)
(***************************************************************************)
EXTENDS RecoveryRules

CONSTANT Faults

VARIABLES
  fault,    \* of every fault: Planned, Open, or how its recovery was graded
  outcome   \* of the run: Undecided, then whether it passed

abstractVars == <<fault, outcome>>

Recovered ==
  {"RecoveredBeforeWarning", "RecoveredBeforeSoftDeadline", "RecoveredBeforeHardDeadline"}

Open == {f \in Faults : fault[f] = "Open"}

AbstractInit ==
  /\ fault = [f \in Faults |-> "Planned"]
  /\ outcome = "Undecided"

\* The open recovery, if there is one, gets its grade.
Graded(before, grade) ==
  [f \in Faults |-> IF before[f] = "Open" THEN grade ELSE before[f]]

Grade(grade) ==
  /\ outcome = "Undecided"
  /\ Open # {}
  /\ fault' = Graded(fault, grade)
  /\ UNCHANGED outcome

\* The next fault strikes; that completes the recovery from the one before.
Strike(f, grade) ==
  /\ outcome = "Undecided"
  /\ fault[f] = "Planned"
  /\ fault' = [Graded(fault, grade) EXCEPT ![f] = "Open"]
  /\ UNCHANGED outcome

\* A fault that cannot be injected is a failed recovery.
Misfire(f, grade) ==
  /\ outcome = "Undecided"
  /\ fault[f] = "Planned"
  /\ fault' = [Graded(fault, grade) EXCEPT ![f] = "RecoveryFailed"]
  /\ UNCHANGED outcome

\* A recovery still open at the end failed.
Finish(grade) ==
  /\ outcome = "Undecided"
  /\ grade \notin Recovered
  /\ fault' = Graded(fault, grade)
  /\ outcome' \in {"Broken"} \cup
       (IF \A f \in Faults : fault'[f] \in Recovered \cup {"Planned"}
        THEN {"Passed"} ELSE {})

AbstractNext ==
  \E grade \in RecoveryOutcomes :
    \/ Grade(grade)
    \/ \E f \in Faults : Strike(f, grade) \/ Misfire(f, grade)
    \/ Finish(grade)

Protocol == AbstractInit /\ [][AbstractNext]_abstractVars
=============================================================================
