---------------------------- MODULE RecoveryRules ----------------------------
(***************************************************************************)
(* How a recovery is graded and how the grades, the ledger and the state   *)
(* of the verification add up to a verdict (src/src/report.rs).            *)
(***************************************************************************)
EXTENDS Naturals

RecoveryOutcomes ==
  {"RecoveredBeforeWarning", "RecoveredBeforeSoftDeadline",
   "RecoveredBeforeHardDeadline", "HardDeadlineExceeded", "RecoveryFailed"}

Verdicts == {"Pass", "Wobble", "Bend", "Break"}
Passed == {"Pass", "Wobble", "Bend"}

\* Mutant of ClassifyVerdict, used only to show that a property notices it.
\* A verification that never completed is not held against the engine.
IncompleteVerificationPasses(classes, recoveries, verificationIncomplete) ==
  IF \/ classes \cap {"Failed", "Unknown", "Duplicate", "Missing"} # {}
     \/ recoveries \cap {"HardDeadlineExceeded", "RecoveryFailed"} # {}
  THEN "Break"
  ELSE IF "RecoveredBeforeHardDeadline" \in recoveries THEN "Bend"
  ELSE IF "RecoveredBeforeSoftDeadline" \in recoveries THEN "Wobble"
  ELSE "Pass"

\* RecoveryEvent::recovered
RecoveryOutcome(latency, budget) ==
  IF latency < budget.warning THEN "RecoveredBeforeWarning"
  ELSE IF latency <= budget.soft THEN "RecoveredBeforeSoftDeadline"
  ELSE IF latency <= budget.hard THEN "RecoveredBeforeHardDeadline"
  ELSE "HardDeadlineExceeded"

\* classify_verdict: only whether a count is positive matters, so a ledger is
\* the set of its classifications and the events the set of their outcomes.
ClassifyVerdict(classes, recoveries, verificationIncomplete) ==
  IF \/ verificationIncomplete
     \/ classes \cap {"Failed", "Unknown", "Duplicate", "Missing"} # {}
     \/ recoveries \cap {"HardDeadlineExceeded", "RecoveryFailed"} # {}
  THEN "Break"
  ELSE IF "RecoveredBeforeHardDeadline" \in recoveries THEN "Bend"
  ELSE IF "RecoveredBeforeSoftDeadline" \in recoveries THEN "Wobble"
  ELSE "Pass"
=============================================================================
