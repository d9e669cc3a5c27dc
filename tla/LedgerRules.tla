----------------------------- MODULE LedgerRules -----------------------------
(***************************************************************************)
(* What one worker report does to the classification of one ledger entry   *)
(* (src/src/ledger.rs, classify_reports_with_unobserved).  The rules are   *)
(* kept apart from any state so that Ledger, which consumes reports one at *)
(* a time, and ScenarioRun, which classifies a finished run, share them.   *)
(***************************************************************************)
EXTENDS SequencesExt

Outcomes == {"Acked", "Failed", "Unknown"}

MutationOutcome ==
  {"Dispatched", "Acked", "Failed", "Unknown", "Duplicate", "Missing"}

\* Mutants of the two rules, used only to show that the properties notice them.
\* The acknowledgement of a replay clears an earlier contradiction.
AckClearsDuplicate(class, inconsistentReplay, outcome) ==
  IF inconsistentReplay THEN "Duplicate"
  ELSE IF outcome = "Acked" THEN "Acked"
  ELSE IF class \in {"Acked", "Duplicate"} THEN class
  ELSE IF outcome = "Failed" \/ class = "Dispatched" THEN outcome
  ELSE class

\* The last report wins, as a plain overwrite would have it.
LastReportWins(class, inconsistentReplay, outcome) ==
  IF inconsistentReplay \/ class = "Duplicate" THEN "Duplicate" ELSE outcome

\* A mismatch is a loss whatever was said of the mutation before.
MismatchIsAlwaysLoss(class, outcome) ==
  IF class = "Duplicate" THEN class
  ELSE IF outcome = "Failed" THEN "Missing" ELSE outcome

\* The mutation acknowledgement outranks the verifier.
AckOutranksMismatch(class, outcome) ==
  IF class = "Duplicate" \/ outcome = "Failed" THEN class ELSE outcome

\* A mutation report read in the first pass: an entry whose reports disagree
\* about (sequence, key) is Duplicate for good, an acknowledgement beats every
\* earlier failure, a failure never takes an acknowledgement back, and Unknown
\* only fills an entry nothing else was said about.
AfterMutationReport(class, inconsistentReplay, outcome) ==
  IF inconsistentReplay \/ class = "Duplicate" THEN "Duplicate"
  ELSE IF outcome = "Acked" \/ class = "Acked" THEN "Acked"
  ELSE IF outcome = "Failed" \/ class = "Dispatched" THEN outcome
  ELSE class

\* A verification report read in the second pass: a mismatch is a loss only of
\* an acknowledged mutation, a verified value acknowledges any entry that is
\* not Duplicate.
AfterVerificationReport(class, outcome) ==
  IF class = "Duplicate" THEN class
  ELSE IF outcome # "Failed" THEN outcome
  ELSE IF class = "Acked" THEN "Missing" ELSE class

\* The last loop: an entry no report settled takes the outcome the caller
\* chose, Missing after a complete run and Unknown after an incomplete one.
AfterLastReport(class, unobserved) ==
  IF class = "Dispatched" THEN unobserved ELSE class

(***************************************************************************)
(* The whole classification of the entry of operation op, for a finished   *)
(* sequence of reports [op, phase, outcome] that all name an operation of  *)
(* one plan, so that a replay always carries the same sequence and key:    *)
(* a pass over the first n reports leaves the entry in class[n].           *)
(***************************************************************************)
MutationPass(op, reports, n) ==
  LET class[m \in 0..n] ==
        IF m = 0 THEN "Dispatched"
        ELSE IF reports[m].op = op /\ reports[m].phase = "Mutation"
        THEN AfterMutationReport(class[m - 1], FALSE, reports[m].outcome)
        ELSE class[m - 1]
  IN  class[n]

VerificationPass(mutated, op, reports, n) ==
  LET class[m \in 0..n] ==
        IF m = 0 THEN mutated
        ELSE IF reports[m].op = op /\ reports[m].phase = "Verification"
        THEN AfterVerificationReport(class[m - 1], reports[m].outcome)
        ELSE class[m - 1]
  IN  class[n]

Classified(op, reports, unobserved) ==
  LET mutated == MutationPass(op, reports, Len(reports))
  IN  AfterLastReport(VerificationPass(mutated, op, reports, Len(reports)), unobserved)
=============================================================================
