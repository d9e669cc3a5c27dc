---------------------------- MODULE ScenarioRun ----------------------------
(***************************************************************************)
(* One scenario, from the first worker to the verdict.                     *)
(*                                                                         *)
(* The controller (run_scenario_at and run_worker in src/src/runner.rs)    *)
(* starts worker processes one after the other, watches each until it      *)
(* exits or a deadline makes it kill it, reads what the worker left in its *)
(* report files, and decides where the next worker resumes.  The worker    *)
(* and the engine are WorkerProcess; controller and worker share nothing   *)
(* but the process (kill, exit status), its files and the database.        *)
(*                                                                         *)
(* Time is the age of the pending recovery in ticks, and one flag for the  *)
(* observation deadline.  Errors of the controller's own file operations   *)
(* end the run without a verdict and are left out.                         *)
(***************************************************************************)
EXTENDS WorkerProcess, RecoveryRules

CONSTANTS
  Budget,   \* RecoveryBudget: [warning, soft, hard] in ticks
  MaxAge    \* bound of the clock of a pending recovery, beyond hard

ASSUME RunAssumption ==
  /\ Budget \in [warning : Nat, soft : Nat, hard : Nat]
  /\ MaxAge \in Nat /\ Budget.hard < MaxAge

VARIABLES
  pc,         \* where run_scenario_at is
  mode,       \* "Segment" in the main loop, "Verifier" in the loop after it
  start,      \* first operation of the next segment
  faults,     \* fault steps not injected yet
  pending,    \* pending_recovery: the step, and the age it was ready at
  readySeen,  \* run_worker: age at which it saw the readiness artifact
  status,     \* WorkerStatus of the worker that just ended
  observed,   \* the reports of every settled worker
  events,     \* recovery_events
  flags,      \* the booleans of the report, and recovery_verification_needed
  verdict,
  age,        \* ticks since the pending recovery began
  late,       \* the observation deadline has passed
  struck      \* history: fault steps whose worker stopped as planned

controlVars == <<pc, mode, start, faults, pending, readySeen, status, observed,
                 events, flags, verdict, age, late, struck>>
vars == <<controlVars, workerVars>>

NotReady == -1
NoRecovery == [step |-> NoStep, ready |-> NotReady]
Undecided == "Undecided"
Recovering == pending.step # NoStep
Ages == 0..MaxAge
Event == [step : DOMAIN FaultAt, outcome : RecoveryOutcomes]
Flags == {"timedOut", "executionIncomplete", "verificationIncomplete",
          "recoveryVerified", "verificationNeeded"}

TypeOK ==
  /\ WorkerType
  /\ pc \in {"Launch", "Poll", "Settle", "LoopExit", "Conclude", "Done"}
  /\ mode \in {"Segment", "Verifier"}
  /\ start \in 0..NumOps
  /\ faults \subseteq DOMAIN FaultAt
  /\ pending \in [step : DOMAIN FaultAt \cup {NoStep}, ready : Ages \cup {NotReady}]
  /\ readySeen \in Ages \cup {NotReady}
  /\ status \in WorkerStatus
  /\ observed \in Seq(Report)
  /\ events \in Seq(Event)
  /\ flags \in [Flags -> BOOLEAN]
  /\ verdict \in Verdicts \cup {Undecided}
  /\ age \in Ages
  /\ late \in BOOLEAN
  /\ struck \subseteq DOMAIN FaultAt

Init ==
  /\ WorkerInit
  /\ pc = "Launch"
  /\ mode = "Segment"
  /\ start = 0
  /\ faults = DOMAIN FaultAt
  /\ pending = NoRecovery
  /\ readySeen = NotReady
  /\ status = "Ok"
  /\ observed = <<>>
  /\ events = <<>>
  /\ flags = [f \in Flags |-> f = "recoveryVerified" /\ DOMAIN FaultAt = {}]
  /\ verdict = Undecided
  /\ age = 0
  /\ late = FALSE
  /\ struck = {}

-----------------------------------------------------------------------------
(* What the controller asks of the worker it is about to start *)

\* The next planned fault and the trigger of the worker command line it takes;
\* the verifier runs without any.  Mutant: a fault where the segment starts is
\* overlooked.
NextFaultAfterStart ==
  LET ahead == {s \in faults : s > start} IN IF ahead = {} THEN NoStep ELSE Min(ahead)
NextFault ==
  LET ahead == {s \in faults : s >= start} IN IF ahead = {} THEN NoStep ELSE Min(ahead)

Trigger(classes) ==
  IF mode = "Segment" /\ NextFault # NoStep /\ FaultAt[NextFault] \in classes
  THEN NextFault ELSE NoStep

CrashAt == Trigger({"ProcessKill"})
CrashAfterAt == Trigger({"AckBeforeReportCrash"})
InterruptAt == Trigger(FaultClasses \ {"ProcessKill", "AckBeforeReportCrash"})

\* verifier_expectations: the verifier of an incomplete run is only held to
\* what the workers acknowledged.
Expected ==
  IF mode = "Verifier" /\ flags["executionIncomplete"]
  THEN AckedExpectations(observed) ELSE FinalExpectations

Engine == WorkerStep(CrashAt, CrashAfterAt, InterruptAt, Expected)

-----------------------------------------------------------------------------
(* Deadlines *)

\* Mutant: the hard deadline is never compared with the clock.
NoHardDeadline == FALSE
HardDeadlinePassed == age >= Budget.hard

\* The verifier of a pending recovery has the rest of its hard deadline, every
\* other worker the deadline of its own loop.
DeadlinePassed ==
  IF mode = "Verifier" /\ Recovering THEN HardDeadlinePassed ELSE late

Tick ==
  /\ Recovering
  /\ pc # "Done"
  /\ age < MaxAge
  /\ age' = age + 1
  /\ UNCHANGED <<pc, mode, start, faults, pending, readySeen, status, observed,
                 events, flags, verdict, late, struck, workerVars>>

DeadlinePasses ==
  /\ ~late
  /\ pc # "Done"
  /\ late' = TRUE
  /\ UNCHANGED <<pc, mode, start, faults, pending, readySeen, status, observed,
                 events, flags, verdict, age, struck, workerVars>>

-----------------------------------------------------------------------------
(* run_worker *)

Launch ==
  /\ pc = "Launch"
  /\ pc' = "Poll"
  /\ readySeen' = NotReady
  /\ Spawned(IF mode = "Segment" THEN start ELSE NumOps)
  /\ UNCHANGED <<mode, start, faults, pending, status, observed, events, flags,
                 verdict, age, late, struck>>

ObserveReadiness ==
  /\ pc = "Poll"
  /\ worker.ready
  /\ readySeen = NotReady
  /\ readySeen' = age
  /\ UNCHANGED <<pc, mode, start, faults, pending, status, observed, events,
                 flags, verdict, age, late, struck, workerVars>>

EndPoll(result) ==
  /\ pc' = "Settle"
  /\ status' = result
  /\ UNCHANGED <<mode, start, faults, pending, observed, events, flags, verdict,
                 age, late, struck>>

\* try_wait saw the exit: the readiness artifact is looked at once more.
\* Mutant: only what the polls saw counts.
LastLookSkipped == readySeen
LastLook == IF readySeen = NotReady /\ worker.ready THEN age ELSE readySeen

Reap ==
  /\ pc = "Poll"
  /\ ~Alive
  /\ readySeen' = LastLook
  /\ EndPoll(worker.code)
  /\ UNCHANGED workerVars

\* A kill may find the worker just gone; readiness published since the last
\* look goes unseen.
Kill ==
  /\ pc = "Poll"
  /\ Killed
  /\ EndPoll("TimedOut")
  /\ UNCHANGED readySeen

KillUnready ==
  /\ Recovering /\ readySeen = NotReady /\ HardDeadlinePassed
  /\ Kill
  /\ UNCHANGED trouble

KillAtDeadline ==
  /\ DeadlinePassed
  /\ Kill
  /\ UNCHANGED trouble

\* NoProgress: the report and progress files stopped growing.
KillStalled ==
  /\ Alive
  /\ Kill
  /\ Spend

-----------------------------------------------------------------------------
(* What every settled attempt does first *)

\* record_ready_recovery: only the first readiness counts.
Recorded ==
  IF Recovering /\ pending.ready = NotReady
  THEN [pending EXCEPT !.ready = readySeen] ELSE pending

\* complete_ready_recovery
RecoveryDone == Recorded.ready # NotReady
Completed ==
  IF RecoveryDone
  THEN Append(events, [step |-> Recorded.step,
                       outcome |-> RecoveryOutcome(Recorded.ready, Budget)])
  ELSE events

\* Mutant: the completed recovery stays pending.
KeptAfterCompletion == Recorded
AfterCompletion == IF RecoveryDone THEN NoRecovery ELSE Recorded

\* reset_unstable_recovery_readiness
\* Mutant: it keeps it.
StillReady == Recorded
Unstable == [Recorded EXCEPT !.ready = NotReady]

\* worker_requires_acquisition_lock_cleanup.  Mutant: only planned crashes do.
CleansAfterCrashOnly(result) == result = "Crashed"
CleansLock(result) == result \in {"Crashed", "Failed", "Incomplete", "TimedOut"}

\* The settled attempt: lock cleanup, and the fields no settlement touches.
\* pending_recovery becomes p; its clock only runs while there is one.
Settled(p) ==
  /\ pc = "Settle"
  /\ lockFile' = (lockFile /\ ~CleansLock(status))
  /\ pending' = p
  /\ age' = IF p = NoRecovery \/ p.step # pending.step THEN 0 ELSE age
  /\ UNCHANGED <<readySeen, status, verdict, worker, reports, store, lease, lost, armed>>

Raise(raised) == flags' = [f \in Flags |-> flags[f] \/ f \in raised]
KeepReports == observed' = observed \o reports
ContinueAt(next) ==
  /\ start' = next
  /\ pc' = IF next < NumOps THEN "Launch" ELSE "LoopExit"
LeaveLoop == pc' = "LoopExit" /\ UNCHANGED start

-----------------------------------------------------------------------------
(* run_scenario_at: the main loop *)

SettlesSegment == mode = "Segment" /\ UNCHANGED <<mode, late>>

\* A fenced worker is retried and its reports are dropped; readiness it may
\* have shown stays recorded.
FencedRetry == worker.held /\ Recovering /\ ~HardDeadlinePassed

RetryFenced ==
  /\ SettlesSegment
  /\ FencedRetry
  /\ Settled(Recorded)
  /\ pc' = "Launch"
  /\ UNCHANGED <<start, faults, observed, events, flags, trouble, struck, sentinel>>

\* Where the worker after a fault resumes: an acknowledged but unreported
\* operation is not replayed.  Mutants: no fault replays its operation; a step
\* too far.
ResumeBehindFault(step) == step + 1
ResumeTwoBehindAck(step) ==
  IF FaultAt[step] = "AckBeforeReportCrash" THEN step + 2 ELSE step
ResumeAfterFault(step) ==
  IF FaultAt[step] = "AckBeforeReportCrash" THEN step + 1 ELSE step

\* apply_fault writes the sentinel of a failpoint; other classes leave a marker, or
\* what the engine makes of them is its trouble.
AfterApplied(step) == IF FaultAt[step] = "Failpoint" THEN step ELSE sentinel

\* Crashed or Interrupted: the previous recovery is complete, apply_fault
\* succeeds, and the recovery from this fault begins.
StrikeFault ==
  /\ SettlesSegment
  /\ ~FencedRetry
  /\ status \in {"Crashed", "Interrupted"}
  /\ Settled([step |-> NextFault, ready |-> NotReady])
  /\ KeepReports
  /\ events' = Completed
  /\ Raise({"verificationNeeded"})
  /\ faults' = faults \ {NextFault}
  /\ struck' = struck \cup {NextFault}
  /\ ContinueAt(ResumeAfterFault(NextFault))
  /\ sentinel' = AfterApplied(NextFault)
  /\ UNCHANGED trouble

\* apply_fault fails: the run ends there, with a failed recovery on record.
FaultNotApplied ==
  /\ SettlesSegment
  /\ ~FencedRetry
  /\ status \in {"Crashed", "Interrupted"}
  /\ Spend
  /\ Settled(NoRecovery)
  /\ KeepReports
  /\ events' = Append(Completed, [step |-> NextFault, outcome |-> "RecoveryFailed"])
  /\ Raise({"verificationNeeded", "executionIncomplete"})
  /\ struck' = struck \cup {NextFault}
  /\ LeaveLoop
  /\ UNCHANGED <<faults, sentinel>>

FinishSegments ==
  /\ SettlesSegment
  /\ ~FencedRetry
  /\ status = "Ok"
  /\ Settled(AfterCompletion)
  /\ KeepReports
  /\ events' = Completed
  /\ Raise({"recoveryVerified"})
  /\ ContinueAt(NumOps)
  /\ UNCHANGED <<faults, trouble, struck, sentinel>>

\* Failed or Incomplete while a recovery is pending, or stopped by a deadline
\* with time left: another worker, from where the reports end.
Retried ==
  \/ status \in {"Failed", "Incomplete"} /\ Recovering /\ ~HardDeadlinePassed
  \/ status = "TimedOut" /\ Recovering /\ ~late /\ ~HardDeadlinePassed

RetrySegment ==
  /\ SettlesSegment
  /\ ~FencedRetry
  /\ Retried
  /\ Settled(Unstable)
  /\ KeepReports
  /\ Raise({"verificationNeeded"})
  /\ ContinueAt(ResumeAt(start, reports))
  /\ UNCHANGED <<faults, events, trouble, struck, sentinel>>

\* Nothing left to retry with.  Mutant: a failure outside any recovery leaves no
\* mark.
FailureForgotten ==
  IF status = "TimedOut" THEN {"timedOut", "executionIncomplete"}
  ELSE IF Recovering
  THEN {"verificationNeeded", "verificationIncomplete", "executionIncomplete"}
  ELSE {}
AbandonedFlags ==
  IF status = "TimedOut" THEN {"timedOut", "executionIncomplete"}
  ELSE IF Recovering
  THEN {"verificationNeeded", "verificationIncomplete", "executionIncomplete"}
  ELSE {"executionIncomplete"}

AbandonSegments ==
  /\ SettlesSegment
  /\ ~FencedRetry
  /\ status \in {"Failed", "Incomplete", "TimedOut"}
  /\ ~Retried
  /\ Settled(Unstable)
  /\ KeepReports
  /\ Raise(AbandonedFlags)
  /\ LeaveLoop
  /\ UNCHANGED <<faults, events, trouble, struck, sentinel>>
-----------------------------------------------------------------------------
(* run_scenario_at: after the main loop *)

\* The verifier gets a deadline of its own.
ChooseVerifier ==
  /\ pc = "LoopExit"
  /\ IF flags["verificationNeeded"]
     THEN pc' = "Launch" /\ mode' = "Verifier" /\ late' = FALSE
     ELSE pc' = "Conclude" /\ UNCHANGED <<mode, late>>
  /\ UNCHANGED <<start, faults, pending, readySeen, status, observed, events,
                 flags, verdict, age, struck, workerVars>>

SettlesVerifier ==
  /\ mode = "Verifier"
  /\ UNCHANGED <<mode, late, start, faults, trouble, struck, sentinel>>

RetryVerifier ==
  /\ SettlesVerifier
  /\ worker.held
  /\ ~DeadlinePassed
  /\ Settled(Recorded)
  /\ pc' = "Launch"
  /\ UNCHANGED <<observed, events, flags>>

\* The report's flags after the verifier.  Mutant: a failed verifier does not
\* take back what the last segment verified.
VerifiedAnyway(before, result) ==
  [before EXCEPT !["verificationIncomplete"] = @ \/ result # "Ok",
                 !["recoveryVerified"] = @ \/ result = "Ok"]
AfterVerifier(before, result) ==
  [before EXCEPT !["verificationIncomplete"] = @ \/ result # "Ok",
                 !["recoveryVerified"] = result = "Ok"]

\* A worker that names the lease keeps the readiness it showed; the recovery
\* stays pending all the same.
FinishVerifier ==
  /\ SettlesVerifier
  /\ ~(worker.held /\ ~DeadlinePassed)
  /\ IF worker.held THEN Settled(Recorded) /\ UNCHANGED events
     ELSE IF status = "Ok" THEN Settled(AfterCompletion) /\ events' = Completed
     ELSE Settled(Unstable) /\ UNCHANGED events
  /\ KeepReports
  /\ flags' = AfterVerifier(flags, status)
  /\ pc' = "Conclude"

\* A recovery still pending is over.
LeftPending ==
  IF HardDeadlinePassed THEN "HardDeadlineExceeded" ELSE "RecoveryFailed"
FinalEvents ==
  IF Recovering
  THEN Append(events, [step |-> pending.step, outcome |-> LeftPending])
  ELSE events
FinalIncomplete == flags["verificationIncomplete"] \/ Recovering

\* The ledger as classify_reports or classify_reports_after_timeout leaves it.
FinalLedger ==
  [i \in Steps |->
     Classified(i, observed,
       IF flags["timedOut"] \/ flags["executionIncomplete"]
       THEN "Unknown" ELSE "Missing")]

Conclude ==
  /\ pc = "Conclude"
  /\ pc' = "Done"
  /\ pending' = NoRecovery
  /\ age' = 0
  /\ events' = FinalEvents
  /\ flags' = [flags EXCEPT !["verificationIncomplete"] = FinalIncomplete]
  /\ verdict' = ClassifyVerdict({FinalLedger[i] : i \in Steps},
                                {FinalEvents[n].outcome : n \in DOMAIN FinalEvents},
                                FinalIncomplete)
  /\ UNCHANGED <<mode, start, faults, readySeen, status, observed, late, struck,
                 workerVars>>

-----------------------------------------------------------------------------
Controller ==
  \/ Launch
  \/ ObserveReadiness
  \/ Reap
  \/ KillUnready
  \/ KillAtDeadline
  \/ RetryFenced
  \/ StrikeFault
  \/ FinishSegments
  \/ RetrySegment
  \/ AbandonSegments
  \/ ChooseVerifier
  \/ RetryVerifier
  \/ FinishVerifier
  \/ Conclude

Next ==
  \/ Controller
  \/ KillStalled
  \/ FaultNotApplied
  \/ Engine /\ pc = "Poll" /\ UNCHANGED controlVars
  \/ Tick
  \/ DeadlinePasses

\* The controller polls and decides as long as it has something to decide, and
\* the clock runs; of the worker and the engine nothing is assumed.
Fairness == WF_vars(Controller) /\ WF_vars(Tick) /\ WF_vars(DeadlinePasses)

Spec == Init /\ [][Next]_vars /\ Fairness

-----------------------------------------------------------------------------
(* Safety *)

ReportedAcked(i) == ReportedAs(i, "Acked", observed)

\* No resume point skips an operation: everything before the next segment was
\* acknowledged in a report the controller kept, unless a worker was cut down
\* between the acknowledgement and the report, as ack-kill-window plans it.
\* Retries after partial failures, kills between two reports and reports
\* dropped by a fenced retry all move the resume point.
NoSkippedOperation ==
  \A i \in Steps : i < start =>
    \/ ReportedAcked(i)
    \/ i \in struck /\ FaultAt[i] = "AckBeforeReportCrash"

\* Every fault that struck is on record, open or graded: none is dropped when
\* the next one follows, and a retry does not bring one back.
EveryFaultRecorded ==
  struck = {events[n].step : n \in DOMAIN events} \cup ({pending.step} \ {NoStep})

\* A run that was neither cut short nor left unverified accounts for every
\* operation: acknowledged by a worker, or found by the verifier when the
\* acknowledgement was lost with the worker.  Only a final delete that some worker
\* found undone stays as it is: a verifier that finds it done reports nothing.
FoundUndone(i) ==
  /\ Plan[i].action = "Delete"
  /\ \E n \in DOMAIN observed :
       observed[n] = [op |-> i, phase |-> "Verification", outcome |-> "Failed"]
CompleteRunAllAcked ==
  pc = "Done" /\ ~flags["executionIncomplete"] /\ ~flags["verificationIncomplete"]
    => \A i \in Steps : FinalLedger[i] = "Acked" \/ FoundUndone(i)

\* A verdict that passes is a promise about the database: whatever the engine
\* lost or the workers went through, every key holds the value the last
\* operation of the plan gave it.  Only the operation of an acknowledged window is
\* nobody's to check when the run is cut short behind it.
PassMeansDurable ==
  verdict \in Passed =>
    \A k \in Keys :
      \/ store[k] = ValueOf(LastOn(k))
      \/ /\ flags["executionIncomplete"]
         /\ LastOn(k) \in struck /\ FaultAt[LastOn(k)] = "AckBeforeReportCrash"

\* A run reported as verified after recovery is one whose database agrees with
\* what it is held to: the plan, or what was acknowledged of an incomplete run.
VerifiedMeansChecked ==
  pc = "Done" /\ flags["recoveryVerified"] =>
    \A k \in DOMAIN Expected : store[k] = ValueOf(Expected[k])

\* No worker is started against the acquisition lock of one that was stopped
\* while it acquired the lease, which would fence it until the hard deadline.
NoOrphanedLock == pc = "Launch" => ~lockFile

\* A run cannot pass by dodging its faults: every planned fault struck, however
\* the resume point moved between them.
PassMeansStruck == verdict \in Passed => struck = DOMAIN FaultAt

\* A failpoint is configured within the recovery from its own fault, where what it
\* does to the engine is graded: a sentinel that is still there, or half activated,
\* belongs to the recovery that is open.
FailpointOfOpenRecovery ==
  pc # "Done" =>
    /\ sentinel # NoStep => pending.step = sentinel
    /\ Alive /\ worker.failpoint # NoStep => pending.step = worker.failpoint

(* Action properties *)

\* A sentinel is for one shot: whatever dies between its activation and the verdict,
\* no second worker configures the failpoint of a fault again.
FailpointFiresOnce ==
  [][(worker.phase = "Activating" /\ worker'.phase = "Opening")
       => worker.failpoint \notin armed]_vars

\* A recovery is complete only when the worker that became ready reaches a stable
\* boundary (the assertion at runner.rs:1777): the grade is the readiness of the
\* attempt that settles it, not one that an earlier, failed attempt left.
GradedByCompletingAttempt ==
  [][pc = "Settle" =>
       \A n \in DOMAIN events' \ DOMAIN events :
         \/ events'[n] = [step |-> NextFault, outcome |-> "RecoveryFailed"]
         \/ /\ readySeen # NotReady
            /\ events'[n].outcome = RecoveryOutcome(readySeen, Budget)]_vars

(* Refinement *)

\* The report's view of a fault.  Two events for one fault, or an event for a
\* fault that is still open, have no image.
FaultView(f) ==
  LET graded == {n \in DOMAIN events : events[n].step = f}
  IN  IF graded = {} THEN IF pending.step = f THEN "Open" ELSE "Planned"
      ELSE IF Cardinality(graded) = 1 /\ pending.step # f
      THEN events[Max(graded)].outcome ELSE "Ambiguous"

Faulting == INSTANCE FaultRecovery WITH
  Faults  <- DOMAIN FaultAt,
  fault   <- [f \in DOMAIN FaultAt |-> FaultView(f)],
  outcome <- IF verdict = Undecided THEN "Undecided"
             ELSE IF verdict \in Passed THEN "Passed" ELSE "Broken"

\* Through retries, kills and crashes, a fault strikes once, its recovery is
\* graded once and for good, and a passing run recovered from all that struck.
FaultProtocol == Faulting!Protocol

(* Liveness *)

\* Whatever the worker does, hangs included, the run comes to a verdict.
Terminates == <>(pc = "Done")

(* What the repository says elsewhere; the README lists these as disagreements
   with the code *)

\* runner.rs:2314, "a partial concurrent chunk must replay from its original
\* boundary": no segment starts inside a chunk.
ResumeAtBatchBoundary ==
  pc = "Launch" /\ mode = "Segment" => ChunkStart(start)

\* contract.md:23, "`pass`: safety holds and every recovery completes": a verdict
\* that passes was given after a worker read the final state back and left Ok.
PassMeansVerified == verdict \in Passed => status = "Ok"

\* lease-profiles.md:17, "Missing or stale-holder mutations remain `break`
\* verdicts": a run in which an acknowledged mutation was found missing breaks.
FoundMissing(i) ==
  \E n \in DOMAIN observed :
    /\ observed[n] = [op |-> i, phase |-> "Verification", outcome |-> "Failed"]
    /\ \E m \in 1..n : observed[m] = [op |-> i, phase |-> "Mutation", outcome |-> "Acked"]
MissingRemainsBreak ==
  pc = "Done" /\ (\E i \in Steps : FoundMissing(i)) => verdict = "Break"
=============================================================================
