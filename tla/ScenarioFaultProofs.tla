------------------------- MODULE ScenarioFaultProofs -------------------------
(***************************************************************************)
(* What a run of ScenarioRun does about its faults, for every plan, fault  *)
(* placement, budget and bound: each strikes once and is graded once, a    *)
(* failpoint fires in its own recovery only, and no resume point skips an  *)
(* operation.                                                              *)
(***************************************************************************)
EXTENDS ScenarioTypeProofs, FiniteSetTheorems

-----------------------------------------------------------------------------
(* Events                                                                   *)

StepsOf(es) == {es[n].step : n \in DOMAIN es}
Distinct(es) == \A m, n \in DOMAIN es : es[m].step = es[n].step => m = n

LEMMA AppendEvent ==
  ASSUME NEW es \in Seq(Event), NEW e \in Event
  PROVE  /\ Append(es, e) \in Seq(Event)
         /\ StepsOf(Append(es, e)) = StepsOf(es) \cup {e.step}
         /\ Distinct(es) /\ e.step \notin StepsOf(es) => Distinct(Append(es, e))
         /\ \A n \in DOMAIN es : n \in DOMAIN Append(es, e) /\ Append(es, e)[n] = es[n]
         /\ \E n \in DOMAIN Append(es, e) : Append(es, e)[n] = e
<1>1. /\ Len(es) \in Nat /\ DOMAIN es = 1..Len(es)
      /\ DOMAIN Append(es, e) = 1..(Len(es) + 1)
      /\ Append(es, e)[Len(es) + 1] = e
      /\ \A n \in 1..Len(es) : Append(es, e)[n] = es[n]
  OBVIOUS
<1>2. \A n \in 1..(Len(es) + 1) : n \in 1..Len(es) \/ n = Len(es) + 1
  BY <1>1
<1>3. 1..Len(es) \subseteq 1..(Len(es) + 1) /\ Len(es) + 1 \in 1..(Len(es) + 1)
  BY <1>1
<1>4. Append(es, e) \in Seq(Event)
  OBVIOUS
<1> DEFINE more == Append(es, e)
<1> HIDE DEF more
<1>5. StepsOf(more) = StepsOf(es) \cup {e.step}
  BY <1>1, <1>2, <1>3 DEF StepsOf, more
<1>6. Distinct(es) /\ e.step \notin StepsOf(es) => Distinct(more)
  BY <1>1, <1>2, <1>3 DEF StepsOf, Distinct, more
<1> QED
  BY <1>1, <1>3, <1>4, <1>5, <1>6 DEF more

LEMMA StepsOfEvents ==
  ASSUME NEW es \in Seq(Event)
  PROVE  StepsOf(es) \subseteq DOMAIN FaultAt /\ NoStep \notin StepsOf(es)
<1>1. \A n \in DOMAIN es : es[n] \in Event
  OBVIOUS
<1>2. \A n \in DOMAIN es : es[n].step \in DOMAIN FaultAt
  BY <1>1 DEF Event
<1> QED
  BY <1>2, PlanTypes DEF StepsOf

-----------------------------------------------------------------------------
(* The invariant                                                            *)

\* Every fault that struck has one event or is the open one, and none strikes
\* again in the main loop.
RecordInv ==
  /\ struck = StepsOf(events) \cup ({pending.step} \ {NoStep})
  /\ Distinct(events)
  /\ pending.step \notin StepsOf(events)
  /\ pc \in {"Launch", "Poll", "Settle"} /\ mode = "Segment" => faults \cap struck = {}

\* A sentinel belongs to the open recovery, which no worker can complete before
\* it has taken it; what was taken is configured once.
SentinelInv ==
  /\ armed \subseteq struck
  /\ sentinel # NoStep /\ pc # "Done" =>
       pending = [step |-> sentinel, ready |-> NotReady] /\ sentinel \notin armed
  /\ pc = "Poll" /\ worker.ready => sentinel = NoStep
  /\ pc \in {"Poll", "Settle"} /\ readySeen # NotReady => sentinel = NoStep
  /\ Alive =>
       /\ worker.phase # "Activating" => sentinel = NoStep
       /\ worker.failpoint # NoStep => pending.step = worker.failpoint
       /\ worker.phase = "Activating" =>
            /\ worker.failpoint = NoStep => sentinel # NoStep
            /\ worker.failpoint # NoStep => sentinel = NoStep /\ worker.failpoint \notin armed

LEMMA FaultInit == Init => RecordInv /\ SentinelInv
BY PlanTypes DEF Init, WorkerInit, NoWorker, NoRecovery, RecordInv, SentinelInv, StepsOf,
     Distinct, Alive

-----------------------------------------------------------------------------
(* What a settled attempt does to the record                                *)

\* Completing the open recovery, if a worker became ready in it, moves its fault
\* from open to graded.
LEMMA CompletedRecord ==
  ASSUME RunInv, RecordInv
  PROVE  /\ Completed \in Seq(Event) /\ Distinct(Completed)
         /\ struck = StepsOf(Completed) \cup ({AfterCompletion.step} \ {NoStep})
         /\ AfterCompletion.step \notin StepsOf(Completed)
         /\ RecoveryDone => /\ pending.step \in DOMAIN FaultAt
                            /\ Completed = Append(events, [step |-> pending.step,
                                 outcome |-> RecoveryOutcome(Recorded.ready, Budget)])
         /\ ~RecoveryDone => Completed = events
<1>1. /\ events \in Seq(Event) /\ pending.step \in DOMAIN FaultAt \cup {NoStep}
      /\ Recorded.step = pending.step /\ (RecoveryDone => Recovering)
      /\ AfterCompletion.step = IF RecoveryDone THEN NoStep ELSE pending.step
  BY RecordedType DEF RunInv, TypeOK, NoRecovery
<1>2. CASE RecoveryDone
  <2> DEFINE e == [step |-> pending.step, outcome |-> RecoveryOutcome(Recorded.ready, Budget)]
  <2>1. pending.step # NoStep /\ pending.step \in DOMAIN FaultAt
    BY <1>1, <1>2 DEF Recovering
  <2>2. e \in Event /\ e.step = pending.step
    BY <2>1, OutcomeType DEF Event
  <2>3. Completed = Append(events, e)
    BY <1>1, <1>2 DEF Completed
  <2>4. /\ Append(events, e) \in Seq(Event)
        /\ StepsOf(Append(events, e)) = StepsOf(events) \cup {pending.step}
        /\ Distinct(Append(events, e))
    BY <1>1, <2>2, AppendEvent DEF RecordInv
  <2>5. NoStep \notin StepsOf(Append(events, e))
    BY <2>4, StepsOfEvents
  <2> QED
    BY <1>1, <1>2, <2>1, <2>3, <2>4, <2>5 DEF RecordInv
<1>3. CASE ~RecoveryDone
  <2>1. Completed = events
    BY <1>3 DEF Completed
  <2> QED
    BY <1>1, <1>3, <2>1 DEF RecordInv
<1> QED
  BY <1>2, <1>3

\* The worker that hit a fault was ready: no recovery stays open behind it, and
\* the fault has not struck before.
LEMMA StrikeIsNew ==
  ASSUME RunInv, RecordInv, pc = "Settle", status \in {"Crashed", "Interrupted"}
  PROVE  /\ AfterCompletion = NoRecovery
         /\ struck = StepsOf(Completed)
         /\ NextFault \in faults /\ NextFault \in DOMAIN FaultAt
         /\ NextFault \notin struck /\ NextFault # NoStep
         /\ Recovering => RecoveryDone
<1>1. readySeen # NotReady /\ mode = "Segment" /\ NextFault # NoStep /\ TypeOK /\ StopInv
  BY DEF RunInv, StopInv, PlannedStop, Stoppable
<1>2. NextFault \in faults /\ NextFault \in DOMAIN FaultAt
  BY StruckIsPlanned
<1>3. NextFault \notin struck
  BY <1>1, <1>2 DEF RecordInv
<1>4. Recovering => RecoveryDone
  BY <1>1 DEF RecoveryDone, Recorded, TypeOK
<1>5. AfterCompletion = NoRecovery
  BY <1>1, <1>4, RecordedType DEF NoRecovery, Recovering, Recorded, RecoveryDone, StopInv,
       TypeOK
<1> QED
  BY <1>1, <1>2, <1>3, <1>4, <1>5, CompletedRecord DEF NoRecovery

-----------------------------------------------------------------------------
(* The record of the faults                                                 *)

LEMMA RecordAlone ==
  ASSUME RecordInv, UNCHANGED <<events, struck, faults>>, pending'.step = pending.step,
         pc' \in {"Launch", "Poll", "Settle"} /\ mode' = "Segment"
           => pc \in {"Launch", "Poll", "Settle"} /\ mode = "Segment"
  PROVE  RecordInv'
BY DEF RecordInv, StepsOf, Distinct

\* A settled attempt that completes the open recovery if a worker became ready.
LEMMA CompletingKeepsRecord ==
  ASSUME RunInv, RecordInv, pc = "Settle", mode' = mode,
         events' = Completed, pending' = AfterCompletion, UNCHANGED <<struck, faults>>
  PROVE  RecordInv'
<1>1. /\ Distinct(Completed)
      /\ struck = StepsOf(Completed) \cup ({AfterCompletion.step} \ {NoStep})
      /\ AfterCompletion.step \notin StepsOf(Completed)
  BY CompletedRecord
<1>2. StepsOf(events)' = StepsOf(Completed) /\ Distinct(events)' = Distinct(Completed)
  BY DEF StepsOf, Distinct
<1> QED
  BY <1>1, <1>2 DEF RecordInv

LEMMA StrikeKeepsRecord ==
  ASSUME RunInv, RecordInv, StrikeFault
  PROVE  RecordInv'
<1>1. /\ pc = "Settle" /\ status \in {"Crashed", "Interrupted"}
      /\ pending' = [step |-> NextFault, ready |-> NotReady]
      /\ events' = Completed /\ struck' = struck \cup {NextFault}
      /\ faults' = faults \ {NextFault} /\ mode' = mode
  BY DEF StrikeFault, Settled, SettlesSegment
<1>2. /\ struck = StepsOf(Completed) /\ Distinct(Completed)
      /\ NextFault \notin struck /\ NextFault # NoStep
  BY <1>1, StrikeIsNew, CompletedRecord
<1>3. StepsOf(events)' = StepsOf(Completed) /\ Distinct(events)' = Distinct(Completed)
  BY <1>1 DEF StepsOf, Distinct
<1> QED
  BY <1>1, <1>2, <1>3 DEF RecordInv

LEMMA MisfireKeepsRecord ==
  ASSUME RunInv, RecordInv, FaultNotApplied
  PROVE  RecordInv'
<1> DEFINE e == [step |-> NextFault, outcome |-> "RecoveryFailed"]
<1>1. /\ pc = "Settle" /\ status \in {"Crashed", "Interrupted"}
      /\ pending' = NoRecovery /\ pc' = "LoopExit"
      /\ events' = Append(Completed, e) /\ struck' = struck \cup {NextFault}
  BY DEF FaultNotApplied, Settled, LeaveLoop
<1>2. /\ struck = StepsOf(Completed) /\ Distinct(Completed) /\ Completed \in Seq(Event)
      /\ NextFault \notin struck /\ NextFault # NoStep /\ NextFault \in DOMAIN FaultAt
  BY <1>1, StrikeIsNew, CompletedRecord
<1>3. e \in Event /\ e.step = NextFault
  BY <1>2 DEF Event, RecoveryOutcomes
<1>4. /\ events' \in Seq(Event) /\ Distinct(events')
      /\ StepsOf(events') = StepsOf(Completed) \cup {NextFault}
  BY <1>1, <1>2, <1>3, AppendEvent
<1>5. NoStep \notin StepsOf(events')
  BY <1>4, StepsOfEvents
<1> QED
  BY <1>1, <1>2, <1>4, <1>5 DEF RecordInv, NoRecovery, StepsOf, Distinct

LEMMA ConcludeKeepsRecord ==
  ASSUME RunInv, RecordInv, Conclude
  PROVE  RecordInv'
<1>1. /\ pending' = NoRecovery /\ events' = FinalEvents /\ pc' = "Done"
      /\ UNCHANGED <<struck, faults>>
      /\ events \in Seq(Event) /\ pending.step \in DOMAIN FaultAt \cup {NoStep}
  BY DEF Conclude, RunInv, TypeOK
<1>2. /\ StepsOf(events') = struck /\ Distinct(events') /\ NoStep \notin StepsOf(events')
  <2> DEFINE e == [step |-> pending.step, outcome |-> LeftPending]
  <2>1. CASE Recovering
    <3>1. e \in Event /\ e.step = pending.step
      BY <1>1, <2>1 DEF Event, LeftPending, RecoveryOutcomes, Recovering
    <3>2. events' = Append(events, e)
      BY <1>1, <2>1 DEF FinalEvents
    <3>3. /\ StepsOf(events') = StepsOf(events) \cup {pending.step} /\ Distinct(events')
          /\ events' \in Seq(Event)
      BY <1>1, <3>1, <3>2, AppendEvent DEF RecordInv
    <3> QED
      BY <2>1, <3>3, StepsOfEvents DEF RecordInv, Recovering
  <2>2. CASE ~Recovering
    BY <1>1, <2>2, StepsOfEvents DEF FinalEvents, Recovering, RecordInv
  <2> QED
    BY <2>1, <2>2
<1> QED
  BY <1>1, <1>2 DEF RecordInv, NoRecovery, StepsOf, Distinct

LEMMA RecordStep == RunInv /\ RecordInv /\ [Next]_vars => RecordInv'
<1> SUFFICES ASSUME RunInv, RecordInv, [Next]_vars PROVE RecordInv'
  OBVIOUS
<1>0. TypeOK /\ StopInv
  BY DEF RunInv
<1>1. CASE Launch \/ ObserveReadiness \/ Reap \/ KillUnready \/ KillAtDeadline \/ KillStalled
             \/ Tick \/ DeadlinePasses
  <2>1. /\ UNCHANGED <<events, struck, faults, pending, mode>>
        /\ pc' # pc => pc \in {"Launch", "Poll", "Settle"}
    BY <1>1 DEF Launch, ObserveReadiness, Reap, KillUnready, KillAtDeadline, KillStalled,
                Kill, EndPoll, Tick, DeadlinePasses
  <2> QED
    BY <2>1, RecordAlone
<1>2. CASE RetryFenced \/ RetrySegment \/ AbandonSegments \/ RetryVerifier
  <2>1. /\ pc = "Settle" /\ UNCHANGED <<events, struck, faults, mode>>
        /\ pending' \in {Recorded, Unstable}
    BY <1>2 DEF RetryFenced, RetrySegment, AbandonSegments, RetryVerifier, Settled,
                SettlesSegment, SettlesVerifier
  <2>2. Recorded.step = pending.step /\ Unstable.step = pending.step
    BY <1>0, RecordedType
  <2> QED
    BY <2>1, <2>2, RecordAlone
<1>3. CASE StrikeFault
  BY <1>3, StrikeKeepsRecord
<1>4. CASE FaultNotApplied
  BY <1>4, MisfireKeepsRecord
<1>5. CASE FinishSegments
  BY <1>5, CompletingKeepsRecord DEF FinishSegments, Settled, SettlesSegment
<1>6. CASE FinishVerifier
  <2>1. /\ pc = "Settle" /\ UNCHANGED <<struck, faults, mode>>
        /\ \/ pending' \in {Recorded, Unstable} /\ UNCHANGED events
           \/ pending' = AfterCompletion /\ events' = Completed
    BY <1>6 DEF FinishVerifier, Settled, SettlesVerifier
  <2>2. Recorded.step = pending.step /\ Unstable.step = pending.step
    BY <1>0, RecordedType
  <2> QED
    BY <2>1, <2>2, RecordAlone, CompletingKeepsRecord
<1>7. CASE ChooseVerifier
  <2>1. /\ UNCHANGED <<events, struck, faults, pending>>
        /\ pc' = "Launch" => mode' = "Verifier"
        /\ pc' \in {"Launch", "Conclude"}
    BY <1>7 DEF ChooseVerifier
  <2> QED
    BY <2>1, RecordAlone
<1>8. CASE Conclude
  BY <1>8, ConcludeKeepsRecord
<1>9. CASE UNCHANGED controlVars
  BY <1>9, RecordAlone DEF controlVars
<1> QED
  BY <1>1, <1>2, <1>3, <1>4, <1>5, <1>6, <1>7, <1>8, <1>9 DEF Next, Controller, vars

\* Every fault that struck is on record, open or graded: none is dropped when
\* the next one follows, and a retry does not bring one back.
THEOREM EveryFaultRecordedTheorem == Spec => []EveryFaultRecorded
<1>1. RecordInv => EveryFaultRecorded
  BY DEF RecordInv, EveryFaultRecorded, StepsOf
<1>2. Init => RecordInv
  BY FaultInit
<1> QED
  BY <1>1, <1>2, RunInvariant, RecordStep, PTL DEF Spec

-----------------------------------------------------------------------------
(* Failpoints                                                               *)

\* A step of a worker that has nothing to do with sentinels.
LEMMA SentinelAlone ==
  ASSUME SentinelInv, pc = "Poll", UNCHANGED controlVars, UNCHANGED failpointVars,
         Alive' => Alive /\ worker'.failpoint = worker.failpoint
                         /\ (worker'.phase = "Activating" <=> worker.phase = "Activating"),
         worker'.ready => worker.ready \/ worker.phase = "Opening"
  PROVE  SentinelInv'
BY DEF SentinelInv, controlVars, failpointVars, Alive

LEMMA EngineKeepsSentinel ==
  ASSUME RunInv, RecordInv, SentinelInv, Engine, pc = "Poll", UNCHANGED controlVars
  PROVE  SentinelInv'
<1>0. {"phase", "failpoint", "index", "todo", "failed", "unreported", "unread", "doomed",
       "ready", "held", "code"} \subseteq DOMAIN worker
  BY DEF RunInv, TypeOK, WorkerType
<1>1. CASE OpenFenced
  BY <1>0, <1>1, SentinelAlone DEF OpenFenced, ExitHeld, Alive
<1>2. CASE OpenReady
  BY <1>0, <1>2, SentinelAlone DEF OpenReady, Alive
<1>3. CASE CrashOnStep(CrashAt)
  BY <1>0, <1>3, SentinelAlone DEF CrashOnStep, Exit, Alive
<1>4. CASE InterruptOnStep(InterruptAt)
  BY <1>0, <1>4, SentinelAlone DEF InterruptOnStep, Exit, Alive
<1>5. CASE BeginChunk(CrashAt, InterruptAt)
  BY <1>0, <1>5, SentinelAlone DEF BeginChunk, Alive
<1>6. CASE RejectChunk(InterruptAt)
  BY <1>0, <1>6, SentinelAlone DEF RejectChunk, Exit, Alive
<1>7. CASE \E tx \in worker.todo : CommitTransaction(tx)
  BY <1>0, <1>7, SentinelAlone DEF CommitTransaction, Alive
<1>8. CASE \E tx \in worker.todo : FailTransaction(tx)
  BY <1>0, <1>8, SentinelAlone DEF FailTransaction, Alive
<1>9. CASE CrashThreadExits
  BY <1>0, <1>9, SentinelAlone DEF CrashThreadExits, Exit, Alive
<1>10. CASE ChunkUnreadable
  BY <1>0, <1>10, SentinelAlone DEF ChunkUnreadable, Exit, Alive
<1>11. CASE CrashAfterStep(CrashAfterAt)
  BY <1>0, <1>11, SentinelAlone DEF CrashAfterStep, Exit, Alive
<1>12. CASE EndChunk(CrashAfterAt)
  BY <1>0, <1>12, SentinelAlone DEF EndChunk, ChunkExecuted, Alive
<1>13. CASE EmitOutcome
  BY <1>0, <1>13, SentinelAlone DEF EmitOutcome, ExitHeld, Alive
<1>14. CASE BeginVerification(Expected)
  BY <1>0, <1>14, SentinelAlone DEF BeginVerification, Alive
<1>15. CASE VerifyKey(Expected)
  BY <1>0, <1>15, SentinelAlone DEF VerifyKey, Alive
<1>16. CASE MismatchKey(Expected)
  BY <1>0, <1>16, SentinelAlone DEF MismatchKey, Exit, Alive
<1>17. CASE ShutDown
  BY <1>0, <1>17, SentinelAlone DEF ShutDown, Exit, Alive
<1>18. CASE Abort
  BY <1>0, <1>18, SentinelAlone DEF Abort, ExitHeld, Alive
<1>19. CASE \E k \in Keys : LoseValue(k)
  BY <1>19, SentinelAlone DEF LoseValue, Alive
<1>20. CASE LeaseExpires
  BY <1>20, SentinelAlone DEF LeaseExpires, Alive
<1>21. CASE TakeSentinel
  BY <1>0, <1>21 DEF TakeSentinel, RemoveFile, SentinelInv, WorkerInv, RunInv, controlVars, Alive
<1>22. CASE ConfigureFailpoint
  <2>1. /\ worker.phase = "Activating" /\ worker.failpoint # NoStep
        /\ worker' = [worker EXCEPT !.phase = "Opening"]
        /\ armed' = armed \cup {worker.failpoint} /\ sentinel' = sentinel
    BY <1>22 DEF ConfigureFailpoint
  <2>2. pending.step = worker.failpoint /\ sentinel = NoStep
    BY <2>1 DEF SentinelInv, Alive
  <2>3. worker.failpoint \in struck
    BY <2>1, <2>2 DEF RecordInv
  <2> QED
    BY <1>0, <2>1, <2>2, <2>3 DEF SentinelInv, controlVars, Alive
<1> QED
  BY <1>1, <1>2, <1>3, <1>4, <1>5, <1>6, <1>7, <1>8, <1>9, <1>10, <1>11, <1>12,
     <1>13, <1>14, <1>15, <1>16, <1>17, <1>18, <1>19, <1>20, <1>21, <1>22
  DEF Engine, WorkerStep

\* A recovery that still has its sentinel is left alone by whatever settles the
\* attempt.
LEMMA OpenSentinelStays ==
  ASSUME RunInv, SentinelInv, pc = "Settle", sentinel # NoStep
  PROVE  Recorded = pending /\ AfterCompletion = pending /\ Unstable = pending
BY RecordedType DEF SentinelInv, RunInv, TypeOK, Recorded, AfterCompletion, RecoveryDone, Unstable

LEMMA SettledKeepsSentinel ==
  ASSUME RunInv, SentinelInv, NEW p \in {Recorded, AfterCompletion, Unstable}, Settled(p),
         pc' \in {"Launch", "LoopExit", "Conclude"}, UNCHANGED sentinel, struck \subseteq struck'
  PROVE  SentinelInv'
<1>1. /\ pc = "Settle" /\ pending' = p /\ UNCHANGED <<readySeen, worker, armed>>
  BY DEF Settled
<1>2. ~Alive
  BY <1>1 DEF RunInv, WorkerInv
<1>3. sentinel # NoStep => p = pending
  BY <1>1, OpenSentinelStays
<1> QED
  BY <1>1, <1>2, <1>3 DEF SentinelInv, Alive

LEMMA StrikeKeepsSentinel ==
  ASSUME RunInv, RecordInv, SentinelInv, StrikeFault \/ FaultNotApplied
  PROVE  SentinelInv'
<1>1. /\ pc = "Settle" /\ status \in {"Crashed", "Interrupted"}
      /\ UNCHANGED <<readySeen, worker, armed>> /\ struck \subseteq struck'
      /\ pc' \in {"Launch", "LoopExit"}
      /\ \/ pending' = [step |-> NextFault, ready |-> NotReady] /\ sentinel' = AfterApplied(NextFault)
         \/ sentinel' = sentinel
  BY DEF StrikeFault, FaultNotApplied, Settled, ContinueAt, LeaveLoop
<1>2. ~Alive /\ readySeen # NotReady
  BY <1>1 DEF RunInv, WorkerInv, StopInv, PlannedStop
<1>3. sentinel = NoStep /\ armed \subseteq struck
  BY <1>1, <1>2 DEF SentinelInv
<1>4. NextFault \notin armed
  BY <1>1, <1>3, StrikeIsNew
<1>5. sentinel' # NoStep => sentinel' = NextFault /\ pending' = [step |-> NextFault, ready |-> NotReady]
  BY <1>1, <1>3 DEF AfterApplied
<1> QED
  BY <1>1, <1>2, <1>3, <1>4, <1>5 DEF SentinelInv, Alive

LEMMA SentinelStep == RunInv /\ RecordInv /\ SentinelInv /\ [Next]_vars => SentinelInv'
<1> SUFFICES ASSUME RunInv, RecordInv, SentinelInv, [Next]_vars PROVE SentinelInv'
  OBVIOUS
<1>0. TypeOK /\ WorkerType /\ WorkerInv
  BY DEF RunInv, TypeOK
<1>1. CASE Launch
  BY <1>1 DEF Launch, Spawned, FirstPhase, NoWorker, SentinelInv, failpointVars, Alive
<1>2. CASE ObserveReadiness \/ Reap
  <2>1. /\ pc = "Poll" /\ pc' \in {"Poll", "Settle"}
        /\ UNCHANGED <<pending, struck, workerVars>>
        /\ readySeen' = readySeen \/ worker.ready
    BY <1>2 DEF ObserveReadiness, Reap, EndPoll, LastLook
  <2> QED
    BY <2>1 DEF SentinelInv, workerVars, failpointVars, Alive
<1>3. CASE KillUnready \/ KillAtDeadline \/ KillStalled
  <2>1. /\ pc = "Poll" /\ pc' = "Settle" /\ UNCHANGED <<pending, struck, readySeen>>
        /\ UNCHANGED <<sentinel, armed>> /\ worker'.phase = "Exited"
    BY <1>0, <1>3 DEF KillUnready, KillAtDeadline, KillStalled, Kill, EndPoll, Killed, Exit,
                      failpointVars, Alive, WorkerType
  <2> QED
    BY <2>1 DEF SentinelInv, Alive
<1>4. CASE StrikeFault \/ FaultNotApplied
  BY <1>4, StrikeKeepsSentinel
<1>5. CASE RetryFenced \/ FinishSegments \/ RetrySegment \/ AbandonSegments
             \/ RetryVerifier \/ FinishVerifier
  <2>1. /\ \E p \in {Recorded, AfterCompletion, Unstable} : Settled(p)
        /\ pc' \in {"Launch", "LoopExit", "Conclude"} /\ UNCHANGED <<sentinel, struck>>
    BY <1>5 DEF RetryFenced, FinishSegments, RetrySegment, AbandonSegments, RetryVerifier,
                FinishVerifier, SettlesVerifier, ContinueAt, LeaveLoop
  <2> QED
    BY <2>1, SettledKeepsSentinel
<1>6. CASE ChooseVerifier
  BY <1>0, <1>6 DEF ChooseVerifier, SentinelInv, WorkerInv, workerVars, failpointVars, Alive
<1>7. CASE Conclude
  BY <1>0, <1>7 DEF Conclude, SentinelInv, WorkerInv, workerVars, failpointVars, Alive
<1>8. CASE Engine /\ pc = "Poll" /\ UNCHANGED controlVars
  BY <1>8, EngineKeepsSentinel
<1>9. CASE Tick \/ DeadlinePasses
  BY <1>9 DEF Tick, DeadlinePasses, SentinelInv, workerVars, failpointVars, Alive
<1>10. CASE UNCHANGED vars
  BY <1>10 DEF vars, controlVars, SentinelInv, workerVars, failpointVars, Alive
<1> QED
  BY <1>1, <1>2, <1>3, <1>4, <1>5, <1>6, <1>7, <1>8, <1>9, <1>10 DEF Next, Controller

\* The inductive invariant of a run's faults.
THEOREM FaultInvariant == Spec => [](RunInv /\ RecordInv /\ SentinelInv)
BY FaultInit, RunInvariant, RecordStep, SentinelStep, PTL DEF Spec

\* A sentinel that is still there, or half activated, belongs to the recovery that
\* is open: whatever a failpoint does is graded in the recovery from its own fault.
THEOREM FailpointOfOpenRecoveryTheorem == Spec => []FailpointOfOpenRecovery
<1>1. SentinelInv => FailpointOfOpenRecovery
  BY DEF SentinelInv, FailpointOfOpenRecovery
<1> QED
  BY <1>1, FaultInvariant, PTL

\* No second worker configures the failpoint of a fault, whatever dies between its
\* activation and the verdict.
THEOREM FailpointFiresOnceTheorem == Spec => FailpointFiresOnce
<1>1. RunInv /\ SentinelInv =>
        (worker.phase = "Activating" /\ worker'.phase = "Opening" => worker.failpoint \notin armed)
  <2>1. RunInv => NoStep \notin armed
    BY PlanTypes DEF RunInv, TypeOK, WorkerType
  <2> QED
    BY <2>1 DEF SentinelInv, Alive
<1> QED
  BY <1>1, FaultInvariant, PTL DEF FailpointFiresOnce

-----------------------------------------------------------------------------
(* The report's view of the faults                                          *)

\* FaultView, of any events and any open fault.
View(es, open, f) ==
  LET graded == {n \in DOMAIN es : es[n].step = f}
  IN  IF graded = {} THEN IF open = f THEN "Open" ELSE "Planned"
      ELSE IF Cardinality(graded) = 1 /\ open # f
      THEN es[Max(graded)].outcome ELSE "Ambiguous"
Views(es, open) == [f \in DOMAIN FaultAt |-> View(es, open, f)]

LEMMA ViewUngraded ==
  ASSUME NEW es, NEW open, NEW f, f \notin StepsOf(es)
  PROVE  View(es, open, f) = IF open = f THEN "Open" ELSE "Planned"
BY DEF View, StepsOf

LEMMA ViewGraded ==
  ASSUME NEW es \in Seq(Event), Distinct(es), NEW open, NEW n \in DOMAIN es,
         es[n].step # open
  PROVE  View(es, open, es[n].step) = es[n].outcome
<1> DEFINE graded == {m \in DOMAIN es : es[m].step = es[n].step}
<1>1. graded = {n}
  BY DEF Distinct
<1>2. Cardinality(graded) = 1
  BY <1>1, FS_Singleton
<1>3. n \in Nat
  OBVIOUS
<1>4. Max(graded) = n
  BY <1>1, <1>3 DEF Max
<1> HIDE DEF graded
<1>5. graded # {}
  BY <1>1
<1> QED
  BY <1>2, <1>4, <1>5 DEF View, graded

\* One more event changes the view of its own fault only.
LEMMA ViewsAppend ==
  ASSUME NEW es \in Seq(Event), Distinct(es), NEW e \in Event, e.step \notin StepsOf(es),
         NEW open \in {NoStep, e.step}
  PROVE  Views(Append(es, e), NoStep) = [Views(es, open) EXCEPT ![e.step] = e.outcome]
<1> DEFINE more == Append(es, e)
<1>1. /\ more \in Seq(Event) /\ Distinct(more) /\ StepsOf(more) = StepsOf(es) \cup {e.step}
      /\ \A n \in DOMAIN es : n \in DOMAIN more /\ more[n] = es[n]
      /\ \E n \in DOMAIN more : more[n] = e
  BY AppendEvent
<1>2. NoStep \notin StepsOf(more) /\ e.step \in DOMAIN FaultAt /\ e.step # NoStep
  BY <1>1, StepsOfEvents
<1> HIDE DEF more
<1>3. View(more, NoStep, e.step) = e.outcome
  <2>1. PICK n \in DOMAIN more : more[n] = e
    BY <1>1
  <2>2. View(more, NoStep, more[n].step) = more[n].outcome
    BY <1>1, <1>2, <2>1, ViewGraded
  <2> QED
    BY <2>1, <2>2
<1>4. ASSUME NEW f \in DOMAIN FaultAt, f # e.step
      PROVE  View(more, NoStep, f) = View(es, open, f)
  <2>1. f # NoStep
    BY PlanTypes
  <2>2. CASE f \in StepsOf(es)
    <3>1. PICK n \in DOMAIN es : es[n].step = f
      BY <2>2 DEF StepsOf
    <3>2. n \in DOMAIN more /\ more[n] = es[n]
      BY <1>1
    <3>3. View(more, NoStep, more[n].step) = more[n].outcome
      BY <1>1, <2>1, <3>1, <3>2, ViewGraded
    <3>4. View(es, open, es[n].step) = es[n].outcome
      BY <1>4, <2>1, <3>1, ViewGraded
    <3> QED
      BY <3>1, <3>2, <3>3, <3>4
  <2>3. CASE f \notin StepsOf(es)
    BY <1>1, <1>4, <2>1, <2>3, ViewUngraded
  <2> QED
    BY <2>2, <2>3
<1>5. Views(more, NoStep) = [Views(es, open) EXCEPT ![e.step] = e.outcome]
  BY <1>2, <1>3, <1>4 DEF Views
<1> QED
  BY <1>5 DEF more

LEMMA ViewsOpen ==
  ASSUME NEW es \in Seq(Event), Distinct(es), NEW f \in DOMAIN FaultAt, f \notin StepsOf(es)
  PROVE  Views(es, f) = [Views(es, NoStep) EXCEPT ![f] = "Open"]
<1>1. View(es, f, f) = "Open"
  BY ViewUngraded
<1>2. ASSUME NEW g \in DOMAIN FaultAt, g # f
      PROVE  View(es, f, g) = View(es, NoStep, g)
  <2>1. g # NoStep
    BY PlanTypes
  <2>2. CASE g \in StepsOf(es)
    <3>1. PICK n \in DOMAIN es : es[n].step = g
      BY <2>2 DEF StepsOf
    <3> QED
      BY <1>2, <2>1, <3>1, ViewGraded
  <2>3. CASE g \notin StepsOf(es)
    BY <1>2, <2>1, <2>3, ViewUngraded
  <2> QED
    BY <2>2, <2>3
<1> QED
  BY <1>1, <1>2 DEF Views

\* Without an open fault, none looks open.
LEMMA NoneOpen ==
  ASSUME NEW es \in Seq(Event), Distinct(es), NEW f \in DOMAIN FaultAt
  PROVE  /\ View(es, NoStep, f) \in RecoveryOutcomes \cup {"Planned"}
         /\ View(es, NoStep, f) # "Planned" =>
              \E n \in DOMAIN es : View(es, NoStep, f) = es[n].outcome
         /\ View(es, NoStep, f) # "Open"
<1>1. f # NoStep
  BY PlanTypes
<1>2. CASE f \in StepsOf(es)
  <2>1. PICK n \in DOMAIN es : es[n].step = f
    BY <1>2 DEF StepsOf
  <2>2. es[n] \in Event
    OBVIOUS
  <2>3. View(es, NoStep, f) = es[n].outcome
    BY <1>1, <2>1, ViewGraded
  <2> QED
    BY <2>2, <2>3 DEF Event, RecoveryOutcomes
<1>3. CASE f \notin StepsOf(es)
  BY <1>1, <1>3, ViewUngraded
<1> QED
  BY <1>2, <1>3

-----------------------------------------------------------------------------
(* The run implements FaultRecovery                                         *)

VerdictInv == pc # "Done" => verdict = Undecided

LEMMA VerdictStep == VerdictInv /\ [Next]_vars => VerdictInv'
BY DEF VerdictInv, Next, Controller, vars, controlVars, Launch, ObserveReadiness, Reap, KillUnready,
       KillAtDeadline, KillStalled, Kill, EndPoll, RetryFenced, StrikeFault, FaultNotApplied,
       FinishSegments, RetrySegment, AbandonSegments, ChooseVerifier, RetryVerifier,
       FinishVerifier, Conclude, Tick, DeadlinePasses, Settled

\* Grading the open recovery, if there is one.
LEMMA GradedViews ==
  ASSUME NEW es \in Seq(Event), Distinct(es), NEW open \in DOMAIN FaultAt \cup {NoStep},
         open \notin StepsOf(es), NEW grade \in RecoveryOutcomes
  PROVE  Faulting!Graded(Views(es, open), grade) =
           IF open = NoStep THEN Views(es, NoStep)
           ELSE Views(Append(es, [step |-> open, outcome |-> grade]), NoStep)
<1>1. CASE open = NoStep
  <2>1. \A f \in DOMAIN FaultAt : Views(es, NoStep)[f] # "Open"
    BY NoneOpen DEF Views
  <2> QED
    BY <1>1, <2>1 DEF Faulting!Graded, Views
<1>2. CASE open # NoStep
  <2> DEFINE e == [step |-> open, outcome |-> grade]
  <2>1. e \in Event /\ e.step = open /\ e.outcome = grade
    BY <1>2 DEF Event
  <2>2. Views(Append(es, e), NoStep) = [Views(es, open) EXCEPT ![open] = grade]
    BY <2>1, ViewsAppend
  <2>3. Views(es, open) = [Views(es, NoStep) EXCEPT ![open] = "Open"]
    BY <1>2, ViewsOpen
  <2>4. \A f \in DOMAIN FaultAt : Views(es, NoStep)[f] # "Open"
    BY NoneOpen DEF Views
  <2>5. Views(es, NoStep) = [f \in DOMAIN FaultAt |-> Views(es, NoStep)[f]]
    BY DEF Views
  <2> HIDE DEF e
  <2> QED
    BY <1>2, <2>2, <2>3, <2>4, <2>5 DEF Faulting!Graded, e
<1> QED
  BY <1>1, <1>2

LEMMA FaultViewIsView ==
  /\ [f \in DOMAIN FaultAt |-> FaultView(f)] = Views(events, pending.step)
  /\ [f \in DOMAIN FaultAt |-> FaultView(f)]' = Views(events', pending'.step)
BY DEF Views, View, FaultView

\* What leaves the record and the verdict alone is a stutter of the report.
LEMMA AbstractStutter ==
  ASSUME UNCHANGED <<events, verdict>>, pending'.step = pending.step
  PROVE  UNCHANGED Faulting!abstractVars
BY FaultViewIsView DEF Faulting!abstractVars

LEMMA FaultInitMapped == Init => Faulting!AbstractInit
<1> SUFFICES ASSUME Init PROVE Faulting!AbstractInit
  OBVIOUS
<1>1. events = <<>> /\ pending.step = NoStep /\ verdict = Undecided
  BY DEF Init, NoRecovery
<1>2. \A f \in DOMAIN FaultAt : View(events, NoStep, f) = "Planned"
  BY <1>1, PlanTypes, ViewUngraded DEF StepsOf
<1> QED
  BY <1>1, <1>2, FaultViewIsView DEF Faulting!AbstractInit, Views

\* A completed recovery is a graded one.
LEMMA CompletedViews ==
  ASSUME RunInv, RecordInv, Recovering => RecoveryDone
  PROVE  \E grade \in RecoveryOutcomes :
           Faulting!Graded(Views(events, pending.step), grade) = Views(Completed, NoStep)
<1>1. /\ events \in Seq(Event) /\ Distinct(events)
      /\ pending.step \in DOMAIN FaultAt \cup {NoStep} /\ pending.step \notin StepsOf(events)
      /\ RecoveryDone => Recovering
  BY RecordedType DEF RunInv, TypeOK, RecordInv
<1> DEFINE grade == RecoveryOutcome(Recorded.ready, Budget)
<1>2. grade \in RecoveryOutcomes
  BY OutcomeType
<1> HIDE DEF grade
<1>3. Faulting!Graded(Views(events, pending.step), grade) =
        IF pending.step = NoStep THEN Views(events, NoStep)
        ELSE Views(Append(events, [step |-> pending.step, outcome |-> grade]), NoStep)
  BY <1>1, <1>2, GradedViews
<1>4. CASE Recovering
  BY <1>2, <1>3, <1>4, CompletedRecord DEF Recovering, grade
<1>5. CASE ~Recovering
  BY <1>1, <1>2, <1>3, <1>5, CompletedRecord DEF Recovering
<1> QED
  BY <1>4, <1>5

LEMMA StrikeMapped ==
  ASSUME RunInv, RecordInv, VerdictInv, StrikeFault
  PROVE  Faulting!AbstractNext
<1>1. /\ pc = "Settle" /\ status \in {"Crashed", "Interrupted"}
      /\ pending'.step = NextFault /\ events' = Completed /\ verdict' = verdict
      /\ verdict = Undecided
  BY DEF StrikeFault, Settled, VerdictInv
<1>2. /\ NextFault \in DOMAIN FaultAt /\ NextFault \notin struck
      /\ struck = StepsOf(Completed) /\ (Recovering => RecoveryDone)
      /\ Completed \in Seq(Event) /\ Distinct(Completed)
  BY <1>1, StrikeIsNew, CompletedRecord
<1>3. PICK grade \in RecoveryOutcomes :
        Faulting!Graded(Views(events, pending.step), grade) = Views(Completed, NoStep)
  BY <1>2, CompletedViews
<1>4. Views(Completed, NextFault) = [Views(Completed, NoStep) EXCEPT ![NextFault] = "Open"]
  BY <1>2, ViewsOpen
<1>5. Views(events, pending.step)[NextFault] = "Planned"
  <2>1. NextFault \notin StepsOf(events) /\ NextFault # pending.step
    BY <1>2, PlanTypes DEF RecordInv
  <2> QED
    BY <1>2, <2>1, ViewUngraded DEF Views
<1>6. Faulting!Strike(NextFault, grade)
  BY <1>1, <1>3, <1>4, <1>5, FaultViewIsView DEF Faulting!Strike
<1>7. grade \in Faulting!RecoveryOutcomes
  BY <1>3 DEF RecoveryOutcomes, Faulting!RecoveryOutcomes
<1> QED
  BY <1>2, <1>6, <1>7 DEF Faulting!AbstractNext

LEMMA MisfireMapped ==
  ASSUME RunInv, RecordInv, VerdictInv, FaultNotApplied
  PROVE  Faulting!AbstractNext
<1> DEFINE e == [step |-> NextFault, outcome |-> "RecoveryFailed"]
<1>1. /\ pc = "Settle" /\ status \in {"Crashed", "Interrupted"}
      /\ pending'.step = NoStep /\ events' = Append(Completed, e) /\ verdict' = verdict
      /\ verdict = Undecided
  BY DEF FaultNotApplied, Settled, VerdictInv, NoRecovery
<1>2. /\ NextFault \in DOMAIN FaultAt /\ NextFault \notin struck
      /\ struck = StepsOf(Completed) /\ (Recovering => RecoveryDone)
      /\ Completed \in Seq(Event) /\ Distinct(Completed)
  BY <1>1, StrikeIsNew, CompletedRecord
<1>3. PICK grade \in RecoveryOutcomes :
        Faulting!Graded(Views(events, pending.step), grade) = Views(Completed, NoStep)
  BY <1>2, CompletedViews
<1>4. e \in Event /\ e.step = NextFault /\ e.outcome = "RecoveryFailed"
  BY <1>2 DEF Event, RecoveryOutcomes
<1>5. Views(Append(Completed, e), NoStep)
        = [Views(Completed, NoStep) EXCEPT ![NextFault] = "RecoveryFailed"]
  BY <1>2, <1>4, ViewsAppend
<1>6. Views(events, pending.step)[NextFault] = "Planned"
  <2>1. NextFault \notin StepsOf(events) /\ NextFault # pending.step
    BY <1>2, PlanTypes DEF RecordInv
  <2> QED
    BY <1>2, <2>1, ViewUngraded DEF Views
<1> HIDE DEF e
<1>7. Faulting!Misfire(NextFault, grade)
  BY <1>1, <1>3, <1>5, <1>6, FaultViewIsView DEF Faulting!Misfire
<1>8. grade \in Faulting!RecoveryOutcomes
  BY <1>3 DEF RecoveryOutcomes, Faulting!RecoveryOutcomes
<1> QED
  BY <1>2, <1>7, <1>8 DEF Faulting!AbstractNext

LEMMA CompletionMapped ==
  ASSUME RunInv, RecordInv, VerdictInv, pc = "Settle", UNCHANGED verdict,
         events' = Completed, pending' = AfterCompletion
  PROVE  Faulting!AbstractNext \/ UNCHANGED Faulting!abstractVars
<1>1. TypeOK /\ StopInv /\ verdict = Undecided
  BY DEF RunInv, VerdictInv
<1>2. CASE RecoveryDone
  <2>1. /\ pending'.step = NoStep /\ pending.step \in DOMAIN FaultAt
    BY <1>1, <1>2, RecordedType, CompletedRecord DEF NoRecovery
  <2>2. PICK grade \in RecoveryOutcomes :
          Faulting!Graded(Views(events, pending.step), grade) = Views(Completed, NoStep)
    BY <1>2, CompletedViews
  <2>3. pending.step \in Faulting!Open
    <3>1. View(events, pending.step, pending.step) = "Open"
      BY ViewUngraded DEF RecordInv
    <3> QED
      BY <2>1, <3>1, FaultViewIsView DEF Faulting!Open, Views
  <2>4. Faulting!Grade(grade)
    BY <1>1, <2>1, <2>2, <2>3, FaultViewIsView DEF Faulting!Grade
  <2>5. grade \in Faulting!RecoveryOutcomes
    BY <2>2 DEF RecoveryOutcomes, Faulting!RecoveryOutcomes
  <2> QED
    BY <2>4, <2>5 DEF Faulting!AbstractNext
<1>3. CASE ~RecoveryDone
  BY <1>1, <1>3, RecordedType, CompletedRecord, AbstractStutter
<1> QED
  BY <1>2, <1>3

\* The verdict passes only if every recovery on record succeeded.
LEMMA ConcludeMapped ==
  ASSUME RunInv, RecordInv, VerdictInv, Conclude
  PROVE  Faulting!AbstractNext
<1>1. /\ events \in Seq(Event) /\ Distinct(events)
      /\ pending.step \in DOMAIN FaultAt \cup {NoStep} /\ pending.step \notin StepsOf(events)
      /\ verdict = Undecided /\ pending'.step = NoStep /\ events' = FinalEvents
      /\ verdict' = ClassifyVerdict({FinalLedger[i] : i \in Steps},
                                    {FinalEvents[n].outcome : n \in DOMAIN FinalEvents},
                                    FinalIncomplete)
  BY DEF RunInv, TypeOK, RecordInv, VerdictInv, Conclude, NoRecovery
<1>2. LeftPending \in RecoveryOutcomes /\ LeftPending \notin Faulting!Recovered
  BY DEF LeftPending, RecoveryOutcomes, Faulting!Recovered
<1>3. Faulting!Graded(Views(events, pending.step), LeftPending) = Views(FinalEvents, NoStep)
  BY <1>1, <1>2, GradedViews DEF FinalEvents, Recovering
<1>4. verdict' # Undecided
  BY <1>1 DEF ClassifyVerdict, Undecided
<1>5. ASSUME verdict' \in Passed, NEW f \in DOMAIN FaultAt
      PROVE  Views(FinalEvents, NoStep)[f] \in Faulting!Recovered \cup {"Planned"}
  <2>1. /\ ~FinalIncomplete
        /\ \A n \in DOMAIN FinalEvents :
             FinalEvents[n].outcome \notin {"HardDeadlineExceeded", "RecoveryFailed"}
    BY <1>1, <1>5 DEF ClassifyVerdict, Passed
  <2>2. FinalEvents = events
    BY <2>1 DEF FinalIncomplete, FinalEvents
  <2> QED
    BY <1>1, <2>1, <2>2, NoneOpen DEF Views, Faulting!Recovered, RecoveryOutcomes
<1>6. Faulting!Finish(LeftPending)
  BY <1>1, <1>2, <1>3, <1>4, <1>5, FaultViewIsView DEF Faulting!Finish
<1>7. LeftPending \in Faulting!RecoveryOutcomes
  BY <1>2 DEF RecoveryOutcomes, Faulting!RecoveryOutcomes
<1> QED
  BY <1>6, <1>7 DEF Faulting!AbstractNext

LEMMA StepMapped ==
  RunInv /\ RecordInv /\ VerdictInv /\ [Next]_vars
    => [Faulting!AbstractNext]_(Faulting!abstractVars)
<1> SUFFICES ASSUME RunInv, RecordInv, VerdictInv, [Next]_vars
             PROVE  Faulting!AbstractNext \/ UNCHANGED Faulting!abstractVars
  OBVIOUS
<1>0. TypeOK /\ StopInv
  BY DEF RunInv
<1>1. CASE Launch \/ ObserveReadiness \/ Reap \/ KillUnready \/ KillAtDeadline \/ KillStalled
             \/ ChooseVerifier \/ Tick \/ DeadlinePasses
  <2>1. UNCHANGED <<events, verdict, pending>>
    BY <1>1 DEF Launch, ObserveReadiness, Reap, KillUnready, KillAtDeadline, KillStalled,
                Kill, EndPoll, ChooseVerifier, Tick, DeadlinePasses
  <2> QED
    BY <2>1, AbstractStutter
<1>2. CASE RetryFenced \/ RetrySegment \/ AbandonSegments \/ RetryVerifier
  <2>1. UNCHANGED <<events, verdict>> /\ pending' \in {Recorded, Unstable}
    BY <1>2 DEF RetryFenced, RetrySegment, AbandonSegments, RetryVerifier, Settled
  <2> QED
    BY <1>0, <2>1, RecordedType, AbstractStutter
<1>3. CASE StrikeFault
  BY <1>3, StrikeMapped
<1>4. CASE FaultNotApplied
  BY <1>4, MisfireMapped
<1>5. CASE FinishSegments
  BY <1>5, CompletionMapped DEF FinishSegments, Settled
<1>6. CASE FinishVerifier
  <2>1. /\ pc = "Settle" /\ UNCHANGED verdict
        /\ \/ pending' \in {Recorded, Unstable} /\ UNCHANGED events
           \/ pending' = AfterCompletion /\ events' = Completed
    BY <1>6 DEF FinishVerifier, Settled
  <2> QED
    BY <1>0, <2>1, RecordedType, AbstractStutter, CompletionMapped
<1>7. CASE Conclude
  BY <1>7, ConcludeMapped
<1>8. CASE UNCHANGED controlVars
  BY <1>8, AbstractStutter DEF controlVars
<1> QED
  BY <1>1, <1>2, <1>3, <1>4, <1>5, <1>6, <1>7, <1>8 DEF Next, Controller, vars

\* Through retries, kills and crashes, a fault strikes once, its recovery is
\* graded once and for good, and a passing run recovered from all that struck.
THEOREM FaultProtocolTheorem == Spec => FaultProtocol
<1>1. Init => VerdictInv
  BY DEF Init, VerdictInv
<1> QED
  BY <1>1, FaultInitMapped, FaultInvariant, VerdictStep, StepMapped, PTL
  DEF Spec, FaultProtocol, Faulting!Protocol

-----------------------------------------------------------------------------
(* No worker starts against an orphaned acquisition lock                    *)

\* A lock file exists only where the controller has yet to settle the worker
\* that left it, and that worker ended in a way that makes it clean up.
LockInv ==
  /\ {"phase", "code"} \subseteq DOMAIN worker
  /\ lockFile \in BOOLEAN
  /\ lockFile =>
       \/ pc = "Poll" /\ ~Alive /\ CleansLock(worker.code)
       \/ pc = "Settle" /\ CleansLock(status)

LEMMA LockInit == Init => LockInv
BY DEF Init, WorkerInit, NoWorker, LockInv

\* The worker or the engine takes a step: only a worker that dies opening the
\* engine leaves the lock, and it dies as Failed.
LEMMA LockEngineStep ==
  ASSUME LockInv, Engine, pc = "Poll", UNCHANGED controlVars
  PROVE  LockInv'
<1> USE DEF LockInv, Alive, Exit, ExitHeld, CleansLock, controlVars
<1>1. CASE OpenFenced
  BY <1>1 DEF OpenFenced
<1>2. CASE OpenReady
  BY <1>2 DEF OpenReady
<1>3. CASE CrashOnStep(CrashAt)
  BY <1>3 DEF CrashOnStep
<1>4. CASE InterruptOnStep(InterruptAt)
  BY <1>4 DEF InterruptOnStep
<1>5. CASE BeginChunk(CrashAt, InterruptAt)
  BY <1>5 DEF BeginChunk
<1>6. CASE RejectChunk(InterruptAt)
  BY <1>6 DEF RejectChunk
<1>7. CASE \E tx \in worker.todo : CommitTransaction(tx)
  BY <1>7 DEF CommitTransaction
<1>8. CASE \E tx \in worker.todo : FailTransaction(tx)
  BY <1>8 DEF FailTransaction
<1>9. CASE CrashThreadExits
  BY <1>9 DEF CrashThreadExits
<1>10. CASE ChunkUnreadable
  BY <1>10 DEF ChunkUnreadable, ChunkExecuted
<1>11. CASE CrashAfterStep(CrashAfterAt)
  BY <1>11 DEF CrashAfterStep, ChunkExecuted
<1>12. CASE EndChunk(CrashAfterAt)
  BY <1>12 DEF EndChunk, ChunkExecuted
<1>13. CASE EmitOutcome
  BY <1>13 DEF EmitOutcome
<1>14. CASE BeginVerification(Expected)
  BY <1>14 DEF BeginVerification
<1>15. CASE VerifyKey(Expected)
  BY <1>15 DEF VerifyKey
<1>16. CASE MismatchKey(Expected)
  BY <1>16 DEF MismatchKey
<1>17. CASE ShutDown
  BY <1>17 DEF ShutDown
<1>18. CASE Abort
  BY <1>18 DEF Abort, DiesHolding
<1>19. CASE \E k \in Keys : LoseValue(k)
  BY <1>19 DEF LoseValue
<1>20. CASE LeaseExpires
  BY <1>20 DEF LeaseExpires
<1>21. CASE TakeSentinel \/ ConfigureFailpoint
  BY <1>21 DEF TakeSentinel, ConfigureFailpoint
<1> QED BY <1>1, <1>2, <1>3, <1>4, <1>5, <1>6, <1>7, <1>8, <1>9, <1>10, <1>11,
           <1>12, <1>13, <1>14, <1>15, <1>16, <1>17, <1>18, <1>19, <1>20, <1>21
        DEF Engine, WorkerStep

\* A killed worker may leave the lock, and its status makes it cleaned up.
LEMMA LockKill ==
  ASSUME LockInv, Kill
  PROVE  LockInv'
<1>1. CASE Alive
  BY <1>1 DEF LockInv, Kill, Killed, EndPoll, Exit, DiesHolding, Alive, CleansLock
<1>2. CASE ~Alive
  BY <1>2 DEF LockInv, Kill, Killed, EndPoll, CleansLock
<1> QED BY <1>1, <1>2

\* Settling an attempt removes the lock it left.
LEMMA LockSettled ==
  ASSUME LockInv, NEW p, Settled(p)
  PROVE  lockFile' = FALSE /\ worker' = worker
BY DEF LockInv, Settled

LEMMA LockStep == LockInv /\ [Next]_vars => LockInv'
<1> SUFFICES ASSUME LockInv, [Next]_vars PROVE LockInv'
  OBVIOUS
<1>1. CASE Launch
  BY <1>1 DEF Launch, Spawned, FirstPhase, NoWorker, LockInv, Alive
<1>2. CASE ObserveReadiness
  BY <1>2 DEF ObserveReadiness, workerVars, LockInv, Alive
<1>3. CASE Reap
  BY <1>3 DEF Reap, EndPoll, workerVars, LockInv, Alive
<1>4. CASE KillUnready \/ KillAtDeadline \/ KillStalled
  BY <1>4, LockKill DEF KillUnready, KillAtDeadline, KillStalled
<1>5. CASE RetryFenced \/ StrikeFault \/ FaultNotApplied \/ FinishSegments
             \/ RetrySegment \/ AbandonSegments \/ RetryVerifier \/ FinishVerifier
  <2>1. \E p : Settled(p)
    BY <1>5 DEF RetryFenced, StrikeFault, FaultNotApplied, FinishSegments,
                RetrySegment, AbandonSegments, RetryVerifier, FinishVerifier
  <2> QED BY <2>1, LockSettled DEF LockInv
<1>6. CASE ChooseVerifier
  BY <1>6 DEF ChooseVerifier, workerVars, LockInv
<1>7. CASE Conclude
  BY <1>7 DEF Conclude, workerVars, LockInv
<1>8. CASE Engine /\ pc = "Poll" /\ UNCHANGED controlVars
  BY <1>8, LockEngineStep
<1>9. CASE Tick \/ DeadlinePasses
  BY <1>9 DEF Tick, DeadlinePasses, workerVars, LockInv, Alive
<1>10. CASE UNCHANGED vars
  BY <1>10 DEF vars, controlVars, workerVars, LockInv, Alive
<1> QED BY <1>1, <1>2, <1>3, <1>4, <1>5, <1>6, <1>7, <1>8, <1>9, <1>10
        DEF Next, Controller

\* Whatever the workers do and however often one is killed while it acquires
\* the lease, the next one is never started against its lock file.
THEOREM NoOrphanedLockTheorem == Spec => []NoOrphanedLock
<1>1. LockInv => NoOrphanedLock
  BY DEF LockInv, NoOrphanedLock
<1> QED BY <1>1, LockInit, LockStep, PTL DEF Spec

-----------------------------------------------------------------------------
(* The grade is that of the attempt that completes the recovery             *)

\* Where only an open that was refused names the lease, a worker that names it was
\* not ready, and every other failure resets the readiness it showed: nothing is
\* pending that an earlier attempt measured.
ReadyInv ==
  /\ pending.ready = NotReady
  /\ pc \in {"Poll", "Settle"} =>
       /\ readySeen # NotReady => worker.ready
       /\ worker.held => ~worker.ready
       /\ worker.phase \in {"Activating", "Opening"} => ~worker.ready /\ ~worker.held

LEMMA ReadyInit == Init => ReadyInv
BY DEF Init, WorkerInit, NoWorker, NoRecovery, ReadyInv

LEMMA EngineKeepsReady ==
  ASSUME RunInv, ReadyInv, MayReportHeld = FALSE, Engine, pc = "Poll", UNCHANGED controlVars
  PROVE  ReadyInv'
<1>0. /\ {"phase", "failpoint", "index", "todo", "failed", "unreported", "unread", "doomed",
          "ready", "held", "code"} \subseteq DOMAIN worker
      /\ worker.ready \in BOOLEAN /\ worker.held \in BOOLEAN /\ WorkerInv
  BY DEF RunInv, TypeOK, WorkerType
<1>h. \A held \in HeldTexts : held = FALSE
  BY DEF HeldTexts
<1>c. UNCHANGED <<pc, pending, readySeen>>
  BY DEF controlVars
<1>1. CASE OpenFenced
  BY <1>0, <1>c, <1>1 DEF OpenFenced, ExitHeld, ReadyInv
<1>2. CASE OpenReady
  BY <1>0, <1>c, <1>2 DEF OpenReady, ReadyInv
<1>3. CASE \/ CrashOnStep(CrashAt) \/ InterruptOnStep(InterruptAt) \/ RejectChunk(InterruptAt)
           \/ CrashThreadExits \/ ChunkUnreadable \/ CrashAfterStep(CrashAfterAt)
           \/ MismatchKey(Expected) \/ ShutDown
  <2>1. /\ worker'.phase = "Exited" /\ worker'.ready = worker.ready
        /\ worker'.held = worker.held
    BY <1>0, <1>3 DEF CrashOnStep, InterruptOnStep, RejectChunk, CrashThreadExits,
       ChunkUnreadable, CrashAfterStep, MismatchKey, ShutDown, Exit
  <2> QED
    BY <1>c, <2>1 DEF ReadyInv
<1>4. CASE Abort
  <2>1. PICK held \in HeldTexts : ExitHeld("Failed", held)
    BY <1>4 DEF Abort
  <2>2. /\ worker'.phase = "Exited" /\ worker'.ready = worker.ready /\ worker'.held = FALSE
    BY <1>0, <1>h, <2>1 DEF ExitHeld
  <2> QED
    BY <1>c, <2>2 DEF ReadyInv
<1>5. CASE EmitOutcome
  <2>1. /\ worker'.phase \notin {"Activating", "Opening"} /\ worker'.ready = worker.ready
        /\ worker'.held = worker.held \/ worker'.held = FALSE
    BY <1>0, <1>h, <1>5 DEF EmitOutcome, ExitHeld
  <2> QED
    BY <1>c, <2>1 DEF ReadyInv
<1>6. CASE \/ BeginChunk(CrashAt, InterruptAt) \/ EndChunk(CrashAfterAt)
           \/ (\E tx \in worker.todo : CommitTransaction(tx) \/ FailTransaction(tx))
           \/ BeginVerification(Expected) \/ VerifyKey(Expected)
  <2>1. /\ worker'.phase \notin {"Activating", "Opening"} /\ worker'.ready = worker.ready
        /\ worker'.held = worker.held
    BY <1>0, <1>6 DEF BeginChunk, EndChunk, CommitTransaction, FailTransaction,
       BeginVerification, VerifyKey, ChunkExecuted
  <2> QED
    BY <1>c, <2>1 DEF ReadyInv
<1>7. CASE \/ TakeSentinel \/ ConfigureFailpoint \/ LeaseExpires
           \/ (\E k \in Keys : LoseValue(k))
  <2>1. /\ worker.phase = worker'.phase \/ worker.phase \in {"Activating", "Opening"}
        /\ worker'.ready = worker.ready /\ worker'.held = worker.held
    BY <1>0, <1>7 DEF TakeSentinel, ConfigureFailpoint, LeaseExpires, LoseValue
  <2> QED
    BY <1>c, <2>1 DEF ReadyInv
<1> QED
  BY <1>1, <1>2, <1>3, <1>4, <1>5, <1>6, <1>7 DEF Engine, WorkerStep

\* What a settlement records is what this attempt showed.
LEMMA RecordedHere ==
  ASSUME RunInv, ReadyInv, pc = "Settle"
  PROVE  /\ worker.held => Recorded = pending
         /\ AfterCompletion.ready = NotReady /\ Unstable.ready = NotReady
         /\ RecoveryDone => Recorded.ready = readySeen /\ readySeen # NotReady
<1>1. TypeOK /\ StopInv
  BY DEF RunInv
<1>2. pending \in PendingRecovery
  BY <1>1 DEF TypeOK, PendingRecovery
<1>3. Recorded = IF Recovering THEN [pending EXCEPT !.ready = readySeen] ELSE pending
  BY DEF Recorded, ReadyInv
<1>4. worker.held => readySeen = NotReady
  BY DEF ReadyInv
<1>5. worker.held => Recorded = pending
  BY <1>2, <1>3, <1>4 DEF ReadyInv, PendingRecovery
<1>6. RecoveryDone => Recorded.ready = readySeen /\ readySeen # NotReady
  BY <1>2, <1>3 DEF RecoveryDone, ReadyInv, PendingRecovery
<1>7. AfterCompletion.ready = NotReady
  BY DEF AfterCompletion, RecoveryDone, NoRecovery
<1>8. Unstable.ready = NotReady
  BY <1>1, RecordedType
<1> QED
  BY <1>5, <1>6, <1>7, <1>8

LEMMA ReadyStep ==
  ASSUME MayReportHeld = FALSE
  PROVE  RunInv /\ ReadyInv /\ [Next]_vars => ReadyInv'
<1> SUFFICES ASSUME RunInv, ReadyInv, [Next]_vars PROVE ReadyInv'
  OBVIOUS
<1>0. {"phase", "code", "ready", "held"} \subseteq DOMAIN worker /\ TypeOK
  BY DEF RunInv, TypeOK, WorkerType
<1>1. CASE Launch
  BY <1>1 DEF Launch, Spawned, NoWorker, FirstPhase, ReadyInv
<1>2. CASE ObserveReadiness
  BY <1>2 DEF ObserveReadiness, workerVars, ReadyInv
<1>3. CASE Reap
  BY <1>3 DEF Reap, EndPoll, LastLook, workerVars, ReadyInv
<1>4. CASE KillUnready \/ KillAtDeadline \/ KillStalled
  <2>1. /\ pc = "Poll" /\ UNCHANGED <<pending, readySeen>>
        /\ worker'.phase = worker.phase \/ worker'.phase = "Exited"
        /\ worker'.ready = worker.ready /\ worker'.held = worker.held
    BY <1>0, <1>4 DEF KillUnready, KillAtDeadline, KillStalled, Kill, EndPoll, Killed, Exit
  <2> QED
    BY <2>1 DEF ReadyInv
<1>5. CASE RetryFenced \/ StrikeFault \/ FaultNotApplied \/ FinishSegments
             \/ RetrySegment \/ AbandonSegments \/ RetryVerifier \/ FinishVerifier
  <2>1. pc = "Settle" /\ pc' \notin {"Poll", "Settle"}
    BY <1>5 DEF RetryFenced, StrikeFault, FaultNotApplied, FinishSegments, RetrySegment,
       AbandonSegments, RetryVerifier, FinishVerifier, Settled, ContinueAt, LeaveLoop
  <2>2. CASE RetryFenced \/ RetryVerifier
    BY <2>1, <2>2, RecordedHere DEF RetryFenced, RetryVerifier, FencedRetry, Settled, ReadyInv
  <2>3. CASE StrikeFault \/ FaultNotApplied
    BY <2>1, <2>3 DEF StrikeFault, FaultNotApplied, Settled, NoRecovery, ReadyInv
  <2>4. CASE FinishSegments \/ RetrySegment \/ AbandonSegments
    BY <2>1, <2>4, RecordedHere DEF FinishSegments, RetrySegment, AbandonSegments, Settled,
       ReadyInv
  <2>5. CASE FinishVerifier
    <3>1. \/ worker.held /\ pending' = Recorded
          \/ pending' = AfterCompletion
          \/ pending' = Unstable
      BY <2>5 DEF FinishVerifier, Settled
    <3> QED
      BY <2>1, <3>1, RecordedHere DEF ReadyInv
  <2> QED
    BY <1>5, <2>2, <2>3, <2>4, <2>5
<1>6. CASE ChooseVerifier
  BY <1>6 DEF ChooseVerifier, ReadyInv
<1>7. CASE Conclude
  BY <1>7 DEF Conclude, NoRecovery, ReadyInv
<1>8. CASE Engine /\ pc = "Poll" /\ UNCHANGED controlVars
  BY <1>8, EngineKeepsReady
<1>9. CASE Tick \/ DeadlinePasses \/ UNCHANGED vars
  BY <1>9 DEF Tick, DeadlinePasses, vars, controlVars, workerVars, ReadyInv
<1> QED
  BY <1>1, <1>2, <1>3, <1>4, <1>5, <1>6, <1>7, <1>8, <1>9 DEF Next, Controller

GradedHere(es) ==
  \A n \in DOMAIN es \ DOMAIN events :
    \/ es[n] = [step |-> NextFault, outcome |-> "RecoveryFailed"]
    \/ /\ readySeen # NotReady
       /\ es[n].outcome = RecoveryOutcome(readySeen, Budget)

LEMMA CompletedIsGradedHere ==
  ASSUME RunInv, ReadyInv, pc = "Settle"
  PROVE  /\ GradedHere(Completed)
         /\ GradedHere(Append(Completed, [step |-> NextFault, outcome |-> "RecoveryFailed"]))
<1>1. events \in Seq(Event) /\ Completed \in Seq(Event)
  BY CompletedType DEF RunInv, TypeOK
<1>2. GradedHere(Completed)
  <2>1. CASE RecoveryDone
    <3> DEFINE e == [step |-> Recorded.step, outcome |-> RecoveryOutcome(Recorded.ready, Budget)]
    <3>1. Completed = Append(events, e) /\ e.outcome = RecoveryOutcome(readySeen, Budget)
      BY <2>1, RecordedHere DEF Completed
    <3>2. \A n \in DOMAIN Completed \ DOMAIN events : Completed[n] = e
      <4> HIDE DEF e
      <4> QED
        BY <1>1, <3>1
    <3> QED
      BY <2>1, <3>1, <3>2, RecordedHere DEF GradedHere
  <2>2. CASE ~RecoveryDone
    BY <2>2 DEF Completed, GradedHere
  <2> QED
    BY <2>1, <2>2
<1>3. GradedHere(Append(Completed, [step |-> NextFault, outcome |-> "RecoveryFailed"]))
  <2> DEFINE failed == [step |-> NextFault, outcome |-> "RecoveryFailed"]
             es == Append(Completed, failed)
  <2>1. \A n \in DOMAIN es : es[n] = failed \/ (n \in DOMAIN Completed /\ es[n] = Completed[n])
    <3> HIDE DEF failed
    <3>1. /\ DOMAIN Completed = 1..Len(Completed) /\ Len(Completed) \in Nat
          /\ DOMAIN es = 1..(Len(Completed) + 1)
          /\ es[Len(Completed) + 1] = failed
          /\ \A n \in DOMAIN Completed : es[n] = Completed[n]
      BY <1>1
    <3>2. \A n \in DOMAIN es : n \in DOMAIN Completed \/ n = Len(Completed) + 1
      BY <3>1
    <3> QED
      BY <3>1, <3>2
  <2> HIDE DEF es
  <2> QED
    BY <1>2, <2>1 DEF GradedHere, es
<1> QED
  BY <1>2, <1>3

\* A fault is graded by the readiness of the attempt that reached a stable boundary,
\* where errors after readiness do not name the lease.
THEOREM GradedByCompletingAttemptTheorem ==
  MayReportHeld = FALSE => (Spec => GradedByCompletingAttempt)
<1> SUFFICES ASSUME MayReportHeld = FALSE PROVE Spec => GradedByCompletingAttempt
  OBVIOUS
<1>1. ASSUME RunInv, ReadyInv, [Next]_vars, pc = "Settle"
      PROVE  GradedHere(events')
  <2>1. \/ events' = events \/ events' = Completed
        \/ events' = Append(Completed, [step |-> NextFault, outcome |-> "RecoveryFailed"])
    BY <1>1 DEF Next, Controller, vars, controlVars, Launch, ObserveReadiness, Reap, KillUnready,
       KillAtDeadline, KillStalled, Kill, EndPoll, RetryFenced, StrikeFault, FaultNotApplied,
       FinishSegments, RetrySegment, AbandonSegments, ChooseVerifier, RetryVerifier,
       FinishVerifier, Conclude, Tick, DeadlinePasses
  <2>2. GradedHere(events)
    BY DEF GradedHere
  <2> QED
    BY <1>1, <2>1, <2>2, CompletedIsGradedHere
<1> QED
  BY <1>1, ReadyInit, ReadyStep, RunInvariant, PTL DEF Spec, GradedByCompletingAttempt, GradedHere

-----------------------------------------------------------------------------
(* Reports                                                                  *)

\* The operations the reports of mutations name, and those reported refused.
Named(rs) == {r.op : r \in MutationReports(rs)}
Refused(rs) == {r.op : r \in {x \in MutationReports(rs) : x.outcome # "Acked"}}

LEMMA NamedIsAckedOrRefused ==
  ASSUME NEW rs, NEW i \in Named(rs), i \notin Refused(rs)
  PROVE  ReportedAs(i, "Acked", rs)
BY DEF Named, Refused, ReportedAs

LEMMA AppendedReport ==
  ASSUME NEW rs \in Seq(Report), NEW r \in Report
  PROVE  MutationReports(Append(rs, r)) =
           MutationReports(rs) \cup (IF r.phase = "Mutation" THEN {r} ELSE {})
<1> DEFINE more == Append(rs, r)
<1>1. /\ Len(rs) \in Nat /\ DOMAIN rs = 1..Len(rs)
      /\ DOMAIN more = 1..(Len(rs) + 1)
      /\ more[Len(rs) + 1] = r
      /\ \A n \in 1..Len(rs) : more[n] = rs[n]
  OBVIOUS
<1>2. \A n \in 1..(Len(rs) + 1) : n \in 1..Len(rs) \/ n = Len(rs) + 1
  BY <1>1
<1>3. 1..Len(rs) \subseteq 1..(Len(rs) + 1) /\ Len(rs) + 1 \in 1..(Len(rs) + 1)
  BY <1>1
<1> HIDE DEF more
<1>4. MutationReports(more) =
        MutationReports(rs) \cup (IF r.phase = "Mutation" THEN {r} ELSE {})
  BY <1>1, <1>2, <1>3 DEF MutationReports
<1> QED
  BY <1>4 DEF more

\* A line of the report file takes no earlier line back.
LEMMA LogMutation ==
  ASSUME reports \in Seq(Report), NEW i \in Steps, NEW o \in Outcomes, Log(i, "Mutation", o)
  PROVE  /\ Named(reports') = Named(reports) \cup {i}
         /\ Refused(reports') = IF o = "Acked" THEN Refused(reports) ELSE Refused(reports) \cup {i}
         /\ \A j : ReportedAs(j, "Acked", reports) => ReportedAs(j, "Acked", reports')
         /\ o = "Acked" => ReportedAs(i, "Acked", reports')
<1> DEFINE r == [op |-> i, phase |-> "Mutation", outcome |-> o]
<1>1. r \in Report /\ r.phase = "Mutation" /\ r.op = i /\ r.outcome = o
  BY DEF Report
<1>2. MutationReports(reports') = MutationReports(reports) \cup {r}
  BY <1>1, AppendedReport DEF Log
<1> HIDE DEF r
<1> QED
  BY <1>1, <1>2 DEF Named, Refused, ReportedAs

LEMMA LogVerification ==
  ASSUME reports \in Seq(Report), NEW i \in Steps, NEW o \in Outcomes,
         Log(i, "Verification", o)
  PROVE  MutationReports(reports') = MutationReports(reports)
<1> DEFINE r == [op |-> i, phase |-> "Verification", outcome |-> o]
<1>1. r \in Report /\ r.phase # "Mutation"
  BY DEF Report
<1> QED
  BY <1>1, AppendedReport DEF Log

\* Reports the controller keeps are added to those it has.
LEMMA KeptReports ==
  ASSUME TypeOK, KeepReports, NEW i, NEW o,
         ReportedAs(i, o, observed) \/ ReportedAs(i, o, reports)
  PROVE  ReportedAs(i, o, observed')
<1>1. /\ observed \in Seq(Report) /\ reports \in Seq(Report)
      /\ observed' = observed \o reports
  BY DEF TypeOK, WorkerType, KeepReports
<1>2. /\ Len(observed) \in Nat /\ Len(reports) \in Nat
      /\ DOMAIN observed = 1..Len(observed) /\ DOMAIN reports = 1..Len(reports)
      /\ DOMAIN observed' = 1..(Len(observed) + Len(reports))
      /\ \A n \in 1..Len(observed) : observed'[n] = observed[n]
      /\ \A n \in 1..Len(reports) : observed'[n + Len(observed)] = reports[n]
  BY <1>1
<1>3. /\ \A n \in 1..Len(observed) : n \in 1..(Len(observed) + Len(reports))
      /\ \A n \in 1..Len(reports) : n + Len(observed) \in 1..(Len(observed) + Len(reports))
  BY <1>2
<1>4. MutationReports(observed) \subseteq MutationReports(observed')
  BY <1>2, <1>3 DEF MutationReports
<1>5. MutationReports(reports) \subseteq MutationReports(observed')
  BY <1>2, <1>3 DEF MutationReports
<1> QED
  BY <1>4, <1>5 DEF ReportedAs

-----------------------------------------------------------------------------
(* next_worker_start                                                        *)

\* What the reports of an attempt name starts at its first operation, without a
\* gap; then everything before its resume point was acknowledged.
LEMMA ResumeSkipsNothing ==
  ASSUME NEW current \in 0..NumOps, NEW rs \in Seq(Report), NEW m \in Nat,
         Named(rs) = current..(m - 1),
         NEW i \in Steps, current <= i, i < ResumeAt(current, rs)
  PROVE  ReportedAs(i, "Acked", rs)
<1> DEFINE ends  == {current} \cup {r.op + 1 : r \in MutationReports(rs)}
           first == Min(Refused(rs))
           batch == {j \in Steps : Plan[j].batch = Plan[first].batch}
<1>1. /\ \A r \in MutationReports(rs) : r.op \in Steps
      /\ Named(rs) \subseteq Steps /\ Refused(rs) \subseteq Named(rs)
      /\ i \in Nat /\ current \in Nat
  BY ReportsNameSteps, PlanTypes DEF Named, Refused
<1>2. CASE Refused(rs) = {}
  <2>1. ends \subseteq 0..NumOps /\ ends # {} /\ NumOps \in Nat
    BY <1>1, PlanTypes DEF Steps
  <2>2. Max(ends) \in ends
    BY <2>1, MaxOfNaturals
  <2>3. ResumeAt(current, rs) = Max(ends)
    BY <1>2 DEF ResumeAt, Refused
  <2>4. PICK r \in MutationReports(rs) : Max(ends) = r.op + 1
    <3>1. Max(ends) # current
      BY <1>1, <2>3
    <3> QED
      BY <2>2, <3>1
  <2>5. r.op \in current..(m - 1) /\ i <= r.op
    BY <1>1, <2>3, <2>4, PlanTypes DEF Named
  <2>6. i \in current..(m - 1)
    BY <1>1, <2>5
  <2> QED
    BY <1>2, <2>6, NamedIsAckedOrRefused
<1>3. CASE Refused(rs) # {}
  <2>1. first \in Refused(rs) /\ \A j \in Refused(rs) : first <= j
    BY <1>1, <1>3, PlanTypes, LeastNatural DEF Min
  <2>2. first \in Steps /\ first \in current..(m - 1)
    BY <1>1, <2>1
  <2>3. ResumeAt(current, rs) <= first
    <3>1. batch # {} /\ batch \subseteq Nat /\ first \in batch
      BY <2>2, PlanTypes
    <3>2. Min(batch) <= first
      BY <3>1, LeastNatural DEF Min
    <3>3. first <= first
      BY <2>2, PlanTypes
    <3> QED
      BY <1>3, <3>2, <3>3 DEF ResumeAt, Refused
  <2>4. i < first
    BY <1>1, <2>2, <2>3, ResumeInPlan, PlanTypes
  <2>5. i \in current..(m - 1) /\ i \notin Refused(rs)
    BY <1>1, <2>1, <2>2, <2>4, PlanTypes
  <2> QED
    BY <2>5, NamedIsAckedOrRefused
<1> QED
  BY <1>2, <1>3

-----------------------------------------------------------------------------
(* The invariant                                                            *)

AckedUpTo(n) == \A i \in start..(n - 1) : ReportedAs(i, "Acked", reports)

\* The report file of a segment's worker names the operations from its first one
\* without a gap, up to where the worker is; what lies before the chunk it is at
\* was acknowledged.
Position ==
  /\ worker.phase \in {"Activating", "Opening"} => reports = <<>> /\ worker.index = start
  /\ worker.phase \in {"Running", "Executing", "Verifying"} =>
       /\ start <= worker.index
       /\ Named(reports) = start..(worker.index - 1)
       /\ Refused(reports) = {}
  /\ worker.phase = "Executing" => worker.unreported = Chunk(worker.index)
  /\ worker.phase = "Verifying" => worker.index = NumOps
  /\ worker.phase = "Emitting" =>
       /\ start <= worker.index
       /\ Refused(reports) \subseteq worker.failed
       /\ \E m \in worker.index..(ChunkEnd(worker.index) - 1) :
            /\ worker.unreported = m..(ChunkEnd(worker.index) - 1)
            /\ Named(reports) = start..(m - 1)

\* A worker that stopped as planned, or is about to, has acknowledged what comes
\* before the fault; one that left Ok, the whole plan.
ProgressInv ==
  mode = "Segment" /\ pc \in {"Poll", "Settle"} =>
    /\ \E m \in Nat : Named(reports) = start..(m - 1)
    /\ pc = "Poll" =>
         /\ Position
         /\ worker.doomed \/ (~Alive /\ PlannedStop(worker.code)) => AckedUpTo(NextFault)
         /\ ~Alive /\ worker.code = "Ok" => AckedUpTo(NumOps)
    /\ pc = "Settle" =>
         /\ PlannedStop(status) => AckedUpTo(NextFault)
         /\ status = "Ok" => AckedUpTo(NumOps)

LEMMA MinOfInterval ==
  ASSUME NEW a \in Nat, NEW b \in Nat, a <= b
  PROVE  Min(a..b) = a
<1>1. a..b \subseteq Nat /\ a..b # {} /\ a \in a..b
  OBVIOUS
<1>2. Min(a..b) \in a..b /\ Min(a..b) <= a
  BY <1>1, LeastNatural DEF Min
<1> QED
  BY <1>2

\* Before a worker starts the next chunk, everything before it is acknowledged.
LEMMA PositionIsAcked ==
  ASSUME Named(reports) = start..(worker.index - 1), Refused(reports) = {}
  PROVE  AckedUpTo(worker.index)
BY NamedIsAckedOrRefused DEF AckedUpTo

\* Where the triggers point: ack-kill faults are planned for pointwise plans only,
\* where a chunk is one operation.
LEMMA TriggersAtFault ==
  /\ CrashAt \in Nat => CrashAt = NextFault
  /\ InterruptAt \in Nat => InterruptAt = NextFault
  /\ CrashAfterAt \in Nat => CrashAfterAt = NextFault
BY DEF CrashAt, CrashAfterAt, InterruptAt, Trigger, NoStep

LEMMA AckWindowIsPointwise ==
  ASSUME TypeOK, CrashAfterAt \in Nat
  PROVE  Kind = "Pointwise"
<1>1. NextFault # NoStep /\ FaultAt[NextFault] \in {"AckBeforeReportCrash"}
  BY DEF CrashAfterAt, Trigger, NoStep
<1>2. NextFault \in DOMAIN FaultAt
  BY <1>1, NextFaultType DEF TypeOK
<1> QED
  BY <1>1, <1>2, PlanAssumption DEF WellFormed

LEMMA SameControl ==
  ASSUME UNCHANGED controlVars
  PROVE  NextFault' = NextFault /\ start' = start /\ mode' = mode /\ pc' = pc /\ status' = status
BY DEF controlVars, NextFault

\* The worker is gone, with the reports it left.
LEMMA ExitKeepsProgress ==
  ASSUME ProgressInv, mode = "Segment", pc = "Poll", UNCHANGED controlVars, UNCHANGED reports,
         worker'.phase = "Exited", worker'.doomed => worker.doomed,
         PlannedStop(worker'.code) => AckedUpTo(NextFault),
         worker'.code = "Ok" => AckedUpTo(NumOps)
  PROVE  ProgressInv'
BY SameControl DEF ProgressInv, Position, AckedUpTo, Named, Refused, ReportedAs, MutationReports,
     Alive, PlannedStop

\* The worker goes on, and the report file stays as it is.
LEMMA QuietKeepsProgress ==
  ASSUME ProgressInv, mode = "Segment", pc = "Poll", UNCHANGED controlVars, UNCHANGED reports,
         Position', Alive', worker'.doomed => worker.doomed \/ AckedUpTo(NextFault)
  PROVE  ProgressInv'
BY SameControl DEF ProgressInv, AckedUpTo, Named, Refused, ReportedAs, MutationReports, Alive

\* The lines of a chunk are written in the order of its operations.
LEMMA EmitKeepsProgress ==
  ASSUME RunInv, ProgressInv, mode = "Segment", pc = "Poll", UNCHANGED controlVars, EmitOutcome
  PROVE  ProgressInv'
<1>1. /\ TypeOK /\ WorkerType /\ start \in 0..NumOps /\ NumOps \in Nat
      /\ worker.phase = "Emitting" /\ worker.index \in Steps /\ worker.index \in Nat
      /\ reports \in Seq(Report) /\ Position
  <2>1. TypeOK /\ WorkerType /\ start \in 0..NumOps /\ worker.phase = "Emitting" /\ Position
    BY DEF RunInv, TypeOK, EmitOutcome, ProgressInv
  <2>2. worker.index \in 0..NumOps /\ reports \in Seq(Report) /\ worker.index < NumOps
    BY <2>1 DEF RunInv, WorkerInv, WorkerType
  <2> QED
    BY <2>1, <2>2, PlanTypes DEF Steps
<1>2. ChunkEnd(worker.index) \in (worker.index + 1)..NumOps /\ ChunkEnd(worker.index) \in Nat
  BY <1>1, ChunkEnds
<1> DEFINE end == ChunkEnd(worker.index)
<1>3. PICK m \in worker.index..(end - 1) :
        worker.unreported = m..(end - 1) /\ Named(reports) = start..(m - 1)
  BY <1>1 DEF Position
<1> HIDE DEF end
<1>4. /\ end \in Nat /\ end \in (worker.index + 1)..NumOps /\ m \in Nat /\ m <= end - 1
      /\ worker.index <= m /\ start <= worker.index
      /\ end = ChunkEnd(worker.index)
  BY <1>1, <1>2, <1>3 DEF end, Position
<1>5. Min(worker.unreported) = m /\ m \in Steps
  BY <1>1, <1>3, <1>4, MinOfInterval DEF Steps
<1>6. worker.unreported \ {m} = (m + 1)..(end - 1)
  BY <1>3, <1>4
<1> DEFINE o == IF m \in worker.failed THEN "Failed" ELSE "Acked"
<1>7. Log(m, "Mutation", o) /\ o \in Outcomes
  BY <1>5 DEF EmitOutcome, Outcomes
<1>8. /\ Named(reports') = start..m
      /\ Refused(reports') \subseteq worker.failed
      /\ \A j : ReportedAs(j, "Acked", reports) => ReportedAs(j, "Acked", reports')
  <2>1. Named(reports') = Named(reports) \cup {m}
    BY <1>1, <1>5, <1>7, LogMutation
  <2>2. start..(m - 1) \cup {m} = start..m
    BY <1>1, <1>4
  <2>3. Refused(reports') \subseteq worker.failed
    BY <1>1, <1>5, <1>7, LogMutation DEF Position
  <2>4. \A j : ReportedAs(j, "Acked", reports) => ReportedAs(j, "Acked", reports')
    BY <1>1, <1>5, <1>7, LogMutation
  <2> QED
    BY <1>3, <2>1, <2>2, <2>3, <2>4
<1>9. start..m = start..((m + 1) - 1) /\ m + 1 \in Nat
  BY <1>1, <1>4
<1>10. /\ NextFault' = NextFault /\ start' = start /\ mode' = mode /\ pc' = "Poll"
  BY SameControl
<1>11. worker'.doomed = worker.doomed
  BY <1>1 DEF EmitOutcome, ExitHeld, WorkerType
<1>12. worker'.doomed => AckedUpTo(NextFault)'
  BY <1>8, <1>10, <1>11 DEF ProgressInv, AckedUpTo
<1>13. Named(reports)' = start..((m + 1) - 1) /\ Refused(reports)' \subseteq worker.failed
  BY <1>8, <1>9 DEF Named, Refused
<1>14. CASE worker.unreported \ {m} # {} /\ worker' = [worker EXCEPT !.unreported = @ \ {m}]
  <2>1. /\ worker'.phase = "Emitting" /\ worker'.index = worker.index
        /\ worker'.failed = worker.failed /\ worker'.unreported = (m + 1)..(end - 1)
    BY <1>1, <1>6, <1>14 DEF WorkerType
  <2>2. m + 1 \in worker.index..(end - 1)
    BY <1>1, <1>4, <1>6, <1>14
  <2>3. Position'
    BY <1>4, <1>10, <1>13, <2>1, <2>2 DEF Position
  <2> QED
    BY <1>9, <1>10, <1>12, <1>13, <2>1, <2>3 DEF ProgressInv, Alive
<1>15. CASE /\ worker.unreported \ {m} = {} /\ worker.failed = {}
            /\ worker' = [worker EXCEPT !.unreported = {}, !.phase = "Running", !.index = end]
  <2>1. worker'.phase = "Running" /\ worker'.index = end
    BY <1>1, <1>15 DEF WorkerType
  <2>2. m + 1 = end
    BY <1>4, <1>6, <1>15
  <2>3. Position'
    BY <1>1, <1>4, <1>10, <1>13, <1>15, <2>1, <2>2 DEF Position
  <2> QED
    BY <1>9, <1>10, <1>12, <1>13, <2>1, <2>3 DEF ProgressInv, Alive
<1>16. CASE \E held \in HeldTexts : ExitHeld("Incomplete", held)
  <2>1. worker'.phase = "Exited" /\ worker'.code = "Incomplete"
    BY <1>1, <1>16 DEF ExitHeld, WorkerType
  <2>2. Position'
    BY <2>1 DEF Position
  <2> QED
    BY <1>9, <1>10, <1>12, <1>13, <2>1, <2>2 DEF ProgressInv, Alive, PlannedStop
<1> QED
  BY <1>4, <1>5, <1>14, <1>15, <1>16 DEF EmitOutcome

LEMMA EngineKeepsProgress ==
  ASSUME RunInv, ProgressInv, mode = "Segment", pc = "Poll", UNCHANGED controlVars, Engine
  PROVE  ProgressInv'
<1>0. /\ {"phase", "failpoint", "index", "todo", "failed", "unreported", "unread", "doomed",
          "ready", "held", "code"} \subseteq DOMAIN worker
      /\ worker.index \in 0..NumOps /\ worker.index \in Nat /\ worker.doomed \in BOOLEAN
      /\ start \in 0..NumOps /\ start \in Nat /\ NumOps \in Nat
      /\ TypeOK /\ WorkerInv
  BY PlanTypes DEF RunInv, TypeOK, WorkerType
<1>n. Position /\ NextFault' = NextFault /\ start' = start
  BY SameControl DEF ProgressInv
<1>1. CASE OpenFenced
  BY <1>0, <1>1, ExitKeepsProgress DEF OpenFenced, ExitHeld, PlannedStop
<1>2. CASE OpenReady
  <2>1. /\ reports' = <<>> /\ worker'.phase = "Running" /\ worker'.index = start
        /\ UNCHANGED reports /\ worker'.doomed = worker.doomed
    BY <1>0, <1>n, <1>2 DEF OpenReady, Position
  <2>2. Named(reports)' = {} /\ Refused(reports)' = {}
    BY <2>1 DEF Named, Refused, MutationReports
  <2>3. start..(start - 1) = {} /\ start <= start
    BY <1>0
  <2>4. Position'
    BY <1>n, <2>1, <2>2, <2>3 DEF Position
  <2> QED
    BY <2>1, <2>4, QuietKeepsProgress DEF Alive
<1>3. CASE CrashOnStep(CrashAt)
  <2>1. worker.phase = "Running" /\ CrashAt = worker.index
    BY <1>3 DEF CrashOnStep
  <2>2. AckedUpTo(NextFault)
    BY <1>0, <1>n, <2>1, TriggersAtFault, PositionIsAcked DEF Position
  <2> QED
    BY <1>0, <1>3, <2>2, ExitKeepsProgress DEF CrashOnStep, Exit
<1>4. CASE InterruptOnStep(InterruptAt)
  <2>1. worker.phase = "Running" /\ InterruptAt = worker.index
    BY <1>4 DEF InterruptOnStep
  <2>2. AckedUpTo(NextFault)
    BY <1>0, <1>n, <2>1, TriggersAtFault, PositionIsAcked DEF Position
  <2> QED
    BY <1>0, <1>4, <2>2, ExitKeepsProgress DEF InterruptOnStep, Exit
<1>5. CASE BeginChunk(CrashAt, InterruptAt)
  <2>1. /\ worker.phase = "Running" /\ worker'.phase = "Executing"
        /\ worker'.index = worker.index /\ worker'.unreported = Chunk(worker.index)
        /\ worker'.doomed => worker.doomed \/ worker.index = CrashAt
        /\ UNCHANGED reports
    BY <1>0, <1>5 DEF BeginChunk
  <2>2. AckedUpTo(worker.index)
    BY <1>n, <2>1, PositionIsAcked DEF Position
  <2>3. worker'.doomed => worker.doomed \/ AckedUpTo(NextFault)
    BY <1>0, <2>1, <2>2, TriggersAtFault
  <2>4. Position'
    BY <1>n, <2>1 DEF Position, Named, Refused, MutationReports
  <2> QED
    BY <2>1, <2>3, <2>4, QuietKeepsProgress DEF Alive
<1>6. CASE RejectChunk(InterruptAt)
  BY <1>0, <1>6, ExitKeepsProgress DEF RejectChunk, Exit, PlannedStop
<1>7. CASE \E tx \in worker.todo : CommitTransaction(tx) \/ FailTransaction(tx)
  <2>1. /\ worker.phase = "Executing" /\ worker'.phase = "Executing"
        /\ worker'.index = worker.index /\ worker'.unreported = worker.unreported
        /\ worker'.doomed = worker.doomed /\ UNCHANGED reports
    BY <1>0, <1>7 DEF CommitTransaction, FailTransaction
  <2>2. Position'
    BY <1>n, <2>1 DEF Position, Named, Refused, MutationReports
  <2> QED
    BY <2>1, <2>2, QuietKeepsProgress DEF Alive
<1>9. CASE CrashThreadExits
  <2>1. worker.doomed /\ AckedUpTo(NextFault)
    BY <1>9 DEF CrashThreadExits, ProgressInv
  <2> QED
    BY <1>0, <1>9, <2>1, ExitKeepsProgress DEF CrashThreadExits, Exit
<1>10. CASE ChunkUnreadable
  BY <1>0, <1>10, ExitKeepsProgress DEF ChunkUnreadable, Exit, PlannedStop
<1>11. CASE CrashAfterStep(CrashAfterAt)
  <2>1. worker.phase = "Executing" /\ CrashAfterAt \in Chunk(worker.index)
        /\ worker.index \in Steps
    BY <1>0, <1>11 DEF CrashAfterStep, ChunkExecuted, WorkerInv, Steps
  <2>2. CrashAfterAt \in Nat
    BY <2>1, PlanTypes, ChunkInPlan
  <2>3. Chunk(worker.index) = worker.index..worker.index
    BY <1>0, <2>2, AckWindowIsPointwise DEF Chunk, ChunkEnd
  <2>4. NextFault = worker.index
    BY <1>0, <2>1, <2>2, <2>3, TriggersAtFault
  <2>5. AckedUpTo(NextFault)
    BY <1>n, <2>1, <2>4, PositionIsAcked DEF Position
  <2> QED
    BY <1>0, <1>11, <2>5, ExitKeepsProgress DEF CrashAfterStep, Exit
<1>12. CASE EndChunk(CrashAfterAt)
  <2>1. /\ worker.phase = "Executing" /\ worker' = [worker EXCEPT !.phase = "Emitting"]
        /\ UNCHANGED reports /\ worker.index \in Steps
    BY <1>0, <1>12 DEF EndChunk, ChunkExecuted, WorkerInv, Steps
  <2>2. ChunkEnd(worker.index) \in (worker.index + 1)..NumOps
    BY <2>1, ChunkEnds
  <2>3. worker.index \in worker.index..(ChunkEnd(worker.index) - 1)
    BY <1>0, <2>2
  <2>4. Named(reports)' = start..(worker.index - 1) /\ Refused(reports)' = {}
    BY <1>n, <2>1 DEF Position, Named, Refused, MutationReports
  <2>5. /\ worker'.phase = "Emitting" /\ worker'.index = worker.index
        /\ worker'.unreported = worker.unreported /\ worker'.doomed = worker.doomed
    BY <1>0, <2>1
  <2>6. /\ worker.unreported = worker.index..(ChunkEnd(worker.index) - 1)
        /\ start <= worker.index
    BY <1>n, <2>1 DEF Position, Chunk
  <2>7. /\ worker'.phase = "Emitting" /\ worker'.index = worker.index
        /\ worker'.unreported = worker.index..(ChunkEnd(worker.index) - 1)
        /\ worker'.doomed = worker.doomed
        /\ Named(reports)' = start..(worker.index - 1) /\ Refused(reports)' = {}
        /\ start <= worker.index
    BY <2>4, <2>5, <2>6
  <2>8. Position'
    BY <1>n, <2>3, <2>7 DEF Position
  <2> QED
    BY <2>1, <2>7, <2>8, QuietKeepsProgress DEF Alive
<1>13. CASE EmitOutcome
  BY <1>13, EmitKeepsProgress
<1>14. CASE BeginVerification(Expected)
  <2>1. /\ worker.phase = "Running" /\ worker'.phase = "Verifying"
        /\ worker'.index = worker.index /\ worker.index = NumOps
        /\ worker'.doomed = worker.doomed /\ UNCHANGED reports
    BY <1>0, <1>14 DEF BeginVerification
  <2>2. Position'
    BY <1>n, <2>1 DEF Position, Named, Refused, MutationReports
  <2> QED
    BY <2>1, <2>2, QuietKeepsProgress DEF Alive
<1>15. CASE VerifyKey(Expected) \/ MismatchKey(Expected)
  <2>0. /\ worker.phase = "Verifying" /\ worker.unread # {} /\ worker.unread \subseteq DOMAIN Expected
        /\ reports \in Seq(Report)
    BY <1>0, <1>15 DEF VerifyKey, MismatchKey, WorkerInv, TypeOK, WorkerType
  <2>1. Min(worker.unread) \in DOMAIN Expected
    BY <2>0, ExpectedInPlan, KeysAreNaturals, MinOfNaturals
  <2>2. /\ worker'.index = worker.index /\ worker'.doomed = worker.doomed
        /\ \/ worker'.phase = "Verifying"
           \/ worker'.phase = "Exited" /\ worker'.code = "Failed"
    BY <1>0, <1>15, <2>0 DEF VerifyKey, MismatchKey, Exit
  <2>3. MutationReports(reports') = MutationReports(reports)
    BY <1>15, <2>0, <2>1, ExpectedInPlan, LogVerification DEF VerifyKey, MismatchKey, Outcomes
  <2>4. /\ Named(reports)' = Named(reports) /\ Refused(reports)' = Refused(reports)
        /\ \A n : AckedUpTo(n)' <=> AckedUpTo(n)
    BY <1>n, <2>3 DEF Named, Refused, AckedUpTo, ReportedAs
  <2>5. Position'
    BY <1>n, <2>0, <2>2, <2>4 DEF Position
  <2> QED
    BY <1>n, <2>0, <2>2, <2>4, <2>5, SameControl DEF ProgressInv, Alive, PlannedStop
<1>17. CASE ShutDown
  <2>1. AckedUpTo(NumOps)
    BY <1>n, <1>17, PositionIsAcked DEF ShutDown, Position
  <2> QED
    BY <1>0, <1>17, <2>1, ExitKeepsProgress DEF ShutDown, Exit, PlannedStop
<1>18. CASE Abort
  BY <1>0, <1>18, ExitKeepsProgress DEF Abort, ExitHeld, PlannedStop
<1>19. CASE (\E k \in Keys : LoseValue(k)) \/ LeaseExpires
  <2>1. UNCHANGED <<worker, reports>>
    BY <1>19 DEF LoseValue, LeaseExpires
  <2>2. Named(reports)' = Named(reports) /\ Refused(reports)' = Refused(reports)
    BY <2>1 DEF Named, Refused, MutationReports
  <2>3. Position'
    BY <1>n, <2>1, <2>2 DEF Position
  <2>4. /\ Named(reports)' = Named(reports)
        /\ \A n : AckedUpTo(n)' <=> AckedUpTo(n)
    BY <1>n, <2>1 DEF Named, MutationReports, AckedUpTo, ReportedAs
  <2>5. Alive' = Alive /\ worker' = worker
    BY <2>1 DEF Alive
  <2>6. /\ worker.doomed \/ (~Alive /\ PlannedStop(worker.code)) => AckedUpTo(NextFault)
        /\ ~Alive /\ worker.code = "Ok" => AckedUpTo(NumOps)
        /\ \E m \in Nat : Named(reports) = start..(m - 1)
    BY DEF ProgressInv
  <2> QED
    BY <1>n, <2>3, <2>4, <2>5, <2>6, SameControl DEF ProgressInv
<1>21. CASE TakeSentinel \/ ConfigureFailpoint
  <2>1. /\ worker.phase = "Activating" /\ worker'.phase \in {"Activating", "Opening"}
        /\ worker'.index = worker.index /\ worker'.doomed = worker.doomed /\ UNCHANGED reports
    BY <1>0, <1>21 DEF TakeSentinel, ConfigureFailpoint
  <2>2. Position'
    BY <1>n, <2>1 DEF Position
  <2> QED
    BY <2>1, <2>2, QuietKeepsProgress DEF Alive
<1> QED
  BY <1>1, <1>2, <1>3, <1>4, <1>5, <1>6, <1>7, <1>9, <1>10, <1>11, <1>12,
     <1>13, <1>14, <1>15, <1>17, <1>18, <1>19, <1>21
  DEF Engine, WorkerStep

LEMMA ProgressInit == Init => ProgressInv
BY DEF Init, ProgressInv

LEMMA ProgressStep == RunInv /\ ProgressInv /\ [Next]_vars => ProgressInv'
<1> SUFFICES ASSUME RunInv, ProgressInv, [Next]_vars PROVE ProgressInv'
  OBVIOUS
<1>0. TypeOK /\ WorkerType /\ start \in 0..NumOps /\ start \in Nat
  BY PlanTypes DEF RunInv, TypeOK
<1>1. CASE Launch
  <2>1. CASE mode = "Segment"
    <3>1. /\ pc' = "Poll" /\ reports' = <<>> /\ start' = start
          /\ worker'.phase \in {"Activating", "Opening"} /\ worker'.index = start
          /\ worker'.doomed = FALSE
      BY <1>1, <2>1 DEF Launch, Spawned, NoWorker, FirstPhase
    <3>2. Named(reports)' = start..(start - 1)
      BY <1>0, <3>1 DEF Named, MutationReports
    <3> QED
      BY <1>0, <3>1, <3>2 DEF ProgressInv, Position, Alive
  <2>2. CASE mode # "Segment"
    BY <1>1, <2>2 DEF Launch, ProgressInv
  <2> QED
    BY <2>1, <2>2
<1>2. CASE ObserveReadiness \/ Tick \/ DeadlinePasses \/ UNCHANGED vars
  <2>1. UNCHANGED <<pc, mode, start, faults, status, worker, reports>>
    BY <1>2 DEF ObserveReadiness, Tick, DeadlinePasses, vars, controlVars, workerVars
  <2>2. Position' <=> Position
    BY <2>1 DEF Position, Named, Refused, MutationReports
  <2>3. Named(reports)' = Named(reports) /\ NextFault' = NextFault
    BY <2>1 DEF Named, MutationReports, NextFault
  <2>4. \A n : AckedUpTo(n)' <=> AckedUpTo(n)
    BY <2>1 DEF AckedUpTo, ReportedAs, MutationReports
  <2> QED
    BY <2>1, <2>2, <2>3, <2>4 DEF ProgressInv, Alive
<1>3. CASE Reap \/ KillUnready \/ KillAtDeadline \/ KillStalled
  <2>1. /\ pc = "Poll" /\ pc' = "Settle"
        /\ UNCHANGED <<mode, start, faults, reports>>
        /\ \/ ~Alive /\ status' = worker.code
           \/ status' = "TimedOut"
    BY <1>3 DEF Reap, KillUnready, KillAtDeadline, KillStalled, Kill, Killed, EndPoll, workerVars
  <2>2. Named(reports)' = Named(reports) /\ NextFault' = NextFault
    BY <2>1 DEF Named, MutationReports, NextFault
  <2>3. \A n : AckedUpTo(n)' <=> AckedUpTo(n)
    BY <2>1 DEF AckedUpTo, ReportedAs, MutationReports
  <2> QED
    BY <2>1, <2>2, <2>3 DEF ProgressInv, PlannedStop
<1>4. CASE RetryFenced \/ StrikeFault \/ FaultNotApplied \/ FinishSegments \/ RetrySegment
             \/ AbandonSegments \/ ChooseVerifier \/ RetryVerifier \/ FinishVerifier \/ Conclude
  <2>1. pc' \in {"Launch", "LoopExit", "Conclude", "Done"}
    BY <1>4 DEF RetryFenced, StrikeFault, FaultNotApplied, FinishSegments, RetrySegment,
                AbandonSegments, ChooseVerifier, RetryVerifier, FinishVerifier, Conclude,
                ContinueAt, LeaveLoop
  <2> QED
    BY <2>1 DEF ProgressInv
<1>5. CASE Engine /\ pc = "Poll" /\ UNCHANGED controlVars
  <2>1. CASE mode = "Segment"
    BY <1>5, <2>1, EngineKeepsProgress
  <2>2. CASE mode # "Segment"
    BY <1>5, <2>2, SameControl DEF ProgressInv
  <2> QED
    BY <2>1, <2>2
<1> QED
  BY <1>1, <1>2, <1>3, <1>4, <1>5 DEF Next, Controller

-----------------------------------------------------------------------------
(* Resume points                                                            *)

\* A resume point that only moves over what the settled attempt acknowledged.
LEMMA KeepingReportsSkipsNothing ==
  ASSUME RunInv, NoSkippedOperation, KeepReports, struck \subseteq struck',
         \A i \in Steps : i < start' /\ start <= i =>
           \/ ReportedAs(i, "Acked", reports)
           \/ i \in struck' /\ FaultAt[i] = "AckBeforeReportCrash"
  PROVE  NoSkippedOperation'
<1>1. TypeOK /\ start \in Int /\ \A i \in Steps : i \in Int
  BY PlanTypes DEF RunInv, TypeOK
<1> SUFFICES ASSUME NEW i \in Steps, i < start'
             PROVE  \/ ReportedAs(i, "Acked", observed')
                    \/ i \in struck' /\ FaultAt[i] = "AckBeforeReportCrash"
  BY DEF NoSkippedOperation, ReportedAcked, ReportedAs, MutationReports
<1>2. CASE i < start
  BY <1>1, <1>2, KeptReports DEF NoSkippedOperation, ReportedAcked
<1>3. CASE start <= i
  BY <1>1, <1>3, KeptReports
<1> QED
  BY <1>1, <1>2, <1>3

LEMMA SkipStep ==
  RunInv /\ ProgressInv /\ NoSkippedOperation /\ [Next]_vars => NoSkippedOperation'
<1> SUFFICES ASSUME RunInv, ProgressInv, NoSkippedOperation, [Next]_vars
             PROVE  NoSkippedOperation'
  OBVIOUS
<1>0. /\ TypeOK /\ start \in 0..NumOps /\ reports \in Seq(Report)
      /\ start \in Int /\ Steps \subseteq Int /\ NumOps \in Int
  BY PlanTypes DEF RunInv, TypeOK, WorkerType
<1>1. CASE Launch \/ ObserveReadiness \/ Reap \/ KillUnready \/ KillAtDeadline \/ KillStalled
             \/ RetryFenced \/ ChooseVerifier \/ RetryVerifier \/ Conclude \/ Tick \/ DeadlinePasses
             \/ UNCHANGED controlVars
  <2>1. UNCHANGED <<start, observed, struck>>
    BY <1>1 DEF Launch, ObserveReadiness, Reap, KillUnready, KillAtDeadline, KillStalled, Kill,
                EndPoll, RetryFenced, ChooseVerifier, RetryVerifier, SettlesVerifier, Conclude,
                Tick, DeadlinePasses, controlVars
  <2> QED
    BY <2>1 DEF NoSkippedOperation, ReportedAcked, ReportedAs, MutationReports
<1>2. CASE StrikeFault
  <2>1. /\ pc = "Settle" /\ mode = "Segment" /\ PlannedStop(status)
        /\ status \in {"Crashed", "Interrupted"}
        /\ KeepReports /\ struck' = struck \cup {NextFault}
        /\ start' = ResumeAfterFault(NextFault)
    BY <1>2 DEF StrikeFault, SettlesSegment, Settled, ContinueAt, PlannedStop
  <2>2. AckedUpTo(NextFault) /\ NextFault \in Steps
    BY <2>1, StruckIsPlanned DEF ProgressInv
  <2>3. ASSUME NEW i \in Steps, i < start', start <= i
        PROVE  \/ ReportedAs(i, "Acked", reports)
               \/ i \in struck' /\ FaultAt[i] = "AckBeforeReportCrash"
    <3>1. CASE i < NextFault
      BY <1>0, <2>2, <2>3, <3>1 DEF AckedUpTo
    <3>2. CASE ~(i < NextFault)
      BY <1>0, <2>1, <2>2, <2>3, <3>2 DEF ResumeAfterFault
    <3> QED
      BY <3>1, <3>2
  <2> QED
    BY <2>1, <2>3, KeepingReportsSkipsNothing
<1>3. CASE FinishSegments
  <2>1. /\ pc = "Settle" /\ mode = "Segment" /\ status = "Ok" /\ KeepReports
        /\ struck' = struck /\ start' = NumOps
    BY <1>3 DEF FinishSegments, SettlesSegment, Settled, ContinueAt
  <2>2. AckedUpTo(NumOps)
    BY <2>1 DEF ProgressInv
  <2>3. \A i \in Steps : start <= i => ReportedAs(i, "Acked", reports)
    BY <1>0, <2>2 DEF AckedUpTo, Steps
  <2> QED
    BY <2>1, <2>3, KeepingReportsSkipsNothing
<1>4. CASE RetrySegment
  <2>1. /\ pc = "Settle" /\ mode = "Segment" /\ KeepReports
        /\ struck' = struck /\ start' = ResumeAt(start, reports)
    BY <1>4 DEF RetrySegment, SettlesSegment, Settled, ContinueAt
  <2>2. PICK m \in Nat : Named(reports) = start..(m - 1)
    BY <2>1 DEF ProgressInv
  <2>3. \A i \in Steps : i < start' /\ start <= i => ReportedAs(i, "Acked", reports)
    BY <1>0, <2>1, <2>2, ResumeSkipsNothing
  <2> QED
    BY <2>1, <2>3, KeepingReportsSkipsNothing
<1>5. CASE FaultNotApplied \/ AbandonSegments \/ FinishVerifier
  <2>1. KeepReports /\ start' = start /\ struck \subseteq struck'
    BY <1>5 DEF FaultNotApplied, AbandonSegments, FinishVerifier, SettlesVerifier, LeaveLoop
  <2>2. \A i \in Steps : ~(i < start' /\ start <= i)
    BY <1>0, <2>1
  <2> QED
    BY <2>1, <2>2, KeepingReportsSkipsNothing
<1> QED
  BY <1>1, <1>2, <1>3, <1>4, <1>5 DEF Next, Controller, vars

\* No resume point skips an operation: everything before the next segment was
\* acknowledged in a report the controller kept, unless a worker was cut down
\* between the acknowledgement and the report, as ack-kill-window plans it.
THEOREM NoSkippedOperationTheorem == Spec => []NoSkippedOperation
<1>1. Init => NoSkippedOperation
  BY PlanTypes DEF Init, NoSkippedOperation
<1> QED
  BY <1>1, ProgressInit, ProgressStep, SkipStep, RunInvariant, PTL DEF Spec
=============================================================================
