-------------------------- MODULE ScenarioTypeProofs --------------------------
(***************************************************************************)
(* The type invariant of ScenarioRun, for every plan, fault placement,     *)
(* budget and bound, and with it what the worker's phases and the          *)
(* controller's statuses say of one another.                               *)
(***************************************************************************)
EXTENDS ScenarioRun, WellFoundedInduction, TLAPS

-----------------------------------------------------------------------------
(* Minima and maxima                                                        *)

LEMMA LeastNatural ==
  ASSUME NEW S, S \subseteq Nat, S # {}
  PROVE  \E x \in S : \A y \in S : x <= y
<1>1. PICK x \in S : \A y \in S : ~ (<<y, x>> \in OpToRel(<, Nat))
  BY NatLessThanWellFounded, WFMin
<1>2. \A y \in S : ~(y < x)
  BY <1>1 DEF OpToRel
<1>3. x \in Nat /\ \A y \in S : y \in Nat
  OBVIOUS
<1> QED
  BY <1>2, <1>3

LEMMA MinOfNaturals ==
  ASSUME NEW S, S \subseteq Nat, S # {}
  PROVE  /\ Min(S) \in S
         /\ \A i \in S : Min(S) <= i
BY LeastNatural DEF Min

\* The largest x is the one with the least n - x.
LEMMA MaxOfNaturals ==
  ASSUME NEW n \in Nat, NEW S, S \subseteq 0..n, S # {}
  PROVE  /\ Max(S) \in S
         /\ \A i \in S : i <= Max(S)
<1> DEFINE Mirror == {n - x : x \in S}
<1>1. Mirror \subseteq Nat /\ Mirror # {}
  <2>1. \A x \in S : n - x \in Nat
    OBVIOUS
  <2> QED
    BY <2>1
<1>2. PICK d \in Mirror : \A e \in Mirror : d <= e
  BY <1>1, LeastNatural
<1>3. PICK x \in S : d = n - x
  BY <1>2
<1>4. \A y \in S : n - y \in Mirror
  OBVIOUS
<1>5. \A y \in S : x >= y
  BY <1>2, <1>3, <1>4
<1> QED
  BY <1>5 DEF Max

-----------------------------------------------------------------------------
(* What controller and worker compute from the plan                         *)

LEMMA PlanTypes ==
  /\ NumOps \in Nat \ {0}
  /\ Plan \in [Steps -> Op]
  /\ DOMAIN FaultAt \subseteq Steps
  /\ Steps \subseteq Nat
  /\ NoStep \notin Steps
BY PlanAssumption DEF WellFormed, Steps, NoStep

LEMMA MinOfSteps ==
  ASSUME NEW S, S \subseteq Steps, S # {}
  PROVE  /\ Min(S) \in S
         /\ \A i \in S : Min(S) <= i
BY PlanTypes, MinOfNaturals

LEMMA MaxOfSteps ==
  ASSUME NEW S, S \subseteq Steps, S # {}
  PROVE  /\ Max(S) \in S
         /\ \A i \in S : i <= Max(S)
<1>1. NumOps - 1 \in Nat
  BY PlanTypes
<1> QED
  BY <1>1, MaxOfNaturals DEF Steps

LEMMA KeysAreNaturals == Keys \subseteq Nat
BY PlanTypes DEF Keys, Op

\* Every key has a last operation.
LEMMA LastOnIsStep ==
  ASSUME NEW k \in Keys
  PROVE  LastOn(k) \in Steps
<1>1. OpsOn(k) # {} /\ OpsOn(k) \subseteq Steps
  BY DEF Keys, OpsOn
<1>2. Max(OpsOn(k)) \in OpsOn(k)
  BY <1>1, MaxOfSteps
<1> QED
  BY <1>1, <1>2 DEF LastOn

LEMMA ValueOfIsValue ==
  ASSUME NEW i \in Steps
  PROVE  ValueOf(i) \in Values
BY DEF ValueOf, Values

\* A chunk is not empty and ends within the plan.
LEMMA ChunkEnds ==
  ASSUME NEW i \in Steps
  PROVE  ChunkEnd(i) \in (i + 1)..NumOps
<1> DEFINE Ends == {j \in (i + 1)..NumOps : j = NumOps \/ Plan[j].batch # Plan[i].batch}
<1>1. i \in Nat /\ i + 1 <= NumOps /\ NumOps \in Nat
  BY PlanTypes DEF Steps
<1>2. NumOps \in Ends /\ Ends \subseteq Nat
  BY <1>1
<1>3. Min(Ends) \in Ends
  BY <1>2, MinOfNaturals
<1>4. Min(Ends) \in (i + 1)..NumOps /\ i + 1 \in (i + 1)..NumOps
  BY <1>1, <1>3
<1> QED
  BY <1>4 DEF ChunkEnd

LEMMA ChunkInPlan ==
  ASSUME NEW i \in Steps
  PROVE  Chunk(i) \subseteq Steps /\ Chunk(i) # {}
<1>1. i \in Nat /\ NumOps \in Nat /\ ChunkEnd(i) \in (i + 1)..NumOps
  BY PlanTypes, ChunkEnds DEF Steps
<1>2. i \in i..(ChunkEnd(i) - 1) /\ i..(ChunkEnd(i) - 1) \subseteq 0..(NumOps - 1)
  BY <1>1
<1> QED
  BY <1>2 DEF Chunk, Steps

LEMMA TransactionsInPlan ==
  ASSUME NEW i \in Steps
  PROVE  Transactions(i) \subseteq SUBSET Steps
BY ChunkInPlan DEF Transactions, InLane

LEMMA AppliedIsStore ==
  ASSUME NEW tx \in SUBSET Steps, store \in [Keys -> Values]
  PROVE  Applied(tx) \in [Keys -> Values]
<1> SUFFICES ASSUME NEW k \in Keys, tx \cap OpsOn(k) # {}
             PROVE  ValueOf(Max(tx \cap OpsOn(k))) \in Values
  BY DEF Applied
<1> DEFINE writes == tx \cap OpsOn(k)
<1>1. writes \subseteq Steps /\ writes # {}
  OBVIOUS
<1> HIDE DEF writes
<1>2. Max(writes) \in writes
  BY <1>1, MaxOfSteps
<1>3. Max(writes) \in Steps
  BY <1>1, <1>2
<1> QED
  BY <1>3, ValueOfIsValue DEF writes

\* The operations a sequence of reports names are operations of the plan.
LEMMA ReportsNameSteps ==
  ASSUME NEW rs \in Seq(Report)
  PROVE  \A r \in MutationReports(rs) : r.op \in Steps
<1>1. \A n \in DOMAIN rs : rs[n] \in Report
  OBVIOUS
<1> QED
  BY <1>1 DEF MutationReports, Report

\* next_worker_start stays within the plan.
LEMMA ResumeInPlan ==
  ASSUME NEW current \in 0..NumOps, NEW rs \in Seq(Report)
  PROVE  ResumeAt(current, rs) \in 0..NumOps
<1> DEFINE failed == {r.op : r \in {x \in MutationReports(rs) : x.outcome # "Acked"}}
           ends   == {current} \cup {r.op + 1 : r \in MutationReports(rs)}
           batch  == {i \in Steps : Plan[i].batch = Plan[Min(failed)].batch}
<1>1. failed \subseteq Steps /\ \A r \in MutationReports(rs) : r.op \in Steps
  BY ReportsNameSteps
<1>2. ends \subseteq 0..NumOps /\ ends # {} /\ NumOps \in Nat
  BY <1>1, PlanTypes DEF Steps
<1>3. Max(ends) \in 0..NumOps
  BY <1>2, MaxOfNaturals
<1>4. CASE failed = {}
  BY <1>3, <1>4 DEF ResumeAt
<1>5. CASE failed # {}
  <2>1. Min(failed) \in Steps
    BY <1>1, <1>5, PlanTypes, MinOfNaturals
  <2>2. Min(batch) \in Steps
    BY <2>1, PlanTypes, MinOfNaturals
  <2>3. Steps \subseteq 0..NumOps
    BY PlanTypes DEF Steps
  <2> QED
    BY <2>1, <2>2, <2>3, <1>5 DEF ResumeAt
<1> QED
  BY <1>4, <1>5

\* What a verifier is held to names operations of the plan, whatever was
\* acknowledged.
LEMMA AckedExpectationsInPlan ==
  ASSUME NEW rs
  PROVE  /\ DOMAIN AckedExpectations(rs) \subseteq Keys
         /\ \A k \in DOMAIN AckedExpectations(rs) : AckedExpectations(rs)[k] \in Steps
<1> DEFINE Certain(k) == {i \in OpsOn(k) : \/ ReportedAs(i, "Acked", rs)
                                           \/ ReportedAs(i, "Unknown", rs)}
           Known(k)   == Certain(k) # {} /\ ReportedAs(Max(Certain(k)), "Acked", rs)
<1>1. ASSUME NEW k \in Keys, Known(k) PROVE Max(Certain(k)) \in Steps
  <2>1. Certain(k) \subseteq Steps /\ Certain(k) # {}
    BY <1>1 DEF OpsOn
  <2> HIDE DEF Certain
  <2>2. Max(Certain(k)) \in Certain(k)
    BY <2>1, MaxOfSteps
  <2> QED
    BY <2>1, <2>2
<1>2. AckedExpectations(rs) = [k \in {x \in Keys : Known(x)} |-> Max(Certain(k))]
  BY DEF AckedExpectations
<1> HIDE DEF Certain, Known
<1> QED
  BY <1>1, <1>2

LEMMA ExpectedInPlan ==
  /\ DOMAIN Expected \subseteq Keys
  /\ \A k \in DOMAIN Expected : Expected[k] \in Steps
BY AckedExpectationsInPlan, LastOnIsStep DEF Expected, FinalExpectations

-----------------------------------------------------------------------------
(* The invariant                                                            *)

\* What the phase of a worker says of its other fields.
WorkerInv ==
  /\ Alive => pc = "Poll"
  /\ worker.phase \in {"Executing", "Emitting"} =>
       worker.index < NumOps /\ worker.unreported # {}
  /\ worker.phase \in {"Running", "Executing", "Emitting", "Verifying"} => worker.ready
  /\ worker.doomed => worker.ready
  /\ worker.phase = "Verifying" => worker.unread \subseteq DOMAIN Expected

\* A worker stops as planned only where a fault was planned for it, and only
\* after it became ready: that completes the recovery from the fault before.
PlannedStop(code) == code \in {"Crashed", "Interrupted"}
Stoppable == mode = "Segment" /\ NextFault # NoStep
StopInv ==
  /\ pc = "Poll" /\ (worker.doomed \/ (~Alive /\ PlannedStop(worker.code)))
       => worker.ready /\ Stoppable
  /\ pc = "Settle" /\ PlannedStop(status) => readySeen # NotReady /\ Stoppable
  /\ ~Recovering => pending.ready = NotReady

RunInv == TypeOK /\ WorkerInv /\ StopInv

LEMMA InitTypes == Init => TypeOK
<1> SUFFICES ASSUME Init PROVE TypeOK
  OBVIOUS
<1>1. worker \in [phase : Phases, failpoint : DOMAIN FaultAt \cup {NoStep}, index : 0..NumOps,
                  todo : SUBSET SUBSET Steps, failed : SUBSET Steps,
                  unreported : SUBSET Steps, unread : SUBSET Keys, doomed : BOOLEAN,
                  ready : BOOLEAN, held : BOOLEAN, code : WorkerStatus]
  BY PlanTypes DEF Init, WorkerInit, NoWorker, Phases, WorkerStatus
<1>2. /\ store \in [Keys -> Values]
      /\ lease \in BOOLEAN /\ lockFile \in BOOLEAN
      /\ sentinel \in DOMAIN FaultAt \cup {NoStep}
      /\ lost \subseteq Keys /\ armed \subseteq DOMAIN FaultAt
  BY DEF Init, WorkerInit, Values
<1>3. reports \in Seq(Report) /\ trouble \in 0..MaxTrouble
  BY WorkerAssumption DEF Init, WorkerInit
<1>7. WorkerType
  BY <1>1, <1>2, <1>3 DEF WorkerType
<1>4. start \in 0..NumOps /\ age \in Ages
  BY PlanTypes, RunAssumption DEF Init, Ages
<1>5. flags \in [Flags -> BOOLEAN]
  BY DEF Init
<1>6. /\ pending \in [step : DOMAIN FaultAt \cup {NoStep}, ready : Ages \cup {NotReady}]
      /\ observed \in Seq(Report)
      /\ events \in Seq(Event)
  BY DEF Init, NoRecovery
<1> QED
  BY <1>7, <1>4, <1>5, <1>6 DEF TypeOK, Init, WorkerStatus

LEMMA RunInit == Init => RunInv
<1> SUFFICES ASSUME Init PROVE RunInv
  OBVIOUS
<1>1. WorkerInv /\ StopInv
  BY DEF Init, WorkerInit, NoWorker, NoRecovery, WorkerInv, StopInv, Alive, PlannedStop,
         Recovering
<1> QED
  BY <1>1, InitTypes DEF RunInv

-----------------------------------------------------------------------------
(* Steps of the worker and the engine                                       *)

LEMMA LogType ==
  ASSUME reports \in Seq(Report), NEW i \in Steps, NEW phase \in {"Mutation", "Verification"},
         NEW outcome \in Outcomes, Log(i, phase, outcome)
  PROVE  reports' \in Seq(Report)
<1>1. [op |-> i, phase |-> phase, outcome |-> outcome] \in Report
  BY DEF Report
<1> QED
  BY <1>1 DEF Log

LEMMA AdversityType ==
  ASSUME trouble \in 0..MaxTrouble, Adversity \/ Spend \/ UNCHANGED trouble
  PROVE  trouble' \in 0..MaxTrouble
BY WorkerAssumption DEF Adversity, Spend

LEMMA HeldTextsBoolean == HeldTexts \subseteq BOOLEAN
BY WorkerAssumption DEF HeldTexts

\* An exit keeps the record of the worker.
LEMMA ExitType ==
  ASSUME WorkerType, NEW code \in WorkerStatus,
         Exit(code) \/ \E held \in BOOLEAN : ExitHeld(code, held),
         reports' \in Seq(Report), store' \in [Keys -> Values], lease' \in BOOLEAN,
         lockFile' \in BOOLEAN, trouble' \in 0..MaxTrouble, lost' \subseteq Keys,
         UNCHANGED failpointVars
  PROVE  WorkerType'
<1>1. worker' \in [phase : Phases, failpoint : DOMAIN FaultAt \cup {NoStep}, index : 0..NumOps,
                   todo : SUBSET SUBSET Steps, failed : SUBSET Steps,
                   unreported : SUBSET Steps, unread : SUBSET Keys, doomed : BOOLEAN,
                   ready : BOOLEAN, held : BOOLEAN, code : WorkerStatus]
  <2>1. "Exited" \in Phases
    BY DEF Phases
  <2>2. CASE Exit(code)
    BY <2>1, <2>2 DEF Exit, WorkerType
  <2>3. CASE \E held \in BOOLEAN : ExitHeld(code, held)
    <3>1. PICK held \in BOOLEAN : ExitHeld(code, held)
      BY <2>3
    <3> QED
      BY <2>1, <3>1 DEF ExitHeld, WorkerType
  <2> QED
    BY <2>2, <2>3
<1> QED
  BY <1>1 DEF WorkerType, failpointVars

LEMMA EngineKeepsTypes ==
  ASSUME WorkerType, WorkerInv, Engine
  PROVE  WorkerType'
<1> USE DEF Exit, ExitHeld, WorkerType, Phases, WorkerStatus, failpointVars
<1>1. CASE OpenFenced
  BY <1>1 DEF OpenFenced
<1>2. CASE OpenReady
  BY <1>2 DEF OpenReady
<1>3. CASE CrashOnStep(CrashAt)
  BY <1>3 DEF CrashOnStep
<1>4. CASE InterruptOnStep(InterruptAt)
  <2>1. trouble' \in 0..MaxTrouble /\ lease' \in BOOLEAN
    BY <1>4, AdversityType DEF InterruptOnStep
  <2>2. PICK code \in {"Interrupted", "Failed"} : Exit(code)
    BY ONLY <1>4 DEF InterruptOnStep
  <2>3. UNCHANGED <<reports, store, lockFile, lost, failpointVars>>
    BY ONLY <1>4 DEF InterruptOnStep
  <2>4. /\ reports' \in Seq(Report) /\ store' \in [Keys -> Values]
        /\ lockFile' \in BOOLEAN /\ lost' \subseteq Keys
    BY <2>3
  <2> QED
    BY ONLY WorkerType, <2>1, <2>2, <2>3, <2>4, ExitType DEF WorkerStatus
<1>5. CASE BeginChunk(CrashAt, InterruptAt)
  <2>1. worker.index \in Steps
    BY <1>5, PlanTypes DEF BeginChunk, Steps
  <2>2. /\ Transactions(worker.index) \in SUBSET SUBSET Steps
        /\ Chunk(worker.index) \in SUBSET Steps
    BY <2>1, TransactionsInPlan, ChunkInPlan
  <2>3. (worker.doomed \/ worker.index = CrashAt) \in BOOLEAN
    OBVIOUS
  <2> QED
    BY <1>5, <2>2, <2>3 DEF BeginChunk
<1>6. CASE RejectChunk(InterruptAt)
  BY <1>6 DEF RejectChunk
<1>7. CASE \E tx \in worker.todo : CommitTransaction(tx)
  <2>1. PICK tx \in worker.todo : CommitTransaction(tx)
    BY <1>7
  <2>2. Applied(tx) \in [Keys -> Values]
    BY AppliedIsStore
  <2> QED
    BY <2>1, <2>2 DEF CommitTransaction
<1>8. CASE \E tx \in worker.todo : FailTransaction(tx)
  <2>1. PICK tx \in worker.todo : FailTransaction(tx)
    BY <1>8
  <2>2. Applied(tx) \in [Keys -> Values]
    BY AppliedIsStore
  <2> QED
    BY <2>1, <2>2, AdversityType DEF FailTransaction
<1>9. CASE CrashThreadExits
  BY <1>9 DEF CrashThreadExits
<1>10. CASE ChunkUnreadable
  BY <1>10 DEF ChunkUnreadable
<1>11. CASE CrashAfterStep(CrashAfterAt)
  BY <1>11 DEF CrashAfterStep
<1>12. CASE EndChunk(CrashAfterAt)
  BY <1>12 DEF EndChunk
<1>13. CASE EmitOutcome
  <2>0. /\ worker.phase = "Emitting"
        /\ worker.unreported \subseteq Steps /\ worker.unreported # {}
        /\ worker.index \in 0..NumOps /\ worker.index < NumOps
    BY <1>13 DEF EmitOutcome, WorkerInv
  <2>1. Min(worker.unreported) \in Steps
    BY ONLY <2>0, MinOfSteps
  <2>2. reports' \in Seq(Report)
    BY <1>13, <2>1, LogType DEF EmitOutcome, Outcomes
  <2>3. ChunkEnd(worker.index) \in 0..NumOps
    <3>1. worker.index \in Steps
      BY <2>0, PlanTypes DEF Steps
    <3>2. worker.index \in Nat /\ ChunkEnd(worker.index) \in (worker.index + 1)..NumOps
      BY <3>1, PlanTypes, ChunkEnds
    <3> QED
      BY <3>2, PlanTypes
  <2>4. CASE \E held \in HeldTexts : ExitHeld("Incomplete", held)
    <3>1. PICK held \in BOOLEAN : ExitHeld("Incomplete", held)
      BY <2>4, HeldTextsBoolean
    <3> QED
      BY <1>13, <2>2, <3>1 DEF EmitOutcome
  <2>5. CASE worker' = [worker EXCEPT !.unreported = @ \ {Min(worker.unreported)}]
    BY <1>13, <2>2, <2>5 DEF EmitOutcome
  <2>6. CASE worker' = [worker EXCEPT !.unreported = {}, !.phase = "Running",
                                      !.index = ChunkEnd(worker.index)]
    BY <1>13, <2>2, <2>3, <2>6 DEF EmitOutcome
  <2> QED
    BY ONLY <1>13, <2>4, <2>5, <2>6 DEF EmitOutcome
<1>14. CASE BeginVerification(Expected)
  BY <1>14, ExpectedInPlan DEF BeginVerification
<1>15. CASE VerifyKey(Expected)
  <2>1. Min(worker.unread) \in DOMAIN Expected
    BY <1>15, KeysAreNaturals, MinOfNaturals DEF VerifyKey, WorkerInv
  <2>2. reports' \in Seq(Report)
    BY <1>15, <2>1, ExpectedInPlan, LogType DEF VerifyKey, Outcomes
  <2> QED
    BY <1>15, <2>2 DEF VerifyKey
<1>16. CASE MismatchKey(Expected)
  <2>1. Min(worker.unread) \in DOMAIN Expected
    BY <1>16, KeysAreNaturals, MinOfNaturals DEF MismatchKey, WorkerInv
  <2>2. reports' \in Seq(Report)
    BY <1>16, <2>1, ExpectedInPlan, LogType DEF MismatchKey, Outcomes
  <2>3. trouble' \in 0..MaxTrouble
    BY <1>16, AdversityType DEF MismatchKey
  <2> QED
    BY <1>16, <2>2, <2>3 DEF MismatchKey
<1>17. CASE ShutDown
  <2>1. trouble' \in 0..MaxTrouble /\ lease' \in BOOLEAN
    BY <1>17, AdversityType DEF ShutDown
  <2>2. PICK code \in {"Ok", "Failed"} : Exit(code)
    BY ONLY <1>17 DEF ShutDown
  <2>3. UNCHANGED <<reports, store, lockFile, lost, failpointVars>>
    BY ONLY <1>17 DEF ShutDown
  <2>4. /\ reports' \in Seq(Report) /\ store' \in [Keys -> Values]
        /\ lockFile' \in BOOLEAN /\ lost' \subseteq Keys
    BY <2>3
  <2> QED
    BY ONLY WorkerType, <2>1, <2>2, <2>3, <2>4, ExitType DEF WorkerStatus
<1>18. CASE Abort
  <2>1. trouble' \in 0..MaxTrouble
    BY <1>18, AdversityType DEF Abort
  <2>2. lease' \in BOOLEAN /\ lockFile' \in BOOLEAN
    BY <1>18 DEF Abort, DiesHolding
  <2>3. \E held \in BOOLEAN : ExitHeld("Failed", held)
    BY ONLY <1>18, HeldTextsBoolean DEF Abort
  <2>4. UNCHANGED <<reports, store, lost, failpointVars>>
    BY ONLY <1>18 DEF Abort
  <2>5. reports' \in Seq(Report) /\ store' \in [Keys -> Values] /\ lost' \subseteq Keys
    BY <2>4
  <2> QED
    BY ONLY WorkerType, <2>1, <2>2, <2>3, <2>4, <2>5, ExitType DEF WorkerStatus
<1>19. CASE \E k \in Keys : LoseValue(k)
  <2>1. PICK k \in Keys : LoseValue(k)
    BY <1>19
  <2>2. store' \in [Keys -> Values]
    BY <2>1, ValueOfIsValue DEF LoseValue, OpsOn, Values
  <2> QED
    BY <2>1, <2>2, AdversityType DEF LoseValue
<1>20. CASE LeaseExpires
  <2> HIDE DEF Phases, WorkerStatus
  <2> QED
    BY <1>20 DEF LeaseExpires
<1>21. CASE TakeSentinel
  BY <1>21, PlanTypes DEF TakeSentinel, RemoveFile
<1>22. CASE ConfigureFailpoint
  BY <1>22 DEF ConfigureFailpoint
<1> HIDE DEF Exit, ExitHeld, WorkerType, Phases, WorkerStatus, failpointVars
<1> QED
  BY ONLY Engine, <1>1, <1>2, <1>3, <1>4, <1>5, <1>6, <1>7, <1>8, <1>9, <1>10, <1>11, <1>12,
     <1>13, <1>14, <1>15, <1>16, <1>17, <1>18, <1>19, <1>20, <1>21, <1>22
  DEF Engine, WorkerStep

\* A step that leaves the controller alone keeps its part of the types, what a
\* verifier is held to and where the worker is to be stopped.
LEMMA ControllerAlone ==
  ASSUME UNCHANGED controlVars
  PROVE  /\ TypeOK /\ WorkerType' => TypeOK'
         /\ Expected' = Expected
         /\ Stoppable' = Stoppable
         /\ Recovering' = Recovering
BY DEF controlVars, TypeOK, Expected, Stoppable, NextFault, Recovering

\* A trigger that is set is a fault planned for a segment.
LEMMA TriggersPlanned ==
  /\ CrashAt \in Nat => Stoppable
  /\ CrashAfterAt \in Nat => Stoppable
  /\ InterruptAt \in Nat => Stoppable
BY DEF CrashAt, CrashAfterAt, InterruptAt, Trigger, Stoppable, NoStep

LEMMA EngineKeepsPhases ==
  ASSUME WorkerType, WorkerInv, StopInv, Engine, pc = "Poll", UNCHANGED controlVars
  PROVE  WorkerInv' /\ StopInv'
<1>0. /\ {"phase", "failpoint", "index", "todo", "failed", "unreported", "unread", "doomed",
          "ready", "held", "code"} \subseteq DOMAIN worker
      /\ worker.index \in 0..NumOps /\ worker.index \in Nat /\ worker.doomed \in BOOLEAN
  BY PlanTypes DEF WorkerType
<1>c. /\ pc' = "Poll" /\ pending' = pending /\ readySeen' = readySeen /\ status' = status
      /\ Expected' = Expected /\ Stoppable' = Stoppable /\ Recovering' = Recovering
  BY ControllerAlone DEF controlVars
<1> USE <1>0, <1>c DEF WorkerInv, StopInv, Alive, PlannedStop, Exit, ExitHeld
<1>1. CASE OpenFenced
  BY <1>1 DEF OpenFenced
<1>2. CASE OpenReady
  BY <1>2 DEF OpenReady
<1>3. CASE CrashOnStep(CrashAt)
  BY <1>3, TriggersPlanned DEF CrashOnStep
<1>4. CASE InterruptOnStep(InterruptAt)
  BY <1>4, TriggersPlanned DEF InterruptOnStep
<1>5. CASE BeginChunk(CrashAt, InterruptAt)
  <2>1. Chunk(worker.index) # {}
    BY <1>5, PlanTypes, ChunkInPlan DEF BeginChunk, Steps
  <2> QED
    BY <1>5, <2>1, TriggersPlanned DEF BeginChunk
<1>6. CASE RejectChunk(InterruptAt)
  BY <1>6 DEF RejectChunk
<1>7. CASE \E tx \in worker.todo : CommitTransaction(tx)
  BY <1>7 DEF CommitTransaction
<1>8. CASE \E tx \in worker.todo : FailTransaction(tx)
  BY <1>8 DEF FailTransaction
<1>9. CASE CrashThreadExits
  BY <1>9 DEF CrashThreadExits
<1>10. CASE ChunkUnreadable
  BY <1>10 DEF ChunkUnreadable
<1>11. CASE CrashAfterStep(CrashAfterAt)
  <2>1. worker.phase = "Executing" /\ worker.index \in Steps
    BY <1>11, PlanTypes DEF CrashAfterStep, ChunkExecuted, Steps
  <2>2. CrashAfterAt \in Nat
    BY <1>11, <2>1, PlanTypes, ChunkInPlan DEF CrashAfterStep
  <2> QED
    BY <1>11, <2>1, <2>2, TriggersPlanned DEF CrashAfterStep
<1>12. CASE EndChunk(CrashAfterAt)
  BY <1>12 DEF EndChunk, ChunkExecuted
<1>13. CASE EmitOutcome
  BY <1>13 DEF EmitOutcome
<1>14. CASE BeginVerification(Expected)
  BY <1>14 DEF BeginVerification
<1>15. CASE VerifyKey(Expected)
  BY <1>15 DEF VerifyKey
<1>16. CASE MismatchKey(Expected)
  BY <1>16 DEF MismatchKey
<1>17. CASE ShutDown
  BY <1>17 DEF ShutDown
<1>18. CASE Abort
  BY <1>18 DEF Abort
<1>19. CASE \E k \in Keys : LoseValue(k)
  BY <1>19 DEF LoseValue
<1>20. CASE LeaseExpires
  BY <1>20 DEF LeaseExpires
<1>21. CASE TakeSentinel
  BY <1>21 DEF TakeSentinel
<1>22. CASE ConfigureFailpoint
  BY <1>22 DEF ConfigureFailpoint
<1> QED
  BY <1>1, <1>2, <1>3, <1>4, <1>5, <1>6, <1>7, <1>8, <1>9, <1>10, <1>11, <1>12,
     <1>13, <1>14, <1>15, <1>16, <1>17, <1>18, <1>19, <1>20, <1>21, <1>22
  DEF Engine, WorkerStep

LEMMA EngineKeepsRunInv ==
  ASSUME RunInv, Engine, pc = "Poll", UNCHANGED controlVars
  PROVE  RunInv'
<1>1. WorkerType /\ WorkerInv /\ StopInv /\ TypeOK
  BY DEF RunInv, TypeOK
<1>2. WorkerType'
  BY <1>1, EngineKeepsTypes
<1>3. WorkerInv' /\ StopInv'
  BY <1>1, EngineKeepsPhases
<1> QED
  BY <1>1, <1>2, <1>3, ControllerAlone DEF RunInv

-----------------------------------------------------------------------------
(* Steps of the controller                                                  *)

PendingRecovery == [step : DOMAIN FaultAt \cup {NoStep}, ready : Ages \cup {NotReady}]

\* What a settlement makes of the pending recovery.
LEMMA RecordedType ==
  ASSUME TypeOK, StopInv
  PROVE  /\ Recorded \in PendingRecovery
         /\ Recorded.step = pending.step
         /\ RecoveryDone => Recovering
         /\ Unstable \in PendingRecovery
         /\ Unstable = [step |-> pending.step, ready |-> NotReady]
         /\ AfterCompletion \in PendingRecovery
         /\ AfterCompletion = IF RecoveryDone THEN NoRecovery ELSE Recorded
<1>1. pending \in PendingRecovery /\ readySeen \in Ages \cup {NotReady}
  BY DEF TypeOK, PendingRecovery
<1>2. /\ Recorded \in PendingRecovery /\ Recorded.step = pending.step
      /\ ~Recovering => Recorded = pending
  BY <1>1 DEF Recorded, PendingRecovery
<1>3. RecoveryDone => Recovering
  BY <1>2 DEF RecoveryDone, StopInv
<1>4. Unstable \in PendingRecovery /\ Unstable = [step |-> pending.step, ready |-> NotReady]
  BY <1>2 DEF Unstable, PendingRecovery
<1>5. NoRecovery \in PendingRecovery
  BY DEF NoRecovery, PendingRecovery
<1> QED
  BY <1>2, <1>3, <1>4, <1>5 DEF AfterCompletion

LEMMA OutcomeType ==
  ASSUME NEW latency
  PROVE  RecoveryOutcome(latency, Budget) \in RecoveryOutcomes
BY DEF RecoveryOutcome, RecoveryOutcomes

LEMMA CompletedType ==
  ASSUME TypeOK, StopInv
  PROVE  Completed \in Seq(Event)
<1>1. events \in Seq(Event) /\ pending.step \in DOMAIN FaultAt \cup {NoStep}
  BY DEF TypeOK
<1>2. ASSUME RecoveryDone
      PROVE  [step |-> Recorded.step, outcome |-> RecoveryOutcome(Recorded.ready, Budget)]
               \in Event
  BY <1>1, <1>2, RecordedType, OutcomeType DEF Event, Recovering
<1> QED
  BY <1>1, <1>2 DEF Completed

LEMMA NextFaultType ==
  ASSUME TypeOK
  PROVE  NextFault \in faults \cup {NoStep}
<1> DEFINE ahead == {s \in faults : s >= start}
<1>1. ahead \subseteq Steps /\ ahead \subseteq faults
  BY PlanTypes DEF TypeOK
<1> HIDE DEF ahead
<1>2. ahead # {} => Min(ahead) \in faults
  BY <1>1, MinOfSteps
<1> QED
  BY <1>2 DEF NextFault, ahead

LEMMA RaiseType ==
  ASSUME flags \in [Flags -> BOOLEAN], NEW raised, Raise(raised)
  PROVE  flags' \in [Flags -> BOOLEAN]
BY DEF Raise

LEMMA ContinueType ==
  ASSUME NEW next \in 0..NumOps, ContinueAt(next)
  PROVE  start' \in 0..NumOps /\ pc' \in {"Launch", "LoopExit"}
BY DEF ContinueAt

LEMMA KeepReportsType ==
  ASSUME TypeOK, KeepReports
  PROVE  observed' \in Seq(Report)
BY DEF TypeOK, WorkerType, KeepReports

\* However an attempt is settled, no worker is left.
LEMMA SettledKeepsRunInv ==
  ASSUME RunInv, NEW p \in PendingRecovery, Settled(p),
         p.step = NoStep => p.ready = NotReady,
         pc' \in {"Launch", "LoopExit", "Conclude"}, UNCHANGED <<mode, late>>,
         start' \in 0..NumOps, faults' \subseteq faults,
         observed' \in Seq(Report), events' \in Seq(Event),
         flags' \in [Flags -> BOOLEAN], struck' \subseteq DOMAIN FaultAt,
         sentinel' \in DOMAIN FaultAt \cup {NoStep}, trouble' \in 0..MaxTrouble
  PROVE  RunInv'
<1>1. TypeOK /\ WorkerType /\ WorkerInv /\ StopInv /\ pc = "Settle"
  BY DEF RunInv, TypeOK, Settled
<1>2. /\ pending' = p /\ UNCHANGED <<readySeen, status, verdict, worker, reports, store, lease,
                                     lost, armed>>
      /\ lockFile' \in BOOLEAN
  BY <1>1 DEF Settled, WorkerType
<1>3. age' \in Ages
  BY <1>1, RunAssumption DEF Settled, TypeOK, Ages
<1>4. WorkerType'
  BY <1>1, <1>2 DEF WorkerType
<1>5. TypeOK'
  BY <1>1, <1>2, <1>3, <1>4 DEF TypeOK, PendingRecovery
<1>6. worker.phase = "Exited"
  BY <1>1 DEF WorkerInv, Alive
<1>7. WorkerInv' /\ StopInv'
  BY <1>1, <1>2, <1>6 DEF WorkerInv, StopInv, Alive, Recovering
<1> QED
  BY <1>5, <1>7 DEF RunInv

\* A fault that strikes is one that was planned.
LEMMA StruckIsPlanned ==
  ASSUME RunInv, pc = "Settle", status \in {"Crashed", "Interrupted"}
  PROVE  NextFault \in faults /\ NextFault \in DOMAIN FaultAt /\ NextFault \in Steps
<1>1. NextFault # NoStep /\ TypeOK
  BY DEF RunInv, StopInv, PlannedStop, Stoppable
<1> QED
  BY <1>1, NextFaultType, PlanTypes DEF TypeOK

LEMMA ResumeAfterFaultType ==
  ASSUME NEW step \in Steps
  PROVE  ResumeAfterFault(step) \in 0..NumOps
BY PlanTypes DEF ResumeAfterFault, Steps

LEMMA SettleSegmentKeepsRunInv ==
  ASSUME RunInv,
         \/ RetryFenced \/ StrikeFault \/ FaultNotApplied
         \/ FinishSegments \/ RetrySegment \/ AbandonSegments
  PROVE  RunInv'
<1>0. /\ TypeOK /\ StopInv /\ pc = "Settle"
      /\ flags \in [Flags -> BOOLEAN] /\ events \in Seq(Event) /\ observed \in Seq(Report)
      /\ start \in 0..NumOps /\ struck \subseteq DOMAIN FaultAt
      /\ sentinel \in DOMAIN FaultAt \cup {NoStep} /\ trouble \in 0..MaxTrouble
      /\ reports \in Seq(Report)
  BY DEF RunInv, TypeOK, WorkerType, Settled, RetryFenced, StrikeFault, FaultNotApplied,
         FinishSegments, RetrySegment, AbandonSegments
<1>1. CASE RetryFenced
  <2>1. /\ Settled(Recorded) /\ pc' = "Launch" /\ UNCHANGED <<mode, late>> /\ Recovering
        /\ UNCHANGED <<start, faults, observed, events, flags, trouble, struck, sentinel>>
    BY <1>1 DEF RetryFenced, SettlesSegment, FencedRetry
  <2>2. Recorded \in PendingRecovery /\ Recorded.step # NoStep
    BY <1>0, <2>1, RecordedType DEF Recovering
  <2> QED
    BY <1>0, <2>1, <2>2, SettledKeepsRunInv
<1>2. CASE StrikeFault
  <2>1. /\ Settled([step |-> NextFault, ready |-> NotReady]) /\ UNCHANGED <<mode, late>>
        /\ KeepReports /\ events' = Completed /\ Raise({"verificationNeeded"})
        /\ faults' \subseteq faults /\ struck' = struck \cup {NextFault}
        /\ ContinueAt(ResumeAfterFault(NextFault))
        /\ sentinel' = AfterApplied(NextFault) /\ UNCHANGED trouble
        /\ status \in {"Crashed", "Interrupted"}
    BY <1>2 DEF StrikeFault, SettlesSegment
  <2>2. NextFault \in DOMAIN FaultAt /\ NextFault \in Steps
    BY <1>0, <2>1, StruckIsPlanned
  <2>3. [step |-> NextFault, ready |-> NotReady] \in PendingRecovery
    BY <2>2 DEF PendingRecovery
  <2>4. sentinel' \in DOMAIN FaultAt \cup {NoStep}
    BY <1>0, <2>1, <2>2 DEF AfterApplied
  <2>5. start' \in 0..NumOps /\ pc' \in {"Launch", "LoopExit"}
    BY <2>1, <2>2, ResumeAfterFaultType, ContinueType
  <2>6. /\ observed' \in Seq(Report) /\ events' \in Seq(Event)
        /\ flags' \in [Flags -> BOOLEAN] /\ struck' \subseteq DOMAIN FaultAt
    BY <1>0, <2>1, <2>2, KeepReportsType, CompletedType, RaiseType
  <2> QED
    BY <1>0, <2>1, <2>3, <2>4, <2>5, <2>6, SettledKeepsRunInv
<1>3. CASE FaultNotApplied
  <2>1. /\ Settled(NoRecovery) /\ UNCHANGED <<mode, late>> /\ Spend
        /\ KeepReports /\ Raise({"verificationNeeded", "executionIncomplete"})
        /\ events' = Append(Completed, [step |-> NextFault, outcome |-> "RecoveryFailed"])
        /\ struck' = struck \cup {NextFault}
        /\ pc' = "LoopExit" /\ UNCHANGED <<start, faults, sentinel>>
        /\ status \in {"Crashed", "Interrupted"}
    BY <1>3 DEF FaultNotApplied, SettlesSegment, LeaveLoop
  <2>2. NextFault \in DOMAIN FaultAt
    BY <1>0, <2>1, StruckIsPlanned
  <2>3. NoRecovery \in PendingRecovery /\ NoRecovery.ready = NotReady
    BY DEF PendingRecovery, NoRecovery
  <2>4. [step |-> NextFault, outcome |-> "RecoveryFailed"] \in Event
    BY <2>2 DEF Event, RecoveryOutcomes
  <2>5. /\ observed' \in Seq(Report) /\ events' \in Seq(Event)
        /\ flags' \in [Flags -> BOOLEAN] /\ struck' \subseteq DOMAIN FaultAt
    BY <1>0, <2>1, <2>2, <2>4, KeepReportsType, CompletedType, RaiseType
  <2>6. trouble' \in 0..MaxTrouble
    BY <1>0, <2>1, AdversityType
  <2> QED
    BY <1>0, <2>1, <2>3, <2>5, <2>6, SettledKeepsRunInv
<1>4. CASE FinishSegments
  <2>1. /\ Settled(AfterCompletion) /\ UNCHANGED <<mode, late>>
        /\ KeepReports /\ events' = Completed /\ Raise({"recoveryVerified"})
        /\ ContinueAt(NumOps)
        /\ UNCHANGED <<faults, trouble, struck, sentinel>>
    BY <1>4 DEF FinishSegments, SettlesSegment
  <2>2. /\ AfterCompletion \in PendingRecovery
        /\ AfterCompletion.step = NoStep => AfterCompletion.ready = NotReady
    BY <1>0, RecordedType DEF NoRecovery, RecoveryDone, Recovering
  <2>3. start' \in 0..NumOps /\ pc' \in {"Launch", "LoopExit"}
    BY <2>1, PlanTypes, ContinueType
  <2>4. /\ observed' \in Seq(Report) /\ events' \in Seq(Event)
        /\ flags' \in [Flags -> BOOLEAN]
    BY <1>0, <2>1, KeepReportsType, CompletedType, RaiseType
  <2> QED
    BY <1>0, <2>1, <2>2, <2>3, <2>4, SettledKeepsRunInv
<1>5. CASE RetrySegment
  <2>1. /\ Settled(Unstable) /\ UNCHANGED <<mode, late>>
        /\ KeepReports /\ Raise({"verificationNeeded"})
        /\ ContinueAt(ResumeAt(start, reports))
        /\ UNCHANGED <<faults, events, trouble, struck, sentinel>>
    BY <1>5 DEF RetrySegment, SettlesSegment
  <2>2. Unstable \in PendingRecovery /\ Unstable.ready = NotReady
    BY <1>0, RecordedType
  <2>3. start' \in 0..NumOps /\ pc' \in {"Launch", "LoopExit"}
    BY <1>0, <2>1, ResumeInPlan, ContinueType
  <2>4. observed' \in Seq(Report) /\ flags' \in [Flags -> BOOLEAN]
    BY <1>0, <2>1, KeepReportsType, RaiseType
  <2> QED
    BY <1>0, <2>1, <2>2, <2>3, <2>4, SettledKeepsRunInv
<1>6. CASE AbandonSegments
  <2>1. /\ Settled(Unstable) /\ UNCHANGED <<mode, late>>
        /\ KeepReports /\ Raise(AbandonedFlags)
        /\ pc' = "LoopExit" /\ UNCHANGED start
        /\ UNCHANGED <<faults, events, trouble, struck, sentinel>>
    BY <1>6 DEF AbandonSegments, SettlesSegment, LeaveLoop
  <2>2. Unstable \in PendingRecovery /\ Unstable.ready = NotReady
    BY <1>0, RecordedType
  <2>3. observed' \in Seq(Report) /\ flags' \in [Flags -> BOOLEAN]
    BY <1>0, <2>1, KeepReportsType, RaiseType
  <2> QED
    BY <1>0, <2>1, <2>2, <2>3, SettledKeepsRunInv
<1> QED
  BY <1>1, <1>2, <1>3, <1>4, <1>5, <1>6

LEMMA SettleVerifierKeepsRunInv ==
  ASSUME RunInv, RetryVerifier \/ FinishVerifier
  PROVE  RunInv'
<1>0. /\ TypeOK /\ StopInv
      /\ flags \in [Flags -> BOOLEAN] /\ events \in Seq(Event) /\ observed \in Seq(Report)
      /\ start \in 0..NumOps /\ struck \subseteq DOMAIN FaultAt
      /\ sentinel \in DOMAIN FaultAt \cup {NoStep} /\ trouble \in 0..MaxTrouble
  BY DEF RunInv, TypeOK, WorkerType
<1>1. UNCHANGED <<mode, late, start, faults, trouble, struck, sentinel>>
  BY DEF RetryVerifier, FinishVerifier, SettlesVerifier
<1>2. ASSUME NEW p \in {Recorded, AfterCompletion, Unstable}
      PROVE  p \in PendingRecovery /\ (p.step = NoStep => p.ready = NotReady)
  <2>1. ~Recovering => Recorded = pending /\ pending.ready = NotReady
    BY <1>0 DEF Recorded, StopInv
  <2> QED
    BY <1>0, <2>1, RecordedType DEF NoRecovery, Recovering
<1>3. CASE RetryVerifier
  <2>1. /\ Settled(Recorded) /\ pc' = "Launch" /\ UNCHANGED <<observed, events, flags>>
    BY <1>3 DEF RetryVerifier
  <2> QED
    BY <1>0, <1>1, <1>2, <2>1, SettledKeepsRunInv
<1>4. CASE FinishVerifier
  <2>1. /\ KeepReports /\ flags' = AfterVerifier(flags, status) /\ pc' = "Conclude"
        /\ events' \in {events, Completed}
    BY <1>4 DEF FinishVerifier
  <2>2. \E p \in {Recorded, AfterCompletion, Unstable} : Settled(p)
    BY <1>4 DEF FinishVerifier
  <2>3. observed' \in Seq(Report) /\ events' \in Seq(Event)
    BY <1>0, <2>1, KeepReportsType, CompletedType
  <2>4. flags' \in [Flags -> BOOLEAN]
    BY <1>0, <2>1 DEF AfterVerifier, Flags
  <2>5. PICK p \in {Recorded, AfterCompletion, Unstable} : Settled(p)
    BY <2>2
  <2> QED
    BY <1>0, <1>1, <1>2, <2>1, <2>3, <2>4, <2>5, SettledKeepsRunInv
<1> QED
  BY <1>3, <1>4

LEMMA LaunchKeepsRunInv ==
  ASSUME RunInv, Launch
  PROVE  RunInv'
<1>0. TypeOK /\ WorkerType /\ StopInv
  BY DEF RunInv, TypeOK
<1>1. PICK index \in 0..NumOps : Spawned(index)
  BY <1>0, PlanTypes DEF Launch, TypeOK
<1>2. worker' \in [phase : Phases, failpoint : DOMAIN FaultAt \cup {NoStep}, index : 0..NumOps,
                   todo : SUBSET SUBSET Steps, failed : SUBSET Steps,
                   unreported : SUBSET Steps, unread : SUBSET Keys, doomed : BOOLEAN,
                   ready : BOOLEAN, held : BOOLEAN, code : WorkerStatus]
  BY <1>1 DEF Spawned, NoWorker, FirstPhase, Phases, WorkerStatus
<1>3. WorkerType'
  BY <1>0, <1>1, <1>2 DEF Spawned, WorkerType, failpointVars
<1>4. TypeOK'
  BY <1>0, <1>3 DEF TypeOK, Launch
<1>5. /\ worker'.phase \in {"Activating", "Opening"}
      /\ worker'.doomed = FALSE /\ worker'.code = "Ok"
  BY <1>1 DEF Spawned, NoWorker, FirstPhase
<1>6. pc' = "Poll" /\ pending' = pending
  BY DEF Launch
<1>7. WorkerInv' /\ StopInv'
  BY <1>0, <1>5, <1>6 DEF WorkerInv, StopInv, Alive, PlannedStop, Recovering
<1> QED
  BY <1>4, <1>7 DEF RunInv

\* What only the controller's clock, deadline or polls change.
LEMMA ObserveKeepsRunInv ==
  ASSUME RunInv, ObserveReadiness \/ Tick \/ DeadlinePasses
  PROVE  RunInv'
<1>0. TypeOK /\ WorkerType /\ WorkerInv /\ StopInv
  BY DEF RunInv, TypeOK
<1>1. /\ UNCHANGED <<pc, mode, start, faults, pending, status, observed, events, flags,
                     verdict, struck, workerVars>>
      /\ age' \in Ages /\ late' \in BOOLEAN
      /\ readySeen' \in Ages \cup {NotReady}
      /\ readySeen' = readySeen \/ pc = "Poll"
  <2>1. CASE ObserveReadiness
    BY <1>0, <2>1 DEF ObserveReadiness, TypeOK
  <2>2. CASE Tick
    BY <1>0, <2>2, RunAssumption DEF Tick, TypeOK, Ages
  <2>3. CASE DeadlinePasses
    BY <1>0, <2>3 DEF DeadlinePasses, TypeOK
  <2> QED
    BY <2>1, <2>2, <2>3
<1>2. WorkerType'
  BY <1>0, <1>1 DEF WorkerType, workerVars
<1>3. TypeOK'
  BY <1>0, <1>1, <1>2 DEF TypeOK
<1>4. Stoppable' = Stoppable /\ Recovering' = Recovering /\ Expected' = Expected
  BY <1>1 DEF Stoppable, NextFault, Recovering, Expected
<1>5. WorkerInv' /\ StopInv'
  BY <1>0, <1>1, <1>4 DEF WorkerInv, StopInv, Alive, workerVars
<1> QED
  BY <1>3, <1>5 DEF RunInv

LEMMA ReapKeepsRunInv ==
  ASSUME RunInv, Reap
  PROVE  RunInv'
<1>0. TypeOK /\ WorkerType /\ WorkerInv /\ StopInv
  BY DEF RunInv, TypeOK
<1>1. /\ pc = "Poll" /\ ~Alive /\ pc' = "Settle" /\ status' = worker.code
      /\ readySeen' = LastLook
      /\ UNCHANGED <<mode, start, faults, pending, observed, events, flags, verdict, age,
                     late, struck, workerVars>>
  BY DEF Reap, EndPoll
<1>2. WorkerType'
  BY <1>0, <1>1 DEF WorkerType, workerVars
<1>3. status' \in WorkerStatus /\ readySeen' \in Ages \cup {NotReady}
  BY <1>0, <1>1 DEF TypeOK, WorkerType, LastLook
<1>4. TypeOK'
  BY <1>0, <1>1, <1>2, <1>3 DEF TypeOK
<1>5. worker.ready => readySeen' # NotReady
  BY <1>0, <1>1 DEF LastLook, TypeOK, Ages, NotReady
<1>6. Stoppable' = Stoppable /\ Recovering' = Recovering
  BY <1>1 DEF Stoppable, NextFault, Recovering
<1>7. WorkerInv' /\ StopInv'
  BY <1>0, <1>1, <1>5, <1>6 DEF WorkerInv, StopInv, Alive, workerVars
<1> QED
  BY <1>4, <1>7 DEF RunInv

LEMMA KillKeepsRunInv ==
  ASSUME RunInv, KillUnready \/ KillAtDeadline \/ KillStalled
  PROVE  RunInv'
<1>0. TypeOK /\ WorkerType /\ WorkerInv /\ StopInv
  BY DEF RunInv, TypeOK
<1>1. Kill /\ trouble' \in 0..MaxTrouble
  BY <1>0, AdversityType DEF KillUnready, KillAtDeadline, KillStalled, WorkerType
<1>2. /\ pc = "Poll" /\ Killed /\ pc' = "Settle" /\ status' = "TimedOut"
      /\ UNCHANGED <<mode, start, faults, pending, observed, events, flags, verdict, age,
                     late, struck, readySeen>>
  BY <1>1 DEF Kill, EndPoll
<1>3. /\ UNCHANGED <<reports, store, lost, failpointVars>>
      /\ lease' \in BOOLEAN /\ lockFile' \in BOOLEAN
      /\ worker' = worker \/ Exit("TimedOut")
  BY <1>0, <1>2 DEF Killed, DiesHolding, WorkerType
<1>4. worker' \in [phase : Phases, failpoint : DOMAIN FaultAt \cup {NoStep}, index : 0..NumOps,
                   todo : SUBSET SUBSET Steps, failed : SUBSET Steps,
                   unreported : SUBSET Steps, unread : SUBSET Keys, doomed : BOOLEAN,
                   ready : BOOLEAN, held : BOOLEAN, code : WorkerStatus]
  <2>1. CASE worker' = worker
    BY <1>0, <2>1 DEF WorkerType
  <2>2. CASE Exit("TimedOut")
    BY <1>0, <2>2 DEF Exit, WorkerType, Phases, WorkerStatus
  <2> QED
    BY <1>3, <2>1, <2>2
<1>5. WorkerType'
  BY <1>0, <1>1, <1>3, <1>4 DEF WorkerType, failpointVars
<1>6. TypeOK'
  BY <1>0, <1>2, <1>5 DEF TypeOK, WorkerStatus
<1>7. worker'.phase = "Exited" /\ worker'.doomed = worker.doomed /\ worker'.ready = worker.ready
  BY <1>0, <1>2 DEF Killed, Exit, Alive, WorkerType
<1>8. WorkerInv' /\ StopInv'
  BY <1>0, <1>2, <1>7 DEF WorkerInv, StopInv, Alive, PlannedStop, Recovering
<1> QED
  BY <1>6, <1>8 DEF RunInv

LEMMA ChooseVerifierKeepsRunInv ==
  ASSUME RunInv, ChooseVerifier
  PROVE  RunInv'
<1>0. TypeOK /\ WorkerType /\ WorkerInv /\ StopInv
  BY DEF RunInv, TypeOK
<1>1. /\ pc = "LoopExit" /\ pc' \in {"Launch", "Conclude"}
      /\ mode' \in {"Segment", "Verifier"} /\ late' \in BOOLEAN
      /\ UNCHANGED <<start, faults, pending, readySeen, status, observed, events, flags,
                     verdict, age, struck, workerVars>>
  BY <1>0 DEF ChooseVerifier, TypeOK
<1>2. WorkerType'
  BY <1>0, <1>1 DEF WorkerType, workerVars
<1>3. TypeOK'
  BY <1>0, <1>1, <1>2 DEF TypeOK
<1>4. WorkerInv' /\ StopInv'
  BY <1>0, <1>1 DEF WorkerInv, StopInv, Alive, Recovering, workerVars
<1> QED
  BY <1>3, <1>4 DEF RunInv

LEMMA ConcludeKeepsRunInv ==
  ASSUME RunInv, Conclude
  PROVE  RunInv'
<1>0. TypeOK /\ WorkerType /\ WorkerInv /\ StopInv
  BY DEF RunInv, TypeOK
<1>1. /\ pc = "Conclude" /\ pc' = "Done" /\ pending' = NoRecovery /\ age' = 0
      /\ events' = FinalEvents
      /\ flags' = [flags EXCEPT !["verificationIncomplete"] = FinalIncomplete]
      /\ verdict' \in Verdicts
      /\ UNCHANGED <<mode, start, faults, readySeen, status, observed, late, struck,
                     workerVars>>
  BY DEF Conclude, ClassifyVerdict, Verdicts
<1>2. WorkerType'
  BY <1>0, <1>1 DEF WorkerType, workerVars
<1>3. events' \in Seq(Event)
  <2>1. Recovering => [step |-> pending.step, outcome |-> LeftPending] \in Event
    BY <1>0 DEF TypeOK, Recovering, Event, LeftPending, RecoveryOutcomes
  <2> QED
    BY <1>0, <1>1, <2>1 DEF FinalEvents, TypeOK
<1>4. flags' \in [Flags -> BOOLEAN]
  <2>1. FinalIncomplete \in BOOLEAN
    BY <1>0 DEF TypeOK, FinalIncomplete, Flags, Recovering
  <2> QED
    BY <1>0, <1>1, <2>1 DEF TypeOK, Flags
<1>5. pending' \in PendingRecovery /\ age' \in Ages
  BY <1>1, RunAssumption DEF NoRecovery, PendingRecovery, Ages
<1>6. TypeOK'
  BY <1>0, <1>1, <1>2, <1>3, <1>4, <1>5 DEF TypeOK, PendingRecovery
<1>7. WorkerInv' /\ StopInv'
  BY <1>0, <1>1 DEF WorkerInv, StopInv, Alive, NoRecovery, Recovering, workerVars
<1> QED
  BY <1>6, <1>7 DEF RunInv

LEMMA StutterKeepsRunInv ==
  ASSUME RunInv, UNCHANGED vars
  PROVE  RunInv'
<1>1. UNCHANGED controlVars /\ UNCHANGED workerVars /\ TypeOK /\ WorkerType
  BY DEF vars, RunInv, TypeOK
<1>2. WorkerType'
  BY <1>1 DEF WorkerType, workerVars
<1>3. WorkerInv' /\ StopInv'
  BY <1>1, ControllerAlone DEF RunInv, WorkerInv, StopInv, Alive, workerVars, controlVars
<1> QED
  BY <1>1, <1>2, <1>3, ControllerAlone DEF RunInv

LEMMA RunStep == RunInv /\ [Next]_vars => RunInv'
<1> SUFFICES ASSUME RunInv, [Next]_vars PROVE RunInv'
  OBVIOUS
<1>1. CASE Launch
  BY <1>1, LaunchKeepsRunInv
<1>2. CASE ObserveReadiness \/ Tick \/ DeadlinePasses
  BY <1>2, ObserveKeepsRunInv
<1>3. CASE Reap
  BY <1>3, ReapKeepsRunInv
<1>4. CASE KillUnready \/ KillAtDeadline \/ KillStalled
  BY <1>4, KillKeepsRunInv
<1>5. CASE RetryFenced \/ StrikeFault \/ FaultNotApplied
             \/ FinishSegments \/ RetrySegment \/ AbandonSegments
  BY <1>5, SettleSegmentKeepsRunInv
<1>6. CASE ChooseVerifier
  BY <1>6, ChooseVerifierKeepsRunInv
<1>7. CASE RetryVerifier \/ FinishVerifier
  BY <1>7, SettleVerifierKeepsRunInv
<1>8. CASE Conclude
  BY <1>8, ConcludeKeepsRunInv
<1>9. CASE Engine /\ pc = "Poll" /\ UNCHANGED controlVars
  BY <1>9, EngineKeepsRunInv
<1>10. CASE UNCHANGED vars
  BY <1>10, StutterKeepsRunInv
<1> QED
  BY <1>1, <1>2, <1>3, <1>4, <1>5, <1>6, <1>7, <1>8, <1>9, <1>10 DEF Next, Controller

-----------------------------------------------------------------------------
\* The inductive invariant: the types, with what the phase of a worker and the
\* status of a settled one say of the rest.
THEOREM RunInvariant == Spec => []RunInv
BY RunInit, RunStep, PTL DEF Spec

\* However a run goes, its state is one the controller and the worker know: in
\* particular every resume point lies within the plan, and every recovery on
\* record is that of a planned fault.
THEOREM RunTypeCorrect == Spec => []TypeOK
<1>1. RunInv => TypeOK
  BY DEF RunInv
<1> QED
  BY <1>1, RunInvariant, PTL
=============================================================================
