----------------------- MODULE ScenarioVerdictProofs -----------------------
(***************************************************************************)
(* What a run of ScenarioRun promises when it is over: a complete run       *)
(* accounts for every operation, and a run that passes left every key with  *)
(* the value of the last operation of the plan.                            *)
(*                                                                         *)
(* Four invariants carry it.  LoopInv says how the main loop was left and   *)
(* that anything but an undisturbed first worker brings a verifier;         *)
(* WarrantInv, that only what was acknowledged, or is covered by an         *)
(* acknowledged window, is ever read back; ReadInv, what the reads say of   *)
(* the operations; StoreInv, what the database holds while only the first   *)
(* worker has touched it.                                                   *)
(***************************************************************************)
EXTENDS ScenarioRunProofs

-----------------------------------------------------------------------------
(* How far the main loop came                                               *)

InLoop == pc \in {"Launch", "Poll", "Settle"}
CutShort == flags["executionIncomplete"]
FirstWorker == ~flags["verificationNeeded"]

\* The loop is left before the end of the plan only by a run that says so, and once
\* anything but an undisturbed first worker was seen, a verifier follows.
LoopInv ==
  /\ flags["timedOut"] => CutShort
  /\ mode = "Verifier" => pc # "LoopExit" /\ ~FirstWorker
  /\ pc \in {"Conclude", "Done"} /\ ~FirstWorker => mode = "Verifier"
  /\ (mode = "Verifier" \/ ~InLoop) /\ ~CutShort => start = NumOps
  /\ FirstWorker =>
       /\ struck = {} /\ ~Recovering
       /\ InLoop => observed = <<>> /\ start = 0

LEMMA RaisedFlags ==
  ASSUME flags \in [Flags -> BOOLEAN], NEW raised, Raise(raised)
  PROVE  /\ flags'["timedOut"] <=> (flags["timedOut"] \/ "timedOut" \in raised)
         /\ flags'["executionIncomplete"] <=> (CutShort \/ "executionIncomplete" \in raised)
         /\ flags'["verificationNeeded"]
              <=> (flags["verificationNeeded"] \/ "verificationNeeded" \in raised)
         /\ flags'["verificationIncomplete"]
              <=> (flags["verificationIncomplete"] \/ "verificationIncomplete" \in raised)
BY DEF Raise, Flags, CutShort

LEMMA LoopInit == Init => LoopInv
BY DEF Init, LoopInv, Flags, CutShort, FirstWorker, InLoop, Recovering, NoRecovery

\* What the flags of a settled segment become.
LEMMA SettledLoop ==
  ASSUME RunInv, LoopInv,
         RetryFenced \/ StrikeFault \/ FaultNotApplied \/ FinishSegments \/ RetrySegment
           \/ AbandonSegments
  PROVE  LoopInv'
<1>0. /\ TypeOK /\ StopInv /\ flags \in [Flags -> BOOLEAN] /\ start \in 0..NumOps
      /\ NumOps \in Nat
  BY PlanTypes DEF RunInv, TypeOK
<1>1. mode = "Segment" /\ mode' = mode /\ pc = "Settle"
  BY DEF RetryFenced, StrikeFault, FaultNotApplied, FinishSegments, RetrySegment,
         AbandonSegments, SettlesSegment, Settled
<1>2. CASE RetryFenced
  <2>1. pc' = "Launch" /\ Recovering /\ UNCHANGED flags
    BY <1>2 DEF RetryFenced, FencedRetry
  <2> QED
    BY <1>1, <2>1 DEF LoopInv, InLoop, CutShort, FirstWorker
<1>3. CASE StrikeFault \/ RetrySegment
  <2>1. /\ flags'["verificationNeeded"]
        /\ flags'["timedOut"] <=> flags["timedOut"]
        /\ flags'["executionIncomplete"] <=> CutShort
    <3>1. Raise({"verificationNeeded"})
      BY <1>3 DEF StrikeFault, RetrySegment
    <3> QED
      BY <1>0, <3>1, RaisedFlags
  <2>2. \E next : ContinueAt(next) /\ next \in 0..NumOps
    <3>1. CASE StrikeFault
      BY <1>0, <1>1, <3>1, StruckIsPlanned, ResumeAfterFaultType DEF StrikeFault
    <3>2. CASE RetrySegment
      BY <1>0, <3>2, ResumeInPlan DEF RetrySegment, TypeOK, WorkerType
    <3> QED
      BY <1>3, <3>1, <3>2
  <2>3. pc' \in {"Launch", "LoopExit"} /\ (pc' = "LoopExit" => start' = NumOps)
    BY <1>0, <2>2 DEF ContinueAt
  <2> QED
    BY <1>1, <2>1, <2>3 DEF LoopInv, InLoop, CutShort, FirstWorker
<1>4. CASE FaultNotApplied \/ AbandonSegments
  <2>1. pc' = "LoopExit"
    BY <1>4 DEF FaultNotApplied, AbandonSegments, LeaveLoop
  <2>2. flags'["executionIncomplete"]
    BY <1>0, <1>4, RaisedFlags DEF FaultNotApplied, AbandonSegments, AbandonedFlags
  <2>3. ~flags'["verificationNeeded"] => /\ AbandonSegments /\ ~flags["verificationNeeded"]
                                         /\ struck' = struck /\ pending' = Unstable
    BY <1>0, <1>4, RaisedFlags DEF FaultNotApplied, AbandonSegments, Settled
  <2>4. Unstable.step = pending.step
    BY <1>0, RecordedType
  <2> QED
    BY <1>1, <2>1, <2>2, <2>3, <2>4 DEF LoopInv, InLoop, CutShort, FirstWorker, Recovering
<1>5. CASE FinishSegments
  <2>1. /\ flags'["verificationNeeded"] <=> flags["verificationNeeded"]
        /\ flags'["timedOut"] <=> flags["timedOut"]
        /\ flags'["executionIncomplete"] <=> CutShort
    <3>1. Raise({"recoveryVerified"})
      BY <1>5 DEF FinishSegments
    <3> QED
      BY <1>0, <3>1, RaisedFlags
  <2>2. pc' = "LoopExit" /\ start' = NumOps /\ struck' = struck /\ pending' = AfterCompletion
    BY <1>0, <1>5 DEF FinishSegments, ContinueAt, Settled
  <2>3. ~Recovering => AfterCompletion.step = NoStep
    BY <1>0, RecordedType DEF Recovering, NoRecovery
  <2> QED
    BY <1>1, <2>1, <2>2, <2>3 DEF LoopInv, InLoop, CutShort, FirstWorker, Recovering
<1> QED
  BY <1>2, <1>3, <1>4, <1>5

LEMMA LoopStep == RunInv /\ LoopInv /\ [Next]_vars => LoopInv'
<1> SUFFICES ASSUME RunInv, LoopInv, [Next]_vars PROVE LoopInv'
  OBVIOUS
<1>0. flags \in [Flags -> BOOLEAN] /\ mode \in {"Segment", "Verifier"}
  BY DEF RunInv, TypeOK
<1> USE DEF LoopInv, InLoop, CutShort, FirstWorker, Recovering
<1>1. CASE Launch
  BY <1>1 DEF Launch
<1>2. CASE ObserveReadiness \/ Tick \/ DeadlinePasses \/ UNCHANGED vars
  BY <1>2 DEF ObserveReadiness, Tick, DeadlinePasses, vars, controlVars
<1>3. CASE Reap \/ KillUnready \/ KillAtDeadline \/ KillStalled
  BY <1>3 DEF Reap, KillUnready, KillAtDeadline, KillStalled, Kill, EndPoll
<1>4. CASE RetryFenced \/ StrikeFault \/ FaultNotApplied \/ FinishSegments \/ RetrySegment
             \/ AbandonSegments
  BY ONLY <1>4, RunInv, LoopInv, SettledLoop
<1>5. CASE ChooseVerifier
  BY <1>5 DEF ChooseVerifier
<1>6. CASE RetryVerifier
  BY <1>6 DEF RetryVerifier, SettlesVerifier, Settled
<1>7. CASE FinishVerifier
  <2>1. /\ mode = "Verifier" /\ pc' = "Conclude" /\ UNCHANGED <<mode, start>>
        /\ flags' = AfterVerifier(flags, status)
    BY <1>7 DEF FinishVerifier, SettlesVerifier
  <2>2. /\ flags'["timedOut"] = flags["timedOut"]
        /\ flags'["executionIncomplete"] = flags["executionIncomplete"]
        /\ flags'["verificationNeeded"] = flags["verificationNeeded"]
    BY <1>0, <2>1 DEF AfterVerifier, Flags
  <2> QED
    BY <2>1, <2>2
<1>8. CASE Conclude
  <2>1. /\ pc = "Conclude" /\ pc' = "Done" /\ UNCHANGED <<mode, start, struck>>
        /\ pending' = NoRecovery
        /\ flags' = [flags EXCEPT !["verificationIncomplete"] = FinalIncomplete]
    BY <1>8 DEF Conclude
  <2>2. /\ flags'["timedOut"] = flags["timedOut"]
        /\ flags'["executionIncomplete"] = flags["executionIncomplete"]
        /\ flags'["verificationNeeded"] = flags["verificationNeeded"]
    BY <1>0, <2>1 DEF Flags
  <2> QED
    BY <2>1, <2>2 DEF NoRecovery
<1>9. CASE Engine /\ pc = "Poll" /\ UNCHANGED controlVars
  BY <1>9 DEF controlVars
<1> QED
  BY <1>1, <1>2, <1>3, <1>4, <1>5, <1>6, <1>7, <1>8, <1>9 DEF Next, Controller

-----------------------------------------------------------------------------
(* What verification reports rest on                                        *)

\* How the report file of a running worker grows.
LEMMA ReportFileGrows ==
  ASSUME RunInv, Engine
  PROVE  \/ UNCHANGED reports
         \/ \E i \in Steps, o \in {"Acked", "Failed"} : Log(i, "Mutation", o)
         \/ \E k \in DOMAIN Expected, o \in {"Acked", "Failed"} :
              /\ worker.phase = "Verifying"
              /\ Log(Expected[k], "Verification", o)
              /\ o = "Acked" => Plan[Expected[k]].action = "Put"
<1>0. /\ TypeOK /\ WorkerInv /\ worker.unreported \subseteq Steps
  BY DEF RunInv, TypeOK, WorkerType
<1>1. CASE EmitOutcome
  <2> DEFINE i == Min(worker.unreported)
  <2>1. i \in Steps
    BY <1>0, <1>1, MinOfSteps DEF EmitOutcome, WorkerInv
  <2>2. \E o \in {"Acked", "Failed"} : Log(i, "Mutation", o)
    BY <1>1 DEF EmitOutcome
  <2> QED
    BY <2>1, <2>2
<1>2. CASE VerifyKey(Expected) \/ MismatchKey(Expected)
  <2> DEFINE k == Min(worker.unread)
  <2>1. k \in DOMAIN Expected /\ worker.phase = "Verifying"
    BY <1>0, <1>2, KeysAreNaturals, MinOfNaturals, ExpectedInPlan DEF VerifyKey, MismatchKey, WorkerInv
  <2>2. \/ UNCHANGED reports
        \/ \E o \in {"Acked", "Failed"} :
             /\ Log(Expected[k], "Verification", o)
             /\ o = "Acked" => Plan[Expected[k]].action = "Put"
    BY <1>2 DEF VerifyKey, MismatchKey
  <2> HIDE DEF k
  <2> QED
    BY <2>1, <2>2
<1>3. CASE ~(EmitOutcome \/ VerifyKey(Expected) \/ MismatchKey(Expected))
  BY <1>3 DEF Engine, WorkerStep, TakeSentinel, ConfigureFailpoint, OpenFenced, OpenReady,
     CrashOnStep, InterruptOnStep, BeginChunk, RejectChunk, CommitTransaction, FailTransaction,
     CrashThreadExits, ChunkUnreadable, CrashAfterStep, EndChunk, BeginVerification, ShutDown,
     Abort, LoseValue, LeaseExpires
<1> QED
  BY <1>1, <1>2, <1>3

Reads(rs) == {r \in Lines(rs) : r.phase = "Verification"}
Backed(i) ==
  \/ i \in struck /\ FaultAt[i] = "AckBeforeReportCrash"
  \/ ReportedAs(i, "Acked", observed)

\* A worker only reads back operations that were acknowledged, or that an ack-kill
\* window covers: a segment because everything before the end of the plan was, a
\* verifier because that is what it is held to.
WarrantInv ==
  /\ \A r \in Reads(observed) : Backed(r.op)
  /\ pc \in {"Poll", "Settle"} =>
       \A r \in Reads(reports) : Backed(r.op) \/ ReportedAs(r.op, "Acked", reports)

LEMMA WarrantInit == Init => WarrantInv
<1> SUFFICES ASSUME Init PROVE WarrantInv
  OBVIOUS
<1>1. DOMAIN observed = {} /\ pc = "Launch"
  BY DEF Init
<1> QED
  BY <1>1 DEF WarrantInv, Reads, Lines

\* What a worker is about to read back.
LEMMA ExpectedIsBacked ==
  ASSUME RunInv, ProgressInv, LoopInv, NoSkippedOperation, pc = "Poll",
         worker.phase = "Verifying", NEW k \in DOMAIN Expected
  PROVE  Backed(Expected[k]) \/ ReportedAs(Expected[k], "Acked", reports)
<1> DEFINE i == Expected[k]
<1>0. /\ i \in Steps /\ i \in Nat /\ i < NumOps /\ NumOps \in Nat
      /\ start \in Nat /\ mode \in {"Segment", "Verifier"}
  BY ExpectedInPlan, PlanTypes DEF RunInv, TypeOK, Steps
<1>1. i < start => Backed(i)
  BY <1>0 DEF NoSkippedOperation, ReportedAcked, Backed
<1>2. CASE mode = "Segment"
  <2>1. AckedUpTo(NumOps)
    BY <1>2, PositionIsAcked DEF ProgressInv, Position
  <2> QED
    BY <1>0, <1>1, <2>1 DEF AckedUpTo
<1>3. CASE mode = "Verifier" /\ ~CutShort
  BY <1>0, <1>1, <1>3 DEF LoopInv
<1>4. CASE mode = "Verifier" /\ CutShort
  <2>1. Expected = AckedExpectations(observed)
    BY <1>4 DEF Expected, CutShort
  <2> QED
    BY <2>1, AckedExpectationsReported DEF Backed
<1> QED
  BY <1>0, <1>2, <1>3, <1>4

LEMMA EngineKeepsWarrant ==
  ASSUME RunInv, ProgressInv, LoopInv, NoSkippedOperation, WarrantInv, pc = "Poll",
         UNCHANGED controlVars, Engine
  PROVE  WarrantInv'
<1>0. reports \in Seq(Report)
  BY DEF RunInv, TypeOK, WorkerType
<1>1. /\ pc' = pc /\ observed' = observed
      /\ \A i : Backed(i)' <=> Backed(i)
  BY DEF controlVars, Backed, ReportedAs, MutationReports
<1>2. Reads(observed)' = Reads(observed)
  BY <1>1 DEF Reads, Lines
<1>3. /\ \A r \in Reads(observed) : Backed(r.op)
      /\ \A r \in Reads(reports) : Backed(r.op) \/ ReportedAs(r.op, "Acked", reports)
  BY DEF WarrantInv
<1>4. CASE UNCHANGED reports
  BY <1>1, <1>2, <1>3, <1>4 DEF WarrantInv, Reads, Lines, ReportedAs, MutationReports
<1>5. CASE \E i \in Steps, o \in {"Acked", "Failed"} : Log(i, "Mutation", o)
  <2>1. PICK i \in Steps, o \in {"Acked", "Failed"} : Log(i, "Mutation", o)
    BY <1>5
  <2>2. o \in Outcomes
    BY DEF Outcomes
  <2>3. Reads(reports') = Reads(reports)
    BY <1>0, <2>1, <2>2, LoggedLine DEF Reads
  <2>4. \A j : ReportedAs(j, "Acked", reports) => ReportedAs(j, "Acked", reports')
    BY <1>0, <2>1, <2>2, LogMutation
  <2>5. \A r \in Reads(reports') : Backed(r.op)' \/ ReportedAs(r.op, "Acked", reports')
    BY <1>1, <1>3, <2>3, <2>4
  <2> QED
    BY <1>1, <1>2, <1>3, <2>5 DEF WarrantInv, Reads, Lines, ReportedAs, MutationReports
<1>6. CASE \E k \in DOMAIN Expected, o \in {"Acked", "Failed"} :
             worker.phase = "Verifying" /\ Log(Expected[k], "Verification", o)
  <2>1. PICK k \in DOMAIN Expected, o \in {"Acked", "Failed"} :
           worker.phase = "Verifying" /\ Log(Expected[k], "Verification", o)
    BY <1>6
  <2>2. o \in Outcomes /\ Expected[k] \in Steps
    BY ExpectedInPlan DEF Outcomes
  <2>3. Reads(reports') = Reads(reports) \cup
          {[op |-> Expected[k], phase |-> "Verification", outcome |-> o]}
    BY <1>0, <2>1, <2>2, LoggedLine DEF Reads
  <2>4. MutationReports(reports') = MutationReports(reports)
    BY <1>0, <2>1, <2>2, LogVerification
  <2>5. \A j : ReportedAs(j, "Acked", reports) <=> ReportedAs(j, "Acked", reports')
    BY <2>4 DEF ReportedAs
  <2>6. Backed(Expected[k]) \/ ReportedAs(Expected[k], "Acked", reports)
    BY <2>1, ExpectedIsBacked
  <2>7. \A r \in Reads(reports') : Backed(r.op)' \/ ReportedAs(r.op, "Acked", reports')
    BY <1>1, <1>3, <2>3, <2>5, <2>6
  <2> QED
    BY <1>1, <1>2, <1>3, <2>7 DEF WarrantInv, Reads, Lines, ReportedAs, MutationReports
<1> QED
  BY <1>4, <1>5, <1>6, ReportFileGrows

LEMMA WarrantStep ==
  RunInv /\ ProgressInv /\ LoopInv /\ NoSkippedOperation /\ WarrantInv /\ [Next]_vars
    => WarrantInv'
<1> SUFFICES ASSUME RunInv, ProgressInv, LoopInv, NoSkippedOperation, WarrantInv, [Next]_vars
             PROVE  WarrantInv'
  OBVIOUS
<1>0. TypeOK /\ observed \in Seq(Report) /\ reports \in Seq(Report)
  BY DEF RunInv, TypeOK, WorkerType
<1>s. ASSUME observed' = observed, struck \subseteq struck'
      PROVE  \A r \in Reads(observed)' : Backed(r.op)'
  <2>1. \A r \in Reads(observed) : Backed(r.op)
    BY DEF WarrantInv
  <2>2. \A i : Backed(i) => Backed(i)'
    BY <1>s DEF Backed, ReportedAs, MutationReports
  <2>3. Reads(observed)' = Reads(observed)
    BY <1>s DEF Reads, Lines
  <2> QED
    BY <2>1, <2>2, <2>3
<1>1. CASE Launch
  <2>1. reports' = <<>> /\ observed' = observed /\ struck' = struck
    BY <1>1 DEF Launch, Spawned
  <2>2. DOMAIN reports' = {}
    BY <2>1
  <2> QED
    BY <1>s, <2>1, <2>2 DEF WarrantInv, Reads, Lines
<1>2. CASE ObserveReadiness \/ Tick \/ DeadlinePasses \/ Reap \/ KillUnready \/ KillAtDeadline
             \/ KillStalled \/ UNCHANGED vars
  <2>1. UNCHANGED <<observed, struck, reports>> /\ (pc' \in {"Poll", "Settle"} => pc \in {"Poll", "Settle"})
    BY <1>2 DEF ObserveReadiness, Tick, DeadlinePasses, Reap, KillUnready, KillAtDeadline,
       KillStalled, Kill, Killed, EndPoll, vars, controlVars, workerVars
  <2> QED
    BY <2>1 DEF WarrantInv, Reads, Lines, Backed, ReportedAs, MutationReports
<1>3. CASE RetryFenced \/ RetryVerifier \/ ChooseVerifier \/ Conclude
  <2>1. UNCHANGED <<observed, struck>> /\ pc' \notin {"Poll", "Settle"}
    BY <1>3 DEF RetryFenced, RetryVerifier, ChooseVerifier, Conclude, SettlesSegment, SettlesVerifier
  <2> QED
    BY <1>s, <2>1 DEF WarrantInv
<1>4. CASE StrikeFault \/ FaultNotApplied \/ FinishSegments \/ RetrySegment \/ AbandonSegments
             \/ FinishVerifier
  <2>1. /\ pc = "Settle" /\ pc' \notin {"Poll", "Settle"} /\ KeepReports /\ struck \subseteq struck'
    BY <1>4 DEF StrikeFault, FaultNotApplied, FinishSegments, RetrySegment, AbandonSegments,
       FinishVerifier, Settled, ContinueAt, LeaveLoop, SettlesVerifier
  <2>2. Lines(observed') = Lines(observed) \cup Lines(reports)
    BY <1>0, <2>1, LinesKept DEF KeepReports
  <2>3. \A i : Backed(i) \/ ReportedAs(i, "Acked", reports) => Backed(i)'
    BY <1>0, <2>1, KeptReports DEF Backed
  <2>4. \A r \in Reads(observed') : Backed(r.op)'
    BY <2>1, <2>2, <2>3 DEF WarrantInv, Reads
  <2> QED
    BY <2>1, <2>4 DEF WarrantInv, Reads, Lines
<1>5. CASE Engine /\ pc = "Poll" /\ UNCHANGED controlVars
  BY <1>5, EngineKeepsWarrant
<1> QED
  BY <1>1, <1>2, <1>3, <1>4, <1>5 DEF Next, Controller

-----------------------------------------------------------------------------
(* What the ledger makes of the reports of a complete run                   *)

\* An acknowledged operation stays so if no read contradicts it.
LEMMA AckedWithoutMismatch ==
  ASSUME NEW i, NEW rs \in Seq(Report), NEW u, ReportedAs(i, "Acked", rs),
         \A r \in Reads(rs) : r.op = i => r.outcome = "Acked"
  PROVE  Classified(i, rs, u) = "Acked"
<1>1. PICK n \in Nat :
         /\ rs \in [1..n -> Report] /\ DOMAIN rs = 1..n
         /\ \A o, v : Classified(o, rs, v) =
              AfterLastReport(VerificationPass(MutationPass(o, rs, n), o, rs, n), v)
  BY ReportsRead
<1> DEFINE mutated == MutationPass(i, rs, n)
<1>2. \E m \in 1..n : rs[m] = [op |-> i, phase |-> "Mutation", outcome |-> "Acked"]
  <2>1. PICK r \in Lines(rs) : r.phase = "Mutation" /\ r.op = i /\ r.outcome = "Acked"
    BY LinesAreReports DEF ReportedAs
  <2>2. r = [op |-> i, phase |-> "Mutation", outcome |-> "Acked"]
    BY <2>1, LinesAreReports DEF Report
  <2> QED
    BY <1>1, <2>1, <2>2 DEF Lines
<1>3. mutated = "Acked"
  BY <1>1, <1>2, MutationPassAcks
<1>4. \A m \in 1..n : 0 < m /\ rs[m].op = i /\ rs[m].phase = "Verification"
        => rs[m].outcome = "Acked"
  BY <1>1 DEF Reads, Lines
<1>5. VerificationPass("Acked", i, rs, n) = "Acked"
  <2>1. "Acked" \in MutationOutcome \ {"Duplicate"} /\ 0 \in 0..n
    BY DEF MutationOutcome
  <2> QED
    BY <1>1, <1>4, <2>1, VerificationPassAcks
<1> QED
  BY <1>1, <1>3, <1>5 DEF AfterLastReport

\* The last worker to read an operation has the last word.
LEMMA AckedByLastReads ==
  ASSUME NEW i, NEW first \in Seq(Report), NEW second \in Seq(Report), NEW u,
         [op |-> i, phase |-> "Verification", outcome |-> "Acked"] \in Lines(second),
         \A r \in Reads(second) : r.op = i => r.outcome = "Acked"
  PROVE  Classified(i, first \o second, u) = "Acked"
<1> DEFINE rs == first \o second
           acked == [op |-> i, phase |-> "Verification", outcome |-> "Acked"]
<1>1. PICK a \in Nat, b \in Nat :
         /\ DOMAIN second = 1..b /\ DOMAIN rs = 1..(a + b)
         /\ \A m \in 1..b : rs[m + a] = second[m]
         /\ rs \in Seq(Report)
  <2>1. /\ Len(first) \in Nat /\ Len(second) \in Nat
        /\ DOMAIN second = 1..Len(second) /\ DOMAIN rs = 1..(Len(first) + Len(second))
        /\ \A m \in 1..Len(second) : rs[m + Len(first)] = second[m]
        /\ rs \in Seq(Report)
    OBVIOUS
  <2> HIDE DEF rs
  <2> QED
    BY <2>1
<1> HIDE DEF rs
<1>2. PICK n \in Nat :
         /\ rs \in [1..n -> Report] /\ DOMAIN rs = 1..n
         /\ \A o, v : Classified(o, rs, v) =
              AfterLastReport(VerificationPass(MutationPass(o, rs, n), o, rs, n), v)
  BY <1>1, ReportsRead
<1>3. n = a + b
  <2>1. 1..n = 1..(a + b) /\ a + b \in Nat
    BY <1>1, <1>2
  <2> QED
    BY ONLY <2>1, n \in Nat
<1>4. PICK p \in 1..b : second[p] = acked
  BY <1>1 DEF Lines
<1>5. p + a \in 1..n /\ p + a \in 0..n /\ p + a # 0 /\ rs[p + a] = acked
  BY <1>1, <1>3, <1>4
<1>6. ASSUME NEW m \in 1..n, p + a < m, rs[m].op = i, rs[m].phase = "Verification"
      PROVE  rs[m].outcome = "Acked"
  <2>1. m - a \in 1..b /\ m = (m - a) + a
    BY <1>3, <1>6
  <2>2. rs[m] = second[m - a]
    BY <1>1, <2>1
  <2> QED
    BY <1>1, <1>6, <2>1, <2>2 DEF Reads, Lines
<1> DEFINE mutated == MutationPass(i, rs, n)
<1>7. mutated \in MutationOutcome \ {"Duplicate"}
  BY <1>2, MutationPassAcks
<1>8. VerificationPass(mutated, i, rs, n) = "Acked"
  <2> DEFINE from == p + a
  <2>1. /\ from \in 0..n
        /\ IF from = 0 THEN mutated = "Acked" ELSE rs[from] = acked
        /\ \A m \in 1..n : from < m /\ rs[m].op = i /\ rs[m].phase = "Verification"
                            => rs[m].outcome = "Acked"
    BY <1>5, <1>6
  <2> HIDE DEF mutated, from
  <2> QED
    BY <1>2, <1>7, <2>1, VerificationPassAcks
<1> QED
  BY <1>2, <1>8 DEF AfterLastReport, rs

-----------------------------------------------------------------------------
(* What the workers read back                                               *)

OfPlan(rs) ==
  \A r \in Reads(rs) :
    /\ r.op = LastOn(Plan[r.op].key)
    /\ Plan[r.op].action = "Delete" => r.outcome = "Failed"
Clean(rs) == \A r \in Reads(rs) : r.outcome = "Acked"
ReadBack(ks) ==
  \A k \in ks : Plan[Expected[k]].action = "Put" =>
    [op |-> Expected[k], phase |-> "Verification", outcome |-> "Acked"] \in Reads(reports)
ReadAll == Clean(reports) /\ ReadBack(DOMAIN Expected)
Verified(k) ==
  Plan[LastOn(k)].action = "Put" =>
    \A u \in {"Unknown", "Missing"} : Classified(LastOn(k), observed, u) = "Acked"

VerifierDone == pc \in {"Conclude", "Done"} /\ mode = "Verifier"

\* A worker leaves with Ok only after it has read every key it is held to; a run that
\* is not cut short reads nothing but the last operation on a key.
ReadInv ==
  /\ \A r \in Reads(observed) \cup Reads(reports) : r.outcome \in {"Acked", "Failed"}
  /\ ~CutShort => /\ OfPlan(observed)
                  /\ pc \in {"Poll", "Settle"} => OfPlan(reports)
  /\ pc = "Poll" =>
       /\ Alive => Clean(reports)
       /\ worker.phase = "Verifying" => ReadBack(DOMAIN Expected \ worker.unread)
       /\ ~Alive /\ worker.code = "Ok" => ReadAll
  /\ pc = "Settle" /\ status = "Ok" => ReadAll
  /\ ~InLoop /\ FirstWorker /\ ~CutShort => Clean(observed)
  /\ VerifierDone /\ ~CutShort /\ ~flags["verificationIncomplete"]
       => \A k \in Keys : Verified(k)

LEMMA ReadInit == Init => ReadInv
<1> SUFFICES ASSUME Init PROVE ReadInv
  OBVIOUS
<1>1. DOMAIN observed = {} /\ DOMAIN reports = {} /\ pc = "Launch"
  BY DEF Init, WorkerInit
<1>2. Reads(observed) = {} /\ Reads(reports) = {}
  BY <1>1 DEF Reads, Lines
<1>3. \A r \in Reads(observed) \cup Reads(reports) : r.outcome \in {"Acked", "Failed"}
  BY <1>2
<1>4. OfPlan(observed)
  BY <1>2 DEF OfPlan
<1>5. pc \notin {"Poll", "Settle", "Conclude", "Done"} /\ InLoop
  BY <1>1 DEF InLoop
<1> QED
  BY <1>3, <1>4, <1>5 DEF ReadInv, VerifierDone

\* What a worker reads back of a run that is not cut short is the last operation on
\* a key.
LEMMA LastOnIsOn ==
  ASSUME NEW k \in Keys
  PROVE  /\ LastOn(k) \in OpsOn(k) /\ LastOn(k) \in Steps /\ Plan[LastOn(k)].key = k
         /\ \A i \in OpsOn(k) : i <= LastOn(k)
<1>1. OpsOn(k) # {} /\ OpsOn(k) \subseteq Steps
  BY DEF Keys, OpsOn
<1>2. /\ Max(OpsOn(k)) \in OpsOn(k)
      /\ \A i \in OpsOn(k) : i <= Max(OpsOn(k))
  BY <1>1, MaxOfSteps
<1> QED
  BY <1>2 DEF LastOn, OpsOn

LEMMA ExpectedIsLast ==
  ASSUME RunInv, ~CutShort, NEW k \in DOMAIN Expected
  PROVE  k \in Keys /\ Expected[k] = LastOn(k) /\ Expected[k] \in Steps
         /\ Expected[k] = LastOn(Plan[Expected[k]].key)
<1>1. Expected = FinalExpectations /\ k \in Keys
  BY DEF Expected, CutShort, FinalExpectations
<1> QED
  BY <1>1, LastOnIsOn DEF FinalExpectations

\* What a step of the engine or the worker leaves of the worker, as far as its
\* reads go.
LEMMA EngineReads ==
  ASSUME RunInv, Engine
  PROVE  \/ /\ UNCHANGED reports
            /\ worker'.phase = "Verifying" =>
                 \/ worker' = worker
                 \/ worker'.unread = DOMAIN Expected
            /\ worker'.phase = "Exited" /\ worker'.code = "Ok" =>
                 \/ worker' = worker
                 \/ worker.phase = "Verifying" /\ worker.unread = {}
            /\ worker'.phase # "Exited" => worker.phase # "Exited"
         \/ /\ worker.phase = "Emitting" /\ worker'.phase # "Verifying"
            /\ worker'.phase = "Exited" => worker'.code # "Ok"
            /\ \E i \in Steps, o \in {"Acked", "Failed"} : Log(i, "Mutation", o)
         \/ \E k \in DOMAIN Expected :
              /\ worker.phase = "Verifying" /\ worker'.phase = "Verifying"
              /\ worker'.unread = worker.unread \ {k}
              /\ IF Plan[Expected[k]].action = "Put"
                 THEN Log(Expected[k], "Verification", "Acked") ELSE UNCHANGED reports
         \/ \E k \in DOMAIN Expected :
              /\ worker'.phase = "Exited" /\ worker'.code = "Failed"
              /\ Log(Expected[k], "Verification", "Failed")
<1>0. /\ TypeOK /\ WorkerInv /\ worker.unreported \subseteq Steps /\ WorkerType
      /\ worker \in [phase : Phases, failpoint : DOMAIN FaultAt \cup {NoStep}, index : 0..NumOps,
                 todo : SUBSET SUBSET Steps, failed : SUBSET Steps, unreported : SUBSET Steps,
                 unread : SUBSET Keys, doomed : BOOLEAN, ready : BOOLEAN,
                 held : BOOLEAN, code : WorkerStatus]
  BY DEF RunInv, TypeOK, WorkerType
<1>1. CASE EmitOutcome
  <2> DEFINE i == Min(worker.unreported)
  <2>1. i \in Steps
    BY <1>0, <1>1, MinOfSteps DEF EmitOutcome, WorkerInv
  <2>2. \E o \in {"Acked", "Failed"} : Log(i, "Mutation", o)
    BY <1>1 DEF EmitOutcome
  <2>3. /\ worker.phase = "Emitting" /\ worker'.phase # "Verifying"
        /\ worker'.phase = "Exited" => worker'.code # "Ok"
    BY <1>0, <1>1 DEF EmitOutcome, ExitHeld
  <2> HIDE DEF i
  <2> QED
    BY <2>1, <2>2, <2>3
<1>2. CASE VerifyKey(Expected) \/ MismatchKey(Expected)
  <2> DEFINE k == Min(worker.unread)
  <2>1. k \in DOMAIN Expected /\ worker.phase = "Verifying"
    BY <1>0, <1>2, KeysAreNaturals, MinOfNaturals, ExpectedInPlan DEF VerifyKey, MismatchKey, WorkerInv
  <2>2. \/ /\ worker'.phase = "Verifying"
           /\ worker'.unread = worker.unread \ {k}
           /\ IF Plan[Expected[k]].action = "Put"
              THEN Log(Expected[k], "Verification", "Acked") ELSE UNCHANGED reports
        \/ /\ worker'.phase = "Exited" /\ worker'.code = "Failed"
           /\ Log(Expected[k], "Verification", "Failed")
    BY <1>0, <1>2 DEF VerifyKey, MismatchKey, Exit
  <2> HIDE DEF k
  <2> QED
    BY <2>1, <2>2
<1>3. CASE ShutDown \/ BeginVerification(Expected)
  BY <1>0, <1>3 DEF ShutDown, BeginVerification, Exit
<1>4. CASE ~(EmitOutcome \/ VerifyKey(Expected) \/ MismatchKey(Expected)
             \/ ShutDown \/ BeginVerification(Expected))
  <2>1. UNCHANGED reports
    BY <1>4 DEF Engine, WorkerStep, TakeSentinel, ConfigureFailpoint, OpenFenced, OpenReady,
     CrashOnStep, InterruptOnStep, BeginChunk, RejectChunk, CommitTransaction, FailTransaction,
     CrashThreadExits, ChunkUnreadable, CrashAfterStep, EndChunk, Abort, LoseValue, LeaseExpires
  <2>2. CASE LeaseExpires \/ \E k \in Keys : LoseValue(k)
    BY <2>1, <2>2 DEF LeaseExpires, LoseValue
  <2>3. CASE ~(LeaseExpires \/ \E k \in Keys : LoseValue(k))
    <3>1. CASE \/ OpenFenced \/ CrashOnStep(CrashAt) \/ InterruptOnStep(InterruptAt)
               \/ RejectChunk(InterruptAt) \/ CrashThreadExits \/ ChunkUnreadable
               \/ CrashAfterStep(CrashAfterAt) \/ Abort
      BY <1>0, <3>1 DEF OpenFenced, CrashOnStep, InterruptOnStep, RejectChunk, CrashThreadExits,
         ChunkUnreadable, ChunkExecuted, CrashAfterStep, Abort, Exit, ExitHeld, Alive
    <3>2. CASE \/ TakeSentinel \/ ConfigureFailpoint \/ OpenReady
               \/ BeginChunk(CrashAt, InterruptAt) \/ EndChunk(CrashAfterAt)
      BY <1>0, <3>2 DEF TakeSentinel, ConfigureFailpoint, OpenReady, BeginChunk, EndChunk,
         ChunkExecuted
    <3>3. CASE \E tx \in worker.todo : CommitTransaction(tx) \/ FailTransaction(tx)
      BY <1>0, <3>3 DEF CommitTransaction, FailTransaction
    <3>4. \/ \/ OpenFenced \/ CrashOnStep(CrashAt) \/ InterruptOnStep(InterruptAt)
             \/ RejectChunk(InterruptAt) \/ CrashThreadExits \/ ChunkUnreadable
             \/ CrashAfterStep(CrashAfterAt) \/ Abort
          \/ \/ TakeSentinel \/ ConfigureFailpoint \/ OpenReady
             \/ BeginChunk(CrashAt, InterruptAt) \/ EndChunk(CrashAfterAt)
          \/ \E tx \in worker.todo : CommitTransaction(tx) \/ FailTransaction(tx)
      BY <1>4, <2>3 DEF Engine, WorkerStep
    <3> QED
      BY <3>1, <3>2, <3>3, <3>4
  <2> QED
    BY <2>2, <2>3
<1> QED
  BY <1>1, <1>2, <1>3, <1>4

\* A step of the worker or the engine: what it adds to the report file is a verified
\* key, or a mismatch the worker leaves with.
LEMMA EngineKeepsReads ==
  ASSUME RunInv, ReadInv, pc = "Poll", UNCHANGED controlVars, Engine
  PROVE  ReadInv'
<1>0. /\ reports \in Seq(Report) /\ Reads(reports) = {r \in Lines(reports) : r.phase = "Verification"}
      /\ DOMAIN Expected \subseteq Keys
  BY ExpectedInPlan DEF RunInv, TypeOK, WorkerType, Reads
<1>1. /\ pc' = pc /\ observed' = observed /\ flags' = flags /\ mode' = mode
      /\ Expected' = Expected
  BY DEF controlVars, Expected, AckedExpectations, FinalExpectations, OpsOn, LastOn, Keys,
         ReportedAs, MutationReports
<1>2. /\ \A r \in Reads(observed) : r.outcome \in {"Acked", "Failed"}
      /\ \A r \in Reads(reports) : r.outcome \in {"Acked", "Failed"}
      /\ ~CutShort => OfPlan(observed) /\ OfPlan(reports)
      /\ Alive => Clean(reports)
      /\ worker.phase = "Verifying" => ReadBack(DOMAIN Expected \ worker.unread)
      /\ ~Alive /\ worker.code = "Ok" => ReadAll
  BY DEF ReadInv
<1>3. /\ Reads(observed)' = Reads(observed)
      /\ OfPlan(observed)' <=> OfPlan(observed)
      /\ CutShort' <=> CutShort
  BY <1>1 DEF Reads, Lines, OfPlan, CutShort
<1>4. SUFFICES
        /\ \A r \in Reads(reports') : r.outcome \in {"Acked", "Failed"}
        /\ ~CutShort => OfPlan(reports')
        /\ Alive' => Clean(reports')
        /\ worker'.phase = "Verifying" => ReadBack(DOMAIN Expected \ worker.unread)'
        /\ ~Alive' /\ worker'.code = "Ok" => ReadAll'
  BY <1>1, <1>2, <1>3 DEF ReadInv, Reads, Lines, OfPlan, Clean, InLoop, VerifierDone
<1>5. CASE UNCHANGED reports
           /\ (worker'.phase = "Verifying" =>
                 \/ worker' = worker
                 \/ worker'.unread = DOMAIN Expected)
           /\ (worker'.phase = "Exited" /\ worker'.code = "Ok" =>
                 \/ worker' = worker
                 \/ worker.phase = "Verifying" /\ worker.unread = {})
           /\ (worker'.phase # "Exited" => worker.phase # "Exited")
  <2>1. /\ Reads(reports') = Reads(reports) /\ (OfPlan(reports') <=> OfPlan(reports))
        /\ Clean(reports') <=> Clean(reports)
        /\ \A ks : ReadBack(ks)' <=> ReadBack(ks)
    BY <1>1, <1>5 DEF Reads, Lines, OfPlan, Clean, ReadBack
  <2>2. Alive' => Alive
    BY <1>5 DEF Alive
  <2>3. worker'.phase = "Verifying" => ReadBack(DOMAIN Expected \ worker.unread)'
    <3>1. ReadBack({})
      BY DEF ReadBack
    <3> QED
      BY <1>1, <1>2, <1>5, <2>1, <3>1
  <2>4. ~Alive' /\ worker'.code = "Ok" => ReadAll'
    <3>1. ReadAll' <=> ReadAll
      BY <1>1, <2>1 DEF ReadAll
    <3>2. worker.phase = "Verifying" /\ worker.unread = {} => ReadAll
      BY <1>2 DEF ReadAll, Alive
    <3> QED
      BY <1>2, <1>5, <3>1, <3>2 DEF Alive
  <2> QED
    BY <1>2, <2>1, <2>2, <2>3, <2>4
<1>6. CASE worker.phase = "Emitting" /\ worker'.phase # "Verifying"
           /\ (worker'.phase = "Exited" => worker'.code # "Ok")
           /\ \E i \in Steps, o \in {"Acked", "Failed"} : Log(i, "Mutation", o)
  <2>1. PICK i \in Steps, o \in {"Acked", "Failed"} : Log(i, "Mutation", o)
    BY <1>6
  <2>2. o \in Outcomes
    BY DEF Outcomes
  <2>3. Reads(reports') = Reads(reports)
    BY <1>0, <2>1, <2>2, LoggedLine DEF Reads
  <2>4. /\ OfPlan(reports') <=> OfPlan(reports)
        /\ Clean(reports') <=> Clean(reports)
    BY <2>3 DEF OfPlan, Clean
  <2>5. Alive /\ (Alive' \/ worker'.code # "Ok")
    BY <1>6 DEF Alive
  <2> QED
    BY <1>2, <1>6, <2>3, <2>4, <2>5
<1>r. ASSUME NEW k \in DOMAIN Expected, NEW o \in {"Acked", "Failed"},
             o = "Acked" => Plan[Expected[k]].action = "Put",
             Log(Expected[k], "Verification", o)
      PROVE  /\ Reads(reports') = Reads(reports) \cup
                   {[op |-> Expected[k], phase |-> "Verification", outcome |-> o]}
             /\ \A r \in Reads(reports') : r.outcome \in {"Acked", "Failed"}
             /\ ~CutShort => OfPlan(reports')
  <2>1. o \in Outcomes /\ Expected[k] \in Steps
    BY ExpectedInPlan DEF Outcomes
  <2>2. Reads(reports') = Reads(reports) \cup
          {[op |-> Expected[k], phase |-> "Verification", outcome |-> o]}
    BY <1>0, <1>r, <2>1, LoggedLine DEF Reads
  <2>3. ~CutShort => Expected[k] = LastOn(Plan[Expected[k]].key)
    BY ExpectedIsLast
  <2>4. ~CutShort => OfPlan(reports')
    BY <1>2, <1>r, <2>2, <2>3 DEF OfPlan
  <2> QED
    BY <1>2, <2>2, <2>4
<1>7. CASE \E k \in DOMAIN Expected :
              /\ worker.phase = "Verifying" /\ worker'.phase = "Verifying"
              /\ worker'.unread = worker.unread \ {k}
              /\ IF Plan[Expected[k]].action = "Put"
                 THEN Log(Expected[k], "Verification", "Acked") ELSE UNCHANGED reports
  <2>1. PICK k \in DOMAIN Expected :
              /\ worker.phase = "Verifying" /\ worker'.phase = "Verifying"
              /\ worker'.unread = worker.unread \ {k}
              /\ IF Plan[Expected[k]].action = "Put"
                 THEN Log(Expected[k], "Verification", "Acked") ELSE UNCHANGED reports
    BY <1>7
  <2>2. Alive /\ Alive' /\ Clean(reports) /\ ReadBack(DOMAIN Expected \ worker.unread)
    BY <1>2, <2>1 DEF Alive
  <2>3. DOMAIN Expected \ worker'.unread \subseteq (DOMAIN Expected \ worker.unread) \cup {k}
    BY <2>1
  <2>4. CASE Plan[Expected[k]].action = "Put"
    <3>1. /\ Reads(reports') = Reads(reports) \cup
               {[op |-> Expected[k], phase |-> "Verification", outcome |-> "Acked"]}
          /\ \A r \in Reads(reports') : r.outcome \in {"Acked", "Failed"}
          /\ ~CutShort => OfPlan(reports')
      BY <1>r, <2>1, <2>4
    <3>2. Clean(reports')
      BY <2>2, <3>1 DEF Clean
    <3>3. ReadBack(DOMAIN Expected \ worker.unread)'
      BY <1>1, <2>2, <2>3, <3>1 DEF ReadBack
    <3> QED
      BY <2>2, <3>1, <3>2, <3>3
  <2>5. CASE Plan[Expected[k]].action # "Put"
    <3>1. /\ Reads(reports') = Reads(reports) /\ (OfPlan(reports') <=> OfPlan(reports))
          /\ Clean(reports') <=> Clean(reports)
      BY <2>1, <2>5 DEF Reads, Lines, OfPlan, Clean
    <3>2. ReadBack(DOMAIN Expected \ worker.unread)'
      BY <1>1, <2>2, <2>3, <2>5, <3>1 DEF ReadBack
    <3> QED
      BY <1>2, <2>2, <3>1, <3>2
  <2> QED
    BY <2>4, <2>5
<1>8. CASE \E k \in DOMAIN Expected :
              /\ worker'.phase = "Exited" /\ worker'.code = "Failed"
              /\ Log(Expected[k], "Verification", "Failed")
  BY <1>8, <1>r DEF Alive
<1> QED
  BY <1>5, <1>6, <1>7, <1>8, EngineReads

\* The reads of a settled worker join those of the run.
LEMMA SettledReads ==
  ASSUME RunInv, LoopInv, ReadInv,
         StrikeFault \/ FaultNotApplied \/ FinishSegments \/ RetrySegment \/ AbandonSegments
           \/ FinishVerifier
  PROVE  ReadInv'
<1>0. /\ observed \in Seq(Report) /\ reports \in Seq(Report) /\ flags \in [Flags -> BOOLEAN]
  BY DEF RunInv, TypeOK, WorkerType
<1>1. /\ pc = "Settle" /\ pc' \notin {"Poll", "Settle", "Done"} /\ KeepReports
      /\ UNCHANGED <<mode, reports>>
  BY DEF StrikeFault, FaultNotApplied, FinishSegments, RetrySegment, AbandonSegments,
     FinishVerifier, Settled, ContinueAt, LeaveLoop, SettlesVerifier, SettlesSegment
<1>2. /\ Reads(observed)' = Reads(observed) \cup Reads(reports)
      /\ Reads(reports)' = Reads(reports)
  <2>1. Lines(observed') = Lines(observed) \cup Lines(reports)
    BY <1>0, <1>1, LinesKept DEF KeepReports
  <2> QED
    BY <1>1, <2>1 DEF Reads, Lines
<1>3. \A r \in (Reads(observed) \cup Reads(reports))' : r.outcome \in {"Acked", "Failed"}
  BY <1>2 DEF ReadInv
<1>4. CutShort => CutShort'
  <2>1. CASE FinishVerifier
    BY <1>0, <2>1 DEF FinishVerifier, AfterVerifier, Flags, CutShort
  <2>2. CASE \E raised : Raise(raised)
    BY <1>0, <2>2 DEF Raise, Flags, CutShort
  <2> QED
    BY <2>1, <2>2 DEF StrikeFault, FaultNotApplied, FinishSegments, RetrySegment, AbandonSegments
<1>5. ~CutShort' => OfPlan(observed)'
  BY <1>1, <1>2, <1>4 DEF ReadInv, OfPlan
<1>6. ~InLoop' /\ FirstWorker' /\ ~CutShort' => Clean(observed)'
  <2>1. CASE FinishSegments
    <3>1. FirstWorker' => FirstWorker
      BY <1>0, <2>1, RaisedFlags DEF FinishSegments, FirstWorker
    <3>2. FirstWorker => observed = <<>>
      BY <1>1 DEF LoopInv, InLoop
    <3>3. Reads(<<>>) = {}
      BY DEF Reads, Lines
    <3>4. Clean(reports)
      BY <1>1, <2>1 DEF FinishSegments, ReadInv, ReadAll
    <3> QED
      BY <1>2, <3>1, <3>2, <3>3, <3>4 DEF Clean
  <2>2. CASE StrikeFault \/ FaultNotApplied \/ RetrySegment
    <3>1. Raise({"verificationNeeded"}) \/ Raise({"verificationNeeded", "executionIncomplete"})
      BY <2>2 DEF StrikeFault, FaultNotApplied, RetrySegment
    <3> QED
      BY <1>0, <3>1, RaisedFlags DEF FirstWorker
  <2>3. CASE AbandonSegments
    <3>1. Raise(AbandonedFlags) /\ "executionIncomplete" \in AbandonedFlags
      BY <2>3 DEF AbandonSegments, AbandonedFlags
    <3> QED
      BY <1>0, <3>1, RaisedFlags DEF CutShort
  <2>4. CASE FinishVerifier
    <3>1. mode = "Verifier" /\ flags' = AfterVerifier(flags, status)
      BY <2>4 DEF FinishVerifier, SettlesVerifier
    <3>2. flags["verificationNeeded"]
      BY <3>1 DEF LoopInv, FirstWorker
    <3>3. flags'["verificationNeeded"]
      BY <1>0, <3>1, <3>2 DEF AfterVerifier, Flags
    <3> QED
      BY <3>3 DEF FirstWorker
  <2> QED
    BY <2>1, <2>2, <2>3, <2>4
<1>7. VerifierDone' /\ ~CutShort' /\ ~flags'["verificationIncomplete"]
        => \A k \in Keys : Verified(k)'
  <2> SUFFICES ASSUME VerifierDone', ~CutShort', ~flags'["verificationIncomplete"],
                      NEW k \in Keys, Plan[LastOn(k)].action = "Put",
                      NEW u \in {"Unknown", "Missing"}
               PROVE  Classified(LastOn(k), observed', u) = "Acked"
    BY DEF Verified
  <2>1. FinishVerifier
    <3>1. CASE FinishSegments \/ StrikeFault \/ RetrySegment \/ FaultNotApplied \/ AbandonSegments
      BY <3>1 DEF VerifierDone, FinishSegments, StrikeFault, RetrySegment, FaultNotApplied,
        AbandonSegments, ContinueAt, LeaveLoop
    <3> QED
      BY <3>1
  <2>2. status = "Ok" /\ ~CutShort
    BY <1>0, <1>4, <2>1 DEF FinishVerifier, AfterVerifier, Flags
  <2>3. Clean(reports) /\ ReadBack(DOMAIN Expected)
    BY <1>1, <2>2 DEF ReadInv, ReadAll
  <2>4. k \in DOMAIN Expected /\ Expected[k] = LastOn(k)
    BY <2>2 DEF Expected, CutShort, FinalExpectations
  <2>5. [op |-> LastOn(k), phase |-> "Verification", outcome |-> "Acked"] \in Reads(reports)
    BY <2>3, <2>4 DEF ReadBack
  <2>6. \A r \in Reads(reports) : r.op = LastOn(k) => r.outcome = "Acked"
    BY <2>3 DEF Clean
  <2>7. observed' = observed \o reports
    BY <1>1 DEF KeepReports
  <2>8. [op |-> LastOn(k), phase |-> "Verification", outcome |-> "Acked"] \in Lines(reports)
    BY <2>5 DEF Reads
  <2> QED
    BY <1>0, <2>6, <2>7, <2>8, AckedByLastReads
<1> QED
  BY <1>1, <1>3, <1>5, <1>6, <1>7 DEF ReadInv

LEMMA ReadStep == RunInv /\ LoopInv /\ ReadInv /\ [Next]_vars => ReadInv'
<1> SUFFICES ASSUME RunInv, LoopInv, ReadInv, [Next]_vars PROVE ReadInv'
  OBVIOUS
<1>0. /\ TypeOK /\ observed \in Seq(Report) /\ reports \in Seq(Report)
      /\ flags \in [Flags -> BOOLEAN]
  BY DEF RunInv, TypeOK, WorkerType
<1>1. CASE Launch
  <2>1. /\ reports' = <<>> /\ pc' = "Poll" /\ worker'.phase \notin {"Verifying", "Exited"}
        /\ UNCHANGED <<observed, flags>>
    BY <1>1 DEF Launch, Spawned, FirstPhase, NoWorker
  <2>2. DOMAIN reports' = {}
    BY <2>1
  <2>3. Reads(reports') = {} /\ Reads(observed') = Reads(observed)
    BY <2>1, <2>2 DEF Reads, Lines
  <2>4. Clean(reports') /\ OfPlan(reports') /\ (OfPlan(observed') <=> OfPlan(observed))
    BY <2>3 DEF Clean, OfPlan
  <2>5. /\ Clean(reports)' /\ OfPlan(reports)' /\ Reads(reports)' = {}
        /\ OfPlan(observed)' <=> OfPlan(observed)
        /\ Reads(observed)' = Reads(observed) /\ Alive'
    BY <2>1, <2>3, <2>4 DEF Clean, OfPlan, Reads, Lines, Alive
  <2> QED
    BY <2>1, <2>5 DEF ReadInv, CutShort, InLoop, VerifierDone
<1>2. CASE ObserveReadiness \/ Tick \/ DeadlinePasses \/ UNCHANGED vars
  <2>1. UNCHANGED <<pc, mode, status, observed, flags, worker, reports>>
    BY <1>2 DEF ObserveReadiness, Tick, DeadlinePasses, vars, controlVars, workerVars
  <2>2. /\ Reads(observed)' = Reads(observed) /\ Reads(reports)' = Reads(reports)
        /\ OfPlan(observed)' <=> OfPlan(observed)
        /\ OfPlan(reports)' <=> OfPlan(reports)
        /\ Clean(observed)' <=> Clean(observed)
        /\ Clean(reports)' <=> Clean(reports)
        /\ \A k : Verified(k)' <=> Verified(k)
    BY <2>1 DEF Reads, Lines, OfPlan, Clean, Verified
  <2>3. Expected' = Expected
    BY <2>1 DEF Expected, AckedExpectations, FinalExpectations, ReportedAs, MutationReports
  <2>4. /\ ReadAll' <=> ReadAll
        /\ \A ks : ReadBack(ks)' <=> ReadBack(ks)
    BY <2>2, <2>3 DEF ReadAll, ReadBack
  <2> QED
    BY <2>1, <2>2, <2>3, <2>4 DEF ReadInv, CutShort, FirstWorker, InLoop, VerifierDone, Alive
<1>3. CASE Reap \/ KillUnready \/ KillAtDeadline \/ KillStalled
  <2>1. /\ pc = "Poll" /\ pc' = "Settle" /\ UNCHANGED <<mode, observed, flags, reports>>
        /\ status' = "Ok" => ~Alive /\ worker.code = "Ok"
    BY <1>3 DEF Reap, KillUnready, KillAtDeadline, KillStalled, Kill, Killed, EndPoll, workerVars
  <2>2. /\ Reads(observed)' = Reads(observed) /\ Reads(reports)' = Reads(reports)
        /\ OfPlan(observed)' <=> OfPlan(observed)
        /\ OfPlan(reports)' <=> OfPlan(reports)
        /\ ReadAll' <=> ReadAll
    BY <2>1 DEF Reads, Lines, OfPlan, Clean, ReadBack, ReadAll, Expected, AckedExpectations,
      FinalExpectations, ReportedAs, MutationReports
  <2> QED
    BY <2>1, <2>2 DEF ReadInv, CutShort, InLoop, VerifierDone
<1>4. CASE RetryFenced \/ RetryVerifier \/ ChooseVerifier
  <2>1. /\ UNCHANGED <<observed, reports, flags>> /\ pc' \notin {"Poll", "Settle", "Done"}
        /\ pc' # "Launch" => /\ pc = "LoopExit" /\ mode' = mode /\ pc' = "Conclude"
    BY <1>4 DEF RetryFenced, RetryVerifier, ChooseVerifier, Settled, workerVars
  <2>2. /\ Reads(observed)' = Reads(observed) /\ Reads(reports)' = Reads(reports)
        /\ OfPlan(observed)' <=> OfPlan(observed)
        /\ Clean(observed)' <=> Clean(observed)
    BY <2>1 DEF Reads, Lines, OfPlan, Clean
  <2>3. pc = "LoopExit" => mode # "Verifier"
    BY DEF LoopInv
  <2> QED
    BY <2>1, <2>2, <2>3 DEF ReadInv, CutShort, FirstWorker, InLoop, VerifierDone
<1>5. CASE StrikeFault \/ FaultNotApplied \/ FinishSegments \/ RetrySegment \/ AbandonSegments
             \/ FinishVerifier
  BY <1>5, SettledReads
<1>6. CASE Conclude
  <2>1. /\ pc = "Conclude" /\ pc' = "Done" /\ UNCHANGED <<mode, observed, reports>>
        /\ flags' = [flags EXCEPT !["verificationIncomplete"] = FinalIncomplete]
    BY <1>6 DEF Conclude, workerVars
  <2>2. /\ flags'["executionIncomplete"] = flags["executionIncomplete"]
        /\ flags'["verificationNeeded"] = flags["verificationNeeded"]
        /\ flags'["verificationIncomplete"] = FinalIncomplete
    BY <1>0, <2>1 DEF Flags
  <2>3. ~FinalIncomplete => ~flags["verificationIncomplete"]
    BY DEF FinalIncomplete
  <2>4. /\ Reads(observed)' = Reads(observed) /\ Reads(reports)' = Reads(reports)
        /\ OfPlan(observed)' <=> OfPlan(observed)
        /\ Clean(observed)' <=> Clean(observed)
        /\ \A k : Verified(k)' <=> Verified(k)
    BY <2>1 DEF Reads, Lines, OfPlan, Clean, Verified
  <2> QED
    BY <2>1, <2>2, <2>3, <2>4 DEF ReadInv, CutShort, FirstWorker, InLoop, VerifierDone
<1>7. CASE Engine /\ pc = "Poll" /\ UNCHANGED controlVars
  BY <1>7, EngineKeepsReads
<1> QED
  BY <1>1, <1>2, <1>3, <1>4, <1>5, <1>6, <1>7 DEF Next, Controller

\* The ledger at the end of a run that is neither cut short nor left unverified.
LEMMA CompleteLedger ==
  ASSUME RunInv, LoopInv, ReadInv, NoSkippedOperation, pc = "Done",
         ~CutShort, ~flags["verificationIncomplete"], NEW i \in Steps
  PROVE  FinalLedger[i] = "Acked" \/ FoundUndone(i)
<1> DEFINE k == Plan[i].key
<1>0. /\ observed \in Seq(Report) /\ start = NumOps /\ k \in Keys /\ struck \subseteq DOMAIN FaultAt
      /\ OfPlan(observed) /\ ~InLoop /\ (VerifierDone <=> mode = "Verifier")
      /\ i < NumOps
  BY PlanTypes DEF RunInv, TypeOK, LoopInv, ReadInv, InLoop, VerifierDone, Keys, Steps
<1>1. PICK u \in {"Unknown", "Missing"} : FinalLedger[i] = Classified(i, observed, u)
  BY DEF FinalLedger
<1>2. ReportedAcked(i) \/ (i \in struck /\ FaultAt[i] = "AckBeforeReportCrash")
  BY <1>0 DEF NoSkippedOperation
<1>3. ReportedAcked(i) => ReportedAs(i, "Acked", observed)
  BY DEF ReportedAcked
<1>4. CASE mode # "Verifier"
  <2>1. FirstWorker
    BY <1>4 DEF LoopInv
  <2>2. struck = {} /\ Clean(observed)
    BY <1>0, <2>1 DEF LoopInv, ReadInv
  <2>3. \A r \in Reads(observed) : r.op = i => r.outcome = "Acked"
    BY <2>2 DEF Clean
  <2> QED
    BY <1>0, <1>1, <1>2, <1>3, <2>2, <2>3, AckedWithoutMismatch
<1>5. CASE mode = "Verifier" /\ i = LastOn(k) /\ Plan[i].action = "Put"
  BY <1>0, <1>1, <1>5 DEF ReadInv, Verified
<1>6. CASE i # LastOn(k) \/ Plan[i].action # "Put"
  <2>1. ReportedAs(i, "Acked", observed)
    <3>1. i \in struck /\ FaultAt[i] = "AckBeforeReportCrash" => i \in FinalPuts
      BY <1>0, PlanAssumption DEF WellFormed
    <3> QED
      BY <1>2, <1>3, <1>6, <3>1 DEF FinalPuts
  <2>2. CASE \E r \in Reads(observed) : r.op = i
    <3>1. PICK r \in Reads(observed) : r.op = i
      BY <2>2
    <3>2. Plan[i].action = "Delete"
      <4>1. Plan[i].action \in {"Put", "Delete"}
        BY PlanTypes DEF Op
      <4> QED
        BY <1>0, <1>6, <3>1, <4>1 DEF OfPlan
    <3>3. r.outcome = "Failed" /\ r.phase = "Verification" /\ r \in Lines(observed)
      BY <1>0, <3>1, <3>2 DEF OfPlan, Reads
    <3>4. r = [op |-> i, phase |-> "Verification", outcome |-> "Failed"]
      BY <1>0, <3>1, <3>3, LinesAreReports DEF Report
    <3> QED
      BY <3>2, <3>3, <3>4 DEF FoundUndone, Lines
  <2>3. CASE ~\E r \in Reads(observed) : r.op = i
    BY <1>0, <1>1, <2>1, <2>3, AckedWithoutMismatch
  <2> QED
    BY <2>2, <2>3
<1> QED
  BY <1>4, <1>5, <1>6

\* A run that was neither cut short nor left unverified accounts for every operation.
THEOREM CompleteRunAllAckedTheorem == Spec => []CompleteRunAllAcked
<1>1. Init => NoSkippedOperation
  BY PlanTypes DEF Init, NoSkippedOperation
<1>2. RunInv /\ LoopInv /\ ReadInv /\ NoSkippedOperation => CompleteRunAllAcked
  BY CompleteLedger DEF CompleteRunAllAcked, CutShort
<1> QED
  BY <1>1, <1>2, ProgressInit, ProgressStep, SkipStep, RunInvariant, LoopInit, LoopStep, ReadInit,
     ReadStep, PTL DEF Spec

-----------------------------------------------------------------------------
(* Chunks and their transactions                                            *)

\* A chunk lies in one batch.
LEMMA ChunkIsBatch ==
  ASSUME NEW b \in Steps, NEW i \in Chunk(b), Kind # "Pointwise"
  PROVE  Plan[i].batch = Plan[b].batch
<1> DEFINE Ends == {j \in (b + 1)..NumOps : j = NumOps \/ Plan[j].batch # Plan[b].batch}
<1>1. /\ b \in Nat /\ NumOps \in Nat /\ ChunkEnd(b) \in (b + 1)..NumOps
      /\ ChunkEnd(b) = Min(Ends) /\ i \in b..(ChunkEnd(b) - 1)
  BY ChunkEnds, PlanTypes DEF Steps, ChunkEnd, Chunk
<1>2. Ends \subseteq Nat /\ NumOps \in Ends
  BY <1>1
<1>3. \A j \in Ends : ChunkEnd(b) <= j
  <2> HIDE DEF Ends
  <2> QED
    BY <1>1, <1>2, MinOfNaturals
<1>4. CASE i = b
  BY <1>4
<1>5. CASE i # b
  <2>1. i \in (b + 1)..NumOps /\ i < ChunkEnd(b)
    BY <1>1, <1>5
  <2>2. i \notin Ends
    BY <1>1, <1>2, <1>3, <2>1
  <2> QED
    BY <2>1, <2>2
<1> QED
  BY <1>4, <1>5

\* The transactions of a chunk share its operations among them, and two of them write
\* one key only where the trickle lane commits one after the other.
LEMMA TransactionsShare ==
  ASSUME NEW b \in Steps
  PROVE  /\ UNION Transactions(b) = Chunk(b)
         /\ \A t, u \in Transactions(b) : t # u => t \cap u = {}
         /\ \A t, u \in Transactions(b) : \A i \in t, j \in u :
              t # u /\ Plan[i].key = Plan[j].key =>
                /\ Kind = "Mixed" /\ t = {i} /\ u = {j}
                /\ Plan[i].lane = "Trickle" /\ Plan[j].lane = "Trickle"
<1>1. Chunk(b) \subseteq Steps
  BY ChunkInPlan
<1>2. CASE Kind = "Pointwise"
  <2>1. b \in Int /\ b..((b + 1) - 1) = {b}
    BY PlanTypes
  <2>2. Chunk(b) = {b}
    BY <1>2, <2>1 DEF Chunk, ChunkEnd
  <2> QED
    BY <1>2, <2>2 DEF Transactions
<1>d. ASSUME Kind \in {"Mixed", "MultiCfHotCold"}, NEW i \in Chunk(b), NEW j \in Chunk(b),
             Plan[i].key = Plan[j].key
      PROVE  Plan[i].lane = Plan[j].lane
  <2>1. Plan[i].batch = Plan[j].batch
    BY <1>d, ChunkIsBatch
  <2> QED
    BY <1>1, <1>d, <2>1, PlanAssumption DEF WellFormed
<1>3. CASE Kind = "Mixed"
  <2>1. \A i \in Chunk(b) : Plan[i].lane \in {"Batch", "Trickle"}
    BY <1>1, <1>3, PlanAssumption DEF WellFormed
  <2>2. Transactions(b) = {InLane(b, "Batch")} \cup {{j} : j \in InLane(b, "Trickle")}
    BY <1>3 DEF Transactions
  <2>3. UNION Transactions(b) = Chunk(b)
    <3>1. UNION Transactions(b) = InLane(b, "Batch") \cup InLane(b, "Trickle")
      BY <2>2
    <3> QED
      BY <2>1, <3>1 DEF InLane
  <2>4. \A t, u \in Transactions(b) : t # u => t \cap u = {}
    BY <2>2 DEF InLane
  <2>5. \A t, u \in Transactions(b) : \A i \in t, j \in u :
          t # u /\ Plan[i].key = Plan[j].key =>
            t = {i} /\ u = {j} /\ Plan[i].lane = "Trickle" /\ Plan[j].lane = "Trickle"
    <3> SUFFICES ASSUME NEW t \in Transactions(b), NEW u \in Transactions(b), NEW i \in t, NEW j \in u,
                        t # u, Plan[i].key = Plan[j].key
                 PROVE  t = {i} /\ u = {j} /\ Plan[i].lane = "Trickle" /\ Plan[j].lane = "Trickle"
      OBVIOUS
    <3>1. i \in Chunk(b) /\ j \in Chunk(b)
      BY <2>3
    <3>2. Plan[i].lane = Plan[j].lane
      BY <1>3, <1>d, <3>1
    <3>3. ASSUME NEW v \in Transactions(b), NEW m \in v
          PROVE  v = InLane(b, "Batch") \/ (v = {m} /\ Plan[m].lane = "Trickle")
      <4>1. CASE v = InLane(b, "Batch")
        BY <4>1
      <4>2. CASE \E n \in InLane(b, "Trickle") : v = {n}
        BY <4>2 DEF InLane
      <4> QED
        BY <2>2, <4>1, <4>2
    <3>4. /\ t = InLane(b, "Batch") \/ (t = {i} /\ Plan[i].lane = "Trickle")
          /\ u = InLane(b, "Batch") \/ (u = {j} /\ Plan[j].lane = "Trickle")
      BY <3>3
    <3>5. \A m \in InLane(b, "Batch") : Plan[m].lane = "Batch"
      BY DEF InLane
    <3> QED
      BY <3>2, <3>4, <3>5
  <2> QED
    BY <1>3, <2>3, <2>4, <2>5
<1>4. CASE Kind = "MultiCfHotCold"
  <2>1. \A i \in Chunk(b) : Plan[i].lane \in {"Hot", "Cold"}
    BY <1>1, <1>4, PlanAssumption DEF WellFormed
  <2>2. Transactions(b) = {InLane(b, "Hot"), InLane(b, "Cold")} \ {{}}
    BY <1>4 DEF Transactions
  <2>3. UNION Transactions(b) = Chunk(b)
    <3>1. UNION Transactions(b) = InLane(b, "Hot") \cup InLane(b, "Cold")
      BY <2>2
    <3> QED
      BY <2>1, <3>1 DEF InLane
  <2>4. \A t, u \in Transactions(b) : t # u => t \cap u = {}
    BY <2>2 DEF InLane
  <2>5. \A t, u \in Transactions(b) : \A i \in t, j \in u :
          t # u => Plan[i].key # Plan[j].key
    <3> SUFFICES ASSUME NEW t \in Transactions(b), NEW u \in Transactions(b), NEW i \in t, NEW j \in u,
                        t # u, Plan[i].key = Plan[j].key
                 PROVE  FALSE
      OBVIOUS
    <3>1. i \in Chunk(b) /\ j \in Chunk(b)
      BY <2>3
    <3>2. Plan[i].lane = Plan[j].lane
      BY <1>4, <1>d, <3>1
    <3> QED
      BY <2>2, <3>2 DEF InLane
  <2> QED
    BY <2>3, <2>4, <2>5
<1>5. CASE Kind \notin {"Pointwise", "Mixed", "MultiCfHotCold"}
  BY <1>5 DEF Transactions
<1> QED
  BY <1>2, <1>3, <1>4, <1>5

\* What of the chunk at b is committed, with todo still to do, and the order in which
\* it happens.
Committed(b, todo) == Chunk(b) \ UNION todo
Ordered(b, todo) ==
  \A tx \in todo : \A i \in tx, j \in Committed(b, todo) :
    Plan[i].key = Plan[j].key => j < i

LEMMA CommitInOrder ==
  ASSUME NEW b \in Steps, NEW todo \in SUBSET Transactions(b), Ordered(b, todo),
         NEW tx \in todo, Startable(tx, todo)
  PROVE  /\ Committed(b, todo \ {tx}) = Committed(b, todo) \cup tx
         /\ Ordered(b, todo \ {tx})
         /\ tx \subseteq Chunk(b)
         /\ \A i \in tx, j \in 0..(b - 1) \cup Committed(b, todo) :
              Plan[i].key = Plan[j].key => j < i
<1>0. /\ Chunk(b) \subseteq Steps /\ Chunk(b) \subseteq Nat /\ b \in Nat
      /\ \A i \in Chunk(b) : b <= i
  BY ChunkInPlan, PlanTypes DEF Chunk, Steps
<1>1. tx \subseteq Chunk(b)
  BY TransactionsShare
<1>2. Committed(b, todo \ {tx}) = Committed(b, todo) \cup tx
  <2>1. \A u \in todo : u # tx => u \cap tx = {}
    BY TransactionsShare
  <2> QED
    BY <1>1, <2>1 DEF Committed
<1>3. ASSUME NEW i \in tx, NEW j \in 0..(b - 1) \cup Committed(b, todo), Plan[i].key = Plan[j].key
      PROVE  j < i
  <2>1. CASE j \in 0..(b - 1)
    BY <1>0, <1>1, <2>1
  <2>2. CASE j \in Committed(b, todo)
    BY <1>3, <2>2 DEF Ordered
  <2> QED
    BY <2>1, <2>2
<1>4. Ordered(b, todo \ {tx})
  <2> SUFFICES ASSUME NEW u \in todo, u # tx, NEW i \in u, NEW j \in Committed(b, todo) \cup tx,
                      Plan[i].key = Plan[j].key
               PROVE  j < i
    BY <1>2 DEF Ordered
  <2>1. CASE j \in Committed(b, todo)
    BY <2>1 DEF Ordered
  <2>2. CASE j \in tx
    <3>1. /\ Kind = "Mixed" /\ u = {i} /\ tx = {j} /\ u \cap tx = {}
          /\ Plan[i].lane = "Trickle" /\ Plan[j].lane = "Trickle"
      BY <2>2, TransactionsShare
    <3>2. i \in Nat /\ j \in Nat
      BY <1>0, <1>1, <2>2, TransactionsShare
    <3>3. Min(tx) <= Min(u)
      <4>1. \A m \in tx \cup UNION {u} : Plan[m].lane = "Trickle"
        BY <3>1
      <4> QED
        BY <3>1, <4>1 DEF Startable
    <3>4. Min({i}) \in {i} /\ Min({j}) \in {j}
      BY <3>2, MinOfNaturals
    <3>5. i # j
      BY <3>1
    <3> QED
      BY <3>1, <3>2, <3>3, <3>4, <3>5
  <2> QED
    BY <2>1, <2>2
<1> QED
  BY <1>1, <1>2, <1>3, <1>4

-----------------------------------------------------------------------------
(* What the database of an undisturbed run holds                            *)

\* Every key holds the value of the last of the given operations that writes it.
LastIn(k, ops) == IF OpsOn(k) \cap ops = {} THEN Absent ELSE ValueOf(Max(OpsOn(k) \cap ops))
Holds(db, ops) == \A k \in Keys : db[k] = LastIn(k, ops)

LEMMA CommitHolds ==
  ASSUME NEW ops \in SUBSET Steps, NEW tx \in SUBSET Steps, Holds(store, ops),
         \A i \in tx, j \in ops : Plan[i].key = Plan[j].key => j < i
  PROVE  Holds(Applied(tx), ops \cup tx)
<1> SUFFICES ASSUME NEW k \in Keys PROVE Applied(tx)[k] = LastIn(k, ops \cup tx)
  BY DEF Holds
<1> DEFINE writes == tx \cap OpsOn(k)
           both == OpsOn(k) \cap (ops \cup tx)
<1>1. Applied(tx)[k] = IF writes = {} THEN store[k] ELSE ValueOf(Max(writes))
  BY DEF Applied
<1>2. CASE writes = {}
  <2>1. both = OpsOn(k) \cap ops
    BY <1>2
  <2> QED
    BY <1>1, <1>2, <2>1 DEF Holds, LastIn
<1>3. CASE writes # {}
  <2>1. writes \subseteq both /\ both \subseteq Steps /\ both # {} /\ writes \subseteq Steps
    BY <1>3
  <2>2. \A i \in writes, j \in both : j \in writes \/ j < i
    BY DEF OpsOn
  <2> HIDE DEF writes, both
  <2>3. /\ Max(writes) \in writes /\ \A i \in writes : i <= Max(writes)
        /\ Max(both) \in both /\ \A i \in both : i <= Max(both)
    BY <1>3, <2>1, MaxOfSteps
  <2>4. Max(both) \in writes \/ Max(both) < Max(writes)
    BY <2>2, <2>3
  <2>5. Max(both) = Max(writes)
    <3>1. Max(both) \in Nat /\ Max(writes) \in Nat
      BY <2>1, <2>3, PlanTypes
    <3>2. Max(both) <= Max(writes) /\ Max(writes) <= Max(both)
      BY <2>1, <2>3, <2>4, <3>1
    <3> QED
      BY <3>1, <3>2
  <2>6. LastIn(k, ops \cup tx) = ValueOf(Max(both))
    BY <2>1 DEF LastIn, both
  <2> QED
    BY <1>1, <1>3, <2>5, <2>6
<1> QED
  BY <1>2, <1>3

\* The whole plan leaves the value of the last operation on every key.
LEMMA PlanHolds ==
  ASSUME NEW db, Holds(db, Steps), NEW k \in Keys
  PROVE  db[k] = ValueOf(LastOn(k))
<1>1. OpsOn(k) \cap Steps = OpsOn(k) /\ OpsOn(k) # {}
  BY LastOnIsOn DEF OpsOn
<1> QED
  BY <1>1 DEF Holds, LastIn, LastOn

AllAcked(rs) == \A i \in Steps : ReportedAs(i, "Acked", rs)

\* As long as nothing but the first worker ran and it met no trouble it survived, the
\* database holds what the worker has committed: a refused transaction may or may not
\* be in it, but then its operations are not reported acknowledged.
HeldInv ==
  /\ worker.phase \in {"Activating", "Opening"} => Holds(store, {})
  /\ worker.phase \in {"Running", "Verifying"} => Holds(store, 0..(worker.index - 1))
  /\ worker.phase = "Executing" =>
       /\ worker.todo \subseteq Transactions(worker.index)
       /\ worker.failed \subseteq Chunk(worker.index)
       /\ Ordered(worker.index, worker.todo)
       /\ worker.failed = {} =>
            Holds(store, 0..(worker.index - 1) \cup Committed(worker.index, worker.todo))
  /\ worker.phase = "Emitting" =>
       /\ \A i \in worker.failed : ~ReportedAs(i, "Acked", reports)
       /\ worker.failed = {} => Holds(store, 0..(ChunkEnd(worker.index) - 1))
  /\ ~Alive /\ AllAcked(reports) => Holds(store, Steps)

StoreInv ==
  FirstWorker =>
    /\ pc = "Launch" => Holds(store, {})
    /\ pc = "Poll" => HeldInv
    /\ pc = "Settle" /\ AllAcked(reports) => Holds(store, Steps)
    /\ ~InLoop /\ AllAcked(observed) => Holds(store, Steps)

LEMMA StoreInit == Init => StoreInv
<1> SUFFICES ASSUME Init PROVE StoreInv
  OBVIOUS
<1>1. pc = "Launch" /\ \A k \in Keys : store[k] = Absent
  BY DEF Init, WorkerInit
<1>2. Holds(store, {})
  BY <1>1 DEF Holds, LastIn
<1> QED
  BY <1>1, <1>2 DEF StoreInv, InLoop

\* A first worker that is alive has either acknowledged less than the whole plan, or
\* the database holds it.
LEMMA AliveHolds ==
  ASSUME RunInv, LoopInv, ProgressInv, FirstWorker, pc = "Poll", HeldInv, Alive, AllAcked(reports)
  PROVE  Holds(store, Steps)
<1>0. /\ mode = "Segment" /\ start = 0 /\ Position /\ NumOps \in Nat /\ Steps = 0..(NumOps - 1)
      /\ 0 \in Steps /\ worker.index \in 0..NumOps /\ worker.phase \in Phases
      /\ worker.phase \in {"Executing", "Emitting"} =>
           worker.index < NumOps /\ worker.unreported # {}
  <2>1. mode = "Segment" /\ start = 0
    BY DEF LoopInv, InLoop, RunInv, TypeOK
  <2>2. Position
    BY <2>1 DEF ProgressInv
  <2> QED
    BY <2>1, <2>2, PlanTypes DEF RunInv, WorkerInv, TypeOK, WorkerType, Steps
<1>1. \A i \in Steps : i \in Named(reports)
  BY DEF AllAcked, ReportedAs, Named
<1>2. worker.phase \notin {"Activating", "Opening"}
  <2>1. DOMAIN <<>> = {}
    OBVIOUS
  <2> QED
    BY <1>0, <1>1, <2>1 DEF Position, Named, MutationReports
<1>3. CASE worker.phase \in {"Running", "Executing", "Verifying"}
  <2>1. Named(reports) = 0..(worker.index - 1)
    BY <1>0, <1>3 DEF Position
  <2>2. worker.index \notin Named(reports)
    BY <1>0, <2>1
  <2>3. worker.index = NumOps
    BY <1>0, <1>1, <2>2
  <2> QED
    BY <1>0, <1>3, <2>3 DEF HeldInv
<1>4. CASE worker.phase = "Emitting"
  <2>1. /\ worker.index \in Steps /\ worker.index \in Nat
        /\ ChunkEnd(worker.index) \in (worker.index + 1)..NumOps
    BY <1>0, <1>4, ChunkEnds
  <2>2. PICK m \in worker.index..(ChunkEnd(worker.index) - 1) : Named(reports) = 0..(m - 1)
    BY <1>0, <1>4 DEF Position
  <2>3. m \in Steps /\ m \notin Named(reports)
    BY <1>0, <2>1, <2>2
  <2> QED
    BY <1>1, <2>3
<1> QED
  BY <1>0, <1>2, <1>3, <1>4 DEF Phases, Alive

\* A worker leaves: what it acknowledged and the database stay.
LEMMA ExitHolds ==
  ASSUME RunInv, LoopInv, ProgressInv, FirstWorker, pc = "Poll", HeldInv,
         worker'.phase = "Exited", store' = store,
         MutationReports(reports') = MutationReports(reports)
  PROVE  HeldInv'
<1>1. AllAcked(reports') => AllAcked(reports)
  BY DEF AllAcked, ReportedAs
<1>2. AllAcked(reports) => Holds(store, Steps)
  BY AliveHolds DEF HeldInv
<1>3. AllAcked(reports)' => Holds(store, Steps)'
  BY <1>1, <1>2 DEF AllAcked, Holds, LastIn
<1> QED
  BY <1>3 DEF HeldInv, Alive

\* A mutation report is one more.
LEMMA LoggedMutation ==
  ASSUME reports \in Seq(Report), NEW i \in Steps, NEW o \in Outcomes, Log(i, "Mutation", o),
         NEW j, ReportedAs(j, "Acked", reports')
  PROVE  ReportedAs(j, "Acked", reports) \/ (j = i /\ o = "Acked")
<1> DEFINE r == [op |-> i, phase |-> "Mutation", outcome |-> o]
<1>1. r \in Report /\ r.phase = "Mutation" /\ r.op = i /\ r.outcome = o
  BY DEF Report
<1>2. MutationReports(reports') = MutationReports(reports) \cup {r}
  BY <1>1, AppendedReport DEF Log
<1> HIDE DEF r
<1> QED
  BY <1>1, <1>2 DEF ReportedAs

LEMMA EngineHolds ==
  ASSUME RunInv, LoopInv, ProgressInv, FirstWorker, pc = "Poll", HeldInv,
         UNCHANGED controlVars, Engine
  PROVE  HeldInv'
<1> DEFINE b == worker.index
<1>0. /\ mode = "Segment" /\ start = 0 /\ Position /\ NumOps \in Nat /\ Steps = 0..(NumOps - 1)
      /\ b \in 0..NumOps /\ reports \in Seq(Report)
      /\ b < NumOps => b \in Steps
      /\ worker.failed \subseteq Steps /\ worker.unreported \subseteq Steps
      /\ worker.phase \in {"Executing", "Emitting"} => b < NumOps /\ worker.unreported # {}
      /\ store \in [Keys -> Values]
  <2>1. mode = "Segment" /\ start = 0
    BY DEF LoopInv, InLoop, RunInv, TypeOK
  <2>2. Position
    BY <2>1 DEF ProgressInv
  <2> QED
    BY <2>1, <2>2, PlanTypes DEF RunInv, WorkerInv, TypeOK, WorkerType, Steps
<1>w. worker \in [phase : Phases, failpoint : DOMAIN FaultAt \cup {NoStep}, index : 0..NumOps,
                 todo : SUBSET SUBSET Steps, failed : SUBSET Steps, unreported : SUBSET Steps,
                 unread : SUBSET Keys, doomed : BOOLEAN, ready : BOOLEAN,
                 held : BOOLEAN, code : WorkerStatus]
  BY DEF RunInv, TypeOK, WorkerType
<1>s. ASSUME worker'.phase \notin {"Exited", "Emitting"},
             worker'.phase \in {"Activating", "Opening"} => Holds(store', {}),
             worker'.phase \in {"Running", "Verifying"} => Holds(store', 0..(worker'.index - 1)),
             worker'.phase # "Executing"
      PROVE  HeldInv'
  BY <1>s DEF HeldInv, Alive, Holds, LastIn
<1>1. CASE \/ OpenFenced \/ CrashOnStep(CrashAt) \/ InterruptOnStep(InterruptAt)
           \/ RejectChunk(InterruptAt) \/ CrashThreadExits \/ ChunkUnreadable
           \/ CrashAfterStep(CrashAfterAt) \/ ShutDown \/ Abort
  <2>1. worker'.phase = "Exited" /\ store' = store /\ reports' = reports
    BY <1>w, <1>1 DEF OpenFenced, CrashOnStep, InterruptOnStep, RejectChunk, CrashThreadExits,
       ChunkUnreadable, CrashAfterStep, ShutDown, Abort, Exit, ExitHeld
  <2>2. MutationReports(reports') = MutationReports(reports)
    BY <2>1
  <2> QED
    BY <2>1, <2>2, ExitHolds
<1>2. CASE MismatchKey(Expected)
  <2>1. worker'.phase = "Exited" /\ store' = store
    BY <1>w, <1>2 DEF MismatchKey, Exit
  <2>2. Min(worker.unread) \in DOMAIN Expected
    BY <1>w, <1>2, KeysAreNaturals, MinOfNaturals, ExpectedInPlan DEF MismatchKey, RunInv, WorkerInv
  <2>3. \E k \in DOMAIN Expected : Log(Expected[k], "Verification", "Failed")
    BY <1>2, <2>2 DEF MismatchKey
  <2>4. MutationReports(reports') = MutationReports(reports)
    BY <1>0, <2>3, LogVerification, ExpectedInPlan DEF Outcomes
  <2> QED
    BY <2>1, <2>4, ExitHolds
<1>3. CASE VerifyKey(Expected)
  <2>1. worker'.phase = "Verifying" /\ worker'.index = b /\ store' = store /\ worker.phase = "Verifying"
    BY <1>w, <1>3 DEF VerifyKey
  <2> QED
    BY <1>s, <2>1 DEF HeldInv
<1>4. CASE TakeSentinel \/ ConfigureFailpoint \/ OpenReady \/ BeginVerification(Expected)
  <2>1. /\ store' = store /\ worker'.index = b
        /\ \/ worker.phase = "Activating" /\ worker'.phase \in {"Activating", "Opening"}
           \/ worker.phase = "Opening" /\ worker'.phase = "Running"
           \/ worker.phase = "Running" /\ worker'.phase = "Verifying"
    BY <1>w, <1>4 DEF TakeSentinel, ConfigureFailpoint, OpenReady, BeginVerification
  <2>2. worker.phase = "Opening" => b = 0 /\ 0..(b - 1) = {}
    BY <1>0 DEF Position
  <2> QED
    BY <1>s, <2>1, <2>2 DEF HeldInv
<1>5. CASE BeginChunk(CrashAt, InterruptAt)
  <2>1. /\ worker.phase = "Running" /\ b < NumOps /\ b \in Steps /\ store' = store
        /\ worker'.phase = "Executing" /\ worker'.index = b /\ worker'.failed = {}
        /\ worker'.todo = Transactions(b)
    BY <1>0, <1>w, <1>5 DEF BeginChunk
  <2>2. Committed(b, Transactions(b)) = {}
    BY <2>1, TransactionsShare DEF Committed
  <2>3. Ordered(b, Transactions(b))
    BY <2>2 DEF Ordered
  <2>4. Holds(store, 0..(b - 1) \cup Committed(b, Transactions(b)))
    BY <2>1, <2>2 DEF HeldInv
  <2> HIDE DEF b
  <2>5. /\ worker'.todo \subseteq Transactions(worker'.index)
        /\ worker'.failed \subseteq Chunk(worker'.index)
        /\ Ordered(worker'.index, worker'.todo)
        /\ Holds(store', 0..(worker'.index - 1) \cup Committed(worker'.index, worker'.todo))
    BY <2>1, <2>3, <2>4
  <2> QED
    BY <2>1, <2>5 DEF HeldInv, Alive
<1>6. CASE \E tx \in worker.todo : CommitTransaction(tx) \/ FailTransaction(tx)
  <2>1. PICK tx \in worker.todo : CommitTransaction(tx) \/ FailTransaction(tx)
    BY <1>6
  <2>2. /\ worker.phase = "Executing" /\ b \in Steps /\ Startable(tx, worker.todo)
        /\ worker'.phase = "Executing" /\ worker'.index = b
        /\ worker'.todo = worker.todo \ {tx}
        /\ \/ worker'.failed = worker.failed /\ store' = Applied(tx)
           \/ worker'.failed = worker.failed \cup tx /\ store' \in {store, Applied(tx)}
    BY <1>0, <1>w, <2>1 DEF CommitTransaction, FailTransaction
  <2>3. /\ worker.todo \in SUBSET Transactions(b) /\ worker.failed \subseteq Chunk(b)
        /\ Ordered(b, worker.todo)
        /\ worker.failed = {} => Holds(store, 0..(b - 1) \cup Committed(b, worker.todo))
    BY <2>2 DEF HeldInv
  <2> HIDE DEF b
  <2>4. /\ Committed(b, worker.todo \ {tx}) = Committed(b, worker.todo) \cup tx
        /\ Ordered(b, worker.todo \ {tx})
        /\ tx \subseteq Chunk(b)
        /\ \A i \in tx, j \in 0..(b - 1) \cup Committed(b, worker.todo) :
             Plan[i].key = Plan[j].key => j < i
    BY <2>2, <2>3, CommitInOrder
  <2>5. 0..(b - 1) \cup Committed(b, worker.todo) \subseteq Steps /\ tx \subseteq Steps
    <3>1. Chunk(b) \subseteq Steps
      BY <2>2, ChunkInPlan
    <3>2. 0..(b - 1) \subseteq Steps
      BY <1>0, <2>2
    <3> QED
      BY <2>4, <3>1, <3>2 DEF Committed
  <2>6. worker'.failed = {} => worker.failed = {} /\ (store' = Applied(tx) \/ tx = {})
    BY <2>2
  <2>7. worker.failed = {} =>
          Holds(Applied(tx), 0..(b - 1) \cup Committed(b, worker.todo \ {tx}))
    <3> DEFINE ops == 0..(b - 1) \cup Committed(b, worker.todo)
    <3>1. 0..(b - 1) \cup Committed(b, worker.todo \ {tx}) = ops \cup tx
      BY <2>4
    <3>2. /\ ops \in SUBSET Steps /\ tx \in SUBSET Steps
          /\ worker.failed = {} => Holds(store, ops)
          /\ \A i \in tx, j \in ops : Plan[i].key = Plan[j].key => j < i
      BY <2>3, <2>4, <2>5
    <3> HIDE DEF ops
    <3> QED
      BY <3>1, <3>2, CommitHolds
  <2>8. tx = {} => worker.todo \ {tx} \subseteq worker.todo
                   /\ Committed(b, worker.todo \ {tx}) = Committed(b, worker.todo)
    BY <2>4
  <2>9. tx = {} => Applied(tx) = store
    BY <1>0 DEF Applied
  <2>10. worker'.failed = {} =>
           Holds(store', 0..(b - 1) \cup Committed(b, worker.todo \ {tx}))
    BY <2>2, <2>6, <2>7, <2>9
  <2>11. /\ worker'.todo \subseteq Transactions(worker'.index)
         /\ worker'.failed \subseteq Chunk(worker'.index)
         /\ Ordered(worker'.index, worker'.todo)
         /\ worker'.failed = {} =>
              Holds(store', 0..(worker'.index - 1) \cup Committed(worker'.index, worker'.todo))
    BY <2>2, <2>3, <2>4, <2>10
  <2> QED
    BY <2>2, <2>11 DEF HeldInv, Alive
<1>7. CASE EndChunk(CrashAfterAt)
  <2>1. /\ worker.phase = "Executing" /\ worker.todo = {} /\ b \in Steps /\ store' = store
        /\ worker'.phase = "Emitting" /\ worker'.index = b /\ worker'.failed = worker.failed
        /\ reports' = reports
    BY <1>0, <1>w, <1>7 DEF EndChunk, ChunkExecuted
  <2>2. /\ worker.failed \subseteq Chunk(b)
        /\ worker.failed = {} => Holds(store, 0..(b - 1) \cup Committed(b, {}))
    BY <2>1 DEF HeldInv
  <2>3. Named(reports) = 0..(b - 1)
    BY <1>0, <2>1 DEF Position
  <2>4. ChunkEnd(b) \in (b + 1)..NumOps
    BY <2>1, ChunkEnds
  <2> HIDE DEF b
  <2>5. 0..(b - 1) \cup Committed(b, {}) = 0..(ChunkEnd(b) - 1)
    <3>1. Committed(b, {}) = b..(ChunkEnd(b) - 1)
      BY DEF Committed, Chunk
    <3> QED
      BY <1>0, <2>4, <3>1
  <2>6. \A i \in worker.failed : ~ReportedAs(i, "Acked", reports)
    <3>1. \A i \in Chunk(b) : i \notin Named(reports)
      BY <1>0, <2>1, <2>3, <2>4 DEF Chunk
    <3> QED
      BY <2>2, <3>1 DEF Named, ReportedAs
  <2>7. /\ \A i \in worker'.failed : ~ReportedAs(i, "Acked", reports')
        /\ worker'.failed = {} => Holds(store', 0..(ChunkEnd(worker'.index) - 1))
    BY <2>1, <2>2, <2>5, <2>6
  <2> QED
    BY <2>1, <2>7 DEF HeldInv, Alive
<1>8. CASE EmitOutcome
  <2> DEFINE i == Min(worker.unreported)
             o == IF i \in worker.failed THEN "Failed" ELSE "Acked"
  <2>1. /\ i \in Steps /\ o \in Outcomes /\ worker.phase = "Emitting"
        /\ o = "Acked" => i \notin worker.failed
    BY <1>0, <1>8, MinOfSteps DEF EmitOutcome, Outcomes
  <2>2. Log(i, "Mutation", o) /\ store' = store
    BY <1>8 DEF EmitOutcome
  <2>3. /\ \A j \in worker.failed : ~ReportedAs(j, "Acked", reports)
        /\ worker.failed = {} => Holds(store, 0..(ChunkEnd(b) - 1))
    BY <2>1 DEF HeldInv
  <2>4. \/ worker'.phase = "Emitting" /\ worker'.failed = worker.failed /\ worker'.index = b
        \/ worker'.phase = "Running" /\ worker.failed = {} /\ worker'.index = ChunkEnd(b)
        \/ worker'.phase = "Exited" /\ worker.failed # {}
    BY <1>w, <1>8 DEF EmitOutcome, ExitHeld
  <2> HIDE DEF i, o, b
  <2>5. \A j \in worker.failed : ~ReportedAs(j, "Acked", reports')
    BY <1>0, <2>1, <2>2, <2>3, LoggedMutation
  <2>6. worker.failed # {} => ~AllAcked(reports')
    BY <1>0, <2>5 DEF AllAcked
  <2>7. ~AllAcked(reports') => ~AllAcked(reports)'
    BY DEF AllAcked
  <2>8. CASE worker'.phase = "Emitting" /\ worker'.failed = worker.failed /\ worker'.index = b
    <3>1. /\ \A j \in worker'.failed : ~ReportedAs(j, "Acked", reports')
          /\ worker'.failed = {} => Holds(store', 0..(ChunkEnd(worker'.index) - 1))
      BY <2>2, <2>3, <2>5, <2>8
    <3> QED
      BY <2>8, <3>1 DEF HeldInv, Alive
  <2>9. CASE worker'.phase = "Running" /\ worker.failed = {} /\ worker'.index = ChunkEnd(b)
    BY <1>s, <2>2, <2>3, <2>9
  <2>10. CASE worker'.phase = "Exited" /\ worker.failed # {}
    BY <2>6, <2>7, <2>10 DEF HeldInv, Alive
  <2> QED
    BY <2>4, <2>8, <2>9, <2>10
<1>9. CASE \E k \in Keys : LoseValue(k)
  <2>1. PICK k \in Keys : LoseValue(k)
    BY <1>9
  <2>2. worker.phase = "Opening" /\ b = 0 /\ store[k] = Absent
    BY <1>0, <2>1 DEF LoseValue, Position, HeldInv, Holds, LastIn
  <2>3. \A j \in OpsOn(k) : ~(j < b)
    BY <1>0, <2>2 DEF OpsOn
  <2> QED
    BY <2>1, <2>2, <2>3 DEF LoseValue
<1>10. CASE LeaseExpires
  <2>1. worker' = worker /\ store' = store /\ reports' = reports
    BY <1>10 DEF LeaseExpires
  <2> QED
    BY <2>1 DEF HeldInv, Alive
<1> QED
  BY <1>1, <1>2, <1>3, <1>4, <1>5, <1>6, <1>7, <1>8, <1>9, <1>10 DEF Engine, WorkerStep

LEMMA StoreStep == RunInv /\ LoopInv /\ ProgressInv /\ StoreInv /\ [Next]_vars => StoreInv'
<1> SUFFICES ASSUME RunInv, LoopInv, ProgressInv, StoreInv, [Next]_vars, FirstWorker'
             PROVE  StoreInv'
  BY DEF StoreInv
<1>0. /\ flags \in [Flags -> BOOLEAN] /\ NumOps \in Nat
      /\ observed \in Seq(Report) /\ reports \in Seq(Report)
  BY PlanTypes DEF RunInv, TypeOK, WorkerType
<1>1. CASE Launch
  <2>1. /\ pc = "Launch" /\ pc' = "Poll" /\ flags' = flags /\ store' = store
        /\ worker'.phase \in {"Activating", "Opening"}
    BY <1>1 DEF Launch, Spawned, NoWorker, FirstPhase
  <2>2. Holds(store, {})
    BY <2>1 DEF StoreInv, FirstWorker
  <2> QED
    BY <2>1, <2>2 DEF StoreInv, HeldInv, Alive, InLoop
<1>2. CASE ObserveReadiness \/ Tick \/ DeadlinePasses \/ UNCHANGED vars
  <2>1. UNCHANGED <<pc, flags, observed, worker, store, reports>>
    BY <1>2 DEF ObserveReadiness, Tick, DeadlinePasses, vars, controlVars, workerVars
  <2> QED
    BY <2>1 DEF StoreInv, HeldInv, Alive, InLoop, FirstWorker
<1>3. CASE Reap \/ KillUnready \/ KillAtDeadline \/ KillStalled
  <2>1. /\ pc = "Poll" /\ pc' = "Settle" /\ UNCHANGED <<flags, store, reports>>
    BY <1>3 DEF Reap, KillUnready, KillAtDeadline, KillStalled, Kill, Killed, EndPoll, workerVars
  <2>2. FirstWorker /\ HeldInv
    BY <2>1 DEF StoreInv, FirstWorker
  <2>3. AllAcked(reports) => Holds(store, Steps)
    BY <2>1, <2>2, AliveHolds DEF HeldInv
  <2> QED
    BY <2>1, <2>3 DEF StoreInv, InLoop
<1>4. CASE RetryFenced \/ RetryVerifier \/ FinishVerifier
  <2>1. ~FirstWorker
    BY <1>4 DEF RetryFenced, FencedRetry, RetryVerifier, FinishVerifier, SettlesVerifier, LoopInv
  <2>2. flags'["verificationNeeded"] <=> flags["verificationNeeded"]
    BY <1>0, <1>4 DEF RetryFenced, RetryVerifier, FinishVerifier, AfterVerifier, Flags
  <2> QED
    BY <2>1, <2>2 DEF FirstWorker
<1>5. CASE StrikeFault \/ FaultNotApplied \/ RetrySegment
  <2>1. Raise({"verificationNeeded"}) \/ Raise({"verificationNeeded", "executionIncomplete"})
    BY <1>5 DEF StrikeFault, FaultNotApplied, RetrySegment
  <2> QED
    BY <1>0, <2>1, RaisedFlags DEF FirstWorker
<1>6. CASE FinishSegments \/ AbandonSegments
  <2>1. /\ pc = "Settle" /\ pc' = "LoopExit" /\ store' = store /\ observed' = observed \o reports
    BY <1>0, <1>6 DEF FinishSegments, AbandonSegments, Settled, ContinueAt, LeaveLoop, KeepReports
  <2>2. FirstWorker
    <3>1. \E raised : Raise(raised)
      BY <1>6 DEF FinishSegments, AbandonSegments
    <3> QED
      BY <1>0, <3>1, RaisedFlags DEF FirstWorker
  <2>3. observed = <<>>
    BY <2>1, <2>2 DEF LoopInv, InLoop
  <2>4. Lines(observed') = Lines(reports)
    <3>1. Lines(observed') = Lines(observed) \cup Lines(reports)
      BY <1>0, <2>1, LinesKept
    <3>2. DOMAIN observed = {}
      BY <2>3
    <3> QED
      BY <3>1, <3>2 DEF Lines
  <2>5. MutationReports(observed') = MutationReports(reports)
    <3>1. observed' \in Seq(Report)
      BY <1>0, <2>1
    <3> QED
      BY <1>0, <2>4, <3>1, LinesAreReports
  <2>6. AllAcked(observed') => Holds(store, Steps)
    BY <2>1, <2>2, <2>5 DEF AllAcked, ReportedAs, StoreInv
  <2> QED
    BY <2>1, <2>6 DEF StoreInv, InLoop
<1>7. CASE ChooseVerifier
  <2>1. /\ pc = "LoopExit" /\ UNCHANGED <<flags, observed, store>>
        /\ ~flags["verificationNeeded"] => pc' = "Conclude"
    BY <1>7 DEF ChooseVerifier, workerVars
  <2> QED
    BY <2>1 DEF StoreInv, InLoop, FirstWorker
<1>8. CASE Conclude
  <2>1. /\ pc = "Conclude" /\ pc' = "Done" /\ UNCHANGED <<observed, store>>
        /\ flags' = [flags EXCEPT !["verificationIncomplete"] = FinalIncomplete]
    BY <1>8 DEF Conclude, workerVars
  <2>2. flags'["verificationNeeded"] <=> flags["verificationNeeded"]
    BY <1>0, <2>1 DEF Flags
  <2> QED
    BY <2>1, <2>2 DEF StoreInv, InLoop, FirstWorker
<1>9. CASE Engine /\ pc = "Poll" /\ UNCHANGED controlVars
  <2>1. pc' = "Poll" /\ flags' = flags
    BY <1>9 DEF controlVars
  <2>2. HeldInv'
    BY <1>9, <2>1, EngineHolds DEF StoreInv, FirstWorker
  <2> QED
    BY <2>1, <2>2 DEF StoreInv, InLoop
<1> QED
  BY <1>1, <1>2, <1>3, <1>4, <1>5, <1>6, <1>7, <1>8, <1>9 DEF Next, Controller

-----------------------------------------------------------------------------
(* A verdict that passes is a promise about the database                    *)

\* A verifier that leaves nothing unverified verified the run.
RereadInv == VerifierDone /\ ~flags["verificationIncomplete"] => flags["recoveryVerified"]

LEMMA RereadStep == RunInv /\ LoopInv /\ RereadInv /\ [Next]_vars => RereadInv'
<1> SUFFICES ASSUME RunInv, LoopInv, RereadInv, [Next]_vars PROVE RereadInv'
  OBVIOUS
<1>0. flags \in [Flags -> BOOLEAN] /\ NumOps \in Nat
  BY PlanTypes DEF RunInv, TypeOK
<1>1. CASE Launch \/ Reap \/ KillUnready \/ KillAtDeadline \/ KillStalled \/ RetryFenced \/ StrikeFault
           \/ FaultNotApplied \/ FinishSegments \/ RetrySegment \/ AbandonSegments \/ RetryVerifier
  <2>1. pc' \notin {"Conclude", "Done"}
    BY <1>1 DEF Launch, Reap, KillUnready, KillAtDeadline, KillStalled, Kill, EndPoll, RetryFenced,
       StrikeFault, FaultNotApplied, FinishSegments, RetrySegment, AbandonSegments, RetryVerifier,
       ContinueAt, LeaveLoop
  <2> QED
    BY <2>1 DEF RereadInv, VerifierDone
<1>2. CASE ObserveReadiness \/ Tick \/ DeadlinePasses \/ UNCHANGED vars
           \/ (Engine /\ pc = "Poll" /\ UNCHANGED controlVars)
  <2>1. UNCHANGED <<pc, mode, flags>>
    BY <1>2 DEF ObserveReadiness, Tick, DeadlinePasses, vars, controlVars
  <2> QED
    BY <2>1 DEF RereadInv, VerifierDone
<1>3. CASE ChooseVerifier
  BY <1>3 DEF ChooseVerifier, RereadInv, VerifierDone, LoopInv
<1>4. CASE FinishVerifier
  <2>1. /\ flags'["verificationIncomplete"] <=> (flags["verificationIncomplete"] \/ status # "Ok")
        /\ flags'["recoveryVerified"] <=> status = "Ok"
    BY <1>0, <1>4 DEF FinishVerifier, AfterVerifier, Flags
  <2> QED
    BY <2>1 DEF RereadInv
<1>5. CASE Conclude
  <2>1. /\ pc = "Conclude" /\ mode' = mode
        /\ flags' = [flags EXCEPT !["verificationIncomplete"] = FinalIncomplete]
    BY <1>5 DEF Conclude
  <2>2. /\ flags'["recoveryVerified"] <=> flags["recoveryVerified"]
        /\ flags'["verificationIncomplete"] <=> FinalIncomplete
    BY <1>0, <2>1 DEF Flags
  <2> QED
    BY <2>1, <2>2 DEF RereadInv, VerifierDone, FinalIncomplete
<1> QED
  BY <1>1, <1>2, <1>3, <1>4, <1>5 DEF Next, Controller

\* Without a planned fault nothing but the first worker ever runs.
LEMMA UndisturbedStep ==
  ASSUME DOMAIN FaultAt = {}
  PROVE  RunInv /\ FirstWorker /\ [Next]_vars => FirstWorker'
<1> SUFFICES ASSUME RunInv, FirstWorker, [Next]_vars PROVE FirstWorker'
  OBVIOUS
<1>0. /\ flags \in [Flags -> BOOLEAN] /\ TypeOK /\ StopInv /\ ~Recovering
  BY DEF RunInv, TypeOK, Recovering
<1>1. CASE StrikeFault \/ FaultNotApplied
  <2>1. NextFault \in DOMAIN FaultAt
    <3>1. pc = "Settle" /\ status \in {"Crashed", "Interrupted"}
      BY <1>1 DEF StrikeFault, FaultNotApplied, Settled
    <3> QED
      BY <3>1, StruckIsPlanned
  <2> QED
    BY <2>1
<1>2. CASE RetrySegment
  BY <1>0, <1>2 DEF RetrySegment, Retried
<1>3. CASE FinishSegments \/ AbandonSegments
  <2>1. \E raised : Raise(raised) /\ "verificationNeeded" \notin raised
    BY <1>0, <1>3 DEF FinishSegments, AbandonSegments, AbandonedFlags
  <2> QED
    BY <1>0, <2>1, RaisedFlags DEF FirstWorker
<1>4. CASE FinishVerifier \/ Conclude
  BY <1>0, <1>4 DEF FinishVerifier, AfterVerifier, Conclude, Flags, FirstWorker
<1>5. CASE ~(StrikeFault \/ FaultNotApplied \/ RetrySegment \/ FinishSegments \/ AbandonSegments
             \/ FinishVerifier \/ Conclude)
  <2>1. flags' = flags
    BY <1>5 DEF Next, Controller, Launch, ObserveReadiness, Reap, KillUnready, KillAtDeadline,
       KillStalled, Kill, EndPoll, RetryFenced, ChooseVerifier, RetryVerifier, Tick, DeadlinePasses,
       vars, controlVars
  <2> QED
    BY <2>1 DEF FirstWorker
<1> QED
  BY <1>1, <1>2, <1>3, <1>4, <1>5

\* What a verdict that passes says of the reports: every operation was acknowledged,
\* unless an acknowledged window covers it.
LEMMA PassedIsBacked ==
  ASSUME RunInv, WarrantInv, PassInv, verdict \in Passed, NEW i \in Steps
  PROVE  Backed(i)
<1>0. observed \in Seq(Report) /\ FinalLedger[i] = "Acked"
  BY DEF RunInv, TypeOK, PassInv
<1>1. PICK u \in {"Unknown", "Missing"} : FinalLedger[i] = Classified(i, observed, u)
  BY DEF FinalLedger
<1>2. PICK r \in Lines(observed) : r.op = i /\ r.outcome = "Acked"
  BY <1>0, <1>1, AckedIsReported
<1>3. r.phase \in {"Mutation", "Verification"}
  BY <1>0, <1>2, LinesAreReports DEF Report
<1>4. CASE r.phase = "Mutation"
  BY <1>0, <1>2, <1>4, LinesAreReports DEF Backed, ReportedAs
<1>5. CASE r.phase = "Verification"
  BY <1>2, <1>5 DEF WarrantInv, Reads
<1> QED
  BY <1>3, <1>4, <1>5

\* A key whose last operation is acknowledged is one an incomplete run is held to.
LEMMA LastAckedIsExpected ==
  ASSUME NEW rs, NEW k \in Keys, ReportedAs(LastOn(k), "Acked", rs)
  PROVE  k \in DOMAIN AckedExpectations(rs) /\ AckedExpectations(rs)[k] = LastOn(k)
<1> DEFINE Certain(x) == {i \in OpsOn(x) : \/ ReportedAs(i, "Acked", rs)
                                           \/ ReportedAs(i, "Unknown", rs)}
           Known(x)   == Certain(x) # {} /\ ReportedAs(Max(Certain(x)), "Acked", rs)
<1>1. AckedExpectations(rs) = [x \in {y \in Keys : Known(y)} |-> Max(Certain(x))]
  BY DEF AckedExpectations
<1>2. /\ LastOn(k) \in Certain(k) /\ Certain(k) \subseteq Steps
      /\ \A i \in Certain(k) : i <= LastOn(k)
  BY LastOnIsOn DEF OpsOn
<1> HIDE DEF Certain
<1>3. Max(Certain(k)) \in Certain(k) /\ LastOn(k) <= Max(Certain(k))
  BY <1>2, MaxOfSteps
<1>4. Max(Certain(k)) = LastOn(k)
  <2>1. Max(Certain(k)) <= LastOn(k) /\ Max(Certain(k)) \in Nat /\ LastOn(k) \in Nat
    BY <1>2, <1>3, PlanTypes
  <2> QED
    BY <1>3, <2>1
<1>5. Known(k)
  BY <1>2, <1>4
<1> HIDE DEF Known
<1> QED
  BY <1>1, <1>4, <1>5

\* A run that only the first worker had a part in.
LEMMA FirstWorkerHolds ==
  ASSUME RunInv, LoopInv, WarrantInv, StoreInv, PassInv, FirstWorker, verdict \in Passed
  PROVE  \A k \in Keys : store[k] = ValueOf(LastOn(k))
<1>1. struck = {} /\ pc = "Done" /\ ~InLoop
  BY DEF LoopInv, PassInv, Undecided, Passed, InLoop
<1>2. AllAcked(observed)
  BY <1>1, PassedIsBacked DEF AllAcked, Backed
<1>3. Holds(store, Steps)
  BY <1>1, <1>2 DEF StoreInv
<1> QED
  BY <1>3, PlanHolds

\* A run that ended with a verifier.
LEMMA VerifierHolds ==
  ASSUME RunInv, LoopInv, WarrantInv, CheckInv, RereadInv, PassInv, ~FirstWorker,
         verdict \in Passed, NEW k \in Keys
  PROVE  \/ store[k] = ValueOf(LastOn(k))
         \/ /\ flags["executionIncomplete"]
            /\ LastOn(k) \in struck /\ FaultAt[LastOn(k)] = "AckBeforeReportCrash"
<1>1. pc = "Done" /\ mode = "Verifier" /\ ~flags["verificationIncomplete"]
  BY DEF LoopInv, PassInv, Undecided, Passed
<1>2. Checked
  BY <1>1 DEF RereadInv, VerifierDone, CheckInv
<1>3. LastOn(k) \in Steps
  BY LastOnIsOn
<1>4. Backed(LastOn(k))
  BY <1>3, PassedIsBacked
<1>5. CASE ~CutShort
  BY <1>2, <1>5 DEF Checked, Expected, FinalExpectations, CutShort
<1>6. CASE CutShort /\ ReportedAs(LastOn(k), "Acked", observed)
  BY <1>1, <1>2, <1>6, LastAckedIsExpected DEF Checked, Expected, CutShort
<1>7. CASE CutShort /\ ~ReportedAs(LastOn(k), "Acked", observed)
  BY <1>4, <1>7 DEF Backed, CutShort
<1> QED
  BY <1>5, <1>6, <1>7

\* A verdict that passes is a promise about the database: every key holds the value the
\* last operation of the plan gave it, but for the operation of an acknowledged window
\* behind which the run was cut short.
THEOREM PassMeansDurableTheorem == Spec => []PassMeansDurable
<1>1. Init => NoSkippedOperation
  BY PlanTypes DEF Init, NoSkippedOperation
<1>2. Init => FirstWorker /\ RereadInv
  BY DEF Init, Flags, FirstWorker, RereadInv, VerifierDone
<1>3. RunInv /\ LoopInv /\ WarrantInv /\ StoreInv /\ PassInv /\ FirstWorker => PassMeansDurable
  BY FirstWorkerHolds DEF PassMeansDurable
<1>4. CASE DOMAIN FaultAt = {}
  <2>1. RunInv /\ FirstWorker /\ [Next]_vars => FirstWorker'
    BY <1>4, UndisturbedStep
  <2> QED
    BY <1>1, <1>2, <1>3, <2>1, RunInvariant, LoopInit, LoopStep, ProgressInit, ProgressStep,
       SkipStep, WarrantInit, WarrantStep, StoreInit, StoreStep, PassInit, PassStep, PTL DEF Spec
<1>5. CASE DOMAIN FaultAt # {}
  <2>1. Init => CheckInv
    BY <1>5, CheckInit
  <2>2. RunInv /\ LoopInv /\ WarrantInv /\ CheckInv /\ RereadInv /\ PassInv /\ ~FirstWorker
          => PassMeansDurable
    BY VerifierHolds DEF PassMeansDurable
  <2> QED
    BY <1>1, <1>2, <1>3, <2>1, <2>2, RunInvariant, LoopInit, LoopStep, ProgressInit, ProgressStep,
       SkipStep, WarrantInit, WarrantStep, StoreInit, StoreStep, PassInit, PassStep, CheckStep,
       RereadStep, PTL DEF Spec
<1> QED
  BY <1>4, <1>5
=============================================================================
