--------------------------- MODULE WorkerProcess ---------------------------
(***************************************************************************)
(* One worker process (run_engine in src/src/bin/worker.rs), the files it  *)
(* leaves for the controller, and the engine it drives.  Every effect      *)
(* another process can see - a commit, a report line, the readiness        *)
(* artifact, the exit - is a step of its own, so that the process can be   *)
(* killed between any two of them.                                         *)
(*                                                                         *)
(* The engine is external: a store, a lease a dead holder leaves behind    *)
(* until it expires, and the lock file it holds only while acquiring the   *)
(* lease.  What the worker did not ask for - an engine error, a panic, an  *)
(* unwritable artifact, a lost value - spends one unit of trouble.  In a   *)
(* process with a failpoint configured the engine errs or panics as often  *)
(* as it likes.                                                            *)
(***************************************************************************)
EXTENDS WorkloadPlan

CONSTANTS
  MaxTrouble,     \* bound on unplanned adversity in one run
  MayLose,        \* the engine may lose a value it acknowledged
  MayMisread,     \* the engine may answer a verification read wrongly
  MayReportHeld   \* an error after readiness may name the writer lease

ASSUME WorkerAssumption ==
  /\ MaxTrouble \in Nat
  /\ {MayLose, MayMisread, MayReportHeld} \subseteq BOOLEAN

VARIABLES
  worker,    \* the process: see NoWorker for its fields
  reports,   \* the operation report file of this attempt
  store,     \* engine: value of every key
  lease,     \* engine: a holder that died still owns the writer lease
  lockFile,  \* engine: .midge_leader.lock left by a worker that died acquiring
  sentinel,  \* the fault whose failpoint sentinel is in the database directory
  trouble,   \* adversity left
  lost,      \* history: keys the engine lost a value of
  armed      \* history: faults whose failpoint a worker has configured

failpointVars == <<sentinel, armed>>
workerVars == <<worker, reports, store, lease, lockFile, sentinel, trouble, lost, armed>>

Phases == {"Activating", "Opening", "Running", "Executing", "Emitting", "Verifying", "Exited"}
WorkerStatus == {"Ok", "Failed", "Incomplete", "Crashed", "Interrupted", "TimedOut"}
Report == [op : Steps, phase : {"Mutation", "Verification"}, outcome : Outcomes]

NoWorker ==
  [phase      |-> "Exited",  \* where run_engine is
   failpoint  |-> NoStep,    \* the fault whose sentinel this process has taken
   index      |-> 0,         \* next operation of the plan
   todo       |-> {},        \* transactions of the chunk not yet committed
   failed     |-> {},        \* operations of the chunk the engine refused
   unreported |-> {},        \* outcomes not yet in the report file
   unread     |-> {},        \* keys not yet verified
   doomed     |-> FALSE,     \* the crash thread of the chunk is running
   ready      |-> FALSE,     \* the readiness artifact exists
   held       |-> FALSE,     \* the lifecycle error names the writer lease
   code       |-> "Ok"]      \* exit status, once exited

WorkerType ==
  /\ worker \in [phase : Phases, failpoint : DOMAIN FaultAt \cup {NoStep}, index : 0..NumOps,
                 todo : SUBSET SUBSET Steps, failed : SUBSET Steps, unreported : SUBSET Steps,
                 unread : SUBSET Keys, doomed : BOOLEAN, ready : BOOLEAN,
                 held : BOOLEAN, code : WorkerStatus]
  /\ reports \in Seq(Report)
  /\ store \in [Keys -> Values]
  /\ lease \in BOOLEAN
  /\ lockFile \in BOOLEAN
  /\ sentinel \in DOMAIN FaultAt \cup {NoStep}
  /\ trouble \in 0..MaxTrouble
  /\ lost \subseteq Keys
  /\ armed \subseteq DOMAIN FaultAt

WorkerInit ==
  /\ worker = NoWorker
  /\ reports = <<>>
  /\ store = [k \in Keys |-> Absent]
  /\ lease = FALSE
  /\ lockFile = FALSE
  /\ sentinel = NoStep
  /\ trouble = MaxTrouble
  /\ lost = {}
  /\ armed = {}

Alive == worker.phase # "Exited"
Spend == trouble > 0 /\ trouble' = trouble - 1
Configured == worker.failpoint # NoStep /\ worker.phase # "Activating"
Adversity == Spend \/ (Configured /\ UNCHANGED trouble)
Log(i, phase, outcome) ==
  reports' = Append(reports, [op |-> i, phase |-> phase, outcome |-> outcome])
Exit(code) == worker' = [worker EXCEPT !.phase = "Exited", !.code = code]
ExitHeld(code, held) ==
  worker' = [worker EXCEPT !.phase = "Exited", !.code = code, !.held = held]
HeldTexts == {FALSE, MayReportHeld}

-----------------------------------------------------------------------------
(* Spawn and open *)

\* Command::spawn: a new process with empty report files, which looks for sentinels
\* before anything else.  Mutant: a build that ignores them.
IgnoresSentinels == "Opening"
FirstPhase == IF sentinel = NoStep THEN "Opening" ELSE "Activating"
Spawned(index) ==
  /\ worker' = [NoWorker EXCEPT !.phase = FirstPhase, !.index = index]
  /\ reports' = <<>>
  /\ UNCHANGED <<store, lease, lockFile, trouble, lost, failpointVars>>

\* activate_sentinels reads the sentinel and removes its file, and only then
\* configures the failpoint.  Mutant: the file stays, marked as consumed.
MarkedConsumed == UNCHANGED sentinel
RemoveFile == sentinel' = NoStep
TakeSentinel ==
  /\ worker.phase = "Activating"
  /\ worker.failpoint = NoStep
  /\ worker' = [worker EXCEPT !.failpoint = sentinel]
  /\ RemoveFile
  /\ UNCHANGED <<reports, store, lease, lockFile, trouble, lost, armed>>

ConfigureFailpoint ==
  /\ worker.phase = "Activating"
  /\ worker.failpoint # NoStep
  /\ worker' = [worker EXCEPT !.phase = "Opening"]
  /\ armed' = armed \cup {worker.failpoint}
  /\ UNCHANGED <<reports, store, lease, lockFile, sentinel, trouble, lost>>

\* Engine::open is refused while a dead holder's lease or lock file stands.
OpenFenced ==
  /\ worker.phase = "Opening"
  /\ lease \/ lockFile
  /\ ExitHeld("Failed", TRUE)
  /\ UNCHANGED <<reports, store, lease, lockFile, trouble, lost, failpointVars>>

\* The engine opened, the column families exist, readiness is published.
OpenReady ==
  /\ worker.phase = "Opening"
  /\ ~lease /\ ~lockFile
  /\ worker' = [worker EXCEPT !.phase = "Running", !.ready = TRUE]
  /\ UNCHANGED <<reports, store, lease, lockFile, trouble, lost, failpointVars>>

-----------------------------------------------------------------------------
(* The mutation loop *)

\* --crash-on-step for a pointwise command: exit 1 without shutting down.
CrashOnStep(crashAt) ==
  /\ worker.phase = "Running"
  /\ worker.index = crashAt
  /\ Kind = "Pointwise"
  /\ Exit("Crashed")
  /\ lease' = TRUE
  /\ UNCHANGED <<reports, store, lockFile, trouble, lost, failpointVars>>

\* --interrupt-on-step: shut the engine down, exit 3; exit 2 if that fails.
InterruptOnStep(interruptAt) ==
  /\ worker.phase = "Running"
  /\ worker.index = interruptAt
  /\ \/ Exit("Interrupted") /\ UNCHANGED <<lease, trouble>>
     \/ Exit("Failed") /\ lease' = TRUE /\ Adversity
  /\ UNCHANGED <<reports, store, lockFile, lost, failpointVars>>

\* The lanes start; in a chunk the plan crashes, so does the crash thread.
BeginChunk(crashAt, interruptAt) ==
  /\ worker.phase = "Running"
  /\ worker.index < NumOps
  /\ worker.index # interruptAt
  /\ Kind = "Pointwise" => worker.index # crashAt
  /\ Acceptable(worker.index)
  /\ worker' = [worker EXCEPT
       !.phase = "Executing",
       !.todo = Transactions(worker.index),
       !.failed = {},
       !.unreported = Chunk(worker.index),
       !.doomed = @ \/ worker.index = crashAt]
  /\ UNCHANGED <<reports, store, lease, lockFile, trouble, lost, failpointVars>>

\* execute_mixed_chunk returns an error: the guard shuts the engine down.
RejectChunk(interruptAt) ==
  /\ worker.phase = "Running"
  /\ worker.index < NumOps
  /\ worker.index # interruptAt
  /\ ~Acceptable(worker.index)
  /\ Exit("Failed")
  /\ UNCHANGED <<reports, store, lease, lockFile, trouble, lost, failpointVars>>

\* The store after a transaction: the last write of the transaction per key.
Applied(tx) ==
  [k \in Keys |->
     LET writes == tx \cap OpsOn(k)
     IN  IF writes = {} THEN store[k] ELSE ValueOf(Max(writes))]

CommitTransaction(tx) ==
  /\ worker.phase = "Executing"
  /\ Startable(tx, worker.todo)
  /\ store' = Applied(tx)
  /\ worker' = [worker EXCEPT !.todo = @ \ {tx}]
  /\ UNCHANGED <<reports, lease, lockFile, trouble, lost, failpointVars>>

\* The engine answers with an error: all operations of the transaction failed,
\* as far as the worker knows; the engine may have applied them all the same.
FailTransaction(tx) ==
  /\ worker.phase = "Executing"
  /\ Startable(tx, worker.todo)
  /\ Adversity
  /\ store' \in {store, Applied(tx)}
  /\ worker' = [worker EXCEPT !.todo = @ \ {tx}, !.failed = @ \cup tx]
  /\ UNCHANGED <<reports, lease, lockFile, lost, failpointVars>>

\* The crash thread calls exit(1).  The lanes of a mixed or hot/cold chunk wait
\* for it; the one of a snapshot chunk is detached and fires whenever it fires.
CrashThreadExits ==
  /\ Alive
  /\ worker.doomed
  /\ Exit("Crashed")
  /\ lease' = TRUE
  /\ UNCHANGED <<reports, store, lockFile, trouble, lost, failpointVars>>

ChunkExecuted ==
  /\ worker.phase = "Executing"
  /\ worker.todo = {}
  /\ worker.doomed => Kind = "SnapshotPinnedGc"

\* The reader lane panicked: its join turns into an error of the chunk.
ChunkUnreadable ==
  /\ ChunkExecuted
  /\ ~Readable(worker.index)
  /\ Exit("Failed")
  /\ UNCHANGED <<reports, store, lease, lockFile, trouble, lost, failpointVars>>

\* --crash-after-step: the engine has answered, well or badly; nothing is
\* reported, exit 1.
CrashAfterStep(crashAfterAt) ==
  /\ ChunkExecuted
  /\ Readable(worker.index)
  /\ crashAfterAt \in Chunk(worker.index)
  /\ Exit("Crashed")
  /\ lease' = TRUE
  /\ UNCHANGED <<reports, store, lockFile, trouble, lost, failpointVars>>

EndChunk(crashAfterAt) ==
  /\ ChunkExecuted
  /\ Readable(worker.index)
  /\ crashAfterAt \notin Chunk(worker.index)
  /\ worker' = [worker EXCEPT !.phase = "Emitting"]
  /\ UNCHANGED <<reports, store, lease, lockFile, trouble, lost, failpointVars>>

\* emit_error appends one synced line per outcome, in sequence order.  After
\* the last one the loop goes on, or the worker leaves with exit 4.
EmitOutcome ==
  /\ worker.phase = "Emitting"
  /\ LET i    == Min(worker.unreported)
         rest == worker.unreported \ {i}
     IN  /\ Log(i, "Mutation", IF i \in worker.failed THEN "Failed" ELSE "Acked")
         /\ \/ /\ rest # {}
               /\ worker' = [worker EXCEPT !.unreported = rest]
            \/ /\ rest = {} /\ worker.failed = {}
               /\ worker' = [worker EXCEPT !.unreported = {}, !.phase = "Running",
                                           !.index = ChunkEnd(worker.index)]
            \/ /\ rest = {} /\ worker.failed # {}
               /\ \E held \in HeldTexts : ExitHeld("Incomplete", held)
  /\ UNCHANGED <<store, lease, lockFile, trouble, lost, failpointVars>>

-----------------------------------------------------------------------------
(* Final verification and shutdown *)

BeginVerification(expected) ==
  /\ worker.phase = "Running"
  /\ worker.index = NumOps
  /\ worker' = [worker EXCEPT !.phase = "Verifying", !.unread = DOMAIN expected]
  /\ UNCHANGED <<reports, store, lease, lockFile, trouble, lost, failpointVars>>

\* A present value is reported; an absent key that should be absent is not.
VerifyKey(expected) ==
  /\ worker.phase = "Verifying"
  /\ worker.unread # {}
  /\ LET k == Min(worker.unread)
     IN  /\ store[k] = ValueOf(expected[k])
         /\ IF Plan[expected[k]].action = "Put"
            THEN Log(expected[k], "Verification", "Acked")
            ELSE UNCHANGED reports
         /\ worker' = [worker EXCEPT !.unread = @ \ {k}]
  /\ UNCHANGED <<store, lease, lockFile, trouble, lost, failpointVars>>

\* The first mismatch ends the verification: the worker leaves with exit 2.
MismatchKey(expected) ==
  /\ worker.phase = "Verifying"
  /\ worker.unread # {}
  /\ LET k == Min(worker.unread)
     IN  /\ \/ store[k] # ValueOf(expected[k]) /\ UNCHANGED trouble
            \/ store[k] = ValueOf(expected[k]) /\ MayMisread /\ Spend
         /\ Log(expected[k], "Verification", "Failed")
         /\ Exit("Failed")
  /\ UNCHANGED <<store, lease, lockFile, lost, failpointVars>>

ShutDown ==
  /\ worker.phase = "Verifying"
  /\ worker.unread = {}
  /\ \/ Exit("Ok") /\ UNCHANGED <<lease, trouble>>
     \/ Exit("Failed") /\ lease' = TRUE /\ Adversity
  /\ UNCHANGED <<reports, store, lockFile, lost, failpointVars>>

-----------------------------------------------------------------------------
(* What nobody asked for *)

\* The lease and lock file a process leaves when it dies as it stands.  Where
\* the shutdown guard still gives the lease back, it expires at once.
DiesHolding ==
  /\ lease' = (lease \/ worker.phase # "Activating")
  /\ lockFile' \in IF worker.phase = "Opening" THEN {lockFile, TRUE} ELSE {lockFile}

\* A panic, an error of the engine outside a transaction, an unwritable
\* artifact, a kill by the operating system: any exit that is not 0, 1, 3, 4.
Abort ==
  /\ Alive
  /\ Adversity
  /\ \E held \in HeldTexts : ExitHeld("Failed", held)
  /\ DiesHolding
  /\ UNCHANGED <<reports, store, lost, failpointVars>>

\* Child::kill followed by wait: the worker stops wherever it is, if it has not
\* stopped already.
Killed ==
  /\ IF Alive THEN Exit("TimedOut") /\ DiesHolding
     ELSE UNCHANGED <<worker, lease, lockFile>>
  /\ UNCHANGED <<reports, store, lost, failpointVars>>

\* What the engine recovers at open lacks the latest write of a key.
LoseValue(k) ==
  /\ MayLose
  /\ worker.phase = "Opening"
  /\ Spend
  /\ \E older \in {Absent} \cup {ValueOf(i) : i \in {j \in OpsOn(k) : j < worker.index}} :
       /\ older # store[k]
       /\ store' = [store EXCEPT ![k] = older]
  /\ lost' = lost \cup {k}
  /\ UNCHANGED <<worker, reports, lease, lockFile, failpointVars>>

LeaseExpires ==
  /\ lease
  /\ lease' = FALSE
  /\ UNCHANGED <<worker, reports, store, lockFile, trouble, lost, failpointVars>>

\* A step of the worker or the engine under the triggers of one run_worker call.
WorkerStep(crashAt, crashAfterAt, interruptAt, expected) ==
  \/ TakeSentinel
  \/ ConfigureFailpoint
  \/ OpenFenced
  \/ OpenReady
  \/ CrashOnStep(crashAt)
  \/ InterruptOnStep(interruptAt)
  \/ BeginChunk(crashAt, interruptAt)
  \/ RejectChunk(interruptAt)
  \/ \E tx \in worker.todo : CommitTransaction(tx)
  \/ \E tx \in worker.todo : FailTransaction(tx)
  \/ CrashThreadExits
  \/ ChunkUnreadable
  \/ CrashAfterStep(crashAfterAt)
  \/ EndChunk(crashAfterAt)
  \/ EmitOutcome
  \/ BeginVerification(expected)
  \/ VerifyKey(expected)
  \/ MismatchKey(expected)
  \/ ShutDown
  \/ Abort
  \/ \E k \in Keys : LoseValue(k)
  \/ LeaseExpires
=============================================================================
