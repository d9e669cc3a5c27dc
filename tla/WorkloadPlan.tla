---------------------------- MODULE WorkloadPlan ----------------------------
(***************************************************************************)
(* The deterministic plan of one scenario (src/src/scenario.rs) and what   *)
(* the controller and the worker compute from it: the value every key must *)
(* end with, the chunks the worker executes and the transactions inside a  *)
(* chunk, the worker's resume point, and the state an incomplete run can   *)
(* still be held to.                                                       *)
(***************************************************************************)
EXTENDS Integers, FiniteSets, LedgerRules

CONSTANTS
  NumOps,   \* operations of the plan
  Plan,     \* [0..NumOps-1 -> [key, action, lane, batch]]
  Kind,     \* WorkloadKind of every operation of the plan
  FaultAt   \* [fault steps -> fault class]

Steps == 0..(NumOps - 1)
NoStep == -1
Absent == -1

Kinds == {"Pointwise", "Mixed", "SnapshotPinnedGc", "MultiCfHotCold", "TransactionHistory"}

\* Failpoint stands for the classes of the failpoint tier, ForcedReopen for the other
\* classes whose boundary is a graceful interrupt.
FaultClasses == {"ProcessKill", "AckBeforeReportCrash", "Failpoint", "ForcedReopen"}

Op == [key : Nat, action : {"Put", "Delete"},
       lane : {"Pointwise", "Batch", "Trickle", "Hot", "Cold"}, batch : Nat]

OpsOn(k) == {i \in Steps : Plan[i].key = k}
Keys == {Plan[i].key : i \in Steps}
LastOn(k) == Max(OpsOn(k))

\* The value a key holds after operation i: operations write distinct values.
ValueOf(i) == IF Plan[i].action = "Put" THEN i ELSE Absent
Values == Steps \cup {Absent}

\* final_durable_puts: where ack-kill-window may cut a worker.
FinalPuts == {i \in Steps : i = LastOn(Plan[i].key) /\ Plan[i].action = "Put"}

\* mixed_lsm_fault_boundaries, transaction_history_fault_boundaries: the other
\* chunked scenarios are cut where a chunk begins.
ChunkStart(i) == Kind = "Pointwise" \/ i = 0 \/ Plan[i].batch # Plan[i - 1].batch

\* What the plans of Scenario::new and DeterministicPlan::from_seed look like:
\* PlanGeneration generates them.
WellFormed ==
  /\ NumOps \in Nat \ {0}
  /\ Plan \in [Steps -> Op]
  /\ Kind \in Kinds
  /\ DOMAIN FaultAt \subseteq Steps
  /\ \A s \in DOMAIN FaultAt :
       /\ FaultAt[s] \in FaultClasses
       /\ FaultAt[s] = "AckBeforeReportCrash" => Kind = "Pointwise" /\ s \in FinalPuts
       /\ ChunkStart(s)
       /\ Kind # "Pointwise" => s > 0
       /\ Kind = "TransactionHistory" => FaultAt[s] = "ForcedReopen"
       /\ FaultAt[s] = "Failpoint" => Kind = "Pointwise"
  \* batches are contiguous and numbered upwards
  /\ \A i, j \in Steps : i <= j => Plan[i].batch <= Plan[j].batch
  \* every operation is in a lane that its executor runs
  /\ \A i \in Steps :
       /\ Kind = "Mixed" => Plan[i].lane \in {"Batch", "Trickle"}
       /\ Kind = "MultiCfHotCold" => Plan[i].lane \in {"Hot", "Cold"}
  \* the lanes of a chunk write disjoint keys
  /\ Kind \in {"Mixed", "MultiCfHotCold"} =>
       \A i, j \in Steps :
         Plan[i].batch = Plan[j].batch /\ Plan[i].lane # Plan[j].lane
           => Plan[i].key # Plan[j].key

ASSUME PlanAssumption == WellFormed

-----------------------------------------------------------------------------
(* What verify_final_state expects: the last operation on every key. *)

FinalExpectations == [k \in Keys |-> LastOn(k)]

\* acknowledged_final_state_commands: an Unknown report makes a key uncertain,
\* an operation that failed or was never reported counts for nothing.
MutationReports(reports) ==
  {reports[n] : n \in {m \in DOMAIN reports : reports[m].phase = "Mutation"}}

ReportedAs(i, outcome, reports) ==
  \E r \in MutationReports(reports) : r.op = i /\ r.outcome = outcome

AckedExpectations(reports) ==
  LET Certain(k) == {i \in OpsOn(k) : \/ ReportedAs(i, "Acked", reports)
                                      \/ ReportedAs(i, "Unknown", reports)}
      Known(k)   == Certain(k) # {} /\ ReportedAs(Max(Certain(k)), "Acked", reports)
  IN  [k \in {x \in Keys : Known(x)} |-> Max(Certain(k))]

-----------------------------------------------------------------------------
(* Chunks: what the worker executes between two looks at its triggers. *)

ChunkEnd(i) ==
  IF Kind = "Pointwise" THEN i + 1
  ELSE Min({j \in (i + 1)..NumOps : j = NumOps \/ Plan[j].batch # Plan[i].batch})

Chunk(i) == i..(ChunkEnd(i) - 1)
InLane(i, lane) == {j \in Chunk(i) : Plan[j].lane = lane}

\* A mixed chunk without one of its lanes is refused before it starts; the
\* readers of a hot/cold chunk without cold keys pick one of none and panic.
Acceptable(i) ==
  Kind = "Mixed" => InLane(i, "Batch") # {} /\ InLane(i, "Trickle") # {}
Readable(i) ==
  Kind = "MultiCfHotCold" => InLane(i, "Cold") # {}

\* The transactions of a chunk.
Transactions(i) ==
  IF Kind = "Pointwise" THEN {{i}}
  ELSE IF Kind = "Mixed"
  THEN {InLane(i, "Batch")} \cup {{j} : j \in InLane(i, "Trickle")}
  ELSE IF Kind = "MultiCfHotCold" THEN {InLane(i, "Hot"), InLane(i, "Cold")} \ {{}}
  ELSE {Chunk(i)}

\* The trickle lane commits its operations one after the other.
Startable(tx, todo) ==
  \A other \in todo :
    Kind = "Mixed" /\ (\A i \in tx \cup UNION {other} : Plan[i].lane = "Trickle")
      => Min(tx) <= Min(other)

-----------------------------------------------------------------------------
(* next_worker_start: where the next worker resumes. *)

\* Mutant: a failed operation counts as done.
ResumeAfterFailure(current, reports) ==
  Max({current} \cup {r.op + 1 : r \in MutationReports(reports)})

ResumeAt(current, reports) ==
  LET failed == {r.op : r \in {x \in MutationReports(reports) : x.outcome # "Acked"}}
      first  == Min(failed)
  IN  IF failed = {} THEN Max({current} \cup {r.op + 1 : r \in MutationReports(reports)})
      ELSE IF Kind = "Pointwise" THEN first
      ELSE Min({i \in Steps : Plan[i].batch = Plan[first].batch})
=============================================================================
