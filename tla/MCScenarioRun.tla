--------------------------- MODULE MCScenarioRun ---------------------------
(* Plans and bounds for the runs of ScenarioRun. *)
EXTENDS ScenarioRun

Put(key, lane, batch)    == [key |-> key, action |-> "Put", lane |-> lane, batch |-> batch]
Delete(key, lane, batch) == [key |-> key, action |-> "Delete", lane |-> lane, batch |-> batch]

Ticks == [warning |-> 1, soft |-> 1, hard |-> 2]

\* Sequences number from 1 and the plan from 0.
PlanOf(ops) == [i \in 0..(Len(ops) - 1) |-> ops[i + 1]]

\* Pointwise: key 1 is overwritten by a delete, key 2 is written once.
PointwisePlan == PlanOf(<<Put(1, "Pointwise", 0), Put(2, "Pointwise", 0),
                          Delete(1, "Pointwise", 0)>>)
KillThenAck == 0 :> "ProcessKill" @@ 1 :> "AckBeforeReportCrash"
\* ... and with a last put, the acknowledged window at the end of the plan.
OverwritePlan == PlanOf(<<Put(1, "Pointwise", 0), Put(2, "Pointwise", 0),
                          Put(1, "Pointwise", 0)>>)
FailpointThenAck == 1 :> "Failpoint" @@ 2 :> "AckBeforeReportCrash"
NoFaults == [s \in {} |-> "ProcessKill"]
ReopenOnce == 1 :> "ForcedReopen"

\* Mixed: a batch lane and a trickle lane, each with its own keys, twice.  The
\* second batch puts and deletes one key in one transaction.
MixedPlan == PlanOf(<<Put(1, "Batch", 0), Put(2, "Trickle", 0), Put(1, "Batch", 1),
                      Delete(1, "Batch", 1), Put(2, "Trickle", 1), Put(3, "Trickle", 1)>>)
KillSecondChunk == 2 :> "ProcessKill"

\* Snapshot: three chunks, so that a late crash thread meets the third.
SnapshotPlan == PlanOf(<<Put(1, "Batch", 0), Put(1, "Batch", 1), Put(2, "Batch", 1),
                         Put(1, "Batch", 2)>>)
KillSnapshotChunk == 1 :> "ProcessKill"

\* Hot and cold: every fifth operation is cold, the first of each chunk here.
HotColdPlan == PlanOf(<<Put(1, "Cold", 0), Put(2, "Hot", 0),
                        Put(1, "Cold", 1), Put(2, "Hot", 1)>>)
=============================================================================
