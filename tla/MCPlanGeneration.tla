------------------------- MODULE MCPlanGeneration -------------------------
(* Requests for the run of PlanGeneration. *)
EXTENDS PlanGeneration

Asked(s, n, c) == [scenario |-> s, ops |-> n, concurrency |-> c]

Slotted ==
  {s \in Scenarios : WorkloadOf(s) \in {"Mixed", "SnapshotPinnedGc", "MultiCfHotCold"}}
    \ {"uuid-compaction-pressure"}

\* Every scenario; the ack-kill window at its own small and medium scale, transaction
\* histories at their small one.  With a concurrency of two, seven units end in half
\* a chunk, and six have just the two boundaries they need.  Twenty-five operations
\* on random keys overwrite and delete in the batch lane and overwrite in the other.
MCRequests ==
  {Asked(s, 12, 1) : s \in {t \in Scenarios : WorkloadOf(t) = "Pointwise"} \ {"ack-kill-window"}}
  \cup {Asked("ack-kill-window", 24, 1), Asked("ack-kill-window", 80, 2)}
  \cup {Asked("transaction-history", 24, 1)}
  \cup {Asked(s, n, 2) : s \in Slotted, n \in {6, 7}}
  \cup {Asked("uuid-compaction-pressure", 5, 1)}
=============================================================================
