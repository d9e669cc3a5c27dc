--------------------------- MODULE ScenarioCatalog ---------------------------
(***************************************************************************)
(* The scenario catalog of src/src/scenario.rs: which scenarios there are, *)
(* on which backends they run and what they need, which workload each one  *)
(* generates, and which faults it may draw, how many, and where.           *)
(***************************************************************************)
EXTENDS Naturals, Sequences

Backends == {"Local", "Sqrzl", "S3", "Azure", "Gcs"}
IsCloud(backend) == backend # "Local"

\* SCENARIO_CATALOG, in its order.
ScenarioCatalog ==
  <<"smoke-local", "sqrzl-visibility", "recovery-crash-loop", "lease-takeover-latency",
    "uuid-compaction-pressure", "transaction-history", "scan-compaction-starvation",
    "snapshot-pinned-gc-pressure", "multi-cf-hot-cold-interference",
    "delete-space-amplification", "cold-cache-read-storm", "ack-kill-window",
    "cloud-cache-loss", "manifest-race", "sst-corruption", "wal-truncation-race",
    "stale-cache-recovery", "wal-sync-ack-cut", "manifest-sync-failure",
    "compaction-commit-cut", "wal-prune-cut", "lease-renewal-failure", "flush-barrier">>

Scenarios == {ScenarioCatalog[n] : n \in 1..23}
LocalOnly == {"smoke-local"}
CloudOnly == {"sqrzl-visibility", "cold-cache-read-storm", "cloud-cache-loss",
              "wal-truncation-race", "stale-cache-recovery", "wal-prune-cut"}
Smoke == {"smoke-local", "sqrzl-visibility"}
FailpointTier == {"wal-sync-ack-cut", "manifest-sync-failure", "compaction-commit-cut",
                  "wal-prune-cut", "lease-renewal-failure", "flush-barrier"}

\* BackendApplicability::includes, by which suites select.  Mutant: the Sqrzl
\* facade, which runs in process, counts as local.
IncludesInProcess(scenario, backend) ==
  CASE scenario \in LocalOnly -> backend \in {"Local", "Sqrzl"}
    [] scenario \in CloudOnly -> IsCloud(backend)
    [] OTHER -> TRUE
Includes(scenario, backend) ==
  CASE scenario \in LocalOnly -> backend = "Local"
    [] scenario \in CloudOnly -> IsCloud(backend)
    [] OTHER -> TRUE

\* validate_scenario, by which run_scenario_at refuses.
Executable(scenario, backend, failpoints) ==
  /\ scenario \in FailpointTier => failpoints
  /\ ~(scenario \in LocalOnly /\ backend # "Local")
  /\ ~(scenario \in CloudOnly /\ ~IsCloud(backend))

-----------------------------------------------------------------------------
(* Workloads and faults *)

\* WorkloadKind of the plan; the kinds with a batch and a trickle lane that the
\* worker treats alike are one, Mixed.
WorkloadOf(scenario) ==
  CASE scenario = "transaction-history" -> "TransactionHistory"
    [] scenario = "snapshot-pinned-gc-pressure" -> "SnapshotPinnedGc"
    [] scenario = "multi-cf-hot-cold-interference" -> "MultiCfHotCold"
    [] scenario \in {"uuid-compaction-pressure", "scan-compaction-starvation",
                     "delete-space-amplification", "cold-cache-read-storm"} -> "Mixed"
    [] OTHER -> "Pointwise"

CrashLoops ==
  {"recovery-crash-loop", "uuid-compaction-pressure", "scan-compaction-starvation",
   "snapshot-pinned-gc-pressure", "multi-cf-hot-cold-interference",
   "delete-space-amplification"}

\* fault_catalog
FaultCatalog(scenario) ==
  CASE scenario \in CrashLoops -> {"ProcessKill", "ForcedReopen"}
    [] scenario = "cold-cache-read-storm" -> {"CloudCacheLoss", "ProviderLatencySpike"}
    [] scenario = "lease-takeover-latency" ->
         {"ProcessKill", "LeaseStalenessWindow", "RegionPartition", "ProviderLatencySpike"}
    [] scenario = "ack-kill-window"       -> {"AckBeforeReportCrash"}
    [] scenario = "cloud-cache-loss"      -> {"CloudCacheLoss"}
    [] scenario = "wal-sync-ack-cut"      -> {"ExactWalPathFault"}
    [] scenario = "manifest-sync-failure" -> {"ManifestCheckpointCut"}
    [] scenario = "compaction-commit-cut" -> {"FlushCompactionBarrierFault"}
    [] scenario = "wal-prune-cut"         -> {"CompactionRace"}
    [] scenario = "lease-renewal-failure" -> {"LeaseRenewalCut"}
    [] scenario = "flush-barrier"         -> {"FlushCompactionBarrierFault", "CompactionRace"}
    [] scenario = "smoke-local"           -> {}
    [] scenario = "transaction-history"   -> {"ForcedReopen"}
    [] scenario = "manifest-race"         -> {"ManifestInterruption"}
    [] scenario = "sst-corruption"        -> {"SstCorruption"}
    [] scenario = "wal-truncation-race"   -> {"WalTruncationRace"}
    [] scenario = "stale-cache-recovery"  -> {"StaleCacheCleanup"}
    [] scenario = "sqrzl-visibility" ->
         {"ProviderLatencySpike", "RegionPartition", "LeaseStalenessWindow"}

\* scenario_fault_count: these scenarios draw one fault per unit of concurrency,
\* the others a fault for about every seventh operation.
OncePerLane ==
  CrashLoops \cup FailpointTier \cup
  {"lease-takeover-latency", "cold-cache-read-storm", "ack-kill-window",
   "cloud-cache-loss", "transaction-history"}

FaultCount(scenario, ops, concurrency) ==
  IF scenario = "smoke-local" THEN 0
  ELSE IF scenario \in OncePerLane THEN concurrency
  ELSE (ops * 15 + 50) \div 100
=============================================================================
