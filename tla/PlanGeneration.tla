--------------------------- MODULE PlanGeneration ---------------------------
(***************************************************************************)
(* How a plan is made (Scenario::new and DeterministicPlan::from_seed in   *)
(* src/src/scenario.rs): the operations one after the other, then faults   *)
(* on some of them.  Indices drawn from the seed may be any.  A key is     *)
(* numbered within its plan: by its slot, or by the operation that made    *)
(* it up; the cold keys of a slot and its hot keys are different keys.     *)
(***************************************************************************)
EXTENDS ScenarioCatalog, Integers, FiniteSetsExt

CONSTANTS
  OpsFactor,    \* mixed_lsm_operation_count: 16 times the operations of the scale
  ChunkFactor,  \* mixed_lsm_chunk_size: 32 times the concurrency of the scale
  Requests      \* scenarios asked for, with the operations and concurrency of a scale

ASSUME GenerationAssumption ==
  /\ OpsFactor \in Nat /\ OpsFactor >= 5
  /\ ChunkFactor \in Nat \ {0} /\ ChunkFactor % OpsFactor = 0
  /\ Requests \subseteq [scenario : Scenarios, ops : Nat \ {0}, concurrency : Nat \ {0}]

\* Every scale of RunScale has room for a fault on every unit of its concurrency.
ASSUME RoomAssumption == \A r \in Requests :
  IF WorkloadOf(r.scenario) \in {"Pointwise", "TransactionHistory"}
  THEN r.ops > 8 * r.concurrency
  ELSE r.ops * OpsFactor > ChunkFactor * r.concurrency * r.concurrency

VARIABLES
  request,   \* the scenario and its scale
  offset,    \* seed modulo 15
  sequence,  \* operations generated so far
  ops,       \* the operations
  live,      \* keys the lanes of a mixed workload have put and not deleted
  faults,    \* the class of the fault on a step
  done       \* the plan is complete

vars == <<request, offset, sequence, ops, live, faults, done>>

Lanes == {"Batch", "Trickle"}
Workload == WorkloadOf(request.scenario)
UuidKeys == request.scenario = "uuid-compaction-pressure"
Chunked == Workload \notin {"Pointwise", "TransactionHistory"}

-----------------------------------------------------------------------------
(* Sizes *)

KeyCount == request.concurrency * 4
OperationCount == IF Chunked THEN request.ops * OpsFactor ELSE request.ops
ChunkSize == request.concurrency * ChunkFactor
SlotCount == ChunkSize * 2
TransactionWidth == 8

BatchStart(seq) == (seq \div ChunkSize) * ChunkSize
BatchLength(seq) ==
  IF OperationCount - BatchStart(seq) < ChunkSize
  THEN OperationCount - BatchStart(seq) ELSE ChunkSize

\* Three quarters of a chunk, rounded up, are the batch lane's.  Mutant: of a full
\* chunk, whatever is left of the plan.
FullWidth(seq)  == (ChunkSize * 3 + 3) \div 4
BatchWidth(seq) == (BatchLength(seq) * 3 + 3) \div 4

LaneOf(seq) == IF seq % ChunkSize < BatchWidth(seq) THEN "Batch" ELSE "Trickle"
ColdPeriod == 5
FamilyOf(seq) == IF seq % ColdPeriod = 0 THEN "Cold" ELSE "Hot"

-----------------------------------------------------------------------------
NoOps == [i \in {} |-> "none"]

Init ==
  /\ request \in Requests
  /\ offset \in IF Workload = "TransactionHistory" THEN 0..14 ELSE {0}
  /\ sequence = 0
  /\ ops = NoOps
  /\ live = [lane \in Lanes |-> {}]
  /\ faults = NoOps
  /\ done = FALSE

Generating == sequence < OperationCount

Emit(key, action, lane, batch) ==
  /\ ops' = [i \in 0..sequence |->
               IF i = sequence
               THEN [key |-> key, action |-> action, lane |-> lane, batch |-> batch]
               ELSE ops[i]]
  /\ sequence' = sequence + 1
  /\ UNCHANGED <<request, offset, faults, done>>

ActionIf(delete) == IF delete THEN "Delete" ELSE "Put"

\* The keys in turn, every eleventh operation of the later rounds a delete.
PointwiseOp ==
  /\ Generating /\ Workload = "Pointwise"
  /\ Emit(sequence % KeyCount,
          ActionIf(sequence >= KeyCount /\ sequence % 11 = 0), "Pointwise", 0)
  /\ UNCHANGED live

\* Transactions of eight operations on three keys.
TransactionOp ==
  /\ Generating /\ Workload = "TransactionHistory"
  /\ Emit((sequence + offset) % 3, ActionIf((sequence + offset) % 5 = 4), "Batch",
          sequence \div TransactionWidth)
  /\ UNCHANGED live

\* The slots in turn.  The same slot is another key in the other column family.
DeleteFrequency == IF request.scenario = "delete-space-amplification" THEN 3 ELSE 13
SlotKey(seq) ==
  IF Workload = "MultiCfHotCold" /\ FamilyOf(seq) = "Hot"
  THEN (seq % SlotCount) + SlotCount ELSE seq % SlotCount
AdversarialOp ==
  /\ Generating /\ Chunked /\ ~UuidKeys
  /\ Emit(SlotKey(sequence),
          ActionIf(sequence >= SlotCount /\ sequence % DeleteFrequency = 0),
          IF Workload = "MultiCfHotCold" THEN FamilyOf(sequence) ELSE LaneOf(sequence),
          sequence \div ChunkSize)
  /\ UNCHANGED live

\* A lane of a mixed workload deletes or overwrites a key of its own, or makes one up.
\* Mutants: both lanes draw from one pool; a deleted key stays in it.
SharedPool(lane) == live["Batch"] \cup live["Trickle"]
LiveOf(lane) == live[lane]
StaysLive(lane, key) == UNCHANGED live
Forget(lane, key) == live' = [live EXCEPT ![lane] = @ \ {key}]

MixedStep == Generating /\ UuidKeys
Deletes == sequence > ChunkSize /\ sequence % 17 = 0 /\ LiveOf(LaneOf(sequence)) # {}
Overwrites == ~Deletes /\ sequence % 7 = 0 /\ LiveOf(LaneOf(sequence)) # {}
EmitMixed(key, action) == Emit(key, action, LaneOf(sequence), sequence \div ChunkSize)

DeleteLive ==
  /\ MixedStep /\ Deletes
  /\ \E key \in LiveOf(LaneOf(sequence)) :
       /\ EmitMixed(key, "Delete")
       /\ Forget(LaneOf(sequence), key)

OverwriteLive ==
  /\ MixedStep /\ Overwrites
  /\ \E key \in LiveOf(LaneOf(sequence)) : EmitMixed(key, "Put")
  /\ UNCHANGED live

PutFresh ==
  /\ MixedStep /\ ~Deletes /\ ~Overwrites
  /\ EmitMixed(sequence, "Put")
  /\ live' = [live EXCEPT ![LaneOf(sequence)] = @ \cup {sequence}]

-----------------------------------------------------------------------------
(* Faults *)

Steps == 0..(sequence - 1)
LastOnKey(i) == \A j \in Steps : ops[j].key = ops[i].key => j <= i

FinalDurablePuts == {i \in Steps : LastOnKey(i) /\ ops[i].action = "Put" /\ i % 4 # 0}
TransactionBoundaries == {i \in Steps \ {0} : ops[i].batch # ops[i - 1].batch}
\* Mutant: a boundary at the end of the plan.
BoundariesToTheEnd == {i \in 1..sequence : i % ChunkSize = 0}
ChunkBoundaries == {i \in Steps \ {0} : i % ChunkSize = 0}

\* Where the faults of a scenario may strike.  Mutants: anywhere; only where a
\* full chunk begins.
AnyStep == Steps
FullChunks ==
  IF Chunked THEN {i \in ChunkBoundaries : i + ChunkSize < OperationCount} ELSE Steps
Candidates ==
  CASE request.scenario = "ack-kill-window" -> FinalDurablePuts
    [] Workload = "TransactionHistory" -> TransactionBoundaries
    [] Chunked -> ChunkBoundaries
    [] OTHER -> Steps

FaultsAsked == FaultCount(request.scenario, request.ops, request.concurrency)

\* No more faults than there are places for them.
PlaceFaults ==
  /\ ~Generating /\ ~done
  /\ \E at \in kSubset(Min({FaultsAsked, Cardinality(Candidates)}), Candidates) :
       faults' \in [at -> FaultCatalog(request.scenario)]
  /\ done' = TRUE
  /\ UNCHANGED <<request, offset, sequence, ops, live>>

Next ==
  \/ PointwiseOp \/ TransactionOp \/ AdversarialOp
  \/ DeleteLive \/ OverwriteLive \/ PutFresh
  \/ PlaceFaults

Spec == Init /\ [][Next]_vars

-----------------------------------------------------------------------------
(* What the plan is to the run *)

\* apply_fault: the run tells no more of the classes apart.
BoundaryOf(class) ==
  CASE class \in {"ProcessKill", "AckBeforeReportCrash"} -> class
    [] class \in {"ExactWalPathFault", "ManifestCheckpointCut", "CompactionRace",
                  "FlushCompactionBarrierFault", "LeaseRenewalCut"} -> "Failpoint"
    [] OTHER -> "ForcedReopen"

Generated == INSTANCE WorkloadPlan WITH
  NumOps  <- sequence,
  Plan    <- ops,
  Kind    <- Workload,
  FaultAt <- [i \in DOMAIN faults |-> BoundaryOf(faults[i])]

TypeOK ==
  /\ request \in Requests
  /\ offset \in 0..14
  /\ sequence \in 0..OperationCount
  /\ ops \in [Steps -> Generated!Op]
  /\ live \in [Lanes -> SUBSET Steps]
  /\ DOMAIN faults \subseteq Steps
  /\ \A i \in DOMAIN faults : faults[i] \in FaultCatalog(request.scenario)
  /\ done \in BOOLEAN

\* Safety: whatever the scenario, scale and seed, the plan is one the runner can run:
\* its batches are contiguous, and each fault is on a step where the worker looks at
\* the trigger of its class: a final put for the acknowledgement cut, the first step
\* of a later chunk in a chunked workload.
GeneratedPlanIsWellFormed == done => Generated!WellFormed

\* Safety: the worker accepts every chunk of every plan, the partial one at the end
\* included: a mixed chunk has both its lanes, and a hot and cold chunk has a cold
\* key for its readers (worker.rs refuses the one and panics on the other).
ChunksAreExecutable ==
  done => \A i \in Steps : Generated!ChunkStart(i) =>
            Generated!Acceptable(i) /\ Generated!Readable(i)

\* Safety: the plan has all the faults its scenario asks for.  from_seed drops what
\* finds no place, and the run would pass on fewer faults than it reports under.
EveryFaultPlaced == done => Cardinality(DOMAIN faults) = FaultsAsked

\* Safety: lanes of a mixed chunk run concurrently, so whatever the seed draws they
\* write different keys; the state a key ends in would depend on the schedule.
LanesNeverMeet ==
  Chunked => \A i, j \in Steps :
    ops[i].batch = ops[j].batch /\ ops[i].lane # ops[j].lane => ops[i].key # ops[j].key

\* Safety: the keys a lane may delete or overwrite are those that its operations so
\* far leave in the database: a delete removes something, and is not repeated.
LiveIsWhatSurvives ==
  UuidKeys => \A lane \in Lanes :
    live[lane] = {ops[i].key : i \in {j \in Steps : /\ ops[j].lane = lane
                                                   /\ LastOnKey(j)
                                                   /\ ops[j].action = "Put"}}
=============================================================================
