------------------------ MODULE PlanGenerationProofs ------------------------
(***************************************************************************)
(* What the plans are, for every scenario, scale and draw: well-formed,    *)
(* executable, complete in their faults, and with lanes that never meet.   *)
(*                                                                         *)
(* Two arguments, for two kinds of keys.  Where keys are made up, a key is *)
(* numbered by the operation that made it up, and whatever a lane draws    *)
(* later was made up in that lane.  Where keys are slots, a chunk is half  *)
(* the length of a round of slots, so it meets no slot twice.  Chunks are  *)
(* multiples of their size, the last one cut short; where that leaves too  *)
(* little room, for the lanes or for the faults, is a matter of arithmetic *)
(***************************************************************************)
EXTENDS PlanGeneration, FiniteSetTheorems, TLAPS

\* Division with remainder.
LEMMA Euclid ==
  ASSUME NEW n \in Nat, NEW d \in Nat, d > 0
  PROVE  /\ n \div d \in Nat /\ n % d \in Nat
         /\ n % d < d
         /\ n = d * (n \div d) + (n % d)
  BY SMT

\* Multiples of d that are less than d apart are equal.
LEMMA NearMultiples ==
  ASSUME NEW p \in Nat, NEW q \in Nat, NEW d \in Nat, p < q
  PROVE  d * p + d <= d * q
<1>1. PICK k \in Nat : q = p + 1 + k
  <2>1. q - p - 1 \in Nat /\ q = p + 1 + (q - p - 1)
    OBVIOUS
  <2> QED
    BY <2>1
<1>2. d * q = d * p + d + d * k
  BY <1>1, SMT
<1>3. d * k \in Nat
  BY <1>1, SMT
<1>4. d * p \in Nat
  BY SMT
<1> QED
  BY <1>2, <1>3, <1>4

\* A chunk meets no slot twice: a round of slots is two chunks.
LEMMA ChunkMeetsSlotOnce ==
  ASSUME NEW i \in Nat, NEW j \in Nat, NEW c \in Nat, c > 0,
         i \div c = j \div c, i # j
  PROVE  i % (c * 2) # j % (c * 2)
<1> DEFINE d == c * 2
<1> DEFINE Same(x, y) == x % d = y % d /\ x \div c = y \div c
<1>d. d \in Nat /\ d > 0 /\ d = c + c
  BY SMT
<1>1. ASSUME NEW x \in Nat, NEW y \in Nat, Same(x, y), x \div d < y \div d
      PROVE  FALSE
  <2>1. x = d * (x \div d) + (x % d) /\ y = d * (y \div d) + (y % d)
    BY <1>d, Euclid
  <2>2. d * (x \div d) + d <= d * (y \div d)
    <3>1. x \div d \in Nat /\ y \div d \in Nat
      BY <1>d, Euclid
    <3> HIDE DEF d
    <3> QED
      BY <3>1, <1>d, <1>1, NearMultiples
  <2>3. x = c * (x \div c) + (x % c) /\ y = c * (y \div c) + (y % c)
    BY Euclid
  <2>4. x % c < c /\ y % c < c /\ x % c \in Nat /\ y % c \in Nat
    BY Euclid
  <2>5. c * (x \div c) = c * (y \div c) /\ c * (x \div c) \in Nat
    <3>1. x \div c \in Nat
      BY Euclid
    <3> QED
      BY <3>1, <1>1, SMT
  <2>6. d * (x \div d) \in Nat /\ d * (y \div d) \in Nat /\ x % d \in Nat
    <3>1. x \div d \in Nat /\ y \div d \in Nat /\ x % d \in Nat
      BY <1>d, Euclid
    <3> HIDE DEF d
    <3> QED
      BY <3>1, <1>d, SMT
  <2>7. y >= x + d
    <3> HIDE DEF d
    <3> QED
      BY <2>1, <2>2, <2>6, <1>1, <1>d
  <2>8. y < x + c
    BY <2>3, <2>4, <2>5
  <2> HIDE DEF d
  <2> QED
    BY <2>7, <2>8, <1>d
<1>2. ASSUME i % d = j % d PROVE FALSE
  <2>1. i \div d \in Nat /\ j \div d \in Nat
    BY <1>d, Euclid
  <2>2. ~(i \div d < j \div d) /\ ~(j \div d < i \div d)
    BY <1>1, <1>2
  <2>3. i \div d = j \div d
    BY <2>1, <2>2
  <2>4. i = d * (i \div d) + (i % d) /\ j = d * (j \div d) + (j % d)
    BY <1>d, Euclid
  <2> HIDE DEF d
  <2> QED
    BY <2>3, <2>4, <1>2
<1> QED
  BY <1>2

-----------------------------------------------------------------------------
(* The keys of the lanes *)

Below == 0..(sequence - 1)

\* A key that was made up tells the lane that made it up.
MadeUp(key, lane) == key \in Below /\ LaneOf(key) = lane

LaneInv ==
  /\ request \in Requests
  /\ sequence \in Nat
  /\ UuidKeys => \A i \in Below : MadeUp(ops[i].key, ops[i].lane)
  /\ UuidKeys => \A lane \in Lanes : \A key \in live[lane] : MadeUp(key, lane)
  /\ Chunked /\ ~UuidKeys => \A i \in Below :
       /\ ops[i].key = SlotKey(i)
       /\ ops[i].batch = i \div ChunkSize
       /\ Workload = "MultiCfHotCold" => ops[i].lane = FamilyOf(i)

LEMMA InitLanes == Init => LaneInv
  BY DEF Init, LaneInv, Below, MadeUp, Lanes

\* What one operation adds: a key of its lane, or the slot of its turn.
LEMMA EmitKeepsLanes ==
  ASSUME LaneInv,
         NEW key, NEW action, NEW lane, NEW batch,
         Emit(key, action, lane, batch),
         UuidKeys => /\ key \in 0..sequence /\ LaneOf(key) = lane
                     /\ \A l \in Lanes : \A k \in live'[l] :
                          k \in 0..sequence /\ LaneOf(k) = l,
         Chunked /\ ~UuidKeys =>
           /\ key = SlotKey(sequence)
           /\ batch = sequence \div ChunkSize
           /\ Workload = "MultiCfHotCold" => lane = FamilyOf(sequence)
  PROVE  LaneInv'
<1>1. /\ request' = request /\ sequence' = sequence + 1 /\ sequence \in Nat
      /\ Below' = 0..sequence
      /\ \A i \in Below : i \in Below' /\ ops'[i] = ops[i]
      /\ \A i \in Below' : i \in Below \/ i = sequence
      /\ sequence \in Below'
      /\ ops'[sequence] = [key |-> key, action |-> action, lane |-> lane, batch |-> batch]
  BY DEF Emit, LaneInv, Below
<1>2. /\ Workload' = Workload /\ UuidKeys' = UuidKeys /\ Chunked' = Chunked
      /\ ChunkSize' = ChunkSize
      /\ \A k : LaneOf(k)' = LaneOf(k)
      /\ \A k : SlotKey(k)' = SlotKey(k)
  BY <1>1 DEF Workload, UuidKeys, Chunked, ChunkSize, LaneOf, BatchWidth, BatchLength,
              BatchStart, OperationCount, SlotKey, SlotCount
<1>3. UuidKeys => \A i \in Below' : MadeUp(ops[i].key, ops[i].lane)'
  <2> SUFFICES ASSUME UuidKeys, NEW i \in Below'
               PROVE  ops'[i].key \in Below' /\ LaneOf(ops'[i].key) = ops'[i].lane
    BY <1>2 DEF MadeUp
  <2>1. CASE i \in Below
    BY <2>1, <1>1 DEF LaneInv, MadeUp
  <2>2. CASE i = sequence
    BY <2>2, <1>1
  <2> QED
    BY <2>1, <2>2, <1>1
<1>4. UuidKeys => \A l \in Lanes : \A k \in live'[l] : MadeUp(k, l)'
  BY <1>1, <1>2 DEF MadeUp
<1>5. Chunked /\ ~UuidKeys => \A i \in Below' :
        /\ ops'[i].key = SlotKey(i)
        /\ ops'[i].batch = i \div ChunkSize
        /\ Workload = "MultiCfHotCold" => ops'[i].lane = FamilyOf(i)
  <2> SUFFICES ASSUME Chunked, ~UuidKeys, NEW i \in Below'
               PROVE  /\ ops'[i].key = SlotKey(i)
                      /\ ops'[i].batch = i \div ChunkSize
                      /\ Workload = "MultiCfHotCold" => ops'[i].lane = FamilyOf(i)
    OBVIOUS
  <2>1. CASE i \in Below
    BY <2>1, <1>1 DEF LaneInv
  <2>2. CASE i = sequence
    BY <2>2, <1>1
  <2> QED
    BY <2>1, <2>2, <1>1
<1> QED
  BY <1>1, <1>2, <1>3, <1>4, <1>5 DEF LaneInv, FamilyOf

LEMMA NextKeepsLanes == LaneInv /\ [Next]_vars => LaneInv'
<1> SUFFICES ASSUME LaneInv, [Next]_vars PROVE LaneInv'
  OBVIOUS
<1>s. sequence \in Nat /\ sequence \in 0..sequence /\ \A k \in Below : k \in 0..sequence
  BY DEF LaneInv, Below
<1>l. UuidKeys => \A l \in Lanes : \A k \in live[l] : k \in 0..sequence /\ LaneOf(k) = l
  BY <1>s DEF LaneInv, MadeUp
<1>n. LaneOf(sequence) \in Lanes
  BY DEF LaneOf, Lanes
<1>1. CASE PointwiseOp
  <2>1. Workload = "Pointwise" /\ ~UuidKeys /\ ~Chunked
    BY <1>1 DEF PointwiseOp, Workload, UuidKeys, Chunked, WorkloadOf
  <2> QED
    BY <1>1, <2>1, EmitKeepsLanes DEF PointwiseOp
<1>2. CASE TransactionOp
  <2>1. ~UuidKeys /\ ~Chunked
    BY <1>2 DEF TransactionOp, Workload, UuidKeys, Chunked, WorkloadOf
  <2> QED
    BY <1>2, <2>1, EmitKeepsLanes DEF TransactionOp
<1>3. CASE AdversarialOp
  BY <1>3, EmitKeepsLanes DEF AdversarialOp
<1>4. CASE DeleteLive
  <2>1. PICK key \in live[LaneOf(sequence)] :
          /\ EmitMixed(key, "Delete")
          /\ Forget(LaneOf(sequence), key)
    BY <1>4 DEF DeleteLive, LiveOf
  <2>2. UuidKeys
    BY <1>4 DEF DeleteLive, MixedStep
  <2>3. \A l \in Lanes : \A k \in live'[l] : k \in 0..sequence /\ LaneOf(k) = l
    BY <2>1, <2>2, <1>l DEF Forget
  <2> QED
    BY <2>1, <2>2, <2>3, <1>l, <1>n, EmitKeepsLanes DEF EmitMixed
<1>5. CASE OverwriteLive
  <2>1. PICK key \in live[LaneOf(sequence)] : EmitMixed(key, "Put")
    BY <1>5 DEF OverwriteLive, LiveOf
  <2>2. UuidKeys /\ live' = live
    BY <1>5 DEF OverwriteLive, MixedStep
  <2> QED
    BY <2>1, <2>2, <1>l, <1>n, EmitKeepsLanes DEF EmitMixed
<1>6. CASE PutFresh
  <2>1. UuidKeys /\ EmitMixed(sequence, "Put")
    BY <1>6 DEF PutFresh, MixedStep
  <2>2. live' = [live EXCEPT ![LaneOf(sequence)] = @ \cup {sequence}]
    BY <1>6 DEF PutFresh
  <2>3. \A l \in Lanes : \A k \in live'[l] : k \in 0..sequence /\ LaneOf(k) = l
    BY <2>1, <2>2, <1>l, <1>s
  <2> QED
    BY <2>1, <2>3, <1>s, EmitKeepsLanes DEF EmitMixed
<1>7. CASE UNCHANGED <<request, sequence, ops, live>>
  BY <1>7 DEF LaneInv, Below, MadeUp, UuidKeys, Chunked, Workload, LaneOf, BatchWidth,
              BatchLength, BatchStart, OperationCount, ChunkSize, SlotKey, SlotCount,
              FamilyOf
<1> QED
  BY <1>1, <1>2, <1>3, <1>4, <1>5, <1>6, <1>7 DEF Next, PlaceFaults, vars

LEMMA LaneInvIsEnough == LaneInv => LanesNeverMeet
<1> SUFFICES ASSUME LaneInv, Chunked, NEW i \in Steps, NEW j \in Steps,
                    ops[i].batch = ops[j].batch, ops[i].lane # ops[j].lane
             PROVE  ops[i].key # ops[j].key
  BY DEF LanesNeverMeet
<1>1. i \in Below /\ j \in Below /\ i \in Nat /\ j \in Nat
  BY DEF Steps, Below, LaneInv
<1>2. CASE UuidKeys
  BY <1>1, <1>2 DEF LaneInv, MadeUp
<1>3. CASE ~UuidKeys
  <2>1. /\ ops[i].key = SlotKey(i) /\ ops[j].key = SlotKey(j)
        /\ i \div ChunkSize = j \div ChunkSize
        /\ Workload = "MultiCfHotCold" => FamilyOf(i) # FamilyOf(j)
    BY <1>1, <1>3 DEF LaneInv
  <2>2. ChunkSize \in Nat /\ ChunkSize > 0
    BY GenerationAssumption, SMT DEF LaneInv, ChunkSize
  <2>3. CASE Workload # "MultiCfHotCold"
    BY <1>1, <2>1, <2>2, <2>3, ChunkMeetsSlotOnce DEF SlotKey, SlotCount
  <2>4. CASE Workload = "MultiCfHotCold"
    <3>1. SlotCount \in Nat /\ SlotCount > 0
      BY <2>2 DEF SlotCount
    <3>2. /\ i % SlotCount \in Nat /\ i % SlotCount < SlotCount
          /\ j % SlotCount \in Nat /\ j % SlotCount < SlotCount
      BY <1>1, <3>1, Euclid
    <3> QED
      BY <2>1, <2>4, <3>1, <3>2 DEF SlotKey, FamilyOf
  <2> QED
    BY <2>3, <2>4
<1> QED
  BY <1>2, <1>3

\* The lanes of a chunk write different keys, in every plan of every scenario at any
\* scale and seed: what uuid_compaction and the adversarial workloads of worker.rs
\* leave in the database does not depend on how their two threads interleave.
THEOREM LanesNeverMeetTheorem == Spec => []LanesNeverMeet
  BY InitLanes, NextKeepsLanes, LaneInvIsEnough, PTL DEF Spec

-----------------------------------------------------------------------------
(* Partial chunks *)

\* Euclid's remainder is the only one.
LEMMA EuclidUnique ==
  ASSUME NEW d \in Nat, NEW q \in Nat, NEW r \in Nat, r < d
  PROVE  (d * q + r) \div d = q /\ (d * q + r) % d = r
<1> DEFINE n == d * q + r
<1>1. n \in Nat /\ d > 0 /\ d * q \in Nat
  BY SMT
<1>2. /\ n \div d \in Nat /\ n % d \in Nat /\ n % d < d
      /\ n = d * (n \div d) + (n % d)
  BY <1>1, Euclid
<1>3. d * (n \div d) \in Nat
  BY <1>2, SMT
<1>4. ~(q < n \div d)
  <2>1. SUFFICES ASSUME q < n \div d PROVE FALSE
    OBVIOUS
  <2>2. d * q + d <= d * (n \div d)
    BY <2>1, <1>2, NearMultiples
  <2> QED
    BY <2>2, <1>1, <1>2, <1>3
<1>5. ~(n \div d < q)
  <2>1. SUFFICES ASSUME n \div d < q PROVE FALSE
    OBVIOUS
  <2>2. d * (n \div d) + d <= d * q
    BY <2>1, <1>2, NearMultiples
  <2> QED
    BY <2>2, <1>1, <1>2, <1>3
<1>6. n \div d = q
  BY <1>2, <1>4, <1>5
<1> HIDE DEF n
<1>7. n % d = r
  BY <1>1, <1>2, <1>6 DEF n
<1> QED
  BY <1>6, <1>7 DEF n

\* A chunk is a whole number of units long, so five operations at the least, and the
\* batch lane takes neither none nor all of them.
LEMMA RoomForBothLanes ==
  ASSUME request \in Requests, Chunked, NEW seq \in 0..(OperationCount - 1)
  PROVE  /\ BatchLength(seq) \in Nat /\ BatchLength(seq) >= 5
         /\ BatchWidth(seq) \in Nat /\ 0 < BatchWidth(seq)
         /\ BatchWidth(seq) < BatchLength(seq)
<1> DEFINE n == request.ops
           c == request.concurrency
           k == ChunkFactor \div OpsFactor
           q == seq \div ChunkSize
           m == n - q * (c * k)
<1>1. /\ n \in Nat /\ n > 0 /\ c \in Nat /\ c > 0
      /\ OpsFactor \in Nat /\ OpsFactor >= 5 /\ ChunkFactor \in Nat /\ ChunkFactor > 0
      /\ OperationCount = n * OpsFactor /\ ChunkSize = c * ChunkFactor
  BY GenerationAssumption DEF OperationCount, ChunkSize
<1>2. k \in Nat /\ ChunkFactor = OpsFactor * k
  <2>1. ChunkFactor % OpsFactor = 0
    BY GenerationAssumption
  <2>2. /\ ChunkFactor \div OpsFactor \in Nat
        /\ ChunkFactor = OpsFactor * (ChunkFactor \div OpsFactor) + (ChunkFactor % OpsFactor)
    BY <1>1, Euclid
  <2>3. OpsFactor * k \in Nat
    BY <1>1, <2>2, SMT
  <2> QED
    BY <2>1, <2>2, <2>3
<1> HIDE DEF n, c, k
<1>3. ChunkSize \in Nat /\ ChunkSize > 0
  BY <1>1, SMT
<1>4. OperationCount \in Nat /\ seq \in Nat /\ seq < OperationCount
  <2>1. OperationCount \in Nat
    BY <1>1, SMT
  <2> QED
    BY <2>1
<1>5. /\ q \in Nat /\ seq % ChunkSize \in Nat
      /\ seq = ChunkSize * q + (seq % ChunkSize)
  BY <1>3, <1>4, Euclid
<1>6. BatchStart(seq) = q * ChunkSize /\ BatchStart(seq) \in Nat /\ BatchStart(seq) <= seq
  <2>1. q * ChunkSize = ChunkSize * q /\ ChunkSize * q \in Nat
    BY <1>3, <1>5, SMT
  <2> QED
    BY <2>1, <1>4, <1>5 DEF BatchStart
<1>7. OperationCount - BatchStart(seq) = OpsFactor * m /\ m \in Int
  <2> HIDE DEF q
  <2>1. q * ChunkSize = OpsFactor * (q * (c * k))
    BY <1>1, <1>2, <1>5, SMT
  <2>2. q * (c * k) \in Nat
    BY <1>1, <1>2, <1>5, SMT
  <2> DEFINE w == q * (c * k)
  <2>3. OpsFactor * (n - w) = OpsFactor * n - OpsFactor * w /\ n * OpsFactor = OpsFactor * n
    <3> HIDE DEF w
    <3> QED
      BY <1>1, <2>2, SMT DEF w
  <2> QED
    BY <1>1, <1>6, <2>1, <2>2, <2>3
<1>8. OpsFactor * m >= OpsFactor
  <2>1. OpsFactor * m > 0
    BY <1>4, <1>6, <1>7
  <2> HIDE DEF m
  <2>2. m >= 1
    BY <1>1, <1>7, <2>1, SMT
  <2> QED
    BY <1>1, <1>7, <2>2, SMT
<1>9. ChunkSize >= OpsFactor
  <2>1. k >= 1
    BY <1>1, <1>2, SMT
  <2>2. ChunkFactor >= OpsFactor
    BY <1>1, <1>2, <2>1, SMT
  <2> QED
    BY <1>1, <2>2, SMT
<1>10. BatchLength(seq) \in Nat /\ BatchLength(seq) >= 5
  <2> HIDE DEF m
  <2> QED
    BY <1>1, <1>3, <1>4, <1>6, <1>7, <1>8, <1>9 DEF BatchLength
<1>11. ASSUME NEW b \in Nat, b >= 5
       PROVE  (b * 3 + 3) \div 4 \in Nat /\ 0 < (b * 3 + 3) \div 4 /\ (b * 3 + 3) \div 4 < b
  BY <1>11, SMT
<1> QED
  BY <1>10, <1>11 DEF BatchWidth

-----------------------------------------------------------------------------
(* The chunks of a finished plan *)

ShapeInv ==
  /\ request \in Requests
  /\ sequence \in 0..OperationCount
  /\ done => sequence = OperationCount
  /\ Chunked => \A i \in Below :
       /\ ops[i].batch = i \div ChunkSize
       /\ Workload = "Mixed" => ops[i].lane = LaneOf(i)
       /\ Workload = "MultiCfHotCold" => ops[i].lane = FamilyOf(i)

LEMMA CountIsNatural ==
  ASSUME request \in Requests PROVE OperationCount \in Nat /\ ChunkSize \in Nat \ {0}
<1>1. request.ops \in Nat /\ request.concurrency \in Nat \ {0} /\ OpsFactor \in Nat
      /\ ChunkFactor \in Nat \ {0}
  BY GenerationAssumption
<1> QED
  BY <1>1, SMT DEF OperationCount, ChunkSize

LEMMA InitShape == Init => ShapeInv
  BY CountIsNatural DEF Init, ShapeInv, Below

LEMMA EmitKeepsShape ==
  ASSUME ShapeInv, Generating, ~done,
         NEW key, NEW action, NEW lane, NEW batch,
         Emit(key, action, lane, batch),
         Chunked => /\ batch = sequence \div ChunkSize
                    /\ Workload = "Mixed" => lane = LaneOf(sequence)
                    /\ Workload = "MultiCfHotCold" => lane = FamilyOf(sequence)
  PROVE  ShapeInv'
<1>1. /\ request' = request /\ done' = done /\ sequence' = sequence + 1 /\ sequence \in Nat
      /\ OperationCount \in Nat /\ sequence < OperationCount
      /\ Below' = 0..sequence
      /\ \A i \in Below : i \in Below' /\ ops'[i] = ops[i]
      /\ \A i \in Below' : i \in Below \/ i = sequence
      /\ ops'[sequence] = [key |-> key, action |-> action, lane |-> lane, batch |-> batch]
  BY CountIsNatural DEF Emit, ShapeInv, Below, Generating
<1>2. /\ Workload' = Workload /\ Chunked' = Chunked /\ ChunkSize' = ChunkSize
      /\ OperationCount' = OperationCount
      /\ \A k : LaneOf(k)' = LaneOf(k)
  BY <1>1 DEF Workload, Chunked, ChunkSize, LaneOf, BatchWidth, BatchLength,
              BatchStart, OperationCount
<1>3. ASSUME Chunked, NEW i \in Below'
      PROVE  /\ ops'[i].batch = i \div ChunkSize
             /\ Workload = "Mixed" => ops'[i].lane = LaneOf(i)
             /\ Workload = "MultiCfHotCold" => ops'[i].lane = FamilyOf(i)
  <2>1. CASE i \in Below
    BY <2>1, <1>1, <1>3 DEF ShapeInv
  <2>2. CASE i = sequence
    BY <2>2, <1>1, <1>3
  <2> QED
    BY <2>1, <2>2, <1>1
<1>4. sequence' \in 0..OperationCount
  BY <1>1
<1> QED
  BY <1>1, <1>2, <1>3, <1>4 DEF ShapeInv, FamilyOf

LEMMA NextKeepsShape == ShapeInv /\ [Next]_vars => ShapeInv'
<1> SUFFICES ASSUME ShapeInv, [Next]_vars PROVE ShapeInv'
  OBVIOUS
<1>d. Generating => ~done
  BY CountIsNatural DEF ShapeInv, Generating
<1>w. UuidKeys => Workload = "Mixed"
  BY DEF UuidKeys, Workload, WorkloadOf
<1>1. CASE PointwiseOp
  <2>1. ~Chunked
    BY <1>1 DEF PointwiseOp, Chunked
  <2> QED
    BY <1>1, <1>d, <2>1, EmitKeepsShape DEF PointwiseOp
<1>2. CASE TransactionOp
  <2>1. ~Chunked
    BY <1>2 DEF TransactionOp, Chunked
  <2> QED
    BY <1>2, <1>d, <2>1, EmitKeepsShape DEF TransactionOp
<1>3. CASE AdversarialOp
  BY <1>3, <1>d, EmitKeepsShape DEF AdversarialOp
<1>4. CASE DeleteLive \/ OverwriteLive \/ PutFresh
  <2>1. Generating /\ UuidKeys /\ \E key, action : EmitMixed(key, action)
    BY <1>4 DEF DeleteLive, OverwriteLive, PutFresh, MixedStep
  <2> QED
    BY <2>1, <1>d, <1>w, EmitKeepsShape DEF EmitMixed
<1>5. CASE PlaceFaults \/ UNCHANGED vars
  <2>1. UNCHANGED <<request, sequence, ops>> /\ (done' => sequence = OperationCount)
    BY <1>5, CountIsNatural DEF PlaceFaults, vars, ShapeInv, Generating
  <2> QED
    BY <2>1 DEF ShapeInv, Below, Chunked, Workload, LaneOf, BatchWidth, BatchLength,
                BatchStart, OperationCount, ChunkSize, FamilyOf
<1> QED
  BY <1>1, <1>2, <1>3, <1>4, <1>5 DEF Next

\* Where the worker finds a chunk to begin, one begins.
LEMMA ChunkStartIsMultiple ==
  ASSUME ShapeInv, Chunked, NEW i \in Steps, Generated!ChunkStart(i)
  PROVE  i % ChunkSize = 0 /\ i = ChunkSize * (i \div ChunkSize)
<1> DEFINE C == ChunkSize
           q == i \div C
           r == i % C
<1>1. C \in Nat /\ C > 0 /\ i \in Nat /\ i < sequence /\ sequence \in Nat
  BY CountIsNatural DEF ShapeInv, Steps
<1>2. q \in Nat /\ r \in Nat /\ r < C /\ i = C * q + r
  BY <1>1, Euclid
<1>3. CASE i = 0
  <2>1. i = C * 0 + 0
    BY <1>1, <1>3, SMT
  <2>2. q = 0 /\ r = 0
    BY <1>1, <2>1, EuclidUnique
  <2> HIDE DEF C, q, r
  <2>3. i = C * q
    BY <1>1, <1>3, <2>2, SMT
  <2> QED
    BY <2>2, <2>3 DEF C, q, r
<1>4. CASE i # 0
  <2>1. ops[i].batch # ops[i - 1].batch
    BY <1>4 DEF Generated!ChunkStart, Chunked
  <2>2. q # (i - 1) \div C
    BY <1>1, <1>4, <2>1 DEF ShapeInv, Below
  <2>3. ASSUME r # 0 PROVE FALSE
    <3>1. C * q \in Nat
      BY <1>1, <1>2, SMT
    <3> HIDE DEF C, q, r
    <3>2. i - 1 = C * q + (r - 1) /\ r - 1 \in Nat /\ r - 1 < C
      BY <1>1, <1>2, <2>3, <3>1
    <3>3. (C * q + (r - 1)) \div C = q
      BY <1>1, <1>2, <3>2, EuclidUnique
    <3> QED
      BY <2>2, <3>2, <3>3
  <2>4. C * q \in Nat
    BY <1>1, <1>2, SMT
  <2> HIDE DEF C, q, r
  <2>5. r = 0 /\ i = C * q
    BY <2>3, <2>4, <1>2
  <2> QED
    BY <2>5 DEF C, q, r
<1> QED
  BY <1>3, <1>4

\* The chunk the worker finds there is the one that was generated.
LEMMA ChunkIsWhole ==
  ASSUME ShapeInv, done, Chunked, NEW i \in Steps, Generated!ChunkStart(i)
  PROVE  Generated!ChunkEnd(i) = i + BatchLength(i)
<1> DEFINE C == ChunkSize
           q == i \div C
           e == i + BatchLength(i)
           ends == {j \in (i + 1)..sequence : j = sequence \/ ops[j].batch # ops[i].batch}
<1>1. C \in Nat /\ C > 0 /\ i \in Nat /\ i < sequence /\ sequence \in Nat
      /\ sequence = OperationCount /\ i \in Below
  BY CountIsNatural DEF ShapeInv, Steps, Below
<1>2. q \in Nat /\ i = C * q
  BY <1>1, Euclid, ChunkStartIsMultiple
<1>3. BatchStart(i) = i
  <2>1. q * C = C * q
    BY <1>1, <1>2, SMT
  <2> QED
    BY <1>2, <2>1 DEF BatchStart
<1>4. /\ BatchLength(i) = IF sequence - i < C THEN sequence - i ELSE C
      /\ e \in (i + 1)..sequence
  <2> HIDE DEF q
  <2> QED
    BY <1>1, <1>3 DEF BatchLength
<1>5. e \in ends
  <2>1. CASE e = sequence
    BY <2>1, <1>4
  <2>2. CASE e # sequence
    <3> HIDE DEF q
    <3>1. e = i + C /\ e \in Below
      BY <1>1, <1>4, <2>2 DEF Below
    <3>2. i + C = C * (q + 1) + 0
      BY <1>1, <1>2, SMT
    <3>3. e \div C = q + 1
      <4>1. (C * (q + 1) + 0) \div C = q + 1
        BY <1>1, <1>2, EuclidUnique
      <4> QED
        BY <3>1, <3>2, <4>1
    <3>4. ops[e].batch = e \div C /\ ops[i].batch = q
      BY <1>1, <3>1 DEF ShapeInv, q
    <3> QED
      BY <1>2, <1>4, <3>3, <3>4
  <2> QED
    BY <2>1, <2>2
<1>6. ASSUME NEW j \in ends PROVE e <= j
  <2>1. CASE j = sequence
    BY <1>1, <1>4, <2>1
  <2>2. CASE j # sequence
    <3>1. j \in Nat /\ j > i /\ j \in Below /\ ops[j].batch # ops[i].batch
      BY <1>1, <1>6, <2>2 DEF Below
    <3>2. j \div C # q
      BY <1>1, <3>1 DEF ShapeInv
    <3>3. ASSUME j < i + C PROVE FALSE
      <4> HIDE DEF q
      <4>1. j = C * q + (j - i) /\ j - i \in Nat /\ j - i < C
        <5>1. C * q \in Nat
          BY <1>1, <1>2, SMT
        <5> QED
          BY <1>1, <1>2, <3>1, <3>3, <5>1
      <4>2. (C * q + (j - i)) \div C = q
        BY <1>1, <1>2, <4>1, EuclidUnique
      <4> QED
        BY <3>2, <4>1, <4>2
    <3> QED
      BY <1>1, <1>4, <3>1, <3>3
  <2> QED
    BY <2>1, <2>2
<1>7. Generated!Min(ends) = e
  <2>1. \E x \in ends : \A y \in ends : x <= y
    BY <1>5, <1>6
  <2>2. ends \subseteq Int
    BY <1>1
  <2> DEFINE least == CHOOSE x \in ends : \A y \in ends : x <= y
  <2>3. least \in ends /\ \A y \in ends : least <= y
    BY <2>1
  <2>4. least <= e /\ e <= least /\ least \in Int /\ e \in Int
    BY <2>2, <2>3, <1>5, <1>6
  <2> HIDE DEF e, ends, least
  <2>5. least = e
    BY <2>4
  <2> QED
    BY <2>5 DEF Generated!Min, least
<1> QED
  BY <1>7 DEF Generated!ChunkEnd, Chunked

LEMMA ShapeIsExecutable == ShapeInv => ChunksAreExecutable
<1> SUFFICES ASSUME ShapeInv, done, NEW i \in Steps, Generated!ChunkStart(i)
             PROVE  Generated!Acceptable(i) /\ Generated!Readable(i)
  BY DEF ChunksAreExecutable
<1>1. CASE ~Chunked
  BY <1>1 DEF Chunked, Generated!Acceptable, Generated!Readable
<1>2. CASE Chunked
  <2> DEFINE len == BatchLength(i)
  <2>1. /\ i \in Nat /\ i < sequence /\ sequence = OperationCount
        /\ i \in 0..(OperationCount - 1) /\ ChunkSize \in Nat /\ ChunkSize > 0
        /\ sequence \in Nat
    BY CountIsNatural DEF ShapeInv, Steps
  <2>2. len \in Nat /\ len >= 5
        /\ BatchWidth(i) \in Nat /\ 0 < BatchWidth(i) /\ BatchWidth(i) < len
    BY <2>1, <1>2, RoomForBothLanes DEF ShapeInv
  <2>3. i % ChunkSize = 0 /\ i = ChunkSize * (i \div ChunkSize) /\ i \div ChunkSize \in Nat
    BY <2>1, <1>2, ChunkStartIsMultiple, Euclid
  <2>4. len <= ChunkSize /\ i + len <= sequence
    <3>1. BatchStart(i) = i
      <4>1. (i \div ChunkSize) * ChunkSize = ChunkSize * (i \div ChunkSize)
        BY <2>1, <2>3, SMT
      <4> QED
        BY <2>3, <4>1 DEF BatchStart
    <3>2. len = IF sequence - i < ChunkSize THEN sequence - i ELSE ChunkSize
      BY <2>1, <3>1 DEF BatchLength
    <3> HIDE DEF len
    <3> QED
      BY <2>1, <3>2
  <2>5. ASSUME NEW n \in Nat, n < len
        PROVE  /\ i + n \in Generated!Chunk(i)
               /\ i + n \in Below
               /\ (i + n) \div ChunkSize = i \div ChunkSize
               /\ (i + n) % ChunkSize = n
    <3>1. i + n \in i..(i + len - 1) /\ i + n \in Below /\ n < ChunkSize
      <4> HIDE DEF len
      <4> QED
        BY <2>1, <2>2, <2>4, <2>5 DEF Below
    <3>2. Generated!Chunk(i) = i..(i + len - 1)
      <4>1. Generated!ChunkEnd(i) = i + len
        BY <1>2, ChunkIsWhole
      <4> HIDE DEF len
      <4>2. Generated!ChunkEnd(i) - 1 = i + (len - 1)
        BY <2>1, <2>2, <4>1
      <4> QED
        BY <4>2 DEF Generated!Chunk
    <3> QED
      BY <2>1, <2>3, <3>1, <3>2, EuclidUnique
  <2>6. CASE Workload = "Mixed"
    <3>1. ASSUME NEW n \in Nat, n < len
          PROVE  ops[i + n].lane = IF n < BatchWidth(i) THEN "Batch" ELSE "Trickle"
      <4>1. ops[i + n].lane = LaneOf(i + n)
        BY <1>2, <2>5, <2>6, <3>1 DEF ShapeInv
      <4>2. BatchWidth(i + n) = BatchWidth(i) /\ (i + n) % ChunkSize = n
        BY <2>5, <3>1 DEF BatchWidth, BatchLength, BatchStart
      <4> QED
        BY <4>1, <4>2 DEF LaneOf
    <3>2. ops[i + 0].lane = "Batch" /\ i + 0 \in Generated!Chunk(i)
      BY <2>2, <2>5, <3>1
    <3>3. ops[i + (len - 1)].lane = "Trickle" /\ i + (len - 1) \in Generated!Chunk(i)
      <4>1. len - 1 \in Nat /\ len - 1 < len /\ ~(len - 1 < BatchWidth(i))
        BY <2>2
      <4> HIDE DEF len
      <4> QED
        BY <2>5, <3>1, <4>1
    <3> QED
      BY <2>6, <3>2, <3>3 DEF Generated!Acceptable, Generated!Readable, Generated!InLane
  <2>7. CASE Workload = "MultiCfHotCold"
    <3>1. PICK n \in 0..4 : (i + n) % 5 = 0
      <4>1. \E n \in 0..4 : (i + n) % 5 = 0
        BY <2>1, SMT
      <4> QED
        BY <4>1
    <3>2. n \in Nat /\ n < len
      BY <2>2
    <3>3. ops[i + n].lane = "Cold" /\ i + n \in Generated!Chunk(i)
      BY <1>2, <2>5, <2>7, <3>1, <3>2 DEF ShapeInv, FamilyOf, ColdPeriod
    <3> QED
      BY <2>7, <3>3 DEF Generated!Acceptable, Generated!Readable, Generated!InLane
  <2>8. CASE Workload \notin {"Mixed", "MultiCfHotCold"}
    BY <2>8 DEF Generated!Acceptable, Generated!Readable
  <2> QED
    BY <2>6, <2>7, <2>8
<1> QED
  BY <1>1, <1>2

\* The worker accepts and can execute every chunk of every plan, at any scale, the
\* partial chunk at the end included (the width of mixed_lsm_operations in scenario.rs
\* against the checks of worker.rs).
THEOREM ChunksAreExecutableTheorem == Spec => []ChunksAreExecutable
  BY InitShape, NextKeepsShape, ShapeIsExecutable, PTL DEF Spec

-----------------------------------------------------------------------------
(* The types of a plan                                                      *)

\* What is drawn is a key some operation made up; what strikes, strikes where the
\* scenario has room for it.
PlanInv ==
  /\ request \in Requests
  /\ offset \in 0..14
  /\ sequence \in 0..OperationCount
  /\ ops \in [Steps -> Generated!Op]
  /\ live \in [Lanes -> SUBSET Steps]
  /\ done \in BOOLEAN
  /\ done => sequence = OperationCount
  /\ ~done => DOMAIN faults = {}
  /\ DOMAIN faults \subseteq Candidates
  /\ \A i \in DOMAIN faults : faults[i] \in FaultCatalog(request.scenario)
  /\ Workload = "Pointwise" => \A i \in Steps :
       /\ ops[i].batch = 0
       /\ ops[i].key = i % KeyCount
       /\ ops[i].action = ActionIf(i >= KeyCount /\ i % 11 = 0)
  /\ Workload = "TransactionHistory" => \A i \in Steps :
       ops[i].batch = i \div TransactionWidth

\* Sizes and the catalog depend on the request alone.
LEMMA SizesStay ==
  ASSUME UNCHANGED request
  PROVE  /\ UNCHANGED <<OperationCount, ChunkSize, SlotCount, KeyCount, Workload, Chunked,
                        UuidKeys, FaultsAsked>>
         /\ \A seq : LaneOf(seq)' = LaneOf(seq) /\ SlotKey(seq)' = SlotKey(seq)
BY DEF OperationCount, ChunkSize, SlotCount, KeyCount, Workload, Chunked, UuidKeys,
       FaultsAsked, LaneOf, BatchWidth, BatchLength, BatchStart, SlotKey, FamilyOf

LEMMA PlacesAreSteps == Candidates \subseteq Steps
BY DEF Candidates, FinalDurablePuts, TransactionBoundaries, ChunkBoundaries

LEMMA InitPlan == Init => PlanInv
<1> SUFFICES ASSUME Init PROVE PlanInv
  OBVIOUS
<1>1. request \in Requests /\ sequence = 0 /\ offset \in 0..14 /\ done = FALSE
  BY DEF Init
<1>2. OperationCount \in Nat
  BY <1>1, CountIsNatural
<1>3. Steps = {}
  BY <1>1 DEF Steps
<1>4. ops \in [Steps -> Generated!Op] /\ DOMAIN faults = {}
  BY <1>3 DEF Init, NoOps
<1>5. live \in [Lanes -> SUBSET Steps]
  BY DEF Init
<1>6. sequence \in 0..OperationCount
  BY <1>1, <1>2
<1>7. /\ DOMAIN faults \subseteq Candidates
      /\ \A i \in DOMAIN faults : faults[i] \in FaultCatalog(request.scenario)
      /\ \A i \in Steps : FALSE
  BY <1>3, <1>4
<1> QED
  BY <1>1, <1>4, <1>5, <1>6, <1>7 DEF PlanInv

LEMMA EmitKeepsPlan ==
  ASSUME PlanInv, Generating,
         NEW key \in Nat, NEW action \in {"Put", "Delete"},
         NEW lane \in {"Pointwise", "Batch", "Trickle", "Hot", "Cold"}, NEW batch \in Nat,
         Emit(key, action, lane, batch),
         live' \in [Lanes -> SUBSET (0..sequence)],
         Workload = "Pointwise" =>
           /\ batch = 0
           /\ key = sequence % KeyCount
           /\ action = ActionIf(sequence >= KeyCount /\ sequence % 11 = 0),
         Workload = "TransactionHistory" => batch = sequence \div TransactionWidth
  PROVE  PlanInv'
<1> DEFINE op == [key |-> key, action |-> action, lane |-> lane, batch |-> batch]
<1>1. /\ request' = request /\ offset' = offset /\ faults' = faults /\ done' = done
      /\ sequence' = sequence + 1 /\ sequence \in Nat /\ OperationCount \in Nat
      /\ sequence < OperationCount
      /\ Steps' = 0..sequence
      /\ \A i \in Steps : i \in Steps' /\ ops'[i] = ops[i]
      /\ \A i \in Steps' : i \in Steps \/ i = sequence
      /\ ops'[sequence] = op
  BY CountIsNatural DEF Emit, PlanInv, Steps, Generating
<1>2. ~done /\ DOMAIN faults = {}
  BY <1>1 DEF PlanInv
<1>3. op \in Generated!Op
  BY DEF Generated!Op
<1> HIDE DEF op
<1>4. ops' \in [Steps' -> Generated!Op]
  <2>1. \A i \in Steps' : ops'[i] \in Generated!Op
    BY <1>1, <1>3 DEF PlanInv
  <2>2. ops' = [i \in Steps' |-> ops'[i]]
    <3>1. ops' = [i \in 0..sequence |-> IF i = sequence THEN op ELSE ops[i]]
      BY DEF Emit, op
    <3> QED
      BY <1>1, <3>1
  <2> QED
    BY <2>1, <2>2
<1>5. sequence' \in 0..OperationCount
  BY <1>1
<1>6. /\ Workload = "Pointwise" => \A i \in Steps' :
           /\ ops'[i].batch = 0
           /\ ops'[i].key = i % KeyCount
           /\ ops'[i].action = ActionIf(i >= KeyCount /\ i % 11 = 0)
      /\ Workload = "TransactionHistory" => \A i \in Steps' :
           ops'[i].batch = i \div TransactionWidth
  BY <1>1 DEF PlanInv, op
<1> QED
  BY <1>1, <1>2, <1>4, <1>5, <1>6, SizesStay DEF PlanInv, TransactionWidth, ActionIf

\* Every key drawn or made up, and every batch, is a number.
LEMMA SizesAreNatural ==
  ASSUME request \in Requests, NEW seq \in Nat
  PROVE  /\ seq % KeyCount \in Nat
         /\ SlotKey(seq) \in Nat
         /\ seq \div ChunkSize \in Nat
         /\ seq \div TransactionWidth \in Nat
<1>1. request.concurrency \in Nat \ {0} /\ ChunkSize \in Nat \ {0}
  BY CountIsNatural, GenerationAssumption
<1>2. KeyCount \in Nat \ {0} /\ SlotCount \in Nat \ {0} /\ TransactionWidth \in Nat \ {0}
  BY <1>1, SMT DEF KeyCount, SlotCount, TransactionWidth
<1>3. seq % KeyCount \in Nat /\ seq % SlotCount \in Nat /\ seq \div ChunkSize \in Nat
      /\ seq \div TransactionWidth \in Nat
  BY <1>1, <1>2, Euclid
<1> QED
  BY <1>2, <1>3 DEF SlotKey

LEMMA NextKeepsPlan == PlanInv /\ [Next]_vars => PlanInv'
<1> SUFFICES ASSUME PlanInv, [Next]_vars PROVE PlanInv'
  OBVIOUS
<1>s. /\ sequence \in Nat /\ request \in Requests /\ sequence \in 0..sequence
      /\ \A k \in Steps : k \in Nat /\ k \in 0..sequence
      /\ \A b \in BOOLEAN : ActionIf(b) \in {"Put", "Delete"}
  <2>1. request \in Requests /\ sequence \in 0..OperationCount
    BY DEF PlanInv
  <2>2. sequence \in Nat
    BY <2>1, CountIsNatural
  <2>3. \A k \in Steps : k \in Nat /\ k \in 0..sequence
    BY <2>2 DEF Steps
  <2> QED
    BY <2>1, <2>2, <2>3 DEF ActionIf
<1>l. live \in [Lanes -> SUBSET Steps] /\ live \in [Lanes -> SUBSET (0..sequence)]
  BY <1>s DEF PlanInv
<1>n. LaneOf(sequence) \in Lanes /\ Lanes = {"Batch", "Trickle"}
  BY DEF LaneOf, Lanes
<1>z. /\ sequence % KeyCount \in Nat /\ SlotKey(sequence) \in Nat
      /\ sequence \div ChunkSize \in Nat /\ sequence \div TransactionWidth \in Nat
  BY <1>s, SizesAreNatural
<1>1. CASE PointwiseOp
  BY <1>1, <1>s, <1>l, <1>z, EmitKeepsPlan DEF PointwiseOp
<1>2. CASE TransactionOp
  <2>1. (sequence + offset) % 3 \in Nat
    <3>1. offset \in 0..14
      BY DEF PlanInv
    <3> QED
      BY <1>s, <3>1
  <2> DEFINE key == (sequence + offset) % 3
             action == ActionIf((sequence + offset) % 5 = 4)
  <2>2. /\ Generating /\ Workload = "TransactionHistory" /\ live' = live
        /\ Emit(key, action, "Batch", sequence \div TransactionWidth)
    BY <1>2 DEF TransactionOp
  <2>3. key \in Nat /\ action \in {"Put", "Delete"} /\ live' \in [Lanes -> SUBSET (0..sequence)]
    BY <1>s, <1>l, <2>1, <2>2
  <2> HIDE DEF key, action
  <2> QED
    BY <1>z, <2>2, <2>3, EmitKeepsPlan
<1>3. CASE AdversarialOp
  <2>1. FamilyOf(sequence) \in {"Hot", "Cold"}
    BY DEF FamilyOf
  <2> DEFINE lane == IF Workload = "MultiCfHotCold" THEN FamilyOf(sequence)
                     ELSE LaneOf(sequence)
             action == ActionIf(sequence >= SlotCount /\ sequence % DeleteFrequency = 0)
  <2>2. /\ Generating /\ Chunked /\ live' = live
        /\ Emit(SlotKey(sequence), action, lane, sequence \div ChunkSize)
    BY <1>3 DEF AdversarialOp
  <2>3. /\ lane \in {"Pointwise", "Batch", "Trickle", "Hot", "Cold"}
        /\ action \in {"Put", "Delete"} /\ live' \in [Lanes -> SUBSET (0..sequence)]
    BY <1>s, <1>l, <1>n, <2>1, <2>2
  <2> HIDE DEF lane, action
  <2> QED
    BY <1>z, <2>2, <2>3, EmitKeepsPlan DEF Chunked
<1>u. UuidKeys => Workload = "Mixed"
  BY DEF UuidKeys, Workload, WorkloadOf
<1>4. CASE DeleteLive
  <2>1. PICK key \in live[LaneOf(sequence)] :
          /\ EmitMixed(key, "Delete")
          /\ Forget(LaneOf(sequence), key)
    BY <1>4 DEF DeleteLive, LiveOf
  <2>2. Generating /\ Workload = "Mixed"
    BY <1>4, <1>u DEF DeleteLive, MixedStep
  <2>3. key \in Nat
    BY <1>l, <1>n, <1>s
  <2>4. live' \in [Lanes -> SUBSET (0..sequence)]
    BY <1>l, <2>1 DEF Forget
  <2> QED
    BY <2>1, <2>2, <2>3, <2>4, <1>n, <1>z, EmitKeepsPlan DEF EmitMixed
<1>5. CASE OverwriteLive
  <2>1. PICK key \in live[LaneOf(sequence)] : EmitMixed(key, "Put")
    BY <1>5 DEF OverwriteLive, LiveOf
  <2>2. Generating /\ Workload = "Mixed" /\ live' = live
    BY <1>5, <1>u DEF OverwriteLive, MixedStep
  <2>3. key \in Nat
    BY <1>l, <1>n, <1>s
  <2> QED
    BY <2>1, <2>2, <2>3, <1>l, <1>n, <1>z, EmitKeepsPlan DEF EmitMixed
<1>6. CASE PutFresh
  <2>1. Generating /\ Workload = "Mixed" /\ EmitMixed(sequence, "Put")
    BY <1>6, <1>u DEF PutFresh, MixedStep
  <2>2. live' \in [Lanes -> SUBSET (0..sequence)]
    BY <1>6, <1>l, <1>s DEF PutFresh
  <2> QED
    BY <2>1, <2>2, <1>s, <1>n, <1>z, EmitKeepsPlan DEF EmitMixed
<1>7. CASE PlaceFaults
  <2>1. PICK at \in SUBSET Candidates : faults' \in [at -> FaultCatalog(request.scenario)]
    BY <1>7 DEF PlaceFaults, kSubset
  <2>2. /\ done' = TRUE /\ ~Generating /\ UNCHANGED <<request, offset, sequence, ops, live>>
    BY <1>7 DEF PlaceFaults
  <2>3. sequence = OperationCount
    BY <2>2, CountIsNatural DEF PlanInv, Generating
  <2>4. UNCHANGED <<Steps, Candidates>>
    BY <2>2, SizesStay DEF Candidates, FinalDurablePuts, TransactionBoundaries,
            ChunkBoundaries, LastOnKey, Steps
  <2> QED
    BY <2>1, <2>2, <2>3, <2>4, SizesStay DEF PlanInv, TransactionWidth, ActionIf
<1>8. CASE UNCHANGED vars
  <2>1. UNCHANGED <<request, offset, sequence, ops, live, faults, done>>
    BY <1>8 DEF vars
  <2>2. UNCHANGED <<Steps, Candidates>>
    BY <2>1, SizesStay DEF Candidates, FinalDurablePuts, TransactionBoundaries,
            ChunkBoundaries, LastOnKey, Steps
  <2> QED
    BY <2>1, <2>2, SizesStay DEF PlanInv, TransactionWidth, ActionIf
<1> QED
  BY <1>1, <1>2, <1>3, <1>4, <1>5, <1>6, <1>7, <1>8 DEF Next

LEMMA PlanInvariant == Spec => []PlanInv
BY InitPlan, NextKeepsPlan, PTL DEF Spec

\* What Scenario::new and DeterministicPlan::from_seed make are operations on steps of
\* the plan, and faults of the scenario's catalog on some of them.
THEOREM TypeOKTheorem == Spec => []TypeOK
<1>1. PlanInv => TypeOK
  BY PlacesAreSteps DEF PlanInv, TypeOK
<1> QED
  BY <1>1, PlanInvariant, PTL

-----------------------------------------------------------------------------
(* What a lane may delete or overwrite                                      *)

\* The last operation on the key is a put of the lane.
Survives(key, lane) ==
  \E i \in Steps : /\ ops[i].key = key /\ ops[i].lane = lane
                   /\ LastOnKey(i) /\ ops[i].action = "Put"

\* An operation decides on its own key, and leaves the others to themselves.
LEMMA EmitDecides ==
  ASSUME PlanInv, LaneInv, UuidKeys,
         NEW key \in 0..sequence, NEW action, NEW lane, NEW batch,
         Emit(key, action, lane, batch), LaneOf(key) = lane,
         NEW k, NEW l
  PROVE  Survives(k, l)' <=> IF k = key THEN l = lane /\ action = "Put" ELSE Survives(k, l)
<1>1. /\ sequence \in Nat /\ sequence' = sequence + 1 /\ Steps = 0..(sequence - 1)
      /\ Steps' = 0..sequence
      /\ \A i \in Steps : i \in Steps' /\ ops'[i] = ops[i] /\ i < sequence /\ i \in Nat
      /\ \A i \in Steps' : i \in Steps \/ i = sequence
      /\ \A i \in Steps' : i <= sequence
      /\ sequence \in Steps'
      /\ ops'[sequence] = [key |-> key, action |-> action, lane |-> lane, batch |-> batch]
  BY DEF Emit, LaneInv, Steps
<1>2. /\ ops'[sequence].key = key /\ ops'[sequence].action = action
      /\ ops'[sequence].lane = lane
  BY <1>1
<1>3. PICK m : m = sequence /\ LastOnKey(m)'
  <2>1. PICK m : m = sequence
    OBVIOUS
  <2>2. LastOnKey(m)'
    BY <1>1, <2>1 DEF LastOnKey
  <2> QED
    BY <2>1, <2>2
<1>4. ASSUME NEW i \in Steps
      PROVE  LastOnKey(i)' <=> LastOnKey(i) /\ ops[i].key # key
  <2>1. ASSUME LastOnKey(i)' PROVE LastOnKey(i) /\ ops[i].key # key
    <3>1. \A j \in Steps' : ops'[j].key = ops'[i].key => j <= i
      BY <2>1 DEF LastOnKey
    <3>2. ops[i].key # key
      BY <1>1, <1>2, <3>1
    <3>3. \A j \in Steps : ops[j].key = ops[i].key => j <= i
      BY <1>1, <3>1
    <3> QED
      BY <3>2, <3>3 DEF LastOnKey
  <2>2. ASSUME LastOnKey(i), ops[i].key # key PROVE LastOnKey(i)'
    <3>1. \A j \in Steps : ops[j].key = ops[i].key => j <= i
      BY <2>2 DEF LastOnKey
    <3>2. \A j \in Steps' : ops'[j].key = ops'[i].key => j <= i
      BY <1>1, <1>2, <2>2, <3>1
    <3> QED
      BY <3>2 DEF LastOnKey
  <2> QED
    BY <2>1, <2>2
<1>5. CASE k = key
  <2>1. \A i \in Steps : ~(ops'[i].key = key /\ LastOnKey(i)')
    BY <1>1, <1>4
  <2>2. Survives(k, l)' <=> ops'[sequence].lane = l /\ ops'[sequence].action = "Put"
    <3>1. ASSUME Survives(k, l)'
          PROVE  ops'[sequence].lane = l /\ ops'[sequence].action = "Put"
      <4>1. PICK i \in Steps' : /\ ops'[i].key = k /\ ops'[i].lane = l
                                /\ LastOnKey(i)' /\ ops'[i].action = "Put"
        BY <3>1 DEF Survives
      <4>2. i = sequence
        BY <1>1, <1>5, <2>1, <4>1
      <4> QED
        BY <4>1, <4>2
    <3>2. ASSUME ops'[sequence].lane = l, ops'[sequence].action = "Put"
          PROVE  Survives(k, l)'
      <4>1. /\ ops'[m].key = k /\ m \in Steps'
            /\ ops'[m].lane = l /\ ops'[m].action = "Put"
        BY <1>1, <1>2, <1>3, <1>5, <3>2
      <4> QED
        BY <1>3, <4>1 DEF Survives
    <3> QED
      BY <3>1, <3>2
  <2> QED
    BY <1>2, <1>5, <2>2
<1>6. CASE k # key
  <2>1. ASSUME Survives(k, l)' PROVE Survives(k, l)
    <3>1. PICK i \in Steps' : /\ ops'[i].key = k /\ ops'[i].lane = l
                              /\ LastOnKey(i)' /\ ops'[i].action = "Put"
      BY <2>1 DEF Survives
    <3>2. i \in Steps
      BY <1>1, <1>2, <1>6, <3>1
    <3> QED
      BY <1>1, <1>4, <3>1, <3>2 DEF Survives
  <2>2. ASSUME Survives(k, l) PROVE Survives(k, l)'
    <3>1. PICK i \in Steps : /\ ops[i].key = k /\ ops[i].lane = l
                             /\ LastOnKey(i) /\ ops[i].action = "Put"
      BY <2>2 DEF Survives
    <3>2. /\ i \in Steps' /\ ops'[i].key = k /\ ops'[i].lane = l
          /\ LastOnKey(i)' /\ ops'[i].action = "Put"
      BY <1>1, <1>4, <1>6, <3>1
    <3> QED
      BY <3>2 DEF Survives
  <2> QED
    BY <1>6, <2>1, <2>2
<1> QED
  BY <1>5, <1>6

LEMMA SurvivorTellsLane ==
  ASSUME LaneInv, UuidKeys, NEW k, NEW l, Survives(k, l)
  PROVE  k \in Steps /\ LaneOf(k) = l
BY DEF Survives, LaneInv, MadeUp, Below, Steps

LiveInv == UuidKeys => \A l \in Lanes : \A k : k \in live[l] <=> Survives(k, l)

LEMMA RequestStays == [Next]_vars => UNCHANGED request
<1> SUFFICES ASSUME [Next]_vars PROVE UNCHANGED request
  OBVIOUS
<1>1. ASSUME NEW key, NEW action, NEW lane, NEW batch, Emit(key, action, lane, batch)
      PROVE  UNCHANGED request
  BY <1>1 DEF Emit
<1>2. CASE PointwiseOp \/ TransactionOp \/ AdversarialOp
  BY <1>1, <1>2 DEF PointwiseOp, TransactionOp, AdversarialOp
<1>3. CASE DeleteLive \/ OverwriteLive \/ PutFresh
  BY <1>1, <1>3 DEF DeleteLive, OverwriteLive, PutFresh, EmitMixed
<1>4. CASE PlaceFaults \/ UNCHANGED vars
  BY <1>4 DEF PlaceFaults, vars
<1> QED
  BY <1>2, <1>3, <1>4 DEF Next

LEMMA NextKeepsLive == PlanInv /\ LaneInv /\ LiveInv /\ [Next]_vars => LiveInv'
<1> SUFFICES ASSUME PlanInv, LaneInv, LiveInv, [Next]_vars, UuidKeys, NEW l \in Lanes, NEW k
             PROVE  k \in live'[l] <=> Survives(k, l)'
  BY RequestStays DEF LiveInv, UuidKeys
<1> DEFINE L == LaneOf(sequence)
<1>1. L \in Lanes /\ sequence \in 0..sequence /\ live \in [Lanes -> SUBSET Steps]
      /\ \A s \in Steps : s \in 0..sequence /\ s # sequence
  <2>1. sequence \in Nat
    BY DEF LaneInv
  <2> QED
    BY <2>1 DEF LaneOf, Lanes, PlanInv, Steps
<1>2. k \in live[l] <=> Survives(k, l)
  BY DEF LiveInv
<1>3. Survives(k, l) => k \in Steps /\ LaneOf(k) = l
  BY SurvivorTellsLane
<1>4. CASE DeleteLive
  <2>1. PICK key \in live[L] : EmitMixed(key, "Delete") /\ Forget(L, key)
    BY <1>4 DEF DeleteLive, LiveOf
  <2>2. key \in 0..sequence /\ LaneOf(key) = L
    BY <1>1, <2>1, SurvivorTellsLane DEF LiveInv
  <2>3. Survives(k, l)' <=> k # key /\ Survives(k, l)
    BY <2>1, <2>2, EmitDecides DEF EmitMixed
  <2>4. live'[l] = IF l = L THEN live[l] \ {key} ELSE live[l]
    BY <1>1, <2>1 DEF Forget
  <2> QED
    BY <1>2, <1>3, <2>2, <2>3, <2>4
<1>5. CASE OverwriteLive
  <2>1. PICK key \in live[L] : EmitMixed(key, "Put")
    BY <1>5 DEF OverwriteLive, LiveOf
  <2>2. key \in 0..sequence /\ LaneOf(key) = L /\ Survives(key, L)
    BY <1>1, <2>1, SurvivorTellsLane DEF LiveInv
  <2>3. Survives(k, l)' <=> IF k = key THEN l = L ELSE Survives(k, l)
    BY <2>1, <2>2, EmitDecides DEF EmitMixed
  <2>4. live' = live
    BY <1>5 DEF OverwriteLive
  <2> QED
    BY <1>2, <1>3, <2>2, <2>3, <2>4
<1>6. CASE PutFresh
  <2>1. EmitMixed(sequence, "Put") /\ live' = [live EXCEPT ![L] = @ \cup {sequence}]
    BY <1>6 DEF PutFresh
  <2>2. Survives(k, l)' <=> IF k = sequence THEN l = L ELSE Survives(k, l)
    BY <1>1, <2>1, EmitDecides DEF EmitMixed
  <2>3. live'[l] = IF l = L THEN live[l] \cup {sequence} ELSE live[l]
    BY <1>1, <2>1
  <2> QED
    BY <1>1, <1>2, <1>3, <2>2, <2>3
<1>7. CASE PlaceFaults \/ UNCHANGED vars
  <2>1. UNCHANGED <<sequence, ops, live>>
    BY <1>7 DEF PlaceFaults, vars
  <2>2. Survives(k, l)' <=> Survives(k, l)
    BY <2>1 DEF Survives, LastOnKey, Steps
  <2> QED
    BY <1>2, <2>1, <2>2
<1>8. ~PointwiseOp /\ ~TransactionOp /\ ~AdversarialOp
  BY DEF PointwiseOp, TransactionOp, AdversarialOp, UuidKeys, Workload, WorkloadOf
<1> QED
  BY <1>4, <1>5, <1>6, <1>7, <1>8 DEF Next

\* What a lane of mixed_lsm_operations may delete or overwrite is what its operations so
\* far leave in the database, for every scale and every draw.
THEOREM LiveIsWhatSurvivesTheorem == Spec => []LiveIsWhatSurvives
<1>1. Init => LiveInv
  <2> SUFFICES ASSUME Init, NEW l \in Lanes, NEW k PROVE ~(k \in live[l]) /\ ~Survives(k, l)
    BY DEF LiveInv
  <2>1. Steps = {}
    BY DEF Init, Steps
  <2> QED
    BY <2>1 DEF Init, Survives
<1>2. LiveInv => LiveIsWhatSurvives
  BY DEF LiveInv, LiveIsWhatSurvives, Survives
<1>3. Spec => []LaneInv
  BY InitLanes, NextKeepsLanes, PTL DEF Spec
<1> QED
  BY <1>1, <1>2, <1>3, NextKeepsLive, PlanInvariant, PTL DEF Spec

-----------------------------------------------------------------------------
(* What the runner is given                                                 *)

\* The catalog draws a class of fault only for a workload whose executor looks at its
\* trigger.
LEMMA CatalogFitsWorkload ==
  ASSUME NEW s \in Scenarios, NEW class \in FaultCatalog(s)
  PROVE  /\ BoundaryOf(class) \in Generated!FaultClasses
         /\ BoundaryOf(class) = "AckBeforeReportCrash" => s = "ack-kill-window"
         /\ WorkloadOf(s) = "TransactionHistory" => BoundaryOf(class) = "ForcedReopen"
         /\ BoundaryOf(class) = "Failpoint" => WorkloadOf(s) = "Pointwise"
<1>1. s \in CrashLoops \cup FailpointTier
             \cup {"cold-cache-read-storm", "lease-takeover-latency", "ack-kill-window",
                   "cloud-cache-loss", "smoke-local", "transaction-history", "manifest-race",
                   "sst-corruption", "wal-truncation-race", "stale-cache-recovery",
                   "sqrzl-visibility"}
  BY DEF Scenarios, ScenarioCatalog, CrashLoops, FailpointTier
<1>2. CASE s \in CrashLoops
  BY <1>2 DEF CrashLoops, FaultCatalog, BoundaryOf, Generated!FaultClasses, WorkloadOf
<1>3. CASE s \in FailpointTier
  BY <1>3 DEF FailpointTier, CrashLoops, FaultCatalog, BoundaryOf, Generated!FaultClasses,
              WorkloadOf
<1>4. CASE s \notin CrashLoops \cup FailpointTier
  BY <1>1, <1>4 DEF CrashLoops, FaultCatalog, BoundaryOf, Generated!FaultClasses, WorkloadOf
<1> QED
  BY <1>2, <1>3, <1>4

LEMMA DivisionIsMonotone ==
  ASSUME NEW i \in Nat, NEW j \in Nat, NEW d \in Nat, d > 0, i <= j
  PROVE  i \div d <= j \div d
<1>1. /\ i \div d \in Nat /\ i % d \in Nat /\ i = d * (i \div d) + (i % d)
      /\ j \div d \in Nat /\ j % d \in Nat /\ j % d < d /\ j = d * (j \div d) + (j % d)
  BY Euclid
<1> DEFINE p == i \div d
           q == j \div d
<1>2. d * p \in Nat /\ d * q \in Nat
  BY <1>1, SMT
<1>3. ASSUME q < p PROVE FALSE
  <2>1. d * q + d <= d * p
    BY <1>1, <1>3, NearMultiples
  <2> HIDE DEF p, q
  <2>2. i = d * p + (i % d) /\ j = d * q + (j % d)
    BY <1>1 DEF p, q
  <2> QED
    BY <1>1, <1>2, <2>1, <2>2
<1> QED
  BY <1>1, <1>3

\* A multiple of the chunk size begins a chunk.
LEMMA MultipleIsChunkStart ==
  ASSUME NEW i \in Nat, NEW d \in Nat, d > 0, i > 0, i % d = 0
  PROVE  i \div d # (i - 1) \div d
<1> DEFINE q == i \div d
<1>1. q \in Nat /\ i = d * q
  BY Euclid
<1> HIDE DEF q
<1>2. q > 0
  BY <1>1, SMT
<1>3. PICK p \in Nat : q = p + 1
  <2>1. q - 1 \in Nat /\ q = (q - 1) + 1
    BY <1>1, <1>2
  <2> QED
    BY <2>1
<1>4. d * q = d * p + d /\ d * p \in Nat
  BY <1>3, SMT
<1>5. i - 1 = d * p + (d - 1) /\ d - 1 \in Nat /\ d - 1 < d
  BY <1>1, <1>4
<1>6. (i - 1) \div d = p
  BY <1>5, EuclidUnique
<1> QED
  BY <1>3, <1>6 DEF q

\* A step where the scenario has room for a fault is a step where the worker looks.
LEMMA PlacesAreLookedAt ==
  ASSUME PlanInv, ShapeInv, NEW i \in Candidates
  PROVE  /\ i \in Steps /\ Generated!ChunkStart(i)
         /\ Workload # "Pointwise" => i > 0
<1>1. /\ i \in Steps /\ i \in Nat /\ i \in Below
      /\ sequence \in Nat /\ ChunkSize \in Nat /\ ChunkSize > 0
  BY PlacesAreSteps, CountIsNatural DEF PlanInv, Steps, Below
<1>a. request.scenario = "ack-kill-window" => Workload = "Pointwise"
  BY DEF Workload, WorkloadOf
<1>2. CASE Workload = "Pointwise"
  BY <1>1, <1>2 DEF Generated!ChunkStart
<1>3. CASE Workload = "TransactionHistory"
  <2>1. i \in TransactionBoundaries
    <3>1. request.scenario # "ack-kill-window" /\ ~Chunked
      BY <1>a, <1>3 DEF Chunked
    <3> QED
      BY <1>3, <3>1 DEF Candidates
  <2> QED
    BY <1>1, <2>1 DEF TransactionBoundaries, Generated!ChunkStart
<1>4. CASE Chunked
  <2>1. i \in ChunkBoundaries
    BY <1>a, <1>4 DEF Candidates, Chunked
  <2>2. i # 0 /\ i % ChunkSize = 0
    BY <2>1 DEF ChunkBoundaries
  <2>3. i > 0 /\ i - 1 \in Below
    BY <1>1, <2>2 DEF Below
  <2>4. ops[i].batch = i \div ChunkSize /\ ops[i - 1].batch = (i - 1) \div ChunkSize
    BY <1>1, <1>4, <2>3 DEF ShapeInv
  <2>5. i \div ChunkSize # (i - 1) \div ChunkSize
    BY <1>1, <2>2, <2>3, MultipleIsChunkStart
  <2> QED
    BY <1>1, <2>3, <2>4, <2>5 DEF Generated!ChunkStart
<1> QED
  BY <1>2, <1>3, <1>4 DEF Chunked

\* Where ack-kill-window cuts, the put is the last on its key.
LEMMA CutsAreFinal ==
  ASSUME sequence \in Nat, NEW i \in FinalDurablePuts
  PROVE  i \in Generated!FinalPuts
<1> DEFINE on == {j \in Steps : ops[j].key = ops[i].key}
<1>1. i \in Steps /\ ops[i].action = "Put" /\ \A j \in Steps : ops[j].key = ops[i].key => j <= i
  BY DEF FinalDurablePuts, LastOnKey
<1>2. i \in on /\ (\A j \in on : i >= j) /\ on \subseteq Int
  BY <1>1 DEF Steps
<1> DEFINE most == CHOOSE x \in on : \A y \in on : x >= y
<1>3. most \in on /\ \A y \in on : most >= y
  BY <1>2
<1>4. most >= i /\ i >= most /\ most \in Int /\ i \in Int
  BY <1>2, <1>3
<1>5. Generated!LastOn(ops[i].key) = most
  BY DEF Generated!LastOn, Generated!OpsOn, Generated!Max, Generated!Steps, Steps
<1> HIDE DEF on, most
<1>6. Generated!LastOn(ops[i].key) = i
  BY <1>4, <1>5
<1> QED
  BY <1>1, <1>6 DEF Generated!FinalPuts, Generated!Steps, Steps

\* Batches are numbered upwards.
LEMMA BatchesGoUp ==
  ASSUME PlanInv, ShapeInv, NEW i \in Steps, NEW j \in Steps, i <= j
  PROVE  ops[i].batch <= ops[j].batch
<1>1. /\ i \in Nat /\ j \in Nat /\ i \in Below /\ j \in Below
      /\ ChunkSize \in Nat /\ ChunkSize > 0
  BY CountIsNatural DEF PlanInv, Steps, Below
<1>2. CASE Workload = "Pointwise"
  BY <1>2 DEF PlanInv
<1>3. CASE Workload = "TransactionHistory"
  BY <1>1, <1>3, DivisionIsMonotone DEF PlanInv, TransactionWidth
<1>4. CASE Chunked
  <2>1. ops[i].batch = i \div ChunkSize /\ ops[j].batch = j \div ChunkSize
    BY <1>1, <1>4 DEF ShapeInv
  <2> QED
    BY <1>1, <2>1, DivisionIsMonotone
<1> QED
  BY <1>2, <1>3, <1>4 DEF Chunked

LEMMA FinishedPlanIsWellFormed ==
  ASSUME PlanInv, ShapeInv, LaneInv, done
  PROVE  Generated!WellFormed
<1> DEFINE at == [i \in DOMAIN faults |-> BoundaryOf(faults[i])]
<1>1. sequence \in Nat \ {0} /\ Generated!Steps = Steps
  <2>1. sequence = OperationCount
    BY DEF ShapeInv
  <2>2. request.ops \in Nat \ {0} /\ OpsFactor \in Nat /\ OpsFactor >= 5
    BY GenerationAssumption DEF PlanInv
  <2>3. OperationCount \in Nat \ {0}
    BY <2>2, SMT DEF OperationCount
  <2> QED
    BY <2>1, <2>3 DEF Generated!Steps, Steps
<1>2. Workload \in Generated!Kinds
  BY DEF Workload, WorkloadOf, Generated!Kinds
<1>3. ASSUME NEW s \in DOMAIN faults
      PROVE  /\ s \in Steps /\ Generated!ChunkStart(s)
             /\ Workload # "Pointwise" => s > 0
             /\ at[s] \in Generated!FaultClasses
             /\ at[s] = "AckBeforeReportCrash" =>
                  Workload = "Pointwise" /\ s \in Generated!FinalPuts
             /\ Workload = "TransactionHistory" => at[s] = "ForcedReopen"
             /\ at[s] = "Failpoint" => Workload = "Pointwise"
  <2>1. s \in Candidates /\ faults[s] \in FaultCatalog(request.scenario)
    BY DEF PlanInv
  <2>2. request.scenario \in Scenarios
    BY GenerationAssumption DEF PlanInv
  <2>3. at[s] = BoundaryOf(faults[s])
    OBVIOUS
  <2>4. /\ at[s] \in Generated!FaultClasses
        /\ at[s] = "AckBeforeReportCrash" => request.scenario = "ack-kill-window"
        /\ Workload = "TransactionHistory" => at[s] = "ForcedReopen"
        /\ at[s] = "Failpoint" => Workload = "Pointwise"
    BY <2>1, <2>2, <2>3, CatalogFitsWorkload DEF Workload
  <2>5. request.scenario = "ack-kill-window" =>
          Workload = "Pointwise" /\ s \in Generated!FinalPuts
    <3> SUFFICES ASSUME request.scenario = "ack-kill-window"
                 PROVE  Workload = "Pointwise" /\ s \in Generated!FinalPuts
      OBVIOUS
    <3>1. Workload = "Pointwise"
      BY DEF Workload, WorkloadOf
    <3>2. Candidates = FinalDurablePuts
      BY <3>1 DEF Candidates, Chunked
    <3>3. s \in Generated!FinalPuts
      BY <1>1, <2>1, <3>2, CutsAreFinal
    <3> QED
      BY <3>1, <3>3
  <2> HIDE DEF at
  <2> QED
    BY <2>1, <2>4, <2>5, PlacesAreLookedAt
<1>4. ASSUME NEW i \in Steps
      PROVE  /\ Workload = "Mixed" => ops[i].lane \in {"Batch", "Trickle"}
             /\ Workload = "MultiCfHotCold" => ops[i].lane \in {"Hot", "Cold"}
  <2>1. i \in Below
    BY DEF Steps, Below
  <2> QED
    BY <2>1 DEF ShapeInv, Chunked, LaneOf, FamilyOf
<1>5. Workload \in {"Mixed", "MultiCfHotCold"} =>
        \A i, j \in Steps :
          ops[i].batch = ops[j].batch /\ ops[i].lane # ops[j].lane => ops[i].key # ops[j].key
  BY LaneInvIsEnough DEF LanesNeverMeet, Chunked
<1>6. ops \in [Steps -> Generated!Op] /\ DOMAIN at = DOMAIN faults
  BY DEF PlanInv
<1> HIDE DEF at
<1>7. \A s \in DOMAIN at :
        /\ at[s] \in Generated!FaultClasses
        /\ at[s] = "AckBeforeReportCrash" => Workload = "Pointwise" /\ s \in Generated!FinalPuts
        /\ Generated!ChunkStart(s)
        /\ Workload # "Pointwise" => s > 0
        /\ Workload = "TransactionHistory" => at[s] = "ForcedReopen"
        /\ at[s] = "Failpoint" => Workload = "Pointwise"
  BY <1>3, <1>6
<1> QED
  BY <1>1, <1>2, <1>3, <1>4, <1>5, <1>6, <1>7, BatchesGoUp DEF Generated!WellFormed, at

\* Whatever the scenario, the scale and the seed, the plan that Scenario::new and
\* DeterministicPlan::from_seed make is one that run_worker_command can run: the runner's
\* model assumes no more of its plan than is proved of every plan here.
THEOREM GeneratedPlanIsWellFormedTheorem == Spec => []GeneratedPlanIsWellFormed
<1>1. PlanInv /\ ShapeInv /\ LaneInv => GeneratedPlanIsWellFormed
  BY FinishedPlanIsWellFormed DEF GeneratedPlanIsWellFormed
<1> QED
  BY <1>1, PlanInvariant, InitShape, NextKeepsShape, InitLanes, NextKeepsLanes, PTL DEF Spec

-----------------------------------------------------------------------------
(* Room for the faults                                                      *)

\* A place for each of n faults, no two the same.
LEMMA RoomForEach ==
  ASSUME NEW S, IsFiniteSet(S), NEW n \in Nat, NEW f \in [1..n -> S],
         \A x, y \in 1..n : x # y => f[x] # f[y]
  PROVE  n <= Cardinality(S)
<1>1. IsFiniteSet(1..n) /\ Cardinality(1..n) = n
  BY FS_Interval
<1>2. Cardinality(S) \in Nat
  BY FS_CardinalityType
<1>3. ~(Cardinality(S) < Cardinality(1..n))
  BY <1>1, FS_PigeonHole
<1> QED
  BY <1>1, <1>2, <1>3

LEMMA PlacesAreFinite ==
  ASSUME sequence \in Nat
  PROVE  /\ IsFiniteSet(Steps) /\ Cardinality(Steps) = sequence
         /\ IsFiniteSet(Candidates) /\ Cardinality(Candidates) \in Nat
<1>1. IsFiniteSet(Steps) /\ Cardinality(Steps) = sequence
  BY FS_Interval DEF Steps
<1> QED
  BY <1>1, PlacesAreSteps, FS_Subset, FS_CardinalityType

\* The faults asked for: those of a chunked workload, of a transaction history and of
\* the acknowledgement window are one per unit of concurrency.
LEMMA HowManyAreAsked ==
  ASSUME request \in Requests
  PROVE  /\ FaultsAsked \in Nat
         /\ Chunked \/ Workload = "TransactionHistory" \/ request.scenario = "ack-kill-window"
              => FaultsAsked = request.concurrency
         /\ Workload = "Pointwise" => FaultsAsked <= request.ops
<1> DEFINE n == request.ops
           c == request.concurrency
           s == request.scenario
           part == (n * 15 + 50) \div 100
<1>1. n \in Nat /\ n > 0 /\ c \in Nat /\ c > 0
  BY GenerationAssumption
<1>2. Workload = "Pointwise" => n > 8 * c
  BY RoomAssumption DEF Workload
<1>3. FaultsAsked = IF s = "smoke-local" THEN 0 ELSE IF s \in OncePerLane THEN c ELSE part
  BY DEF FaultsAsked, FaultCount
<1>4. part \in Nat /\ part <= n
  <2> HIDE DEF n
  <2> QED
    BY <1>1, SMT
<1>5. Chunked \/ Workload = "TransactionHistory" \/ s = "ack-kill-window"
        => s # "smoke-local" /\ s \in OncePerLane
  BY DEF Chunked, Workload, WorkloadOf, OncePerLane, CrashLoops
<1> HIDE DEF n, c, part
<1> QED
  BY <1>1, <1>2, <1>3, <1>4, <1>5 DEF n, c

\* Transactions of eight operations: the first of every later one.
LEMMA RoomBetweenTransactions ==
  ASSUME PlanInv, sequence = OperationCount, Workload = "TransactionHistory"
  PROVE  request.concurrency <= Cardinality(TransactionBoundaries)
<1> DEFINE c == request.concurrency
           f == [m \in 1..c |-> 8 * m]
<1>1. c \in Nat /\ request.ops \in Nat /\ request.ops > 8 * c
  BY GenerationAssumption, RoomAssumption DEF PlanInv, Workload
<1>2. sequence \in Nat /\ sequence > 8 * c
  BY <1>1 DEF OperationCount, Chunked
<1>3. ASSUME NEW m \in 1..c PROVE 8 * m \in TransactionBoundaries
  <2>1. m \in Nat /\ m >= 1 /\ m <= c
    BY <1>1
  <2>2. 8 * m \in Steps /\ 8 * m - 1 \in Steps /\ 8 * m # 0
    <3> HIDE DEF c
    <3> QED
      BY <1>1, <1>2, <2>1 DEF Steps
  <2>3. ops[8 * m].batch = (8 * m) \div 8 /\ ops[8 * m - 1].batch = (8 * m - 1) \div 8
    BY <2>2 DEF PlanInv, TransactionWidth
  <2>4. (8 * m) \div 8 # (8 * m - 1) \div 8
    BY <2>1, SMT
  <2> QED
    BY <2>2, <2>3, <2>4 DEF TransactionBoundaries
<1>4. f \in [1..c -> TransactionBoundaries]
  BY <1>3
<1>5. \A x, y \in 1..c : x # y => f[x] # f[y]
  BY <1>1
<1>6. IsFiniteSet(TransactionBoundaries)
  BY <1>2, PlacesAreFinite, FS_Subset DEF TransactionBoundaries
<1> HIDE DEF c, f
<1>7. c <= Cardinality(TransactionBoundaries)
  BY <1>1, <1>4, <1>5, <1>6, RoomForEach
<1> QED
  BY <1>7 DEF c

\* Chunks: the first step of every later one, the partial one at the end included.
LEMMA RoomBetweenChunks ==
  ASSUME PlanInv, sequence = OperationCount, Chunked
  PROVE  request.concurrency <= Cardinality(ChunkBoundaries)
<1> DEFINE c == request.concurrency
           C == ChunkSize
           f == [m \in 1..c |-> C * m]
<1>1. c \in Nat /\ C \in Nat /\ C > 0 /\ sequence \in Nat
  BY CountIsNatural, GenerationAssumption DEF PlanInv
<1>2. sequence > C * c
  <2>1. request.ops * OpsFactor > ChunkFactor * c * c
    BY RoomAssumption DEF PlanInv, Chunked, Workload
  <2>2. ChunkFactor \in Nat
    BY GenerationAssumption
  <2>3. ChunkFactor * c * c = (c * ChunkFactor) * c
    BY <1>1, <2>2, SMT
  <2> QED
    BY <2>1, <2>3 DEF OperationCount, ChunkSize
<1> HIDE DEF C, c
<1>3. ASSUME NEW m \in 1..c PROVE C * m \in ChunkBoundaries
  <2>1. m \in Nat /\ m >= 1 /\ m <= c
    BY <1>1
  <2>2. C * m \in Nat /\ C * m <= C * c /\ C * m > 0 /\ C * c \in Nat
    BY <1>1, <2>1, SMT
  <2>3. (C * m + 0) % C = 0
    BY <1>1, <2>1, EuclidUnique
  <2>4. C * m \in Steps \ {0}
    BY <1>1, <1>2, <2>2 DEF Steps
  <2> QED
    BY <2>2, <2>3, <2>4 DEF ChunkBoundaries, C
<1>4. f \in [1..c -> ChunkBoundaries]
  BY <1>3
<1>5. ASSUME NEW x \in 1..c, NEW y \in 1..c, f[x] = f[y] PROVE x = y
  <2>1. x \in Nat /\ y \in Nat /\ C * x = C * y
    BY <1>1, <1>5
  <2>2. C * x + 0 = C * x /\ C * y + 0 = C * y
    BY <1>1, <2>1, SMT
  <2>3. (C * x + 0) \div C = x /\ (C * y + 0) \div C = y
    BY <1>1, <2>1, EuclidUnique
  <2> QED
    BY <2>1, <2>2, <2>3
<1>6. IsFiniteSet(ChunkBoundaries)
  BY <1>1, PlacesAreFinite, FS_Subset DEF ChunkBoundaries
<1> HIDE DEF f
<1>7. c <= Cardinality(ChunkBoundaries)
  BY <1>1, <1>4, <1>5, <1>6, RoomForEach
<1> QED
  BY <1>7 DEF c

\* Less than a round apart, two operations are on different keys.
LEMMA RoundMeetsKeyOnce ==
  ASSUME NEW i \in Nat, NEW j \in Nat, NEW d \in Nat, i < j, j < i + d
  PROVE  i % d # j % d
<1>1. d > 0
  OBVIOUS
<1>2. /\ i \div d \in Nat /\ i % d \in Nat /\ i = d * (i \div d) + (i % d)
      /\ j \div d \in Nat /\ j % d \in Nat /\ j = d * (j \div d) + (j % d)
  BY <1>1, Euclid
<1> DEFINE p == i \div d
           q == j \div d
<1>3. d * p \in Nat /\ d * q \in Nat
  BY <1>2, SMT
<1>4. ASSUME i % d = j % d PROVE FALSE
  <2> HIDE DEF p, q
  <2>1. i = d * p + (i % d) /\ j = d * q + (i % d) /\ p \in Nat /\ q \in Nat
    BY <1>2, <1>4 DEF p, q
  <2>2. d * p < d * q /\ d * q < d * p + d
    BY <1>2, <1>3, <2>1
  <2>3. ~(p < q)
    BY <1>3, <2>1, <2>2, NearMultiples
  <2>4. ~(q < p)
    <3>1. q < p => d * q + d <= d * p
      BY <2>1, NearMultiples
    <3> QED
      BY <1>3, <2>2, <3>1
  <2>5. p = q
    BY <2>1, <2>3, <2>4
  <2> QED
    BY <1>3, <2>2, <2>5
<1> QED
  BY <1>4

\* Of four operations in a row, one is neither a fourth nor an eleventh.
LEMMA OneOfFour ==
  ASSUME NEW b \in Nat
  PROVE  \E x \in b..(b + 3) : x % 4 # 0 /\ x % 11 # 0
<1>1. PICK e \in 0..3 : (b + e) % 4 # 0 /\ (b + e) % 11 # 0
  <2>1. \E e \in 0..3 : (b + e) % 4 # 0 /\ (b + e) % 11 # 0
    BY SMT
  <2> QED
    BY <2>1
<1>2. b + e \in b..(b + 3)
  OBVIOUS
<1> QED
  BY <1>1, <1>2

\* The last round of keys has a durable final put in every four operations.
LEMMA RoomForCuts ==
  ASSUME PlanInv, sequence = OperationCount, request.scenario = "ack-kill-window"
  PROVE  request.concurrency <= Cardinality(FinalDurablePuts)
<1> DEFINE c == request.concurrency
           n == sequence
           Spot(m) == CHOOSE x \in (n - 4 * m)..(n - 4 * m + 3) : x % 4 # 0 /\ x % 11 # 0
           f == [m \in 1..c |-> Spot(m)]
<1>0. Workload = "Pointwise" /\ ~Chunked
  BY DEF Workload, WorkloadOf, Chunked
<1>1. c \in Nat /\ n \in Nat /\ n > 8 * c /\ KeyCount = 4 * c
  BY <1>0, GenerationAssumption, RoomAssumption DEF PlanInv, Workload, OperationCount, KeyCount
<1>2. ASSUME NEW m \in 1..c
      PROVE  /\ Spot(m) \in (n - 4 * m)..(n - 4 * m + 3)
             /\ Spot(m) % 4 # 0 /\ Spot(m) % 11 # 0
  <2>1. n - 4 * m \in Nat
    BY <1>1
  <2>2. \E x \in (n - 4 * m)..(n - 4 * m + 3) : x % 4 # 0 /\ x % 11 # 0
    BY <2>1, OneOfFour
  <2> QED
    BY <2>2
<1> HIDE DEF Spot, c, n
<1>3. ASSUME NEW m \in 1..c PROVE Spot(m) \in FinalDurablePuts
  <2> DEFINE i == Spot(m)
  <2>1. i \in Nat /\ i < n /\ n <= i + 4 * c
    BY <1>1, <1>2
  <2>2. i \in Steps /\ i % 4 # 0 /\ i % 11 # 0
    BY <1>1, <1>2, <2>1 DEF Steps, n
  <2> HIDE DEF i
  <2>3. ops[i].action = "Put"
    BY <1>0, <2>2 DEF PlanInv, ActionIf
  <2>4. LastOnKey(i)
    <3> SUFFICES ASSUME NEW j \in Steps, ops[j].key = ops[i].key, ~(j <= i) PROVE FALSE
      BY DEF LastOnKey
    <3>1. j \in Nat /\ i < j /\ j < i + KeyCount /\ KeyCount \in Nat
      BY <1>1, <2>1 DEF Steps, n
    <3>2. j % KeyCount = i % KeyCount
      BY <1>0, <2>2 DEF PlanInv
    <3> QED
      BY <2>1, <3>1, <3>2, RoundMeetsKeyOnce
  <2> QED
    BY <2>2, <2>3, <2>4 DEF FinalDurablePuts, i
<1>4. f \in [1..c -> FinalDurablePuts]
  BY <1>3
<1>5. ASSUME NEW x \in 1..c, NEW y \in 1..c, f[x] = f[y] PROVE x = y
  <2>1. Spot(x) = Spot(y)
    BY <1>5
  <2> QED
    BY <1>1, <1>2, <2>1
<1>6. IsFiniteSet(FinalDurablePuts)
  BY <1>1, PlacesAreFinite, FS_Subset DEF FinalDurablePuts, n
<1> HIDE DEF f
<1>7. c <= Cardinality(FinalDurablePuts)
  BY <1>1, <1>4, <1>5, <1>6, RoomForEach
<1> QED
  BY <1>7 DEF c

LEMMA RoomForFaults ==
  ASSUME PlanInv, sequence = OperationCount
  PROVE  FaultsAsked <= Cardinality(Candidates)
<1>1. /\ FaultsAsked \in Nat
      /\ Chunked \/ Workload = "TransactionHistory" \/ request.scenario = "ack-kill-window"
           => FaultsAsked = request.concurrency
      /\ Workload = "Pointwise" => FaultsAsked <= request.ops
  BY HowManyAreAsked DEF PlanInv
<1>2. request.scenario = "ack-kill-window" => Workload = "Pointwise"
  BY DEF Workload, WorkloadOf
<1>3. CASE request.scenario = "ack-kill-window"
  <2>1. Candidates = FinalDurablePuts
    BY <1>2, <1>3 DEF Candidates, Chunked
  <2> QED
    BY <1>1, <1>3, <2>1, RoomForCuts
<1>4. CASE Workload = "TransactionHistory"
  <2>1. Candidates = TransactionBoundaries
    BY <1>2, <1>4 DEF Candidates, Chunked
  <2> QED
    BY <1>1, <1>4, <2>1, RoomBetweenTransactions
<1>5. CASE Chunked
  <2>1. Candidates = ChunkBoundaries
    BY <1>2, <1>5 DEF Candidates, Chunked
  <2> QED
    BY <1>1, <1>5, <2>1, RoomBetweenChunks
<1>6. CASE Workload = "Pointwise" /\ request.scenario # "ack-kill-window"
  <2>1. Candidates = Steps /\ OperationCount = request.ops
    BY <1>6 DEF Candidates, Chunked, OperationCount
  <2>2. Cardinality(Steps) = sequence
    BY PlacesAreFinite DEF PlanInv
  <2> QED
    BY <1>1, <1>6, <2>1, <2>2
<1> QED
  BY <1>3, <1>4, <1>5, <1>6 DEF Chunked

LEMMA FewerOfTwo ==
  ASSUME NEW a \in Nat, NEW b \in Nat, a <= b PROVE Min({a, b}) = a
<1> DEFINE least == CHOOSE x \in {a, b} : \A y \in {a, b} : x =< y
<1>1. \E x \in {a, b} : \A y \in {a, b} : x =< y
  OBVIOUS
<1>2. least \in {a, b} /\ \A y \in {a, b} : least =< y
  BY <1>1
<1> HIDE DEF least
<1>3. least = a
  BY <1>2
<1> QED
  BY <1>3 DEF Min, least

LEMMA NextKeepsFaults == PlanInv /\ EveryFaultPlaced /\ [Next]_vars => EveryFaultPlaced'
<1> SUFFICES ASSUME PlanInv, EveryFaultPlaced, [Next]_vars, done'
             PROVE  Cardinality(DOMAIN faults') = FaultsAsked
  BY RequestStays, SizesStay DEF EveryFaultPlaced
<1>1. CASE PlaceFaults
  <2>1. PICK at \in kSubset(Min({FaultsAsked, Cardinality(Candidates)}), Candidates) :
          faults' \in [at -> FaultCatalog(request.scenario)]
    BY <1>1 DEF PlaceFaults
  <2>2. sequence = OperationCount
    BY <1>1, CountIsNatural DEF PlaceFaults, PlanInv, Generating
  <2>3. FaultsAsked <= Cardinality(Candidates)
    BY <2>2, RoomForFaults
  <2>4. FaultsAsked \in Nat /\ Cardinality(Candidates) \in Nat
    BY HowManyAreAsked, PlacesAreFinite DEF PlanInv
  <2>5. Min({FaultsAsked, Cardinality(Candidates)}) = FaultsAsked
    BY <2>3, <2>4, FewerOfTwo
  <2> QED
    BY <2>1, <2>5 DEF kSubset
<1>2. ASSUME done' = done, faults' = faults PROVE Cardinality(DOMAIN faults') = FaultsAsked
  BY <1>2 DEF EveryFaultPlaced
<1>3. ASSUME NEW key, NEW action, NEW lane, NEW batch, Emit(key, action, lane, batch)
      PROVE  done' = done /\ faults' = faults
  BY <1>3 DEF Emit
<1>4. CASE PointwiseOp \/ TransactionOp \/ AdversarialOp
  BY <1>2, <1>3, <1>4 DEF PointwiseOp, TransactionOp, AdversarialOp
<1>5. CASE DeleteLive \/ OverwriteLive \/ PutFresh
  BY <1>2, <1>3, <1>5 DEF DeleteLive, OverwriteLive, PutFresh, EmitMixed
<1>6. CASE UNCHANGED vars
  BY <1>2, <1>6 DEF vars
<1> QED
  BY <1>1, <1>4, <1>5, <1>6 DEF Next

\* At every scale with the room that those of RunScale have, and for every seed,
\* DeterministicPlan::from_seed drops no fault for want of a place.
THEOREM EveryFaultPlacedTheorem == Spec => []EveryFaultPlaced
<1>1. Init => EveryFaultPlaced
  BY DEF Init, EveryFaultPlaced
<1> QED
  BY <1>1, PlanInvariant, NextKeepsFaults, PTL DEF Spec
=============================================================================
