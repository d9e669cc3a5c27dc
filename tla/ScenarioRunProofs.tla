------------------------- MODULE ScenarioRunProofs -------------------------
(***************************************************************************)
(* What the verdict and the report of a run of ScenarioRun promise, for    *)
(* every plan, fault placement, budget and bound: how the ledger reads the *)
(* reports, what a verified run was checked against, and what it takes to  *)
(* pass.                                                                   *)
(***************************************************************************)
EXTENDS ScenarioFaultProofs

-----------------------------------------------------------------------------
(* The passes of the ledger over the reports                                *)

LEMMA IntervalInduction ==
  ASSUME NEW n \in Nat, NEW S, 0 \in S, \A m \in 0..(n - 1) : m \in S => m + 1 \in S
  PROVE  \A m \in 0..n : m \in S
<1> DEFINE left == {m \in 0..n : m \notin S}
<1> SUFFICES ASSUME left # {} PROVE FALSE
  OBVIOUS
<1>0. left \subseteq Nat /\ left # {}
  OBVIOUS
<1>1. PICK x \in left : \A y \in left : x <= y
  <2> HIDE DEF left
  <2> QED
    BY <1>0, LeastNatural
<1>2. x # 0 /\ x \in 0..n
  BY <1>1
<1>3. x - 1 \in 0..(n - 1) /\ x - 1 \in 0..n /\ ~(x <= x - 1)
  BY <1>2
<1>4. x - 1 \in S
  BY <1>1, <1>3
<1>5. (x - 1) + 1 \in S
  BY <1>3, <1>4
<1>6. (x - 1) + 1 = x
  BY <1>2
<1> QED
  BY <1>1, <1>5, <1>6

\* A class that is carried through n steps exists at each of them.
LEMMA CarriedThrough ==
  ASSUME NEW n \in Nat, NEW first \in MutationOutcome,
         NEW step \in [1..n -> [MutationOutcome -> MutationOutcome]]
  PROVE  \E c \in [0..n -> MutationOutcome] :
           c[0] = first /\ \A m \in 1..n : c[m] = step[m][c[m - 1]]
<1> DEFINE Carried(k, c) == c[0] = first /\ \A m \in 1..k : c[m] = step[m][c[m - 1]]
           S == {k \in 0..n : \E c \in [0..k -> MutationOutcome] : Carried(k, c)}
<1>1. 0 \in S
  <2> DEFINE d == [m \in 0..0 |-> first]
  <2>1. d \in [0..0 -> MutationOutcome] /\ d[0] = first
    OBVIOUS
  <2>2. \A m \in 1..0 : FALSE
    OBVIOUS
  <2> HIDE DEF d
  <2>3. Carried(0, d)
    BY <2>1, <2>2
  <2> HIDE DEF Carried
  <2> QED
    BY <2>1, <2>3
<1>2. ASSUME NEW k \in 0..(n - 1), k \in S PROVE k + 1 \in S
  <2>1. PICK c \in [0..k -> MutationOutcome] : Carried(k, c)
    BY <1>2
  <2> DEFINE d == [m \in 0..(k + 1) |-> IF m = k + 1 THEN step[k + 1][c[k]] ELSE c[m]]
  <2>2. k + 1 \in 1..n /\ k \in 0..k /\ k \in Nat
    OBVIOUS
  <2>3. step[k + 1][c[k]] \in MutationOutcome
    BY <2>1, <2>2
  <2>4. d \in [0..(k + 1) -> MutationOutcome]
    <3>1. \A m \in 0..(k + 1) : m = k + 1 \/ m \in 0..k
      BY <2>2
    <3> QED
      BY <2>1, <2>3, <3>1
  <2>5. d[0] = first
    BY <2>1, <2>2
  <2>6. ASSUME NEW m \in 1..(k + 1) PROVE d[m] = step[m][d[m - 1]]
    <3>1. m - 1 \in 0..(k + 1) /\ m - 1 # k + 1 /\ m \in 0..(k + 1)
      BY <2>2
    <3>2. d[m - 1] = c[m - 1]
      BY <3>1
    <3>3. CASE m = k + 1
      <4>1. m - 1 = k /\ d[m] = step[k + 1][c[k]]
        BY <2>2, <3>1, <3>3
      <4> QED
        BY <3>2, <3>3, <4>1
    <3>4. CASE m # k + 1
      <4>1. m \in 1..k /\ d[m] = c[m]
        BY <2>2, <3>1, <3>4
      <4> QED
        BY <2>1, <3>2, <4>1
    <3> QED
      BY <3>3, <3>4
  <2> HIDE DEF d
  <2>7. Carried(k + 1, d) /\ k + 1 \in 0..n
    BY <2>2, <2>5, <2>6
  <2> QED
    BY <2>4, <2>7
<1>3. n \in S
  <2> HIDE DEF S
  <2>1. \A m \in 0..n : m \in S
    BY <1>1, <1>2, IntervalInduction
  <2>2. n \in 0..n
    OBVIOUS
  <2> QED
    BY <2>1, <2>2
<1> QED
  BY <1>3 DEF S

\* What one report does to the class of an entry, in each of the two passes.
MutationStep(op, r, c) ==
  IF r.op = op /\ r.phase = "Mutation" THEN AfterMutationReport(c, FALSE, r.outcome) ELSE c
VerificationStep(op, r, c) ==
  IF r.op = op /\ r.phase = "Verification" THEN AfterVerificationReport(c, r.outcome) ELSE c

MutationReading(class, op, rs, n) ==
  /\ class \in [0..n -> MutationOutcome] /\ class[0] = "Dispatched"
  /\ \A m \in 1..n : class[m] = MutationStep(op, rs[m], class[m - 1])
  /\ MutationPass(op, rs, n) = class[n]

LEMMA MutationPassReads ==
  ASSUME NEW op, NEW n \in Nat, NEW rs \in [1..n -> Report]
  PROVE  \E class : MutationReading(class, op, rs, n)
<1> DEFINE Is(d) == d = [m \in 0..n |->
             IF m = 0 THEN "Dispatched"
             ELSE IF rs[m].op = op /\ rs[m].phase = "Mutation"
             THEN AfterMutationReport(d[m - 1], FALSE, rs[m].outcome)
             ELSE d[m - 1]]
           step == [m \in 1..n |-> [c \in MutationOutcome |-> MutationStep(op, rs[m], c)]]
           class == CHOOSE d : Is(d)
<1>1. MutationPass(op, rs, n) = class[n]
  BY DEF MutationPass
<1>2. "Dispatched" \in MutationOutcome /\ \A m \in 1..n : m \in 0..n /\ m - 1 \in 0..n
  BY DEF MutationOutcome
<1>3. step \in [1..n -> [MutationOutcome -> MutationOutcome]]
  BY DEF MutationStep, AfterMutationReport, MutationOutcome, Report, Outcomes
<1>4. PICK c \in [0..n -> MutationOutcome] :
         c[0] = "Dispatched" /\ \A m \in 1..n : c[m] = step[m][c[m - 1]]
  <2> HIDE DEF step
  <2> QED
    BY <1>2, <1>3, CarriedThrough
<1>5. \A m \in 1..n : c[m] = MutationStep(op, rs[m], c[m - 1])
  BY <1>2, <1>4
<1>6. Is(c)
  <2>1. \A m \in 0..n : m = 0 \/ m \in 1..n
    OBVIOUS
  <2> QED
    BY <1>4, <1>5, <2>1 DEF MutationStep
<1>7. Is(class)
  <2> HIDE DEF Is
  <2> QED
    BY <1>6
<1> HIDE DEF class
<1>8. class[0] = "Dispatched" /\ \A m \in 1..n : class[m] = MutationStep(op, rs[m], class[m - 1])
  <2>1. \A m \in 0..n : class[m] =
             IF m = 0 THEN "Dispatched"
             ELSE IF rs[m].op = op /\ rs[m].phase = "Mutation"
             THEN AfterMutationReport(class[m - 1], FALSE, rs[m].outcome)
             ELSE class[m - 1]
    BY <1>7
  <2>2. 0 \in 0..n /\ \A m \in 1..n : m # 0
    OBVIOUS
  <2> QED
    BY <1>2, <2>1, <2>2 DEF MutationStep
<1>9. \A m \in 0..n : class[m] \in MutationOutcome
  <2> DEFINE S == {m \in 0..n : class[m] \in MutationOutcome}
  <2>1. 0 \in S
    BY <1>2, <1>8
  <2>2. ASSUME NEW m \in 0..(n - 1), m \in S PROVE m + 1 \in S
    <3>1. m + 1 \in 1..n /\ m + 1 \in 0..n /\ (m + 1) - 1 = m
      OBVIOUS
    <3>2. class[m + 1] = MutationStep(op, rs[m + 1], class[m]) /\ rs[m + 1] \in Report
      BY <1>8, <3>1
    <3>3. class[m + 1] \in MutationOutcome
      BY <2>2, <3>2 DEF MutationStep, AfterMutationReport, MutationOutcome, Report, Outcomes
    <3> QED
      BY <3>1, <3>3
  <2> HIDE DEF S
  <2>3. \A m \in 0..n : m \in S
    BY <2>1, <2>2, IntervalInduction
  <2> QED
    BY <2>3 DEF S
<1>10. class \in [0..n -> MutationOutcome]
  BY <1>7, <1>9
<1> QED
  BY <1>1, <1>8, <1>10 DEF MutationReading
VerificationReading(class, mutated, op, rs, n) ==
  /\ class \in [0..n -> MutationOutcome] /\ class[0] = mutated
  /\ \A m \in 1..n : class[m] = VerificationStep(op, rs[m], class[m - 1])
  /\ VerificationPass(mutated, op, rs, n) = class[n]

LEMMA VerificationPassReads ==
  ASSUME NEW op, NEW n \in Nat, NEW rs \in [1..n -> Report], NEW mutated \in MutationOutcome
  PROVE  \E class : VerificationReading(class, mutated, op, rs, n)
<1> DEFINE Is(d) == d = [m \in 0..n |->
             IF m = 0 THEN mutated
             ELSE IF rs[m].op = op /\ rs[m].phase = "Verification"
             THEN AfterVerificationReport(d[m - 1], rs[m].outcome)
             ELSE d[m - 1]]
           step == [m \in 1..n |-> [c \in MutationOutcome |-> VerificationStep(op, rs[m], c)]]
           class == CHOOSE d : Is(d)
<1>1. VerificationPass(mutated, op, rs, n) = class[n]
  BY DEF VerificationPass
<1>2. \A m \in 1..n : m \in 0..n /\ m - 1 \in 0..n
  OBVIOUS
<1>3. step \in [1..n -> [MutationOutcome -> MutationOutcome]]
  BY DEF VerificationStep, AfterVerificationReport, MutationOutcome, Report, Outcomes
<1>4. PICK c \in [0..n -> MutationOutcome] :
         c[0] = mutated /\ \A m \in 1..n : c[m] = step[m][c[m - 1]]
  <2> HIDE DEF step
  <2> QED
    BY <1>2, <1>3, CarriedThrough
<1>5. \A m \in 1..n : c[m] = VerificationStep(op, rs[m], c[m - 1])
  BY <1>2, <1>4
<1>6. Is(c)
  <2>1. \A m \in 0..n : m = 0 \/ m \in 1..n
    OBVIOUS
  <2> QED
    BY <1>4, <1>5, <2>1 DEF VerificationStep
<1>7. Is(class)
  <2> HIDE DEF Is
  <2> QED
    BY <1>6
<1> HIDE DEF class
<1>8. class[0] = mutated /\ \A m \in 1..n : class[m] = VerificationStep(op, rs[m], class[m - 1])
  <2>1. \A m \in 0..n : class[m] =
             IF m = 0 THEN mutated
             ELSE IF rs[m].op = op /\ rs[m].phase = "Verification"
             THEN AfterVerificationReport(class[m - 1], rs[m].outcome)
             ELSE class[m - 1]
    BY <1>7
  <2>2. 0 \in 0..n /\ \A m \in 1..n : m # 0
    OBVIOUS
  <2> QED
    BY <1>2, <2>1, <2>2 DEF VerificationStep
<1>9. \A m \in 0..n : class[m] \in MutationOutcome
  <2> DEFINE S == {m \in 0..n : class[m] \in MutationOutcome}
  <2>1. 0 \in S
    BY <1>2, <1>8
  <2>2. ASSUME NEW m \in 0..(n - 1), m \in S PROVE m + 1 \in S
    <3>1. m + 1 \in 1..n /\ m + 1 \in 0..n /\ (m + 1) - 1 = m
      OBVIOUS
    <3>2. class[m + 1] = VerificationStep(op, rs[m + 1], class[m]) /\ rs[m + 1] \in Report
      BY <1>8, <3>1
    <3>3. class[m + 1] \in MutationOutcome
      BY <2>2, <3>2 DEF VerificationStep, AfterVerificationReport, MutationOutcome, Report, Outcomes
    <3> QED
      BY <3>1, <3>3
  <2> HIDE DEF S
  <2>3. \A m \in 0..n : m \in S
    BY <2>1, <2>2, IntervalInduction
  <2> QED
    BY <2>3 DEF S
<1>10. class \in [0..n -> MutationOutcome]
  BY <1>7, <1>9
<1> QED
  BY <1>1, <1>8, <1>10 DEF VerificationReading

\* The reports as a function, and how the ledger reads them.
LEMMA ReportsRead ==
  ASSUME NEW rs \in Seq(Report)
  PROVE  \E n \in Nat :
           /\ rs \in [1..n -> Report] /\ DOMAIN rs = 1..n
           /\ \A op, u : Classified(op, rs, u) =
                AfterLastReport(VerificationPass(MutationPass(op, rs, n), op, rs, n), u)
<1>1. Len(rs) \in Nat /\ rs \in [1..Len(rs) -> Report] /\ DOMAIN rs = 1..Len(rs)
  OBVIOUS
<1>2. \A op, u : Classified(op, rs, u) =
        AfterLastReport(VerificationPass(MutationPass(op, rs, Len(rs)), op, rs, Len(rs)), u)
  BY DEF Classified
<1> QED
  BY <1>1, <1>2, Zenon

\* No report of a finished run makes an entry Duplicate, and an acknowledgement of
\* the mutation settles what the first pass says.
LEMMA MutationPassAcks ==
  ASSUME NEW op, NEW n \in Nat, NEW rs \in [1..n -> Report]
  PROVE  /\ MutationPass(op, rs, n) \in MutationOutcome \ {"Duplicate"}
         /\ (\E m \in 1..n : rs[m] = [op |-> op, phase |-> "Mutation", outcome |-> "Acked"])
              <=> MutationPass(op, rs, n) = "Acked"
<1>0. PICK class : MutationReading(class, op, rs, n)
  BY MutationPassReads
<1>1. /\ class \in [0..n -> MutationOutcome] /\ class[0] = "Dispatched"
      /\ \A m \in 1..n : class[m] = MutationStep(op, rs[m], class[m - 1])
      /\ MutationPass(op, rs, n) = class[n]
  BY <1>0 DEF MutationReading
<1> DEFINE AckedBy(j) ==
             \E m \in 1..j : rs[m] = [op |-> op, phase |-> "Mutation", outcome |-> "Acked"]
           S == {j \in 0..n : class[j] # "Duplicate" /\ (AckedBy(j) <=> class[j] = "Acked")}
<1>2. 0 \in S
  BY <1>1
<1>3. ASSUME NEW j \in 0..(n - 1), j \in S PROVE j + 1 \in S
  <2>1. /\ j + 1 \in 1..n /\ j + 1 \in 0..n /\ (j + 1) - 1 = j
        /\ \A m \in 1..(j + 1) : m = j + 1 \/ m \in 1..j
        /\ 1..j \subseteq 1..(j + 1) /\ j + 1 \in 1..(j + 1)
    OBVIOUS
  <2>2. rs[j + 1] \in Report /\ class[j + 1] = MutationStep(op, rs[j + 1], class[j])
    BY <1>1, <2>1
  <2>3. AckedBy(j + 1) <=>
          AckedBy(j) \/ rs[j + 1] = [op |-> op, phase |-> "Mutation", outcome |-> "Acked"]
    BY <2>1
  <2>4. rs[j + 1] = [op |-> op, phase |-> "Mutation", outcome |-> "Acked"] <=>
          rs[j + 1].op = op /\ rs[j + 1].phase = "Mutation" /\ rs[j + 1].outcome = "Acked"
    BY <2>2 DEF Report
  <2>5. class[j + 1] # "Duplicate" /\ (class[j + 1] = "Acked" <=>
          class[j] = "Acked" \/
            (rs[j + 1].op = op /\ rs[j + 1].phase = "Mutation" /\ rs[j + 1].outcome = "Acked"))
    BY <1>3, <2>2 DEF MutationStep, AfterMutationReport, Report, Outcomes
  <2> HIDE DEF AckedBy
  <2> QED
    BY <1>3, <2>1, <2>3, <2>4, <2>5
<1>4. n \in S
  <2> HIDE DEF S
  <2>1. \A j \in 0..n : j \in S
    BY <1>2, <1>3, IntervalInduction
  <2>2. n \in 0..n
    OBVIOUS
  <2> QED
    BY <2>1, <2>2
<1>5. class[n] \in MutationOutcome
  BY <1>1
<1> QED
  BY <1>1, <1>4, <1>5

\* What the second pass makes of an entry: acknowledged only if the first pass or a
\* read did so; and acknowledged from some point on if it is there and no later
\* read says otherwise.
LEMMA VerificationPassAcks ==
  ASSUME NEW mutated \in MutationOutcome \ {"Duplicate"}, NEW op, NEW n \in Nat,
         NEW rs \in [1..n -> Report]
  PROVE  /\ VerificationPass(mutated, op, rs, n) \in MutationOutcome \ {"Duplicate"}
         /\ VerificationPass(mutated, op, rs, n) = "Acked" =>
               \/ mutated = "Acked"
               \/ \E m \in 1..n :
                    rs[m] = [op |-> op, phase |-> "Verification", outcome |-> "Acked"]
         /\ \A from \in 0..n :
              /\ IF from = 0 THEN mutated = "Acked"
                 ELSE rs[from] = [op |-> op, phase |-> "Verification", outcome |-> "Acked"]
              /\ \A m \in 1..n : from < m /\ rs[m].op = op /\ rs[m].phase = "Verification"
                                => rs[m].outcome = "Acked"
              => VerificationPass(mutated, op, rs, n) = "Acked"
<1>0. PICK class : VerificationReading(class, mutated, op, rs, n)
  <2>1. mutated \in MutationOutcome
    OBVIOUS
  <2> QED
    BY <2>1, VerificationPassReads
<1>1. /\ class \in [0..n -> MutationOutcome] /\ class[0] = mutated
      /\ \A m \in 1..n : class[m] = VerificationStep(op, rs[m], class[m - 1])
      /\ VerificationPass(mutated, op, rs, n) = class[n]
  BY <1>0 DEF VerificationReading
<1>n. n \in 0..n
  OBVIOUS
<1>s. ASSUME NEW j \in 0..(n - 1)
      PROVE  /\ j + 1 \in 1..n /\ j + 1 \in 0..n /\ j \in 0..n
             /\ rs[j + 1] \in Report /\ class[j + 1] = VerificationStep(op, rs[j + 1], class[j])
             /\ class[j] # "Duplicate" => class[j + 1] # "Duplicate"
  <2>1. j + 1 \in 1..n /\ j + 1 \in 0..n /\ (j + 1) - 1 = j
    OBVIOUS
  <2>2. rs[j + 1] \in Report /\ class[j + 1] = VerificationStep(op, rs[j + 1], class[j])
    BY <1>1, <2>1
  <2> QED
    BY <2>1, <2>2 DEF VerificationStep, AfterVerificationReport, Report, Outcomes
<1>d. class[n] # "Duplicate"
  <2> DEFINE S == {j \in 0..n : class[j] # "Duplicate"}
  <2>1. 0 \in S
    BY <1>1
  <2>2. ASSUME NEW j \in 0..(n - 1), j \in S PROVE j + 1 \in S
    BY <1>s, <2>2
  <2> HIDE DEF S
  <2>3. \A j \in 0..n : j \in S
    BY <2>1, <2>2, IntervalInduction
  <2> QED
    BY <1>n, <2>3 DEF S
<1>2. ASSUME class[n] = "Acked", mutated # "Acked"
      PROVE  \E m \in 1..n : rs[m] = [op |-> op, phase |-> "Verification", outcome |-> "Acked"]
  <2> SUFFICES ASSUME \A m \in 1..n :
                        rs[m] # [op |-> op, phase |-> "Verification", outcome |-> "Acked"]
               PROVE  FALSE
    OBVIOUS
  <2> DEFINE S == {j \in 0..n : class[j] # "Acked"}
  <2>1. 0 \in S
    BY <1>1, <1>2
  <2>2. ASSUME NEW j \in 0..(n - 1), j \in S PROVE j + 1 \in S
    <3>1. ~(rs[j + 1].op = op /\ rs[j + 1].phase = "Verification" /\ rs[j + 1].outcome = "Acked")
      BY <1>s DEF Report
    <3>2. class[j + 1] # "Acked"
      BY <1>s, <2>2, <3>1 DEF VerificationStep, AfterVerificationReport
    <3> QED
      BY <1>s, <3>2
  <2> HIDE DEF S
  <2>3. \A j \in 0..n : j \in S
    BY <2>1, <2>2, IntervalInduction
  <2> QED
    BY <1>2, <1>n, <2>3 DEF S
<1>3. ASSUME NEW from \in 0..n,
             IF from = 0 THEN mutated = "Acked"
             ELSE rs[from] = [op |-> op, phase |-> "Verification", outcome |-> "Acked"],
             \A m \in 1..n : from < m /\ rs[m].op = op /\ rs[m].phase = "Verification"
                              => rs[m].outcome = "Acked"
      PROVE  class[n] = "Acked"
  <2> DEFINE S == {j \in 0..n : class[j] # "Duplicate" /\ (from <= j => class[j] = "Acked")}
  <2>1. 0 \in S
    BY <1>1, <1>3
  <2>2. ASSUME NEW j \in 0..(n - 1), j \in S PROVE j + 1 \in S
    <3>1. CASE from <= j
      <4>1. from < j + 1 /\ class[j] = "Acked"
        BY <2>2, <3>1
      <4>2. class[j + 1] = "Acked"
        BY <1>3, <1>s, <4>1 DEF VerificationStep, AfterVerificationReport
      <4> QED
        BY <1>s, <2>2, <4>2
    <3>2. CASE from = j + 1
      <4>1. rs[j + 1] = [op |-> op, phase |-> "Verification", outcome |-> "Acked"]
        BY <1>3, <3>2
      <4>2. class[j + 1] = "Acked"
        BY <1>s, <2>2, <4>1 DEF VerificationStep, AfterVerificationReport
      <4> QED
        BY <1>s, <2>2, <4>2
    <3>3. CASE j + 1 < from
      BY <1>s, <2>2, <3>3
    <3> QED
      BY <3>1, <3>2, <3>3
  <2> HIDE DEF S
  <2>3. \A j \in 0..n : j \in S
    BY <2>1, <2>2, IntervalInduction
  <2> QED
    BY <1>n, <2>3 DEF S
<1> QED
  BY <1>1, <1>n, <1>d, <1>2, <1>3

-----------------------------------------------------------------------------
(* A run reported as verified agrees with what it is held to                *)

Checked == \A k \in DOMAIN Expected : store[k] = ValueOf(Expected[k])

\* A worker that verifies has found every key it has read; nothing writes behind
\* its back, and a worker that left Ok has read them all.  The last segment is the
\* end of the main loop, and a verifier reports on keys only, so that what the run
\* is held to does not move under its own reports.
CheckInv ==
  /\ pc = "Poll" /\ worker.phase = "Verifying" =>
       \A k \in DOMAIN Expected \ worker.unread : store[k] = ValueOf(Expected[k])
  /\ pc = "Poll" /\ ~Alive /\ worker.code = "Ok" => Checked
  /\ pc = "Settle" /\ status = "Ok" => Checked
  /\ mode = "Verifier" /\ pc \in {"Poll", "Settle"} => MutationReports(reports) = {}
  /\ mode = "Verifier" /\ pc = "Poll" => worker.index = NumOps
  /\ mode = "Verifier" => pc \in {"Launch", "Poll", "Settle", "Conclude", "Done"}
  /\ (pc \in {"Conclude", "Done"} \/ mode = "Segment") /\ flags["recoveryVerified"] =>
       pc \in {"LoopExit", "Conclude", "Done"} /\ Checked

\* What the run is held to and what it is measured by stay as they are.
LEMMA CheckedAlone ==
  ASSUME UNCHANGED <<mode, flags, observed, store>>
  PROVE  Expected' = Expected /\ Checked' = Checked
<1>1. Expected' = Expected
  BY DEF Expected
<1> QED
  BY <1>1 DEF Checked

\* Reports of a verification change nothing in what was acknowledged.
LEMMA VerificationAcksNothing ==
  ASSUME NEW first \in Seq(Report), NEW second \in Seq(Report), MutationReports(second) = {}
  PROVE  AckedExpectations(first \o second) = AckedExpectations(first)
<1>1. MutationReports(first \o second) = MutationReports(first)
  <2>1. /\ DOMAIN first = 1..Len(first) /\ DOMAIN second = 1..Len(second)
        /\ DOMAIN (first \o second) = 1..(Len(first) + Len(second))
        /\ Len(first) \in Nat /\ Len(second) \in Nat
    OBVIOUS
  <2>2. \A n \in DOMAIN first : (first \o second)[n] = first[n]
    BY <2>1
  <2>3. ASSUME NEW n \in DOMAIN (first \o second), n \notin DOMAIN first
        PROVE  n - Len(first) \in DOMAIN second /\ (first \o second)[n] = second[n - Len(first)]
    BY <2>1, <2>3
  <2>4. \A m \in DOMAIN second : second[m].phase # "Mutation"
    BY DEF MutationReports
  <2>5. DOMAIN first \subseteq DOMAIN (first \o second)
    BY <2>1
  <2> QED
    BY <2>2, <2>3, <2>4, <2>5 DEF MutationReports
<1> QED
  BY <1>1 DEF AckedExpectations, ReportedAs

\* A report of the verification is none of a mutation.
LEMMA LoggedVerification ==
  ASSUME reports \in Seq(Report), NEW i, NEW result, Log(i, "Verification", result),
         MutationReports(reports) = {}
  PROVE  MutationReports(reports') = {}
<1> DEFINE r == [op |-> i, phase |-> "Verification", outcome |-> result]
<1>1. reports' = Append(reports, r) /\ r.phase = "Verification"
  BY DEF Log
<1>2. /\ DOMAIN reports = 1..Len(reports) /\ Len(reports) \in Nat
      /\ DOMAIN reports' = 1..(Len(reports) + 1)
      /\ reports'[Len(reports) + 1] = r
      /\ \A n \in DOMAIN reports : reports'[n] = reports[n]
  BY <1>1
<1>3. \A n \in DOMAIN reports : reports[n].phase # "Mutation"
  BY DEF MutationReports
<1>4. \A n \in DOMAIN reports' : n \in DOMAIN reports \/ n = Len(reports) + 1
  BY <1>2
<1> QED
  BY <1>1, <1>2, <1>3, <1>4 DEF MutationReports

LEMMA CheckInit == Init /\ DOMAIN FaultAt # {} => CheckInv
BY DEF Init, Flags, CheckInv

\* A step of worker or engine that leaves the verification alone.
LEMMA UncheckedStep ==
  ASSUME CheckInv, pc = "Poll", UNCHANGED controlVars, UNCHANGED reports,
         worker'.index = worker.index,
         worker'.phase = "Verifying" => worker' = worker /\ UNCHANGED store,
         worker'.phase = "Exited" =>
           worker'.code # "Ok" \/ (worker' = worker /\ UNCHANGED store)
  PROVE  CheckInv'
<1>1. UNCHANGED <<pc, mode, flags, observed, status>> /\ Expected' = Expected
  BY ControllerAlone DEF controlVars
<1>2. MutationReports(reports)' = MutationReports(reports)
  BY DEF MutationReports
<1>3. mode = "Segment" => ~flags["recoveryVerified"]
  BY DEF CheckInv
<1>4. CASE worker' = worker /\ UNCHANGED store
  BY <1>1, <1>2, <1>4 DEF CheckInv, Checked, Alive
<1>5. CASE worker'.phase # "Verifying" /\ (worker'.phase = "Exited" => worker'.code # "Ok")
  BY <1>1, <1>2, <1>3, <1>5 DEF CheckInv, Alive
<1> QED
  BY <1>4, <1>5

\* A worker that reads keys: the store stays, and what it has read agrees.
LEMMA ReadingStep ==
  ASSUME CheckInv, pc = "Poll", UNCHANGED controlVars, UNCHANGED store,
         worker'.index = worker.index,
         mode = "Verifier" => MutationReports(reports') = {},
         worker'.phase = "Verifying" =>
           \A k \in DOMAIN Expected \ worker'.unread : store[k] = ValueOf(Expected[k]),
         worker'.phase = "Exited" /\ worker'.code = "Ok" => Checked
  PROVE  CheckInv'
<1>1. /\ UNCHANGED <<pc, mode, flags, observed, status>> /\ Expected' = Expected
      /\ Checked' = Checked
  BY ControllerAlone, CheckedAlone DEF controlVars
<1>2. mode = "Segment" => ~flags["recoveryVerified"]
  BY DEF CheckInv
<1> QED
  BY <1>1, <1>2 DEF CheckInv, Alive

LEMMA EngineKeepsCheck ==
  ASSUME RunInv, CheckInv, Engine, pc = "Poll", UNCHANGED controlVars
  PROVE  CheckInv'
<1>0. /\ {"phase", "failpoint", "index", "todo", "failed", "unreported", "unread", "doomed",
          "ready", "held", "code"} \subseteq DOMAIN worker
      /\ worker.index \in 0..NumOps /\ NumOps \in Nat
      /\ TypeOK /\ WorkerInv /\ reports \in Seq(Report)
  BY PlanTypes DEF RunInv, TypeOK, WorkerType
<1>m. mode = "Verifier" => MutationReports(reports) = {} /\ worker.index = NumOps
  BY DEF CheckInv
<1>1. CASE \/ OpenFenced \/ CrashOnStep(CrashAt) \/ InterruptOnStep(InterruptAt)
           \/ RejectChunk(InterruptAt) \/ CrashThreadExits \/ ChunkUnreadable
           \/ CrashAfterStep(CrashAfterAt) \/ Abort
  <2>1. /\ worker'.index = worker.index /\ worker'.phase = "Exited" /\ worker'.code # "Ok"
        /\ UNCHANGED reports
    BY <1>0, <1>1 DEF OpenFenced, CrashOnStep, InterruptOnStep, RejectChunk, CrashThreadExits,
       ChunkUnreadable, CrashAfterStep, Abort, Exit, ExitHeld
  <2> QED
    BY <2>1, UncheckedStep
<1>2. CASE \/ OpenReady \/ BeginChunk(CrashAt, InterruptAt) \/ EndChunk(CrashAfterAt)
           \/ (\E tx \in worker.todo : CommitTransaction(tx) \/ FailTransaction(tx))
           \/ TakeSentinel \/ ConfigureFailpoint \/ (\E k \in Keys : LoseValue(k))
  <2>1. /\ worker'.index = worker.index /\ UNCHANGED reports
        /\ worker'.phase \notin {"Verifying", "Exited"}
    BY <1>0, <1>2 DEF OpenReady, BeginChunk, EndChunk, CommitTransaction, FailTransaction,
       TakeSentinel, ConfigureFailpoint, LoseValue
  <2> QED
    BY <2>1, UncheckedStep
<1>3. CASE EmitOutcome
  <2>1. worker.phase = "Emitting" /\ worker.index < NumOps
    BY <1>0, <1>3 DEF EmitOutcome, WorkerInv
  <2>2. mode # "Verifier" /\ mode \in {"Segment", "Verifier"}
    BY <1>0, <1>m, <2>1 DEF TypeOK
  <2>3. /\ worker'.phase # "Verifying"
        /\ worker'.phase = "Exited" => worker'.code # "Ok"
    BY <1>0, <1>3 DEF EmitOutcome, ExitHeld
  <2>4. UNCHANGED <<pc, mode, flags, status>> /\ ~flags["recoveryVerified"]
    BY <2>2 DEF CheckInv, controlVars
  <2> QED
    BY <2>2, <2>3, <2>4 DEF CheckInv, Alive
<1>4. CASE LeaseExpires
  <2>1. UNCHANGED <<worker, store, reports>>
    BY <1>4 DEF LeaseExpires
  <2> QED
    BY <2>1, UncheckedStep
<1>5. CASE BeginVerification(Expected)
  <2>1. /\ UNCHANGED <<store, reports>> /\ worker'.index = worker.index
        /\ worker'.phase = "Verifying" /\ worker'.unread = DOMAIN Expected
    BY <1>0, <1>5 DEF BeginVerification
  <2> QED
    BY <1>m, <2>1, ReadingStep
<1>6. CASE VerifyKey(Expected)
  <2> DEFINE k == Min(worker.unread)
  <2>1. /\ UNCHANGED store /\ worker'.index = worker.index /\ worker'.phase = "Verifying"
        /\ worker'.unread = worker.unread \ {k} /\ worker.phase = "Verifying"
        /\ store[k] = ValueOf(Expected[k])
        /\ Log(Expected[k], "Verification", "Acked") \/ UNCHANGED reports
    BY <1>0, <1>6 DEF VerifyKey
  <2>2. mode = "Verifier" => MutationReports(reports') = {}
    BY <1>0, <1>m, <2>1, LoggedVerification
  <2>3. \A x \in DOMAIN Expected \ worker.unread : store[x] = ValueOf(Expected[x])
    BY <2>1 DEF CheckInv
  <2> HIDE DEF k
  <2>4. \A x \in DOMAIN Expected \ worker'.unread : store[x] = ValueOf(Expected[x])
    BY <2>1, <2>3
  <2> QED
    BY <2>1, <2>2, <2>4, ReadingStep
<1>7. CASE MismatchKey(Expected)
  <2>1. /\ UNCHANGED store /\ worker'.index = worker.index /\ worker'.phase = "Exited"
        /\ worker'.code = "Failed"
        /\ Log(Expected[Min(worker.unread)], "Verification", "Failed")
    BY <1>0, <1>7 DEF MismatchKey, Exit
  <2>2. mode = "Verifier" => MutationReports(reports') = {}
    BY <1>0, <1>m, <2>1, LoggedVerification
  <2> QED
    BY <2>1, <2>2, ReadingStep
<1>8. CASE ShutDown
  <2>1. /\ UNCHANGED <<store, reports>> /\ worker'.index = worker.index
        /\ worker'.phase = "Exited" /\ worker.phase = "Verifying" /\ worker.unread = {}
    BY <1>0, <1>8 DEF ShutDown, Exit
  <2>2. Checked
    BY <2>1 DEF CheckInv, Checked
  <2> QED
    BY <1>m, <2>1, <2>2, ReadingStep
<1> QED
  BY <1>1, <1>2, <1>3, <1>4, <1>5, <1>6, <1>7, <1>8 DEF Engine, WorkerStep

\* What a settled attempt of the main loop leaves: only a verified end of the plan
\* is marked as verified.
LEMMA SegmentKeepsCheck ==
  ASSUME RunInv, CheckInv,
         \/ RetryFenced \/ StrikeFault \/ FaultNotApplied
         \/ FinishSegments \/ RetrySegment \/ AbandonSegments
  PROVE  CheckInv'
<1>0. TypeOK /\ NumOps \in Nat
  BY PlanTypes DEF RunInv
<1>1. /\ pc = "Settle" /\ mode = "Segment" /\ mode' = "Segment"
      /\ UNCHANGED <<store, status>> /\ ~flags["recoveryVerified"]
      /\ pc' \in {"Launch", "LoopExit"}
  BY DEF RetryFenced, StrikeFault, FaultNotApplied, FinishSegments, RetrySegment,
     AbandonSegments, SettlesSegment, Settled, ContinueAt, LeaveLoop, CheckInv
<1>2. CASE ~FinishSegments
  <2>1. ~flags'["recoveryVerified"]
    BY <1>0, <1>1, <1>2 DEF RetryFenced, StrikeFault, FaultNotApplied, RetrySegment,
       AbandonSegments, AbandonedFlags, Raise, TypeOK, Flags
  <2> QED
    BY <1>1, <2>1 DEF CheckInv
<1>3. CASE FinishSegments
  <2>1. Checked /\ pc' = "LoopExit"
    BY <1>0, <1>1, <1>3 DEF FinishSegments, ContinueAt, CheckInv
  <2>2. Expected = FinalExpectations /\ Expected' = FinalExpectations
    BY <1>1 DEF Expected
  <2>3. Checked'
    BY <1>1, <2>1, <2>2 DEF Checked
  <2> QED
    BY <1>1, <2>1, <2>3 DEF CheckInv
<1> QED
  BY <1>2, <1>3

LEMMA VerifierKeepsCheck ==
  ASSUME RunInv, CheckInv, RetryVerifier \/ FinishVerifier
  PROVE  CheckInv'
<1>0. TypeOK /\ reports \in Seq(Report) /\ observed \in Seq(Report)
  BY DEF RunInv, TypeOK, WorkerType
<1>1. /\ pc = "Settle" /\ mode = "Verifier" /\ mode' = "Verifier"
      /\ UNCHANGED <<store, status>> /\ pc' \in {"Launch", "Conclude"}
  BY DEF RetryVerifier, FinishVerifier, SettlesVerifier, Settled
<1>2. CASE RetryVerifier
  <2>1. pc' = "Launch"
    BY <1>2 DEF RetryVerifier
  <2> QED
    BY <1>1, <2>1 DEF CheckInv
<1>3. CASE FinishVerifier
  <2>1. /\ pc' = "Conclude" /\ observed' = observed \o reports
        /\ flags' = AfterVerifier(flags, status)
    BY <1>3 DEF FinishVerifier, KeepReports
  <2>2. /\ flags'["recoveryVerified"] = (status = "Ok")
        /\ flags'["executionIncomplete"] = flags["executionIncomplete"]
    BY <1>0, <2>1 DEF AfterVerifier, TypeOK, Flags
  <2>3. AckedExpectations(observed') = AckedExpectations(observed)
    BY <1>0, <1>1, <2>1, VerificationAcksNothing DEF CheckInv
  <2>4. Expected' = Expected
    BY <1>1, <2>2, <2>3 DEF Expected
  <2>5. status = "Ok" => Checked
    BY <1>1 DEF CheckInv
  <2>6. Checked' = Checked
    BY <1>1, <2>4 DEF Checked
  <2> QED
    BY <1>1, <2>1, <2>2, <2>5, <2>6 DEF CheckInv
<1> QED
  BY <1>2, <1>3

LEMMA CheckStep == RunInv /\ CheckInv /\ [Next]_vars => CheckInv'
<1> SUFFICES ASSUME RunInv, CheckInv, [Next]_vars PROVE CheckInv'
  OBVIOUS
<1>0. TypeOK /\ {"phase", "code", "index"} \subseteq DOMAIN worker
  BY DEF RunInv, TypeOK, WorkerType
<1>1. CASE Launch
  <2>1. /\ pc = "Launch" /\ pc' = "Poll" /\ UNCHANGED <<mode, flags>>
        /\ worker'.phase \in {"Activating", "Opening"} /\ reports' = <<>>
        /\ worker'.index = IF mode = "Segment" THEN start ELSE NumOps
    BY <1>1 DEF Launch, Spawned, NoWorker, FirstPhase
  <2>2. MutationReports(reports') = {}
    BY <2>1 DEF MutationReports
  <2> QED
    BY <1>0, <2>1, <2>2 DEF CheckInv, Alive
<1>2. CASE ObserveReadiness \/ Tick \/ DeadlinePasses \/ UNCHANGED vars
  <2>1. UNCHANGED <<pc, mode, flags, observed, status, worker, store, reports>>
    BY <1>2 DEF ObserveReadiness, Tick, DeadlinePasses, vars, controlVars, workerVars
  <2>2. Expected' = Expected /\ Checked' = Checked
    BY <2>1, CheckedAlone
  <2>3. MutationReports(reports)' = MutationReports(reports)
    BY <2>1 DEF MutationReports
  <2> QED
    BY <2>1, <2>2, <2>3 DEF CheckInv, Alive
<1>3. CASE Reap
  <2>1. /\ pc = "Poll" /\ pc' = "Settle" /\ ~Alive /\ status' = worker.code
        /\ UNCHANGED <<mode, flags, observed, worker, store, reports>>
    BY <1>3 DEF Reap, EndPoll, workerVars
  <2>2. Checked' = Checked
    BY <2>1, CheckedAlone
  <2>3. MutationReports(reports)' = MutationReports(reports)
    BY <2>1 DEF MutationReports
  <2> QED
    BY <1>0, <2>1, <2>2, <2>3 DEF CheckInv, TypeOK
<1>4. CASE KillUnready \/ KillAtDeadline \/ KillStalled
  <2>1. /\ pc = "Poll" /\ pc' = "Settle" /\ status' = "TimedOut"
        /\ UNCHANGED <<mode, flags, observed, store, reports>>
    BY <1>4 DEF KillUnready, KillAtDeadline, KillStalled, Kill, EndPoll, Killed
  <2>2. MutationReports(reports)' = MutationReports(reports)
    BY <2>1 DEF MutationReports
  <2> QED
    BY <1>0, <2>1, <2>2 DEF CheckInv, TypeOK
<1>5. CASE RetryFenced \/ StrikeFault \/ FaultNotApplied
             \/ FinishSegments \/ RetrySegment \/ AbandonSegments
  BY <1>5, SegmentKeepsCheck
<1>6. CASE ChooseVerifier
  <2>1. /\ pc = "LoopExit" /\ UNCHANGED <<flags, observed, store>>
        /\ \/ pc' = "Launch" /\ mode' = "Verifier"
           \/ pc' = "Conclude" /\ UNCHANGED mode
    BY <1>6 DEF ChooseVerifier, workerVars
  <2>2. mode = "Segment"
    BY <1>0, <2>1 DEF CheckInv, TypeOK
  <2>3. CASE pc' = "Launch" /\ mode' = "Verifier"
    BY <2>3 DEF CheckInv
  <2>4. CASE pc' = "Conclude" /\ UNCHANGED mode
    <3>1. Checked' = Checked
      BY <2>1, <2>4, CheckedAlone
    <3> QED
      BY <2>1, <2>2, <2>4, <3>1 DEF CheckInv
  <2> QED
    BY <2>1, <2>3, <2>4
<1>7. CASE RetryVerifier \/ FinishVerifier
  BY <1>7, VerifierKeepsCheck
<1>8. CASE Conclude
  <2>1. /\ pc = "Conclude" /\ pc' = "Done" /\ UNCHANGED <<mode, observed, store>>
        /\ flags' = [flags EXCEPT !["verificationIncomplete"] = FinalIncomplete]
    BY <1>8 DEF Conclude, workerVars
  <2>2. /\ flags'["recoveryVerified"] = flags["recoveryVerified"]
        /\ flags'["executionIncomplete"] = flags["executionIncomplete"]
    BY <1>0, <2>1 DEF TypeOK, Flags
  <2>3. Expected' = Expected
    BY <2>1, <2>2 DEF Expected
  <2>4. Checked' = Checked
    BY <2>1, <2>3 DEF Checked
  <2> QED
    BY <2>1, <2>2, <2>4 DEF CheckInv
<1>9. CASE Engine /\ pc = "Poll" /\ UNCHANGED controlVars
  BY <1>9, EngineKeepsCheck
<1> QED
  BY <1>1, <1>2, <1>3, <1>4, <1>5, <1>6, <1>7, <1>8, <1>9 DEF Next, Controller

\* A run reported as verified agrees with what it is held to: a verifier held to
\* the acknowledged part of the plan is held to the same when the verdict is given,
\* and one that is retried or fails takes back what a segment verified.  A plan
\* without faults is reported verified from the start, and is left out.
THEOREM VerifiedMeansCheckedTheorem ==
  DOMAIN FaultAt # {} => (Spec => []VerifiedMeansChecked)
<1> SUFFICES ASSUME DOMAIN FaultAt # {} PROVE Spec => []VerifiedMeansChecked
  OBVIOUS
<1>1. Init => CheckInv
  BY CheckInit
<1>2. CheckInv => VerifiedMeansChecked
  BY DEF CheckInv, VerifiedMeansChecked, Checked
<1> QED
  BY <1>1, <1>2, CheckStep, RunInvariant, PTL DEF Spec

-----------------------------------------------------------------------------
(* The lines of a report file                                               *)

Lines(rs) == {rs[n] : n \in DOMAIN rs}

LEMMA LinesAppended ==
  ASSUME NEW rs \in Seq(Report), NEW r \in Report
  PROVE  Lines(Append(rs, r)) = Lines(rs) \cup {r}
<1> DEFINE more == Append(rs, r)
<1>1. /\ Len(rs) \in Nat /\ DOMAIN rs = 1..Len(rs)
      /\ DOMAIN more = 1..(Len(rs) + 1)
      /\ more[Len(rs) + 1] = r
      /\ \A n \in 1..Len(rs) : more[n] = rs[n]
  OBVIOUS
<1>2. \A n \in 1..(Len(rs) + 1) : n \in 1..Len(rs) \/ n = Len(rs) + 1
  BY <1>1
<1>3. 1..Len(rs) \subseteq 1..(Len(rs) + 1) /\ Len(rs) + 1 \in 1..(Len(rs) + 1)
  BY <1>1
<1> HIDE DEF more
<1>4. Lines(more) = Lines(rs) \cup {r}
  BY <1>1, <1>2, <1>3 DEF Lines
<1> QED
  BY <1>4 DEF more

LEMMA LinesKept ==
  ASSUME NEW first \in Seq(Report), NEW second \in Seq(Report)
  PROVE  Lines(first \o second) = Lines(first) \cup Lines(second)
<1> DEFINE both == first \o second
<1>1. /\ Len(first) \in Nat /\ Len(second) \in Nat
      /\ DOMAIN first = 1..Len(first) /\ DOMAIN second = 1..Len(second)
      /\ DOMAIN both = 1..(Len(first) + Len(second))
      /\ \A n \in 1..Len(first) : both[n] = first[n]
      /\ \A n \in 1..Len(second) : both[n + Len(first)] = second[n]
  OBVIOUS
<1>2. /\ \A n \in 1..Len(first) : n \in 1..(Len(first) + Len(second))
      /\ \A n \in 1..Len(second) : n + Len(first) \in 1..(Len(first) + Len(second))
      /\ \A n \in 1..(Len(first) + Len(second)) : n \notin 1..Len(first) =>
           n - Len(first) \in 1..Len(second) /\ n = (n - Len(first)) + Len(first)
  BY <1>1
<1> HIDE DEF both
<1>3. Lines(first) \subseteq Lines(both) /\ Lines(second) \subseteq Lines(both)
  BY <1>1, <1>2 DEF Lines
<1>4. Lines(both) \subseteq Lines(first) \cup Lines(second)
  <2>1. ASSUME NEW n \in DOMAIN both PROVE both[n] \in Lines(first) \cup Lines(second)
    <3>1. CASE n \in 1..Len(first)
      BY <1>1, <3>1 DEF Lines
    <3>2. CASE n \notin 1..Len(first)
      <4> DEFINE m == n - Len(first)
      <4>1. m \in 1..Len(second) /\ both[m + Len(first)] = both[n]
        BY <1>1, <1>2, <2>1, <3>2
      <4> HIDE DEF m
      <4> QED
        BY <1>1, <4>1 DEF Lines
    <3> QED
      BY <3>1, <3>2
  <2> QED
    BY <2>1 DEF Lines
<1> QED
  BY <1>3, <1>4 DEF both

LEMMA LinesAreReports ==
  ASSUME NEW rs \in Seq(Report)
  PROVE  /\ Lines(rs) \subseteq Report
         /\ MutationReports(rs) = {r \in Lines(rs) : r.phase = "Mutation"}
<1>1. \A n \in DOMAIN rs : rs[n] \in Report
  OBVIOUS
<1> QED
  BY <1>1 DEF Lines, MutationReports

LEMMA LoggedLine ==
  ASSUME reports \in Seq(Report), NEW i \in Steps, NEW phase \in {"Mutation", "Verification"},
         NEW o \in Outcomes, Log(i, phase, o)
  PROVE  Lines(reports') = Lines(reports) \cup {[op |-> i, phase |-> phase, outcome |-> o]}
<1>1. [op |-> i, phase |-> phase, outcome |-> o] \in Report
  BY DEF Report
<1> QED
  BY <1>1, LinesAppended DEF Log

\* An entry is acknowledged only by a report that says so.
LEMMA AckedIsReported ==
  ASSUME NEW op, NEW rs \in Seq(Report), NEW u \in {"Unknown", "Missing"},
         Classified(op, rs, u) = "Acked"
  PROVE  \E r \in Lines(rs) : r.op = op /\ r.outcome = "Acked"
<1>1. PICK n \in Nat :
         /\ rs \in [1..n -> Report] /\ DOMAIN rs = 1..n
         /\ \A o, v : Classified(o, rs, v) =
              AfterLastReport(VerificationPass(MutationPass(o, rs, n), o, rs, n), v)
  BY ReportsRead
<1> DEFINE mutated == MutationPass(op, rs, n)
<1>2. VerificationPass(mutated, op, rs, n) = "Acked"
  BY <1>1 DEF AfterLastReport
<1>3. mutated \in MutationOutcome \ {"Duplicate"}
  BY <1>1, MutationPassAcks
<1>4. \E m \in 1..n : \E phase : rs[m] = [op |-> op, phase |-> phase, outcome |-> "Acked"]
  <2>1. CASE mutated = "Acked"
    BY <1>1, <2>1, MutationPassAcks
  <2>2. CASE mutated # "Acked"
    <3> HIDE DEF mutated
    <3>1. VerificationPass(mutated, op, rs, n) = "Acked" =>
            \/ mutated = "Acked"
            \/ \E m \in 1..n : rs[m] = [op |-> op, phase |-> "Verification", outcome |-> "Acked"]
      BY <1>1, <1>3, VerificationPassAcks
    <3> QED
      BY <1>2, <2>2, <3>1
  <2> QED
    BY <2>1, <2>2
<1> QED
  BY <1>1, <1>4 DEF Lines

LEMMA ClassifiedType ==
  ASSUME NEW op, NEW rs \in Seq(Report), NEW u \in {"Unknown", "Missing"}
  PROVE  Classified(op, rs, u) \in {"Acked", "Failed", "Unknown", "Missing"}
<1>1. PICK n \in Nat :
         /\ rs \in [1..n -> Report] /\ DOMAIN rs = 1..n
         /\ \A o, v : Classified(o, rs, v) =
              AfterLastReport(VerificationPass(MutationPass(o, rs, n), o, rs, n), v)
  BY ReportsRead
<1> DEFINE mutated == MutationPass(op, rs, n)
<1>2. mutated \in MutationOutcome \ {"Duplicate"}
  BY <1>1, MutationPassAcks
<1>3. VerificationPass(mutated, op, rs, n) \in MutationOutcome \ {"Duplicate"}
  <2> HIDE DEF mutated
  <2> QED
    BY <1>1, <1>2, VerificationPassAcks
<1> HIDE DEF mutated
<1> QED
  BY <1>1, <1>3 DEF AfterLastReport, MutationOutcome, mutated

-----------------------------------------------------------------------------
(* A run that passes met every fault                                        *)

\* The faults that have not struck.
Ahead == DOMAIN FaultAt \ struck
Before(rs) == \A r \in Lines(rs), f \in Ahead : r.op < f

\* A worker that has come to a fault it is to meet is about to be stopped there.
AtFault(f) ==
  /\ worker.index = f
  /\ worker.phase = "Executing" =>
       (worker.doomed /\ Kind # "SnapshotPinnedGc") \/ CrashAfterAt = f
  /\ worker.phase # "Emitting"

\* A segment never gets past a fault that has not struck: no report names it or what
\* lies behind it, and only a run that is cut short leaves the main loop before it.
ApproachInv ==
  /\ Alive => \A f \in Ahead :
       /\ worker.index < f \/ AtFault(f)
       /\ worker.phase = "Emitting" => ChunkEnd(worker.index) <= f
  /\ worker.doomed => Kind # "SnapshotPinnedGc"
  /\ ~Alive /\ worker.code = "Ok" => Ahead = {}

StruckInv ==
  /\ Before(observed)
  /\ pc \in {"Poll", "Settle"} => Before(reports)
  /\ mode = "Segment" /\ pc \in {"Launch", "Poll", "Settle"} =>
       faults = Ahead /\ \A f \in Ahead : start <= f
  /\ mode = "Segment" /\ pc = "Poll" => ApproachInv
  /\ mode = "Segment" /\ pc = "Settle" /\ status = "Ok" => Ahead = {}
  /\ (mode = "Verifier" \/ pc \in {"LoopExit", "Conclude", "Done"}) /\ Ahead # {} =>
       flags["executionIncomplete"]

\* No chunk reaches over a fault that lies behind its first operation.
LEMMA ChunkBeforeFault ==
  ASSUME NEW i \in Steps, NEW f \in DOMAIN FaultAt, i < f
  PROVE  ChunkEnd(i) <= f
<1>1. /\ i \in Nat /\ f \in Nat /\ f \in Steps /\ NumOps \in Nat /\ f < NumOps
  BY PlanTypes DEF Steps
<1>2. CASE Kind = "Pointwise"
  BY <1>1, <1>2 DEF ChunkEnd
<1>3. CASE Kind # "Pointwise"
  <2> DEFINE Ends == {j \in (i + 1)..NumOps : j = NumOps \/ Plan[j].batch # Plan[i].batch}
  <2>1. ChunkEnd(i) = Min(Ends)
    BY <1>3 DEF ChunkEnd
  <2>2. ChunkStart(f)
    BY PlanAssumption DEF WellFormed
  <2>3. f - 1 \in Steps /\ Plan[f].batch # Plan[f - 1].batch /\ f # 0
    BY <1>1, <1>3, <2>2 DEF ChunkStart, Steps
  <2>4. f \in Ends \/ (f - 1 \in Ends /\ f - 1 <= f)
    BY <1>1, <2>3
  <2>5. Ends \subseteq Nat
    BY <1>1
  <2> HIDE DEF Ends
  <2>6. \A j \in Ends : Min(Ends) <= j /\ Min(Ends) \in Nat
    BY <2>5, LeastNatural DEF Min
  <2> QED
    BY <1>1, <2>1, <2>4, <2>6
<1> QED
  BY <1>2, <1>3

\* A resume point lies at most one behind what was reported, and never behind the
\* first operation of the segment or what was refused.
LEMMA ResumeBeforeFault ==
  ASSUME NEW current \in 0..NumOps, NEW rs \in Seq(Report), NEW f \in Steps, current <= f,
         \A r \in Lines(rs) : r.op < f
  PROVE  ResumeAt(current, rs) <= f
<1> DEFINE ends == {current} \cup {r.op + 1 : r \in MutationReports(rs)}
           refused == Refused(rs)
           batch == {j \in Steps : Plan[j].batch = Plan[Min(refused)].batch}
<1>1. \A r \in MutationReports(rs) : r.op \in Steps /\ r.op < f
  BY ReportsNameSteps, LinesAreReports
<1>2. /\ current \in Nat /\ f \in Nat /\ NumOps \in Nat /\ Steps \subseteq Nat
      /\ ends \subseteq 0..NumOps /\ ends # {} /\ \A e \in ends : e <= f
  BY <1>1, PlanTypes DEF Steps
<1>3. CASE refused = {}
  <2>1. Max(ends) \in ends
    BY <1>2, MaxOfNaturals
  <2>2. ResumeAt(current, rs) = Max(ends)
    BY <1>3 DEF ResumeAt, Refused
  <2> QED
    BY <1>2, <2>1, <2>2
<1>4. CASE refused # {}
  <2>1. refused \subseteq Steps /\ \A j \in refused : j < f
    BY <1>1 DEF Refused
  <2> HIDE DEF refused
  <2>2. Min(refused) \in refused
    BY <1>4, <2>1, MinOfSteps
  <2>3. batch \subseteq Nat /\ Min(refused) \in batch
    BY <1>2, <2>1, <2>2
  <2>4. Min(batch) <= Min(refused) /\ Min(batch) \in Nat
    <3> HIDE DEF batch
    <3> QED
      BY <2>3, LeastNatural DEF Min
  <2>5. ResumeAt(current, rs) \in {Min(batch), Min(refused)}
    BY <1>4 DEF ResumeAt, Refused, refused
  <2>6. Min(refused) \in Nat /\ Min(refused) < f
    BY <1>2, <2>1, <2>2
  <2>7. Min(batch) <= f /\ Min(refused) <= f
    BY <1>2, <2>4, <2>6
  <2> QED
    BY <2>5, <2>7
<1> QED
  BY <1>3, <1>4

\* The first fault ahead is the next one.
LEMMA NextIsFirst ==
  ASSUME TypeOK, faults = Ahead, \A f \in Ahead : start <= f,
         NEW g \in Ahead, \A f \in Ahead : g <= f
  PROVE  NextFault = g
<1> DEFINE ahead == {s \in faults : s >= start}
<1>1. ahead = Ahead /\ ahead \subseteq Nat /\ g \in ahead
  BY PlanTypes DEF TypeOK, Ahead
<1> HIDE DEF ahead
<1>2. Min(ahead) \in ahead /\ \A f \in ahead : Min(ahead) <= f
  BY <1>1, LeastNatural DEF Min
<1>3. /\ g \in Nat /\ Min(ahead) \in Nat /\ g <= Min(ahead) /\ Min(ahead) <= g
  BY <1>1, <1>2
<1>4. Min(ahead) = g
  BY <1>3
<1> QED
  BY <1>1, <1>4 DEF NextFault, ahead

LEMMA StruckInit == Init => StruckInv
<1> SUFFICES ASSUME Init PROVE StruckInv
  OBVIOUS
<1>1. /\ mode = "Segment" /\ pc = "Launch" /\ faults = DOMAIN FaultAt /\ struck = {}
      /\ start = 0 /\ observed = <<>>
  BY DEF Init
<1>2. \A f \in DOMAIN FaultAt : f \in Nat /\ start <= f
  <2>1. start = 0
    BY <1>1
  <2>2. DOMAIN FaultAt \subseteq Nat
    BY PlanTypes
  <2> QED
    BY <2>1, <2>2
<1>3. Ahead = DOMAIN FaultAt
  <2>1. struck = {}
    BY <1>1
  <2> QED
    BY <2>1 DEF Ahead
<1>4. DOMAIN observed = {}
  BY <1>1
<1>5. Lines(observed) = {}
  BY <1>4 DEF Lines
<1> QED
  BY <1>1, <1>2, <1>3, <1>5 DEF StruckInv, Before

LEMMA SameAhead ==
  ASSUME UNCHANGED controlVars
  PROVE  Ahead' = Ahead /\ CrashAfterAt' = CrashAfterAt
BY SameControl DEF controlVars, Ahead, CrashAfterAt, Trigger

LEMMA BeforeLogged ==
  ASSUME reports \in Seq(Report), Before(reports), Ahead' = Ahead,
         NEW i \in Steps, NEW phase \in {"Mutation", "Verification"}, NEW o \in Outcomes,
         Log(i, phase, o), \A f \in Ahead : i < f
  PROVE  Before(reports)'
<1>1. Lines(reports') = Lines(reports) \cup {[op |-> i, phase |-> phase, outcome |-> o]}
  BY LoggedLine
<1>2. \A r \in Lines(reports') : r \in Lines(reports) \/ r.op = i
  BY <1>1
<1>3. \A r \in Lines(reports'), f \in Ahead : r.op < f
  BY <1>2 DEF Before
<1> QED
  BY <1>3 DEF Before, Lines

\* A planned kill of a snapshot chunk is the crash of a detached thread, which a quick
\* worker outruns.
NoSnapshotKill ==
  Kind = "SnapshotPinnedGc" => \A f \in DOMAIN FaultAt : FaultAt[f] # "ProcessKill"

\* A worker that begins the chunk of a fault is doomed, or will be stopped behind it.
LEMMA BeginsAtFault ==
  ASSUME RunInv, NoSnapshotKill, mode = "Segment",
         faults = Ahead, \A f \in Ahead : start <= f,
         NEW g \in Ahead, \A f \in Ahead : g <= f,
         worker.index = g, BeginChunk(CrashAt, InterruptAt)
  PROVE  /\ \/ worker.index = CrashAt /\ Kind # "SnapshotPinnedGc"
            \/ CrashAfterAt = g
<1>1. TypeOK /\ g \in DOMAIN FaultAt /\ NextFault = g /\ g # NoStep
  BY NextIsFirst, PlanTypes DEF RunInv, Ahead
<1>2. /\ worker.index # InterruptAt
      /\ Kind = "Pointwise" => worker.index # CrashAt
  BY DEF BeginChunk
<1>3. FaultAt[g] \in {"ProcessKill", "AckBeforeReportCrash"}
  <2>1. FaultAt[g] \in FaultClasses
    BY <1>1, PlanAssumption DEF WellFormed
  <2>2. FaultAt[g] \notin FaultClasses \ {"ProcessKill", "AckBeforeReportCrash"}
    BY <1>1, <1>2 DEF InterruptAt, Trigger
  <2> QED
    BY <2>1, <2>2
<1>4. CASE FaultAt[g] = "ProcessKill"
  BY <1>1, <1>4 DEF CrashAt, Trigger, NoSnapshotKill
<1>5. CASE FaultAt[g] = "AckBeforeReportCrash"
  BY <1>1, <1>5 DEF CrashAfterAt, Trigger
<1> QED
  BY <1>3, <1>4, <1>5

LEMMA EngineKeepsApproach ==
  ASSUME RunInv, ProgressInv, StruckInv, NoSnapshotKill, mode = "Segment", pc = "Poll",
         UNCHANGED controlVars, Engine
  PROVE  ApproachInv' /\ Before(reports)'
<1>0. /\ {"phase", "failpoint", "index", "todo", "failed", "unreported", "unread", "doomed",
          "ready", "held", "code"} \subseteq DOMAIN worker
      /\ worker.index \in 0..NumOps /\ worker.index \in Nat /\ worker.doomed \in BOOLEAN
      /\ start \in 0..NumOps /\ start \in Nat /\ NumOps \in Nat
      /\ TypeOK /\ WorkerInv /\ reports \in Seq(Report)
  BY PlanTypes DEF RunInv, TypeOK, WorkerType
<1>a. /\ Ahead' = Ahead /\ CrashAfterAt' = CrashAfterAt
      /\ Ahead \subseteq Steps /\ Ahead \subseteq DOMAIN FaultAt
      /\ \A f \in Ahead : f \in Nat /\ f < NumOps
  BY SameAhead, PlanTypes DEF Ahead, Steps
<1>b. /\ ApproachInv /\ Before(reports) /\ Position
      /\ faults = Ahead /\ \A f \in Ahead : start <= f
  BY DEF StruckInv, ProgressInv
<1>q. UNCHANGED reports => Before(reports)'
  BY <1>a, <1>b DEF Before, Lines
<1>1. CASE \/ OpenFenced \/ CrashOnStep(CrashAt) \/ InterruptOnStep(InterruptAt)
           \/ RejectChunk(InterruptAt) \/ CrashThreadExits \/ ChunkUnreadable
           \/ CrashAfterStep(CrashAfterAt) \/ Abort
  <2>1. /\ worker'.phase = "Exited" /\ worker'.code # "Ok" /\ worker'.doomed = worker.doomed
        /\ UNCHANGED reports
    BY <1>0, <1>1 DEF OpenFenced, CrashOnStep, InterruptOnStep, RejectChunk, CrashThreadExits,
       ChunkUnreadable, CrashAfterStep, Abort, Exit, ExitHeld
  <2> QED
    BY <1>b, <1>q, <2>1 DEF ApproachInv, Alive
<1>2. CASE OpenReady \/ TakeSentinel \/ ConfigureFailpoint
  <2>1. /\ worker.phase \in {"Activating", "Opening"}
        /\ worker'.phase \notin {"Executing", "Emitting", "Exited"} /\ worker'.doomed = worker.doomed
        /\ worker'.index = worker.index /\ UNCHANGED reports
    BY <1>0, <1>2 DEF OpenReady, TakeSentinel, ConfigureFailpoint
  <2> QED
    BY <1>a, <1>b, <1>q, <2>1 DEF ApproachInv, AtFault, Alive
<1>3. CASE BeginChunk(CrashAt, InterruptAt)
  <2>1. /\ worker.phase = "Running" /\ worker'.phase = "Executing" /\ worker'.index = worker.index
        /\ worker'.doomed = (worker.doomed \/ worker.index = CrashAt) /\ UNCHANGED reports
    BY <1>0, <1>3 DEF BeginChunk
  <2>2. \A f \in Ahead : worker.index <= f
    BY <1>0, <1>a, <1>b, <2>1 DEF ApproachInv, AtFault, Alive
  <2>3. ASSUME NEW g \in Ahead, worker.index = g
        PROVE  (worker.index = CrashAt /\ Kind # "SnapshotPinnedGc") \/ CrashAfterAt = g
    BY <1>3, <1>b, <2>2, <2>3, BeginsAtFault
  <2>4. worker.index = CrashAt => Kind # "SnapshotPinnedGc"
    <3>1. ASSUME worker.index = CrashAt
          PROVE  CrashAt \in DOMAIN FaultAt /\ FaultAt[CrashAt] = "ProcessKill"
      <4>1. CrashAt = NextFault /\ NextFault # NoStep /\ FaultAt[NextFault] \in {"ProcessKill"}
        BY <1>0, <3>1 DEF CrashAt, Trigger, NoStep
      <4> QED
        BY <1>0, <4>1, NextFaultType DEF TypeOK
    <3> QED
      BY <3>1 DEF NoSnapshotKill
  <2>5. ASSUME NEW f \in Ahead PROVE (worker.index < f \/ AtFault(f))'
    <3>1. CASE worker.index < f
      BY <2>1, <3>1
    <3>2. CASE worker.index = f
      BY <1>a, <2>1, <2>3, <3>2 DEF AtFault
    <3> QED
      BY <1>0, <1>a, <2>2, <3>1, <3>2
  <2> QED
    BY <1>a, <1>b, <1>q, <2>1, <2>4, <2>5 DEF ApproachInv, Alive
<1>4. CASE \E tx \in worker.todo : CommitTransaction(tx) \/ FailTransaction(tx)
  <2>1. /\ worker.phase = "Executing" /\ worker'.phase = "Executing"
        /\ worker'.index = worker.index /\ worker'.doomed = worker.doomed /\ UNCHANGED reports
    BY <1>0, <1>4 DEF CommitTransaction, FailTransaction
  <2> QED
    BY <1>a, <1>b, <1>q, <2>1 DEF ApproachInv, AtFault, Alive
<1>5. CASE EndChunk(CrashAfterAt)
  <2>1. /\ worker.phase = "Executing" /\ worker'.phase = "Emitting" /\ worker'.index = worker.index
        /\ worker'.doomed = worker.doomed /\ UNCHANGED reports
        /\ worker.doomed => Kind = "SnapshotPinnedGc"
        /\ CrashAfterAt \notin Chunk(worker.index) /\ worker.index \in Steps
    BY <1>0, <1>5 DEF EndChunk, ChunkExecuted, WorkerInv, Steps
  <2>2. worker.index \in Chunk(worker.index)
    <3>1. ChunkEnd(worker.index) \in (worker.index + 1)..NumOps
      BY <2>1, ChunkEnds
    <3> QED
      BY <1>0, <3>1 DEF Chunk
  <2>3. \A f \in Ahead : worker.index < f
    BY <1>b, <2>1, <2>2 DEF ApproachInv, AtFault, Alive
  <2>4. \A f \in Ahead : ChunkEnd(worker.index) <= f
    BY <1>a, <2>1, <2>3, ChunkBeforeFault
  <2> QED
    BY <1>a, <1>b, <1>q, <2>1, <2>3, <2>4 DEF ApproachInv, Alive
<1>6. CASE EmitOutcome
  <2>1. /\ worker.phase = "Emitting" /\ worker.index \in Steps /\ worker.unreported # {}
        /\ worker.index < NumOps
    BY <1>0, <1>6 DEF EmitOutcome, WorkerInv, Steps
  <2>2. ChunkEnd(worker.index) \in (worker.index + 1)..NumOps /\ ChunkEnd(worker.index) \in Nat
    BY <1>0, <2>1, ChunkEnds
  <2>3. worker.unreported \subseteq Chunk(worker.index)
    BY <1>0, <1>b, <2>1, <2>2 DEF Position, Chunk
  <2>4. Min(worker.unreported) \in Chunk(worker.index) /\ Min(worker.unreported) \in Steps
    BY <2>1, <2>3, ChunkInPlan, MinOfSteps
  <2>5. \A f \in Ahead : Min(worker.unreported) < f /\ ChunkEnd(worker.index) <= f /\ worker.index < f
    <3>1. \A f \in Ahead : ChunkEnd(worker.index) <= f
      BY <1>b, <2>1 DEF ApproachInv, Alive
    <3>2. Min(worker.unreported) < ChunkEnd(worker.index)
      BY <1>0, <2>2, <2>4 DEF Chunk
    <3>3. Min(worker.unreported) \in Nat
      BY <2>4, PlanTypes
    <3>4. worker.index < ChunkEnd(worker.index)
      BY <1>0, <2>2
    <3> QED
      BY <1>0, <1>a, <2>2, <3>1, <3>2, <3>3, <3>4
  <2>6. Before(reports)'
    <3>1. PICK o \in Outcomes : Log(Min(worker.unreported), "Mutation", o)
      BY <1>6 DEF EmitOutcome, Outcomes
    <3> QED
      BY <1>0, <1>a, <1>b, <2>4, <2>5, <3>1, BeforeLogged
  <2>7. /\ worker'.doomed = worker.doomed
        /\ \/ worker'.phase = "Emitting" /\ worker'.index = worker.index
           \/ worker'.phase = "Running" /\ worker'.index = ChunkEnd(worker.index)
           \/ worker'.phase = "Exited" /\ worker'.code = "Incomplete"
    BY <1>0, <1>6 DEF EmitOutcome, ExitHeld
  <2>8. CASE worker'.phase = "Running" /\ worker'.index = ChunkEnd(worker.index)
    <3>1. \A f \in Ahead : (worker.index < f \/ AtFault(f))'
      BY <1>a, <2>2, <2>5, <2>8 DEF AtFault
    <3> QED
      BY <1>a, <1>b, <2>6, <2>7, <2>8, <3>1 DEF ApproachInv, Alive
  <2>9. CASE worker'.phase = "Emitting" /\ worker'.index = worker.index
    BY <1>a, <1>b, <2>1, <2>5, <2>6, <2>7, <2>9 DEF ApproachInv, Alive
  <2>10. CASE worker'.phase = "Exited" /\ worker'.code = "Incomplete"
    BY <1>a, <1>b, <2>6, <2>7, <2>10 DEF ApproachInv, Alive
  <2> QED
    BY <2>7, <2>8, <2>9, <2>10
<1>7. CASE \/ BeginVerification(Expected) \/ VerifyKey(Expected) \/ MismatchKey(Expected)
           \/ ShutDown
  <2>1. worker.index = NumOps /\ worker.phase \in {"Running", "Verifying"}
    BY <1>b, <1>7 DEF BeginVerification, VerifyKey, MismatchKey, ShutDown, Position
  <2>2. Ahead = {}
    BY <1>0, <1>a, <1>b, <2>1 DEF ApproachInv, AtFault, Alive
  <2>3. worker'.doomed = worker.doomed
    BY <1>0, <1>7 DEF BeginVerification, VerifyKey, MismatchKey, ShutDown, Exit
  <2> QED
    BY <1>a, <1>b, <2>2, <2>3 DEF ApproachInv, Before
<1>8. CASE (\E k \in Keys : LoseValue(k)) \/ LeaseExpires
  <2>1. UNCHANGED <<worker, reports>>
    BY <1>8 DEF LoseValue, LeaseExpires
  <2> QED
    BY <1>a, <1>b, <1>q, <2>1 DEF ApproachInv, AtFault, Alive
<1> QED
  BY <1>1, <1>2, <1>3, <1>4, <1>5, <1>6, <1>7, <1>8 DEF Engine, WorkerStep

\* What a verifier is held to was acknowledged in a report.
LEMMA AckedExpectationsReported ==
  ASSUME NEW rs, NEW k \in DOMAIN AckedExpectations(rs)
  PROVE  ReportedAs(AckedExpectations(rs)[k], "Acked", rs)
<1> DEFINE Certain(x) == {i \in OpsOn(x) : \/ ReportedAs(i, "Acked", rs)
                                           \/ ReportedAs(i, "Unknown", rs)}
           Known(x)   == Certain(x) # {} /\ ReportedAs(Max(Certain(x)), "Acked", rs)
<1>1. AckedExpectations(rs) = [x \in {y \in Keys : Known(y)} |-> Max(Certain(x))]
  BY DEF AckedExpectations
<1> HIDE DEF Certain, Known
<1>2. Known(k) /\ AckedExpectations(rs)[k] = Max(Certain(k))
  BY <1>1
<1> QED
  BY <1>2 DEF Known

LEMMA VerifierKeepsBefore ==
  ASSUME RunInv, CheckInv, StruckInv, mode = "Verifier", pc = "Poll", UNCHANGED controlVars, Engine
  PROVE  Before(reports)'
<1>0. /\ {"phase", "failpoint", "index", "todo", "failed", "unreported", "unread", "doomed",
          "ready", "held", "code"} \subseteq DOMAIN worker
      /\ TypeOK /\ WorkerInv /\ reports \in Seq(Report) /\ observed \in Seq(Report)
      /\ NumOps \in Nat /\ worker.index = NumOps
  BY PlanTypes DEF RunInv, TypeOK, WorkerType, CheckInv
<1>a. Ahead' = Ahead /\ Before(reports) /\ Before(observed)
  BY SameAhead DEF StruckInv
<1>1. CASE VerifyKey(Expected) \/ MismatchKey(Expected)
  <2> DEFINE k == Min(worker.unread)
  <2>1. k \in DOMAIN Expected
    BY <1>0, <1>1, KeysAreNaturals, MinOfNaturals, ExpectedInPlan DEF VerifyKey, MismatchKey, WorkerInv
  <2>2. Expected[k] \in Steps
    BY <2>1, ExpectedInPlan
  <2>3. \A f \in Ahead : Expected[k] < f
    <3> SUFFICES ASSUME NEW f \in Ahead PROVE Expected[k] < f
      OBVIOUS
    <3>1. Expected = AckedExpectations(observed)
      BY DEF StruckInv, Expected
    <3> HIDE DEF k
    <3>2. PICK r \in MutationReports(observed) : r.op = Expected[k]
      BY <2>1, <3>1, AckedExpectationsReported DEF ReportedAs
    <3> QED
      BY <1>0, <1>a, <3>2, LinesAreReports DEF Before
  <2>4. UNCHANGED reports \/ \E o \in Outcomes : Log(Expected[k], "Verification", o)
    BY <1>1 DEF VerifyKey, MismatchKey, Outcomes
  <2> HIDE DEF k
  <2>5. CASE UNCHANGED reports
    BY <1>a, <2>5 DEF Before, Lines
  <2>6. CASE \E o \in Outcomes : Log(Expected[k], "Verification", o)
    BY <1>0, <1>a, <2>2, <2>3, <2>6, BeforeLogged
  <2> QED
    BY <2>4, <2>5, <2>6
<1>2. CASE ~(VerifyKey(Expected) \/ MismatchKey(Expected))
  <2>1. ~EmitOutcome
    BY <1>0 DEF EmitOutcome, WorkerInv
  <2>2. UNCHANGED reports
    BY <1>2, <2>1 DEF Engine, WorkerStep, TakeSentinel, ConfigureFailpoint, OpenFenced, OpenReady,
       CrashOnStep, InterruptOnStep, BeginChunk, RejectChunk, CommitTransaction, FailTransaction,
       CrashThreadExits, ChunkUnreadable, CrashAfterStep, EndChunk, BeginVerification, ShutDown,
       Abort, LoseValue, LeaseExpires
  <2> QED
    BY <1>a, <2>2 DEF Before, Lines
<1> QED
  BY <1>1, <1>2

\* Keeping the reports of an attempt.
LEMMA BeforeKept ==
  ASSUME TypeOK, Before(observed), Before(reports), KeepReports, struck \subseteq struck'
  PROVE  Before(observed)'
<1>1. Lines(observed') = Lines(observed) \cup Lines(reports) /\ Ahead' \subseteq Ahead
  BY LinesKept DEF TypeOK, WorkerType, KeepReports, Ahead
<1>2. \A r \in Lines(observed'), f \in Ahead' : r.op < f
  BY <1>1 DEF Before
<1> QED
  BY <1>2 DEF Before, Lines

LEMMA StruckStep ==
  ASSUME NoSnapshotKill
  PROVE  RunInv /\ ProgressInv /\ CheckInv /\ StruckInv /\ [Next]_vars => StruckInv'
<1> SUFFICES ASSUME RunInv, ProgressInv, CheckInv, StruckInv, [Next]_vars PROVE StruckInv'
  OBVIOUS
<1>0. /\ TypeOK /\ {"phase", "code", "index", "doomed"} \subseteq DOMAIN worker
      /\ start \in 0..NumOps /\ start \in Nat /\ NumOps \in Nat
      /\ Ahead \subseteq DOMAIN FaultAt /\ \A f \in Ahead : f \in Steps /\ f \in Nat /\ f < NumOps
      /\ reports \in Seq(Report) /\ flags \in [Flags -> BOOLEAN]
      /\ mode \in {"Segment", "Verifier"}
  BY PlanTypes DEF RunInv, TypeOK, WorkerType, Ahead, Steps
<1>1. CASE Launch
  <2>1. /\ pc = "Launch" /\ pc' = "Poll" /\ reports' = <<>>
        /\ UNCHANGED <<mode, start, faults, observed, flags, struck>>
        /\ worker'.phase \in {"Activating", "Opening"} /\ worker'.doomed = FALSE
        /\ mode = "Segment" => worker'.index = start
    BY <1>1 DEF Launch, Spawned, NoWorker, FirstPhase
  <2>2. Ahead' = Ahead /\ Before(observed)' /\ Before(reports)'
    BY <2>1 DEF Ahead, Before, Lines, StruckInv
  <2>3. mode = "Segment" => ApproachInv'
    <3> SUFFICES ASSUME mode = "Segment" PROVE ApproachInv'
      OBVIOUS
    <3>1. \A f \in Ahead : start < f \/ start = f
      BY <1>0, <2>1 DEF StruckInv
    <3>2. \A f \in Ahead' : (worker.index < f \/ AtFault(f))'
      BY <2>1, <2>2, <3>1 DEF AtFault
    <3> QED
      BY <2>1, <2>2, <3>2 DEF ApproachInv, Alive
  <2> QED
    BY <2>1, <2>2, <2>3 DEF StruckInv
<1>2. CASE ObserveReadiness \/ Tick \/ DeadlinePasses \/ UNCHANGED vars
  <2>1. UNCHANGED <<pc, mode, start, faults, status, observed, flags, struck, worker, reports>>
    BY <1>2 DEF ObserveReadiness, Tick, DeadlinePasses, vars, controlVars, workerVars
  <2>2. Ahead' = Ahead /\ CrashAfterAt' = CrashAfterAt
    BY <2>1 DEF Ahead, CrashAfterAt, Trigger, NextFault
  <2>3. (ApproachInv' <=> ApproachInv) /\ (Before(reports)' <=> Before(reports))
        /\ (Before(observed)' <=> Before(observed))
    BY <2>1, <2>2 DEF ApproachInv, AtFault, Alive, Before, Lines
  <2> QED
    BY <2>1, <2>2, <2>3 DEF StruckInv
<1>3. CASE Reap \/ KillUnready \/ KillAtDeadline \/ KillStalled
  <2>1. /\ pc = "Poll" /\ pc' = "Settle"
        /\ UNCHANGED <<mode, start, faults, observed, flags, struck, reports>>
        /\ \/ ~Alive /\ status' = worker.code
           \/ status' = "TimedOut"
    BY <1>3 DEF Reap, KillUnready, KillAtDeadline, KillStalled, Kill, Killed, EndPoll, workerVars
  <2>2. Ahead' = Ahead /\ (Before(reports)' <=> Before(reports))
        /\ (Before(observed)' <=> Before(observed))
    BY <2>1 DEF Ahead, Before, Lines
  <2> QED
    BY <2>1, <2>2 DEF StruckInv, ApproachInv
<1>4. CASE RetryFenced \/ RetryVerifier
  <2>1. /\ pc = "Settle" /\ pc' = "Launch"
        /\ UNCHANGED <<mode, start, faults, observed, flags, struck>>
    BY <1>4 DEF RetryFenced, RetryVerifier, SettlesSegment, SettlesVerifier, Settled
  <2>2. Ahead' = Ahead /\ (Before(observed)' <=> Before(observed))
    BY <2>1 DEF Ahead, Before, Lines
  <2> QED
    BY <2>1, <2>2 DEF StruckInv
<1>5. CASE StrikeFault
  <2>1. /\ pc = "Settle" /\ mode = "Segment" /\ mode' = mode /\ KeepReports
        /\ status \in {"Crashed", "Interrupted"}
        /\ faults' = faults \ {NextFault} /\ struck' = struck \cup {NextFault}
        /\ start' = ResumeAfterFault(NextFault)
        /\ pc' = IF start' < NumOps THEN "Launch" ELSE "LoopExit"
    BY <1>5 DEF StrikeFault, SettlesSegment, Settled, ContinueAt
  <2>2. /\ NextFault \in Ahead /\ faults = Ahead /\ \A f \in Ahead : start <= f
        /\ Before(observed) /\ Before(reports)
    BY <2>1, StruckIsPlanned DEF StruckInv
  <2>3. \A f \in Ahead : NextFault <= f
    <3>1. Ahead \subseteq Nat /\ Ahead # {}
      BY <1>0, <2>2
    <3>2. PICK g \in Ahead : \A f \in Ahead : g <= f
      BY <3>1, LeastNatural
    <3> QED
      BY <1>0, <2>2, <3>2, NextIsFirst
  <2>4. Ahead' = Ahead \ {NextFault} /\ faults' = Ahead'
    BY <2>1, <2>2 DEF Ahead
  <2>5. \A f \in Ahead' : start' <= f
    <3>1. start' \in {NextFault, NextFault + 1}
      BY <2>1 DEF ResumeAfterFault
    <3> QED
      BY <1>0, <2>2, <2>3, <2>4, <3>1
  <2>6. Before(observed)'
    BY <1>0, <2>1, <2>2, BeforeKept
  <2>7. pc' = "LoopExit" => Ahead' = {}
    <3>1. start' \in Nat
      BY <1>0, <2>1, <2>2 DEF ResumeAfterFault
    <3> QED
      BY <1>0, <2>1, <2>4, <2>5, <3>1
  <2> QED
    BY <2>1, <2>4, <2>5, <2>6, <2>7 DEF StruckInv
<1>6. CASE FaultNotApplied \/ AbandonSegments
  <2>1. /\ pc = "Settle" /\ pc' = "LoopExit" /\ mode = "Segment" /\ mode' = mode
        /\ KeepReports /\ struck \subseteq struck'
    BY <1>6 DEF FaultNotApplied, AbandonSegments, SettlesSegment, Settled, LeaveLoop
  <2>2. flags'["executionIncomplete"]
    BY <1>6 DEF FaultNotApplied, AbandonSegments, AbandonedFlags, Raise, Flags
  <2>3. Before(observed)'
    BY <1>0, <2>1, BeforeKept DEF StruckInv
  <2> QED
    BY <2>1, <2>2, <2>3 DEF StruckInv
<1>7. CASE FinishSegments
  <2>1. /\ pc = "Settle" /\ mode = "Segment" /\ mode' = mode /\ status = "Ok" /\ KeepReports
        /\ pc' = "LoopExit" /\ struck' = struck
    BY <1>0, <1>7 DEF FinishSegments, SettlesSegment, Settled, ContinueAt
  <2>2. Ahead = {} /\ Ahead' = {}
    BY <2>1 DEF StruckInv, Ahead
  <2>3. Before(observed)'
    BY <2>2 DEF Before
  <2> QED
    BY <2>1, <2>2, <2>3 DEF StruckInv
<1>8. CASE RetrySegment
  <2>1. /\ pc = "Settle" /\ mode = "Segment" /\ mode' = mode /\ KeepReports
        /\ struck' = struck /\ faults' = faults /\ start' = ResumeAt(start, reports)
        /\ pc' = IF start' < NumOps THEN "Launch" ELSE "LoopExit"
    BY <1>8 DEF RetrySegment, SettlesSegment, Settled, ContinueAt
  <2>2. Ahead' = Ahead /\ Before(observed)'
    BY <1>0, <2>1, BeforeKept DEF Ahead, StruckInv
  <2>3. \A f \in Ahead : start' <= f
    BY <1>0, <2>1, ResumeBeforeFault DEF StruckInv, Before
  <2>4. pc' = "LoopExit" => Ahead' = {}
    <3>1. start' \in 0..NumOps
      BY <1>0, <2>1, ResumeInPlan
    <3> QED
      BY <1>0, <2>1, <2>2, <2>3, <3>1
  <2> QED
    BY <2>1, <2>2, <2>3, <2>4 DEF StruckInv
<1>9. CASE ChooseVerifier
  <2>1. /\ pc = "LoopExit" /\ UNCHANGED <<observed, flags, struck>>
        /\ \/ pc' = "Launch" /\ mode' = "Verifier"
           \/ pc' = "Conclude" /\ mode' = mode
    BY <1>9 DEF ChooseVerifier
  <2>2. Ahead' = Ahead /\ (Before(observed)' <=> Before(observed))
    BY <2>1 DEF Ahead, Before, Lines
  <2> QED
    BY <2>1, <2>2 DEF StruckInv
<1>10. CASE FinishVerifier
  <2>1. /\ pc = "Settle" /\ mode = "Verifier" /\ mode' = mode /\ pc' = "Conclude" /\ KeepReports
        /\ struck' = struck /\ flags' = AfterVerifier(flags, status)
    BY <1>10 DEF FinishVerifier, SettlesVerifier, Settled
  <2>2. flags'["executionIncomplete"] = flags["executionIncomplete"]
    BY <1>0, <2>1 DEF AfterVerifier, Flags
  <2>3. Ahead' = Ahead /\ Before(observed)'
    BY <1>0, <2>1, BeforeKept DEF Ahead, StruckInv
  <2> QED
    BY <2>1, <2>2, <2>3 DEF StruckInv
<1>11. CASE Conclude
  <2>1. /\ pc = "Conclude" /\ pc' = "Done" /\ UNCHANGED <<mode, observed, struck>>
        /\ flags' = [flags EXCEPT !["verificationIncomplete"] = FinalIncomplete]
    BY <1>11 DEF Conclude
  <2>2. flags'["executionIncomplete"] = flags["executionIncomplete"]
    BY <1>0, <2>1 DEF Flags
  <2>3. Ahead' = Ahead /\ (Before(observed)' <=> Before(observed))
    BY <2>1 DEF Ahead, Before, Lines
  <2> QED
    BY <2>1, <2>2, <2>3 DEF StruckInv
<1>12. CASE Engine /\ pc = "Poll" /\ UNCHANGED controlVars
  <2>1. /\ UNCHANGED <<pc, mode, start, faults, status, observed, flags, struck>>
        /\ Ahead' = Ahead /\ (Before(observed)' <=> Before(observed))
    BY <1>12, SameAhead DEF controlVars, Before, Lines
  <2>2. Before(reports)' /\ (mode = "Segment" => ApproachInv')
    BY <1>0, <1>12, EngineKeepsApproach, VerifierKeepsBefore
  <2> QED
    BY <1>12, <2>1, <2>2 DEF StruckInv
<1> QED
  BY <1>1, <1>2, <1>3, <1>4, <1>5, <1>6, <1>7, <1>8, <1>9, <1>10, <1>11, <1>12 DEF Next, Controller

-----------------------------------------------------------------------------
(* What a verdict that passes was given for                                 *)

\* A run passes with every operation acknowledged and the verification complete.
PassInv ==
  /\ pc # "Done" => verdict = Undecided
  /\ verdict \in Passed =>
       /\ \A i \in Steps : FinalLedger[i] = "Acked"
       /\ ~flags["verificationIncomplete"]

LEMMA PassInit == Init => PassInv
BY DEF Init, PassInv, Undecided, Passed

LEMMA PassStep == RunInv /\ PassInv /\ [Next]_vars => PassInv'
<1> SUFFICES ASSUME RunInv, PassInv, [Next]_vars PROVE PassInv'
  OBVIOUS
<1>0. observed \in Seq(Report) /\ flags \in [Flags -> BOOLEAN]
  BY DEF RunInv, TypeOK
<1>1. CASE Conclude
  <2>1. /\ pc' = "Done" /\ observed' = observed
        /\ flags' = [flags EXCEPT !["verificationIncomplete"] = FinalIncomplete]
        /\ verdict' = ClassifyVerdict({FinalLedger[i] : i \in Steps},
                          {FinalEvents[n].outcome : n \in DOMAIN FinalEvents}, FinalIncomplete)
    BY <1>1 DEF Conclude
  <2>2. FinalLedger' = FinalLedger /\ flags'["verificationIncomplete"] = FinalIncomplete
    BY <1>0, <2>1 DEF FinalLedger, Flags
  <2>3. \A i \in Steps : FinalLedger[i] \in {"Acked", "Failed", "Unknown", "Missing"}
    BY <1>0, ClassifiedType DEF FinalLedger
  <2>4. ASSUME verdict' \in Passed
        PROVE  ~FinalIncomplete /\ \A i \in Steps : FinalLedger[i] = "Acked"
    <3>1. /\ ~FinalIncomplete
          /\ {FinalLedger[i] : i \in Steps} \cap {"Failed", "Unknown", "Duplicate", "Missing"} = {}
      BY <2>1, <2>4 DEF ClassifyVerdict, Passed
    <3> QED
      BY <2>3, <3>1
  <2> QED
    BY <2>1, <2>2, <2>4 DEF PassInv
<1>2. CASE pc = "Done"
  <2>1. UNCHANGED controlVars
    BY <1>2 DEF Next, Controller, Launch, ObserveReadiness, Reap, KillUnready, KillAtDeadline,
       KillStalled, Kill, EndPoll, RetryFenced, StrikeFault, FaultNotApplied, FinishSegments,
       RetrySegment, AbandonSegments, ChooseVerifier, RetryVerifier, FinishVerifier, Conclude,
       Tick, DeadlinePasses, Settled, vars
  <2> QED
    BY <2>1 DEF controlVars, PassInv, FinalLedger
<1>3. CASE pc # "Done" /\ ~Conclude
  <2>1. verdict' = verdict
    BY <1>3 DEF Next, Controller, Launch, ObserveReadiness, Reap, KillUnready, KillAtDeadline,
       KillStalled, Kill, EndPoll, RetryFenced, StrikeFault, FaultNotApplied, FinishSegments,
       RetrySegment, AbandonSegments, ChooseVerifier, RetryVerifier, FinishVerifier,
       Tick, DeadlinePasses, Settled, vars, controlVars
  <2> QED
    BY <1>3, <2>1 DEF PassInv, Undecided, Passed
<1> QED
  BY <1>1, <1>2, <1>3

\* A run cannot pass by dodging its faults: every planned fault struck, however
\* the resume point moved between them.
THEOREM PassMeansStruckTheorem ==
  NoSnapshotKill => (Spec => []PassMeansStruck)
<1> SUFFICES ASSUME NoSnapshotKill PROVE Spec => []PassMeansStruck
  OBVIOUS
<1>1. CASE DOMAIN FaultAt = {}
  <2>1. RunInv => PassMeansStruck
    BY <1>1 DEF RunInv, TypeOK, PassMeansStruck
  <2> QED
    BY <2>1, RunInvariant, PTL
<1>2. CASE DOMAIN FaultAt # {}
  <2>1. Init => CheckInv
    BY <1>2, CheckInit
  <2>2. RunInv /\ StruckInv /\ PassInv => PassMeansStruck
    <3> SUFFICES ASSUME RunInv, StruckInv, PassInv, verdict \in Passed, NEW f \in Ahead
                 PROVE  FALSE
      BY DEF PassMeansStruck, Ahead, RunInv, TypeOK
    <3>1. f \in Steps /\ f \in Nat /\ observed \in Seq(Report)
      BY PlanTypes DEF Ahead, RunInv, TypeOK
    <3>2. PICK u \in {"Unknown", "Missing"} : Classified(f, observed, u) = "Acked"
      BY <3>1 DEF PassInv, FinalLedger
    <3>3. PICK r \in Lines(observed) : r.op = f
      BY <3>1, <3>2, AckedIsReported
    <3> QED
      BY <3>1, <3>3 DEF StruckInv, Before
  <2> QED
    BY <2>1, <2>2, StruckInit, StruckStep, PassInit, PassStep, CheckStep, ProgressInit,
       ProgressStep, RunInvariant, PTL DEF Spec
<1> QED
  BY <1>1, <1>2
==============================================================================
