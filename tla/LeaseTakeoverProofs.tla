------------------------ MODULE LeaseTakeoverProofs ------------------------
(* The two properties of LeaseTakeover for every configuration, requested   *)
(* timeout and horizon.                                                     *)
EXTENDS LeaseTakeover, TLAPS

\* The controller's table and the worker's agree on how long a takeover is
\* fenced: the budget is built on exactly the wait the worker causes.
LEMMA TablesAgree ==
  ASSUME NEW p \in Profiles, NEW b \in Backends
  PROVE  /\ FencedFor(p, b) \in Nat
         /\ Skew(p) + TtlForBackend(p, b) = FencedFor(p, b)
BY DEF Profiles, Backends, FencedFor, LeaseDurations, Skew, TtlForBackend, Ttl

\* The deadlines of every budget stand clear of the fenced wait.
LEMMA BudgetClearsFence ==
  ASSUME NEW p \in Profiles, NEW b \in Backends, NEW r \in Nat
  PROVE  LET budget == RecoveryBudget(p, b, r)
         IN  /\ budget.warning = FencedFor(p, b) + 6
             /\ budget.soft = FencedFor(p, b) + 16
             /\ budget.hard \in Nat
             /\ budget.hard >= 2 * (FencedFor(p, b) + 16)
BY TablesAgree DEF RecoveryBudget, BudgetAbove

\* The invariant: the types, and how far the clock is in each phase.
TakeoverInv ==
  /\ TypeOK
  /\ phase = "Opening" => clock >= Fence
  /\ phase = "Graded" <=> grade # Ungraded
  /\ FencingIsNotGraded
  /\ NotGivenUpFenced

LEMMA TakeoverInit == Init => TakeoverInv
BY TakeoverAssumption DEF Init, TakeoverInv, TypeOK, Ungraded, RecoveryOutcomes,
   FencingIsNotGraded, NotGivenUpFenced

LEMMA TakeoverStep == TakeoverInv /\ [Next]_vars => TakeoverInv'
<1> SUFFICES ASSUME TakeoverInv, [Next]_vars PROVE TakeoverInv'
  OBVIOUS
<1> USE DEF TakeoverInv, TypeOK, Ungraded, RecoveryOutcomes
<1>a. /\ Fence \in Nat
      /\ Budget.warning = Fence + 6
      /\ Budget.soft = Fence + 16
      /\ Budget.hard \in Nat
      /\ Budget.hard >= 2 * (Fence + 16)
  BY TablesAgree, BudgetClearsFence, TakeoverAssumption DEF Fence, Budget
<1>b. UNCHANGED config => Fence' = Fence
  BY DEF Fence, config
<1>1. CASE AttemptFenced
  BY <1>1, <1>b, TakeoverAssumption
     DEF AttemptFenced, config, FencingIsNotGraded, NotGivenUpFenced
<1>2. CASE AttemptAdmitted
  BY <1>2, <1>b DEF AttemptAdmitted, config, FencingIsNotGraded, NotGivenUpFenced
<1>3. CASE KeepOpening
  BY <1>3, <1>a, <1>b, TakeoverAssumption
     DEF KeepOpening, config, FencingIsNotGraded, NotGivenUpFenced
<1>4. CASE BecomeReady
  <2>1. /\ clock < Fence + 6 => grade' = "RecoveredBeforeWarning"
        /\ grade' = "HardDeadlineExceeded" => clock > Budget.hard
        /\ grade' \in RecoveryOutcomes
    BY <1>4, <1>a DEF BecomeReady, RecoveryOutcome
  <2> QED BY <1>4, <2>1, <1>a, <1>b
             DEF BecomeReady, config, FencingIsNotGraded, NotGivenUpFenced
<1>5. CASE GiveUp
  BY <1>5, <1>a, <1>b DEF GiveUp, config, FencingIsNotGraded, NotGivenUpFenced
<1>6. CASE UNCHANGED vars
  BY <1>6, <1>b DEF vars, config, FencingIsNotGraded, NotGivenUpFenced
<1> QED BY <1>1, <1>2, <1>3, <1>4, <1>5, <1>6 DEF Next

LEMMA TakeoverInvariant == Spec => []TakeoverInv
BY TakeoverInit, TakeoverStep, PTL DEF Spec

\* A recovery graded slower than the warning threshold spent three seconds of
\* its own after the worker's lease ran out, in every configuration.
THEOREM FencingTheorem == Spec => []FencingIsNotGraded
<1>1. TakeoverInv => FencingIsNotGraded
  BY DEF TakeoverInv
<1> QED BY <1>1, TakeoverInvariant, PTL

\* No requested timeout makes the controller give up a recovery that was
\* still fenced, or had less than the fenced wait to open.
THEOREM NotGivenUpFencedTheorem == Spec => []NotGivenUpFenced
<1>1. TakeoverInv => NotGivenUpFenced
  BY DEF TakeoverInv
<1> QED BY <1>1, TakeoverInvariant, PTL
=============================================================================
