---------------------------- MODULE LedgerProofs ----------------------------
(***************************************************************************)
(* Theorems about the ledger classification, for every plan, every set of  *)
(* identities and every stream of reports.                                 *)
(***************************************************************************)
EXTENDS Ledger, TLAPS

\* The rules of LedgerRules stay within the classifications.
LEMMA MutationRuleType ==
  ASSUME NEW class \in MutationOutcome, NEW flag \in BOOLEAN, NEW outcome \in Outcomes
  PROVE  AfterMutationReport(class, flag, outcome) \in MutationOutcome
  BY DEF MutationOutcome, Outcomes, AfterMutationReport

LEMMA VerificationRuleType ==
  ASSUME NEW class \in MutationOutcome, NEW outcome \in Outcomes
  PROVE  AfterVerificationReport(class, outcome) \in MutationOutcome
  BY DEF MutationOutcome, Outcomes, AfterVerificationReport

\* Every variable of the classification keeps its type.
THEOREM LedgerTypeCorrect == Spec => []TypeOK
<1>1. Init => TypeOK
  BY LedgerAssumption DEF Init, TypeOK, Passes, MutationOutcome, Unchecked
<1>2. TypeOK /\ [Next]_vars => TypeOK'
  <2> SUFFICES ASSUME TypeOK, [Next]_vars PROVE TypeOK'
    OBVIOUS
  <2> USE DEF TypeOK
  <2>1. ASSUME NEW id \in Ids, NEW identity \in Identities, NEW outcome \in Outcomes,
               ReadMutationReport(id, identity, outcome)
        PROVE  TypeOK'
    <3>1. entries' \in [Planned -> MutationOutcome]
      BY <2>1, MutationRuleType DEF WithEntry, ReadMutationReport, InconsistentReplay
    <3>2. /\ identities' \in [Ids -> Identities \cup {NoIdentity}]
          /\ heard' \in [Ids -> 0..2]
      BY <2>1 DEF WithEntry, ReadMutationReport
    <3>3. acked' \subseteq Ids /\ conflicted' \subseteq Ids
      BY <2>1 DEF WithEntry, ReadMutationReport
    <3> QED BY <2>1, <3>1, <3>2, <3>3 DEF WithEntry, ReadMutationReport
  <2>2. CASE EndMutationReports
    BY <2>2 DEF EndMutationReports, history, Passes
  <2>3. ASSUME NEW id \in Ids, NEW outcome \in Outcomes,
               ReadVerificationReport(id, outcome)
        PROVE  TypeOK'
    <3>1. entries' \in [Planned -> MutationOutcome]
      BY <2>3, VerificationRuleType DEF WithEntry, ReadVerificationReport
    <3>2. lastCheck' \in [Planned -> Outcomes \cup {Unchecked}]
      BY <2>3 DEF WithEntry, ReadVerificationReport
    <3> QED BY <2>3, <3>1, <3>2 DEF WithEntry, ReadVerificationReport
  <2>4. CASE EndVerificationReports
    BY <2>4 DEF EndVerificationReports, history, Passes
  <2>5. ASSUME NEW unobserved \in {"Missing", "Unknown"}, SettleUnobserved(unobserved)
        PROVE  TypeOK'
    BY <2>5 DEF SettleUnobserved, history, AfterLastReport, MutationOutcome, Passes
  <2>6. CASE UNCHANGED vars
    BY <2>6 DEF vars
  <2> QED BY <2>1, <2>2, <2>3, <2>4, <2>5, <2>6 DEF Next
<1> QED BY <1>1, <1>2, PTL DEF Spec

-----------------------------------------------------------------------------
(* The three warrants are not inductive by themselves: that a loss is never
   declared while mutations are still being read, and that an entry nothing
   settled was never named by a mutation report, have to be carried along. *)
EntryWarranted(id) ==
  /\ entries[id] = "Duplicate" <=> id \in conflicted
  /\ entries[id] = "Acked" => id \in acked /\ lastCheck[id] \in {Unchecked, "Acked"}
  /\ entries[id] = "Missing" =>
       \/ id \in acked /\ lastCheck[id] = "Failed"
       \/ pass = "Done" /\ heard[id] = 0 /\ lastCheck[id] \in {Unchecked, "Failed"}
  /\ entries[id] = "Dispatched" => heard[id] = 0 /\ lastCheck[id] \in {Unchecked, "Failed"}
  /\ pass = "Mutation" => lastCheck[id] = Unchecked

WarrantInv == \A id \in Planned : EntryWarranted(id)

LEMMA WarrantStep == TypeOK /\ WarrantInv /\ [Next]_vars => WarrantInv'
<1> SUFFICES ASSUME TypeOK, WarrantInv, [Next]_vars, NEW e \in Planned
             PROVE  EntryWarranted(e)'
  BY DEF WarrantInv
<1>a. /\ EntryWarranted(e)
      /\ entries[e] \in MutationOutcome
      /\ lastCheck[e] \in Outcomes \cup {Unchecked}
      /\ e \in Ids
  BY LedgerAssumption DEF WarrantInv, TypeOK
<1>1. ASSUME NEW id \in Ids, NEW identity \in Identities, NEW outcome \in Outcomes,
             ReadMutationReport(id, identity, outcome)
      PROVE  EntryWarranted(e)'
  <2>1. CASE e # id
    <3>1. entries'[e] = entries[e] /\ heard'[e] = heard[e] /\ lastCheck' = lastCheck
      BY <1>1, <1>a, <2>1 DEF WithEntry, ReadMutationReport, TypeOK
    <3>2. (e \in acked' <=> e \in acked) /\ (e \in conflicted' <=> e \in conflicted)
      BY <1>1, <2>1 DEF WithEntry, ReadMutationReport
    <3>3. pass' = pass
      BY <1>1 DEF WithEntry, ReadMutationReport
    <3> QED BY <1>a, <3>1, <3>2, <3>3 DEF EntryWarranted
  <2>2. CASE e = id
    <3> DEFINE replay == InconsistentReplay(id, identity)
    <3>1. entries'[e] = AfterMutationReport(entries[e], replay, outcome)
      BY <1>1, <2>2 DEF WithEntry, ReadMutationReport
    <3>2. /\ pass' = pass
          /\ lastCheck' = lastCheck
          /\ lastCheck[e] = Unchecked
      BY <1>1, <1>a DEF WithEntry, ReadMutationReport, EntryWarranted
    <3>3. e \in acked' <=> e \in acked \/ outcome = "Acked"
      BY <1>1, <2>2 DEF WithEntry, ReadMutationReport
    <3>4. e \in conflicted' <=> e \in conflicted \/ replay
      BY <1>1, <2>2 DEF WithEntry, ReadMutationReport
    <3>5. replay \in BOOLEAN
      BY DEF InconsistentReplay
    <3>6. entries[e] \notin {"Missing"}
      BY <1>1, <1>a DEF WithEntry, EntryWarranted, ReadMutationReport, Unchecked
    <3> HIDE DEF replay
    <3> QED BY <1>a, <3>1, <3>2, <3>3, <3>4, <3>5, <3>6
            DEF EntryWarranted, AfterMutationReport, MutationOutcome, Outcomes, Unchecked
  <2> QED BY <2>1, <2>2
<1>2. CASE EndMutationReports
  BY <1>2, <1>a DEF EndMutationReports, history, EntryWarranted
<1>3. ASSUME NEW id \in Ids, NEW outcome \in Outcomes,
             ReadVerificationReport(id, outcome)
      PROVE  EntryWarranted(e)'
  <2>1. CASE e # id
    <3>1. /\ entries'[e] = entries[e] /\ heard' = heard
          /\ lastCheck'[e] = lastCheck[e] /\ conflicted' = conflicted
          /\ pass' = pass
      BY <1>3, <2>1 DEF WithEntry, ReadVerificationReport
    <3>2. e \in acked' <=> e \in acked
      BY <1>3, <2>1 DEF WithEntry, ReadVerificationReport
    <3> QED BY <1>a, <3>1, <3>2 DEF EntryWarranted
  <2>2. CASE e = id
    <3>1. /\ entries'[e] = AfterVerificationReport(entries[e], outcome)
          /\ lastCheck'[e] = outcome /\ heard' = heard /\ conflicted' = conflicted
          /\ pass = "Verification" /\ pass' = pass
      BY <1>3, <2>2 DEF WithEntry, ReadVerificationReport
    <3>2. e \in acked' <=> e \in acked \/ outcome = "Acked"
      BY <1>3, <2>2 DEF WithEntry, ReadVerificationReport
    <3> QED BY <1>a, <3>1, <3>2
            DEF EntryWarranted, AfterVerificationReport, MutationOutcome, Outcomes, Unchecked
  <2> QED BY <2>1, <2>2
<1>4. CASE EndVerificationReports
  BY <1>4, <1>a DEF EndVerificationReports, history, EntryWarranted
<1>5. ASSUME NEW unobserved \in {"Missing", "Unknown"}, SettleUnobserved(unobserved)
      PROVE  EntryWarranted(e)'
  BY <1>5, <1>a DEF SettleUnobserved, history, AfterLastReport, EntryWarranted
<1>6. CASE UNCHANGED vars
  BY <1>6, <1>a DEF vars, EntryWarranted
<1> QED BY <1>1, <1>2, <1>3, <1>4, <1>5, <1>6 DEF Next

LEMMA WarrantInvariant == Spec => []WarrantInv
<1>1. Init => WarrantInv
  BY LedgerAssumption DEF Init, WarrantInv, EntryWarranted, Unchecked
<1> QED BY <1>1, LedgerTypeCorrect, WarrantStep, PTL DEF Spec

\* An entry is Duplicate exactly when its mutation reports contradicted each
\* other, whatever the plan and however many replays the controller asked for.
THEOREM DuplicateTheorem == Spec => []DuplicateIsIdentityConflict
<1>1. WarrantInv => DuplicateIsIdentityConflict
  BY DEF WarrantInv, EntryWarranted, DuplicateIsIdentityConflict
<1> QED BY <1>1, WarrantInvariant, PTL

\* An entry counts as acknowledged only on evidence no later check refuted.
THEOREM AckedTheorem == Spec => []AckedIsWarranted
<1>1. WarrantInv => AckedIsWarranted
  BY DEF WarrantInv, EntryWarranted, AckedIsWarranted
<1> QED BY <1>1, WarrantInvariant, PTL

\* A loss is declared only of an acknowledged mutation whose last check failed
\* or of an operation no worker ever reported a mutation for.
THEOREM MissingTheorem == Spec => []MissingIsWarranted
<1>1. WarrantInv => MissingIsWarranted
  BY DEF WarrantInv, EntryWarranted, MissingIsWarranted
<1> QED BY <1>1, WarrantInvariant, PTL

\* While mutation reports are read an acknowledgement is never taken back.
THEOREM AckSurvivesReplayTheorem == Spec => AckSurvivesReplay
<1> DEFINE Sticks == \A id \in Planned :
       pass = "Mutation" /\ entries[id] = "Acked"
         => entries'[id] \in {"Acked", "Duplicate"}
<1>1. TypeOK /\ [Next]_vars => [Sticks]_vars
  <2> SUFFICES ASSUME TypeOK, Next, NEW e \in Planned,
                      pass = "Mutation", entries[e] = "Acked"
               PROVE  entries'[e] \in {"Acked", "Duplicate"}
    OBVIOUS
  <2>1. ASSUME NEW id \in Ids, NEW identity \in Identities, NEW outcome \in Outcomes,
               ReadMutationReport(id, identity, outcome)
        PROVE  entries'[e] \in {"Acked", "Duplicate"}
    BY <2>1 DEF WithEntry, ReadMutationReport, AfterMutationReport
  <2>2. CASE EndMutationReports
    BY <2>2 DEF EndMutationReports
  <2> QED BY <2>1, <2>2
          DEF Next, WithEntry, ReadVerificationReport, EndVerificationReports, SettleUnobserved
<1> QED BY <1>1, LedgerTypeCorrect, PTL DEF Spec, AckSurvivesReplay
=============================================================================
