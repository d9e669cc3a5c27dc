------------------------------- MODULE Ledger -------------------------------
(***************************************************************************)
(* The expected ledger of one scenario and its classification              *)
(* (src/src/ledger.rs).  Every planned operation starts Dispatched; the    *)
(* controller then reads the worker reports twice, first the mutation      *)
(* reports and then the verification reports, and finally settles the      *)
(* entries nothing was said about.  The reports are whatever a sequence of *)
(* workers wrote: any number, in any order, for any operation.             *)
(***************************************************************************)
EXTENDS Naturals, LedgerRules

CONSTANTS
  Ids,         \* operation ids a report may carry
  Planned,     \* the ids of the plan: one ledger entry each
  Identities,  \* the (sequence, key) pairs a report may carry
  NoIdentity   \* no mutation report for the id has been read yet

ASSUME LedgerAssumption ==
  /\ Planned \subseteq Ids
  /\ NoIdentity \notin Identities

VARIABLES
  pass,        \* the loop of the classification being run
  entries,     \* classification of every ledger entry
  identities,  \* mutation_identities: the last (sequence, key) seen for an id
  \* history, read by the properties only
  acked,       \* ids some report acknowledged
  conflicted,  \* ids two successive mutation reports disagreed about
  heard,       \* mutation reports that named an id: none, one, or more
  lastCheck    \* outcome of the last verification report for an entry

history == <<acked, conflicted, heard, lastCheck>>
vars == <<pass, entries, identities, acked, conflicted, heard, lastCheck>>

Passes == {"Mutation", "Verification", "Unobserved", "Done"}
Unchecked == "Unchecked"

TypeOK ==
  /\ pass \in Passes
  /\ entries \in [Planned -> MutationOutcome]
  /\ identities \in [Ids -> Identities \cup {NoIdentity}]
  /\ acked \subseteq Ids
  /\ conflicted \subseteq Ids
  /\ heard \in [Ids -> 0..2]
  /\ lastCheck \in [Planned -> Outcomes \cup {Unchecked}]

Init ==
  /\ pass = "Mutation"
  /\ entries = [id \in Planned |-> "Dispatched"]
  /\ identities = [id \in Ids |-> NoIdentity]
  /\ acked = {}
  /\ conflicted = {}
  /\ heard = [id \in Ids |-> 0]
  /\ lastCheck = [id \in Planned |-> Unchecked]

\* HashMap::insert returned a previous identity, and it is another one.
InconsistentReplay(id, identity) ==
  /\ identities[id] # NoIdentity
  /\ identities[id] # identity

\* A report for an id outside the plan changes no entry.  Mutant: it adds one.
EntryAdded(id, class) ==
  [e \in Planned \cup {id} |->
     IF e \in Planned THEN IF e = id THEN class ELSE entries[e] ELSE "Reported"]
WithEntry(id, class) ==
  [e \in Planned |-> IF e = id THEN class ELSE entries[e]]

ReadMutationReport(id, identity, outcome) ==
  /\ pass = "Mutation"
  /\ identities' = [identities EXCEPT ![id] = identity]
  /\ entries' = WithEntry(id,
       AfterMutationReport(entries[id], InconsistentReplay(id, identity), outcome))
  /\ acked' = IF outcome = "Acked" THEN acked \cup {id} ELSE acked
  /\ conflicted' = IF InconsistentReplay(id, identity)
                   THEN conflicted \cup {id} ELSE conflicted
  /\ heard' = [heard EXCEPT ![id] = IF @ = 0 THEN 1 ELSE 2]
  /\ UNCHANGED <<pass, lastCheck>>

EndMutationReports ==
  /\ pass = "Mutation"
  /\ pass' = "Verification"
  /\ UNCHANGED <<entries, identities, history>>

ReadVerificationReport(id, outcome) ==
  /\ pass = "Verification"
  /\ entries' = WithEntry(id, AfterVerificationReport(entries[id], outcome))
  /\ acked' = IF outcome = "Acked" THEN acked \cup {id} ELSE acked
  /\ lastCheck' = [e \in Planned |-> IF e = id THEN outcome ELSE lastCheck[e]]
  /\ UNCHANGED <<pass, identities, conflicted, heard>>

EndVerificationReports ==
  /\ pass = "Verification"
  /\ pass' = "Unobserved"
  /\ UNCHANGED <<entries, identities, history>>

\* classify_reports passes Missing, classify_reports_after_timeout Unknown.
SettleUnobserved(unobserved) ==
  /\ pass = "Unobserved"
  /\ entries' = [e \in Planned |-> AfterLastReport(entries[e], unobserved)]
  /\ pass' = "Done"
  /\ UNCHANGED <<identities, history>>

Next ==
  \/ \E id \in Ids, identity \in Identities, outcome \in Outcomes :
       ReadMutationReport(id, identity, outcome)
  \/ EndMutationReports
  \/ \E id \in Ids, outcome \in Outcomes : ReadVerificationReport(id, outcome)
  \/ EndVerificationReports
  \/ \E unobserved \in {"Missing", "Unknown"} : SettleUnobserved(unobserved)

Spec == Init /\ [][Next]_vars

-----------------------------------------------------------------------------
(* Safety *)

\* An entry is Duplicate exactly when two successive mutation reports of its
\* id disagreed about the sequence or the key.  A controller-directed retry
\* that replays the same operation never raises the finding, and no later
\* acknowledgement, failure or verification clears it.
DuplicateIsIdentityConflict ==
  \A id \in Planned : entries[id] = "Duplicate" <=> id \in conflicted

\* An entry counts as acknowledged only on evidence: some report acknowledged
\* it, and the last verifier that looked at it, if any did, found its value.
AckedIsWarranted ==
  \A id \in Planned : entries[id] = "Acked" =>
    /\ id \in acked
    /\ lastCheck[id] \in {Unchecked, "Acked"}

\* An entry is Missing only when an acknowledged mutation then failed its last
\* check, or when no mutation report ever named it: a mutation that was merely
\* reported failed or unknown is never turned into a loss by a verifier.
MissingIsWarranted ==
  \A id \in Planned : entries[id] = "Missing" =>
    \/ id \in acked /\ lastCheck[id] = "Failed"
    \/ pass = "Done" /\ heard[id] = 0 /\ lastCheck[id] \in {Unchecked, "Failed"}

(* Action properties *)

\* While mutation reports are read, an acknowledgement is never taken back: a
\* late failure of a replay leaves it, only a contradiction can replace it.
AckSurvivesReplay ==
  [][\A id \in Planned :
       pass = "Mutation" /\ entries[id] = "Acked"
         => entries'[id] \in {"Acked", "Duplicate"}]_vars
=============================================================================
