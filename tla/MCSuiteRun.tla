---------------------------- MODULE MCSuiteRun ----------------------------
(* Command lines for the runs of SuiteRun. *)
EXTENDS SuiteRun

\* One scenario of each kind the catalog knows.
OneOfEach == <<"smoke-local", "recovery-crash-loop", "wal-prune-cut">>

CommandLines ==
  {[kind |-> "Run", backend |-> b, name |-> n, failpoints |-> FALSE, cloudSmoke |-> FALSE] :
     b \in {"Local", "S3"}, n \in {"smoke-local", "recovery-crash-loop", "unlisted"}}
  \cup
  {[kind |-> "Suite", backend |-> b, name |-> n, failpoints |-> f, cloudSmoke |-> FALSE] :
     b \in {"Local", "Sqrzl", "S3"}, n \in {"Smoke", "Standard"}, f \in BOOLEAN}
  \cup
  {[kind |-> "Frontier", backend |-> b, name |-> n, failpoints |-> FALSE, cloudSmoke |-> TRUE] :
     b \in {"Sqrzl", "S3"},
     n \in {AllScenarios, "smoke-local", "recovery-crash-loop", "unlisted"}}

TwoScales == <<1, 2>>
TwoSeeds == <<1, 2>>
=============================================================================
