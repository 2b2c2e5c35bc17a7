-------------------------- MODULE MCDiskMetricStore --------------------------
(***************************************************************************)
(* Requests for model-checking DiskMetricStore: a push, one that the check *)
(* rejects because of a timestamp, and a delete, which nobody waits for.   *)
(***************************************************************************)
EXTENDS DiskMetricStore, TLC

Group == [n \in {"job"} |-> <<"a">>]

Families(stamped) ==
  "m" :> [type   |-> "gauge",
          series |-> <<[labels |-> [n \in {} |-> n], value |-> 7, stamped |-> stamped]>>]

Push(stamped) == [labels |-> Group, families |-> Families(stamped), replace |-> FALSE]

Delete == [labels |-> Group, families |-> NoFamilies, replace |-> FALSE]

MCRequests == {Push(FALSE), Push(TRUE), Delete}

\* For the runs in which everybody waits, and those about the file only.
MCPushes     == {Push(FALSE), Push(TRUE)}
MCOneRequest == {Push(FALSE)}

MCOwnFamilies == [n \in {} |-> n]

MCLabelOrder == <<"instance", "job">>

=============================================================================
