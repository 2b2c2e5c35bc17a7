---------------------------- MODULE MCPushgateway ----------------------------
(***************************************************************************)
(* Requests for model-checking Pushgateway: pushes to two groups, one push *)
(* that the check rejects, and the deletes.                                *)
(***************************************************************************)
EXTENDS Pushgateway, TLC

A == [n \in {"job"} |-> <<"a">>]
B == [n \in {"job"} |-> <<"b">>]

Families(stamped) ==
  "m" :> [type   |-> "gauge",
          series |-> <<[labels |-> [n \in {} |-> n], value |-> 7, stamped |-> stamped]>>]

Push(labels, stamped) ==
  [labels |-> labels, families |-> Families(stamped), replace |-> FALSE]

MCPushes == {Push(A, FALSE), Push(A, TRUE)}

\* For liveness, one group will do.
MCOneGroup == MCPushes \cup {DeleteOf(A)}

MCTwoGroups == MCOneGroup \cup {Push(B, FALSE), DeleteOf(B)}

MCOwnFamilies == [n \in {} |-> n]

MCLabelOrder == <<"instance", "job">>

MCTimes == 1 .. MaxArrivals

=============================================================================
