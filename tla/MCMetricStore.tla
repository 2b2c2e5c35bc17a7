---------------------------- MODULE MCMetricStore ----------------------------
(***************************************************************************)
(* Requests for model-checking MetricStore: three groups, of which two     *)
(* differ only in an explicit empty instance label; pushes that replace,   *)
(* merge, clash in type, carry a timestamp, or name a push metric.         *)
(***************************************************************************)
EXTENDS MetricStore, TLC

G1 == [n \in {"job"} |-> <<"a">>]
G2 == [n \in {"job", "instance"} |-> IF n = "job" THEN <<"a">> ELSE <<"">>]
G3 == [n \in {"job", "instance"} |-> IF n = "job" THEN <<"a">> ELSE <<"i">>]
\* Two groups, of which the second has a value with two separator bytes.
G4 == [n \in {"job", "x", "y"} |-> <<n>>]
G5 == [n \in {"job", "x"} |-> IF n = "job" THEN <<"job">> ELSE <<"x", "y", "y">>]

NoLabels == [n \in {} |-> n]

Sample(labels, stamped) == [labels |-> labels, value |-> 7, stamped |-> stamped]

Fam(type, series) == [type |-> type, series |-> series]

Plain   == Fam("gauge", <<Sample(NoLabels, FALSE)>>)
Counter == Fam("counter", <<Sample(NoLabels, FALSE)>>)
Stale   == Fam("gauge", <<Sample(NoLabels, TRUE)>>)
\* Two samples that only the grouping labels make equal.
Collide == Fam("gauge", <<Sample("job" :> <<"x">>, FALSE), Sample("job" :> <<"y">>, FALSE)>>)

Put(g, fs)  == [labels |-> g, families |-> fs, replace |-> TRUE]
Post(g, fs) == [labels |-> g, families |-> fs, replace |-> FALSE]
Delete(g)   == [labels |-> g, families |-> NoFamilies, replace |-> FALSE]

MCLabelOrder == <<"instance", "job", "x", "y">>

MCOwnFamilies == "go_goroutines" :> Fam("gauge", <<Sample(NoLabels, FALSE)>>)

MCRequests ==
  {Put(G1, "m" :> Plain), Post(G1, pushMetricName :> Counter), Post(G1, "m" :> Collide),
   Put(G1, "m" :> Stale), Post(G1, pushFailedMetricName :> Plain),
   Delete(G1), Post(G2, "m" :> Plain),
   Post(G3, "m" :> Counter), Post(G3, "go_goroutines" :> Counter), Delete(G3)}

\* Requests to groups whose grouping keys are joined of the same pieces.
MCKeys == {Put(G4, "m" :> Plain), Delete(G4), Put(G5, "m" :> Plain), Delete(G5)}

=============================================================================
