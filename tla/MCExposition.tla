----------------------------- MODULE MCExposition -----------------------------
(* Values of constants for the check of Exposition. *)
EXTENDS Exposition, TLC

CONSTANTS k1, k2, r1

MCNames == {"m", pushFailedMetricName}

Push(names, help, replace, stamped, checked) ==
  [key : Keys, names : {names}, help : {help},
   replace : {replace}, stamped : {stamped}, checked : {checked}]

MCPushes ==
  UNION {Push({"m"}, "standard", TRUE,  FALSE, TRUE),
         Push({"m"}, "other",    FALSE, FALSE, TRUE),
         Push({},    "standard", TRUE,  FALSE, FALSE),
         Push({"m"}, "standard", FALSE, TRUE,  TRUE)}

MCSymmetry == Permutations({k1, k2})

=============================================================================
