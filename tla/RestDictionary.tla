---------------------------- MODULE RestDictionary ----------------------------
(***************************************************************************)
(* What the README promises to clients that push, delete and query: the    *)
(* Pushgateway is a dictionary from grouping labels to named metric        *)
(* families.  PUT replaces the families of a group, POST only those with   *)
(* the same names, DELETE removes the group.  Requests take effect one by  *)
(* one, in order.  A push may be refused; it then changes nothing but the  *)
(* time of the last failure.                                               *)
(*                                                                         *)
(* There are no URLs, encodings, grouping keys or JSON here: a request is  *)
(* what the client means by it, [labels, families, replace, time], and     *)
(* Show tells how a pushed family is shown in the group of these labels.   *)
(***************************************************************************)
EXTENDS Naturals, Sequences

CONSTANTS
  NoFamilies,       \* what a DELETE pushes
  NoMeaning,        \* of malformed requests, which have no effect
  PushMetricNames,  \* the families a client has no say in
  FailureTimeName,  \* ... except this one, which a body may bring along
  Show(_, _)        \* a pushed family and labels, as the API shows it

VARIABLES
  dict,    \* labels -> [families, succeeded, failed, successful]
  pending, \* requests that have not taken effect yet
  ignored  \* what the last request that was taken for malformed meant

dictVars == <<dict, pending, ignored>>

DictInit == dict = [l \in {} |-> l] /\ pending = <<>> /\ ignored = NoMeaning

Ask(request) ==
  /\ request # NoMeaning
  /\ pending' = Append(pending, request)
  /\ UNCHANGED <<dict, ignored>>

\* The families a push brings along, as they will be shown.
Shown(request) ==
  [n \in DOMAIN request.families \ PushMetricNames |->
    [time |-> request.time, metrics |-> Show(request.families[n], request.labels)]]

Extended(f, g) ==
  [n \in DOMAIN f \cup DOMAIN g |-> IF n \in DOMAIN g THEN g[n] ELSE f[n]]

NoFamily == [n \in {} |-> n]

Known(labels) == labels \in DOMAIN dict

Untouched(labels) ==
  \A l \in DOMAIN dict \ {labels} : l \in DOMAIN dict' /\ dict'[l] = dict[l]

\* The group is there with these families and this time of success.
Becomes(labels, families, succeeded) ==
  /\ DOMAIN dict' = DOMAIN dict \cup {labels}
  /\ Untouched(labels)
  /\ dict'[labels].families = families
  /\ dict'[labels].succeeded = succeeded
  /\ dict'[labels].successful = (dict'[labels].failed <= succeeded)

Accept(r) ==
  /\ r.families # NoFamilies
  /\ Becomes(r.labels,
             IF r.replace \/ ~Known(r.labels) THEN Shown(r)
             ELSE Extended(dict[r.labels].families, Shown(r)),
             r.time)
  /\ \/ FailureTimeName \in DOMAIN r.families
     \/ dict'[r.labels].failed = IF Known(r.labels) THEN dict[r.labels].failed ELSE 0

Refuse(r) ==
  /\ r.families # NoFamilies
  /\ Becomes(r.labels,
             IF Known(r.labels) THEN dict[r.labels].families ELSE NoFamily,
             IF Known(r.labels) THEN dict[r.labels].succeeded ELSE 0)
  /\ dict'[r.labels].failed = r.time

Remove(r) ==
  /\ r.families = NoFamilies
  /\ DOMAIN dict' = DOMAIN dict \ {r.labels}
  /\ Untouched(r.labels)

TakeEffect ==
  /\ pending # <<>> /\ pending' = Tail(pending)
  /\ LET r == Head(pending) IN Accept(r) \/ Refuse(r) \/ Remove(r)
  /\ UNCHANGED ignored

\* Only malformed requests are ignored.
Ignore == ignored' = NoMeaning /\ UNCHANGED <<dict, pending>>

\* It does not matter here where requests come from.
DictNext ==
  \/ Len(pending') > Len(pending) /\ Ask(pending'[Len(pending')])
  \/ TakeEffect
  \/ Ignore

DictSpec == DictInit /\ [][DictNext]_dictVars

=============================================================================
