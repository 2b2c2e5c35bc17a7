----------------------------- MODULE MetricStore -----------------------------
(***************************************************************************)
(* What storage.MetricStore promises to the rest of the program            *)
(* (storage/interface.go): write requests are handled one at a time, in    *)
(* the order of submission; each either takes effect as a whole or marks   *)
(* its group as failed; a caller that supplied a Done channel learns which *)
(* of the two it was, after the fact.  A crash may undo any of it.         *)
(*                                                                         *)
(* There is no queue capacity, no goroutine and no file here: module       *)
(* DiskMetricStore has those, and implements this specification.           *)
(***************************************************************************)
EXTENDS MetricGroups

CONSTANTS
  MaxRequests,  \* bound: write requests submitted in a behaviour
  MaxRestarts   \* bound: restarts of the process

ASSUME BoundsAssumption == MaxRequests \in Nat /\ MaxRestarts \in Nat

VARIABLES
  metricGroups,  \* the contents of the store
  submitted,     \* requests submitted and not handled yet, oldest first
  outcome,       \* of each caller's request: none, pending, ok, rejected
  submissions,   \* number of requests submitted so far
  restarts       \* number of restarts so far

vars == <<metricGroups, submitted, outcome, submissions, restarts>>

Init ==
  /\ metricGroups = EmptyStore
  /\ submitted = <<>>
  /\ outcome = [c \in Callers |-> "none"]
  /\ submissions = 0
  /\ restarts = 0

SubmitWriteRequest(c, wr) ==
  /\ submissions < MaxRequests
  /\ outcome[c] = "none"
  /\ wr.done \in {c, NoDone}
  /\ submitted' = Append(submitted, wr)
  /\ outcome' = IF wr.done = c THEN [outcome EXCEPT ![c] = "pending"] ELSE outcome
  /\ submissions' = submissions + 1
  /\ UNCHANGED <<metricGroups, restarts>>

\* The oldest request is handled.
HandleRequest ==
  /\ submitted # <<>>
  /\ LET wr == Head(submitted) IN
     /\ metricGroups' = Handle(metricGroups, wr)
     /\ outcome' = IF wr.done = NoDone THEN outcome
                   ELSE [outcome EXCEPT ![wr.done] =
                           IF checkWriteRequest(metricGroups, wr)
                             THEN "ok" ELSE "rejected"]
  /\ submitted' = Tail(submitted)
  /\ UNCHANGED <<submissions, restarts>>

\* The caller finds its Done channel closed.
Reply(c) ==
  /\ outcome[c] \in {"ok", "rejected"}
  /\ outcome' = [outcome EXCEPT ![c] = "none"]
  /\ UNCHANGED <<metricGroups, submitted, submissions, restarts>>

\* The process ends, whatever it was doing, and comes back with some contents.
Restart(groups) ==
  /\ restarts < MaxRestarts
  /\ metricGroups' = groups
  /\ submitted' = <<>>
  /\ outcome' = [c \in Callers |-> "none"]
  /\ restarts' = restarts + 1
  /\ UNCHANGED submissions

Next ==
  \/ \E c \in Callers, wr \in WriteRequests : SubmitWriteRequest(c, wr)
  \/ HandleRequest
  \/ \E c \in Callers : Reply(c)

Spec == Init /\ [][Next]_vars

\* The same with restarts; TLC can only check it of another specification,
\* because the contents after a restart are not enumerated.
NextWithRestarts == Next \/ Restart(metricGroups')

SpecWithRestarts == Init /\ [][NextWithRestarts]_vars

-----------------------------------------------------------------------------
(* Properties of the contents.                                             *)

\* A request is handled in this step.
Handled == Len(submitted') < Len(submitted) /\ restarts' = restarts

Rejected(wr) == ~checkWriteRequest(metricGroups, wr)

TypeOK ==
  /\ DOMAIN metricGroups \subseteq {groupingKeyFor(r.labels) : r \in Requests}
  /\ \A k \in DOMAIN metricGroups :
       /\ DOMAIN metricGroups[k] = {"labels", "metrics"}
       /\ \A n \in DOMAIN metricGroups[k].metrics :
            metricGroups[k].metrics[n].timestamp \in Times
  /\ submitted \in Seq(WriteRequests)
  /\ outcome \in [Callers -> {"none", "pending", "ok", "rejected"}]
  /\ submissions \in 0 .. MaxRequests
  /\ restarts \in 0 .. MaxRestarts

\* Every group sits under the key of its own labels, carries both push metrics,
\* and exposes no sample that contradicts its labels, lacks an instance label or
\* carries a pushed timestamp.  (GetMetricFamilies and the status page rely on
\* it; sanitizeLabels and setPushFailedTimestamp must keep it up on every path.)
GroupsWellFormed ==
  \A k \in DOMAIN metricGroups :
    LET group == metricGroups[k] IN
    /\ groupingKeyFor(group.labels) = k
    /\ pushMetricNames \subseteq DOMAIN group.metrics
    /\ \A n \in DOMAIN group.metrics :
         LET series == group.metrics[n].family.series IN
         \A i \in DOMAIN series :
           /\ \A l \in DOMAIN group.labels :
                l \in DOMAIN series[i].labels /\ series[i].labels[l] = group.labels[l]
           /\ "instance" \in DOMAIN series[i].labels
           /\ ~series[i].stamped

\* With the check enabled only a rejected push can make the store stop being
\* gatherable, and right after an accepted push it is gatherable (README: pushes
\* that would lead to inconsistencies are rejected; a delete is a way out).
AcceptedPushesGather ==
  [][Handled =>
       \/ Rejected(Head(submitted))
       \/ /\ Gatherable(metricGroups) => Gatherable(metricGroups')
          /\ ~IsDelete(Head(submitted)) => Gatherable(metricGroups')]_vars

\* Handling a request touches no group with other labels: deleting {job} leaves
\* {job, instance} alone, and so does a rejected or replacing push.
OtherGroupsUntouched ==
  [][Handled =>
       \A k \in DOMAIN metricGroups \cup DOMAIN metricGroups' :
         \/ /\ k \in DOMAIN metricGroups \cap DOMAIN metricGroups'
            /\ metricGroups'[k] = metricGroups[k]
         \/ k \in DOMAIN metricGroups
              /\ metricGroups[k].labels = Head(submitted).labels
         \/ k \in DOMAIN metricGroups' \ DOMAIN metricGroups
              /\ metricGroups'[k].labels = Head(submitted).labels]_vars

\* A rejected push loses nothing: every family the group had before, other than
\* push_failure_time_seconds, is still there with the same samples and time.
RejectedPushLosesNothing ==
  [][(Handled /\ Rejected(Head(submitted))) =>
       \A k \in DOMAIN metricGroups :
         /\ k \in DOMAIN metricGroups'
         /\ \A n \in DOMAIN metricGroups[k].metrics \ {pushFailedMetricName} :
              /\ n \in DOMAIN metricGroups'[k].metrics
              /\ metricGroups'[k].metrics[n] = metricGroups[k].metrics[n]]_vars

\* A group's failure time survives successful pushes, PUTs included, as long as
\* they do not themselves carry a family of that name.
FailureTimeRetained ==
  [][(Handled /\ ~Rejected(Head(submitted)) /\ ~IsDelete(Head(submitted))) =>
       LET k == groupingKeyFor(Head(submitted).labels) IN
       (/\ k \in DOMAIN metricGroups
        /\ pushFailedMetricName \notin DOMAIN Head(submitted).families)
       => metricGroups'[k].metrics[pushFailedMetricName]
            = metricGroups[k].metrics[pushFailedMetricName]]_vars

\* A push with a later time than the group's last success and last failure turns
\* the group's LastPushSuccess into its own verdict, whatever its body and the
\* earlier requests were.  (A body that brings its own failure time is excepted.)
LastPushReported ==
  [][(Handled /\ ~IsDelete(Head(submitted))) =>
       LET wr  == Head(submitted)
           k   == groupingKeyFor(wr.labels)
           old == MetricsOf(metricGroups, k)
       IN  (/\ pushFailedMetricName \notin DOMAIN wr.families
            /\ \A n \in pushMetricNames \cap DOMAIN old :
                 GaugeValue(old[n].family) < wr.timestamp)
           => (LastPushSuccess(metricGroups'[k]) <=> ~Rejected(wr))]_vars

-----------------------------------------------------------------------------
(* Statements of the documentation that the code does not live up to.      *)

\* README: push_time_seconds and push_failure_time_seconds override any pushed
\* metric of that name, i.e. both families are always gauges made by the store.
PushMetricsAreOwn ==
  \A k \in DOMAIN metricGroups : \A n \in pushMetricNames :
    \E t \in Times \cup {ZeroTime} :
      metricGroups[k].metrics[n].family
        = newTimestampGauge(metricGroups[k].labels, t)

\* README: pushes that would lead to inconsistencies are rejected, so that with
\* the check enabled the stored metrics can always be scraped.
AlwaysGatherable == Checked => Gatherable(metricGroups)

\* groupingKeyFor: "the grouping key is both reproducible and unique", so that a
\* request can only meet a group of its own labels under its key.
KeysAreUnique ==
  \A k \in DOMAIN metricGroups, i \in DOMAIN submitted :
    groupingKeyFor(submitted[i].labels) = k => submitted[i].labels = metricGroups[k].labels

=============================================================================
