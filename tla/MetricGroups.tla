----------------------------- MODULE MetricGroups -----------------------------
(***************************************************************************)
(* The contents of the Pushgateway's store and the functions that change   *)
(* it: what storage/diskmetricstore.go does to its map of metric groups    *)
(* while it holds the lock.  There are no variables here; the modules      *)
(* MetricStore and DiskMetricStore run these operators.                    *)
(*                                                                         *)
(* A label set is a function from label names to values; a value is the    *)
(* sequence of the pieces between its separator bytes, so that nearly all  *)
(* values have one piece, the empty one included.  A sample of a metric    *)
(* family is [labels, value, stamped]: `stamped' is TRUE when the pushed   *)
(* sample carries an explicit timestamp.  A family is a type and a         *)
(* sequence of samples; help strings only influence wording and are left   *)
(* out.  A metric group is [labels, metrics], where `metrics' maps a       *)
(* family's name to [timestamp, family].                                   *)
(***************************************************************************)
EXTENDS Naturals, Sequences, SequencesExt, Functions

CONSTANTS
  LabelOrder,   \* the names of labels in lexicographic order
  OwnFamilies,  \* the families the Pushgateway itself exposes, by name
  NoFamilies,   \* the nil MetricFamilies of a delete request
  NoDone,       \* the nil Done channel of a request nobody waits for
  Callers,      \* goroutines that submit write requests
  Requests,     \* what they may ask for: records [labels, families, replace]
  Times,        \* the times a request may carry
  Checked       \* FALSE iff the consistency check is disabled by flag

ASSUME LabelOrderAssumption == LabelOrder \in Seq(STRING)
ASSUME TimesAssumption   == Times \subseteq Nat \ {0}
ASSUME NoDoneAssumption  == NoDone \notin Callers
ASSUME CheckedAssumption == Checked \in BOOLEAN

\* A family: its samples are records with these fields.
IsFamily(f) ==
  /\ DOMAIN f = {"type", "series"}
  /\ \A i \in DOMAIN f.series : DOMAIN f.series[i] = {"labels", "value", "stamped"}

ASSUME RequestsAssumption ==
  \A r \in Requests : r.families # NoFamilies =>
    \A n \in DOMAIN r.families : IsFamily(r.families[n])

pushMetricName       == "push_time_seconds"
pushFailedMetricName == "push_failure_time_seconds"
pushMetricNames      == {pushMetricName, pushFailedMetricName}

ZeroTime   == 0
EmptyStore == [k \in {} |-> k]

\* f, completed by g where f is not defined.
Over(f, g) ==
  [x \in DOMAIN f \cup DOMAIN g |-> IF x \in DOMAIN f THEN f[x] ELSE g[x]]

Single(x, y) == [z \in {x} |-> y]

\* f without its entries for the arguments in S.
Drop(f, S) == Restrict(f, DOMAIN f \ S)

-----------------------------------------------------------------------------
(* Labels and grouping keys.                                               *)

\* The pieces of the names in `labels' and of their values, the names in order.
Joined(labels, names) ==
  FlattenSeq([i \in DOMAIN names |->
    IF names[i] \in DOMAIN labels THEN <<names[i]>> \o labels[names[i]] ELSE <<>>])

\* Mutated form: the key is built from the job label alone.
KeyOfJobOnly(labels) == Joined(labels, <<"job">>)

\* The string in which names and values alternate, with separator bytes between
\* them: as a sequence of the pieces between separator bytes.
groupingKeyFor(labels) == Joined(labels, LabelOrder)

NoValue == <<"">>

\* Mutated form: no instance label is added.
SanitizeWithoutInstance(family, groupingLabels) ==
  [family EXCEPT !.series =
    [i \in DOMAIN family.series |->
      [family.series[i] EXCEPT !.labels = Over(groupingLabels, @)]]]

\* The grouping labels win over the sample's own; `instance' is added, empty,
\* to a sample that still has none.
sanitizeLabels(family, groupingLabels) ==
  [family EXCEPT !.series =
    [i \in DOMAIN family.series |->
      [family.series[i] EXCEPT
         !.labels = Over(groupingLabels, Over(@, Single("instance", NoValue)))]]]

newTimestampGauge(groupingLabels, t) ==
  sanitizeLabels(
    [type   |-> "gauge",
     series |-> <<[labels |-> [n \in {} |-> n], value |-> t, stamped |-> FALSE]>>],
    groupingLabels)

timestampsPresent(families) ==
  \E n \in DOMAIN families :
    \E i \in DOMAIN families[n].series : families[n].series[i].stamped

-----------------------------------------------------------------------------
(* Gathering: can everything that is stored be exposed on one page,        *)
(* together with the Pushgateway's own metrics?  This is the verdict of    *)
(* prometheus.Gatherers.Gather, which the code calls as a library.         *)

\* Two families of one name can be merged: same type, no sample in both.
Mergeable(f, g) ==
  /\ f.type = g.type
  /\ \A i \in DOMAIN f.series, j \in DOMAIN g.series :
       f.series[i].labels # g.series[j].labels

NoDuplicates(f) ==
  \A i, j \in DOMAIN f.series : f.series[i].labels = f.series[j].labels => i = j

\* The separator byte does not occur in UTF-8.
IsUTF8(value) == Len(value) = 1

ValuesUTF8(f) ==
  \A i \in DOMAIN f.series :
    \A l \in DOMAIN f.series[i].labels : IsUTF8(f.series[i].labels[l])

Gatherable(groups) ==
  /\ \A k \in DOMAIN groups : \A n \in DOMAIN groups[k].metrics :
       LET f == groups[k].metrics[n].family IN
       /\ NoDuplicates(f)
       /\ ValuesUTF8(f)
       /\ n \in DOMAIN OwnFamilies => Mergeable(f, OwnFamilies[n])
  /\ \A k, l \in DOMAIN groups :
       \A n \in DOMAIN groups[k].metrics \cap DOMAIN groups[l].metrics :
         k # l => Mergeable(groups[k].metrics[n].family,
                            groups[l].metrics[n].family)

-----------------------------------------------------------------------------
(* Write requests: [labels, families, replace, timestamp, done].           *)

\* The WriteRequest a caller makes of r: deletes never carry a Done channel,
\* pushes do unless the check is disabled.
WriteRequest(c, r, t) ==
  [labels |-> r.labels, families |-> r.families, replace |-> r.replace,
   timestamp |-> t,
   done |-> IF Checked /\ r.families # NoFamilies THEN c ELSE NoDone]

WriteRequests == {WriteRequest(c, r, t) : c \in Callers, r \in Requests, t \in Times}

IsDelete(wr) == wr.families = NoFamilies

MetricsOf(groups, key) ==
  IF key \in DOMAIN groups THEN groups[key].metrics ELSE [n \in {} |-> n]

\* Mutated form: a PUT removes the push metrics too.
KeptNothing(metrics, replace) ==
  IF replace THEN [n \in {} |-> n] ELSE metrics

\* What a push leaves of the group before it writes: a PUT removes everything
\* except the two push metrics.
Kept(metrics, replace) ==
  IF replace THEN Restrict(metrics, DOMAIN metrics \cap pushMetricNames)
             ELSE metrics

\* Mutated form: the push time is taken from the request body when it has one.
PushedWithOwnTime(wr, kept) ==
  Over(wr.families,
       Over(Single(pushMetricName, newTimestampGauge(wr.labels, wr.timestamp)),
            IF pushFailedMetricName \in DOMAIN kept THEN [n \in {} |-> n]
            ELSE Single(pushFailedMetricName,
                        newTimestampGauge(wr.labels, ZeroTime))))

\* The families a push writes over what it keeps.  push_time_seconds is always
\* the store's own; push_failure_time_seconds is the store's own (zero) only
\* if the group has none yet, and the pushed one, if any, otherwise.
Pushed(wr, kept) ==
  LET families == Over(Single(pushMetricName,
                              newTimestampGauge(wr.labels, wr.timestamp)),
                       wr.families)
  IN  IF pushFailedMetricName \in DOMAIN kept THEN families
      ELSE Over(Single(pushFailedMetricName,
                       newTimestampGauge(wr.labels, ZeroTime)), families)

\* Mutated form: the time of the request is not recorded.
StampedZero(families, t) ==
  [n \in DOMAIN families |-> [timestamp |-> ZeroTime, family |-> families[n]]]

Stamped(families, t) ==
  [n \in DOMAIN families |-> [timestamp |-> t, family |-> families[n]]]

\* groups, with `metrics' as the metrics of the request's group.
SetGroup(groups, wr, metrics) ==
  LET key == groupingKeyFor(wr.labels)
  IN  Over(Single(key, [labels  |-> IF key \in DOMAIN groups
                                      THEN groups[key].labels ELSE wr.labels,
                        metrics |-> metrics]),
           groups)

processWriteRequest(groups, wr) ==
  LET key  == groupingKeyFor(wr.labels)
      kept == Kept(MetricsOf(groups, key), wr.replace)
  IN  IF IsDelete(wr)
        THEN Drop(groups, {key})
        ELSE SetGroup(groups, wr,
                      Over(Stamped(Pushed(wr, kept), wr.timestamp), kept))

\* Mutated form: a rejected push takes the other families of its group along.
FailedStampOnly(groups, wr) ==
  SetGroup(groups, wr,
           Stamped(Over(Single(pushFailedMetricName,
                               newTimestampGauge(wr.labels, wr.timestamp)),
                        Single(pushMetricName,
                               newTimestampGauge(wr.labels, ZeroTime))),
                   wr.timestamp))

\* A rejected push only marks its group: the failure time is set, and a zero
\* push time is added if the group has none.
setPushFailedTimestamp(groups, wr) ==
  LET old    == MetricsOf(groups, groupingKeyFor(wr.labels))
      failed == Single(pushFailedMetricName,
                       newTimestampGauge(wr.labels, wr.timestamp))
      never  == Single(pushMetricName, newTimestampGauge(wr.labels, ZeroTime))
  IN  SetGroup(groups, wr,
               Over(Stamped(failed, wr.timestamp),
                    Over(old, Stamped(never, wr.timestamp))))

\* The request as the check leaves it: every family carries the grouping labels.
sanitizeRequest(wr) ==
  IF IsDelete(wr) THEN wr
  ELSE [wr EXCEPT !.families =
         [n \in DOMAIN @ |-> sanitizeLabels(@[n], wr.labels)]]

\* A push does not become a delete by that.
ASSUME PushesAssumption ==
  \A r \in Requests : r.families # NoFamilies =>
    [n \in DOMAIN r.families |-> sanitizeLabels(r.families[n], r.labels)] # NoFamilies

\* Mutated form: the trial run uses the request as it was pushed.
CheckUnsanitized(groups, wr) ==
  \/ IsDelete(wr)
  \/ /\ ~timestampsPresent(wr.families)
     /\ wr.done = NoDone \/ Gatherable(processWriteRequest(groups, wr))

\* Deletes are never refused.  A push with timestamps is refused; a push
\* somebody waits for is also tried on a copy of the store, which must remain
\* gatherable.  (The copy is bound by a quantifier to be computed only once.)
checkWriteRequest(groups, wr) ==
  \/ IsDelete(wr)
  \/ /\ ~timestampsPresent(wr.families)
     /\ \/ wr.done = NoDone
        \/ \E sane \in {sanitizeRequest(wr)} :
             \E after \in {processWriteRequest(groups, sane)} : Gatherable(after)

\* What becomes of the store when the loop handles one request.
Handle(groups, wr) ==
  IF checkWriteRequest(groups, wr)
    THEN processWriteRequest(groups, sanitizeRequest(wr))
    ELSE setPushFailedTimestamp(groups, wr)

-----------------------------------------------------------------------------
(* How a group reports on its last push.                                   *)

\* GetGauge().GetValue() of the first sample: 0 for a family of another type.
GaugeValue(f) == IF f.type = "gauge" THEN f.series[1].value ELSE 0

LastPushSuccess(group) ==
  pushMetricNames \subseteq DOMAIN group.metrics =>
    GaugeValue(group.metrics[pushFailedMetricName].family)
      <= GaugeValue(group.metrics[pushMetricName].family)

\* A failure time that is pushed has a first sample.
ASSUME FailureTimesAssumption ==
  \A r \in Requests :
    (r.families # NoFamilies /\ pushFailedMetricName \in DOMAIN r.families) =>
      GaugeValue(sanitizeLabels(r.families[pushFailedMetricName], r.labels)) \in Nat

=============================================================================
