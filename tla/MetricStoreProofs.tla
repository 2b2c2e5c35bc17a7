-------------------------- MODULE MetricStoreProofs --------------------------
(***************************************************************************)
(* Proofs about MetricStore, for any callers, requests, label names, times *)
(* and bounds.  What relates a group to its labels holds only if grouping  *)
(* keys are unique among the requests: KeysDistinct.                       *)
(***************************************************************************)
EXTENDS MetricStore, MetricGroupsProofs

KeysDistinct ==
  \A r, s \in Requests :
    groupingKeyFor(r.labels) = groupingKeyFor(s.labels) => r.labels = s.labels

\* They are if no request has a label value with a separator byte in it.
THEOREM PlainRequestsSuffice ==
  (\A r \in Requests : PlainLabels(r.labels)) => KeysDistinct
BY PlainKeysDiffer DEF KeysDistinct

-----------------------------------------------------------------------------
(* Types.                                                                  *)

\* The parts of TypeOK that are about the contents.
MetricsTyped(metrics) == \A n \in DOMAIN metrics : metrics[n].timestamp \in Times

StoreTyped(groups) ==
  /\ DOMAIN groups \subseteq RequestKeys
  /\ \A k \in DOMAIN groups :
       DOMAIN groups[k] = {"labels", "metrics"} /\ MetricsTyped(groups[k].metrics)

\* Setting the metrics of a request's group keeps the types.
LEMMA SetGroupTyped ==
  ASSUME NEW groups, StoreTyped(groups), NEW wr, groupingKeyFor(wr.labels) \in RequestKeys,
         NEW metrics, MetricsTyped(metrics)
  PROVE  StoreTyped(SetGroup(groups, wr, metrics))
<1> DEFINE key   == groupingKeyFor(wr.labels)
           entry == [labels  |-> IF key \in DOMAIN groups
                                  THEN groups[key].labels ELSE wr.labels,
                     metrics |-> metrics]
<1>1. DOMAIN entry = {"labels", "metrics"} /\ MetricsTyped(entry.metrics)
  OBVIOUS
<1>2. SetGroup(groups, wr, metrics) = Over(Single(key, entry), groups)
  BY DEF SetGroup
<1> HIDE DEF entry
<1>3. StoreTyped(Over(Single(key, entry), groups))
  BY <1>1 DEF StoreTyped, Over, Single
<1> QED
  BY <1>2, <1>3

LEMMA OldMetricsTyped ==
  ASSUME NEW groups, StoreTyped(groups), NEW key
  PROVE  MetricsTyped(MetricsOf(groups, key))
BY DEF StoreTyped, MetricsOf, MetricsTyped

LEMMA OverTyped ==
  ASSUME NEW f, NEW g, MetricsTyped(f), MetricsTyped(g)
  PROVE  MetricsTyped(Over(f, g))
BY DEF MetricsTyped, Over

LEMMA StampedTyped ==
  ASSUME NEW families, NEW t \in Times
  PROVE  MetricsTyped(Stamped(families, t))
BY DEF MetricsTyped, Stamped

LEMMA KeptTyped ==
  ASSUME NEW metrics, MetricsTyped(metrics), NEW replace
  PROVE  MetricsTyped(Kept(metrics, replace))
BY DEF MetricsTyped, Kept, Restrict

\* Handling a request keeps the types, whatever becomes of it.
LEMMA ProcessTyped ==
  ASSUME NEW groups, StoreTyped(groups), NEW wr,
         groupingKeyFor(wr.labels) \in RequestKeys, wr.timestamp \in Times
  PROVE  StoreTyped(processWriteRequest(groups, wr))
<1> DEFINE key     == groupingKeyFor(wr.labels)
           kept    == Kept(MetricsOf(groups, key), wr.replace)
           metrics == Over(Stamped(Pushed(wr, kept), wr.timestamp), kept)
<1>1. MetricsTyped(metrics)
  BY OldMetricsTyped, KeptTyped, StampedTyped, OverTyped
<1>2. StoreTyped(Drop(groups, {key}))
  BY DEF StoreTyped, Drop, Restrict
<1>3. StoreTyped(SetGroup(groups, wr, metrics))
  BY <1>1, SetGroupTyped
<1> QED
  BY <1>2, <1>3 DEF processWriteRequest

LEMMA FailTyped ==
  ASSUME NEW groups, StoreTyped(groups), NEW wr,
         groupingKeyFor(wr.labels) \in RequestKeys, wr.timestamp \in Times
  PROVE  StoreTyped(setPushFailedTimestamp(groups, wr))
<1> DEFINE old     == MetricsOf(groups, groupingKeyFor(wr.labels))
           failed  == Single(pushFailedMetricName,
                             newTimestampGauge(wr.labels, wr.timestamp))
           never   == Single(pushMetricName, newTimestampGauge(wr.labels, ZeroTime))
           metrics == Over(Stamped(failed, wr.timestamp),
                           Over(old, Stamped(never, wr.timestamp)))
<1>1. MetricsTyped(metrics)
  BY OldMetricsTyped, StampedTyped, OverTyped
<1>2. StoreTyped(SetGroup(groups, wr, metrics))
  BY <1>1, SetGroupTyped
<1> QED
  BY <1>2 DEF setPushFailedTimestamp

LEMMA HandleTyped ==
  ASSUME NEW groups, StoreTyped(groups), NEW wr \in WriteRequests
  PROVE  StoreTyped(Handle(groups, wr))
BY WriteRequestFields, SanitizedFields, ProcessTyped, FailTyped DEF Handle

LEMMA TypeOKSplit ==
  TypeOK <=> /\ StoreTyped(metricGroups)
             /\ submitted \in Seq(WriteRequests)
             /\ outcome \in [Callers -> {"none", "pending", "ok", "rejected"}]
             /\ submissions \in 0 .. MaxRequests
             /\ restarts \in 0 .. MaxRestarts
BY DEF TypeOK, StoreTyped, RequestKeys, MetricsTyped

LEMMA TypeOKSplitNext ==
  TypeOK' <=> /\ StoreTyped(metricGroups')
              /\ submitted' \in Seq(WriteRequests)
              /\ outcome' \in [Callers -> {"none", "pending", "ok", "rejected"}]
              /\ submissions' \in 0 .. MaxRequests
              /\ restarts' \in 0 .. MaxRestarts
BY DEF TypeOK, StoreTyped, RequestKeys, MetricsTyped

\* The request that is handled is a write request.
LEMMA HeadOfSubmitted ==
  ASSUME submitted \in Seq(WriteRequests), submitted # <<>>
  PROVE  Head(submitted) \in WriteRequests /\ Tail(submitted) \in Seq(WriteRequests)
OBVIOUS

LEMMA TypeOKInductive == TypeOK /\ [Next]_vars => TypeOK'
<1> SUFFICES ASSUME TypeOK, [Next]_vars PROVE TypeOK'
  OBVIOUS
<1>1. ASSUME NEW c \in Callers, NEW wr \in WriteRequests, SubmitWriteRequest(c, wr)
      PROVE  TypeOK'
  <2>1. submissions' \in 0 .. MaxRequests
    BY <1>1, BoundsAssumption, TypeOKSplit DEF SubmitWriteRequest
  <2>2. outcome' \in [Callers -> {"none", "pending", "ok", "rejected"}]
    BY <1>1, TypeOKSplit DEF SubmitWriteRequest
  <2> QED
    BY <1>1, <2>1, <2>2, TypeOKSplit, TypeOKSplitNext DEF SubmitWriteRequest
<1>2. ASSUME HandleRequest PROVE TypeOK'
  <2>1. Head(submitted) \in WriteRequests /\ Tail(submitted) \in Seq(WriteRequests)
    BY <1>2, TypeOKSplit, HeadOfSubmitted DEF HandleRequest
  <2>2. StoreTyped(metricGroups')
    BY <1>2, <2>1, TypeOKSplit, HandleTyped DEF HandleRequest
  <2>3. outcome' \in [Callers -> {"none", "pending", "ok", "rejected"}]
    BY <1>2, TypeOKSplit DEF HandleRequest
  <2> QED
    BY <1>2, <2>1, <2>2, <2>3, TypeOKSplit, TypeOKSplitNext DEF HandleRequest
<1>3. ASSUME NEW c \in Callers, Reply(c) PROVE TypeOK'
  BY <1>3, TypeOKSplit, TypeOKSplitNext DEF Reply
<1>4. CASE UNCHANGED vars
  BY <1>4, TypeOKSplit, TypeOKSplitNext DEF vars
<1> QED
  BY <1>1, <1>2, <1>3, <1>4 DEF Next

\* The types of MetricStore hold in every behaviour of it; so every group sits
\* under the key of some request and carries the time of some push.
THEOREM StoreTypes == Spec => []TypeOK
<1>1. Init => TypeOK
  BY BoundsAssumption, TypeOKSplit DEF Init, EmptyStore, StoreTyped
<1> QED
  BY <1>1, TypeOKInductive, PTL DEF Spec

-----------------------------------------------------------------------------
(* Groups and their labels.                                                *)

\* What GroupsWellFormed says of a family of a group with these labels.
Exposable(f, labels) ==
  \A i \in DOMAIN f.series :
    /\ \A l \in DOMAIN labels :
         l \in DOMAIN f.series[i].labels /\ f.series[i].labels[l] = labels[l]
    /\ "instance" \in DOMAIN f.series[i].labels
    /\ ~f.series[i].stamped

AllExposable(metrics, labels) ==
  \A n \in DOMAIN metrics : Exposable(metrics[n].family, labels)

\* The inductive invariant: the labels of a group are those of some request,
\* which KeysDistinct can then compare with those of the request at hand.
StoreInv(groups) ==
  \A k \in DOMAIN groups :
    /\ groups[k].labels \in RequestLabels
    /\ groupingKeyFor(groups[k].labels) = k
    /\ pushMetricNames \subseteq DOMAIN groups[k].metrics
    /\ AllExposable(groups[k].metrics, groups[k].labels)

LEMMA StoreInvSuffices == StoreInv(metricGroups) => GroupsWellFormed
BY DEF StoreInv, GroupsWellFormed, AllExposable, Exposable

\* Sanitizing makes a family exposable if no sample of it has a timestamp.
LEMMA SanitizedExposable ==
  ASSUME NEW f, IsFamily(f), NEW labels, \A i \in DOMAIN f.series : ~f.series[i].stamped
  PROVE  Exposable(sanitizeLabels(f, labels), labels)
<1> DEFINE all(i) == Over(labels, Over(f.series[i].labels, Single("instance", NoValue)))
           clean  == [i \in DOMAIN f.series |-> [f.series[i] EXCEPT !.labels = all(i)]]
<1>1. sanitizeLabels(f, labels).series = clean
  BY DEF sanitizeLabels, IsFamily
<1>2. ASSUME NEW i \in DOMAIN f.series
      PROVE  clean[i].labels = all(i) /\ (clean[i].stamped <=> f.series[i].stamped)
  <2>1. DOMAIN f.series[i] = {"labels", "value", "stamped"}
    BY DEF IsFamily
  <2>2. clean[i] = [f.series[i] EXCEPT !.labels = all(i)]
    OBVIOUS
  <2> QED
    BY <2>1, <2>2
<1>3. ASSUME NEW i \in DOMAIN f.series, NEW l \in DOMAIN labels
      PROVE  l \in DOMAIN all(i) /\ all(i)[l] = labels[l]
  BY DEF Over
<1>4. ASSUME NEW i \in DOMAIN f.series
      PROVE  "instance" \in DOMAIN all(i)
  BY DEF Over, Single
<1>5. DOMAIN clean = DOMAIN f.series
  OBVIOUS
<1> HIDE DEF clean, all
<1> QED
  BY <1>1, <1>2, <1>3, <1>4, <1>5 DEF Exposable

\* So are the push metrics that the store itself makes.
LEMMA GaugeExposable ==
  ASSUME NEW labels, NEW t
  PROVE  Exposable(newTimestampGauge(labels, t), labels)
<1> DEFINE sample == [labels |-> [n \in {} |-> n], value |-> t, stamped |-> FALSE]
           gauge  == [type |-> "gauge", series |-> <<sample>>]
<1>1. IsFamily(gauge)
  BY DEF IsFamily
<1>2. \A i \in DOMAIN gauge.series : ~gauge.series[i].stamped
  OBVIOUS
<1>3. newTimestampGauge(labels, t) = sanitizeLabels(gauge, labels)
  BY DEF newTimestampGauge
<1> HIDE DEF gauge
<1> QED
  BY <1>1, <1>2, <1>3, SanitizedExposable

\* A request whose labels meet a group under their key meets its own group.
LEMMA OwnGroup ==
  ASSUME KeysDistinct, NEW groups, StoreInv(groups), NEW labels \in RequestLabels,
         groupingKeyFor(labels) \in DOMAIN groups
  PROVE  groups[groupingKeyFor(labels)].labels = labels
BY DEF KeysDistinct, StoreInv, RequestLabels

LEMMA SetGroupInv ==
  ASSUME KeysDistinct, NEW groups, StoreInv(groups), NEW wr, wr.labels \in RequestLabels,
         NEW metrics, pushMetricNames \subseteq DOMAIN metrics,
         AllExposable(metrics, wr.labels)
  PROVE  StoreInv(SetGroup(groups, wr, metrics))
<1> DEFINE key   == groupingKeyFor(wr.labels)
           entry == [labels  |-> IF key \in DOMAIN groups
                                  THEN groups[key].labels ELSE wr.labels,
                     metrics |-> metrics]
<1>1. entry.labels = wr.labels /\ entry.metrics = metrics
  BY OwnGroup
<1>2. SetGroup(groups, wr, metrics) = Over(Single(key, entry), groups)
  BY DEF SetGroup
<1> HIDE DEF entry
<1>3. StoreInv(Over(Single(key, entry), groups))
  BY <1>1 DEF StoreInv, Over, Single
<1> QED
  BY <1>2, <1>3

LEMMA OldMetricsExposable ==
  ASSUME KeysDistinct, NEW groups, StoreInv(groups), NEW labels \in RequestLabels
  PROVE  AllExposable(MetricsOf(groups, groupingKeyFor(labels)), labels)
BY OwnGroup DEF StoreInv, MetricsOf, AllExposable

LEMMA OverExposable ==
  ASSUME NEW labels, NEW f, NEW g, AllExposable(f, labels), AllExposable(g, labels)
  PROVE  AllExposable(Over(f, g), labels)
BY DEF AllExposable, Over

LEMMA StampedExposable ==
  ASSUME NEW labels, NEW families, NEW t,
         \A n \in DOMAIN families : Exposable(families[n], labels)
  PROVE  AllExposable(Stamped(families, t), labels)
BY DEF AllExposable, Stamped

LEMMA KeptExposable ==
  ASSUME NEW labels, NEW metrics, AllExposable(metrics, labels), NEW replace
  PROVE  AllExposable(Kept(metrics, replace), labels)
BY DEF AllExposable, Kept, Restrict

\* What a push writes is exposable if what was pushed is; together with what it
\* keeps it has both push metrics.
LEMMA PushedExposable ==
  ASSUME NEW wr, NEW kept, \A n \in DOMAIN wr.families : Exposable(wr.families[n], wr.labels)
  PROVE  /\ \A n \in DOMAIN Pushed(wr, kept) : Exposable(Pushed(wr, kept)[n], wr.labels)
         /\ pushMetricNames \subseteq DOMAIN Pushed(wr, kept) \cup DOMAIN kept
<1> DEFINE now      == newTimestampGauge(wr.labels, wr.timestamp)
           never    == newTimestampGauge(wr.labels, ZeroTime)
           families == Over(Single(pushMetricName, now), wr.families)
<1>1. Exposable(now, wr.labels) /\ Exposable(never, wr.labels)
  BY GaugeExposable
<1>2. Pushed(wr, kept) = IF pushFailedMetricName \in DOMAIN kept THEN families
                         ELSE Over(Single(pushFailedMetricName, never), families)
  BY DEF Pushed
<1> HIDE DEF now, never
<1>3. \A n \in DOMAIN families : Exposable(families[n], wr.labels)
  BY <1>1 DEF Over, Single
<1>4. pushMetricName \in DOMAIN families
  BY DEF Over, Single
<1> HIDE DEF families
<1>5. pushMetricName \in DOMAIN Over(Single(pushFailedMetricName, never), families)
  BY <1>4 DEF Over
<1>6. pushFailedMetricName \in DOMAIN Over(Single(pushFailedMetricName, never), families)
  BY DEF Over, Single
<1>7. \A n \in DOMAIN Over(Single(pushFailedMetricName, never), families) :
        Exposable(Over(Single(pushFailedMetricName, never), families)[n], wr.labels)
  BY <1>1, <1>3 DEF Over, Single
<1> QED
  BY <1>2, <1>3, <1>4, <1>5, <1>6, <1>7 DEF pushMetricNames

\* The same for requests that are processed, and for those that fail.
LEMMA ProcessInv ==
  ASSUME KeysDistinct, NEW groups, StoreInv(groups), NEW wr, wr.labels \in RequestLabels,
         IsDelete(wr) \/ \A n \in DOMAIN wr.families : Exposable(wr.families[n], wr.labels)
  PROVE  StoreInv(processWriteRequest(groups, wr))
<1> DEFINE key     == groupingKeyFor(wr.labels)
           kept    == Kept(MetricsOf(groups, key), wr.replace)
           stamped == Stamped(Pushed(wr, kept), wr.timestamp)
           metrics == Over(stamped, kept)
<1>1. CASE IsDelete(wr)
  <2>1. StoreInv(Drop(groups, {key}))
    BY DEF StoreInv, Drop, Restrict
  <2> QED
    BY <1>1, <2>1 DEF processWriteRequest
<1>2. CASE ~IsDelete(wr)
  <2>1. AllExposable(kept, wr.labels)
    BY OldMetricsExposable, KeptExposable
  <2>2. AllExposable(stamped, wr.labels)
    BY <1>2, PushedExposable, StampedExposable
  <2>3. DOMAIN stamped = DOMAIN Pushed(wr, kept)
    BY DEF Stamped
  <2>4. pushMetricNames \subseteq DOMAIN Pushed(wr, kept) \cup DOMAIN kept
    BY <1>2, PushedExposable
  <2>5. DOMAIN metrics = DOMAIN Pushed(wr, kept) \cup DOMAIN kept
    BY <2>3 DEF Over
  <2>6. AllExposable(metrics, wr.labels)
    BY <2>1, <2>2, OverExposable
  <2>7. StoreInv(SetGroup(groups, wr, metrics))
    BY <2>4, <2>5, <2>6, SetGroupInv
  <2> QED
    BY <1>2, <2>7 DEF processWriteRequest
<1> QED
  BY <1>1, <1>2

LEMMA FailInv ==
  ASSUME KeysDistinct, NEW groups, StoreInv(groups), NEW wr, wr.labels \in RequestLabels
  PROVE  StoreInv(setPushFailedTimestamp(groups, wr))
<1> DEFINE old     == MetricsOf(groups, groupingKeyFor(wr.labels))
           failed  == Single(pushFailedMetricName,
                             newTimestampGauge(wr.labels, wr.timestamp))
           never   == Single(pushMetricName, newTimestampGauge(wr.labels, ZeroTime))
           metrics == Over(Stamped(failed, wr.timestamp),
                           Over(old, Stamped(never, wr.timestamp)))
<1>1. /\ \A n \in DOMAIN failed : Exposable(failed[n], wr.labels)
      /\ \A n \in DOMAIN never : Exposable(never[n], wr.labels)
  BY GaugeExposable DEF Single
<1>2. AllExposable(metrics, wr.labels)
  BY <1>1, OldMetricsExposable, StampedExposable, OverExposable
<1>3. pushMetricNames \subseteq DOMAIN metrics
  BY DEF Over, Stamped, Single, pushMetricNames
<1>4. StoreInv(SetGroup(groups, wr, metrics))
  BY <1>2, <1>3, SetGroupInv
<1> QED
  BY <1>4 DEF setPushFailedTimestamp

LEMMA HandleInv ==
  ASSUME KeysDistinct, NEW groups, StoreInv(groups), NEW wr \in WriteRequests
  PROVE  StoreInv(Handle(groups, wr))
<1> DEFINE sane == sanitizeRequest(wr)
<1>1. wr.labels \in RequestLabels /\ sane.labels = wr.labels
  BY WriteRequestFields, SanitizedFields
<1>2. ASSUME checkWriteRequest(groups, wr) PROVE StoreInv(processWriteRequest(groups, sane))
  <2>1. CASE IsDelete(wr)
    BY <1>1, <2>1, ProcessInv DEF sanitizeRequest
  <2>2. CASE ~IsDelete(wr)
    <3>1. ~timestampsPresent(wr.families)
      BY <1>2, <2>2 DEF checkWriteRequest
    <3>2. \A n \in DOMAIN wr.families :
            Exposable(sanitizeLabels(wr.families[n], wr.labels), wr.labels)
      BY <2>2, <3>1, WriteRequestFields, SanitizedExposable DEF timestampsPresent
    <3>3. sane.families = [n \in DOMAIN wr.families |->
                            sanitizeLabels(wr.families[n], wr.labels)]
      BY <2>2, SanitizedFields
    <3> HIDE DEF sane
    <3>4. \A n \in DOMAIN sane.families : Exposable(sane.families[n], sane.labels)
      BY <1>1, <3>2, <3>3
    <3> QED
      BY <1>1, <3>4, ProcessInv
  <2> QED
    BY <2>1, <2>2
<1>3. StoreInv(setPushFailedTimestamp(groups, wr))
  BY <1>1, FailInv
<1> QED
  BY <1>2, <1>3 DEF Handle

\* The inductive invariant holds.
LEMMA StoreInvariant == KeysDistinct => (Spec => []StoreInv(metricGroups))
<1> SUFFICES ASSUME KeysDistinct PROVE Spec => []StoreInv(metricGroups)
  OBVIOUS
<1>1. Init => StoreInv(metricGroups)
  BY DEF Init, EmptyStore, StoreInv
<1>2. TypeOK /\ StoreInv(metricGroups) /\ [Next]_vars => StoreInv(metricGroups)'
  <2> SUFFICES ASSUME TypeOK, StoreInv(metricGroups), [Next]_vars
               PROVE  StoreInv(metricGroups')
    OBVIOUS
  <2>1. CASE HandleRequest
    BY <2>1, HeadOfSubmitted, HandleInv DEF HandleRequest, TypeOK
  <2>2. CASE UNCHANGED metricGroups
    BY <2>2
  <2> QED
    BY <2>1, <2>2 DEF Next, SubmitWriteRequest, Reply, vars
<1> QED
  BY <1>1, <1>2, StoreTypes, PTL DEF Spec

\* If grouping keys are unique, every group of the store always has the labels
\* that its key stands for, both push metrics, and only samples that agree with
\* its labels, have an instance label and no timestamp.
THEOREM GroupsStayWellFormed == KeysDistinct => (Spec => []GroupsWellFormed)
BY StoreInvariant, StoreInvSuffices, PTL

\* "The grouping key is both reproducible and unique": a request only meets a
\* group of its own labels under its key, if no label value in any request
\* contains the separator byte.
THEOREM PlainKeysAreUnique ==
  (\A r \in Requests : PlainLabels(r.labels)) => (Spec => []KeysAreUnique)
<1> SUFFICES ASSUME \A r \in Requests : PlainLabels(r.labels)
             PROVE  Spec => []KeysAreUnique
  OBVIOUS
<1>1. TypeOK /\ StoreInv(metricGroups) => KeysAreUnique
  <2> SUFFICES ASSUME TypeOK, StoreInv(metricGroups),
                      NEW k \in DOMAIN metricGroups, NEW i \in DOMAIN submitted,
                      groupingKeyFor(submitted[i].labels) = k
               PROVE  submitted[i].labels = metricGroups[k].labels
    BY DEF KeysAreUnique
  <2>1. submitted[i] \in WriteRequests
    BY DEF TypeOK
  <2> QED
    BY <2>1, WriteRequestFields, PlainRequestsSuffice, OwnGroup
<1> QED
  BY <1>1, PlainRequestsSuffice, StoreInvariant, StoreTypes, PTL

-----------------------------------------------------------------------------
(* What handling a request may do.                                         *)

\* Only HandleRequest takes a request from the queue.
LEMMA HandledStep ==
  ASSUME TypeOK, Next, Handled
  PROVE  /\ Head(submitted) \in WriteRequests
         /\ metricGroups' = Handle(metricGroups, Head(submitted))
<1>1. submitted \in Seq(WriteRequests)
  BY DEF TypeOK
<1>2. ASSUME NEW c \in Callers, NEW wr \in WriteRequests, SubmitWriteRequest(c, wr)
      PROVE  FALSE
  BY <1>1, <1>2 DEF SubmitWriteRequest, Handled
<1>3. ASSUME NEW c \in Callers, Reply(c) PROVE FALSE
  BY <1>1, <1>3 DEF Reply, Handled
<1>4. HandleRequest
  BY <1>2, <1>3 DEF Next
<1> QED
  BY <1>1, <1>4, HeadOfSubmitted DEF HandleRequest

\* If grouping keys are unique, handling a request touches no group with other
\* labels than its own.
THEOREM OthersStayUntouched == KeysDistinct => (Spec => OtherGroupsUntouched)
<1> SUFFICES ASSUME KeysDistinct PROVE Spec => OtherGroupsUntouched
  OBVIOUS
<1> DEFINE Untouched ==
      Handled =>
        \A k \in DOMAIN metricGroups \cup DOMAIN metricGroups' :
          \/ /\ k \in DOMAIN metricGroups \cap DOMAIN metricGroups'
             /\ metricGroups'[k] = metricGroups[k]
          \/ k \in DOMAIN metricGroups
               /\ metricGroups[k].labels = Head(submitted).labels
          \/ k \in DOMAIN metricGroups' \ DOMAIN metricGroups
               /\ metricGroups'[k].labels = Head(submitted).labels
<1>1. TypeOK /\ StoreInv(metricGroups) /\ [Next]_vars => [Untouched]_vars
  <2> SUFFICES ASSUME TypeOK, StoreInv(metricGroups), Next, Handled PROVE Untouched
    BY DEF vars
  <2> DEFINE wr == Head(submitted)
  <2>1. wr \in WriteRequests /\ metricGroups' = Handle(metricGroups, wr)
    BY HandledStep
  <2> PICK key : groupingKeyFor(wr.labels) = key
    OBVIOUS
  <2>2. wr.labels \in RequestLabels
    BY <2>1, WriteRequestFields
  <2>3. key \in DOMAIN metricGroups => metricGroups[key].labels = wr.labels
    BY <2>2, OwnGroup
  <2> HIDE DEF wr
  <2>4. /\ \A k \in DOMAIN metricGroups \ {key} :
             k \in DOMAIN metricGroups' /\ metricGroups'[k] = metricGroups[k]
        /\ DOMAIN metricGroups' \subseteq DOMAIN metricGroups \cup {key}
        /\ key \in DOMAIN metricGroups' \ DOMAIN metricGroups
             => metricGroups'[key].labels = wr.labels
    BY <2>1, HandleOthers
  <2>5. ASSUME NEW k \in DOMAIN metricGroups \cup DOMAIN metricGroups'
        PROVE  \/ /\ k \in DOMAIN metricGroups \cap DOMAIN metricGroups'
                  /\ metricGroups'[k] = metricGroups[k]
               \/ k \in DOMAIN metricGroups /\ metricGroups[k].labels = wr.labels
               \/ k \in DOMAIN metricGroups' \ DOMAIN metricGroups
                    /\ metricGroups'[k].labels = wr.labels
    BY <2>3, <2>4
  <2> QED
    BY <2>5 DEF wr
<1>2. Spec => [](TypeOK /\ StoreInv(metricGroups))
  BY StoreInvariant, StoreTypes, PTL
<1> QED
  BY <1>1, <1>2, PTL DEF Spec, OtherGroupsUntouched

\* While the check is enabled, a push carries a Done channel.
LEMMA PushIsChecked ==
  ASSUME NEW wr \in WriteRequests, Checked, ~IsDelete(wr)
  PROVE  wr.done # NoDone
<1> PICK c \in Callers, r \in Requests, t \in Times : wr = WriteRequest(c, r, t)
  BY DEF WriteRequests
<1>1. wr.families = r.families
         /\ wr.done = IF Checked /\ r.families # NoFamilies THEN c ELSE NoDone
  BY DEF WriteRequest
<1> QED
  BY <1>1, NoDoneAssumption DEF IsDelete

\* Without some of its groups the store is still gatherable.
LEMMA DropGatherable ==
  ASSUME NEW groups, NEW S, Gatherable(groups)
  PROVE  Gatherable(Drop(groups, S))
<1>1. /\ DOMAIN Drop(groups, S) \subseteq DOMAIN groups
      /\ \A k \in DOMAIN Drop(groups, S) : Drop(groups, S)[k] = groups[k]
  BY DEF Drop, Restrict
<1> DEFINE left == Drop(groups, S)
<1> HIDE DEF left
<1>2. /\ DOMAIN left \subseteq DOMAIN groups
      /\ \A k \in DOMAIN left : left[k] = groups[k]
  BY <1>1 DEF left
<1>3. Gatherable(left)
  BY <1>2 DEF Gatherable
<1> QED
  BY <1>3 DEF left

\* With the check enabled every accepted push leaves the store gatherable, and a
\* delete does not end that; so only a rejected push can.
THEOREM AcceptedPushesStayGatherable == Checked => (Spec => AcceptedPushesGather)
<1> SUFFICES ASSUME Checked PROVE Spec => AcceptedPushesGather
  OBVIOUS
<1> DEFINE Gathers ==
      Handled =>
        \/ Rejected(Head(submitted))
        \/ /\ Gatherable(metricGroups) => Gatherable(metricGroups')
           /\ ~IsDelete(Head(submitted)) => Gatherable(metricGroups')
<1>1. TypeOK /\ [Next]_vars => [Gathers]_vars
  <2> SUFFICES ASSUME TypeOK, Next, Handled, ~Rejected(Head(submitted))
               PROVE  /\ Gatherable(metricGroups) => Gatherable(metricGroups')
                      /\ ~IsDelete(Head(submitted)) => Gatherable(metricGroups')
    BY DEF vars
  <2> DEFINE wr == Head(submitted)
  <2>1. wr \in WriteRequests /\ metricGroups' = Handle(metricGroups, wr)
    BY HandledStep
  <2>2. checkWriteRequest(metricGroups, wr)
    BY DEF Rejected
  <2> HIDE DEF wr
  <2>3. metricGroups' = processWriteRequest(metricGroups, sanitizeRequest(wr))
    BY <2>1, <2>2 DEF Handle
  <2>4. CASE IsDelete(wr)
    <3>1. metricGroups' = Drop(metricGroups, {groupingKeyFor(wr.labels)})
      BY <2>3, <2>4 DEF sanitizeRequest, processWriteRequest
    <3> QED
      BY <2>4, <3>1, DropGatherable DEF wr
  <2>5. CASE ~IsDelete(wr)
    <3>1. Gatherable(processWriteRequest(metricGroups, sanitizeRequest(wr)))
      BY <2>1, <2>2, <2>5, PushIsChecked DEF checkWriteRequest
    <3> QED
      BY <2>3, <3>1
  <2> QED
    BY <2>4, <2>5
<1> QED
  BY <1>1, StoreTypes, PTL DEF Spec, AcceptedPushesGather

\* A rejected push loses nothing: every family of every group is still there as it
\* was, the failure time excepted.
THEOREM RejectedPushesLoseNothing == Spec => RejectedPushLosesNothing
<1> DEFINE Lossless ==
      (Handled /\ Rejected(Head(submitted))) =>
         \A k \in DOMAIN metricGroups :
           /\ k \in DOMAIN metricGroups'
           /\ \A n \in DOMAIN metricGroups[k].metrics \ {pushFailedMetricName} :
                /\ n \in DOMAIN metricGroups'[k].metrics
                /\ metricGroups'[k].metrics[n] = metricGroups[k].metrics[n]
<1>1. TypeOK /\ [Next]_vars => [Lossless]_vars
  <2> SUFFICES ASSUME TypeOK, Next, Handled, Rejected(Head(submitted)),
                      NEW k \in DOMAIN metricGroups
               PROVE  /\ k \in DOMAIN metricGroups'
                      /\ \A n \in DOMAIN metricGroups[k].metrics \ {pushFailedMetricName} :
                           /\ n \in DOMAIN metricGroups'[k].metrics
                           /\ metricGroups'[k].metrics[n] = metricGroups[k].metrics[n]
    BY DEF vars
  <2> DEFINE wr == Head(submitted)
  <2>1. metricGroups' = setPushFailedTimestamp(metricGroups, wr)
    BY HandledStep DEF Rejected, Handle
  <2> HIDE DEF wr
  <2> PICK key : groupingKeyFor(wr.labels) = key
    OBVIOUS
  <2>2. CASE k = key
    BY <2>1, <2>2, FailMetrics DEF MetricsOf
  <2>3. CASE k # key
    BY <2>1, <2>3, FailMetrics
  <2> QED
    BY <2>2, <2>3
<1> QED
  BY <1>1, StoreTypes, PTL DEF Spec, RejectedPushLosesNothing

-----------------------------------------------------------------------------
(* The times of the last push and the last failure.                        *)

\* If grouping keys are unique, no accepted push, a PUT no more than a POST, loses
\* the time of the last failure of its group, unless it brings one along.
THEOREM FailureTimesRetained == KeysDistinct => (Spec => FailureTimeRetained)
<1> SUFFICES ASSUME KeysDistinct PROVE Spec => FailureTimeRetained
  OBVIOUS
<1> DEFINE Retained ==
      (Handled /\ ~Rejected(Head(submitted)) /\ ~IsDelete(Head(submitted))) =>
        LET k == groupingKeyFor(Head(submitted).labels) IN
        (/\ k \in DOMAIN metricGroups
         /\ pushFailedMetricName \notin DOMAIN Head(submitted).families)
        => metricGroups'[k].metrics[pushFailedMetricName]
             = metricGroups[k].metrics[pushFailedMetricName]
<1>1. TypeOK /\ StoreInv(metricGroups) /\ [Next]_vars => [Retained]_vars
  <2> SUFFICES ASSUME TypeOK, StoreInv(metricGroups), Next, Handled,
                      ~Rejected(Head(submitted)), ~IsDelete(Head(submitted)),
                      NEW k, groupingKeyFor(Head(submitted).labels) = k,
                      k \in DOMAIN metricGroups,
                      pushFailedMetricName \notin DOMAIN Head(submitted).families
               PROVE  metricGroups'[k].metrics[pushFailedMetricName]
                        = metricGroups[k].metrics[pushFailedMetricName]
    BY DEF vars
  <2> DEFINE wr   == Head(submitted)
             sane == sanitizeRequest(wr)
  <2>1. wr \in WriteRequests /\ metricGroups' = processWriteRequest(metricGroups, sane)
    BY HandledStep DEF Rejected, Handle
  <2>2. /\ ~IsDelete(sane) /\ groupingKeyFor(sane.labels) = k
        /\ pushFailedMetricName \notin DOMAIN sane.families
    BY <2>1, AcceptedRequest
  <2>3. pushFailedMetricName \in DOMAIN MetricsOf(metricGroups, k)
    BY DEF StoreInv, MetricsOf, pushMetricNames
  <2> HIDE DEF sane
  <2>4. metricGroups'[k].metrics[pushFailedMetricName]
          = MetricsOf(metricGroups, k)[pushFailedMetricName]
    BY <2>1, <2>2, <2>3, AcceptMetrics
  <2> QED
    BY <2>4 DEF MetricsOf
<1> QED
  BY <1>1, StoreTypes, StoreInvariant, PTL DEF Spec, FailureTimeRetained

\* The times of the last push and the last failure are numbers in every group.
PushTimesInv(groups) ==
  \A k \in DOMAIN groups : \A n \in pushMetricNames \cap DOMAIN groups[k].metrics :
    GaugeValue(groups[k].metrics[n].family) \in Nat

\* The value of a push metric that is written is the time of a request, zero, or
\* a number that was pushed.
LEMMA HandlePushTimes ==
  ASSUME NEW groups, PushTimesInv(groups), NEW wr \in WriteRequests
  PROVE  PushTimesInv(Handle(groups, wr))
<1> PICK key : groupingKeyFor(wr.labels) = key
  OBVIOUS
<1> PICK new : new = Handle(groups, wr)
  OBVIOUS
<1> PICK old : old = MetricsOf(groups, key)
  OBVIOUS
<1>1. DOMAIN new \subseteq DOMAIN groups \cup {key}
        /\ \A k \in DOMAIN groups \ {key} : k \in DOMAIN new /\ new[k] = groups[k]
  BY HandleOthers
<1>2. wr.timestamp \in Nat /\ ZeroTime \in Nat
  <2>1. wr.timestamp \in Times
    BY WriteRequestFields
  <2> QED
    BY <2>1, TimesAssumption DEF ZeroTime
<1>3. \A n \in pushMetricNames \cap DOMAIN old : GaugeValue(old[n].family) \in Nat
  BY DEF PushTimesInv, MetricsOf
<1>4. ASSUME key \in DOMAIN new, NEW n \in pushMetricNames \cap DOMAIN new[key].metrics
      PROVE  GaugeValue(new[key].metrics[n].family) \in Nat
  <2>0. n = pushMetricName \/ n = pushFailedMetricName
    BY <1>4 DEF pushMetricNames
  <2>1. CASE checkWriteRequest(groups, wr) /\ IsDelete(wr)
    <3>1. new = Drop(groups, {key})
      BY <2>1 DEF Handle, processWriteRequest, sanitizeRequest
    <3> QED
      BY <1>4, <3>1 DEF Drop, Restrict
  <2>2. CASE checkWriteRequest(groups, wr) /\ ~IsDelete(wr)
    <3> PICK sane : sane = sanitizeRequest(wr)
      OBVIOUS
    <3>1. /\ ~IsDelete(sane) /\ groupingKeyFor(sane.labels) = key
          /\ sane.timestamp = wr.timestamp
          /\ DOMAIN sane.families = DOMAIN wr.families
          /\ pushFailedMetricName \in DOMAIN wr.families =>
               GaugeValue(sane.families[pushFailedMetricName]) \in Nat
      BY <2>2, AcceptedRequest
    <3>2. new = processWriteRequest(groups, sane)
      BY <2>2 DEF Handle
    <3>3. CASE n = pushMetricName
      <4>1. new[key].metrics[n].family = newTimestampGauge(sane.labels, sane.timestamp)
        BY <3>1, <3>2, <3>3, AcceptMetrics
      <4> QED
        BY <1>2, <3>1, <4>1, OwnGaugeValue
    <3>4. CASE n = pushFailedMetricName /\ n \notin DOMAIN old
      <4>1. new[key].metrics[n].family = newTimestampGauge(sane.labels, ZeroTime)
        BY <3>1, <3>2, <3>4, AcceptMetrics
      <4> QED
        BY <1>2, <4>1, OwnGaugeValue
    <3>5. CASE n = pushFailedMetricName /\ n \in DOMAIN old \ DOMAIN wr.families
      <4>1. new[key].metrics[n] = old[n]
        BY <3>1, <3>2, <3>5, AcceptMetrics
      <4> QED
        BY <1>3, <1>4, <3>5, <4>1
    <3>6. CASE n = pushFailedMetricName /\ n \in DOMAIN old \cap DOMAIN wr.families
      <4>1. new[key].metrics[n].family = sane.families[n]
        BY <3>1, <3>2, <3>6, AcceptMetrics
      <4> QED
        BY <3>1, <3>6, <4>1
    <3> QED
      BY <2>0, <3>3, <3>4, <3>5, <3>6
  <2>3. CASE ~checkWriteRequest(groups, wr)
    <3>1. new = setPushFailedTimestamp(groups, wr)
      BY <2>3 DEF Handle
    <3>2. CASE n = pushFailedMetricName
      <4>1. new[key].metrics[n].family = newTimestampGauge(wr.labels, wr.timestamp)
        BY <3>1, <3>2, FailMetrics
      <4> QED
        BY <1>2, <4>1, OwnGaugeValue
    <3>3. CASE n = pushMetricName /\ n \in DOMAIN old
      <4>1. new[key].metrics[n] = old[n]
        BY <3>1, <3>3, FailMetrics DEF pushMetricName, pushFailedMetricName
      <4> QED
        BY <1>3, <1>4, <3>3, <4>1
    <3>4. CASE n = pushMetricName /\ n \notin DOMAIN old
      <4>1. new[key].metrics[n].family = newTimestampGauge(wr.labels, ZeroTime)
        BY <3>1, <3>4, FailMetrics
      <4> QED
        BY <1>2, <4>1, OwnGaugeValue
    <3> QED
      BY <2>0, <3>2, <3>3, <3>4
  <2> QED
    BY <2>1, <2>2, <2>3
<1>5. PushTimesInv(new)
  BY <1>1, <1>4 DEF PushTimesInv
<1> QED
  BY <1>5

LEMMA PushTimesInvariant == Spec => []PushTimesInv(metricGroups)
<1>1. Init => PushTimesInv(metricGroups)
  BY DEF Init, EmptyStore, PushTimesInv
<1>2. TypeOK /\ PushTimesInv(metricGroups) /\ [Next]_vars => PushTimesInv(metricGroups)'
  <2> SUFFICES ASSUME TypeOK, PushTimesInv(metricGroups), [Next]_vars
               PROVE  PushTimesInv(metricGroups')
    OBVIOUS
  <2>1. CASE HandleRequest
    BY <2>1, HeadOfSubmitted, HandlePushTimes DEF HandleRequest, TypeOK
  <2>2. CASE UNCHANGED metricGroups
    BY <2>2
  <2> QED
    BY <2>1, <2>2 DEF Next, SubmitWriteRequest, Reply, vars
<1> QED
  BY <1>1, <1>2, StoreTypes, PTL DEF Spec

LEMMA TimesPositive ==
  ASSUME NEW t \in Times
  PROVE  t \in Nat /\ t > 0
BY TimesAssumption

\* A push that is later than the last push and the last failure of its group makes
\* the group report it as a success just if it was one, and as a failure if not;
\* unless the push brings a failure time of its own.
THEOREM LastPushIsReported == Spec => LastPushReported
<1> DEFINE Reported ==
      (Handled /\ ~IsDelete(Head(submitted))) =>
         LET wr  == Head(submitted)
             k   == groupingKeyFor(wr.labels)
             old == MetricsOf(metricGroups, k)
         IN  (/\ pushFailedMetricName \notin DOMAIN wr.families
              /\ \A n \in pushMetricNames \cap DOMAIN old :
                   GaugeValue(old[n].family) < wr.timestamp)
             => (LastPushSuccess(metricGroups'[k]) <=> ~Rejected(wr))
<1>1. TypeOK /\ PushTimesInv(metricGroups) /\ [Next]_vars => [Reported]_vars
  <2> SUFFICES ASSUME TypeOK, PushTimesInv(metricGroups), Next, Handled,
                      NEW wr, wr = Head(submitted), ~IsDelete(wr),
                      NEW k, groupingKeyFor(wr.labels) = k,
                      NEW old, old = MetricsOf(metricGroups, k),
                      pushFailedMetricName \notin DOMAIN wr.families,
                      \A n \in pushMetricNames \cap DOMAIN old :
                        GaugeValue(old[n].family) < wr.timestamp
               PROVE  LastPushSuccess(metricGroups'[k]) <=> ~Rejected(wr)
    BY DEF vars
  <2> DEFINE failure == GaugeValue(metricGroups'[k].metrics[pushFailedMetricName].family)
             success == GaugeValue(metricGroups'[k].metrics[pushMetricName].family)
  <2>1. wr \in WriteRequests /\ metricGroups' = Handle(metricGroups, wr)
    BY HandledStep
  <2>2. wr.timestamp \in Nat /\ wr.timestamp > 0 /\ ZeroTime = 0
    <3>1. wr.timestamp \in Times
      BY <2>1, WriteRequestFields
    <3> QED
      BY <3>1, TimesPositive DEF ZeroTime
  <2>3. ASSUME ~Rejected(wr)
        PROVE  pushMetricNames \subseteq DOMAIN metricGroups'[k].metrics /\ failure <= success
    <3> PICK sane : sane = sanitizeRequest(wr)
      OBVIOUS
    <3>1. /\ ~IsDelete(sane) /\ groupingKeyFor(sane.labels) = k
          /\ sane.timestamp = wr.timestamp
          /\ pushFailedMetricName \notin DOMAIN sane.families
      BY <2>1, AcceptedRequest
    <3>2. metricGroups' = processWriteRequest(metricGroups, sane)
      BY <2>1, <2>3 DEF Handle, Rejected
    <3>3. /\ pushMetricNames \subseteq DOMAIN metricGroups'[k].metrics
          /\ metricGroups'[k].metrics[pushMetricName].family
               = newTimestampGauge(sane.labels, sane.timestamp)
          /\ pushFailedMetricName \in DOMAIN old =>
               metricGroups'[k].metrics[pushFailedMetricName] = old[pushFailedMetricName]
          /\ pushFailedMetricName \notin DOMAIN old =>
               metricGroups'[k].metrics[pushFailedMetricName].family
                 = newTimestampGauge(sane.labels, ZeroTime)
      BY <3>1, <3>2, AcceptMetrics
    <3>4. success = wr.timestamp
      BY <3>1, <3>3, OwnGaugeValue
    <3>5. CASE pushFailedMetricName \in DOMAIN old
      <4>1. failure \in Nat
        BY <3>3, <3>5 DEF PushTimesInv, MetricsOf, pushMetricNames
      <4>2. failure < wr.timestamp
        BY <3>3, <3>5 DEF pushMetricNames
      <4> HIDE DEF failure, success
      <4> QED
        BY <2>2, <3>3, <3>4, <4>1, <4>2
    <3>6. CASE pushFailedMetricName \notin DOMAIN old
      <4>1. failure = 0
        BY <2>2, <3>3, <3>6, OwnGaugeValue
      <4> QED
        BY <2>2, <3>3, <3>4, <4>1
    <3> QED
      BY <3>5, <3>6
  <2>4. ASSUME Rejected(wr)
        PROVE  pushMetricNames \subseteq DOMAIN metricGroups'[k].metrics
                 /\ ~(failure <= success)
    <3>1. metricGroups' = setPushFailedTimestamp(metricGroups, wr)
      BY <2>1, <2>4 DEF Handle, Rejected
    <3>2. /\ pushMetricNames \subseteq DOMAIN metricGroups'[k].metrics
          /\ metricGroups'[k].metrics[pushFailedMetricName].family
               = newTimestampGauge(wr.labels, wr.timestamp)
          /\ pushMetricName \in DOMAIN old =>
               metricGroups'[k].metrics[pushMetricName] = old[pushMetricName]
          /\ pushMetricName \notin DOMAIN old =>
               metricGroups'[k].metrics[pushMetricName].family
                 = newTimestampGauge(wr.labels, ZeroTime)
      BY <3>1, FailMetrics DEF pushMetricName, pushFailedMetricName
    <3>3. failure = wr.timestamp
      BY <3>2, OwnGaugeValue
    <3>4. success \in Nat /\ success < wr.timestamp
      <4>1. CASE pushMetricName \in DOMAIN old
        <5>1. GaugeValue(old[pushMetricName].family) \in Nat
          BY <4>1 DEF PushTimesInv, MetricsOf, pushMetricNames
        <5>2. GaugeValue(old[pushMetricName].family) < wr.timestamp
          BY <4>1 DEF pushMetricNames
        <5> QED
          BY <3>2, <4>1, <5>1, <5>2
      <4>2. CASE pushMetricName \notin DOMAIN old
        <5>1. success = 0
          BY <2>2, <3>2, <4>2, OwnGaugeValue
        <5> QED
          BY <2>2, <5>1
      <4> QED
        BY <4>1, <4>2
    <3> QED
      BY <2>2, <3>2, <3>3, <3>4
  <2> QED
    BY <2>3, <2>4 DEF LastPushSuccess
<1> QED
  BY <1>1, StoreTypes, PushTimesInvariant, PTL DEF Spec, LastPushReported

=============================================================================
