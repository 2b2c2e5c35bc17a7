-------------------------- MODULE MetricGroupsProofs --------------------------
(***************************************************************************)
(* What the operators of MetricGroups do to the contents of the store: the *)
(* lemmas that the proofs about MetricStore and Pushgateway share.         *)
(***************************************************************************)
EXTENDS MetricGroups, WellFoundedInduction, TLAPS

RequestLabels == {r.labels : r \in Requests}
RequestKeys   == {groupingKeyFor(r.labels) : r \in Requests}

-----------------------------------------------------------------------------
(* Write requests.                                                         *)

\* What a write request is made of.
LEMMA WriteRequestFields ==
  ASSUME NEW wr \in WriteRequests
  PROVE  /\ wr.labels \in RequestLabels
         /\ groupingKeyFor(wr.labels) \in RequestKeys
         /\ wr.timestamp \in Times
         /\ wr.done \in Callers \cup {NoDone}
         /\ ~IsDelete(wr) => \A n \in DOMAIN wr.families : IsFamily(wr.families[n])
<1> PICK c \in Callers, r \in Requests, t \in Times : wr = WriteRequest(c, r, t)
  BY DEF WriteRequests
<1>1. /\ wr.labels = r.labels /\ wr.families = r.families
      /\ wr.timestamp = t /\ wr.done \in {c, NoDone}
  BY DEF WriteRequest
<1> QED
  BY <1>1, RequestsAssumption DEF RequestLabels, RequestKeys, IsDelete

\* A request that was sanitized differs in its families only.
LEMMA SanitizedFields ==
  ASSUME NEW wr \in WriteRequests
  PROVE  /\ sanitizeRequest(wr).labels = wr.labels
         /\ sanitizeRequest(wr).timestamp = wr.timestamp
         /\ ~IsDelete(wr) =>
              sanitizeRequest(wr).families =
                [n \in DOMAIN wr.families |-> sanitizeLabels(wr.families[n], wr.labels)]
BY DEF WriteRequests, WriteRequest, sanitizeRequest, IsDelete

\* An accepted push is processed as a push, with its own labels and time, and with
\* families of the same names; a failure time among them is a number.
LEMMA AcceptedRequest ==
  ASSUME NEW wr \in WriteRequests, ~IsDelete(wr)
  PROVE  /\ ~IsDelete(sanitizeRequest(wr))
         /\ sanitizeRequest(wr).labels = wr.labels
         /\ sanitizeRequest(wr).timestamp = wr.timestamp
         /\ DOMAIN sanitizeRequest(wr).families = DOMAIN wr.families
         /\ pushFailedMetricName \in DOMAIN wr.families =>
              GaugeValue(sanitizeRequest(wr).families[pushFailedMetricName]) \in Nat
<1> PICK c \in Callers, r \in Requests, t \in Times : wr = WriteRequest(c, r, t)
  BY DEF WriteRequests
<1>1. wr.labels = r.labels /\ wr.families = r.families
  BY DEF WriteRequest
<1> DEFINE families == [n \in DOMAIN r.families |-> sanitizeLabels(r.families[n], r.labels)]
<1>2. sanitizeRequest(wr).families = families
  BY <1>1, SanitizedFields
<1>3. families # NoFamilies
  BY <1>1, PushesAssumption DEF IsDelete
<1>4. DOMAIN families = DOMAIN wr.families
  BY <1>1
<1>5. pushFailedMetricName \in DOMAIN wr.families =>
         GaugeValue(families[pushFailedMetricName]) \in Nat
  BY <1>1, FailureTimesAssumption DEF IsDelete
<1> QED
  BY <1>2, <1>3, <1>4, <1>5, SanitizedFields DEF IsDelete

-----------------------------------------------------------------------------
(* Groups.                                                                 *)

\* Setting the metrics of a request's group does this and nothing else.
LEMMA SetGroupEffect ==
  ASSUME NEW groups, NEW wr, NEW metrics, NEW key, groupingKeyFor(wr.labels) = key,
         NEW new, new = SetGroup(groups, wr, metrics)
  PROVE  /\ \A k \in DOMAIN groups \ {key} : k \in DOMAIN new /\ new[k] = groups[k]
         /\ DOMAIN new \subseteq DOMAIN groups \cup {key}
         /\ key \in DOMAIN new \ DOMAIN groups => new[key].labels = wr.labels
         /\ key \in DOMAIN new /\ new[key].metrics = metrics
<1> DEFINE entry == [labels  |-> IF key \in DOMAIN groups
                                  THEN groups[key].labels ELSE wr.labels,
                     metrics |-> metrics]
<1>1. new = Over(Single(key, entry), groups)
  BY DEF SetGroup
<1>2. entry.metrics = metrics /\ (key \notin DOMAIN groups => entry.labels = wr.labels)
  OBVIOUS
<1> HIDE DEF entry
<1>3. /\ DOMAIN new = DOMAIN groups \cup {key}
      /\ new[key] = entry
      /\ \A k \in DOMAIN groups \ {key} : new[k] = groups[k]
  BY <1>1 DEF Over, Single
<1> QED
  BY <1>2, <1>3

\* Groups under other keys stay as they are; the group under the key of a request
\* may go, and its labels change only if it was not there.
LEMMA HandleOthers ==
  ASSUME NEW groups, NEW wr \in WriteRequests,
         NEW key, groupingKeyFor(wr.labels) = key,
         NEW new, new = Handle(groups, wr)
  PROVE  /\ \A k \in DOMAIN groups \ {key} : k \in DOMAIN new /\ new[k] = groups[k]
         /\ DOMAIN new \subseteq DOMAIN groups \cup {key}
         /\ key \in DOMAIN new \ DOMAIN groups => new[key].labels = wr.labels
<1>1. sanitizeRequest(wr).labels = wr.labels
  BY SanitizedFields
<1>2. \/ new = Drop(groups, {key})
      \/ \E metrics : new = SetGroup(groups, sanitizeRequest(wr), metrics)
      \/ \E metrics : new = SetGroup(groups, wr, metrics)
  <2>1. CASE checkWriteRequest(groups, wr)
    BY <2>1, <1>1 DEF Handle, processWriteRequest
  <2>2. CASE ~checkWriteRequest(groups, wr)
    BY <2>2 DEF Handle, setPushFailedTimestamp
  <2> QED
    BY <2>1, <2>2
<1>3. CASE new = Drop(groups, {key})
  BY <1>3 DEF Drop, Restrict
<1>4. ASSUME NEW request, request.labels = wr.labels,
             NEW metrics, new = SetGroup(groups, request, metrics)
      PROVE  /\ \A k \in DOMAIN groups \ {key} : k \in DOMAIN new /\ new[k] = groups[k]
             /\ DOMAIN new \subseteq DOMAIN groups \cup {key}
             /\ key \in DOMAIN new \ DOMAIN groups => new[key].labels = wr.labels
  <2>1. groupingKeyFor(request.labels) = key
    BY <1>4
  <2>2. /\ \A k \in DOMAIN groups \ {key} : k \in DOMAIN new /\ new[k] = groups[k]
        /\ DOMAIN new \subseteq DOMAIN groups \cup {key}
        /\ key \in DOMAIN new \ DOMAIN groups => new[key].labels = request.labels
    BY <1>4, <2>1, SetGroupEffect
  <2> QED
    BY <1>4, <2>2
<1> QED
  BY <1>1, <1>2, <1>3, <1>4

\* What a rejected push makes of the group under its key.
LEMMA FailMetrics ==
  ASSUME NEW groups, NEW wr, NEW key, groupingKeyFor(wr.labels) = key,
         NEW new, new = setPushFailedTimestamp(groups, wr),
         NEW old, old = MetricsOf(groups, key)
  PROVE  /\ key \in DOMAIN new
         /\ pushMetricNames \subseteq DOMAIN new[key].metrics
         /\ \A n \in DOMAIN old \ {pushFailedMetricName} :
              n \in DOMAIN new[key].metrics /\ new[key].metrics[n] = old[n]
         /\ new[key].metrics[pushFailedMetricName].family
              = newTimestampGauge(wr.labels, wr.timestamp)
         /\ pushMetricName \notin DOMAIN old =>
              new[key].metrics[pushMetricName].family
                = newTimestampGauge(wr.labels, ZeroTime)
         /\ \A k \in DOMAIN groups \ {key} : k \in DOMAIN new /\ new[k] = groups[k]
<1> DEFINE now     == newTimestampGauge(wr.labels, wr.timestamp)
           zero    == newTimestampGauge(wr.labels, ZeroTime)
           failed  == Stamped(Single(pushFailedMetricName, now), wr.timestamp)
           never   == Stamped(Single(pushMetricName, zero), wr.timestamp)
           metrics == Over(failed, Over(old, never))
<1>1. new = SetGroup(groups, wr, metrics)
  BY DEF setPushFailedTimestamp
<1>2. /\ DOMAIN failed = {pushFailedMetricName}
      /\ failed[pushFailedMetricName].family = now
      /\ DOMAIN never = {pushMetricName}
      /\ never[pushMetricName].family = zero
  BY DEF Stamped, Single
<1> HIDE DEF failed, never
<1>3. /\ DOMAIN metrics = DOMAIN old \cup pushMetricNames
      /\ \A n \in DOMAIN old \ {pushFailedMetricName} : metrics[n] = old[n]
      /\ metrics[pushFailedMetricName].family = now
      /\ pushMetricName \notin DOMAIN old => metrics[pushMetricName].family = zero
  BY <1>2 DEF Over, pushMetricNames, pushMetricName, pushFailedMetricName
<1> HIDE DEF metrics, now, zero
<1>4. key \in DOMAIN new /\ new[key].metrics = metrics
  BY <1>1, SetGroupEffect
<1>5. \A k \in DOMAIN groups \ {key} : k \in DOMAIN new /\ new[k] = groups[k]
  BY <1>1, SetGroupEffect
<1> QED
  BY <1>3, <1>4, <1>5 DEF now, zero

\* What an accepted push makes of the group under its key.
LEMMA AcceptMetrics ==
  ASSUME NEW groups, NEW wr, ~IsDelete(wr), NEW key, groupingKeyFor(wr.labels) = key,
         NEW new, new = processWriteRequest(groups, wr),
         NEW old, old = MetricsOf(groups, key)
  PROVE  /\ key \in DOMAIN new
         /\ pushMetricNames \subseteq DOMAIN new[key].metrics
         /\ new[key].metrics[pushMetricName].family
              = newTimestampGauge(wr.labels, wr.timestamp)
         /\ (pushFailedMetricName \in DOMAIN old \ DOMAIN wr.families) =>
              new[key].metrics[pushFailedMetricName] = old[pushFailedMetricName]
         /\ (pushFailedMetricName \in DOMAIN old \cap DOMAIN wr.families) =>
              new[key].metrics[pushFailedMetricName].family
                = wr.families[pushFailedMetricName]
         /\ (pushFailedMetricName \notin DOMAIN old) =>
              new[key].metrics[pushFailedMetricName].family
                = newTimestampGauge(wr.labels, ZeroTime)
         /\ \A k \in DOMAIN groups \ {key} : k \in DOMAIN new /\ new[k] = groups[k]
<1> DEFINE now      == newTimestampGauge(wr.labels, wr.timestamp)
           zero     == newTimestampGauge(wr.labels, ZeroTime)
           kept     == Kept(old, wr.replace)
           families == Over(Single(pushMetricName, now), wr.families)
           pushed   == Pushed(wr, kept)
           stamped  == Stamped(pushed, wr.timestamp)
           metrics  == Over(stamped, kept)
<1>1. new = SetGroup(groups, wr, metrics)
  BY DEF processWriteRequest
<1>2. /\ pushFailedMetricName \in DOMAIN kept <=> pushFailedMetricName \in DOMAIN old
      /\ pushFailedMetricName \in DOMAIN old =>
           kept[pushFailedMetricName] = old[pushFailedMetricName]
  BY DEF Kept, Restrict, pushMetricNames
<1> HIDE DEF kept
<1>3. pushed = IF pushFailedMetricName \in DOMAIN kept THEN families
               ELSE Over(Single(pushFailedMetricName, zero), families)
  BY DEF Pushed
<1> HIDE DEF pushed, now, zero
<1>4. /\ DOMAIN families = DOMAIN wr.families \cup {pushMetricName}
      /\ families[pushMetricName] = now
      /\ pushFailedMetricName \in DOMAIN wr.families =>
           families[pushFailedMetricName] = wr.families[pushFailedMetricName]
  BY DEF Over, Single, pushMetricName, pushFailedMetricName
<1> HIDE DEF families
<1>5. /\ pushMetricName \in DOMAIN pushed /\ pushed[pushMetricName] = now
      /\ pushFailedMetricName \in DOMAIN kept =>
           /\ pushFailedMetricName \in DOMAIN pushed
                <=> pushFailedMetricName \in DOMAIN wr.families
           /\ pushFailedMetricName \in DOMAIN pushed =>
                pushed[pushFailedMetricName] = wr.families[pushFailedMetricName]
      /\ pushFailedMetricName \notin DOMAIN kept =>
           /\ pushFailedMetricName \in DOMAIN pushed
           /\ pushed[pushFailedMetricName] = zero
  BY <1>3, <1>4 DEF Over, Single, pushMetricName, pushFailedMetricName
<1>6. DOMAIN stamped = DOMAIN pushed
        /\ \A n \in DOMAIN pushed : stamped[n].family = pushed[n]
  BY DEF Stamped
<1> HIDE DEF stamped
<1>7. /\ DOMAIN metrics = DOMAIN pushed \cup DOMAIN kept
      /\ \A n \in DOMAIN pushed : metrics[n].family = pushed[n]
      /\ \A n \in DOMAIN kept \ DOMAIN pushed : metrics[n] = kept[n]
  BY <1>6 DEF Over
<1> HIDE DEF metrics
<1>8. key \in DOMAIN new /\ new[key].metrics = metrics
  BY <1>1, SetGroupEffect
<1>9. \A k \in DOMAIN groups \ {key} : k \in DOMAIN new /\ new[k] = groups[k]
  BY <1>1, SetGroupEffect
<1>10. pushMetricNames \subseteq DOMAIN metrics
  BY <1>5, <1>7 DEF pushMetricNames
<1>11. metrics[pushMetricName].family = now
  BY <1>5, <1>7
<1>12. (pushFailedMetricName \in DOMAIN old \ DOMAIN wr.families) =>
          metrics[pushFailedMetricName] = old[pushFailedMetricName]
  BY <1>2, <1>5, <1>7
<1>13. (pushFailedMetricName \in DOMAIN old \cap DOMAIN wr.families) =>
          metrics[pushFailedMetricName].family = wr.families[pushFailedMetricName]
  BY <1>2, <1>5, <1>7
<1>14. (pushFailedMetricName \notin DOMAIN old) =>
          metrics[pushFailedMetricName].family = zero
  BY <1>2, <1>5, <1>7
<1> QED
  BY <1>8, <1>9, <1>10, <1>11, <1>12, <1>13, <1>14 DEF now, zero

-----------------------------------------------------------------------------
(* Push metrics.                                                           *)

\* The value of a push metric of the store's own making is its time.
LEMMA OwnGaugeValue ==
  ASSUME NEW labels, NEW t
  PROVE  GaugeValue(newTimestampGauge(labels, t)) = t
<1> DEFINE sample == [labels |-> [n \in {} |-> n], value |-> t, stamped |-> FALSE]
           gauge  == [type |-> "gauge", series |-> <<sample>>]
           all(i) == Over(labels, Over(gauge.series[i].labels, Single("instance", NoValue)))
           clean  == [i \in DOMAIN gauge.series |-> [gauge.series[i] EXCEPT !.labels = all(i)]]
<1>1. newTimestampGauge(labels, t) = [gauge EXCEPT !.series = clean]
  BY DEF newTimestampGauge, sanitizeLabels
<1>2. clean[1].value = t
  <2> HIDE DEF all
  <2> QED
    OBVIOUS
<1> HIDE DEF clean
<1>3. /\ [gauge EXCEPT !.series = clean].type = "gauge"
      /\ [gauge EXCEPT !.series = clean].series = clean
  OBVIOUS
<1> QED
  BY <1>1, <1>2, <1>3 DEF GaugeValue

-----------------------------------------------------------------------------
(* Grouping keys are unique, as groupingKeyFor promises, if no label value   *)
(* contains the separator byte.                                            *)

\* Every set of natural numbers that is not empty has a least element.  (This is
\* how inductions are done here.)
LEMMA LeastNatural ==
  ASSUME NEW T, T \subseteq Nat, T # {}
  PROVE  \E n \in T : \A m \in T : n <= m
<1>1. IsWellFoundedOn(OpToRel(<, Nat), Nat)
  BY NatLessThanWellFounded
<1>2. PICK R : R = {p \in Nat \X Nat : p[1] < p[2]}
  OBVIOUS
<1>3. OpToRel(<, Nat) = R
  BY <1>2 DEF OpToRel
<1>4. PICK x \in T : \A y \in T : ~ (<<y, x>> \in R)
  BY <1>1, <1>3, WFMin
<1>5. ASSUME NEW y \in T PROVE x <= y
  <2>1. x \in Nat /\ y \in Nat
    OBVIOUS
  <2>2. ~ (<<y, x>>[1] < <<y, x>>[2])
    BY <1>2, <1>4, <2>1
  <2> QED
    BY <2>1, <2>2
<1> QED
  BY <1>5

\* f lists the concatenations of the first, the first two, ... sequences in s.
Concatenates(f, s, n) ==
  f = [i \in 1 .. n |-> IF i = 1 THEN s[i] ELSE f[i - 1] \o s[i]]

\* The recursive definition in FlattenSeq has a solution.
LEMMA ConcatenationsExist ==
  ASSUME NEW s, NEW n \in Nat \ {0}
  PROVE  \E f : Concatenates(f, s, n)
<1> DEFINE T == {k \in Nat \ {0} : ~ \E f : Concatenates(f, s, k)}
<1> SUFFICES ASSUME T # {} PROVE FALSE
  OBVIOUS
<1>1. PICK m \in T : \A k \in T : m <= k
  BY LeastNatural
<1>2. m \in Nat \ {0} /\ ~ \E f : Concatenates(f, s, m)
  OBVIOUS
<1>3. CASE m = 1
  <2>1. Concatenates([i \in 1 .. 1 |-> s[i]], s, 1)
    BY DEF Concatenates
  <2> QED
    BY <1>2, <1>3, <2>1
<1>4. CASE m # 1
  <2>1. m - 1 \in Nat \ {0} /\ m - 1 \notin T
    BY <1>1, <1>2, <1>4
  <2>2. PICK g : Concatenates(g, s, m - 1)
    BY <2>1
  <2> DEFINE f == [i \in 1 .. m |-> IF i = m THEN g[m - 1] \o s[m] ELSE g[i]]
  <2>3. ASSUME NEW i \in 1 .. m
        PROVE  f[i] = IF i = 1 THEN s[i] ELSE f[i - 1] \o s[i]
    <3>0. i \in Nat /\ 1 <= i /\ i <= m
      BY <1>2
    <3>1. CASE i = m
      <4>1. f[m - 1] = g[m - 1]
        BY <2>1, <1>2
      <4> QED
        BY <3>1, <4>1, <1>4
    <3>2. CASE i # m
      <4>1. i \in 1 .. (m - 1)
        BY <3>0, <3>2, <1>2
      <4>2. g[i] = IF i = 1 THEN s[i] ELSE g[i - 1] \o s[i]
        BY <2>2, <4>1 DEF Concatenates
      <4>3. f[i] = g[i]
        BY <3>2
      <4>4. i # 1 => f[i - 1] = g[i - 1]
        BY <3>0, <3>2, <1>2
      <4> QED
        BY <4>2, <4>3, <4>4
    <3> QED
      BY <3>1, <3>2
  <2>4. f = [i \in 1 .. m |-> f[i]]
    OBVIOUS
  <2> HIDE DEF f
  <2>5. Concatenates(f, s, m)
    BY <2>3, <2>4 DEF Concatenates
  <2> QED
    BY <1>2, <2>5
<1> QED
  BY <1>3, <1>4

\* A sequence that is not empty is flattened to the last of its concatenations.
LEMMA Flattened ==
  ASSUME NEW s, Len(s) \in Nat \ {0}
  PROVE  \E f : Concatenates(f, s, Len(s)) /\ FlattenSeq(s) = f[Len(s)]
<1>1. PICK n : n = Len(s)
  OBVIOUS
<1>2. PICK f : f = CHOOSE g : Concatenates(g, s, n)
  OBVIOUS
<1>3. Concatenates(f, s, n)
  <2>1. \E g : Concatenates(g, s, n)
    BY <1>1, ConcatenationsExist
  <2> QED
    BY <1>2, <2>1, Zenon
<1>4. FlattenSeq(s) = f[n]
  BY <1>1, <1>2 DEF FlattenSeq, Concatenates
<1> QED
  BY <1>1, <1>3, <1>4

\* The pairs of a name and a piece that a key is made of, if it has such a form.
Entries(q) == {<<q[2 * p - 1], q[2 * p]>> : p \in {i \in Nat \ {0} : 2 * i <= Len(q)}}

\* A sequence that can be read as pairs.
Paired(q, S) == q \in Seq(S) /\ \E h \in Nat : Len(q) = 2 * h

\* `longer' has one pair more than q.
Extended(longer, q, a, b, S) ==
  Paired(longer, S) /\ Entries(longer) = Entries(q) \cup {<<a, b>>}

\* Appending a pair adds just that pair.
LEMMA EntriesOfConcatenation ==
  ASSUME NEW S, NEW a \in S, NEW b \in S, NEW q, Paired(q, S),
         NEW longer, longer = q \o <<a, b>>
  PROVE  Extended(longer, q, a, b, S)
<1>0. PICK h \in Nat : Len(q) = 2 * h
  BY DEF Paired
<1>11. q \in Seq(S)
  BY DEF Paired
<1>1. /\ longer \in Seq(S)
      /\ Len(longer) = 2 * h + 2
  BY <1>0, <1>11
<1>2. longer[2 * h + 1] = a /\ longer[2 * h + 2] = b
  BY <1>0, <1>11
<1>3. \A i \in 1 .. 2 * h : longer[i] = q[i]
  BY <1>0, <1>11
<1>4. ASSUME NEW p \in Nat \ {0}, 2 * p <= Len(longer)
      PROVE  <<longer[2 * p - 1], longer[2 * p]>> \in Entries(q) \cup {<<a, b>>}
  <2>1. CASE p = h + 1
    <3>1. 2 * p - 1 = 2 * h + 1 /\ 2 * p = 2 * h + 2
      BY <2>1
    <3>2. <<longer[2 * p - 1], longer[2 * p]>> = <<a, b>>
      BY <3>1, <1>2
    <3> QED
      BY <3>2
  <2>2. CASE p # h + 1
    <3>1. 2 * p <= 2 * h /\ 2 * p \in 1 .. 2 * h /\ 2 * p - 1 \in 1 .. 2 * h
      BY <1>1, <1>4, <2>2
    <3>2. <<longer[2 * p - 1], longer[2 * p]>> = <<q[2 * p - 1], q[2 * p]>>
      BY <1>3, <3>1
    <3>3. 2 * p <= Len(q)
      BY <3>1, <1>0
    <3>4. <<q[2 * p - 1], q[2 * p]>> \in Entries(q)
      BY <3>3, <1>4 DEF Entries
    <3> QED
      BY <3>2, <3>4
  <2> QED
    BY <2>1, <2>2
<1>5. ASSUME NEW p \in Nat \ {0}, 2 * p <= Len(q)
      PROVE  <<q[2 * p - 1], q[2 * p]>> \in Entries(longer)
  <2>1. 2 * p \in 1 .. 2 * h /\ 2 * p - 1 \in 1 .. 2 * h
    BY <1>0, <1>5
  <2>2. <<longer[2 * p - 1], longer[2 * p]>> = <<q[2 * p - 1], q[2 * p]>>
    BY <1>3, <2>1
  <2>3. 2 * p <= Len(longer)
    BY <1>1, <2>1
  <2> QED
    BY <2>2, <2>3 DEF Entries
<1>6. <<a, b>> \in Entries(longer)
  <2>1. /\ h + 1 \in Nat \ {0}
        /\ 2 * (h + 1) <= Len(longer)
        /\ 2 * (h + 1) - 1 = 2 * h + 1
        /\ 2 * (h + 1) = 2 * h + 2
    BY <1>1
  <2>2. <<longer[2 * (h + 1) - 1], longer[2 * (h + 1)]>> = <<a, b>>
    BY <1>2, <2>1
  <2> QED
    BY <2>1, <2>2 DEF Entries
<1>7. Entries(longer) \subseteq Entries(q) \cup {<<a, b>>}
  BY <1>4 DEF Entries
<1>8. Entries(q) \subseteq Entries(longer)
  BY <1>5 DEF Entries
<1>9. Entries(longer) = Entries(q) \cup {<<a, b>>}
  BY <1>6, <1>7, <1>8
<1>10. Paired(longer, S)
  <2>1. h + 1 \in Nat /\ Len(longer) = 2 * (h + 1)
    BY <1>1
  <2> QED
    BY <1>1, <2>1 DEF Paired
<1> QED
  BY <1>9, <1>10 DEF Extended

\* Labels all of whose values are single pieces, as those without a separator byte
\* are, and whose names are known.
PlainLabels(labels) ==
  /\ DOMAIN labels \subseteq Range(LabelOrder)
  /\ labels = [n \in DOMAIN labels |-> labels[n]]
  /\ \A n \in DOMAIN labels : labels[n] \in Seq(STRING) /\ IsUTF8(labels[n])

\* A name and a value of one piece make a pair.
LEMMA PairOfPieces ==
  ASSUME NEW S, NEW a \in S, NEW b \in S
  PROVE  <<a>> \o <<b>> = <<a, b>>
<1>1. PICK q : q = <<a>> \o <<b>>
  OBVIOUS
<1>2. q \in Seq(S) /\ Len(q) = 2
  BY <1>1
<1>3. q[1] = a /\ q[2] = b
  BY <1>1
<1>4. q = <<q[1], q[2]>>
  BY <1>2
<1> QED
  BY <1>1, <1>3, <1>4

\* The key of plain labels tells their names and values.
LEMMA KeyEntries ==
  ASSUME NEW labels, PlainLabels(labels)
  PROVE  Entries(groupingKeyFor(labels)) = {<<n, labels[n][1]>> : n \in DOMAIN labels}
<1> DEFINE piece(i) == IF LabelOrder[i] \in DOMAIN labels
                         THEN <<LabelOrder[i]>> \o labels[LabelOrder[i]] ELSE <<>>
           upTo(k)  == {<<LabelOrder[i], labels[LabelOrder[i]][1]>> :
                          i \in {j \in 1 .. k : LabelOrder[j] \in DOMAIN labels}}
<1>0. PICK Pieces : Pieces = STRING
  OBVIOUS
<1>1. PICK n : n = Len(LabelOrder)
  OBVIOUS
<1>2. PICK s : s = [i \in 1 .. n |-> piece(i)]
  OBVIOUS
<1>3. /\ n \in Nat
      /\ DOMAIN LabelOrder = 1 .. n
      /\ \A i \in 1 .. n : LabelOrder[i] \in Pieces
  BY <1>0, <1>1, LabelOrderAssumption
<1>10. ASSUME NEW x \in DOMAIN labels
      PROVE  labels[x] \in Seq(Pieces) /\ Len(labels[x]) = 1
  BY <1>0 DEF PlainLabels, IsUTF8
<1>4. groupingKeyFor(labels) = FlattenSeq(s)
  BY <1>2, <1>3 DEF groupingKeyFor, Joined
<1>5. Len(s) = n
  BY <1>2, <1>3
<1>6. {<<x, labels[x][1]>> : x \in DOMAIN labels} = upTo(n)
  BY <1>3 DEF PlainLabels, Range
<1>7. CASE n = 0
  <2>1. FlattenSeq(s) = s
    BY <1>5, <1>7 DEF FlattenSeq
  <2>2. Entries(s) = {}
    BY <1>5, <1>7 DEF Entries
  <2>3. upTo(n) = {}
    BY <1>7
  <2> QED
    BY <2>1, <2>2, <2>3, <1>4, <1>6
<1>8. CASE n # 0
  <2>1. PICK f : Concatenates(f, s, n) /\ FlattenSeq(s) = f[n]
    BY <1>3, <1>5, <1>8, Flattened
  <2> DEFINE Good(k) == Paired(f[k], Pieces) /\ Entries(f[k]) = upTo(k)
             Bad     == {k \in 1 .. n : ~Good(k)}
  <2>2. ASSUME NEW k \in 1 .. n, NEW q, Paired(q, Pieces), Entries(q) = upTo(k - 1),
               f[k] = q \o s[k]
        PROVE  Good(k)
    <3>1. k \in Nat \ {0} /\ 1 .. k = (1 .. (k - 1)) \cup {k}
      OBVIOUS
    <3>2. CASE LabelOrder[k] \in DOMAIN labels
      <4>1. PICK a, b : a = LabelOrder[k] /\ b = labels[LabelOrder[k]][1]
        OBVIOUS
      <4>2. a \in Pieces /\ b \in Pieces /\ labels[LabelOrder[k]] = <<b>>
        BY <4>1, <3>2, <1>3, <1>10
      <4>3. s[k] = <<a, b>>
        <5>1. s[k] = piece(k)
          BY <1>2
        <5>2. piece(k) = <<a>> \o <<b>>
          BY <4>1, <4>2, <3>2
        <5>3. a \in Pieces /\ b \in Pieces
          BY <4>2
        <5>4. <<a>> \o <<b>> = <<a, b>>
          BY <5>3, PairOfPieces
        <5> HIDE DEF piece
        <5> QED
          BY <5>1, <5>2, <5>4
      <4>4. Paired(f[k], Pieces) /\ Entries(f[k]) = Entries(q) \cup {<<a, b>>}
        <5>1. PICK g : g = f[k]
          OBVIOUS
        <5>2. g = q \o <<a, b>>
          BY <5>1, <4>3, <2>2
        <5>3. Paired(q, Pieces) /\ a \in Pieces /\ b \in Pieces
          BY <2>2, <4>2
        <5>4. Extended(g, q, a, b, Pieces)
          BY <5>2, <5>3, EntriesOfConcatenation
        <5> QED
          BY <5>1, <5>4 DEF Extended
      <4>5. upTo(k) = upTo(k - 1) \cup {<<a, b>>}
        BY <4>1, <3>1, <3>2
      <4> HIDE DEF upTo
      <4> QED
        BY <4>4, <4>5, <2>2
    <3>3. CASE LabelOrder[k] \notin DOMAIN labels
      <4>1. s[k] = <<>>
        BY <3>3, <1>2
      <4>2. f[k] = q
        BY <4>1, <2>2 DEF Paired
      <4>3. upTo(k) = upTo(k - 1)
        BY <3>1, <3>3
      <4> HIDE DEF upTo
      <4> QED
        BY <4>2, <4>3, <2>2
    <3> QED
      BY <3>2, <3>3
  <2>3. ASSUME NEW k \in 1 .. n, k = 1 \/ Good(k - 1)
        PROVE  Good(k)
    <3>1. f[k] = IF k = 1 THEN s[k] ELSE f[k - 1] \o s[k]
      BY <2>1 DEF Concatenates
    <3>2. CASE k = 1
      <4>1. s[k] \in Seq(Pieces)
        <5>1. LabelOrder[k] \in Pieces
          BY <1>3
        <5>2. <<>> \in Seq(Pieces) /\ <<LabelOrder[k]>> \in Seq(Pieces)
          BY <5>1
        <5>3. LabelOrder[k] \in DOMAIN labels =>
                <<LabelOrder[k]>> \o labels[LabelOrder[k]] \in Seq(Pieces)
          BY <5>2, <1>10
        <5> QED
          BY <5>2, <5>3, <1>2
      <4>2. f[k] = <<>> \o s[k]
        BY <3>1, <3>2, <4>1
      <4>3. Paired(<<>>, Pieces)
        BY DEF Paired
      <4>4. Entries(<<>>) = {}
        BY DEF Entries
      <4>5. upTo(k - 1) = {}
        BY <3>2
      <4> HIDE DEF upTo, Good
      <4> QED
        BY <2>2, <4>2, <4>3, <4>4, <4>5
    <3>3. CASE k # 1
      <4>1. f[k] = f[k - 1] \o s[k]
        BY <3>1, <3>3
      <4>2. Paired(f[k - 1], Pieces) /\ Entries(f[k - 1]) = upTo(k - 1)
        BY <2>3, <3>3
      <4> HIDE DEF upTo, Good
      <4> QED
        BY <2>2, <4>1, <4>2
    <3> QED
      BY <3>2, <3>3
  <2> HIDE DEF Good
  <2>4. Bad = {}
    <3> SUFFICES ASSUME Bad # {} PROVE FALSE
      OBVIOUS
    <3>1. Bad \subseteq Nat
      OBVIOUS
    <3>2. PICK k \in Bad : \A j \in Bad : k <= j
      BY <3>1, LeastNatural
    <3>3. k \in 1 .. n /\ ~Good(k) /\ k - 1 \notin Bad
      BY <3>2
    <3>4. k = 1 \/ Good(k - 1)
      BY <3>3, <1>3
    <3> QED
      BY <3>3, <3>4, <2>3
  <2>5. Good(n)
    BY <2>4, <1>3, <1>8
  <2> QED
    BY <2>5, <2>1, <1>4, <1>6 DEF Good
<1> QED
  BY <1>3, <1>7, <1>8

\* Grouping keys are unique among label sets whose values have no separator byte.
THEOREM PlainKeysDiffer ==
  ASSUME NEW l, NEW m, PlainLabels(l), PlainLabels(m), groupingKeyFor(l) = groupingKeyFor(m)
  PROVE  l = m
<1>1. {<<n, l[n][1]>> : n \in DOMAIN l} = {<<n, m[n][1]>> : n \in DOMAIN m}
  BY KeyEntries
<1>2. DOMAIN l = DOMAIN m /\ \A n \in DOMAIN l : l[n][1] = m[n][1]
  <2>1. ASSUME NEW n \in DOMAIN l
        PROVE  n \in DOMAIN m /\ l[n][1] = m[n][1]
    <3>1. \E x \in DOMAIN m : <<n, l[n][1]>> = <<x, m[x][1]>>
      BY <1>1
    <3> QED
      BY <3>1
  <2>2. ASSUME NEW n \in DOMAIN m
        PROVE  n \in DOMAIN l
    <3>1. \E x \in DOMAIN l : <<n, m[n][1]>> = <<x, l[x][1]>>
      BY <1>1
    <3> QED
      BY <3>1
  <2> QED
    BY <2>1, <2>2
<1>3. \A n \in DOMAIN l : l[n] = m[n]
  <2> SUFFICES ASSUME NEW n \in DOMAIN l PROVE l[n] = m[n]
    OBVIOUS
  <2>1. l[n] \in Seq(STRING) /\ m[n] \in Seq(STRING) /\ Len(l[n]) = 1 /\ Len(m[n]) = 1
    BY <1>2 DEF PlainLabels, IsUTF8
  <2>2. l[n] = <<l[n][1]>> /\ m[n] = <<m[n][1]>>
    BY <2>1
  <2> QED
    BY <2>2, <1>2
<1> QED
  BY <1>2, <1>3 DEF PlainLabels

=============================================================================
