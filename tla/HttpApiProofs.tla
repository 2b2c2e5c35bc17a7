---------------------------- MODULE HttpApiProofs ----------------------------
(***************************************************************************)
(* Requests over HTTP are taken for what they say, however they are        *)
(* encoded; the store behind the handlers behaves as MetricStore says; and *)
(* what the query API shows of it is a dictionary, RestDictionary, with    *)
(* lists of buckets that count what was observed.                          *)
(***************************************************************************)
EXTENDS HttpApi, MetricStoreProofs, FiniteSetTheorems

\* Each handler either submits one of the write requests of MetricStore or leaves
\* the store alone.
THEOREM HttpImplementsStore == HttpSpec => Spec
<1>1. HttpInit => Init
  BY DEF HttpInit
<1>2. [HttpNext]_httpVars => [Next]_vars
  <2> SUFFICES ASSUME [HttpNext]_httpVars PROVE [Next]_vars
    OBVIOUS
  <2>1. ASSUME NEW c \in Callers, NEW q \in HttpRequests, NEW t \in Times, Serve(c, q, t)
        PROVE  Next
    <3>1. Request(q) \in Requests
      BY <2>1, SubmissionsAssumption DEF Serve
    <3>2. WriteRequest(c, Request(q), t) \in WriteRequests
      BY <3>1 DEF WriteRequests
    <3>3. SubmitWriteRequest(c, WriteRequest(c, Request(q), t))
      BY <2>1 DEF Serve
    <3> QED
      BY <3>2, <3>3 DEF Next
  <2>2. ASSUME NEW q \in HttpRequests, BadRequest(q) PROVE UNCHANGED vars
    BY <2>2 DEF BadRequest
  <2>3. CASE HandleNext
    BY <2>3 DEF HandleNext, Next
  <2>4. ASSUME NEW c \in Callers, Reply(c) PROVE Next
    BY <2>4 DEF Next
  <2>5. CASE UNCHANGED httpVars
    BY <2>5 DEF httpVars, vars
  <2> QED
    BY <2>1, <2>2, <2>3, <2>4, <2>5 DEF HttpNext
<1> QED
  BY <1>1, <1>2, PTL DEF HttpSpec, Spec

\* Over HTTP too, rejected pushes lose nothing, the last push is reported, and, if
\* grouping keys are unique, groups are well-formed and requests touch only theirs.
THEOREM HttpStoreSafe ==
  KeysDistinct =>
    (HttpSpec => /\ []TypeOK /\ []GroupsWellFormed
                 /\ OtherGroupsUntouched /\ RejectedPushLosesNothing
                 /\ FailureTimeRetained /\ LastPushReported)
BY HttpImplementsStore, StoreTypes, GroupsStayWellFormed, OthersStayUntouched,
   RejectedPushesLoseNothing, FailureTimesRetained, LastPushIsReported, PTL

-----------------------------------------------------------------------------
(* Requests that are properly encoded read back.                           *)

\* A component stands for a value, in plain or in base64.
StandsFor(component, base64, value) ==
  IF base64 THEN /\ component.unpadded \in DOMAIN RawURLEncoding
                 /\ RawURLEncoding[component.unpadded] = value
            ELSE component.pieces = value

\* The path says labels: the job first, and then pairs of names and values in any
\* order, each in either encoding.  Of several values for a name the last one
\* counts, and for the job none of them.
SaysLabels(q, labels) ==
  /\ labels = [n \in DOMAIN labels |-> labels[n]]
  /\ "job" \in DOMAIN labels /\ labels["job"] # NoValue
  /\ StandsFor(q.job, q.jobBase64, labels["job"])
  /\ Len(q.labels) % 2 = 0
  /\ \A i \in Pairs(q.labels) :
       /\ IsValidLabelName(LabelName(q.labels, i))
       /\ NameAt(q.labels, i).trimmed \notin ReservedTexts
       /\ \E value :
            /\ StandsFor(ValueAt(q.labels, i), HasSuffix(NameAt(q.labels, i)), value)
            /\ \/ LabelName(q.labels, i) = "job"
               \/ \E j \in Pairs(q.labels) :
                    j > i /\ LabelName(q.labels, j) = LabelName(q.labels, i)
               \/ /\ LabelName(q.labels, i) \in DOMAIN labels
                  /\ labels[LabelName(q.labels, i)] = value
  /\ \A n \in DOMAIN labels \ {"job"} :
       \E i \in Pairs(q.labels) : LabelName(q.labels, i) = n

\* The body says families, in either format.  In protobuf, of several families with
\* one name the last one counts; in text there are no such, and families without
\* samples are not said.
SaysFamilies(q, families) ==
  /\ families = [n \in DOMAIN families |-> families[n]]
  /\ q.contentEncoding = q.coding /\ ~q.broken
  /\ \A i \in DOMAIN q.messages :
       \/ /\ q.messages[i].name \in DOMAIN families
          /\ families[q.messages[i].name] = q.messages[i].family
       \/ /\ q.format = "text" /\ q.messages[i].family.series = <<>>
          /\ q.messages[i].name \notin DOMAIN families
       \/ \E j \in DOMAIN q.messages : j > i /\ q.messages[j].name = q.messages[i].name
  /\ \A n \in DOMAIN families : \E i \in DOMAIN q.messages : q.messages[i].name = n
  /\ q.format = "text" =>
       /\ \A n \in DOMAIN families : families[n].series # <<>>
       /\ \A i, j \in DOMAIN q.messages : i # j => q.messages[i].name # q.messages[j].name

\* A request over HTTP says r.  (The body of a DELETE is not looked at, but for its
\* gzip header.)
Says(q, r) ==
  /\ r = [labels |-> r.labels, families |-> r.families, replace |-> q.method = "PUT"]
  /\ SaysLabels(q, r.labels)
  /\ IF q.method = "DELETE"
       THEN r.families = NoFamilies /\ (q.contentEncoding = "gzip" => q.coding = "gzip")
       ELSE SaysFamilies(q, r.families)

\* The last of some places in a sequence is one of them, and after all the others.
LEMMA LastPlace ==
  ASSUME NEW n \in Nat, NEW T, T \subseteq 1 .. n, T # {}
  PROVE  Max(T) \in T /\ \A y \in T : Max(T) >= y
<1> DEFINE rest == {n - i : i \in T}
<1>1. rest \subseteq Nat /\ rest # {}
  <2>1. ASSUME NEW i \in T PROVE n - i \in Nat
    <3>1. i \in 1 .. n
      OBVIOUS
    <3> QED
      BY <3>1
  <2> QED
    BY <2>1
<1>2. PICK r \in rest : \A s \in rest : r <= s
  BY <1>1, LeastNatural
<1>3. PICK x \in T : r = n - x
  BY <1>2
<1>4. ASSUME NEW y \in T PROVE x >= y
  <2>1. n - x <= n - y
    BY <1>2, <1>3
  <2> QED
    BY <2>1
<1> QED
  BY <1>4 DEF Max

\* The path is split into the labels that it says.
LEMMA LabelsReadBack ==
  ASSUME NEW q \in HttpRequests, NEW labels, SaysLabels(q, labels)
  PROVE  PathParses(q) /\ Labels(q) = labels
<1> PICK c : c = q.labels
  OBVIOUS
<1> PICK P : P = Pairs(c)
  OBVIOUS
<1>1. \A i \in P :
        /\ IsValidLabelName(LabelName(c, i))
        /\ NameAt(c, i).trimmed \notin ReservedTexts
        /\ \E value :
             /\ StandsFor(ValueAt(c, i), HasSuffix(NameAt(c, i)), value)
             /\ \/ LabelName(c, i) = "job"
                \/ \E j \in P : j > i /\ LabelName(c, j) = LabelName(c, i)
                \/ LabelName(c, i) \in DOMAIN labels /\ labels[LabelName(c, i)] = value
  BY DEF SaysLabels
<1>2. PICK last \in Nat : P = 1 .. last
  <2>1. \A k \in Nat : k \div 2 \in Nat
    OBVIOUS
  <2>2. Len(c) \in Nat
    BY SequencesAssumption
  <2>3. Len(c) \div 2 \in Nat
    BY <2>1, <2>2, Zenon
  <2> QED
    BY <2>3 DEF Pairs
<1>3. /\ q.jobBase64 => Decodes(q.job)
      /\ Job(q) = labels["job"] /\ Job(q) # NoValue
  BY DEF SaysLabels, StandsFor, Decodes, Job, decodeBase64
<1>4. Splits(c)
  <2>1. ASSUME NEW i \in P, HasSuffix(NameAt(c, i)) PROVE Decodes(ValueAt(c, i))
    BY <1>1, <2>1 DEF StandsFor, Decodes
  <2> QED
    BY <1>1, <2>1 DEF Splits, SaysLabels
<1> PICK split : split = splitLabels(c)
  OBVIOUS
<1>5. DOMAIN split = {LabelName(c, i) : i \in P}
  BY DEF splitLabels
<1>6. ASSUME NEW n \in DOMAIN split, n # "job"
      PROVE  n \in DOMAIN labels /\ split[n] = labels[n]
  <2> PICK T : T = {j \in P : LabelName(c, j) = n}
    OBVIOUS
  <2>1. T \subseteq 1 .. last /\ T # {}
    BY <1>2, <1>5
  <2> PICK i : i = Max(T)
    OBVIOUS
  <2>2. i \in T /\ \A j \in T : i >= j
    BY <2>1, LastPlace
  <2>3. i \in P /\ LabelName(c, i) = n /\ i \in Nat
    BY <2>2, <1>2
  <2>4. ~\E j \in P : j > i /\ LabelName(c, j) = n
    BY <2>2, <2>3, <1>2
  <2>5. PICK value :
          /\ StandsFor(ValueAt(c, i), HasSuffix(NameAt(c, i)), value)
          /\ n \in DOMAIN labels /\ labels[n] = value
    BY <2>3, <2>4, <1>1, <1>6
  <2>6. split[n] = IF HasSuffix(NameAt(c, i)) THEN decodeBase64(ValueAt(c, i))
                   ELSE ValueAt(c, i).pieces
    BY DEF splitLabels
  <2> QED
    BY <2>5, <2>6 DEF StandsFor, decodeBase64
<1>7. ASSUME NEW n \in DOMAIN labels, n # "job" PROVE n \in DOMAIN split
  BY <1>5, <1>7 DEF SaysLabels
<1>8. "job" \in DOMAIN labels /\ labels = [n \in DOMAIN labels |-> labels[n]]
  BY DEF SaysLabels
<1>9. Labels(q) = labels
  <2> PICK job : job = Single("job", Job(q))
    OBVIOUS
  <2>1. DOMAIN job = {"job"} /\ job["job"] = labels["job"]
    BY <1>3 DEF Single
  <2>2. Labels(q) = Over(job, split)
    BY DEF Labels
  <2>3. DOMAIN job \cup DOMAIN split = DOMAIN labels
    BY <2>1, <1>6, <1>7, <1>8
  <2>4. Labels(q) =
          [n \in DOMAIN labels |-> IF n \in DOMAIN job THEN job[n] ELSE split[n]]
    BY <2>2, <2>3 DEF Over
  <2>5. ASSUME NEW n \in DOMAIN labels
        PROVE  (IF n \in DOMAIN job THEN job[n] ELSE split[n]) = labels[n]
    BY <2>1, <1>6, <1>7
  <2> QED
    BY <2>4, <2>5, <1>8
<1> QED
  BY <1>3, <1>4, <1>9 DEF PathParses

\* The body is parsed into the families that it says.
LEMMA FamiliesReadBack ==
  ASSUME NEW q \in HttpRequests, NEW families, SaysFamilies(q, families)
  PROVE  BodyParses(q) /\ metricFamilies(q) = families
<1> PICK ms, all : ms = q.messages /\ all = Families(ms)
  OBVIOUS
<1>1. PICK last \in Nat : DOMAIN ms = 1 .. last
  <2>1. Len(ms) \in Nat /\ DOMAIN ms = 1 .. Len(ms)
    BY SequencesAssumption
  <2> QED
    BY <2>1
<1>2. BodyParses(q)
  BY DEF BodyParses, SaysFamilies
<1>3. /\ DOMAIN all = {ms[i].name : i \in DOMAIN ms}
      /\ all = [n \in DOMAIN all |-> all[n]]
  BY DEF Families
<1>4. \A i \in DOMAIN ms :
        \/ ms[i].name \in DOMAIN families /\ families[ms[i].name] = ms[i].family
        \/ /\ q.format = "text" /\ ms[i].family.series = <<>>
           /\ ms[i].name \notin DOMAIN families
        \/ \E j \in DOMAIN ms : j > i /\ ms[j].name = ms[i].name
  BY DEF SaysFamilies
<1>5. ASSUME NEW n \in DOMAIN all
      PROVE  \/ n \in DOMAIN families /\ all[n] = families[n]
             \/ q.format = "text" /\ all[n].series = <<>> /\ n \notin DOMAIN families
  <2> PICK T : T = {j \in DOMAIN ms : ms[j].name = n}
    OBVIOUS
  <2>1. T \subseteq 1 .. last /\ T # {}
    BY <1>1, <1>3
  <2> PICK i : i = Max(T)
    OBVIOUS
  <2>2. i \in T /\ \A j \in T : i >= j
    BY <2>1, <1>1, LastPlace
  <2>3. i \in DOMAIN ms /\ ms[i].name = n /\ i \in Nat
    BY <2>2, <1>1
  <2>4. ASSUME NEW j \in DOMAIN ms, j > i PROVE ms[j].name # n
    <3>1. j \in Nat /\ ~(i >= j)
      BY <2>3, <2>4, <1>1
    <3>2. j \notin T
      BY <3>1, <2>2
    <3> QED
      BY <3>2
  <2>5. \/ n \in DOMAIN families /\ families[n] = ms[i].family
        \/ q.format = "text" /\ ms[i].family.series = <<>> /\ n \notin DOMAIN families
    BY <2>3, <2>4, <1>4
  <2>6. all[n] = ms[i].family
    BY DEF Families
  <2> QED
    BY <2>5, <2>6
<1>6. DOMAIN families \subseteq DOMAIN all
  BY <1>3 DEF SaysFamilies
<1>7. families = [n \in DOMAIN families |-> families[n]]
  BY DEF SaysFamilies
<1>8. CASE q.format = "text"
  <2>1. {n \in DOMAIN all : ~(all[n].series = <<>>)} = DOMAIN families
    <3>1. \A n \in DOMAIN families : families[n].series # <<>>
      BY <1>8 DEF SaysFamilies
    <3> QED
      BY <3>1, <1>5, <1>6
  <2>2. metricFamilies(q) = Restrict(all, DOMAIN families)
    BY <1>8, <2>1 DEF metricFamilies
  <2>3. Restrict(all, DOMAIN families) = [n \in DOMAIN families |-> all[n]]
    BY <1>6 DEF Restrict
  <2> QED
    BY <2>2, <2>3, <1>2, <1>5, <1>6, <1>7
<1>9. CASE q.format # "text"
  <2>1. metricFamilies(q) = all
    BY <1>9 DEF metricFamilies
  <2>2. DOMAIN all = DOMAIN families
    BY <1>5, <1>6, <1>9
  <2> QED
    BY <2>1, <2>2, <1>2, <1>3, <1>5, <1>7, <1>9
<1> QED
  BY <1>8, <1>9

\* However a request is encoded, it is taken for what it says: plain or base64, with
\* any padding, labels in any order, escaped names, any format and content encoding
\* of the body.
THEOREM RequestsReadBack ==
  ASSUME NEW q \in HttpRequests, NEW r, Says(q, r)
  PROVE  Parses(q) /\ Request(q) = r
<1>1. PathParses(q) /\ Labels(q) = r.labels
  BY LabelsReadBack DEF Says
<1>2. CASE q.method = "DELETE"
  <2>1. r.families = NoFamilies /\ decodeRequest(q)
    BY <1>2 DEF Says, decodeRequest
  <2>2. Request(q) = [labels |-> r.labels, families |-> r.families,
                      replace |-> q.method = "PUT"]
    BY <1>1, <1>2, <2>1 DEF Request
  <2>3. Request(q) = r
    BY <2>2 DEF Says
  <2> QED
    BY <1>1, <1>2, <2>1, <2>3 DEF Parses
<1>3. CASE q.method # "DELETE"
  <2>1. BodyParses(q) /\ metricFamilies(q) = r.families
    BY <1>3, FamiliesReadBack DEF Says
  <2>2. decodeRequest(q)
    BY <2>1 DEF BodyParses, decodeRequest
  <2>3. Request(q) = [labels |-> r.labels, families |-> r.families,
                      replace |-> q.method = "PUT"]
    BY <1>1, <1>3, <2>1 DEF Request
  <2>4. Request(q) = r
    BY <2>3 DEF Says
  <2> QED
    BY <1>1, <2>1, <2>2, <2>4 DEF Parses
<1> QED
  BY <1>2, <1>3

-----------------------------------------------------------------------------
(* What the API shows is what clients mean: hypotheses.                    *)

\* Clients mean what their requests say, or else send what is refused as malformed.
MeantAsSaid ==
  \A q \in HttpRequests : IF q.meant = NoMeaning THEN ~Parses(q) ELSE Says(q, q.meant)

MeantAsParsed ==
  \A q \in HttpRequests : q.meant = IF Parses(q) THEN Request(q) ELSE NoMeaning

LEMMA SaidIsParsed == MeantAsSaid => MeantAsParsed
BY RequestsReadBack DEF MeantAsSaid, MeantAsParsed

\* NoMeaning is no request, with or without a time.
Timed(r, t) ==
  [labels |-> r.labels, families |-> r.families, replace |-> r.replace, time |-> t]

NoMeaningApart == \A r \in Requests, t \in Times : NoMeaning \notin {r, Timed(r, t)}

\* No family is pushed under the name of a fixed key, and under that of the failure
\* time none that is no gauge.
IsGauge(family) == family.type = "gauge" /\ 1 \in DOMAIN family.series

PlainlyPushed ==
  \A r \in Requests : r.families # NoFamilies =>
    /\ \A n \in DOMAIN r.families : n \notin fixedKeyNames
    /\ pushFailedMetricName \in DOMAIN r.families =>
         IsGauge(r.families[pushFailedMetricName])

DictionaryHypotheses ==
  KeysDistinct /\ MeantAsSaid /\ NoMeaningApart /\ PlainlyPushed

-----------------------------------------------------------------------------
(* What is known of one group.                                             *)

\* No family of a group is in the place of a fixed key, and the push metrics are
\* gauges.
PlainGroup(metrics) ==
  /\ \A n \in DOMAIN metrics : n \notin fixedKeyNames
  /\ \A n \in pushMetricNames : IsGauge(metrics[n].family)

AllPlain(groups) == \A k \in DOMAIN groups : PlainGroup(groups[k].metrics)

\* The families of a group as the API shows them.
FamiliesShown(metrics) ==
  [n \in DOMAIN metrics \ pushMetricNames |-> FamilyResponse(metrics[n])]

\* The API shows the value of a gauge.
LEMMA GaugeShown ==
  ASSUME NEW family, IsGauge(family)
  PROVE  makeEncodableMetrics(family).metrics[1].value = GaugeValue(family)
<1>1. makeEncodableMetrics(family).metrics[1]
        = makeEncodableMetric(family.series[1], "gauge")
  BY DEF makeEncodableMetrics, IsGauge
<1>2. makeEncodableMetric(family.series[1], "gauge")
        = [labels |-> family.series[1].labels, value |-> family.series[1].value]
  BY DEF makeEncodableMetric, getValue
<1> QED
  BY <1>1, <1>2 DEF GaugeValue, IsGauge

\* The JSON object of a group tells its labels, its families, the values of its
\* push metrics, and whether the last push succeeded.
LEMMA ToldOfGroup ==
  ASSUME NEW group, pushMetricNames \subseteq DOMAIN group.metrics, PlainGroup(group.metrics),
         NEW response, response = metricResponse(group),
         NEW told, told = Told(response)
  PROVE  /\ response["labels"] = group.labels
         /\ told.families = FamiliesShown(group.metrics)
         /\ told.succeeded = GaugeValue(group.metrics[pushMetricName].family)
         /\ told.failed = GaugeValue(group.metrics[pushFailedMetricName].family)
         /\ told.successful = (told.failed <= told.succeeded)
<1> DEFINE shown == [n \in DOMAIN group.metrics |-> FamilyResponse(group.metrics[n])]
           fixed == FixedKeys(group)
<1>1. response = Over(shown, fixed)
  BY DEF metricResponse
<1>2. /\ DOMAIN fixed = fixedKeyNames
      /\ fixed["last_push_successful"] = LastPushSuccess(group)
      /\ fixed["labels"] = group.labels
  BY DEF FixedKeys, fixedKeyNames
<1>3. /\ DOMAIN shown = DOMAIN group.metrics
      /\ \A n \in DOMAIN group.metrics : shown[n] = FamilyResponse(group.metrics[n])
  OBVIOUS
<1> HIDE DEF shown, fixed
<1>4. /\ DOMAIN response = DOMAIN group.metrics \cup fixedKeyNames
      /\ \A n \in DOMAIN group.metrics : response[n] = FamilyResponse(group.metrics[n])
  BY <1>1, <1>2, <1>3 DEF Over
<1>5. "labels" \notin DOMAIN group.metrics /\ "last_push_successful" \notin DOMAIN group.metrics
  BY DEF PlainGroup, fixedKeyNames
<1>6. /\ response["last_push_successful"] = LastPushSuccess(group)
      /\ response["labels"] = group.labels
  BY <1>1, <1>2, <1>3, <1>5 DEF Over, fixedKeyNames
<1>7. ASSUME NEW n \in pushMetricNames
      PROVE  response[n].metrics.metrics[1].value = GaugeValue(group.metrics[n].family)
  <2> PICK stored : stored = group.metrics[n]
    OBVIOUS
  <2>1. response[n] = FamilyResponse(stored)
    BY <1>4
  <2>2. response[n].metrics = makeEncodableMetrics(stored.family)
    BY <2>1 DEF FamilyResponse
  <2>3. IsGauge(stored.family)
    BY DEF PlainGroup
  <2> QED
    BY <2>2, <2>3, GaugeShown
<1>8. /\ told.families = [n \in DOMAIN response \ (fixedKeyNames \cup pushMetricNames) |->
                            response[n]]
      /\ told.succeeded = response[pushMetricName].metrics.metrics[1].value
      /\ told.failed = response[pushFailedMetricName].metrics.metrics[1].value
      /\ told.successful = response["last_push_successful"]
  BY DEF Told
<1>9. told.families = FamiliesShown(group.metrics)
  <2>1. DOMAIN response \ (fixedKeyNames \cup pushMetricNames)
          = DOMAIN group.metrics \ pushMetricNames
    BY <1>4 DEF PlainGroup
  <2> QED
    BY <2>1, <1>4, <1>8 DEF FamiliesShown
<1>10. /\ told.succeeded = GaugeValue(group.metrics[pushMetricName].family)
       /\ told.failed = GaugeValue(group.metrics[pushFailedMetricName].family)
  BY <1>7, <1>8 DEF pushMetricNames
<1>11. LastPushSuccess(group) =
         (GaugeValue(group.metrics[pushFailedMetricName].family)
            <= GaugeValue(group.metrics[pushMetricName].family))
  BY DEF LastPushSuccess
<1> QED
  BY <1>6, <1>8, <1>9, <1>10, <1>11

-----------------------------------------------------------------------------
(* The dictionary that some contents of the store show.                    *)

ResponsesOf(groups, labels) ==
  {metricResponse(group) :
     group \in {g \in Range(groups) : metricResponse(g)["labels"] = labels}}

DictOf(groups) ==
  [labels \in {metricResponse(group)["labels"] : group \in Range(groups)} |->
    CHOOSE told \in {Told(response) : response \in ResponsesOf(groups, labels)} : TRUE]

\* dict is the dictionary of the contents, before and after a step.
LEMMA DictIsOfGroups ==
  dict = DictOf(metricGroups) /\ dict' = DictOf(metricGroups')
BY DEF dict, DictOf, ResponsesFor, ResponsesOf

\* There is an entry for labels just if there is a group of theirs, under their key,
\* and it says what the JSON object of that group says.
LEMMA DictEntries ==
  ASSUME NEW groups, StoreInv(groups), AllPlain(groups),
         NEW labels, NEW key, key = groupingKeyFor(labels)
  PROVE  /\ labels \in DOMAIN DictOf(groups)
              <=> key \in DOMAIN groups /\ groups[key].labels = labels
         /\ labels \in DOMAIN DictOf(groups) =>
              DictOf(groups)[labels] = Told(metricResponse(groups[key]))
<1>1. \A g \in Range(groups) : \E k \in DOMAIN groups : g = groups[k]
  BY DEF Range
<1>2. \A k \in DOMAIN groups : groups[k] \in Range(groups)
  BY DEF Range
<1>3. ASSUME NEW g \in Range(groups) PROVE metricResponse(g)["labels"] = g.labels
  <2> PICK k \in DOMAIN groups : g = groups[k]
    BY <1>1
  <2>1. pushMetricNames \subseteq DOMAIN g.metrics /\ PlainGroup(g.metrics)
    BY DEF StoreInv, AllPlain
  <2> PICK response, told : response = metricResponse(g) /\ told = Told(response)
    OBVIOUS
  <2>2. response["labels"] = g.labels
    BY <2>1, ToldOfGroup
  <2> QED
    BY <2>2
<1>4. DOMAIN DictOf(groups) = {metricResponse(g)["labels"] : g \in Range(groups)}
  BY DEF DictOf
<1>5. \A k \in DOMAIN groups : groupingKeyFor(groups[k].labels) = k
  BY DEF StoreInv
<1>6. labels \in DOMAIN DictOf(groups)
        <=> key \in DOMAIN groups /\ groups[key].labels = labels
  BY <1>1, <1>2, <1>3, <1>4, <1>5
<1>7. ASSUME labels \in DOMAIN DictOf(groups)
      PROVE  DictOf(groups)[labels] = Told(metricResponse(groups[key]))
  <2>1. key \in DOMAIN groups /\ groups[key].labels = labels
    BY <1>6, <1>7
  <2>2. {g \in Range(groups) : metricResponse(g)["labels"] = labels} = {groups[key]}
    BY <2>1, <1>1, <1>2, <1>3, <1>5
  <2>3. ResponsesOf(groups, labels) = {metricResponse(groups[key])}
    BY <2>2 DEF ResponsesOf
  <2>4. PICK E : E = {Told(response) : response \in ResponsesOf(groups, labels)}
    OBVIOUS
  <2>5. \A x : x \in E <=> x = Told(metricResponse(groups[key]))
    BY <2>3, <2>4
  <2>6. DictOf(groups)[labels] = CHOOSE told \in E : TRUE
    BY <1>4, <1>7, <2>4 DEF DictOf
  <2>7. (CHOOSE told \in E : TRUE) \in E
    BY <2>5
  <2> QED
    BY <2>5, <2>6, <2>7
<1> QED
  BY <1>6, <1>7

\* What Show shows.
LEMMA ShownFamily ==
  ASSUME NEW family, NEW labels
  PROVE  Show(family, labels) = makeEncodableMetrics(sanitizeLabels(family, labels))
<1>1. PICK e : e = makeEncodableMetrics(sanitizeLabels(family, labels))
  OBVIOUS
<1>2. {makeEncodableMetrics(f) : f \in {sanitizeLabels(family, labels)}} = {e}
  BY <1>1
<1>3. Show(family, labels) = CHOOSE shown \in {e} : TRUE
  BY <1>2 DEF Show
<1> QED
  BY <1>1, <1>3

-----------------------------------------------------------------------------
(* What handling a request makes of the families of its group, apart from  *)
(* the push metrics.                                                       *)

\* An accepted push sets the families it brings; a PUT keeps no others.
LEMMA AcceptFamilies ==
  ASSUME NEW groups, NEW wr, ~IsDelete(wr), NEW key, groupingKeyFor(wr.labels) = key,
         NEW new, new = processWriteRequest(groups, wr),
         NEW old, old = MetricsOf(groups, key),
         NEW result, result = new[key].metrics
  PROVE  /\ DOMAIN result \ pushMetricNames =
              (DOMAIN wr.families \cup IF wr.replace THEN {} ELSE DOMAIN old)
                \ pushMetricNames
         /\ \A n \in DOMAIN wr.families \ pushMetricNames :
              result[n] = [timestamp |-> wr.timestamp, family |-> wr.families[n]]
         /\ ~wr.replace =>
              \A n \in DOMAIN old \ (pushMetricNames \cup DOMAIN wr.families) :
                result[n] = old[n]
<1> DEFINE now      == newTimestampGauge(wr.labels, wr.timestamp)
           zero     == newTimestampGauge(wr.labels, ZeroTime)
           kept     == Kept(old, wr.replace)
           families == Over(Single(pushMetricName, now), wr.families)
           pushed   == Pushed(wr, kept)
           stamped  == Stamped(pushed, wr.timestamp)
           metrics  == Over(stamped, kept)
<1>1. result = metrics
  <2>1. new = SetGroup(groups, wr, metrics)
    BY DEF processWriteRequest
  <2> QED
    BY <2>1, SetGroupEffect
<1>2. /\ DOMAIN kept \ pushMetricNames
           = (IF wr.replace THEN {} ELSE DOMAIN old) \ pushMetricNames
      /\ ~wr.replace => kept = old
  BY DEF Kept, Restrict
<1> HIDE DEF kept
<1>3. pushed = IF pushFailedMetricName \in DOMAIN kept THEN families
               ELSE Over(Single(pushFailedMetricName, zero), families)
  BY DEF Pushed
<1> HIDE DEF pushed, now, zero
<1>4. /\ DOMAIN families = DOMAIN wr.families \cup {pushMetricName}
      /\ \A n \in DOMAIN wr.families \ pushMetricNames : families[n] = wr.families[n]
  BY DEF Over, Single, pushMetricNames
<1> HIDE DEF families
<1>5. /\ DOMAIN pushed \ pushMetricNames = DOMAIN wr.families \ pushMetricNames
      /\ \A n \in DOMAIN wr.families \ pushMetricNames : pushed[n] = wr.families[n]
  BY <1>3, <1>4 DEF Over, Single, pushMetricNames
<1>6. /\ DOMAIN stamped = DOMAIN pushed
      /\ \A n \in DOMAIN pushed :
           stamped[n] = [timestamp |-> wr.timestamp, family |-> pushed[n]]
  BY DEF Stamped
<1> HIDE DEF stamped
<1>7. /\ DOMAIN metrics = DOMAIN pushed \cup DOMAIN kept
      /\ \A n \in DOMAIN pushed : metrics[n] = stamped[n]
      /\ \A n \in DOMAIN kept \ DOMAIN pushed : metrics[n] = kept[n]
  BY <1>6 DEF Over
<1> HIDE DEF metrics
<1>8. DOMAIN metrics \ pushMetricNames =
        (DOMAIN wr.families \cup IF wr.replace THEN {} ELSE DOMAIN old) \ pushMetricNames
  BY <1>2, <1>5, <1>7
<1>9. ASSUME NEW n \in DOMAIN wr.families \ pushMetricNames
      PROVE  metrics[n] = [timestamp |-> wr.timestamp, family |-> wr.families[n]]
  BY <1>5, <1>6, <1>7
<1>10. ASSUME ~wr.replace, NEW n \in DOMAIN old \ (pushMetricNames \cup DOMAIN wr.families)
       PROVE  metrics[n] = old[n]
  BY <1>2, <1>5, <1>7, <1>10
<1> QED
  BY <1>1, <1>8, <1>9, <1>10

\* A rejected push leaves all families alone.
LEMMA FailFamilies ==
  ASSUME NEW groups, NEW wr, NEW key, groupingKeyFor(wr.labels) = key,
         NEW new, new = setPushFailedTimestamp(groups, wr),
         NEW old, old = MetricsOf(groups, key),
         NEW result, result = new[key].metrics
  PROVE  /\ DOMAIN result \ pushMetricNames = DOMAIN old \ pushMetricNames
         /\ \A n \in DOMAIN old \ pushMetricNames : result[n] = old[n]
<1> DEFINE failed  == Stamped(Single(pushFailedMetricName,
                                     newTimestampGauge(wr.labels, wr.timestamp)),
                              wr.timestamp)
           never   == Stamped(Single(pushMetricName,
                                     newTimestampGauge(wr.labels, ZeroTime)),
                              wr.timestamp)
           metrics == Over(failed, Over(old, never))
<1>1. result = metrics
  <2>1. new = SetGroup(groups, wr, metrics)
    BY DEF setPushFailedTimestamp
  <2> QED
    BY <2>1, SetGroupEffect
<1>2. DOMAIN failed = {pushFailedMetricName} /\ DOMAIN never = {pushMetricName}
  BY DEF Stamped, Single
<1> HIDE DEF failed, never
<1>3. /\ DOMAIN metrics \ pushMetricNames = DOMAIN old \ pushMetricNames
      /\ \A n \in DOMAIN old \ pushMetricNames : metrics[n] = old[n]
  BY <1>2 DEF Over, pushMetricNames
<1> QED
  BY <1>1, <1>3

\* Sanitizing a gauge yields a gauge.
LEMMA SanitizedGauge ==
  ASSUME NEW family, IsFamily(family), IsGauge(family), NEW labels
  PROVE  IsGauge(sanitizeLabels(family, labels))
BY DEF IsGauge, IsFamily, sanitizeLabels

\* The push metrics of the store's own making are gauges.
LEMMA OwnGauge ==
  ASSUME NEW labels, NEW t
  PROVE  IsGauge(newTimestampGauge(labels, t))
<1> DEFINE gauge == [type   |-> "gauge",
                     series |-> <<[labels |-> [n \in {} |-> n], value |-> t, stamped |-> FALSE]>>]
<1>1. IsFamily(gauge) /\ IsGauge(gauge)
  BY DEF IsFamily, IsGauge
<1>2. newTimestampGauge(labels, t) = sanitizeLabels(gauge, labels)
  BY DEF newTimestampGauge
<1> HIDE DEF gauge
<1> QED
  BY <1>1, <1>2, SanitizedGauge

\* The fixed keys stay free, and the push metrics gauges.
LEMMA StaysPlain ==
  ASSUME PlainlyPushed, NEW groups, StoreInv(groups), AllPlain(groups),
         NEW wr \in WriteRequests, NEW new, new = Handle(groups, wr)
  PROVE  AllPlain(new)
<1> PICK key : key = groupingKeyFor(wr.labels)
  OBVIOUS
<1> PICK old : old = MetricsOf(groups, key)
  OBVIOUS
<1> SUFFICES ASSUME NEW k \in DOMAIN new PROVE PlainGroup(new[k].metrics)
  BY DEF AllPlain
<1>1. k \in DOMAIN groups \cup {key} /\ (k # key => new[k] = groups[k])
  BY HandleOthers
<1>2. CASE k # key
  BY <1>1, <1>2 DEF AllPlain
<1> SUFFICES ASSUME k = key PROVE PlainGroup(new[key].metrics)
  BY <1>2
<1> PICK result : result = new[key].metrics
  OBVIOUS
<1>3. /\ \A n \in DOMAIN old : n \notin fixedKeyNames
      /\ \A n \in pushMetricNames \cap DOMAIN old : IsGauge(old[n].family)
  BY DEF AllPlain, PlainGroup, MetricsOf
<1>4. \A n \in pushMetricNames : n \notin fixedKeyNames
  BY DEF pushMetricNames, pushMetricName, pushFailedMetricName, fixedKeyNames
<1>5. ASSUME ~IsDelete(wr)
      PROVE  /\ \A n \in DOMAIN wr.families : n \notin fixedKeyNames
             /\ pushFailedMetricName \in DOMAIN wr.families =>
                  IsGauge(sanitizeLabels(wr.families[pushFailedMetricName], wr.labels))
  <2> PICK c \in Callers, r \in Requests, t \in Times : wr = WriteRequest(c, r, t)
    BY DEF WriteRequests
  <2>1. wr.families = r.families /\ r.families # NoFamilies
    BY <1>5 DEF WriteRequest, IsDelete
  <2>2. ASSUME pushFailedMetricName \in DOMAIN r.families
        PROVE  /\ IsFamily(r.families[pushFailedMetricName])
               /\ IsGauge(r.families[pushFailedMetricName])
    BY <2>1, <2>2, RequestsAssumption DEF PlainlyPushed
  <2> QED
    BY <2>1, <2>2, SanitizedGauge DEF PlainlyPushed
<1>6. CASE checkWriteRequest(groups, wr) /\ ~IsDelete(wr)
  <2> PICK sane : sane = sanitizeRequest(wr)
    OBVIOUS
  <2>1. new = processWriteRequest(groups, sane)
    BY <1>6 DEF Handle
  <2>2. /\ ~IsDelete(sane) /\ groupingKeyFor(sane.labels) = key
        /\ DOMAIN sane.families = DOMAIN wr.families
        /\ pushFailedMetricName \in DOMAIN wr.families =>
             sane.families[pushFailedMetricName]
               = sanitizeLabels(wr.families[pushFailedMetricName], wr.labels)
    BY <1>6, AcceptedRequest, SanitizedFields
  <2>3. DOMAIN result \ pushMetricNames \subseteq DOMAIN wr.families \cup DOMAIN old
    BY <2>1, <2>2, AcceptFamilies
  <2>4. /\ result[pushMetricName].family = newTimestampGauge(sane.labels, sane.timestamp)
        /\ \/ /\ pushFailedMetricName \in DOMAIN old
              /\ result[pushFailedMetricName] = old[pushFailedMetricName]
           \/ /\ pushFailedMetricName \in DOMAIN wr.families
              /\ result[pushFailedMetricName].family = sane.families[pushFailedMetricName]
           \/ result[pushFailedMetricName].family = newTimestampGauge(sane.labels, ZeroTime)
    BY <2>1, <2>2, AcceptMetrics
  <2>5. IsGauge(result[pushMetricName].family)
    BY <2>4, OwnGauge
  <2>6. IsGauge(result[pushFailedMetricName].family)
    BY <2>2, <2>4, <1>3, <1>5, <1>6, OwnGauge DEF pushMetricNames
  <2>7. \A n \in DOMAIN result : n \notin fixedKeyNames
    BY <2>3, <1>3, <1>4, <1>5, <1>6
  <2> QED
    BY <2>5, <2>6, <2>7 DEF PlainGroup, pushMetricNames
<1>7. CASE checkWriteRequest(groups, wr) /\ IsDelete(wr)
  <2>1. new = Drop(groups, {key})
    BY <1>7 DEF Handle, sanitizeRequest, processWriteRequest
  <2> QED
    BY <2>1 DEF Drop, Restrict
<1>8. CASE ~checkWriteRequest(groups, wr)
  <2>1. new = setPushFailedTimestamp(groups, wr)
    BY <1>8 DEF Handle
  <2>2. DOMAIN result \ pushMetricNames = DOMAIN old \ pushMetricNames
    BY <2>1, FailFamilies
  <2>3. /\ \A n \in DOMAIN old \ {pushFailedMetricName} : result[n] = old[n]
        /\ result[pushFailedMetricName].family = newTimestampGauge(wr.labels, wr.timestamp)
        /\ pushMetricName \notin DOMAIN old =>
             result[pushMetricName].family = newTimestampGauge(wr.labels, ZeroTime)
    BY <2>1, FailMetrics
  <2>4. IsGauge(result[pushFailedMetricName].family)
    BY <2>3, OwnGauge
  <2>5. IsGauge(result[pushMetricName].family)
    <3>1. CASE pushMetricName \in DOMAIN old
      <4>1. pushMetricName \in DOMAIN old \ {pushFailedMetricName}
        BY <3>1 DEF pushMetricName, pushFailedMetricName
      <4>2. IsGauge(old[pushMetricName].family)
        BY <3>1, <1>3 DEF pushMetricNames
      <4> QED
        BY <4>1, <4>2, <2>3
    <3>2. CASE pushMetricName \notin DOMAIN old
      BY <3>2, <2>3, OwnGauge
    <3> QED
      BY <3>1, <3>2
  <2>6. \A n \in DOMAIN result : n \notin fixedKeyNames
    BY <2>2, <1>3, <1>4
  <2> QED
    BY <2>4, <2>5, <2>6 DEF PlainGroup, pushMetricNames
<1> QED
  BY <1>6, <1>7, <1>8

-----------------------------------------------------------------------------
(* How handling a request changes the dictionary.                          *)

\* What the entry for the labels of a request says, if there is one.
LEMMA EntryOfRequest ==
  ASSUME KeysDistinct, NEW groups, StoreInv(groups), AllPlain(groups),
         NEW labels \in RequestLabels, NEW key, key = groupingKeyFor(labels),
         NEW d, d = DictOf(groups)
  PROVE  /\ labels \in DOMAIN d <=> key \in DOMAIN groups
         /\ labels \in DOMAIN d =>
              LET metrics == groups[key].metrics IN
              /\ pushMetricNames \subseteq DOMAIN metrics
              /\ d[labels].families = FamiliesShown(metrics)
              /\ d[labels].succeeded = GaugeValue(metrics[pushMetricName].family)
              /\ d[labels].failed = GaugeValue(metrics[pushFailedMetricName].family)
              /\ d[labels].successful = (d[labels].failed <= d[labels].succeeded)
<1>1. labels \in DOMAIN d <=> key \in DOMAIN groups
  BY DictEntries, OwnGroup
<1>2. ASSUME labels \in DOMAIN d PROVE d[labels] = Told(metricResponse(groups[key]))
  BY <1>2, DictEntries
<1>3. ASSUME key \in DOMAIN groups
      PROVE  /\ pushMetricNames \subseteq DOMAIN groups[key].metrics
             /\ PlainGroup(groups[key].metrics)
  BY <1>3 DEF StoreInv, AllPlain
<1> QED
  BY <1>1, <1>2, <1>3, ToldOfGroup

\* Entries for other labels come to no harm, and none appear.
LEMMA OtherEntries ==
  ASSUME KeysDistinct, NEW groups, StoreInv(groups), AllPlain(groups),
         NEW wr \in WriteRequests,
         NEW new, new = Handle(groups, wr), StoreInv(new), AllPlain(new)
  PROVE  /\ \A l \in DOMAIN DictOf(groups) \ {wr.labels} :
              l \in DOMAIN DictOf(new) /\ DictOf(new)[l] = DictOf(groups)[l]
         /\ DOMAIN DictOf(new) \subseteq DOMAIN DictOf(groups) \cup {wr.labels}
<1> PICK key : key = groupingKeyFor(wr.labels)
  OBVIOUS
<1>1. /\ \A k \in DOMAIN groups \ {key} : k \in DOMAIN new /\ new[k] = groups[k]
      /\ DOMAIN new \subseteq DOMAIN groups \cup {key}
  BY HandleOthers
<1>2. wr.labels \in RequestLabels
  BY WriteRequestFields
<1>3. ASSUME NEW l \in DOMAIN DictOf(groups) \ {wr.labels}
      PROVE  l \in DOMAIN DictOf(new) /\ DictOf(new)[l] = DictOf(groups)[l]
  <2> PICK k : k = groupingKeyFor(l)
    OBVIOUS
  <2>1. /\ k \in DOMAIN groups /\ groups[k].labels = l
        /\ DictOf(groups)[l] = Told(metricResponse(groups[k]))
    BY DictEntries
  <2>2. k # key
    BY <2>1, <1>2, OwnGroup
  <2>3. k \in DOMAIN new /\ new[k] = groups[k]
    BY <1>1, <2>1, <2>2
  <2>4. l \in DOMAIN DictOf(new) /\ DictOf(new)[l] = Told(metricResponse(new[k]))
    BY <2>1, <2>3, DictEntries
  <2> QED
    BY <2>1, <2>3, <2>4
<1>4. ASSUME NEW l \in DOMAIN DictOf(new), l # wr.labels
      PROVE  l \in DOMAIN DictOf(groups)
  <2> PICK k : k = groupingKeyFor(l)
    OBVIOUS
  <2>1. k \in DOMAIN new /\ new[k].labels = l
    BY DictEntries
  <2>2. k # key
    BY <2>1, <1>2, <1>4, OwnGroup
  <2>3. k \in DOMAIN groups /\ groups[k].labels = l
    BY <1>1, <2>1, <2>2
  <2> QED
    BY <2>3, DictEntries
<1> QED
  BY <1>3, <1>4

\* The entry for labels is there and shows these families and this time of success;
\* others stay as they are.  (Becomes of RestDictionary, with both dictionaries
\* named.)
EntrySet(d, e, labels, families, succeeded) ==
  /\ DOMAIN e = DOMAIN d \cup {labels}
  /\ \A l \in DOMAIN d \ {labels} : l \in DOMAIN e /\ e[l] = d[l]
  /\ e[labels].families = families
  /\ e[labels].succeeded = succeeded
  /\ e[labels].successful = (e[labels].failed <= succeeded)

\* Handling a push sets the entry for its labels.
LEMMA EntrySetByPush ==
  ASSUME KeysDistinct, NEW groups, StoreInv(groups), AllPlain(groups),
         NEW wr \in WriteRequests,
         NEW new, new = Handle(groups, wr), StoreInv(new), AllPlain(new),
         NEW key, key = groupingKeyFor(wr.labels), key \in DOMAIN new
  PROVE  EntrySet(DictOf(groups), DictOf(new), wr.labels,
                  FamiliesShown(new[key].metrics),
                  GaugeValue(new[key].metrics[pushMetricName].family))
<1>1. wr.labels \in RequestLabels
  BY WriteRequestFields
<1>2. PICK d, e : d = DictOf(groups) /\ e = DictOf(new)
  OBVIOUS
<1>3. wr.labels \in DOMAIN e
  BY <1>1, <1>2, EntryOfRequest
<1>4. /\ e[wr.labels].families = FamiliesShown(new[key].metrics)
      /\ e[wr.labels].succeeded = GaugeValue(new[key].metrics[pushMetricName].family)
      /\ e[wr.labels].successful = (e[wr.labels].failed <= e[wr.labels].succeeded)
  BY <1>1, <1>2, <1>3, EntryOfRequest
<1>5. /\ \A l \in DOMAIN d \ {wr.labels} : l \in DOMAIN e /\ e[l] = d[l]
      /\ DOMAIN e \subseteq DOMAIN d \cup {wr.labels}
  BY <1>2, OtherEntries
<1>6. DOMAIN e = DOMAIN d \cup {wr.labels}
  BY <1>3, <1>5
<1>7. EntrySet(d, e, wr.labels, FamiliesShown(new[key].metrics),
               GaugeValue(new[key].metrics[pushMetricName].family))
  BY <1>4, <1>5, <1>6 DEF EntrySet
<1> QED
  BY <1>2, <1>7

\* A write request is the request of a client with its time.
LEMMA RequestFields ==
  ASSUME NEW c, NEW r, NEW t, NEW wr, wr = WriteRequest(c, r, t)
  PROVE  /\ wr.labels = r.labels /\ wr.families = r.families
         /\ wr.replace = r.replace /\ wr.timestamp = t
         /\ IsDelete(wr) <=> r.families = NoFamilies
BY DEF WriteRequest, IsDelete

\* A family of an accepted push is shown as RestDictionary says.
LEMMA PushedFamilyShown ==
  ASSUME NEW family, NEW labels, NEW t
  PROVE  FamilyResponse([timestamp |-> t, family |-> sanitizeLabels(family, labels)])
           = [time |-> t, metrics |-> Show(family, labels)]
BY ShownFamily DEF FamilyResponse

\* An accepted push has the effect Accept of RestDictionary.
LEMMA AcceptedPushShown ==
  ASSUME KeysDistinct, NEW groups, StoreInv(groups), AllPlain(groups),
         NEW c \in Callers, NEW r \in Requests, NEW t \in Times,
         NEW wr, wr = WriteRequest(c, r, t), wr \in WriteRequests,
         ~IsDelete(wr), checkWriteRequest(groups, wr),
         NEW new, new = Handle(groups, wr), StoreInv(new), AllPlain(new),
         NEW d, d = DictOf(groups), NEW e, e = DictOf(new),
         NEW request, request = Timed(r, t)
  PROVE  /\ EntrySet(d, e, r.labels,
              IF r.replace \/ r.labels \notin DOMAIN d THEN Dictionary!Shown(request)
              ELSE Dictionary!Extended(d[r.labels].families, Dictionary!Shown(request)),
              t)
         /\ \/ pushFailedMetricName \in DOMAIN r.families
            \/ e[r.labels].failed = IF r.labels \in DOMAIN d THEN d[r.labels].failed ELSE 0
<1> PICK key, old, sane : /\ key = groupingKeyFor(r.labels)
                          /\ old = MetricsOf(groups, key)
                          /\ sane = sanitizeRequest(wr)
  OBVIOUS
<1> PICK result : result = new[key].metrics
  OBVIOUS
<1>1. /\ wr.labels = r.labels /\ wr.families = r.families
      /\ wr.replace = r.replace /\ wr.timestamp = t
  BY RequestFields
<1>2. r.labels \in RequestLabels
  BY DEF RequestLabels
<1>3. new = processWriteRequest(groups, sane)
  BY DEF Handle
<1>4. /\ ~IsDelete(sane) /\ sane.labels = r.labels /\ sane.timestamp = t
      /\ DOMAIN sane.families = DOMAIN r.families
  BY <1>1, AcceptedRequest
<1>5. sane.replace = r.replace
  BY <1>1 DEF sanitizeRequest, WriteRequest
<1>6. \A n \in DOMAIN r.families : sane.families[n] = sanitizeLabels(r.families[n], r.labels)
  <2>1. sane.families = [n \in DOMAIN wr.families |-> sanitizeLabels(wr.families[n], wr.labels)]
    BY SanitizedFields
  <2> QED
    BY <2>1, <1>1
<1>7. /\ key \in DOMAIN new
      /\ result[pushMetricName].family = newTimestampGauge(r.labels, t)
      /\ (pushFailedMetricName \in DOMAIN old \ DOMAIN r.families) =>
           result[pushFailedMetricName] = old[pushFailedMetricName]
      /\ (pushFailedMetricName \notin DOMAIN old) =>
           result[pushFailedMetricName].family = newTimestampGauge(r.labels, ZeroTime)
  BY <1>3, <1>4, AcceptMetrics
<1>8. /\ DOMAIN result \ pushMetricNames =
           (DOMAIN r.families \cup IF r.replace THEN {} ELSE DOMAIN old) \ pushMetricNames
      /\ \A n \in DOMAIN r.families \ pushMetricNames :
           result[n] = [timestamp |-> t, family |-> sane.families[n]]
      /\ ~r.replace => \A n \in DOMAIN old \ (pushMetricNames \cup DOMAIN r.families) :
                         result[n] = old[n]
  BY <1>3, <1>4, <1>5, AcceptFamilies
<1>9. GaugeValue(result[pushMetricName].family) = t
  BY <1>7, OwnGaugeValue
<1>10. EntrySet(d, e, r.labels, FamiliesShown(result), t)
  <2>1. EntrySet(DictOf(groups), DictOf(new), wr.labels, FamiliesShown(new[key].metrics),
                 GaugeValue(new[key].metrics[pushMetricName].family))
    BY <1>1, <1>7, EntrySetByPush
  <2> QED
    BY <2>1, <1>1, <1>9
<1>11. /\ r.labels \in DOMAIN d <=> key \in DOMAIN groups
       /\ r.labels \in DOMAIN e
       /\ r.labels \in DOMAIN d =>
            /\ d[r.labels].families = FamiliesShown(groups[key].metrics)
            /\ pushMetricNames \subseteq DOMAIN groups[key].metrics
            /\ d[r.labels].failed
                 = GaugeValue(groups[key].metrics[pushFailedMetricName].family)
       /\ e[r.labels].failed = GaugeValue(result[pushFailedMetricName].family)
  BY <1>2, <1>7, EntryOfRequest
<1>12. /\ key \in DOMAIN groups => old = groups[key].metrics
       /\ key \notin DOMAIN groups => DOMAIN old = {}
  BY DEF MetricsOf
<1> DEFINE shown == Dictionary!Shown(request)
<1>13. /\ DOMAIN shown = DOMAIN r.families \ pushMetricNames
       /\ \A n \in DOMAIN shown : shown[n] = FamilyResponse(result[n])
       /\ shown = [n \in DOMAIN shown |-> shown[n]]
  <2>1. shown = [n \in DOMAIN r.families \ pushMetricNames |->
                  [time |-> t, metrics |-> Show(r.families[n], r.labels)]]
    BY DEF Dictionary!Shown, Timed
  <2>2. ASSUME NEW n \in DOMAIN r.families \ pushMetricNames
        PROVE  FamilyResponse(result[n]) = [time |-> t, metrics |-> Show(r.families[n], r.labels)]
    <3>1. result[n] = [timestamp |-> t, family |-> sanitizeLabels(r.families[n], r.labels)]
      BY <1>6, <1>8
    <3> QED
      BY <3>1, PushedFamilyShown
  <2> QED
    BY <2>1, <2>2
<1> HIDE DEF shown
<1>14. FamiliesShown(result) =
         IF r.replace \/ r.labels \notin DOMAIN d THEN shown
         ELSE Dictionary!Extended(d[r.labels].families, shown)
  <2>1. CASE r.replace \/ r.labels \notin DOMAIN d
    <3>1. DOMAIN result \ pushMetricNames = DOMAIN shown
      BY <2>1, <1>8, <1>11, <1>12, <1>13
    <3> QED
      BY <2>1, <3>1, <1>13 DEF FamiliesShown
  <2>2. CASE ~r.replace /\ r.labels \in DOMAIN d
    <3>1. PICK before : before = d[r.labels].families
      OBVIOUS
    <3>2. old = groups[key].metrics
      BY <2>2, <1>11, <1>12
    <3>3. before = FamiliesShown(old)
      BY <2>2, <3>1, <3>2, <1>11
    <3>4. /\ DOMAIN before = DOMAIN old \ pushMetricNames
          /\ \A n \in DOMAIN before : before[n] = FamilyResponse(old[n])
      BY <3>3 DEF FamiliesShown
    <3>5. DOMAIN result \ pushMetricNames = DOMAIN before \cup DOMAIN shown
      BY <2>2, <3>4, <1>8, <1>13
    <3>6. ASSUME NEW n \in DOMAIN before \cup DOMAIN shown
          PROVE  FamilyResponse(result[n]) = IF n \in DOMAIN shown THEN shown[n] ELSE before[n]
      BY <2>2, <3>4, <1>8, <1>13
    <3>7. FamiliesShown(result) = Dictionary!Extended(before, shown)
      BY <3>5, <3>6 DEF FamiliesShown, Dictionary!Extended
    <3> QED
      BY <2>2, <3>1, <3>7
  <2> QED
    BY <2>1, <2>2
<1>15. \/ pushFailedMetricName \in DOMAIN r.families
       \/ e[r.labels].failed = IF r.labels \in DOMAIN d THEN d[r.labels].failed ELSE 0
  <2> SUFFICES ASSUME pushFailedMetricName \notin DOMAIN r.families
               PROVE  e[r.labels].failed =
                        IF r.labels \in DOMAIN d THEN d[r.labels].failed ELSE 0
    OBVIOUS
  <2>1. CASE r.labels \in DOMAIN d
    <3>1. old = groups[key].metrics /\ pushFailedMetricName \in DOMAIN old
      BY <2>1, <1>11, <1>12 DEF pushMetricNames
    <3>2. result[pushFailedMetricName] = old[pushFailedMetricName]
      BY <3>1, <1>7
    <3> QED
      BY <2>1, <3>1, <3>2, <1>11
  <2>2. CASE r.labels \notin DOMAIN d
    <3>1. pushFailedMetricName \notin DOMAIN old
      BY <2>2, <1>11, <1>12
    <3>2. e[r.labels].failed = ZeroTime
      BY <3>1, <1>7, <1>11, OwnGaugeValue
    <3> QED
      BY <2>2, <3>2 DEF ZeroTime
  <2> QED
    BY <2>1, <2>2
<1> QED
  BY <1>10, <1>14, <1>15 DEF shown

\* A refused push has the effect Refuse of RestDictionary.
LEMMA RefusedPushShown ==
  ASSUME KeysDistinct, NEW groups, StoreInv(groups), AllPlain(groups),
         NEW c \in Callers, NEW r \in Requests, NEW t \in Times,
         NEW wr, wr = WriteRequest(c, r, t), wr \in WriteRequests,
         ~checkWriteRequest(groups, wr),
         NEW new, new = Handle(groups, wr), StoreInv(new), AllPlain(new),
         NEW d, d = DictOf(groups), NEW e, e = DictOf(new)
  PROVE  /\ EntrySet(d, e, r.labels,
              IF r.labels \in DOMAIN d THEN d[r.labels].families ELSE Dictionary!NoFamily,
              IF r.labels \in DOMAIN d THEN d[r.labels].succeeded ELSE 0)
         /\ e[r.labels].failed = t
<1> PICK key, old : key = groupingKeyFor(r.labels) /\ old = MetricsOf(groups, key)
  OBVIOUS
<1> PICK result : result = new[key].metrics
  OBVIOUS
<1>1. wr.labels = r.labels /\ wr.timestamp = t
  BY RequestFields
<1>2. r.labels \in RequestLabels
  BY DEF RequestLabels
<1>3. new = setPushFailedTimestamp(groups, wr)
  BY DEF Handle
<1>4. /\ key \in DOMAIN new
      /\ \A n \in DOMAIN old \ {pushFailedMetricName} : result[n] = old[n]
      /\ result[pushFailedMetricName].family = newTimestampGauge(r.labels, t)
      /\ pushMetricName \notin DOMAIN old =>
           result[pushMetricName].family = newTimestampGauge(r.labels, ZeroTime)
  <2>1. groupingKeyFor(wr.labels) = key
    BY <1>1
  <2>2. key \in DOMAIN new
    BY <2>1, <1>3, FailMetrics
  <2>3. \A n \in DOMAIN old \ {pushFailedMetricName} : new[key].metrics[n] = old[n]
    BY <2>1, <1>3, FailMetrics
  <2>4. new[key].metrics[pushFailedMetricName].family
          = newTimestampGauge(wr.labels, wr.timestamp)
    BY <2>1, <1>3, FailMetrics
  <2>5. pushMetricName \notin DOMAIN old =>
          new[key].metrics[pushMetricName].family = newTimestampGauge(wr.labels, ZeroTime)
    BY <2>1, <1>3, FailMetrics
  <2> QED
    BY <2>2, <2>3, <2>4, <2>5, <1>1
<1>5. /\ DOMAIN result \ pushMetricNames = DOMAIN old \ pushMetricNames
      /\ \A n \in DOMAIN old \ pushMetricNames : result[n] = old[n]
  BY <1>1, <1>3, FailFamilies
<1>6. EntrySet(d, e, r.labels, FamiliesShown(result),
               GaugeValue(result[pushMetricName].family))
  <2>1. EntrySet(DictOf(groups), DictOf(new), wr.labels, FamiliesShown(new[key].metrics),
                 GaugeValue(new[key].metrics[pushMetricName].family))
    BY <1>1, <1>4, EntrySetByPush
  <2> QED
    BY <2>1, <1>1
<1>7. /\ r.labels \in DOMAIN d <=> key \in DOMAIN groups
      /\ r.labels \in DOMAIN d =>
           /\ pushMetricNames \subseteq DOMAIN groups[key].metrics
           /\ d[r.labels].families = FamiliesShown(groups[key].metrics)
           /\ d[r.labels].succeeded = GaugeValue(groups[key].metrics[pushMetricName].family)
  BY <1>2, EntryOfRequest
<1>8. e[r.labels].failed = t
  <2>1. e[r.labels].failed = GaugeValue(result[pushFailedMetricName].family)
    BY <1>2, <1>4, EntryOfRequest
  <2> QED
    BY <2>1, <1>4, OwnGaugeValue
<1>9. CASE r.labels \in DOMAIN d
  <2>1. old = groups[key].metrics
    BY <1>7, <1>9 DEF MetricsOf
  <2>2. FamiliesShown(result) = FamiliesShown(old)
    BY <1>5 DEF FamiliesShown
  <2>3. pushMetricName \in DOMAIN old \ {pushFailedMetricName}
    BY <2>1, <1>7, <1>9 DEF pushMetricNames, pushMetricName, pushFailedMetricName
  <2>4. result[pushMetricName] = old[pushMetricName]
    BY <2>3, <1>4
  <2> QED
    BY <2>1, <2>2, <2>4, <1>6, <1>7, <1>8, <1>9
<1>10. CASE r.labels \notin DOMAIN d
  <2>1. DOMAIN old = {}
    BY <1>7, <1>10 DEF MetricsOf
  <2>2. FamiliesShown(result) = Dictionary!NoFamily
    <3>1. DOMAIN result \ pushMetricNames = {}
      BY <2>1, <1>5
    <3> QED
      BY <3>1 DEF FamiliesShown, Dictionary!NoFamily
  <2>3. GaugeValue(result[pushMetricName].family) = 0
    BY <2>1, <1>4, OwnGaugeValue DEF ZeroTime
  <2> QED
    BY <2>2, <2>3, <1>6, <1>8, <1>10
<1> QED
  BY <1>9, <1>10

\* A delete has the effect Remove of RestDictionary.
LEMMA DeleteShown ==
  ASSUME KeysDistinct, NEW groups, StoreInv(groups), AllPlain(groups),
         NEW wr \in WriteRequests, IsDelete(wr),
         NEW new, new = Handle(groups, wr), StoreInv(new), AllPlain(new),
         NEW d, d = DictOf(groups), NEW e, e = DictOf(new)
  PROVE  /\ DOMAIN e = DOMAIN d \ {wr.labels}
         /\ \A l \in DOMAIN d \ {wr.labels} : l \in DOMAIN e /\ e[l] = d[l]
<1> PICK key : key = groupingKeyFor(wr.labels)
  OBVIOUS
<1>1. new = Drop(groups, {key})
  BY DEF Handle, checkWriteRequest, sanitizeRequest, processWriteRequest, IsDelete
<1>2. key \notin DOMAIN new
  BY <1>1 DEF Drop, Restrict
<1>3. wr.labels \notin DOMAIN e
  BY <1>2, DictEntries
<1>4. /\ \A l \in DOMAIN d \ {wr.labels} : l \in DOMAIN e /\ e[l] = d[l]
      /\ DOMAIN e \subseteq DOMAIN d \cup {wr.labels}
  BY OtherEntries
<1>5. DOMAIN e = DOMAIN d \ {wr.labels}
  BY <1>3, <1>4
<1> QED
  BY <1>4, <1>5

-----------------------------------------------------------------------------
(* The queue.                                                              *)

Entry == [request : Requests, time : Times]

\* Each write request in the queue is what its client means.
QueuedAsMeant ==
  /\ meant \in Seq(Entry)
  /\ Len(meant) = Len(submitted)
  /\ \A i \in 1 .. Len(submitted) : \E c \in Callers :
       submitted[i] = WriteRequest(c, meant[i].request, meant[i].time)

\* No step breaks this.
LEMMA QueuedAsMeantStep ==
  ASSUME MeantAsParsed, TypeOK, QueuedAsMeant, [HttpNext]_httpVars
  PROVE  QueuedAsMeant'
<1>1. submitted \in Seq(WriteRequests) /\ meant \in Seq(Entry) /\ Len(meant) = Len(submitted)
  BY DEF TypeOK, QueuedAsMeant
<1>2. ASSUME NEW c \in Callers, NEW q \in HttpRequests, NEW t \in Times, Serve(c, q, t)
      PROVE  QueuedAsMeant'
  <2> PICK r : r = Request(q)
    OBVIOUS
  <2> PICK x : x = [request |-> r, time |-> t]
    OBVIOUS
  <2>1. r \in Requests /\ q.meant = r
    BY <1>2, SubmissionsAssumption DEF Serve, MeantAsParsed
  <2>2. x \in Entry /\ x.request = r /\ x.time = t
    BY <2>1 DEF Entry
  <2> PICK wr : wr = WriteRequest(c, r, t)
    OBVIOUS
  <2>3. wr \in WriteRequests
    BY <2>1 DEF WriteRequests
  <2>4. submitted' = Append(submitted, wr) /\ meant' = Append(meant, x)
    BY <1>2, <2>1 DEF Serve, SubmitWriteRequest
  <2>5. /\ meant' \in Seq(Entry)
        /\ Len(meant') = Len(meant) + 1
        /\ Len(submitted') = Len(submitted) + 1
    BY <1>1, <2>2, <2>3, <2>4
  <2>6. ASSUME NEW i \in 1 .. Len(submitted')
        PROVE  \E b \in Callers :
                 submitted'[i] = WriteRequest(b, meant'[i].request, meant'[i].time)
    <3>1. CASE i = Len(submitted) + 1
      <4>1. submitted'[i] = wr /\ meant'[i] = x
        BY <3>1, <1>1, <2>2, <2>3, <2>4
      <4> QED
        BY <4>1, <2>2
    <3>2. CASE i # Len(submitted) + 1
      <4>1. i \in 1 .. Len(submitted)
        BY <3>2, <1>1, <2>5
      <4>2. submitted'[i] = submitted[i] /\ meant'[i] = meant[i]
        BY <4>1, <1>1, <2>2, <2>3, <2>4
      <4> QED
        BY <4>1, <4>2 DEF QueuedAsMeant
    <3> QED
      BY <3>1, <3>2
  <2> QED
    BY <1>1, <2>5, <2>6 DEF QueuedAsMeant
<1>3. CASE HandleNext
  <2>1. submitted # <<>> /\ submitted' = Tail(submitted) /\ meant' = Tail(meant)
    BY <1>3 DEF HandleNext, HandleRequest
  <2>2. /\ meant # <<>> /\ meant' \in Seq(Entry)
        /\ Len(submitted') = Len(submitted) - 1
        /\ Len(meant') = Len(meant) - 1
    BY <1>1, <2>1
  <2>3. ASSUME NEW i \in 1 .. Len(submitted')
        PROVE  \E b \in Callers :
                 submitted'[i] = WriteRequest(b, meant'[i].request, meant'[i].time)
    <3>1. /\ i + 1 \in 1 .. Len(submitted)
          /\ submitted'[i] = submitted[i + 1] /\ meant'[i] = meant[i + 1]
      BY <1>1, <2>1, <2>2
    <3> QED
      BY <3>1 DEF QueuedAsMeant
  <2> QED
    BY <1>1, <2>2, <2>3 DEF QueuedAsMeant
<1>4. CASE UNCHANGED <<submitted, meant>>
  BY <1>4 DEF QueuedAsMeant
<1>5. ASSUME NEW q \in HttpRequests, BadRequest(q) PROVE UNCHANGED <<submitted, meant>>
  BY <1>5 DEF BadRequest, vars
<1>6. ASSUME NEW c \in Callers, Reply(c), UNCHANGED <<meant, ignored>>
      PROVE  UNCHANGED <<submitted, meant>>
  BY <1>6 DEF Reply
<1>7. CASE UNCHANGED httpVars
  BY <1>4, <1>7 DEF httpVars, vars
<1> QED
  BY <1>2, <1>3, <1>4, <1>5, <1>6, <1>7 DEF HttpNext

\* The requests of RestDictionary that entries stand for.
PendingOf(entries) == [i \in DOMAIN entries |-> AsMeant(entries[i])]

\* An entry of the queue is a request with its time, and means something.
LEMMA EntryIsTimed ==
  ASSUME NoMeaningApart, NEW x \in Entry
  PROVE  AsMeant(x) = Timed(x.request, x.time) /\ AsMeant(x) # NoMeaning
BY DEF NoMeaningApart, AsMeant, Timed, Entry

\* A request that is submitted is appended to those pending.
LEMMA PendingAppended ==
  ASSUME NEW m \in Seq(Entry), NEW x \in Entry, NEW p, p = PendingOf(m),
         NEW p1, p1 = PendingOf(Append(m, x))
  PROVE  /\ p1 = Append(p, AsMeant(x))
         /\ Len(p1) > Len(p)
         /\ p1[Len(p1)] = AsMeant(x)
<1> PICK m1, n, y : m1 = Append(m, x) /\ n = Len(m) /\ y = AsMeant(x)
  OBVIOUS
<1>1. /\ m1 \in Seq(Entry) /\ n \in Nat /\ DOMAIN m = 1 .. n
      /\ DOMAIN m1 = 1 .. (n + 1) /\ m1[n + 1] = x
      /\ \A i \in 1 .. n : m1[i] = m[i]
  OBVIOUS
<1>2. PICK S : S = {AsMeant(e) : e \in Entry}
  OBVIOUS
<1>3. /\ p \in Seq(S) /\ Len(p) = n /\ y \in S
      /\ \A i \in 1 .. n : p[i] = AsMeant(m[i])
  <2>1. p = [i \in 1 .. n |-> AsMeant(m[i])]
    BY <1>1 DEF PendingOf
  <2>2. \A i \in 1 .. n : AsMeant(m[i]) \in S
    BY <1>1, <1>2
  <2> QED
    BY <2>1, <2>2, <1>1, <1>2
<1>4. p1 = [i \in 1 .. (n + 1) |-> AsMeant(m1[i])]
  BY <1>1 DEF PendingOf
<1>5. /\ Append(p, y) = [i \in 1 .. (n + 1) |-> Append(p, y)[i]]
      /\ \A i \in 1 .. n : Append(p, y)[i] = p[i]
      /\ Append(p, y)[n + 1] = y
  <2>1. PICK a : a = Append(p, y)
    OBVIOUS
  <2>2. a \in Seq(S) /\ Len(a) = n + 1
    BY <2>1, <1>1, <1>3
  <2>3. a = [i \in 1 .. (n + 1) |-> a[i]]
    BY <2>2
  <2>4. (\A i \in 1 .. n : a[i] = p[i]) /\ a[n + 1] = y
    BY <2>1, <1>1, <1>3
  <2> QED
    BY <2>1, <2>3, <2>4
<1>6. \A i \in 1 .. (n + 1) : p1[i] = Append(p, y)[i]
  <2>1. \A i \in 1 .. n : p1[i] = Append(p, y)[i]
    BY <1>1, <1>3, <1>4, <1>5
  <2>2. p1[n + 1] = Append(p, y)[n + 1]
    BY <1>1, <1>4, <1>5
  <2>3. \A i \in 1 .. (n + 1) : i \in 1 .. n \/ i = n + 1
    BY <1>1
  <2> QED
    BY <2>1, <2>2, <2>3
<1>7. p1 = Append(p, y)
  BY <1>4, <1>5, <1>6
<1>8. Len(p1) = n + 1
  BY <1>7, <1>3
<1> QED
  BY <1>1, <1>3, <1>5, <1>7, <1>8

\* The oldest request is the first of those pending.
LEMMA PendingTaken ==
  ASSUME NEW m \in Seq(Entry), m # <<>>, NEW p, p = PendingOf(m)
  PROVE  /\ p # <<>>
         /\ PendingOf(Tail(m)) = Tail(p)
         /\ Head(p) = AsMeant(m[1])
<1> PICK n : n = Len(m)
  OBVIOUS
<1>1. n \in Nat \ {0} /\ DOMAIN m = 1 .. n
  OBVIOUS
<1>2. p = [i \in 1 .. n |-> AsMeant(m[i])]
  BY <1>1 DEF PendingOf
<1>3. PICK S : S = {AsMeant(e) : e \in Entry}
  OBVIOUS
<1>4. p \in Seq(S) /\ Len(p) = n
  <2>1. \A i \in 1 .. n : AsMeant(m[i]) \in S
    BY <1>1, <1>3
  <2> QED
    BY <2>1, <1>1, <1>2
<1>5. p # <<>> /\ Head(p) = AsMeant(m[1])
  BY <1>1, <1>2, <1>4
<1>6. /\ DOMAIN Tail(m) = 1 .. (n - 1)
      /\ \A i \in 1 .. (n - 1) : Tail(m)[i] = m[i + 1]
  BY <1>1
<1>7. PendingOf(Tail(m)) = [i \in 1 .. (n - 1) |-> AsMeant(m[i + 1])]
  BY <1>6 DEF PendingOf
<1>8. Tail(p) = [i \in 1 .. (n - 1) |-> p[i + 1]]
  <2>1. PICK q : q = Tail(p)
    OBVIOUS
  <2>2. q \in Seq(S) /\ Len(q) = n - 1
    BY <2>1, <1>1, <1>4
  <2>3. q = [i \in 1 .. (n - 1) |-> q[i]]
    BY <2>2
  <2>4. \A i \in 1 .. (n - 1) : q[i] = p[i + 1]
    BY <2>1, <1>1, <1>4
  <2> QED
    BY <2>1, <2>3, <2>4
<1>9. \A i \in 1 .. (n - 1) : p[i + 1] = AsMeant(m[i + 1])
  BY <1>1, <1>2
<1> QED
  BY <1>5, <1>7, <1>8, <1>9

-----------------------------------------------------------------------------
(* Each step is one of the dictionary.                                     *)

\* The inductive invariant.
ApiInv ==
  TypeOK /\ StoreInv(metricGroups) /\ AllPlain(metricGroups) /\ QueuedAsMeant

\* It holds initially.
LEMMA ApiInvInit == DictionaryHypotheses /\ HttpInit => ApiInv
<1> SUFFICES ASSUME HttpInit PROVE ApiInv
  OBVIOUS
<1>1. TypeOK
  BY BoundsAssumption DEF HttpInit, Init, TypeOK, EmptyStore
<1>2. DOMAIN metricGroups = {}
  BY DEF HttpInit, Init, EmptyStore
<1>3. StoreInv(metricGroups) /\ AllPlain(metricGroups)
  BY <1>2 DEF StoreInv, AllPlain
<1>4. QueuedAsMeant
  BY DEF HttpInit, Init, QueuedAsMeant
<1> QED
  BY <1>1, <1>3, <1>4 DEF ApiInv

\* Every step preserves it.
LEMMA ApiInvStep ==
  ASSUME DictionaryHypotheses, ApiInv, [HttpNext]_httpVars, [Next]_vars
  PROVE  ApiInv'
<1>1. TypeOK' /\ QueuedAsMeant'
  BY TypeOKInductive, QueuedAsMeantStep, SaidIsParsed DEF ApiInv, DictionaryHypotheses
<1>2. StoreInv(metricGroups') /\ AllPlain(metricGroups')
  <2>1. CASE HandleRequest
    <3>1. /\ Head(submitted) \in WriteRequests
          /\ metricGroups' = Handle(metricGroups, Head(submitted))
      BY <2>1, HeadOfSubmitted DEF HandleRequest, ApiInv, TypeOK
    <3>2. KeysDistinct /\ PlainlyPushed
      BY DEF DictionaryHypotheses
    <3>3. StoreInv(metricGroups) /\ AllPlain(metricGroups)
      BY DEF ApiInv
    <3> QED
      BY <3>1, <3>2, <3>3, HandleInv, StaysPlain
  <2>2. CASE UNCHANGED metricGroups
    BY <2>2 DEF ApiInv
  <2> QED
    BY <2>1, <2>2 DEF Next, SubmitWriteRequest, Reply, vars
<1> QED
  BY <1>1, <1>2 DEF ApiInv

\* pending is what the queue stands for, before and after a step.
LEMMA PendingIs ==
  pending = PendingOf(meant) /\ pending' = PendingOf(meant')
BY DEF pending, PendingOf

\* Submitting is asking.
LEMMA ServeAsks ==
  ASSUME DictionaryHypotheses, ApiInv,
         NEW c \in Callers, NEW q \in HttpRequests, NEW t \in Times, Serve(c, q, t)
  PROVE  Dictionary!DictNext
<1> PICK x : x = [request |-> q.meant, time |-> t]
  OBVIOUS
<1>1. Request(q) \in Requests /\ q.meant = Request(q)
  BY SubmissionsAssumption, SaidIsParsed DEF Serve, DictionaryHypotheses, MeantAsParsed
<1>2. x \in Entry /\ meant \in Seq(Entry) /\ meant' = Append(meant, x)
  BY <1>1 DEF Entry, Serve, ApiInv, QueuedAsMeant
<1>3. /\ pending' = Append(pending, AsMeant(x))
      /\ Len(pending') > Len(pending)
      /\ pending'[Len(pending')] = AsMeant(x)
  <2> PICK p, p1 : p = PendingOf(meant) /\ p1 = PendingOf(Append(meant, x))
    OBVIOUS
  <2>1. pending = p /\ pending' = p1
    BY <1>2, PendingIs
  <2>2. p1 = Append(p, AsMeant(x)) /\ Len(p1) > Len(p) /\ p1[Len(p1)] = AsMeant(x)
    BY <1>2, PendingAppended
  <2> QED
    BY <2>1, <2>2
<1>4. AsMeant(x) # NoMeaning
  BY <1>2, EntryIsTimed DEF DictionaryHypotheses
<1>5. UNCHANGED <<dict, ignored>>
  <2>1. metricGroups' = metricGroups /\ ignored' = ignored
    BY DEF Serve, SubmitWriteRequest
  <2> QED
    BY <2>1, DictIsOfGroups
<1>6. Dictionary!Ask(pending'[Len(pending')])
  BY <1>3, <1>4, <1>5 DEF Dictionary!Ask
<1> QED
  BY <1>3, <1>6 DEF Dictionary!DictNext

\* Handling the oldest request is its effect.
LEMMA HandlingTakesEffect ==
  ASSUME DictionaryHypotheses, ApiInv, ApiInv', HandleNext
  PROVE  Dictionary!DictNext
<1> PICK groups, new : groups = metricGroups /\ new = metricGroups'
  OBVIOUS
<1> PICK d, e : d = DictOf(groups) /\ e = DictOf(new)
  OBVIOUS
<1>1. d = dict /\ e = dict'
  BY DictIsOfGroups
<1> PICK wr, r, t, request : /\ wr = Head(submitted)
                            /\ r = meant[1].request /\ t = meant[1].time
                            /\ request = Timed(r, t)
  OBVIOUS
<1>2. /\ submitted \in Seq(WriteRequests) /\ submitted # <<>>
      /\ meant \in Seq(Entry) /\ Len(meant) = Len(submitted)
      /\ meant' = Tail(meant) /\ ignored' = ignored
      /\ new = Handle(groups, wr)
  BY DEF HandleNext, HandleRequest, ApiInv, TypeOK, QueuedAsMeant
<1>3. /\ meant # <<>> /\ meant[1] \in Entry
      /\ 1 \in 1 .. Len(submitted) /\ wr = submitted[1]
      /\ wr \in WriteRequests
  BY <1>2
<1>4. r \in Requests /\ t \in Times
  BY <1>3 DEF Entry
<1>5. PICK c \in Callers : wr = WriteRequest(c, r, t)
  BY <1>3 DEF ApiInv, QueuedAsMeant
<1>6. /\ wr.labels = r.labels
      /\ IsDelete(wr) <=> r.families = NoFamilies
  BY <1>5, RequestFields
<1>7. /\ pending # <<>> /\ pending' = Tail(pending)
      /\ Head(pending) = request
  <2> PICK p : p = PendingOf(meant)
    OBVIOUS
  <2>1. p # <<>> /\ PendingOf(Tail(meant)) = Tail(p) /\ Head(p) = AsMeant(meant[1])
    BY <1>2, <1>3, PendingTaken
  <2>2. AsMeant(meant[1]) = request
    BY <1>3, EntryIsTimed DEF DictionaryHypotheses
  <2>3. pending = p /\ pending' = PendingOf(Tail(meant))
    BY <1>2, PendingIs
  <2> QED
    BY <2>1, <2>2, <2>3
<1>8. /\ request.labels = r.labels /\ request.families = r.families
      /\ request.replace = r.replace /\ request.time = t
  BY DEF Timed
<1>9. KeysDistinct
  BY DEF DictionaryHypotheses
<1>10. /\ StoreInv(groups) /\ AllPlain(groups)
       /\ StoreInv(new) /\ AllPlain(new)
  BY DEF ApiInv
<1>11. CASE IsDelete(wr)
  <2>1. /\ DOMAIN e = DOMAIN d \ {r.labels}
        /\ \A l \in DOMAIN d \ {r.labels} : l \in DOMAIN e /\ e[l] = d[l]
    <3>1. new = Handle(groups, wr) /\ wr \in WriteRequests
      BY <1>2, <1>3
    <3>2. /\ DOMAIN e = DOMAIN d \ {wr.labels}
          /\ \A l \in DOMAIN d \ {wr.labels} : l \in DOMAIN e /\ e[l] = d[l]
      BY <3>1, <1>9, <1>10, <1>11, DeleteShown
    <3> QED
      BY <3>2, <1>6
  <2>2. Dictionary!Remove(request)
    BY <2>1, <1>1, <1>6, <1>8, <1>11 DEF Dictionary!Remove, Dictionary!Untouched
  <2> QED
    BY <2>2, <1>2, <1>7 DEF Dictionary!DictNext, Dictionary!TakeEffect
<1>12. CASE ~IsDelete(wr) /\ checkWriteRequest(groups, wr)
  <2> PICK families : families =
        IF r.replace \/ r.labels \notin DOMAIN d THEN Dictionary!Shown(request)
        ELSE Dictionary!Extended(d[r.labels].families, Dictionary!Shown(request))
    OBVIOUS
  <2>1. /\ EntrySet(d, e, r.labels, families, t)
        /\ \/ pushFailedMetricName \in DOMAIN r.families
           \/ e[r.labels].failed = IF r.labels \in DOMAIN d THEN d[r.labels].failed ELSE 0
    BY <1>2, <1>3, <1>4, <1>5, <1>9, <1>10, <1>12, AcceptedPushShown
  <2>2. Dictionary!Becomes(r.labels, families, t)
    BY <2>1, <1>1 DEF EntrySet, Dictionary!Becomes, Dictionary!Untouched
  <2>3. Dictionary!Accept(request)
    BY <2>1, <2>2, <1>1, <1>6, <1>8, <1>12 DEF Dictionary!Accept, Dictionary!Known
  <2> QED
    BY <2>3, <1>2, <1>7 DEF Dictionary!DictNext, Dictionary!TakeEffect
<1>13. CASE ~IsDelete(wr) /\ ~checkWriteRequest(groups, wr)
  <2> PICK families, succeeded :
        /\ families =
             IF r.labels \in DOMAIN d THEN d[r.labels].families ELSE Dictionary!NoFamily
        /\ succeeded = IF r.labels \in DOMAIN d THEN d[r.labels].succeeded ELSE 0
    OBVIOUS
  <2>1. EntrySet(d, e, r.labels, families, succeeded) /\ e[r.labels].failed = t
    BY <1>2, <1>3, <1>4, <1>5, <1>9, <1>10, <1>13, RefusedPushShown
  <2>2. Dictionary!Becomes(r.labels, families, succeeded)
    BY <2>1, <1>1 DEF EntrySet, Dictionary!Becomes, Dictionary!Untouched
  <2>3. Dictionary!Refuse(request)
    BY <2>1, <2>2, <1>1, <1>6, <1>8, <1>13 DEF Dictionary!Refuse, Dictionary!Known
  <2> QED
    BY <2>3, <1>2, <1>7 DEF Dictionary!DictNext, Dictionary!TakeEffect
<1> QED
  BY <1>11, <1>12, <1>13

\* Every step is one of the dictionary, or leaves it alone.
LEMMA StepServesDictionary ==
  ASSUME DictionaryHypotheses, ApiInv, ApiInv', [HttpNext]_httpVars
  PROVE  [Dictionary!DictNext]_(Dictionary!dictVars)
<1>1. ASSUME metricGroups' = metricGroups, meant' = meant
      PROVE  UNCHANGED <<dict, pending>>
  BY <1>1, DictIsOfGroups, PendingIs
<1>2. ASSUME NEW c \in Callers, NEW q \in HttpRequests, NEW t \in Times, Serve(c, q, t)
      PROVE  Dictionary!DictNext
  BY <1>2, ServeAsks
<1>3. ASSUME NEW q \in HttpRequests, BadRequest(q)
      PROVE  Dictionary!DictNext
  <2>1. metricGroups' = metricGroups /\ meant' = meant
    BY <1>3 DEF BadRequest, vars
  <2>2. ignored' = NoMeaning
    BY <1>3, SaidIsParsed DEF BadRequest, DictionaryHypotheses, MeantAsParsed
  <2> QED
    BY <2>1, <2>2, <1>1 DEF Dictionary!DictNext, Dictionary!Ignore
<1>4. CASE HandleNext
  BY <1>4, HandlingTakesEffect
<1>5. ASSUME NEW c \in Callers, Reply(c), UNCHANGED <<meant, ignored>>
      PROVE  UNCHANGED Dictionary!dictVars
  BY <1>1, <1>5 DEF Reply, Dictionary!dictVars
<1>6. CASE UNCHANGED httpVars
  BY <1>1, <1>6 DEF httpVars, vars, Dictionary!dictVars
<1> QED
  BY <1>2, <1>3, <1>4, <1>5, <1>6 DEF HttpNext

\* Whatever requests come in, in whatever order, what the JSON objects of the API say
\* is the dictionary that the README promises: PUT replaces, POST merges, DELETE
\* removes, and a refused push sets the failure time only.  This holds if grouping
\* keys are unique, no families are pushed under the names of the fixed keys, a
\* pushed failure time is a gauge, and each request properly says what is meant or
\* else is one that is refused as malformed.
THEOREM ApiServesDictionary == DictionaryHypotheses => (HttpSpec => ServesDictionary)
<1> SUFFICES ASSUME DictionaryHypotheses PROVE HttpSpec => ServesDictionary
  OBVIOUS
<1>1. HttpInit => ApiInv
  BY ApiInvInit
<1>2. ApiInv /\ [HttpNext]_httpVars /\ [Next]_vars => ApiInv'
  BY ApiInvStep
<1>3. ApiInv /\ ApiInv' /\ [HttpNext]_httpVars => [Dictionary!DictNext]_(Dictionary!dictVars)
  BY StepServesDictionary
<1>4. HttpInit => Dictionary!DictInit
  <2> SUFFICES ASSUME HttpInit PROVE Dictionary!DictInit
    OBVIOUS
  <2>1. dict = [l \in {} |-> l]
    <3>1. Range(metricGroups) = {}
      BY DEF HttpInit, Init, EmptyStore, Range
    <3>2. {metricResponse(group)["labels"] : group \in Range(metricGroups)} = {}
      BY <3>1
    <3> QED
      BY <3>2 DEF dict
  <2>2. pending = <<>>
    BY DEF HttpInit, pending
  <2>3. ignored = NoMeaning
    BY DEF HttpInit
  <2> QED
    BY <2>1, <2>2, <2>3 DEF Dictionary!DictInit
<1> QED
  BY <1>1, <1>2, <1>3, <1>4, HttpImplementsStore, PTL
     DEF HttpSpec, Spec, ServesDictionary, Dictionary!DictSpec

-----------------------------------------------------------------------------
(* The buckets of native histograms: what a list of them keeps.            *)

\* The buckets that the library's iterators yield.
Buckets ==
  [lower : Int, upper : Int, lowerInclusive : BOOLEAN, upperInclusive : BOOLEAN, count : Nat]

\* kept has, in their order, the buckets of s up to place k that are not empty; they
\* are at the places p.
KeptFrom(p, kept, s, k) ==
  /\ p \in Seq(1 .. k) /\ Len(p) = Len(kept)
  /\ \A i \in 1 .. Len(p) : kept[i] = s[p[i]] /\ s[p[i]].count # 0
  /\ \A i, j \in 1 .. Len(p) : i < j => p[i] < p[j]
  /\ \A j \in 1 .. k : s[j].count # 0 => \E i \in 1 .. Len(p) : p[i] = j

Keeps(kept, s, k) == kept \in Seq(Buckets) /\ \E p : KeptFrom(p, kept, s, k)

\* Going on by one bucket.
LEMMA KeepsOneMore ==
  ASSUME NEW s \in Seq(Buckets), NEW k \in 1 .. Len(s), NEW kept, Keeps(kept, s, k - 1),
         NEW piece, piece = IF s[k].count # 0 THEN <<s[k]>> ELSE <<>>,
         NEW more, more = kept \o piece
  PROVE  Keeps(more, s, k)
<1>1. PICK p : KeptFrom(p, kept, s, k - 1)
  BY DEF Keeps
<1>2. PICK m \in Nat : m = Len(p)
  BY <1>1 DEF KeptFrom
<1>3. kept \in Seq(Buckets) /\ Len(kept) = m /\ p \in Seq(1 .. (k - 1))
  BY <1>1, <1>2 DEF Keeps, KeptFrom
<1>4. k \in Nat /\ k >= 1 /\ 1 .. k = (1 .. (k - 1)) \cup {k}
  OBVIOUS
<1>5. PICK b \in Buckets : b = s[k]
  OBVIOUS
<1>6. CASE b.count = 0
  <2>1. more = kept
    BY <1>3, <1>5, <1>6
  <2>2. p \in Seq(1 .. k)
    <3>1. \A i \in 1 .. Len(p) : p[i] \in 1 .. k
      BY <1>3, <1>4
    <3> QED
      BY <3>1, <1>3
  <2>3. KeptFrom(p, kept, s, k)
    BY <1>1, <1>4, <1>5, <1>6, <2>2 DEF KeptFrom
  <2> QED
    BY <2>1, <2>3, <1>3 DEF Keeps
<1>7. CASE b.count # 0
  <2>1. more = Append(kept, b)
    <3>1. piece = <<b>>
      BY <1>5, <1>7
    <3>2. \A q \in Seq(Buckets) : q \o <<b>> = Append(q, b)
      OBVIOUS
    <3> QED
      BY <3>1, <3>2, <1>3
  <2>2. /\ more \in Seq(Buckets) /\ Len(more) = m + 1
        /\ more[m + 1] = b /\ \A i \in 1 .. m : more[i] = kept[i]
    <3>1. more \in Seq(Buckets)
      BY <2>1, <1>3
    <3>2. Len(more) = m + 1 /\ more[m + 1] = b
      <4>1. \A q \in Seq(Buckets) : /\ Len(Append(q, b)) = Len(q) + 1
                                    /\ Append(q, b)[Len(q) + 1] = b
        OBVIOUS
      <4> QED
        BY <4>1, <2>1, <1>3
    <3>3. ASSUME NEW i \in 1 .. m PROVE more[i] = kept[i]
      BY <2>1, <1>3
    <3> QED
      BY <3>1, <3>2, <3>3
  <2>3. PICK r : r = Append(p, k)
    OBVIOUS
  <2>4. /\ Len(r) = m + 1 /\ r[m + 1] = k
        /\ \A i \in 1 .. m : r[i] = p[i] /\ r[i] \in 1 .. (k - 1)
    BY <2>3, <1>2, <1>3
  <2>5. r \in Seq(1 .. k)
    <3>1. p \in Seq(1 .. k)
      <4>1. \A i \in 1 .. Len(p) : p[i] \in 1 .. k
        BY <1>3, <1>4
      <4> QED
        BY <4>1, <1>3
    <3> QED
      BY <3>1, <2>3, <1>4
  <2>6. ASSUME NEW i \in 1 .. Len(r)
        PROVE  more[i] = s[r[i]] /\ s[r[i]].count # 0
    <3>1. CASE i = m + 1
      BY <3>1, <2>2, <2>4, <1>5, <1>7
    <3>2. CASE i # m + 1
      <4>1. i \in 1 .. m
        BY <3>2, <2>4
      <4> QED
        BY <4>1, <2>2, <2>4, <1>1, <1>2 DEF KeptFrom
    <3> QED
      BY <3>1, <3>2
  <2>7. ASSUME NEW i \in 1 .. Len(r), NEW j \in 1 .. Len(r), i < j
        PROVE  r[i] < r[j]
    <3>1. i \in 1 .. m
      BY <2>4, <2>7
    <3>2. CASE j = m + 1
      <4>1. r[i] \in 1 .. (k - 1) /\ r[j] = k
        BY <3>1, <3>2, <2>4
      <4> QED
        BY <4>1, <1>4
    <3>3. CASE j # m + 1
      <4>1. j \in 1 .. m
        BY <3>3, <2>4
      <4>2. p[i] < p[j]
        BY <4>1, <3>1, <2>7, <1>1, <1>2 DEF KeptFrom
      <4> QED
        BY <4>1, <4>2, <3>1, <2>4
    <3> QED
      BY <3>2, <3>3
  <2>8. ASSUME NEW j \in 1 .. k, s[j].count # 0
        PROVE  \E i \in 1 .. Len(r) : r[i] = j
    <3>1. CASE j = k
      <4>1. m + 1 \in 1 .. Len(r)
        BY <2>4
      <4> QED
        BY <4>1, <3>1, <2>4
    <3>2. CASE j # k
      <4>1. j \in 1 .. (k - 1)
        BY <3>2, <1>4
      <4>2. PICK i \in 1 .. m : p[i] = j
        BY <4>1, <2>8, <1>1, <1>2 DEF KeptFrom
      <4>3. i \in 1 .. Len(r) /\ r[i] = j
        BY <4>2, <2>4
      <4> QED
        BY <4>3
    <3> QED
      BY <3>1, <3>2
  <2>9. Len(r) = Len(more)
    BY <2>2, <2>4
  <2>10. KeptFrom(r, more, s, k)
    BY <2>5, <2>6, <2>7, <2>8, <2>9 DEF KeptFrom
  <2> QED
    BY <2>2, <2>10 DEF Keeps
<1> QED
  BY <1>5, <1>6, <1>7

\* Occupied keeps, in their order, just the buckets that are not empty.
LEMMA OccupiedKeeps ==
  ASSUME NEW s \in Seq(Buckets)
  PROVE  Keeps(Occupied(s), s, Len(s))
<1>1. PICK n \in Nat : n = Len(s)
  OBVIOUS
<1>2. PICK t : t = [i \in DOMAIN s |-> IF s[i].count # 0 THEN <<s[i]>> ELSE <<>>]
  OBVIOUS
<1>3. Occupied(s) = FlattenSeq(t)
  BY <1>2 DEF Occupied
<1>4. /\ DOMAIN s = 1 .. n /\ Len(t) = n
      /\ t = [i \in 1 .. n |-> IF s[i].count # 0 THEN <<s[i]>> ELSE <<>>]
      /\ \A i \in 1 .. n : t[i] = IF s[i].count # 0 THEN <<s[i]>> ELSE <<>>
  BY <1>1, <1>2
<1>5. Keeps(<<>>, s, 0)
  <2>1. KeptFrom(<<>>, <<>>, s, 0)
    BY DEF KeptFrom
  <2> QED
    BY <2>1 DEF Keeps
<1>6. CASE n = 0
  <2>1. FlattenSeq(t) = t
    BY <1>4, <1>6 DEF FlattenSeq
  <2>2. t = <<>>
    BY <1>4, <1>6
  <2> QED
    BY <2>1, <2>2, <1>1, <1>3, <1>5, <1>6
<1>7. CASE n # 0
  <2>1. PICK f : Concatenates(f, t, n) /\ FlattenSeq(t) = f[n]
    BY <1>4, <1>7, Flattened
  <2> DEFINE Bad == {k \in 1 .. n : ~Keeps(f[k], s, k)}
  <2>2. ASSUME NEW k \in 1 .. n, k = 1 \/ Keeps(f[k - 1], s, k - 1)
        PROVE  Keeps(f[k], s, k)
    <3>1. f[k] = IF k = 1 THEN t[k] ELSE f[k - 1] \o t[k]
      BY <2>1 DEF Concatenates
    <3>2. t[k] = IF s[k].count # 0 THEN <<s[k]>> ELSE <<>>
      BY <1>4
    <3>3. k \in 1 .. Len(s) /\ s[k] \in Buckets
      BY <1>1
    <3>4. CASE k = 1
      <4>1. t[k] \in Seq(Buckets)
        BY <3>2, <3>3
      <4>2. f[k] = <<>> \o t[k]
        BY <4>1, <3>1, <3>4
      <4>3. Keeps(<<>>, s, k - 1)
        BY <1>5, <3>4
      <4> QED
        BY <4>2, <4>3, <3>2, <3>3, KeepsOneMore
    <3>5. CASE k # 1
      <4>1. f[k] = f[k - 1] \o t[k]
        BY <3>1, <3>5
      <4>2. Keeps(f[k - 1], s, k - 1)
        BY <2>2, <3>5
      <4> QED
        BY <4>1, <4>2, <3>2, <3>3, KeepsOneMore
    <3> QED
      BY <3>4, <3>5
  <2>3. Bad = {}
    <3> SUFFICES ASSUME Bad # {} PROVE FALSE
      OBVIOUS
    <3>1. Bad \subseteq Nat
      OBVIOUS
    <3>2. PICK k \in Bad : \A j \in Bad : k <= j
      BY <3>1, LeastNatural
    <3>3. k \in 1 .. n /\ ~Keeps(f[k], s, k) /\ k - 1 \notin Bad
      BY <3>2
    <3>4. k = 1 \/ Keeps(f[k - 1], s, k - 1)
      BY <3>3
    <3> QED
      BY <3>3, <3>4, <2>2
  <2>4. Keeps(f[n], s, n)
    BY <2>3, <1>7
  <2> QED
    BY <2>1, <2>4, <1>1, <1>3
<1> QED
  BY <1>6, <1>7

-----------------------------------------------------------------------------
(* The buckets of native histograms: what clients push.                    *)

\* A client pushes a histogram of floats if it fills in the counts of buckets.
PushedAsFloat(v) == v.positive.counts # <<>> \/ v.negative.counts # <<>>

\* The histogram it means.
HistogramMeant(v) ==
  LET float   == PushedAsFloat(v)
      Side(s) == [spans |-> s.spans, buckets |-> IF float THEN s.counts ELSE s.deltas]
  IN  [float     |-> float,
       count     |-> IF float THEN v.countFloat ELSE v.count,
       zeroCount |-> IF float THEN v.zeroFloat ELSE v.zero,
       threshold |-> v.threshold,
       positive  |-> Side(v.positive),
       negative  |-> Side(v.negative)]

\* A bucket of the library counts x.
Holds(bucket, x) ==
  /\ bucket.lower <= x /\ x <= bucket.upper
  /\ x = bucket.lower => bucket.lowerInclusive
  /\ x = bucket.upper => bucket.upperInclusive

\* On either side of the zero bucket the buckets follow each other outwards.
Outwards(negative, zero, positive) ==
  /\ \A i, j \in DOMAIN negative : i < j => negative[j].upper <= negative[i].lower
  /\ \A i \in DOMAIN negative : negative[i].upper <= zero.lower
  /\ zero.lower <= zero.upper
  /\ \A i \in DOMAIN positive : zero.upper <= positive[i].lower
  /\ \A i, j \in DOMAIN positive : i < j => positive[i].upper <= positive[j].lower

\* Each bucket has counted what it holds, and some bucket holds each observation.
Counted(buckets, observed) ==
  /\ \A b \in buckets : b.count = Cardinality({k \in DOMAIN observed : Holds(b, observed[k])})
  /\ \A k \in DOMAIN observed : \E b \in buckets : Holds(b, observed[k])

\* What makes a pushed native histogram a histogram of the observations: it says
\* that it has observations in the fields of its own kind, and its buckets, as
\* the library's iterators yield them, are well placed and have counted.
WellMade(v) ==
  LET h        == HistogramMeant(v)
      negative == NegativeBuckets(h)
      zero     == ZeroBucket(h)
      positive == PositiveBuckets(h)
  IN  /\ IF PushedAsFloat(v) THEN v.countFloat > 0 ELSE v.countFloat = 0 /\ v.zeroFloat = 0
      /\ v.observed \in Seq(Int)
      /\ negative \in Seq(Buckets) /\ zero \in Buckets /\ positive \in Seq(Buckets)
      /\ Outwards(negative, zero, positive)
      /\ Counted(Range(negative) \cup {zero} \cup Range(positive), v.observed)

HistogramsWellMade == \A v \in PushedHistograms : IsNative(v) => WellMade(v)

-----------------------------------------------------------------------------
(* The buckets of native histograms: what the API shows.                   *)

\* The histogram that is shown is the one that is meant.
LEMMA MeantIsShown ==
  ASSUME NEW v, WellMade(v)
  PROVE  NewModelHistogram(v) = HistogramMeant(v)
<1>1. (v.countFloat > 0 \/ v.zeroFloat > 0) = PushedAsFloat(v)
  <2>1. IF PushedAsFloat(v) THEN v.countFloat > 0 ELSE v.countFloat = 0 /\ v.zeroFloat = 0
    BY DEF WellMade
  <2>2. PushedAsFloat(v) \in BOOLEAN
    BY DEF PushedAsFloat
  <2> QED
    BY <2>1, <2>2
<1> QED
  BY <1>1 DEF NewModelHistogram, HistogramMeant

\* The boundaries of a bucket that is shown tell what it holds.
LEMMA ShownBucket ==
  ASSUME NEW b \in Buckets, NEW shown, shown = makeBucket(b)
  PROVE  /\ shown.lower = b.lower /\ shown.upper = b.upper /\ shown.count = b.count
         /\ \A x : Within(x, shown) <=> Holds(b, x)
<1>1. b.lowerInclusive \in BOOLEAN /\ b.upperInclusive \in BOOLEAN
  BY DEF Buckets
<1>2. shown.lower = b.lower /\ shown.upper = b.upper /\ shown.count = b.count
  BY DEF makeBucket
<1>3. shown.boundaries = IF b.lowerInclusive
                           THEN IF b.upperInclusive THEN 3 ELSE 1
                           ELSE IF b.upperInclusive THEN 0 ELSE 2
  BY DEF makeBucket
<1>4. /\ shown.boundaries \in {1, 3} <=> b.lowerInclusive
      /\ shown.boundaries \in {0, 3} <=> b.upperInclusive
  BY <1>1, <1>3
<1> QED
  BY <1>2, <1>4 DEF Within, Holds

\* Where the elements of two sequences of elements of S are in `both' of them.
InRow(both, q, r, S) ==
  /\ both \in Seq(S) /\ Len(both) = Len(q) + Len(r)
  /\ \A i \in 1 .. Len(q) : both[i] = q[i]
  /\ \A i \in 1 .. Len(r) : both[Len(q) + i] = r[i]

LEMMA PutInRow ==
  ASSUME NEW S, NEW q \in Seq(S), NEW r \in Seq(S), NEW both, both = q \o r
  PROVE  InRow(both, q, r, S)
BY DEF InRow

\* row lists the buckets in the set in ascending order.
Ascending(row, buckets) ==
  /\ row \in Seq(Buckets)
  /\ Range(row) = buckets
  /\ \A i, j \in 1 .. Len(row) : i < j => row[i].upper <= row[j].lower

\* The three parts of a histogram, put in a row, are in ascending order.
LEMMA RowAscends ==
  ASSUME NEW negative \in Seq(Buckets), NEW zero \in Buckets, NEW positive \in Seq(Buckets),
         Outwards(negative, zero, positive),
         NEW row, row = Reverse(negative) \o <<zero>> \o positive
  PROVE  Ascending(row, Range(negative) \cup {zero} \cup Range(positive))
<1>1. PICK m \in Nat, n \in Nat : m = Len(negative) /\ n = Len(positive)
  OBVIOUS
<1>2. PICK back : back = Reverse(negative)
  OBVIOUS
<1>3. /\ back = [i \in 1 .. m |-> negative[(m - i) + 1]]
      /\ \A i \in 1 .. m : (m - i) + 1 \in 1 .. m
  BY <1>1, <1>2 DEF Reverse
<1>4. /\ back \in Seq(Buckets) /\ Len(back) = m
      /\ \A i \in 1 .. m : back[i] = negative[(m - i) + 1]
  BY <1>1, <1>3
<1>5. PICK half : half = back \o <<zero>>
  OBVIOUS
<1>6. /\ half \in Seq(Buckets) /\ Len(half) = m + 1 /\ half[m + 1] = zero
      /\ \A i \in 1 .. m : half[i] = back[i]
  <2>1. <<zero>> \in Seq(Buckets)
    OBVIOUS
  <2>2. half \in Seq(Buckets) /\ Len(half) = m + 1
    BY <1>4, <1>5, <2>1
  <2>3. half[m + 1] = zero
    BY <1>4, <1>5, <2>1
  <2>4. ASSUME NEW i \in 1 .. m PROVE half[i] = back[i]
    BY <1>4, <1>5, <2>1
  <2> QED
    BY <2>2, <2>3, <2>4
<1>7. row = half \o positive
  BY <1>2, <1>5
<1>8. /\ row \in Seq(Buckets) /\ Len(row) = m + 1 + n
      /\ \A i \in 1 .. m + 1 : row[i] = half[i]
      /\ \A i \in 1 .. n : row[m + 1 + i] = positive[i]
  <2>1. /\ row \in Seq(Buckets) /\ Len(row) = Len(half) + Len(positive)
        /\ \A i \in 1 .. Len(half) : row[i] = half[i]
        /\ \A i \in 1 .. Len(positive) : row[Len(half) + i] = positive[i]
    <3>1. half \in Seq(Buckets)
      BY <1>6
    <3>2. InRow(row, half, positive, Buckets)
      BY <3>1, <1>7, PutInRow
    <3> QED
      BY <3>2 DEF InRow
  <2>2. Len(half) = m + 1 /\ Len(positive) = n
    BY <1>1, <1>6
  <2> QED
    BY <2>1, <2>2
<1>9. /\ \A i \in 1 .. m : row[i] = negative[(m - i) + 1]
      /\ row[m + 1] = zero
      /\ \A i \in (m + 2) .. (m + 1 + n) :
           i - m - 1 \in 1 .. n /\ row[i] = positive[i - m - 1]
  <2>1. ASSUME NEW i \in 1 .. m PROVE row[i] = negative[(m - i) + 1]
    <3>1. i \in 1 .. m + 1
      OBVIOUS
    <3>2. row[i] = half[i]
      BY <1>8, <3>1
    <3>3. half[i] = back[i]
      BY <1>6
    <3>4. back[i] = negative[(m - i) + 1]
      BY <1>4
    <3> QED
      BY <3>2, <3>3, <3>4
  <2>2. row[m + 1] = zero
    <3>1. m + 1 \in 1 .. m + 1
      OBVIOUS
    <3>2. row[m + 1] = half[m + 1]
      BY <1>8, <3>1
    <3> QED
      BY <1>6, <3>2
  <2>3. ASSUME NEW i \in (m + 2) .. (m + 1 + n)
        PROVE  i - m - 1 \in 1 .. n /\ row[i] = positive[i - m - 1]
    <3>1. PICK j : j = i - m - 1
      OBVIOUS
    <3>2. j \in 1 .. n /\ i = m + 1 + j
      BY <3>1
    <3> QED
      BY <3>1, <3>2, <1>8
  <2> QED
    BY <2>1, <2>2, <2>3
<1>10. DOMAIN negative = 1 .. m /\ DOMAIN positive = 1 .. n /\ DOMAIN row = 1 .. m + 1 + n
  BY <1>1, <1>8
<1>11. Range(row) = Range(negative) \cup {zero} \cup Range(positive)
  <2>1. ASSUME NEW i \in 1 .. m + 1 + n
        PROVE  row[i] \in Range(negative) \cup {zero} \cup Range(positive)
    <3>1. i \in 1 .. m \/ i = m + 1 \/ i \in (m + 2) .. (m + 1 + n)
      OBVIOUS
    <3> QED
      BY <3>1, <1>3, <1>9, <1>10 DEF Range
  <2>2. ASSUME NEW i \in 1 .. m PROVE negative[i] \in Range(row)
    <3>1. PICK j : j = (m - i) + 1
      OBVIOUS
    <3>2. j \in 1 .. m /\ (m - j) + 1 = i
      BY <3>1
    <3>3. j \in DOMAIN row
      BY <3>2, <1>10
    <3>4. row[j] = negative[i]
      BY <3>2, <1>9
    <3> QED
      BY <3>3, <3>4 DEF Range
  <2>3. zero \in Range(row)
    <3>1. m + 1 \in DOMAIN row
      BY <1>10
    <3> QED
      BY <3>1, <1>9 DEF Range
  <2>4. ASSUME NEW i \in 1 .. n PROVE positive[i] \in Range(row)
    <3>1. m + 1 + i \in DOMAIN row
      BY <1>10
    <3> QED
      BY <3>1, <1>8 DEF Range
  <2>5. Range(row) \subseteq Range(negative) \cup {zero} \cup Range(positive)
    <3>1. Range(row) = {row[i] : i \in 1 .. m + 1 + n}
      BY <1>10 DEF Range
    <3> QED
      BY <3>1, <2>1
  <2>6. Range(negative) \subseteq Range(row)
    <3>1. Range(negative) = {negative[i] : i \in 1 .. m}
      BY <1>10 DEF Range
    <3> QED
      BY <3>1, <2>2
  <2>7. Range(positive) \subseteq Range(row)
    <3>1. Range(positive) = {positive[i] : i \in 1 .. n}
      BY <1>10 DEF Range
    <3> QED
      BY <3>1, <2>4
  <2> QED
    BY <2>3, <2>5, <2>6, <2>7
<1>12. ASSUME NEW i \in 1 .. Len(row), NEW j \in 1 .. Len(row), i < j
       PROVE  row[i].upper <= row[j].lower
  <2>0. \A b \in Buckets : b.lower \in Int /\ b.upper \in Int
    BY DEF Buckets
  <2>1. /\ i \in 1 .. m \/ i = m + 1 \/ i \in (m + 2) .. (m + 1 + n)
        /\ j \in 1 .. m \/ j = m + 1 \/ j \in (m + 2) .. (m + 1 + n)
    BY <1>8
  <2>2. ASSUME NEW k \in 1 .. m
        PROVE  /\ row[k].upper <= zero.lower
               /\ row[k].upper \in Int
    <3>1. PICK a : a = (m - k) + 1
      OBVIOUS
    <3>2. a \in DOMAIN negative /\ row[k] = negative[a]
      BY <3>1, <1>3, <1>9, <1>10
    <3>3. negative[a] \in Buckets
      BY <3>2
    <3>4. negative[a].upper <= zero.lower
      BY <3>2 DEF Outwards
    <3> QED
      BY <3>2, <3>3, <3>4, <2>0
  <2>3. ASSUME NEW k \in (m + 2) .. (m + 1 + n)
        PROVE  /\ zero.upper <= row[k].lower
               /\ row[k].lower \in Int
    <3>1. PICK a : a = k - m - 1
      OBVIOUS
    <3>2. a \in DOMAIN positive /\ row[k] = positive[a]
      BY <3>1, <1>9, <1>10
    <3>3. positive[a] \in Buckets
      BY <3>2
    <3>4. zero.upper <= positive[a].lower
      BY <3>2 DEF Outwards
    <3> QED
      BY <3>2, <3>3, <3>4, <2>0
  <2>4. zero.lower \in Int /\ zero.upper \in Int /\ zero.lower <= zero.upper
    BY <2>0 DEF Outwards
  <2>5. CASE i \in 1 .. m /\ j \in 1 .. m
    <3>1. PICK a, b : a = (m - j) + 1 /\ b = (m - i) + 1
      OBVIOUS
    <3>2. a \in DOMAIN negative /\ b \in DOMAIN negative /\ a < b
      BY <3>1, <2>5, <1>12, <1>10
    <3>3. row[i] = negative[b] /\ row[j] = negative[a]
      BY <3>1, <2>5, <1>9
    <3> QED
      BY <3>2, <3>3 DEF Outwards
  <2>6. CASE i \in (m + 2) .. (m + 1 + n) /\ j \in (m + 2) .. (m + 1 + n)
    <3>1. PICK a, b : a = i - m - 1 /\ b = j - m - 1
      OBVIOUS
    <3>2. a \in DOMAIN positive /\ b \in DOMAIN positive /\ a < b
      BY <3>1, <2>6, <1>12, <1>10
    <3>3. row[i] = positive[a] /\ row[j] = positive[b]
      BY <3>1, <2>6, <1>9
    <3> QED
      BY <3>2, <3>3 DEF Outwards
  <2>7. CASE i \in 1 .. m /\ j = m + 1
    BY <2>2, <2>7, <1>9
  <2>8. CASE i = m + 1 /\ j \in (m + 2) .. (m + 1 + n)
    BY <2>3, <2>8, <1>9
  <2>9. CASE i \in 1 .. m /\ j \in (m + 2) .. (m + 1 + n)
    <3>1. PICK x \in Int, y \in Int : x = row[i].upper /\ y = row[j].lower
      BY <2>2, <2>3, <2>9
    <3>2. x <= zero.lower /\ zero.upper <= y
      BY <2>2, <2>3, <2>9, <3>1
    <3>3. PICK a \in Int, b \in Int : a = zero.lower /\ b = zero.upper /\ a <= b
      BY <2>4
    <3>4. x <= a /\ b <= y
      BY <3>2, <3>3
    <3>5. x <= y
      BY <3>3, <3>4
    <3> QED
      BY <3>1, <3>5
  <2>10. i \in Nat /\ j \in Nat /\ i < j
    BY <1>12
  <2> QED
    BY <2>1, <2>5, <2>6, <2>7, <2>8, <2>9, <2>10
<1> QED
  BY <1>8, <1>11, <1>12 DEF Ascending

\* The list the API shows of a well-made histogram is in ascending order and counts
\* each observation once: no bucket that is left out has counted any, and the
\* others have the counts and boundaries of the histogram that is meant.
LEMMA WellMadeIsShown ==
  ASSUME NEW v, WellMade(v)
  PROVE  CountsObservations(GetAPIBuckets(NewModelHistogram(v)), v.observed)
<1>1. PICK h : h = HistogramMeant(v)
  OBVIOUS
<1>2. PICK negative, zero, positive :
        negative = NegativeBuckets(h) /\ zero = ZeroBucket(h) /\ positive = PositiveBuckets(h)
  OBVIOUS
<1>3. PICK observed : observed = v.observed
  OBVIOUS
<1>4. /\ observed \in Seq(Int)
      /\ negative \in Seq(Buckets) /\ zero \in Buckets /\ positive \in Seq(Buckets)
      /\ Outwards(negative, zero, positive)
      /\ Counted(Range(negative) \cup {zero} \cup Range(positive), observed)
  BY <1>1, <1>2, <1>3 DEF WellMade
<1>5. PICK row : row = Reverse(negative) \o <<zero>> \o positive
  OBVIOUS
<1>6. /\ row \in Seq(Buckets)
      /\ Counted(Range(row), observed)
      /\ \A i, j \in 1 .. Len(row) : i < j => row[i].upper <= row[j].lower
  <2>1. Ascending(row, Range(negative) \cup {zero} \cup Range(positive))
    BY <1>4, <1>5, RowAscends
  <2> QED
    BY <2>1, <1>4 DEF Ascending
<1>7. PICK kept : kept = Occupied(row)
  OBVIOUS
<1>8. Keeps(kept, row, Len(row))
  BY <1>6, <1>7, OccupiedKeeps
<1>9. PICK p : KeptFrom(p, kept, row, Len(row))
  BY <1>8 DEF Keeps
<1>10. PICK shown : shown = [i \in DOMAIN kept |-> makeBucket(kept[i])]
  OBVIOUS
<1>11. GetAPIBuckets(NewModelHistogram(v)) = shown
  <2>1. NewModelHistogram(v) = h
    BY <1>1, MeantIsShown
  <2> QED
    BY <2>1, <1>2, <1>5, <1>7, <1>10 DEF GetAPIBuckets, Mapped
<1>12. PICK n \in Nat : n = Len(row)
  BY <1>6
<1>13. /\ DOMAIN shown = 1 .. Len(p)
       /\ \A i \in 1 .. Len(p) : /\ p[i] \in 1 .. n
                                 /\ kept[i] = row[p[i]] /\ kept[i] \in Buckets
                                 /\ shown[i] = makeBucket(kept[i])
  <2>1. kept \in Seq(Buckets) /\ Len(p) = Len(kept) /\ p \in Seq(1 .. n)
    BY <1>8, <1>9, <1>12 DEF Keeps, KeptFrom
  <2>2. DOMAIN kept = 1 .. Len(p)
    BY <2>1
  <2>3. ASSUME NEW i \in 1 .. Len(p)
        PROVE  p[i] \in 1 .. n /\ kept[i] \in Buckets
    BY <2>1, <2>2
  <2> QED
    BY <2>2, <2>3, <1>9, <1>10 DEF KeptFrom
<1>14. \A i \in 1 .. Len(p) :
         /\ shown[i].lower = kept[i].lower /\ shown[i].upper = kept[i].upper
         /\ shown[i].count = kept[i].count
         /\ \A x : Within(x, shown[i]) <=> Holds(kept[i], x)
  BY <1>13, ShownBucket
<1>15. ASSUME NEW i \in DOMAIN shown, NEW j \in DOMAIN shown, i < j
       PROVE  shown[i].upper <= shown[j].lower
  <2>1. p[i] < p[j]
    BY <1>9, <1>13, <1>15 DEF KeptFrom
  <2>2. row[p[i]].upper <= row[p[j]].lower
    BY <2>1, <1>6, <1>12, <1>13
  <2> QED
    BY <2>2, <1>13, <1>14
<1>16. ASSUME NEW i \in DOMAIN shown
       PROVE  shown[i].count = Cardinality({k \in DOMAIN observed : Within(observed[k], shown[i])})
  <2>1. kept[i] \in Range(row)
    <3>1. p[i] \in DOMAIN row
      BY <1>6, <1>12, <1>13
    <3> QED
      BY <3>1, <1>13 DEF Range
  <2>2. kept[i].count = Cardinality({k \in DOMAIN observed : Holds(kept[i], observed[k])})
    BY <2>1, <1>6 DEF Counted
  <2>3. {k \in DOMAIN observed : Holds(kept[i], observed[k])}
          = {k \in DOMAIN observed : Within(observed[k], shown[i])}
    BY <1>13, <1>14
  <2> QED
    BY <2>2, <2>3, <1>13, <1>14
<1>17. ASSUME NEW k \in DOMAIN observed
       PROVE  \E i \in DOMAIN shown : Within(observed[k], shown[i])
  <2>1. PICK b \in Range(row) : Holds(b, observed[k])
    BY <1>6 DEF Counted
  <2>2. PICK j \in 1 .. n : b = row[j]
    BY <1>6, <1>12, <2>1 DEF Range
  <2>3. PICK K : K = {l \in DOMAIN observed : Holds(b, observed[l])}
    OBVIOUS
  <2>4. b.count = Cardinality(K)
    BY <1>6, <2>1, <2>3 DEF Counted
  <2>5. IsFiniteSet(K) /\ k \in K
    <3>1. IsFiniteSet(1 .. Len(observed))
      BY <1>4, FS_Interval
    <3>2. K \subseteq 1 .. Len(observed)
      BY <1>4, <2>3
    <3> QED
      BY <3>1, <3>2, <2>1, <2>3, FS_Subset
  <2>6. row[j].count # 0
    BY <2>2, <2>4, <2>5, FS_EmptySet
  <2>7. PICK i \in 1 .. Len(p) : p[i] = j
    BY <2>6, <1>9, <1>12 DEF KeptFrom
  <2>8. kept[i] = b
    BY <2>2, <2>7, <1>13
  <2> QED
    BY <2>1, <2>7, <2>8, <1>13, <1>14
<1> QED
  BY <1>3, <1>11, <1>15, <1>16, <1>17 DEF CountsObservations

-----------------------------------------------------------------------------
(* The buckets of native histograms: what is stored.                       *)

\* The write requests that handlers submit.
Served ==
  {WriteRequest(c, Request(q), t) :
     c \in Callers, q \in {p \in HttpRequests : Parses(p)}, t \in Times}

\* The histograms of a family are among those that are pushed.
HistogramsPushed(family) ==
  family.type = "histogram" =>
    \A i \in DOMAIN family.series : family.series[i].value \in PushedHistograms

HistogramsStored(groups) ==
  \A k \in DOMAIN groups : \A n \in DOMAIN groups[k].metrics :
    HistogramsPushed(groups[k].metrics[n].family)

HistogramInv == submitted \in Seq(Served) /\ HistogramsStored(metricGroups)

LEMMA ServedAreRequests == Served \subseteq WriteRequests
BY SubmissionsAssumption DEF Served, WriteRequests

\* Sanitizing a family leaves its type and the values of its samples alone.
LEMMA SanitizedPushed ==
  ASSUME NEW family, IsFamily(family), HistogramsPushed(family), NEW labels
  PROVE  HistogramsPushed(sanitizeLabels(family, labels))
<1>1. PICK sane : sane = sanitizeLabels(family, labels)
  OBVIOUS
<1>2. /\ sane.type = family.type
      /\ DOMAIN sane.series = DOMAIN family.series
      /\ \A i \in DOMAIN family.series : sane.series[i].value = family.series[i].value
  BY <1>1 DEF sanitizeLabels, IsFamily
<1> QED
  BY <1>1, <1>2 DEF HistogramsPushed

\* The push metrics of the store's own making are no histograms.
LEMMA OwnGaugePushed ==
  ASSUME NEW labels, NEW t
  PROVE  HistogramsPushed(newTimestampGauge(labels, t))
<1>1. newTimestampGauge(labels, t).type = "gauge"
  BY DEF newTimestampGauge, sanitizeLabels
<1> QED
  BY <1>1 DEF HistogramsPushed

\* What a request of the handlers brings, sanitized or not, is pushed.
LEMMA ServedPushed ==
  ASSUME NEW wr \in Served, ~IsDelete(wr), NEW n \in DOMAIN wr.families
  PROVE  HistogramsPushed(wr.families[n])
<1>1. PICK c \in Callers, q \in HttpRequests, t \in Times :
        Parses(q) /\ wr = WriteRequest(c, Request(q), t)
  BY DEF Served
<1>2. wr.families = IF q.method = "DELETE" THEN NoFamilies ELSE metricFamilies(q)
  BY <1>1 DEF WriteRequest, Request
<1>3. wr.families = metricFamilies(q)
  BY <1>2 DEF IsDelete
<1>4. PICK all : all = Families(q.messages)
  OBVIOUS
<1>5. n \in DOMAIN all /\ wr.families[n] = all[n]
  BY <1>3, <1>4 DEF metricFamilies, Restrict
<1>6. PICK i \in DOMAIN q.messages : all[n] = q.messages[i].family
  <2> DEFINE named == {i \in DOMAIN q.messages : q.messages[i].name = n}
  <2>1. \E i \in DOMAIN q.messages : n = q.messages[i].name
    BY <1>4, <1>5 DEF Families
  <2>2. all[n] = q.messages[Max(named)].family
    BY <1>4, <1>5 DEF Families
  <2>3. Max(named) \in named
    <3>1. DOMAIN q.messages = 1 .. Len(q.messages) /\ Len(q.messages) \in Nat
      BY SequencesAssumption
    <3>2. named \subseteq 1 .. Len(q.messages) /\ named # {}
      BY <2>1, <3>1
    <3> QED
      BY <3>1, <3>2, LastPlace
  <2> QED
    BY <2>2, <2>3
<1>7. wr.families[n] \in PushedFamilies
  BY <1>5, <1>6 DEF PushedFamilies
<1> QED
  BY <1>7 DEF HistogramsPushed, PushedHistograms

\* Handling a request of the handlers stores nothing but what is pushed.
LEMMA HandleStoresPushed ==
  ASSUME NEW groups, HistogramsStored(groups), NEW wr \in Served,
         NEW new, new = Handle(groups, wr)
  PROVE  HistogramsStored(new)
<1> DEFINE key == groupingKeyFor(wr.labels)
<1> PICK old : old = MetricsOf(groups, key)
  OBVIOUS
<1> SUFFICES ASSUME NEW k \in DOMAIN new, NEW n \in DOMAIN new[k].metrics
             PROVE  HistogramsPushed(new[k].metrics[n].family)
  BY DEF HistogramsStored
<1>1. wr \in WriteRequests
  BY ServedAreRequests
<1>2. k \in DOMAIN groups \cup {key} /\ (k # key => new[k] = groups[k])
  BY <1>1, HandleOthers
<1>3. CASE k # key
  BY <1>2, <1>3 DEF HistogramsStored
<1>4. \A m \in DOMAIN old : HistogramsPushed(old[m].family)
  BY DEF MetricsOf, HistogramsStored
<1>5. CASE k = key /\ checkWriteRequest(groups, wr) /\ ~IsDelete(wr)
  <2>1. PICK sane : sane = sanitizeRequest(wr)
    OBVIOUS
  <2>2. new = processWriteRequest(groups, sane)
    BY <2>1, <1>5 DEF Handle
  <2>3. /\ ~IsDelete(sane) /\ groupingKeyFor(sane.labels) = key
        /\ DOMAIN sane.families = DOMAIN wr.families
    BY <2>1, <1>1, <1>5, AcceptedRequest
  <2>4. ASSUME NEW m \in DOMAIN sane.families
        PROVE  HistogramsPushed(sane.families[m])
    <3>1. sane.families[m] = sanitizeLabels(wr.families[m], wr.labels)
      BY <2>1, <2>3, <1>1, <1>5, SanitizedFields
    <3>2. IsFamily(wr.families[m])
      BY <2>3, <1>1, <1>5, WriteRequestFields
    <3>3. HistogramsPushed(wr.families[m])
      BY <2>3, <1>5, ServedPushed
    <3> QED
      BY <3>1, <3>2, <3>3, SanitizedPushed
  <2>5. CASE n \notin pushMetricNames
    <3>1. /\ DOMAIN new[key].metrics \ pushMetricNames =
               (DOMAIN sane.families \cup IF sane.replace THEN {} ELSE DOMAIN old)
                 \ pushMetricNames
          /\ \A m \in DOMAIN sane.families \ pushMetricNames :
               new[key].metrics[m] = [timestamp |-> sane.timestamp, family |-> sane.families[m]]
          /\ ~sane.replace =>
               \A m \in DOMAIN old \ (pushMetricNames \cup DOMAIN sane.families) :
                 new[key].metrics[m] = old[m]
      BY <2>2, <2>3, AcceptFamilies
    <3>2. CASE n \in DOMAIN sane.families
      <4>1. new[key].metrics[n] = [timestamp |-> sane.timestamp, family |-> sane.families[n]]
        BY <3>1, <3>2, <2>5
      <4>2. new[key].metrics[n].family = sane.families[n]
        BY <4>1
      <4> QED
        BY <4>2, <3>2, <2>4, <1>5
    <3>3. CASE n \notin DOMAIN sane.families
      <4>1. ~sane.replace /\ n \in DOMAIN old
        BY <3>1, <3>3, <2>5, <1>5
      <4> QED
        BY <4>1, <3>1, <3>3, <2>5, <1>4, <1>5
    <3> QED
      BY <3>2, <3>3
  <2>6. CASE n \in pushMetricNames
    <3>1. /\ new[key].metrics[pushMetricName].family
               = newTimestampGauge(sane.labels, sane.timestamp)
          /\ (pushFailedMetricName \in DOMAIN old \ DOMAIN sane.families) =>
               new[key].metrics[pushFailedMetricName] = old[pushFailedMetricName]
          /\ (pushFailedMetricName \in DOMAIN old \cap DOMAIN sane.families) =>
               new[key].metrics[pushFailedMetricName].family
                 = sane.families[pushFailedMetricName]
          /\ (pushFailedMetricName \notin DOMAIN old) =>
               new[key].metrics[pushFailedMetricName].family
                 = newTimestampGauge(sane.labels, ZeroTime)
      BY <2>2, <2>3, AcceptMetrics
    <3>2. HistogramsPushed(new[key].metrics[pushMetricName].family)
      BY <3>1, OwnGaugePushed
    <3>3. HistogramsPushed(new[key].metrics[pushFailedMetricName].family)
      BY <3>1, <2>4, <1>4, OwnGaugePushed
    <3> QED
      BY <3>2, <3>3, <2>6, <1>5 DEF pushMetricNames
  <2> QED
    BY <2>5, <2>6
<1>6. CASE k = key /\ checkWriteRequest(groups, wr) /\ IsDelete(wr)
  <2>1. new = Drop(groups, {key})
    BY <1>6 DEF Handle, sanitizeRequest, processWriteRequest
  <2> QED
    BY <2>1, <1>6 DEF Drop, Restrict
<1>7. CASE k = key /\ ~checkWriteRequest(groups, wr)
  <2>1. new = setPushFailedTimestamp(groups, wr)
    BY <1>7 DEF Handle
  <2>2. /\ DOMAIN new[key].metrics \ pushMetricNames = DOMAIN old \ pushMetricNames
        /\ \A m \in DOMAIN old \ pushMetricNames : new[key].metrics[m] = old[m]
    BY <2>1, FailFamilies
  <2>3. new[key].metrics[pushFailedMetricName].family
          = newTimestampGauge(wr.labels, wr.timestamp)
    BY <2>1, FailMetrics
  <2>4. CASE n \notin pushMetricNames
    BY <2>2, <2>4, <1>4, <1>7
  <2>5. HistogramsPushed(new[key].metrics[pushFailedMetricName].family)
    BY <2>3, OwnGaugePushed
  <2>6. HistogramsPushed(new[key].metrics[pushMetricName].family)
    <3>1. CASE pushMetricName \in DOMAIN old
      <4>1. new[key].metrics[pushMetricName] = old[pushMetricName]
        <5>1. pushMetricName \in DOMAIN old \ {pushFailedMetricName}
          BY <3>1 DEF pushMetricName, pushFailedMetricName
        <5>2. \A m \in DOMAIN old \ {pushFailedMetricName} : new[key].metrics[m] = old[m]
          BY <2>1, FailMetrics
        <5> QED
          BY <5>1, <5>2
      <4> QED
        BY <4>1, <3>1, <1>4
    <3>2. CASE pushMetricName \notin DOMAIN old
      <4>1. new[key].metrics[pushMetricName].family = newTimestampGauge(wr.labels, ZeroTime)
        BY <2>1, <3>2, FailMetrics
      <4> QED
        BY <4>1, OwnGaugePushed
    <3> QED
      BY <3>1, <3>2
  <2> QED
    BY <2>4, <2>5, <2>6, <1>7 DEF pushMetricNames
<1> QED
  BY <1>3, <1>5, <1>6, <1>7

\* Only what is pushed is stored, and shown in well-made lists.
LEMMA HistogramInvInit == HttpInit => HistogramInv
<1> SUFFICES ASSUME HttpInit PROVE HistogramInv
  OBVIOUS
<1>1. submitted = <<>> /\ DOMAIN metricGroups = {}
  BY DEF HttpInit, Init, EmptyStore
<1> QED
  BY <1>1 DEF HistogramInv, HistogramsStored

LEMMA HistogramInvStep == HistogramInv /\ [HttpNext]_httpVars => HistogramInv'
<1> SUFFICES ASSUME HistogramInv, [HttpNext]_httpVars PROVE HistogramInv'
  OBVIOUS
<1>1. ASSUME NEW c \in Callers, NEW q \in HttpRequests, NEW t \in Times, Serve(c, q, t)
      PROVE  HistogramInv'
  <2>1. WriteRequest(c, Request(q), t) \in Served
    BY <1>1 DEF Serve, Served
  <2>2. submitted' = Append(submitted, WriteRequest(c, Request(q), t))
        /\ metricGroups' = metricGroups
    BY <1>1 DEF Serve, SubmitWriteRequest
  <2>3. submitted' \in Seq(Served)
    BY <2>1, <2>2 DEF HistogramInv
  <2> QED
    BY <2>2, <2>3 DEF HistogramInv, HistogramsStored
<1>2. CASE HandleNext
  <2>1. /\ submitted # <<>> /\ submitted' = Tail(submitted)
        /\ metricGroups' = Handle(metricGroups, Head(submitted))
    BY <1>2 DEF HandleNext, HandleRequest
  <2>2. Head(submitted) \in Served /\ submitted' \in Seq(Served)
    BY <2>1 DEF HistogramInv
  <2>3. HistogramsStored(metricGroups')
    BY <2>1, <2>2, HandleStoresPushed DEF HistogramInv
  <2> QED
    BY <2>2, <2>3 DEF HistogramInv, HistogramsStored
<1>3. CASE UNCHANGED <<submitted, metricGroups>>
  BY <1>3 DEF HistogramInv, HistogramsStored
<1>4. ASSUME NEW q \in HttpRequests, BadRequest(q)
      PROVE  UNCHANGED <<submitted, metricGroups>>
  BY <1>4 DEF BadRequest, vars
<1>5. ASSUME NEW c \in Callers, Reply(c), UNCHANGED <<meant, ignored>>
      PROVE  UNCHANGED <<submitted, metricGroups>>
  BY <1>5 DEF Reply
<1>6. CASE UNCHANGED httpVars
  BY <1>3, <1>6 DEF httpVars, vars
<1> QED
  BY <1>1, <1>2, <1>3, <1>4, <1>5, <1>6 DEF HttpNext

LEMMA HistogramInvSuffices ==
  ASSUME HistogramsWellMade, HistogramInv
  PROVE  BucketsCountObservations
<1> SUFFICES ASSUME NEW k \in DOMAIN metricGroups, NEW n \in DOMAIN metricGroups[k].metrics,
                    NEW f, f = metricGroups[k].metrics[n].family, f.type = "histogram",
                    NEW i \in DOMAIN f.series, IsNative(f.series[i].value)
             PROVE  CountsObservations(makeEncodableMetric(f.series[i], f.type).buckets,
                                       f.series[i].value.observed)
  BY DEF BucketsCountObservations
<1>1. PICK m, v : m = f.series[i] /\ v = m.value
  OBVIOUS
<1>2. v \in PushedHistograms
  BY <1>1 DEF HistogramInv, HistogramsStored, HistogramsPushed
<1>3. IsNative(v) /\ WellMade(v)
  BY <1>1, <1>2 DEF HistogramsWellMade
<1>4. PICK shown : shown = GetAPIBuckets(NewModelHistogram(v))
  OBVIOUS
<1>5. makeNative[v].buckets = shown /\ "buckets" \in DOMAIN makeNative[v]
  BY <1>2, <1>3, <1>4 DEF makeNative
<1>6. makeEncodableMetric(m, f.type) = Over([labels |-> m.labels], makeNative[v])
  BY <1>1, <1>3 DEF makeEncodableMetric
<1>7. makeEncodableMetric(m, f.type).buckets = shown
  BY <1>5, <1>6 DEF Over
<1>8. CountsObservations(shown, v.observed)
  BY <1>3, <1>4, WellMadeIsShown
<1> QED
  BY <1>1, <1>7, <1>8

\* If native histograms are well made when they are pushed, then the API always
\* shows their buckets in ascending order, and each observation is counted in just
\* one of them: neither the choice between integers and floats, nor leaving out
\* empty buckets, nor turning the negative ones round, nor encoding the boundaries
\* in a number loses any.
THEOREM BucketsCountTruly == HistogramsWellMade => (HttpSpec => []BucketsCountObservations)
<1> SUFFICES ASSUME HistogramsWellMade PROVE HttpSpec => []BucketsCountObservations
  OBVIOUS
<1>1. HttpInit => HistogramInv
  BY HistogramInvInit
<1>2. HistogramInv /\ [HttpNext]_httpVars => HistogramInv'
  BY HistogramInvStep
<1>3. HistogramInv => BucketsCountObservations
  BY HistogramInvSuffices
<1> QED
  BY <1>1, <1>2, <1>3, PTL DEF HttpSpec

=============================================================================
