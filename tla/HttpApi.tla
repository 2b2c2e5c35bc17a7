------------------------------- MODULE HttpApi -------------------------------
(***************************************************************************)
(* What clients see: requests to push and delete as they come in over      *)
(* HTTP, with encoded paths and bodies, and the JSON that the query API    *)
(* answers with.  The store in between is that of MetricStore.             *)
(*                                                                         *)
(* A request is a record                                                   *)
(*   method           PUT, POST or DELETE                                  *)
(*   jobBase64, job   is it /job@base64/, and the component that follows   *)
(*   labels           the remaining components of the path                 *)
(*   contentEncoding  of the header; `coding' is that of the body itself   *)
(*   format           of the body: protobuf or text                        *)
(*   messages         the body: a sequence of [name, family]               *)
(*   broken           the body ends in something that cannot be parsed     *)
(*   meant            history: what the client means, an element of        *)
(*                    Requests, or NoMeaning                               *)
(* A component of the path is a record: `text' is the whole component;     *)
(* `pieces' are its pieces between separator bytes, which a client can put *)
(* there by percent-encoding; `unpadded' is the text without "=" at the    *)
(* end; `trimmed' is the text without the suffix @base64.                  *)
(***************************************************************************)
EXTENDS MetricStore, Histograms, FiniteSetsExt

CONSTANTS
  HttpRequests,    \* requests that may come in
  NoMeaning,       \* of requests that are malformed
  RawURLEncoding,  \* the value that a text encodes, where it encodes one
  UTF8Names,       \* TRUE iff UTF-8 label names are enabled by flag
  EscapedNames,    \* the name that a text escapes, where it escapes one
  LegacyNames,     \* texts that are label names by the legacy rules
  ReservedTexts    \* texts that begin with two underscores

ASSUME UTF8Assumption == UTF8Names \in BOOLEAN
ASSUME HttpAssumption == \A q \in HttpRequests : q.meant \in Requests \cup {NoMeaning}
ASSUME SequencesAssumption ==
  \A q \in HttpRequests :
    q.labels \in Seq(Range(q.labels)) /\ q.messages \in Seq(Range(q.messages))

VARIABLES
  meant,   \* history: what the clients of the requests in submitted mean
  ignored  \* history: what that of the last request answered with 400 meant

httpVars == <<vars, meant, ignored>>

HttpInit == Init /\ meant = <<>> /\ ignored = NoMeaning

-----------------------------------------------------------------------------
(* Paths.                                                                  *)

\* Mutated form: padding is not ignored.
DecodesUnpadded(component) == component.text \in DOMAIN RawURLEncoding

\* decodeBase64, and whether it succeeds.
Decodes(component) == component.unpadded \in DOMAIN RawURLEncoding

decodeBase64(component) == RawURLEncoding[component.unpadded]

UnescapeName(text) ==
  IF UTF8Names /\ text \in DOMAIN EscapedNames THEN EscapedNames[text] ELSE text

IsValidLabelName(name) == IF UTF8Names THEN name # "" ELSE name \in LegacyNames

HasSuffix(component) == component.text # component.trimmed

NameAt(components, i)  == components[2 * i - 1]
ValueAt(components, i) == components[2 * i]
Pairs(components)      == 1 .. Len(components) \div 2

LabelName(components, i) == UnescapeName(NameAt(components, i).trimmed)

\* splitLabels returns labels, and not an error.
Splits(components) ==
  /\ Len(components) % 2 = 0
  /\ \A i \in Pairs(components) :
       /\ IsValidLabelName(LabelName(components, i))
       /\ NameAt(components, i).trimmed \notin ReservedTexts
       /\ HasSuffix(NameAt(components, i)) => Decodes(ValueAt(components, i))

\* Of several values for a name the last one counts.
splitLabels(components) ==
  [n \in {LabelName(components, i) : i \in Pairs(components)} |->
    LET i == Max({j \in Pairs(components) : LabelName(components, j) = n})
        v == ValueAt(components, i)
    IN  IF HasSuffix(NameAt(components, i)) THEN decodeBase64(v) ELSE v.pieces]

Job(q) == IF q.jobBase64 THEN decodeBase64(q.job) ELSE q.job.pieces

PathParses(q) ==
  /\ q.jobBase64 => Decodes(q.job)
  /\ Splits(q.labels)
  /\ Job(q) # NoValue

Labels(q) == Over(Single("job", Job(q)), splitLabels(q.labels))

-----------------------------------------------------------------------------
(* Bodies.                                                                 *)

\* A gzip header needs a gzip body, if only for a DELETE.
decodeRequest(q) == q.contentEncoding = "gzip" => q.coding = "gzip"

Families(messages) ==
  [n \in {messages[i].name : i \in DOMAIN messages} |->
    messages[Max({i \in DOMAIN messages : messages[i].name = n})].family]

\* Two messages of one name are an error in the text format only, where each
\* begins with its type.
BodyParses(q) ==
  /\ q.contentEncoding = q.coding /\ ~q.broken
  /\ q.format = "text" =>
       \A i, j \in DOMAIN q.messages : q.messages[i].name = q.messages[j].name => i = j

\* The parser of the text format, in which no two messages have one name, drops
\* families without samples.
metricFamilies(q) ==
  LET families == Families(q.messages)
      Empty(n) == families[n].series = <<>>
  IN  IF q.format = "text"
        THEN Restrict(families, {n \in DOMAIN families : ~Empty(n)})
        ELSE families

-----------------------------------------------------------------------------
(* The handlers.                                                           *)

Parses(q) ==
  /\ decodeRequest(q)
  /\ PathParses(q)
  /\ q.method = "DELETE" \/ BodyParses(q)

\* What Push or Delete submits.
Request(q) ==
  [labels   |-> Labels(q),
   families |-> IF q.method = "DELETE" THEN NoFamilies ELSE metricFamilies(q),
   replace  |-> q.method = "PUT"]

ASSUME SubmissionsAssumption == \A q \in HttpRequests : Parses(q) => Request(q) \in Requests

Serve(c, q, t) ==
  /\ Parses(q)
  /\ SubmitWriteRequest(c, WriteRequest(c, Request(q), t))
  /\ meant' = Append(meant, [request |-> q.meant, time |-> t])
  /\ UNCHANGED ignored

\* A malformed request is answered with 400 and changes nothing.
BadRequest(q) == ~Parses(q) /\ ignored' = q.meant /\ UNCHANGED <<vars, meant>>

HandleNext == HandleRequest /\ meant' = Tail(meant) /\ UNCHANGED ignored

HttpNext ==
  \/ \E c \in Callers, q \in HttpRequests, t \in Times : Serve(c, q, t)
  \/ \E q \in HttpRequests : BadRequest(q)
  \/ HandleNext
  \/ \E c \in Callers : Reply(c) /\ UNCHANGED <<meant, ignored>>

HttpSpec == HttpInit /\ [][HttpNext]_httpVars

-----------------------------------------------------------------------------
(* The query API.  The value of a sample is a number, or for the types     *)
(* summary and histogram a record.  Sums are left out.                     *)

\* Of several entries for one key the last one counts.
AsMap(entries, Key(_), Value(_)) ==
  [k \in {Key(entries[i]) : i \in DOMAIN entries} |->
    Value(entries[Max({i \in DOMAIN entries : Key(entries[i]) = k})])]

makeQuantiles(summary) ==
  AsMap(summary.quantiles, LAMBDA q : q.quantile, LAMBDA q : q.value)

\* A count, in which the float field counts if it is set.
CountOf(float, integer) == IF float > 0 THEN float ELSE integer

makeBuckets(h) ==
  AsMap(h.buckets, LAMBDA b : b.bound, LAMBDA b : CountOf(b.countFloat, b.count))

PushedFamilies ==
  UNION {{q.messages[i].family : i \in DOMAIN q.messages} : q \in HttpRequests}

PushedHistograms ==
  UNION {{f.series[i].value : i \in DOMAIN f.series} :
           f \in {g \in PushedFamilies : g.type = "histogram"}}

\* (A table, in order to be computed only once.)
makeNative ==
  [v \in {w \in PushedHistograms : IsNative(w)} |->
    LET h == NewModelHistogram(v) IN [buckets |-> GetAPIBuckets(h), count |-> h.count]]

getValue(m, type) == IF type \in {"gauge", "counter", "untyped"} THEN m.value ELSE 0

makeEncodableMetric(m, type) ==
  CASE type = "summary" ->
         [labels |-> m.labels, quantiles |-> makeQuantiles(m.value), count |-> m.value.count]
    [] type = "histogram" /\ IsNative(m.value) ->
         Over([labels |-> m.labels], makeNative[m.value])
    [] type = "histogram" /\ ~IsNative(m.value) ->
         [labels |-> m.labels, buckets |-> makeBuckets(m.value),
          count  |-> CountOf(m.value.countFloat, m.value.count)]
    [] OTHER -> [labels |-> m.labels, value |-> getValue(m, type)]

makeEncodableMetrics(family) ==
  [type    |-> family.type,
   metrics |-> [i \in DOMAIN family.series |->
                 makeEncodableMetric(family.series[i], family.type)]]

FamilyResponse(stored) ==
  [time |-> stored.timestamp, metrics |-> makeEncodableMetrics(stored.family)]

fixedKeyNames == {"labels", "last_push_successful"}

FixedKeys(group) ==
  [key \in fixedKeyNames |->
    IF key = "labels" THEN group.labels ELSE LastPushSuccess(group)]

\* The JSON object of a group: a family wins over a fixed key.
metricResponse(group) ==
  Over([n \in DOMAIN group.metrics |-> FamilyResponse(group.metrics[n])], FixedKeys(group))

-----------------------------------------------------------------------------
(* Properties.                                                             *)

\* What the JSON object of a group tells of it.
Told(response) ==
  LET TimeOf(n) == response[n].metrics.metrics[1].value
  IN  [families   |-> [n \in DOMAIN response \ (fixedKeyNames \cup pushMetricNames) |->
                        response[n]],
       succeeded  |-> TimeOf(pushMetricName),
       failed     |-> TimeOf(pushFailedMetricName),
       successful |-> response["last_push_successful"]]

\* The JSON objects in the answer of the query API that have these labels.
ResponsesFor(labels) ==
  {metricResponse(group) :
     group \in {g \in Range(metricGroups) : metricResponse(g)["labels"] = labels}}

\* What the JSON objects say, and nothing else.  (The object is a bound variable in
\* order to be computed only once.)
dict ==
  [labels \in {metricResponse(group)["labels"] : group \in Range(metricGroups)} |->
    CHOOSE told \in {Told(response) : response \in ResponsesFor(labels)} : TRUE]

\* What the clients of the submitted requests mean.
AsMeant(entry) ==
  IF entry.request = NoMeaning THEN NoMeaning ELSE
  [labels |-> entry.request.labels, families |-> entry.request.families,
   replace |-> entry.request.replace, time |-> entry.time]

pending == [i \in DOMAIN meant |-> AsMeant(meant[i])]

Show(family, labels) ==
  CHOOSE shown \in {makeEncodableMetrics(f) : f \in {sanitizeLabels(family, labels)}} : TRUE

Dictionary == INSTANCE RestDictionary WITH
  PushMetricNames <- pushMetricNames, FailureTimeName <- pushFailedMetricName

\* However paths and bodies are encoded, what the JSON of the API says is what the
\* clients meant: PUT replaces, POST merges, DELETE removes, a refused push sets
\* the failure time only, and only what is malformed is ignored.  (Where families
\* are pushed under the names of the fixed keys, the API hides what it has under
\* these keys, and this does not hold.)
ServesDictionary == Dictionary!DictSpec

\* The buckets of every native histogram that is stored are shown in ascending
\* order and count each of its observations once.  (`observed' is history: what
\* the client observed.  Prometheus and people read the list as such.)
BucketsCountObservations ==
  \A k \in DOMAIN metricGroups : \A n \in DOMAIN metricGroups[k].metrics :
    LET f == metricGroups[k].metrics[n].family IN
    f.type = "histogram" =>
      \A i \in DOMAIN f.series :
        IsNative(f.series[i].value) =>
          CountsObservations(makeEncodableMetric(f.series[i], f.type).buckets,
                             f.series[i].value.observed)

=============================================================================
