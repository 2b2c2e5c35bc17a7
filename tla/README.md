# A TLA+ verification of the Pushgateway

The Pushgateway keeps the metrics that short-lived jobs push to it in groups,
and exposes all of them, together with its own metrics, to Prometheus. This
directory holds TLA+ models of the parts of it that have behaviour: the store
and what requests do to its contents; the goroutine that owns the store, its
queue, its persistence file and shutdown; the sharing of stored metrics with
readers; the HTTP handlers, the encodings of requests, and the query API. TLC
checks them on small instances; TLAPS proves most of the safety results for
every value of the constants.

Line numbers below and in `PROJECT.json` refer to the sources in `src/`.

## The system

| part | code | state | operations |
|---|---|---|---|
| contents of the store | `storage/diskmetricstore.go`, `storage/interface.go` | groups of timestamped metric families by grouping key | apply a PUT, POST or DELETE; check a push; mark a group as failed |
| disk metric store | `storage/diskmetricstore.go` | write queue, Done channels, persist timer, persistence file, loop goroutine | `SubmitWriteRequest`, `loop`, `persist`, `restore`, `Shutdown`, `Healthy` |
| exposition | `GetMetricFamilies`, `GetMetricFamiliesMap` | none | merge the families of all groups; copy the map of groups |
| push, delete, wipe handlers | `handler/push.go`, `delete.go`, `wipe.go` | one goroutine per HTTP request | parse, take the time, submit, wait, respond |
| URL and body parsing | `splitLabels`, `decodeBase64` in `handler/push.go`, `decodeRequest` in `main.go` | none | grouping labels and families of a request, or 400 |
| process | `main.go` | HTTP server, quit channel | start, stop on a signal or a quit request |
| health, static files, status page, instrumentation | `handler/misc.go`, `status.go`, `metrics.go` | none | read-only |
| JSON API | `api/v1/api.go` | none | show the groups of a snapshot |
| histogram conversion | `histogram/prometheus_model.go` | none | the list of buckets of a native histogram |
| web assets | `asset/` | none | generated |

A handler goroutine puts a write request into the store's queue (and blocks
while it is full). The loop goroutine takes requests one by one, changes the
contents under a lock, closes the Done channel of those who wait, and sets a
timer for the next persist. The timer's goroutine encodes the contents under a
read lock into a temporary file, renames it over the persistence file, and
tells the loop over an unbuffered channel. `main` calls `Shutdown` when the
HTTP server stops serving: the loop drains the queue, persists once more, and
returns. Scrapes, the status page and the API read snapshots under the read
lock.

What is hard here, and what the properties are for (`hazards` in
`PROJECT.json` has each one with its line):

* The persist goroutine, the loop and `Shutdown` run concurrently and share the
  file, two channels and three instants that are compared with each other.
* The process may die between any two steps.
* The queue is bounded, and handlers wait for an answer over a channel.
* A request is tried on a copy of the contents first, and a rejected push still
  writes to its group.
* What a group holds depends on the whole sequence of PUT, POST, DELETE and
  rejected pushes that reached it.
* Scrapes and snapshots hold pointers to stored metric families after they have
  released the lock, while the loop changes its maps in place.
* The HTTP server stops serving while handlers are still running.
* One set of grouping labels has many encodings in a URL, and the string that
  identifies it in the store is joined from names and values.
* The JSON object of a group mixes fixed keys with the names of pushed families.
* The buckets of a native histogram are described by spans, gaps and deltas,
  separately for either side of zero.

## Modules

### `MetricGroups`

Pure operators on the contents, with the names of the functions they
translate: `processWriteRequest`, `setPushFailedTimestamp`,
`checkWriteRequest`, `sanitizeLabels`, `newTimestampGauge`, `groupingKeyFor`,
`timestampsPresent`, `LastPushSuccess`. A label set is a function, a family a
type and a sequence of samples. Help strings are left out.

A label value is the sequence of its pieces between separator bytes. Nearly all
values have one piece; more come from base64 or from percent-encoding the byte.
`groupingKeyFor` joins names and
values with the same byte, so that the key is one sequence of pieces, in which
it is no longer visible where a value ends: two label sets may share a key.

`Gatherable` stands for `prometheus.Gatherers.Gather`, a library: families of
one name have one type, no two samples of a name have the same labels, and label
values are UTF-8, in which the separator byte does not occur. The code calls it
on the merged output of `GetMetricFamilies` and on its own metrics
(`OwnFamilies`).

Assumptions on requests: families are records of the form described, a push does
not become a delete when labels are added, and a `push_failure_time_seconds` that
is pushed has a sample. The last is a real restriction: `LastPushSuccess` takes
the first sample (`interface.go:144`) and panics otherwise; see `hazards`.

### `MetricStore`

The abstract specification: what `storage.MetricStore` promises to the rest of
the program. Requests are submitted, handled one at a time in order, each as a
whole; a caller with a Done channel gets the verdict after the fact; a restart
may bring other contents. It has no queue bound, goroutine or file. The
properties of the contents are stated here.

### `DiskMetricStore`

The loop, its queue, the Done channels, the timer's goroutine, the file,
shutdown and restarts. `loop` says where the loop goroutine is, and
`persistTimer` where the timer's goroutine is; a step ends where another
goroutine can observe or change something.

| action | code |
|---|---|
| `SubmitWriteRequest`, `ReceiveError`, `ReceiveClosed` | `SubmitWriteRequest`; a push handler ranging over its Done channel |
| `ReceiveWrite`, `CheckWriteRequest`, `ProcessWriteRequest`, `SetPushFailedTimestamp`, `Acknowledge` | the first case of the outer select |
| `ReceivePersistDone` | its second case |
| `ReceiveDrain`, `ReceiveWrite` ..., `NextInDrain`, `Drained` | its third case, and the inner loop |
| `FinalEncode`, `FinalRename`, `FinalPersistFails`, `ShutdownReturns` | the last `persist` and the end of `loop` |
| `TimerFire`, `TimerEncode`, `TimerRename`, `TimerPersistFails` | the function run by `time.AfterFunc` |
| `Shutdown` | `close(dms.drain)` in `Shutdown` |
| `Restart` | the end of the process at any point, and `NewDiskMetricStore` with `restore` |

The loop compares `lastWrite`, `lastPersist` and `persistStarted`. Two readings
of the (monotonic) clock are assumed to differ, so that two flags say all there
is to their order: `writtenSincePersist` and `writtenSinceStart`. The delay of
the timer is left out: it may fire at any time.

`applied`, and `upTo` in the file, are history: how many requests the contents
reflect. `KeepsPromises` is the refinement: `DiskMetricStore` implements
`MetricStore`, with `submitted` as the queue and the request in hand, and
`outcome` read from the Done channel.

### `Pushgateway`

The process around the store, as an extension of `DiskMetricStore`: a caller of
the store becomes the goroutine that handles an HTTP request, and each step is
one of the store or leaves the store alone. `handler` says what each goroutine
does; `server`, `quitCh`, `signalled` and `process` are what `main.go` starts
and stops. `arrivals` is the clock: it advances with each request, at the moment
its handler takes the time. `accepted` and `refused` are history: the
timestamps of pushes answered with 200 and 400.

| action | code |
|---|---|
| `Receive`, `Submit` | `Push` and `Delete` up to `time.Now()`; their `SubmitWriteRequest` |
| `AnswerError`, `Answer` | `Push`, lines 140-160: `for err := range errCh` |
| `Wipe`, `WipeGroup`, `WipeReturns` | `WipeMetricStore`: the snapshot, the deletes, the end of the handler, when its 202 is sent |
| `Quit`, `Signal` | the quit handler; SIGINT and SIGTERM |
| `ShutdownServerOnQuit`, `ServeFails` | `shutdownServerOnQuit` up to the return of `web.ListenAndServe`; its return for another reason |
| `MainShutdown`, `Exit` | `ms.Shutdown()` at the end of `main`, and its return |

`net/http` and `exporter-toolkit` are modelled by how `main.go` relies on them:
`ListenAndServe` returns as soon as `server.Shutdown` has begun, running
handlers go on, and a panic in a handler (a second quit request) is recovered.

`late` in `DiskMetricStore` counts the requests submitted after `Shutdown` has
been called. `SubmitWriteRequest` has no guard against them.

### `Exposition`

`GetMetricFamilies` and `GetMetricFamiliesMap` with the locks, and the pushes
and deletes that run next to them. In the other modules the contents are
values; here metric families and the maps that hold them are objects on a heap
(`families`, `maps`), since what could go wrong is sharing. A sample is
identified by the family it was pushed with. Gathering is one step per stored
family (`AddFamily`, `MergeFamily`), in the orders Go's map iteration may
choose, by a reader or by the store's own check, which gathers from a copy
(`CheckWriteRequest`, `GatherTrial`, `Verdict`). `original` is history: each
family as it was made.

The verdict of the check is open here; `MetricGroups` says what it depends on.
Conversely `MetricGroups` takes the merged families to be those of all groups,
which is what `GatheredFaithful` says. A copy of the maps is taken in one step:
readers hold the read lock meanwhile, and the loop, which takes one for its
check, is the only writer.

### `Histograms`

`NewModelHistogram`, `GetAPIBuckets` and `makeBucket` as operators, on top of
the bucket iterators of the Prometheus library (`PositiveBuckets`,
`NegativeBuckets`), which are modelled by their results: spans give indexes,
deltas add up to counts, and bounds are those of schema 0, in units of 1/16 so
that they are integers. `GetAPIFloatBuckets` is the same function for another
type of count. `CountsObservations` is what the list of buckets must be, in
terms of the values a client observed.

### `RestDictionary`

The abstract specification of the HTTP interface: a dictionary from label sets
to named families, as the API shows them. A PUT replaces the families of a
group, a POST those of the same names, a DELETE removes the group; a push that
is refused changes nothing but the failure time; what is malformed is ignored.
It has no paths, encodings, keys or JSON.

### `HttpApi`

`MetricStore` between the handlers that fill it and the API that shows it.

| action | code |
|---|---|
| `Serve` | `Push` and `Delete` with `splitLabels`, `decodeBase64` and the body parsing, up to `SubmitWriteRequest` |
| `BadRequest` | all their ways to answer 400, and that of `decodeRequest` |
| `HandleNext`, `Reply` | the store handles a request; its caller is answered |

The query is the operator `metricResponse`, with `makeEncodableMetrics` and what
it calls; it changes no state. What base64 texts decode to and what escaped
names stand for are tables given as constants (`RawURLEncoding`,
`EscapedNames`, `LegacyNames`, `ReservedTexts`): the libraries that compute
them are trusted, and so is `net/http`, which undoes percent-encoding (`pieces`). `coding` and `broken` say what a body really is, as opposed to
what its header says. In the text format each family begins with a TYPE line.

Each request carries what its client means (`meant`), which the handlers do not
look at. `ServesDictionary` is the refinement: with `dict` read off the JSON
objects of the query API and nothing else (`ResponsesFor`, `Told`), `HttpApi`
implements `RestDictionary`. `ignored` says what the last
malformed request meant, so that the refinement fails if a meaningful one is
turned away.

### `MCMetricStore`, `MCDiskMetricStore`, `MCPushgateway`, `MCExposition`, `MCHttpApi`

The requests, and the Pushgateway's own families, for the runs.

### `MetricStoreProofs`, `DiskMetricStoreProofs`, `PushgatewayProofs`, `ExpositionProofs`, `HttpApiProofs`

Theorems about the module of that name and their proofs, see below.
`MetricGroupsProofs` holds lemmas about the operators of `MetricGroups` (what
handling a request does to its group and to the others) that several of them
use; `RefinementProofs` proves that `DiskMetricStore` implements `MetricStore`,
and `AnswersProofs` uses that for the statuses sent by `Pushgateway`.

## Runs

Runs that pass:

* `contents` (`HttpApi`): all sequences of three HTTP requests, with three
  timestamps in any order. They mean eleven things, chosen so that every branch
  of the code is taken: three groups, two of which differ only in an explicit
  empty instance label; PUT, POST and DELETE; a family that collides with itself
  once the grouping labels are set, one with a timestamp, one that clashes in
  type with another group or with the Pushgateway itself, bodies that carry a
  push metric, native, float and classical histograms and a summary. Each meaning comes in a plain encoding, some also in others:
  base64 for labels or the job, with and without padding; escaped names; a label
  named twice; a label named job; a gzipped text; a family given twice; a DELETE
  with a broken body. Eleven malformed requests take every way to a 400. Three
  requests are enough to set up two groups and then disturb them. Checked: every
  group is well formed (`GroupsWellFormed`); an accepted push leaves everything
  gatherable (`AcceptedPushesGather`); requests leave other groups alone
  (`OtherGroupsUntouched`); a rejected push loses nothing
  (`RejectedPushLosesNothing`); the failure time survives later pushes
  (`FailureTimeRetained`); `LastPushSuccess` reports the last push
  (`LastPushReported`); buckets count observations (`BucketsCountObservations`);
  and what the JSON of the API says is what the clients meant
  (`ServesDictionary`). No family is pushed under the name `labels` or
  `last_push_successful`: the API assigns families after these fixed keys, so
  that such a family takes the place of the grouping labels or of the verdict,
  which the example in the repository's README (lines 518-525) has there.
  `ServesDictionary` reads them off the JSON, and with `Post(G1, "labels" :> Plain)`
  among the requests TLC finds it violated in two steps.
  The histograms have gaps between spans, a span without length, empty buckets,
  observations on bounds from either side of zero and in the zero bucket.
* `loop_safety` (`DiskMetricStore`): two callers, a push that is accepted, one
  that is rejected, a delete, three submissions, queue capacity 1, disk faults,
  shutdown, one crash anywhere. Checked: `KeepsPromises`, `DrainedToDisk`,
  `NoWaiterForgotten`, `OnePersistAtATime`.
* `loop_liveness`: the same without crash, disk faults and deletes, under fairness.
  Checked: `EveryWaiterAnswered`, `ShutdownTerminates`,
  `AllButTheLastPersisted`, and the invariant `LagAtMostOne`, which is void when
  the disk fails.

Capacity 1 with two callers makes a full queue and a blocked caller happen.
Three submissions are enough for a write before, during and after a persist.

* `gateway_safety` (`Pushgateway`): two handlers, queue capacity 1, three
  requests among two pushes that are accepted (to two groups), one that is
  rejected, deletes and wipes; quit requests, a signal and a failing listener at
  any time. No persistence file and no crash: those are `loop_safety`'s. Checked:
  `GatewayTypeOK`, and that the statuses sent and the push metrics tell the same
  story (`AnswersAgreeWithMetrics`).
* `gateway_liveness`: the same with one group and quit requests only, under
  fairness. Checked: a wipe removes what it has found (`WipeRemovesSnapshot`);
  every request is answered or cut off by the end of the process
  (`EveryHandlerEnds`); a quit ends the process (`QuitEndsProcess`). The last
  holds because nobody waits for the handlers: those whose requests are drained
  never get an answer, and the mutated form `ExitWhenIdle` hangs.
* `exposition` (`Exposition`): two groups, three pushes out of four kinds to
  either, deletes, and one gathering or snapshot besides those of the check.
  Two groups that hold the same name make a merge happen, in the reader and in
  the check at once; the pushes include one whose help string must be changed,
  one that skips the check and one with timestamps. Three pushes let a result be
  kept while its group changes. Checked: `StoredUnchanged`, `GatheredFaithful`,
  `SnapshotStable`, `CheckIsDry`.

Runs that show where the code and its documentation disagree; each checks one
property:

* `last_write`: `lastWrite` is set before the write is done (line 232), so a
  persist that begins in between misses the write, and nothing is scheduled for
  it. `NewDiskMetricStore` promises a persist after every write action.
  `LagAtMostOne` says how bad it gets: one write.
* `drain_done`: requests handled while `Shutdown` drains the queue do not get
  their Done channel closed (lines 253-258). The property is about callers that
  submitted before `Shutdown` was called (`late = 0`): what comes later need not be
  processed (`interface.go:50-52`), and a channel is closed only once it is.
* `stale_persist`: a persist that runs when `Shutdown` is called may rename its
  older file over the final one. `DrainedToDisk` says what holds nevertheless.
* `grouping_key` (`MetricStore`): a value that came base64 or percent encoded may
  contain the byte that `groupingKeyFor` joins with, and two groups of different labels
  then have one key; a request to the one acts on the other. "The grouping key is
  both reproducible and unique" (lines 460-461) holds without such values.
* `own_push_metrics`: `push_failure_time_seconds` in a request body wins over
  the store's own in a group that already has one.
* `gatherable`: a rejected push to `{job="a", instance=""}` after a push to
  `{job="a"}` leaves two push metrics that collide with those of the other
  group; all scrapes fail from then on. (A rejected push to a group with a label
  value that is not UTF-8 has the same effect.) README lines 391-394 admit that
  an inconsistent set may be there "in rare cases", and not how it comes about.

Deadlock checking is off: a server without requests, and one that has shut
down, stop rightly. That nobody waits in vain is what the liveness properties
say.

## Fairness

`FairSpec` assumes weak fairness of the loop as a whole, of the timer's
goroutine, and of each caller's receiving: goroutines that can run do run,
timers fire, a handler that has submitted reads its channel. Nobody has to
submit a request, to shut down or to restart. With unboundedly many requests
the loop's select would also have to choose a ready `persistDone` or `drain`
eventually, which Go's random choice does; the bounded runs do not need that.

`GatewayFairSpec` assumes weak fairness of the loop, of the timer, of the
goroutine that waits for the end, of `main`, and of each handler, while the
process lives. Clients need not send anything, and serving need not fail.

## Proofs

Of the liveness properties none is proved: fairness is out of the prover's
reach. What `EveryWaiterAnswered` rests on, that until the queue is drained a
waiting caller always has a request that the loop has yet to finish, is a
safety property, `NoWaiterForgotten`, and is proved; that the loop does finish it
is left to TLC. All results below hold for every value of the constants that the named
assumptions allow.

`MetricGroupsProofs` proves, besides the lemmas on what handling a request does
to the groups, `PlainKeysDiffer`: two label sets whose values have no separator
byte in them and whose grouping keys are equal are equal. `groupingKeyFor` joins
names and values in the order of the names by `FlattenSeq`. Such a fold cannot be
unfolded for all arguments with the library's induction theorems, so the lemmas
argue by least elements: if some position were not as claimed, there would be a
first one (`LeastNatural`), and the one before it shows that it is.

`MetricStoreProofs` proves, with the assumptions of `MetricGroups` and
`MetricStore`:

* `StoreTypes`: `TypeOK`, inductive as it stands.
* `GroupsStayWellFormed`, `OthersStayUntouched`, `FailureTimesRetained`, under
  the hypothesis `KeysDistinct`: requests of different labels have different
  grouping keys. That it is needed is what the run `grouping_key` shows;
  `PlainRequestsSuffice` proves that it holds where no label value contains the
  separator byte. The inductive invariant `StoreInv` adds to `GroupsWellFormed` that
  the labels of a group are those of some request, for only then can
  `KeysDistinct` compare them with those of the request at hand.
* `PlainKeysAreUnique`: with such values, a request meets only a group of its own
  labels under its key (`KeysAreUnique`), for which the run `grouping_key` has the
  counterexample with other values.
* `AcceptedPushesStayGatherable`: with the check enabled, an accepted push
  leaves the store gatherable, and only a rejected one can end that. No
  invariant is needed: it is the check itself that guarantees it, provided the
  store is not changed between check and application, which is
  `DiskMetricStore`'s business.
* `RejectedPushesLoseNothing` needs no invariant either.
* `LastPushIsReported`, from `PushTimesInv`: the push metrics of every group hold
  numbers, whatever was pushed under their names, so that they can be compared.

`HttpApiProofs` proves first that `HttpSpec => Spec` of `MetricStore`
(`HttpImplementsStore`), given that what well-formed requests submit is among
`Requests`, which is no more than what the definitions of the handlers say; and
with it `HttpStoreSafe`: the results above hold behind the handlers.

`RequestsReadBack` is about the encodings. `Says` defines, in terms of the
tables and not of what the parsers return, when a request over HTTP says some
labels and families: values that stand for themselves or for what their base64
text decodes to, with any padding; pairs in any order; escaped names; several
values for one name, of which the last counts, and none of those for `job`;
bodies of either format and coding, where the text format loses families without
samples. The theorem says that the parsers accept such a request and get out
just what it says. Its lemmas are about the last place at which a name occurs
(`LastPlace`).

`ApiServesDictionary` is that refinement of `RestDictionary` which is the property
`ServesDictionary`. Its hypotheses are about the tables of requests only
(`DictionaryHypotheses`). Grouping keys are unique. Each request says what is meant
by it, or is one that the parsers refuse (`MeantAsSaid`; that nothing meaningful is
refused beyond what `Says` covers is not proved: in the run, meanings are written by
hand). No request is taken for none (`NoMeaningApart`). No family is pushed under
the name of a fixed key, for the reason given with the run `contents`, and a
`push_failure_time_seconds` that is pushed is a gauge, since the API shows other
types differently (`PlainlyPushed`). The invariant `ApiInv` adds to `TypeOK` and
`StoreInv` that this is so in the store (`AllPlain`), and that the queue of the store
holds what has been asked of the dictionary, in its order and with the same times
(`QueuedAsMeant`). Submitting a request is then asking the dictionary (`ServeAsks`);
handling it is the dictionary's step for it, which takes a lemma for each of what
the JSON of a group says (`ToldOfGroup`): its labels, its families, the values of its
push metrics and the outcome of its last push. TLC has evaluated the hypotheses on
the instance of the run, and checked `AllPlain` there.

The last result is `BucketsCountTruly`: `BucketsCountObservations`, if the native
histograms that are pushed are well made (`HistogramsWellMade`). They have
observations in the fields of their own kind, floats or integers. And the
buckets of their two sides, as the iterators of the library yield them, lie
outwards from the zero bucket, each counts the observations that it holds, and
each observation is held by some bucket. That the iterators yield such buckets
from spans and deltas is external: the run checks it on examples written by hand.
What is proved is what the repository's own code does with them: it takes the
counts of the right kind (`MeantIsShown`), leaves out empty buckets and no other
(`OccupiedKeeps`, by induction over the list), turns the negative ones round so
that the list ascends (`RowAscends`), and encodes which bounds belong to a bucket
(`ShownBucket`). The invariant `HistogramInv` says that requests in the queue were
submitted by handlers and that every stored histogram has been pushed over HTTP.
TLC has checked `HistogramsWellMade` and `HistogramInv` on the instance of the run.

`DiskMetricStoreProofs` proves, for all callers, requests, capacities, bounds
and flags allowed by the assumptions of `MetricGroups` and `DiskMetricStore`:

* `TypeCorrect`: `TypeOK`, inductive as it stands.
* `PersistsOneAtATime`, `FileLagsByAtMostOne`, `ShutdownDrainsToDisk`: the
  properties of those names in `DiskMetricStore`, from one inductive invariant
  `IInv`. None of them is inductive alone. `ScheduleInv` ties `persistScheduled`
  to the timer; `PhaseInv` ties `loop`, `draining` and `shutdown` together.
  `LagInv` follows a persist through its stages: an image misses at most the
  write that was under way when it was begun, unless `writtenSinceStart` says
  that there may be more; and when the persist is over that flag becomes
  `writtenSincePersist`, which makes the loop schedule the next. `DrainInv`
  does the same for the final persist.
* `NobodyForgotten`: `NoWaiterForgotten`, which with `TypeOK` is inductive: a
  request enters the queue in the step in which its caller begins to wait,
  moves from its head to the loop (`ShorterQueue`), and the step that lets it go
  closes the channel, whether an error was sent on it or not. Only the inner
  loop lets go without closing, which is the run `drain_done`.

TLC has checked `IInv` on the instances of the runs above.

`RefinementProofs` proves `StoreKeepsPromises`: `Spec => KeepsPromises`, with
crashes and under the same assumptions. The invariant `WaitInv` is what the
mapping needs: no caller waits for two requests at once, so that its outcome can
be read off its Done channel (`DistinctInv`); the channel of a request that is
queued is fresh (`QueueInv`); and what the check has found is still true when the
loop acts on it, since nobody else changes the contents (`HandInv`). Each action
is then shown to be one of `MetricStore` or invisible there: taking a request,
checking it and closing its channel are invisible; the change of the contents is
`HandleRequest`. `MetricStore` comes by `INSTANCE`, and so has its own copies of
the operators of `MetricGroups`; the lemmas `Same...` say that they are equal.

`PushgatewayProofs` proves, with the assumptions of `Pushgateway` besides:

* `GatewayTypeCorrect`: `GatewayTypeOK`.
* `GatewayImplementsStore`: `GatewaySpec => Spec`, with the variables of the
  store as they are. What has to be shown is that handlers use the store as its
  specification allows: the write requests that pushes, deletes and wipes
  submit are among `WriteRequests`, with a time and a caller who is not waiting
  yet. For a wipe this needs `LabelsInv`: the groups in the store, in the
  persistence file and in the image of a persist have labels that some request
  has, so that their deletes are requests. The invariant `GatewayInv` is
  `TypeOK`, `LabelsInv`, `GatewayTypeOK` and `ClockInv` (a wipe under way
  means that the clock has started).
* `GatewayDrainsToDisk` and `GatewayForgetsNobody`: `DrainedToDisk` and
  `NoWaiterForgotten` for the whole process, which follow from
  `GatewayImplementsStore` and the theorems about the store.

`AnswersProofs` proves, for any handlers, requests and queue capacity:

* `GatewayKeepsPromises`: the store of the process keeps the promises of
  `MetricStore`.
* `GatewayAnswersAgree`: `AnswersAgreeWithMetrics`, under two hypotheses. The
  check is enabled (`Checked`); otherwise pushes are answered with 202, and there
  is nothing to compare. No body
  brings a `push_failure_time_seconds` along (`NoFailureTimesPushed`); the run
  `own_push_metrics` shows what such a body does, and it could show the time of
  an accepted push. The invariant `AnswersInv` says that no two requests have one
  time and that none is answered twice (`TimesInv`), that requests in the store
  belong to handlers that wait for them (`HeldInv`), and of each time that a
  group shows as a success: it has not been answered with 400, and if its
  handler has not answered yet, the outcome of its request is "ok"; likewise for
  failures (`GroupsInv`). Here `outcome` is that of the refinement.

`ExpositionProofs` proves, for any number of readers and groups and any
families:

* `HeapTypes`: `TypeOK`. Its strengthening `TypeInv` says for every map and every
  gathering under way that what it refers to is on the heap and carries the name
  it is filed under, and that the check gathers only while the loop waits for it
  (`LockInv`).
* `StoredStaysUnchanged`: `StoredUnchanged`, that no stored family is ever
  changed in place. The invariant `StoredInv` keeps two sets of families apart:
  those that some map or the request at hand refers to, which are as they were
  made, and the copies a gathering has made for its result, which it may change
  and to which nothing else refers.
* `SnapshotsStayStable`: `SnapshotStable`. The invariant `SnapshotInv` says that
  the maps of a snapshot are none of those in which the loop replaces families.
* `ChecksAreDry`: `CheckIsDry`, that a check changes nothing that is stored.
* `GatheringsStayFaithful`: `GatheredFaithful`, from two more invariants.
  `OwnersInv` says that no two grouping keys share a family, in whatever maps
  they have had, and that a stored family has its own sample only, so that
  gathering two groups cannot bring one sample twice. `ReadingInv` says of each
  gathering that its result holds each name it has visited once, with just the
  samples visited under it (`CollectedOK`), and of each two that what one may
  still change is not in the result of the other (`Apart`). No induction over
  the samples is needed, since each step adds one (`NameAdded`, `NameMerged`);
  when nothing is left to visit, what has been visited is what was stored
  (`EndedReading`).

TLC has checked `OwnersInv` and `ReadingInv` on the instance of the run.

Only model-checked: all liveness. Of the safety properties that runs check each is
proved, some under the hypotheses named above; what the library's iterators of
buckets compute from spans and deltas is not proved but assumed.

## Not modelled

* `computeRoutePrefix` and the routes of `main.go`: they say under which prefix
  the handlers are mounted, which nothing else depends on.
* The status page, static files, assets, instrumentation, health and readiness:
  library code around values that no property depends on. The status handler's
  unsynchronised assignment to `pathPrefix` (`hazards`) always writes one value.
* CORS headers and JSON marshalling; the sums of summaries and histograms;
  `/status` of the API, which returns constants.
* Libraries: the parsers of the two body formats, base64, the escaping of names,
  the iterators of histograms with other schemas or custom buckets.
* Decoding a damaged persistence file, and a crash of the machine (as opposed
  to the process) between rename and write-back.
* The consistency check is modelled for types, label sets and UTF-8. Other
  reasons that the client library has for refusing families (invalid names,
  quantiles and buckets) are left out.
* A missing family in a stored group (`diskmetricstore.go:150-154`), which only a
  damaged persistence file can bring about.
* A second quit request beyond what `net/http` makes of its panic, namely nothing.
* What the models could say but the runs do not: a family called `labels` or
  `last_push_successful` is shown in place of the fixed key; a float histogram
  without observations is converted as an integer one; a pushed failure time that
  is no gauge is shown in the form of its type. The first two are in `hazards`.

## Plan

1. `MetricGroups`, `MetricStore`, `DiskMetricStore`, first proofs (done).
2. `Pushgateway`: handlers, wipe, server, `main`; proofs (done).
3. `Exposition`: sharing of families between store, readers and check (done).
4. `HttpApi`, `Histograms`, `RestDictionary`: encodings, joined grouping keys, the
   query API and its buckets (done).
5. Proofs about `MetricStore`, `HttpApi` and `Exposition` (done).
6. Proofs of the refinement `KeepsPromises` and of `AnswersAgreeWithMetrics` (done).
7. Proofs that grouping keys of plain labels are unique, that encoded requests read
   back, that the API serves the dictionary, of `GatheredFaithful` and of
   `BucketsCountObservations` (done).
