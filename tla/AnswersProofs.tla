---------------------------- MODULE AnswersProofs ----------------------------
(***************************************************************************)
(* The statuses that pushes are answered with agree with the push metrics: *)
(* the proof of AnswersAgreeWithMetrics, for any handlers, requests and    *)
(* queue capacity.  It rests on the refinement: the outcome of a caller's  *)
(* request says what its handler will answer.                              *)
(***************************************************************************)
EXTENDS PushgatewayProofs, RefinementProofs, MetricGroupsProofs

\* No body brings a failure time along.
NoFailureTimesPushed ==
  \A r \in Requests : r.families # NoFamilies => pushFailedMetricName \notin DOMAIN r.families

PushTime(group) == GaugeValue(group.metrics[pushMetricName].family)
FailTime(group) == GaugeValue(group.metrics[pushFailedMetricName].family)

\* A handler that deals with a push or a delete, and its time.
Asks(c)   == handler[c].at \in {"submit", "wait"}
TimeOf(c) == handler[c].request.timestamp

\* Two requests never have one time, and none is answered twice.
TimesInv ==
  /\ accepted \cup refused \subseteq 1 .. arrivals
  /\ \A c \in Callers : Asks(c) =>
       /\ TimeOf(c) \in 1 .. arrivals
       /\ TimeOf(c) \notin accepted
       /\ TimeOf(c) \in refused => caller[c] = "failed"
  /\ \A c, d \in Callers : (Asks(c) /\ Asks(d) /\ TimeOf(c) = TimeOf(d)) => c = d

\* The request in the store is that of the handler that waits.
WaitedFor(wr) ==
  wr.done # NoDone => handler[wr.done].at = "wait" /\ wr.timestamp = TimeOf(wr.done)

HeldInv ==
  /\ \A i \in DOMAIN writeQueue : WaitedFor(writeQueue[i])
  /\ loop \in {"check", "process", "fail", "ack"} => WaitedFor(current[1])

\* A time of success was not answered with 400, and will not be; a time of failure
\* not with 200.
SuccessAt(t) ==
  /\ t \in 0 .. arrivals /\ t \notin refused
  /\ \A c \in Callers : (Asks(c) /\ TimeOf(c) = t) => outcome[c] = "ok"

FailureAt(t) ==
  /\ t \in 0 .. arrivals /\ t \notin accepted
  /\ \A c \in Callers : (Asks(c) /\ TimeOf(c) = t) => outcome[c] = "rejected"

GroupsInv ==
  \A k \in DOMAIN metricGroups :
    /\ pushMetricNames \subseteq DOMAIN metricGroups[k].metrics
    /\ SuccessAt(PushTime(metricGroups[k]))
    /\ FailureAt(FailTime(metricGroups[k]))

AnswersInv == TimesInv /\ HeldInv /\ GroupsInv

LEMMA AnswersInvSuffices == GroupsInv => AnswersAgreeWithMetrics
BY DEF GroupsInv, SuccessAt, FailureAt, PushTime, FailTime, AnswersAgreeWithMetrics

-----------------------------------------------------------------------------
(* What handling a request does to the push metrics.                       *)

HavePushMetrics(groups) ==
  \A k \in DOMAIN groups : pushMetricNames \subseteq DOMAIN groups[k].metrics

\* A time that is shown is zero, was shown before, or is that of the request.
LEMMA HandledTimes ==
  ASSUME NoFailureTimesPushed, NEW groups, HavePushMetrics(groups),
         NEW wr \in WriteRequests, NEW new, new = Handle(groups, wr), NEW k \in DOMAIN new
  PROVE  /\ pushMetricNames \subseteq DOMAIN new[k].metrics
         /\ \/ PushTime(new[k]) = ZeroTime
            \/ k \in DOMAIN groups /\ PushTime(new[k]) = PushTime(groups[k])
            \/ ~IsDelete(wr) /\ checkWriteRequest(groups, wr)
                 /\ PushTime(new[k]) = wr.timestamp
         /\ \/ FailTime(new[k]) = ZeroTime
            \/ k \in DOMAIN groups /\ FailTime(new[k]) = FailTime(groups[k])
            \/ ~checkWriteRequest(groups, wr) /\ FailTime(new[k]) = wr.timestamp
<1> PICK key : groupingKeyFor(wr.labels) = key
  OBVIOUS
<1> PICK old : old = MetricsOf(groups, key)
  OBVIOUS
<1>1. k # key => k \in DOMAIN groups /\ new[k] = groups[k]
  BY HandleOthers
<1>2. \A n \in DOMAIN old : key \in DOMAIN groups /\ old = groups[key].metrics
  BY DEF MetricsOf
<1>3. CASE k # key
  BY <1>1, <1>3 DEF HavePushMetrics
<1>4. CASE k = key /\ checkWriteRequest(groups, wr) /\ IsDelete(wr)
  <2>1. new = Drop(groups, {key})
    BY <1>4 DEF Handle, processWriteRequest, sanitizeRequest
  <2> QED
    BY <1>4, <2>1 DEF Drop, Restrict
<1>5. CASE k = key /\ checkWriteRequest(groups, wr) /\ ~IsDelete(wr)
  <2> PICK sane : sane = sanitizeRequest(wr)
    OBVIOUS
  <2>1. /\ ~IsDelete(sane) /\ groupingKeyFor(sane.labels) = key
        /\ sane.timestamp = wr.timestamp
        /\ DOMAIN sane.families = DOMAIN wr.families
    BY <1>5, AcceptedRequest
  <2>2. pushFailedMetricName \notin DOMAIN wr.families
    BY <1>5 DEF NoFailureTimesPushed, WriteRequests, WriteRequest, IsDelete
  <2>3. new = processWriteRequest(groups, sane)
    BY <1>5 DEF Handle
  <2>4. /\ pushMetricNames \subseteq DOMAIN new[key].metrics
        /\ new[key].metrics[pushMetricName].family
             = newTimestampGauge(sane.labels, sane.timestamp)
        /\ pushFailedMetricName \in DOMAIN old =>
             new[key].metrics[pushFailedMetricName] = old[pushFailedMetricName]
        /\ pushFailedMetricName \notin DOMAIN old =>
             new[key].metrics[pushFailedMetricName].family
               = newTimestampGauge(sane.labels, ZeroTime)
    BY <2>1, <2>2, <2>3, AcceptMetrics
  <2>5. PushTime(new[key]) = wr.timestamp
    BY <2>1, <2>4, OwnGaugeValue DEF PushTime
  <2>6. \/ FailTime(new[key]) = ZeroTime
        \/ key \in DOMAIN groups /\ FailTime(new[key]) = FailTime(groups[key])
    BY <1>2, <2>4, OwnGaugeValue DEF FailTime
  <2> QED
    BY <1>5, <2>4, <2>5, <2>6
<1>6. CASE k = key /\ ~checkWriteRequest(groups, wr)
  <2>1. new = setPushFailedTimestamp(groups, wr)
    BY <1>6 DEF Handle
  <2>2. /\ pushMetricNames \subseteq DOMAIN new[key].metrics
        /\ new[key].metrics[pushFailedMetricName].family
             = newTimestampGauge(wr.labels, wr.timestamp)
        /\ pushMetricName \in DOMAIN old =>
             new[key].metrics[pushMetricName] = old[pushMetricName]
        /\ pushMetricName \notin DOMAIN old =>
             new[key].metrics[pushMetricName].family
               = newTimestampGauge(wr.labels, ZeroTime)
    BY <2>1, FailMetrics DEF pushMetricName, pushFailedMetricName
  <2>3. FailTime(new[key]) = wr.timestamp
    BY <2>2, OwnGaugeValue DEF FailTime
  <2>4. \/ PushTime(new[key]) = ZeroTime
        \/ key \in DOMAIN groups /\ PushTime(new[key]) = PushTime(groups[key])
    BY <1>2, <2>2, OwnGaugeValue DEF PushTime
  <2> QED
    BY <1>6, <2>2, <2>3, <2>4
<1> QED
  BY <1>3, <1>4, <1>5, <1>6

-----------------------------------------------------------------------------
(* Every step keeps the invariant.                                         *)

\* What the store still holds is that of handlers that wait.
LEMMA HeldKept ==
  ASSUME HeldInv, UNCHANGED <<handler, writeQueue>>,
         loop' \in {"check", "process", "fail", "ack"} =>
           loop \in {"check", "process", "fail", "ack"} /\ current' = current
  PROVE  HeldInv'
BY DEF HeldInv, WaitedFor, TimeOf

\* A step of the store that neither handles a request nor answers one.
LEMMA UnseenStep ==
  ASSUME AnswersInv, UNCHANGED <<metricGroups, handler, arrivals, answers>>,
         caller' = caller, outcome' = outcome, HeldInv'
  PROVE  AnswersInv'
<1>1. TimesInv'
  BY DEF AnswersInv, TimesInv, Asks, TimeOf, answers
<1>2. GroupsInv'
  BY DEF AnswersInv, GroupsInv, SuccessAt, FailureAt, Asks, TimeOf, answers
<1> QED
  BY <1>1, <1>2 DEF AnswersInv

\* A request that arrives has a time of its own.
LEMMA ArrivesStep ==
  ASSUME GatewayTypeOK, AnswersInv, outcome' = outcome,
         NEW c \in Callers, NEW doing, Arrives(c, doing), doing.at # "wait",
         doing.at = "submit" => doing.request.timestamp = arrivals + 1
  PROVE  AnswersInv'
<1>1. /\ handler[c].at = "free" /\ arrivals' = arrivals + 1 /\ arrivals \in Nat
      /\ UNCHANGED <<metricGroups, writeQueue, loop, current, caller, accepted, refused>>
      /\ handler' = [handler EXCEPT ![c] = doing]
  BY ArrivalsAssumption
     DEF Arrives, Free, vars, contents, clientVars, answers, GatewayTypeOK
<1>2. handler'[c] = doing /\ \A d \in Callers \ {c} : handler'[d] = handler[d]
  BY <1>1 DEF GatewayTypeOK
<1>3. /\ Asks(c)' => TimeOf(c)' = arrivals + 1
      /\ \A d \in Callers \ {c} : (Asks(d)' <=> Asks(d)) /\ TimeOf(d)' = TimeOf(d)
  BY <1>2 DEF Asks, TimeOf
<1>4. TimesInv'
  BY <1>1, <1>3 DEF AnswersInv, TimesInv
<1>5. HeldInv'
  BY <1>1, <1>2 DEF AnswersInv, HeldInv, WaitedFor, TimeOf
<1>6. ASSUME NEW t PROVE /\ SuccessAt(t) => SuccessAt(t)'
                         /\ FailureAt(t) => FailureAt(t)'
  BY <1>1, <1>3 DEF SuccessAt, FailureAt
<1>7. GroupsInv'
  BY <1>1, <1>6 DEF AnswersInv, GroupsInv, PushTime, FailTime
<1> QED
  BY <1>4, <1>5, <1>7 DEF AnswersInv

\* A request is queued, and handlers that wait go on waiting.
LEMMA HeldGrows ==
  ASSUME TypeOK, HeldInv, NEW wr \in WriteRequests, writeQueue' = Append(writeQueue, wr),
         UNCHANGED <<loop, current>>, WaitedFor(wr)',
         \A d \in Callers : handler[d].at = "wait" => handler'[d] = handler[d]
  PROVE  HeldInv'
<1>1. ASSUME NEW r, r.done \in Callers \cup {NoDone}, WaitedFor(r)
      PROVE  WaitedFor(r)'
  BY <1>1 DEF WaitedFor, TimeOf
<1>2. /\ DOMAIN writeQueue' = DOMAIN writeQueue \cup {Len(writeQueue) + 1}
      /\ \A i \in DOMAIN writeQueue : writeQueue'[i] = writeQueue[i]
      /\ writeQueue'[Len(writeQueue) + 1] = wr
  BY DEF TypeOK
<1>3. ASSUME NEW i \in DOMAIN writeQueue PROVE WaitedFor(writeQueue[i])'
  <2>0. PICK r : r = writeQueue[i]
    OBVIOUS
  <2>1. WaitedFor(r)'
    BY <1>1, <2>0, RequestsInHand DEF HeldInv
  <2>2. writeQueue'[i] = r
    BY <1>2, <2>0
  <2> QED
    BY <2>1, <2>2 DEF WaitedFor, TimeOf
<1>4. ASSUME loop \in {"check", "process", "fail", "ack"} PROVE WaitedFor(current[1])'
  <2>0. PICK r : r = current[1]
    OBVIOUS
  <2>1. WaitedFor(r)'
    BY <1>1, <1>4, <2>0, RequestsInHand DEF HeldInv
  <2> QED
    BY <2>0, <2>1 DEF WaitedFor, TimeOf
<1> QED
  BY <1>2, <1>3, <1>4 DEF HeldInv, WaitedFor, TimeOf

\* A handler hands its request to the store.
LEMMA HandlerSubmits ==
  ASSUME TypeOK, TypeOK', WaitInv, GatewayTypeOK, AnswersInv, NEW c \in Callers, Submit(c)
  PROVE  AnswersInv'
<1>0. PICK wr : wr = handler[c].request
  OBVIOUS
<1>1. /\ handler[c].at = "submit" /\ wr \in WriteRequests /\ c # NoDone
      /\ handler[c] \in [at : {"submit", "wait"}, request : WriteRequests]
  BY <1>0, NoDoneAssumption DEF Submit, GatewayTypeOK, Handlers, Free
<1>2. Promised!SubmitWriteRequest(c, wr)
  BY <1>0, <1>1, SubmitStep DEF Submit
<1>3. /\ caller[c] = "idle" /\ wr.done \in {c, NoDone}
      /\ writeQueue' = Append(writeQueue, wr)
      /\ UNCHANGED <<metricGroups, loop, current, arrivals, accepted, refused>>
      /\ handler' = [handler EXCEPT ![c] =
                       IF wr.done = NoDone THEN Free ELSE [handler[c] EXCEPT !.at = "wait"]]
      /\ caller' = [caller EXCEPT ![c] = IF wr.done = c THEN "waiting" ELSE "idle"]
  BY <1>0 DEF Submit, SubmitWriteRequest, Enqueue, contents, answers
<1>4. /\ \A d \in Callers \ {c} : handler'[d] = handler[d] /\ caller'[d] = caller[d]
      /\ wr.done = NoDone => handler'[c].at = "free"
      /\ wr.done # NoDone => handler'[c] = [at |-> "wait", request |-> wr]
  BY <1>0, <1>1, <1>3 DEF GatewayTypeOK, TypeOK, Free
<1>5. \A d \in Callers : Asks(d)' => Asks(d) /\ TimeOf(d)' = TimeOf(d)
  BY <1>0, <1>1, <1>4 DEF Asks, TimeOf
<1>6. TimesInv'
  BY <1>3, <1>4, <1>5 DEF AnswersInv, TimesInv
<1>7. HeldInv'
  <2>1. WaitedFor(wr)'
    BY <1>3, <1>4 DEF WaitedFor, TimeOf
  <2>2. \A d \in Callers : handler[d].at = "wait" => handler'[d] = handler[d]
    BY <1>1, <1>4
  <2> QED
    BY <1>1, <1>3, <2>1, <2>2, HeldGrows DEF AnswersInv
<1>8. /\ outcome[c] = "none"
      /\ \A d \in Callers \ {c} : outcome'[d] = outcome[d]
  BY <1>2, Outcomes DEF Promised!SubmitWriteRequest, OutcomesKnown
<1>9. ASSUME NEW t PROVE /\ SuccessAt(t) => SuccessAt(t)'
                         /\ FailureAt(t) => FailureAt(t)'
  BY <1>3, <1>5, <1>8 DEF SuccessAt, FailureAt
<1>10. GroupsInv'
  BY <1>3, <1>9 DEF AnswersInv, GroupsInv, PushTime, FailTime
<1> QED
  BY <1>6, <1>7, <1>10 DEF AnswersInv

\* A wipe hands the delete of a group to the store.
LEMMA WipeSubmits ==
  ASSUME TypeOK, TypeOK', WaitInv, GatewayTypeOK, ClockInv, AnswersInv,
         NEW c \in Callers, WipeGroup(c)
  PROVE  AnswersInv'
<1>1. /\ handler[c].at = "wipe" /\ handler[c].groups \subseteq AllLabels
      /\ handler[c] \in [at : {"wipe"}, groups : SUBSET AllLabels]
  BY DEF WipeGroup, GatewayTypeOK, Handlers, Free
<1>2. PICK labels \in handler[c].groups :
        /\ SubmitWriteRequest(c, WriteRequest(c, DeleteOf(labels), arrivals))
        /\ handler' = [handler EXCEPT ![c].groups = @ \ {labels}]
  BY DEF WipeGroup
<1>3. PICK wr : wr = WriteRequest(c, DeleteOf(labels), arrivals)
  OBVIOUS
<1>4. arrivals \in 1 .. MaxArrivals
  BY <1>1, ArrivalsAssumption DEF ClockInv, GatewayTypeOK
<1>5. wr \in WriteRequests /\ wr.done = NoDone
  BY <1>1, <1>3, <1>4, ArrivingRequests DEF WriteRequest, DeleteOf
<1>6. Promised!SubmitWriteRequest(c, wr)
  BY <1>2, <1>3, <1>5, SubmitStep
<1>7. /\ caller[c] = "idle" /\ writeQueue' = Append(writeQueue, wr)
      /\ UNCHANGED <<metricGroups, loop, current, arrivals, accepted, refused>>
      /\ caller' = [caller EXCEPT ![c] = IF wr.done = c THEN "waiting" ELSE "idle"]
  BY <1>2, <1>3 DEF WipeGroup, SubmitWriteRequest, Enqueue, contents, answers
<1>8. /\ \A d \in Callers \ {c} : handler'[d] = handler[d] /\ caller'[d] = caller[d]
      /\ handler'[c].at = "wipe"
  BY <1>1, <1>2, <1>7 DEF GatewayTypeOK, TypeOK
<1>9. \A d \in Callers : Asks(d)' => Asks(d) /\ TimeOf(d)' = TimeOf(d) /\ d # c
  BY <1>8 DEF Asks, TimeOf
<1>10. TimesInv'
  BY <1>7, <1>8, <1>9 DEF AnswersInv, TimesInv
<1>11. HeldInv'
  <2>1. WaitedFor(wr)'
    BY <1>5 DEF WaitedFor, TimeOf
  <2>2. \A d \in Callers : handler[d].at = "wait" => handler'[d] = handler[d]
    BY <1>1, <1>8
  <2> QED
    BY <1>5, <1>7, <2>1, <2>2, HeldGrows DEF AnswersInv
<1>12. \A d \in Callers \ {c} : outcome'[d] = outcome[d]
  BY <1>6, Outcomes DEF Promised!SubmitWriteRequest, OutcomesKnown
<1>13. ASSUME NEW t PROVE /\ SuccessAt(t) => SuccessAt(t)'
                          /\ FailureAt(t) => FailureAt(t)'
  BY <1>7, <1>9, <1>12 DEF SuccessAt, FailureAt
<1>14. GroupsInv'
  BY <1>7, <1>13 DEF AnswersInv, GroupsInv, PushTime, FailTime
<1> QED
  BY <1>10, <1>11, <1>14 DEF AnswersInv

\* An error is answered with 400 only when there was one.
LEMMA ErrorAnswered ==
  ASSUME TypeOK, TypeOK', WaitInv, GatewayTypeOK, AnswersInv,
         NEW c \in Callers, AnswerError(c)
  PROVE  AnswersInv'
<1>1. /\ handler[c].at = "wait" /\ caller[c] # "idle" /\ done[c].err
      /\ caller' = [caller EXCEPT ![c] = "failed"]
      /\ refused' = refused \cup {TimeOf(c)}
      /\ UNCHANGED <<metricGroups, writeQueue, loop, current, handler, arrivals, accepted>>
  BY DEF AnswerError, ReceiveError, contents, TimeOf
<1>2. \A d \in Callers \ {c} : caller'[d] = caller[d]
  BY <1>1 DEF TypeOK
<1>3. caller'[c] = "failed"
  BY <1>1 DEF TypeOK
<1>4. outcome' = outcome
  <2>1. Invisible
    BY ReceiveStep DEF AnswerError
  <2> QED
    BY <2>1 DEF Invisible, Promised!vars
<1>5. Asks(c) /\ TimeOf(c) \in 1 .. arrivals
  BY <1>1 DEF Asks, AnswersInv, TimesInv
<1>6. TimesInv'
  BY <1>1, <1>2, <1>3, <1>5 DEF AnswersInv, TimesInv, Asks, TimeOf
<1>7. HeldInv'
  BY <1>1, HeldKept DEF AnswersInv
<1>8. outcome[c] # "ok"
  BY <1>1, Outcomes DEF OutcomesKnown, OutcomeOf, Failed
<1>9. ASSUME NEW t PROVE /\ SuccessAt(t) => SuccessAt(t)'
                         /\ FailureAt(t) => FailureAt(t)'
  BY <1>1, <1>4, <1>5, <1>8 DEF SuccessAt, FailureAt, Asks, TimeOf
<1>10. GroupsInv'
  BY <1>1, <1>9 DEF AnswersInv, GroupsInv, PushTime, FailTime
<1> QED
  BY <1>6, <1>7, <1>10 DEF AnswersInv

\* A closed channel is answered with 200 only when there was no error.
LEMMA CloseAnswered ==
  ASSUME TypeOK, TypeOK', WaitInv, GatewayTypeOK, AnswersInv,
         NEW c \in Callers, Answer(c)
  PROVE  AnswersInv'
<1>1. /\ handler[c].at = "wait" /\ caller[c] # "idle" /\ done[c].closed /\ ~done[c].err
      /\ caller' = [caller EXCEPT ![c] = "idle"]
      /\ accepted' = IF caller[c] = "failed" THEN accepted ELSE accepted \cup {TimeOf(c)}
      /\ handler' = [handler EXCEPT ![c] = Free]
      /\ UNCHANGED <<metricGroups, writeQueue, loop, current, arrivals, refused>>
  BY DEF Answer, ReceiveClosed, contents, TimeOf
<1>2. /\ \A d \in Callers \ {c} : handler'[d] = handler[d] /\ caller'[d] = caller[d]
      /\ handler'[c].at = "free"
  BY <1>1 DEF GatewayTypeOK, TypeOK, Free
<1>3. \A d \in Callers : Asks(d)' => Asks(d) /\ TimeOf(d)' = TimeOf(d) /\ d # c
  BY <1>2 DEF Asks, TimeOf
<1>4. Asks(c) /\ TimeOf(c) \in 1 .. arrivals
  BY <1>1 DEF Asks, AnswersInv, TimesInv
<1>5. TimesInv'
  BY <1>1, <1>2, <1>3, <1>4 DEF AnswersInv, TimesInv
<1>6. HeldInv'
  <2>1. ASSUME NEW r, r.done \in Callers \cup {NoDone}, WaitedFor(r),
               r.done # NoDone => ~done[r.done].closed
        PROVE  WaitedFor(r)'
    BY <1>1, <1>2, <2>1 DEF WaitedFor, TimeOf
  <2>2. ASSUME NEW i \in DOMAIN writeQueue PROVE WaitedFor(writeQueue[i])'
    <3>0. PICK r : r = writeQueue[i]
      OBVIOUS
    <3>1. WaitedFor(r)'
      BY <2>1, <3>0, RequestsInHand DEF AnswersInv, HeldInv, WaitInv, QueueInv, Unanswered
    <3> QED
      BY <1>1, <3>0, <3>1 DEF WaitedFor, TimeOf
  <2>3. ASSUME loop \in {"check", "process", "fail", "ack"} PROVE WaitedFor(current[1])'
    <3>0. PICK r : r = current[1]
      OBVIOUS
    <3>1. WaitedFor(r)'
      BY <2>1, <2>3, <3>0, RequestsInHand
         DEF AnswersInv, HeldInv, WaitInv, HandInv, Unanswered, Received
    <3> QED
      BY <1>1, <3>0, <3>1 DEF WaitedFor, TimeOf
  <2> QED
    BY <1>1, <2>2, <2>3 DEF HeldInv, WaitedFor, TimeOf
<1>7. Promised!Reply(c)
  BY ReceiveStep DEF Answer
<1>8. \A d \in Callers \ {c} : outcome'[d] = outcome[d]
  BY <1>7, Outcomes DEF Promised!Reply, OutcomesKnown
<1>9. caller[c] # "failed" => outcome[c] # "rejected"
  BY <1>1, Outcomes DEF OutcomesKnown, OutcomeOf, Failed
<1>10. ASSUME NEW t PROVE /\ SuccessAt(t) => SuccessAt(t)'
                          /\ FailureAt(t) => FailureAt(t)'
  BY <1>1, <1>3, <1>4, <1>8, <1>9 DEF SuccessAt, FailureAt
<1>11. GroupsInv'
  BY <1>1, <1>10 DEF AnswersInv, GroupsInv, PushTime, FailTime
<1> QED
  BY <1>5, <1>6, <1>11 DEF AnswersInv

\* When a request is handled, its group shows its time: as that of a success only if
\* its caller will be told so, as that of a failure only if it has been refused.
LEMMA HandledAnswers ==
  ASSUME Checked, NoFailureTimesPushed, TypeOK, TypeOK', WaitInv, GatewayTypeOK, AnswersInv,
         UNCHANGED front, ProcessWriteRequest \/ SetPushFailedTimestamp
  PROVE  AnswersInv'
<1>0. PICK wr : wr = current[1]
  OBVIOUS
<1>1. /\ loop \in {"process", "fail"} /\ loop' = "ack"
      /\ UNCHANGED <<writeQueue, current, done, caller, handler, arrivals, accepted, refused>>
  BY DEF ProcessWriteRequest, SetPushFailedTimestamp, clientVars, counts, front, answers
<1>2. wr \in WriteRequests /\ wr.done \in Callers \cup {NoDone}
  BY <1>0, <1>1, RequestsInHand
<1>3. loop = "process" <=> checkWriteRequest(metricGroups, wr)
  BY <1>0, <1>1 DEF WaitInv, HandInv
<1>4. PICK new : new = metricGroups' /\ new = Handle(metricGroups, wr)
  BY <1>0, HandleStep
<1>5. outcome' = IF wr.done = NoDone THEN outcome
                 ELSE [outcome EXCEPT ![wr.done] =
                         IF checkWriteRequest(metricGroups, wr) THEN "ok" ELSE "rejected"]
  BY <1>0, HandleStep
<1>6. wr.done # NoDone =>
        /\ wr.done \in Callers /\ Asks(wr.done) /\ TimeOf(wr.done) = wr.timestamp
        /\ loop = "process" => caller[wr.done] # "failed"
        /\ outcome[wr.done] = "pending"
  <2> SUFFICES ASSUME wr.done # NoDone
               PROVE  /\ wr.done \in Callers /\ Asks(wr.done)
                      /\ TimeOf(wr.done) = wr.timestamp
                      /\ loop = "process" => caller[wr.done] # "failed"
                      /\ outcome[wr.done] = "pending"
    OBVIOUS
  <2>1. wr.done \in Callers
    BY <1>2
  <2>2. Asks(wr.done) /\ TimeOf(wr.done) = wr.timestamp
    BY <1>0, <1>1 DEF AnswersInv, HeldInv, WaitedFor, Asks
  <2>3. /\ loop = "process" => caller[wr.done] # "failed"
        /\ caller[wr.done] # "idle"
    BY <1>0, <1>1 DEF WaitInv, HandInv, Unanswered, Received
  <2>4. Owned(wr.done)
    BY <1>0, <1>1, <2>1, Owners DEF OwnersKnown
  <2>5. outcome[wr.done] = "pending"
    BY <2>1, <2>3, <2>4, Outcomes DEF OutcomesKnown, OutcomeOf
  <2> QED
    BY <2>1, <2>2, <2>3, <2>5
<1>7. ~IsDelete(wr) => wr.done # NoDone
  BY <1>2, NoDoneAssumption DEF IsDelete, WriteRequests, WriteRequest
<1>8. ~checkWriteRequest(metricGroups, wr) => ~IsDelete(wr)
  BY DEF checkWriteRequest
<1>9. outcome = [c \in Callers |-> outcome[c]]
  BY Outcomes DEF OutcomesKnown
<1>10. TimesInv'
  BY <1>1 DEF AnswersInv, TimesInv, Asks, TimeOf
<1>11. HeldInv'
  BY <1>1, HeldKept DEF AnswersInv
<1>12. ASSUME NEW t PROVE /\ SuccessAt(t) => SuccessAt(t)'
                          /\ FailureAt(t) => FailureAt(t)'
  <2>1. ASSUME NEW c \in Callers, outcome[c] # "pending" PROVE outcome'[c] = outcome[c]
    BY <1>5, <1>6, <1>9, <2>1
  <2> QED
    BY <1>1, <2>1 DEF SuccessAt, FailureAt, Asks, TimeOf
<1>13. SuccessAt(ZeroTime)' /\ FailureAt(ZeroTime)'
  <2>1. SuccessAt(ZeroTime) /\ FailureAt(ZeroTime)
    <3>1. arrivals \in Nat
      BY ArrivalsAssumption DEF GatewayTypeOK
    <3>2. 0 \in 0 .. arrivals /\ 0 \notin 1 .. arrivals
      BY <3>1
    <3> QED
      BY <3>2 DEF AnswersInv, TimesInv, SuccessAt, FailureAt, ZeroTime
  <2> QED
    BY <2>1, <1>12 DEF ZeroTime
<1>14. ASSUME ~IsDelete(wr)
       PROVE  /\ checkWriteRequest(metricGroups, wr) => SuccessAt(wr.timestamp)'
              /\ ~checkWriteRequest(metricGroups, wr) => FailureAt(wr.timestamp)'
  <2>0. PICK d \in Callers : d = wr.done
    BY <1>6, <1>7, <1>14
  <2>1. /\ Asks(d) /\ TimeOf(d) = wr.timestamp
        /\ checkWriteRequest(metricGroups, wr) => caller[d] # "failed"
    BY <1>3, <1>6, <1>7, <1>14, <2>0
  <2>2. /\ wr.timestamp \in 1 .. arrivals
        /\ wr.timestamp \notin accepted
        /\ checkWriteRequest(metricGroups, wr) => wr.timestamp \notin refused
        /\ \A c \in Callers : (Asks(c) /\ TimeOf(c) = wr.timestamp) => c = d
    BY <2>1 DEF AnswersInv, TimesInv
  <2>3. outcome'[d] = IF checkWriteRequest(metricGroups, wr) THEN "ok" ELSE "rejected"
    BY <1>5, <1>7, <1>9, <1>14, <2>0
  <2>4. wr.timestamp \in 0 .. arrivals
    <3>1. arrivals \in Nat
      BY ArrivalsAssumption DEF GatewayTypeOK
    <3> QED
      BY <2>2, <3>1
  <2> QED
    BY <1>1, <2>2, <2>3, <2>4 DEF SuccessAt, FailureAt, Asks, TimeOf
<1>15. ASSUME NEW k \in DOMAIN new
       PROVE  /\ pushMetricNames \subseteq DOMAIN new[k].metrics
              /\ SuccessAt(PushTime(new[k]))'
              /\ FailureAt(FailTime(new[k]))'
  <2>0. PICK old : old = metricGroups
    OBVIOUS
  <2>1. HavePushMetrics(old)
    BY <2>0 DEF HavePushMetrics, AnswersInv, GroupsInv
  <2>2. PICK t : t = PushTime(new[k])
    OBVIOUS
  <2>3. PICK u : u = FailTime(new[k])
    OBVIOUS
  <2>4. /\ pushMetricNames \subseteq DOMAIN new[k].metrics
        /\ \/ t = ZeroTime
           \/ k \in DOMAIN old /\ t = PushTime(old[k])
           \/ ~IsDelete(wr) /\ checkWriteRequest(old, wr) /\ t = wr.timestamp
        /\ \/ u = ZeroTime
           \/ k \in DOMAIN old /\ u = FailTime(old[k])
           \/ ~checkWriteRequest(old, wr) /\ u = wr.timestamp
    BY <1>2, <1>4, <1>15, <2>0, <2>1, <2>2, <2>3, HandledTimes
  <2>5. \A l \in DOMAIN old : SuccessAt(PushTime(old[l])) /\ FailureAt(FailTime(old[l]))
    BY <2>0 DEF AnswersInv, GroupsInv
  <2>6. SuccessAt(t)'
    <3>1. CASE t = ZeroTime
      BY <1>13, <3>1 DEF SuccessAt
    <3>2. CASE k \in DOMAIN old /\ t = PushTime(old[k])
      BY <1>12, <2>5, <3>2
    <3>3. CASE ~IsDelete(wr) /\ checkWriteRequest(old, wr) /\ t = wr.timestamp
      BY <1>14, <2>0, <3>3
    <3> QED
      BY <2>4, <3>1, <3>2, <3>3
  <2>7. FailureAt(u)'
    <3>1. CASE u = ZeroTime
      BY <1>13, <3>1 DEF FailureAt
    <3>2. CASE k \in DOMAIN old /\ u = FailTime(old[k])
      BY <1>12, <2>5, <3>2
    <3>3. CASE ~checkWriteRequest(old, wr) /\ u = wr.timestamp
      BY <1>8, <1>14, <2>0, <3>3
    <3> QED
      BY <2>4, <3>1, <3>2, <3>3
  <2> QED
    BY <2>2, <2>3, <2>4, <2>6, <2>7
<1>16. GroupsInv'
  BY <1>4, <1>15 DEF GroupsInv, PushTime, FailTime
<1> QED
  BY <1>10, <1>11, <1>16 DEF AnswersInv

\* The store's loop and its timer.
LEMMA StoreAnswers ==
  ASSUME Checked, NoFailureTimesPushed, TypeOK, TypeOK', WaitInv, GatewayTypeOK, AnswersInv,
         StoreLoop \/ StoreTimer \/ MainShutdown
  PROVE  AnswersInv'
<1>0. UNCHANGED front
  BY DEF StoreLoop, StoreTimer, MainShutdown
<1>1. UNCHANGED <<handler, arrivals, answers>>
  BY <1>0 DEF front
<1>2. caller' = caller
  BY CallersUntouched DEF StoreLoop, StoreTimer, MainShutdown
<1>3. Invisible => outcome' = outcome /\ metricGroups' = metricGroups
  BY DEF Invisible, Promised!vars
<1>4. CASE ReceiveWrite
  <2>1. /\ writeQueue # <<>> /\ current' = <<Head(writeQueue)>>
        /\ writeQueue' = Tail(writeQueue) /\ loop' = "check"
    BY <1>4 DEF ReceiveWrite
  <2>2. writeQueue \in Seq(WriteRequests)
    BY DEF TypeOK
  <2>3. /\ current'[1] = writeQueue[1] /\ 1 \in DOMAIN writeQueue
        /\ \A i \in DOMAIN writeQueue' :
             i + 1 \in DOMAIN writeQueue /\ writeQueue'[i] = writeQueue[i + 1]
    BY <2>1, <2>2
  <2>4. HeldInv'
    BY <1>1, <2>1, <2>3 DEF AnswersInv, HeldInv, WaitedFor, TimeOf
  <2>5. Invisible
    BY <1>4, TakeStep
  <2> QED
    BY <1>1, <1>2, <1>3, <2>4, <2>5, UnseenStep
<1>5. CASE CheckWriteRequest
  <2>1. loop = "check" /\ UNCHANGED <<writeQueue, current>>
    BY <1>5 DEF CheckWriteRequest
  <2>2. HeldInv'
    BY <1>1, <2>1, HeldKept DEF AnswersInv
  <2>3. Invisible
    BY <1>5, TakeStep
  <2> QED
    BY <1>1, <1>2, <1>3, <2>2, <2>3, UnseenStep
<1>6. CASE ProcessWriteRequest \/ SetPushFailedTimestamp
  BY <1>0, <1>6, HandledAnswers
<1>7. CASE Acknowledge \/ NextInDrain
  <2>1. loop' \in {"select", "drain"} /\ writeQueue' = writeQueue
    BY <1>7 DEF Acknowledge, NextInDrain
  <2>2. HeldInv'
    BY <1>1, <2>1, HeldKept DEF AnswersInv
  <2>3. Invisible
    BY <1>7, AcknowledgeStep
  <2> QED
    BY <1>1, <1>2, <1>3, <2>2, <2>3, UnseenStep
<1>8. CASE ReceivePersistDone \/ TimerNext \/ Shutdown
  <2>1. UNCHANGED <<metricGroups, submissions, restarts, done, caller, writeQueue,
                    loop, current>>
    BY <1>8 DEF ReceivePersistDone, TimerNext, TimerFire, TimerEncode, TimerRename,
                TimerPersistFails, TimerStep, Shutdown, contents, clientVars, counts
  <2>2. HeldInv'
    BY <1>1, <2>1, HeldKept DEF AnswersInv
  <2>3. Invisible
    BY <2>1, QuietStep
  <2> QED
    BY <1>1, <1>2, <1>3, <2>2, <2>3, UnseenStep
<1>9. CASE ReceiveDrain \/ Drained \/ FinalEncode \/ FinalRename
             \/ FinalPersistFails \/ ShutdownReturns
  <2>1. /\ UNCHANGED <<metricGroups, submissions, restarts, done, caller, writeQueue>>
        /\ loop \notin {"check", "process", "fail"}
        /\ loop' \notin {"check", "process", "fail", "ack"}
    BY <1>9 DEF ReceiveDrain, Drained, StartFinalPersist, FinalStep, FinalEncode,
                FinalRename, FinalPersistFails, ShutdownReturns, contents, clientVars,
                counts
  <2>2. HeldInv'
    BY <1>1, <2>1, HeldKept DEF AnswersInv
  <2>3. Invisible
    BY <2>1, QuietStep
  <2> QED
    BY <1>1, <1>2, <1>3, <2>2, <2>3, UnseenStep
<1> QED
  BY <1>4, <1>5, <1>6, <1>7, <1>8, <1>9
     DEF StoreLoop, StoreTimer, MainShutdown, LoopNext

\* What changes no variable of the store changes no outcome.
LEMMA FrontStep ==
  ASSUME TypeOK, TypeOK', UNCHANGED vars
  PROVE  outcome' = outcome
<1>1. UNCHANGED <<metricGroups, submissions, restarts, done, caller, writeQueue,
                  loop, current>>
  BY DEF vars, contents, clientVars, counts
<1>2. Invisible
  BY <1>1, QuietStep
<1> QED
  BY <1>2 DEF Invisible, Promised!vars

\* Arrivals, and steps of the process around the store.
LEMMA ProcessAnswers ==
  ASSUME TypeOK, TypeOK', GatewayTypeOK, AnswersInv, UNCHANGED vars,
         \/ \E c \in Callers : \/ \E r \in HttpRequests : Receive(c, r)
                               \/ Wipe(c)
                               \/ WipeReturns(c)
         \/ UNCHANGED <<handler, arrivals, answers>>
  PROVE  AnswersInv'
<1>1. outcome' = outcome
  BY FrontStep
<1>2. UNCHANGED <<metricGroups, caller, writeQueue, loop, current>>
  BY DEF vars, contents, clientVars
<1>3. ASSUME NEW c \in Callers, NEW r \in HttpRequests, Receive(c, r)
      PROVE  AnswersInv'
  <2>1. PICK doing : doing = [at |-> "submit", request |-> WriteRequest(c, r, arrivals + 1)]
    OBVIOUS
  <2>2. Arrives(c, doing)
    BY <1>3, <2>1 DEF Receive
  <2>3. doing.at = "submit" /\ doing.request.timestamp = arrivals + 1
    BY <2>1 DEF WriteRequest
  <2> QED
    BY <1>1, <2>2, <2>3, ArrivesStep
<1>4. ASSUME NEW c \in Callers, Wipe(c)
      PROVE  AnswersInv'
  <2>1. PICK doing : doing = [at     |-> "wipe",
                              groups |-> {metricGroups[k].labels : k \in DOMAIN metricGroups}]
    OBVIOUS
  <2>2. Arrives(c, doing)
    BY <1>4, <2>1 DEF Wipe
  <2> QED
    BY <1>1, <2>1, <2>2, ArrivesStep
<1>5. ASSUME NEW c \in Callers, WipeReturns(c)
      PROVE  AnswersInv'
  <2>1. /\ handler[c].at = "wipe" /\ handler' = [handler EXCEPT ![c] = Free]
        /\ UNCHANGED <<arrivals, accepted, refused>>
    BY <1>5 DEF WipeReturns, answers
  <2>2. handler'[c].at = "free" /\ \A d \in Callers \ {c} : handler'[d] = handler[d]
    BY <2>1 DEF GatewayTypeOK, Free
  <2>3. \A d \in Callers : Asks(d)' => Asks(d) /\ TimeOf(d)' = TimeOf(d)
    BY <2>2 DEF Asks, TimeOf
  <2>4. TimesInv'
    BY <1>2, <2>1, <2>3 DEF AnswersInv, TimesInv
  <2>5. HeldInv'
    BY <1>2, <2>1, <2>2, RequestsInHand DEF AnswersInv, HeldInv, WaitedFor, TimeOf
  <2>6. ASSUME NEW t PROVE /\ SuccessAt(t) => SuccessAt(t)'
                           /\ FailureAt(t) => FailureAt(t)'
    BY <1>1, <2>1, <2>3 DEF SuccessAt, FailureAt
  <2>7. GroupsInv'
    BY <1>2, <2>6 DEF AnswersInv, GroupsInv, PushTime, FailTime
  <2> QED
    BY <2>4, <2>5, <2>7 DEF AnswersInv
<1>6. CASE UNCHANGED <<handler, arrivals, answers>>
  BY <1>1, <1>2, <1>6, HeldKept, UnseenStep DEF AnswersInv
<1> QED
  BY <1>3, <1>4, <1>5, <1>6

LEMMA AnswersPreserved ==
  Checked /\ NoFailureTimesPushed /\ GatewayInv /\ TypeOK' /\ WaitInv /\ AnswersInv
    /\ [GatewayNext]_gatewayVars => AnswersInv'
<1> SUFFICES ASSUME Checked, NoFailureTimesPushed, GatewayInv, TypeOK', WaitInv, AnswersInv,
                    [GatewayNext]_gatewayVars
             PROVE  AnswersInv'
  OBVIOUS
<1>0. TypeOK /\ GatewayTypeOK /\ ClockInv
  BY DEF GatewayInv
<1>1. ASSUME NEW c \in Callers, HandlerNext(c) PROVE AnswersInv'
  <2>1. CASE Submit(c)
    BY <1>0, <2>1, HandlerSubmits
  <2>2. CASE AnswerError(c)
    BY <1>0, <2>2, ErrorAnswered
  <2>3. CASE Answer(c)
    BY <1>0, <2>3, CloseAnswered
  <2>4. CASE WipeGroup(c)
    BY <1>0, <2>4, WipeSubmits
  <2>5. CASE WipeReturns(c)
    BY <1>0, <2>5, ProcessAnswers DEF WipeReturns
  <2> QED
    BY <1>1, <2>1, <2>2, <2>3, <2>4, <2>5 DEF HandlerNext
<1>2. ASSUME NEW c \in Callers, Wipe(c) \/ \E r \in HttpRequests : Receive(c, r)
      PROVE  AnswersInv'
  <2>1. UNCHANGED vars
    BY <1>2 DEF Wipe, Receive, Arrives
  <2> QED
    BY <1>0, <1>2, <2>1, ProcessAnswers
<1>3. CASE StoreLoop \/ StoreTimer \/ MainShutdown
  BY <1>0, <1>3, StoreAnswers
<1>4. CASE Quit \/ Signal \/ ShutdownServerOnQuit \/ ServeFails \/ Exit
  <2>1. UNCHANGED vars /\ UNCHANGED <<handler, arrivals, answers>>
    BY <1>4 DEF Quit, Signal, ShutdownServerOnQuit, ServeFails, CloseServer, Exit, answers
  <2> QED
    BY <1>0, <2>1, ProcessAnswers
<1>5. CASE UNCHANGED gatewayVars
  <2>1. UNCHANGED vars /\ UNCHANGED <<handler, arrivals, answers>>
    BY <1>5 DEF gatewayVars, front
  <2> QED
    BY <1>0, <2>1, ProcessAnswers
<1> QED
  BY <1>1, <1>2, <1>3, <1>4, <1>5 DEF GatewayNext

-----------------------------------------------------------------------------
(* The theorems.                                                           *)

\* The process keeps the promises of MetricStore: the requests that handlers and
\* wipes submit take effect one at a time, and handlers learn the truth about theirs.
THEOREM GatewayKeepsPromises == GatewaySpec => KeepsPromises
BY GatewayImplementsStore, StoreKeepsPromises

\* With the consistency check on, and as long as no body brings a failure time along,
\* no group shows the time of a push answered with 400 as its last success, or that
\* of a push answered with 200 as its last failure.
THEOREM GatewayAnswersAgree ==
  Checked /\ NoFailureTimesPushed => (GatewaySpec => []AnswersAgreeWithMetrics)
<1> SUFFICES ASSUME Checked, NoFailureTimesPushed
             PROVE  GatewaySpec => []AnswersAgreeWithMetrics
  OBVIOUS
<1>1. GatewayInit => AnswersInv
  <2> SUFFICES ASSUME GatewayInit PROVE AnswersInv
    OBVIOUS
  <2>1. \A c \in Callers : handler[c].at = "free"
    BY DEF GatewayInit, Free
  <2>2. /\ DOMAIN metricGroups = {} /\ writeQueue = <<>> /\ loop = "select"
        /\ accepted = {} /\ refused = {}
    BY DEF GatewayInit, Init, EmptyStore
  <2> QED
    BY <2>1, <2>2 DEF AnswersInv, TimesInv, HeldInv, GroupsInv, Asks
<1>2. GatewayInv /\ GatewayInv' /\ WaitInv /\ AnswersInv /\ [GatewayNext]_gatewayVars
        => AnswersInv'
  <2>1. GatewayInv' => TypeOK'
    BY DEF GatewayInv
  <2> QED
    BY <2>1, AnswersPreserved
<1>3. AnswersInv => AnswersAgreeWithMetrics
  BY AnswersInvSuffices DEF AnswersInv
<1>4. GatewaySpec => [](TypeOK /\ WaitInv)
  BY GatewayImplementsStore, WaitInvariant
<1> QED
  BY <1>1, <1>2, <1>3, <1>4, GatewayInvariant, PTL DEF GatewaySpec

=============================================================================
