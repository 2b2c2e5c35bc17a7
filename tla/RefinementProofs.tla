--------------------------- MODULE RefinementProofs ---------------------------
(***************************************************************************)
(* DiskMetricStore implements MetricStore: the proof of KeepsPromises, for *)
(* any callers, requests, queue capacity, bounds and flags.                *)
(***************************************************************************)
EXTENDS DiskMetricStoreProofs

-----------------------------------------------------------------------------
(* Both modules extend MetricGroups; its operators have two names here.    *)

LEMMA SameBasics ==
  /\ Promised!ZeroTime = ZeroTime
  /\ Promised!EmptyStore = EmptyStore
  /\ Promised!NoValue = NoValue
  /\ Promised!pushMetricName = pushMetricName
  /\ Promised!pushFailedMetricName = pushFailedMetricName
  /\ Promised!pushMetricNames = pushMetricNames
BY DEF ZeroTime, Promised!ZeroTime, EmptyStore, Promised!EmptyStore, NoValue,
       Promised!NoValue, pushMetricName, Promised!pushMetricName,
       pushFailedMetricName, Promised!pushFailedMetricName,
       pushMetricNames, Promised!pushMetricNames

LEMMA SameFunctions ==
  ASSUME NEW f, NEW g, NEW x, NEW y, NEW S
  PROVE  /\ Promised!Over(f, g) = Over(f, g)
         /\ Promised!Single(x, y) = Single(x, y)
         /\ Promised!Drop(f, S) = Drop(f, S)
BY DEF Over, Promised!Over, Single, Promised!Single, Drop, Promised!Drop,
       Restrict, Promised!Restrict

LEMMA SameKey ==
  ASSUME NEW labels
  PROVE  Promised!groupingKeyFor(labels) = groupingKeyFor(labels)
BY DEF groupingKeyFor, Promised!groupingKeyFor, Joined, Promised!Joined,
       FlattenSeq, Promised!FlattenSeq

LEMMA SameSanitized ==
  ASSUME NEW family, NEW labels
  PROVE  Promised!sanitizeLabels(family, labels) = sanitizeLabels(family, labels)
BY DEF sanitizeLabels, Promised!sanitizeLabels, Over, Promised!Over,
       Single, Promised!Single, NoValue, Promised!NoValue

LEMMA SameGauge ==
  ASSUME NEW labels, NEW t
  PROVE  Promised!newTimestampGauge(labels, t) = newTimestampGauge(labels, t)
BY SameSanitized DEF newTimestampGauge, Promised!newTimestampGauge

LEMMA SameGatherable ==
  ASSUME NEW groups
  PROVE  Promised!Gatherable(groups) = Gatherable(groups)
BY DEF Gatherable, Promised!Gatherable, NoDuplicates, Promised!NoDuplicates,
       ValuesUTF8, Promised!ValuesUTF8, IsUTF8, Promised!IsUTF8,
       Mergeable, Promised!Mergeable

LEMMA SameRequests ==
  /\ Promised!WriteRequests = WriteRequests
  /\ \A wr : Promised!IsDelete(wr) = IsDelete(wr)
  /\ \A families : Promised!timestampsPresent(families) = timestampsPresent(families)
BY DEF WriteRequests, Promised!WriteRequests, WriteRequest, Promised!WriteRequest,
       IsDelete, Promised!IsDelete, timestampsPresent, Promised!timestampsPresent

LEMMA SameSetGroup ==
  ASSUME NEW groups, NEW wr, NEW metrics
  PROVE  Promised!SetGroup(groups, wr, metrics) = SetGroup(groups, wr, metrics)
BY SameKey, SameFunctions DEF SetGroup, Promised!SetGroup

LEMMA SameParts ==
  ASSUME NEW groups, NEW key, NEW metrics, NEW replace, NEW families, NEW t
  PROVE  /\ Promised!MetricsOf(groups, key) = MetricsOf(groups, key)
         /\ Promised!Kept(metrics, replace) = Kept(metrics, replace)
         /\ Promised!Stamped(families, t) = Stamped(families, t)
BY SameBasics DEF MetricsOf, Promised!MetricsOf, Kept, Promised!Kept,
                  Restrict, Promised!Restrict, Stamped, Promised!Stamped

LEMMA SamePushed ==
  ASSUME NEW wr, NEW kept
  PROVE  Promised!Pushed(wr, kept) = Pushed(wr, kept)
BY SameBasics, SameFunctions, SameGauge DEF Pushed, Promised!Pushed

LEMMA SameProcess ==
  ASSUME NEW groups, NEW wr
  PROVE  Promised!processWriteRequest(groups, wr) = processWriteRequest(groups, wr)
BY SameRequests, SameKey, SameFunctions, SameParts, SamePushed, SameSetGroup
   DEF processWriteRequest, Promised!processWriteRequest

LEMMA SameFailed ==
  ASSUME NEW groups, NEW wr
  PROVE  Promised!setPushFailedTimestamp(groups, wr) = setPushFailedTimestamp(groups, wr)
BY SameBasics, SameKey, SameFunctions, SameParts, SameGauge, SameSetGroup
   DEF setPushFailedTimestamp, Promised!setPushFailedTimestamp

LEMMA SameSanitizedRequest ==
  ASSUME NEW wr
  PROVE  Promised!sanitizeRequest(wr) = sanitizeRequest(wr)
BY SameRequests, SameSanitized DEF sanitizeRequest, Promised!sanitizeRequest

LEMMA SameCheck ==
  ASSUME NEW groups, NEW wr
  PROVE  Promised!checkWriteRequest(groups, wr) = checkWriteRequest(groups, wr)
BY SameRequests, SameSanitizedRequest, SameProcess, SameGatherable
   DEF checkWriteRequest, Promised!checkWriteRequest

LEMMA SameHandle ==
  ASSUME NEW groups, NEW wr
  PROVE  Promised!Handle(groups, wr) = Handle(groups, wr)
BY SameCheck, SameProcess, SameFailed, SameSanitizedRequest DEF Handle, Promised!Handle

-----------------------------------------------------------------------------
(* Who waits for what.                                                     *)

\* Nobody has told the caller anything yet.
Unanswered(wr) ==
  wr.done # NoDone =>
    caller[wr.done] = "waiting" /\ ~done[wr.done].err /\ ~done[wr.done].closed

\* Its caller still receives from the Done channel.
Received(wr) ==
  wr.done # NoDone => caller[wr.done] # "idle" /\ ~done[wr.done].closed

Failed(c) == caller[c] = "failed" \/ done[c].err

\* No caller waits for two requests.
DistinctInv ==
  /\ \A i, j \in DOMAIN writeQueue :
       (writeQueue[i].done = writeQueue[j].done /\ writeQueue[i].done # NoDone) => i = j
  /\ loop \in {"check", "process", "fail", "ack"} =>
       \A i \in DOMAIN writeQueue :
         writeQueue[i].done = current[1].done => current[1].done = NoDone

QueueInv == \A i \in DOMAIN writeQueue : Unanswered(writeQueue[i])

\* What the check has found is still true when the loop acts on it, and its error
\* is there or has been received.
HandInv ==
  /\ loop \in {"check", "process"} => Unanswered(current[1])
  /\ loop \in {"fail", "ack"} => Received(current[1])
  /\ loop = "process" => checkWriteRequest(metricGroups, current[1])
  /\ loop = "fail" =>
       /\ ~checkWriteRequest(metricGroups, current[1])
       /\ current[1].done # NoDone => Failed(current[1].done)

WaitInv == DistinctInv /\ QueueInv /\ HandInv

LEMMA RequestsInHand ==
  TypeOK =>
    /\ \A i \in DOMAIN writeQueue :
         /\ writeQueue[i] \in WriteRequests
         /\ writeQueue[i].done \in Callers \cup {NoDone}
    /\ loop \in {"check", "process", "fail", "ack"} =>
         /\ current[1] \in WriteRequests
         /\ current[1].done \in Callers \cup {NoDone}
         /\ current = <<current[1]>>
<1> SUFFICES ASSUME TypeOK
             PROVE  /\ \A i \in DOMAIN writeQueue :
                         /\ writeQueue[i] \in WriteRequests
                         /\ writeQueue[i].done \in Callers \cup {NoDone}
                    /\ loop \in {"check", "process", "fail", "ack"} =>
                         /\ current[1] \in WriteRequests
                         /\ current[1].done \in Callers \cup {NoDone}
                         /\ current = <<current[1]>>
  OBVIOUS
<1>1. ASSUME NEW i \in DOMAIN writeQueue
      PROVE  /\ writeQueue[i] \in WriteRequests
             /\ writeQueue[i].done \in Callers \cup {NoDone}
  <2>1. writeQueue[i] \in WriteRequests
    BY DEF TypeOK
  <2> QED
    BY <2>1, RequestDone
<1>2. ASSUME loop \in {"check", "process", "fail", "ack"}
      PROVE  /\ current[1] \in WriteRequests
             /\ current[1].done \in Callers \cup {NoDone}
             /\ current = <<current[1]>>
  <2>1. current \in Seq(WriteRequests) /\ Len(current) = 1
    BY <1>2 DEF TypeOK
  <2>2. current[1] \in WriteRequests
    BY <2>1
  <2>3. current = <<current[1]>>
    BY <2>1
  <2> QED
    BY <2>2, <2>3, RequestDone
<1> QED
  BY <1>1, <1>2

\* No step makes a caller wait for two requests, or leave one that is not handled.
LEMMA WaitPreserved == TypeOK /\ WaitInv /\ [Next]_vars => WaitInv'
<1> SUFFICES ASSUME TypeOK, WaitInv, [Next]_vars PROVE WaitInv'
  OBVIOUS
<1> USE DEF WaitInv, contents, clientVars, counts
<1>0. /\ done \in [Callers -> [err : BOOLEAN, closed : BOOLEAN]]
      /\ caller \in [Callers -> {"idle", "waiting", "failed"}]
      /\ writeQueue \in Seq(WriteRequests)
  BY DEF TypeOK
<1>1. ASSUME NEW c \in Callers, NEW wr \in WriteRequests, SubmitWriteRequest(c, wr)
      PROVE  WaitInv'
  <2>1. /\ \A i \in DOMAIN writeQueue : writeQueue[i].done # c
        /\ loop \in {"check", "process", "fail", "ack"} => current[1].done # c
    BY <1>1, NoDoneAssumption
       DEF QueueInv, HandInv, Unanswered, Received, SubmitWriteRequest, Enqueue
  <2>2. /\ DOMAIN writeQueue' = DOMAIN writeQueue \cup {Len(writeQueue) + 1}
        /\ Len(writeQueue) + 1 \notin DOMAIN writeQueue
        /\ \A i \in DOMAIN writeQueue : writeQueue'[i] = writeQueue[i]
        /\ writeQueue'[Len(writeQueue) + 1] = wr
    BY <1>0, <1>1 DEF SubmitWriteRequest, Enqueue
  <2>3. wr.done \in {c, NoDone} /\ UNCHANGED <<loop, current, metricGroups>>
    BY <1>1 DEF SubmitWriteRequest, Enqueue
  <2>4. /\ wr.done = c => caller'[c] = "waiting" /\ done'[c] = NewChannel
        /\ \A d \in Callers \ {c} : caller'[d] = caller[d] /\ done'[d] = done[d]
    BY <1>0, <1>1 DEF SubmitWriteRequest, Enqueue
  <2>5. ASSUME NEW r, r.done \in Callers \cup {NoDone}, r.done # c
        PROVE  /\ Unanswered(r) => Unanswered(r)'
               /\ Received(r) => Received(r)'
               /\ r.done # NoDone => (Failed(r.done) => Failed(r.done)')
    BY <2>4, <2>5 DEF Unanswered, Received, Failed
  <2>6. DistinctInv'
    BY <2>1, <2>2, <2>3 DEF DistinctInv
  <2>7. QueueInv'
    <3>1. ASSUME NEW i \in DOMAIN writeQueue PROVE Unanswered(writeQueue[i])'
      <4>1. Unanswered(writeQueue[i]) /\ writeQueue[i].done # c
        BY <2>1 DEF QueueInv
      <4>2. writeQueue[i].done \in Callers \cup {NoDone} /\ writeQueue'[i] = writeQueue[i]
        BY <2>2, RequestsInHand
      <4> QED
        BY <2>4, <4>1, <4>2 DEF Unanswered
    <3>2. ASSUME NEW i \in DOMAIN writeQueue', i \notin DOMAIN writeQueue
          PROVE  Unanswered(writeQueue[i])'
      <4>1. writeQueue'[i] = wr
        BY <2>2, <3>2
      <4> QED
        BY <2>3, <2>4, <4>1 DEF Unanswered, NewChannel
    <3> QED
      BY <3>1, <3>2 DEF QueueInv
  <2>8. HandInv'
    BY <2>1, <2>3, <2>5, RequestsInHand DEF HandInv, Unanswered, Received
  <2> QED
    BY <2>6, <2>7, <2>8
<1>2. ASSUME NEW c \in Callers, ReceiveError(c) PROVE WaitInv'
  <2>1. UNCHANGED <<writeQueue, loop, current, metricGroups>>
    BY <1>2 DEF ReceiveError
  <2>2. /\ caller' = [caller EXCEPT ![c] = "failed"]
        /\ done' = [done EXCEPT ![c].err = FALSE]
        /\ done[c].err
    BY <1>2 DEF ReceiveError
  <2>3. /\ \A d \in Callers \ {c} : caller'[d] = caller[d] /\ done'[d] = done[d]
        /\ caller'[c] = "failed" /\ done'[c].closed = done[c].closed
    BY <1>0, <2>2
  <2>4. ASSUME NEW r, r.done \in Callers \cup {NoDone}
        PROVE  /\ Unanswered(r) => Unanswered(r)'
               /\ Received(r) => Received(r)'
               /\ r.done # NoDone => (Failed(r.done) => Failed(r.done)')
    BY <2>2, <2>3, <2>4 DEF Unanswered, Received, Failed
  <2> QED
    BY <2>1, <2>4, RequestsInHand DEF DistinctInv, QueueInv, HandInv
<1>3. ASSUME NEW c \in Callers, ReceiveClosed(c) PROVE WaitInv'
  <2>1. UNCHANGED <<writeQueue, loop, current, metricGroups>>
    BY <1>3 DEF ReceiveClosed
  <2>2. done[c].closed
    BY <1>3 DEF ReceiveClosed
  <2>3. \A d \in Callers \ {c} : caller'[d] = caller[d] /\ done'[d] = done[d]
    BY <1>0, <1>3 DEF ReceiveClosed
  <2>4. ASSUME NEW r, r.done \in Callers \cup {NoDone}
        PROVE  /\ Unanswered(r) => Unanswered(r)'
               /\ Received(r) => Received(r)' /\ r.done # c
               /\ (r.done # NoDone /\ r.done # c) => (Failed(r.done) => Failed(r.done)')
    BY <2>2, <2>3, <2>4, NoDoneAssumption DEF Unanswered, Received, Failed
  <2> QED
    BY <2>1, <2>4, RequestsInHand DEF DistinctInv, QueueInv, HandInv
<1>4. CASE ReceiveWrite
  <2>1. /\ writeQueue # <<>> /\ current' = <<Head(writeQueue)>>
        /\ writeQueue' = Tail(writeQueue) /\ loop' = "check"
        /\ UNCHANGED <<caller, done, metricGroups>>
    BY <1>4 DEF ReceiveWrite
  <2>2. /\ current'[1] = writeQueue[1] /\ 1 \in DOMAIN writeQueue
        /\ \A i \in DOMAIN writeQueue' :
             i + 1 \in DOMAIN writeQueue /\ writeQueue'[i] = writeQueue[i + 1] /\ i \in 1 .. Len(writeQueue)
    BY <1>0, <2>1
  <2>3. QueueInv' /\ HandInv'
    BY <2>1, <2>2 DEF QueueInv, HandInv, Unanswered
  <2>4. DistinctInv'
    BY <2>1, <2>2 DEF DistinctInv
  <2> QED
    BY <2>3, <2>4
<1>5. CASE CheckWriteRequest
  <2>0. PICK w : w = current[1]
    OBVIOUS
  <2>1. /\ loop = "check"
        /\ UNCHANGED <<writeQueue, current, metricGroups, caller>>
        /\ loop' = IF checkWriteRequest(metricGroups, w) THEN "process" ELSE "fail"
        /\ done' = IF checkWriteRequest(metricGroups, w) \/ w.done = NoDone THEN done
                   ELSE [done EXCEPT ![w.done].err = TRUE]
    BY <1>5, <2>0 DEF CheckWriteRequest
  <2>2. w.done \in Callers \cup {NoDone} /\ Unanswered(w)
    BY <2>0, <2>1, RequestsInHand DEF HandInv
  <2>3. /\ \A d \in Callers : d # w.done => done'[d] = done[d]
        /\ \A d \in Callers : done'[d].closed = done[d].closed
        /\ (w.done # NoDone /\ ~checkWriteRequest(metricGroups, w)) => done'[w.done].err
    BY <1>0, <2>1, <2>2
  <2>4. HandInv'
    <3>1. CASE checkWriteRequest(metricGroups, w)
      BY <3>1, <2>0, <2>1, <2>2 DEF HandInv, Unanswered
    <3>2. CASE ~checkWriteRequest(metricGroups, w)
      BY <3>2, <2>0, <2>1, <2>2, <2>3 DEF HandInv, Unanswered, Received, Failed
    <3> QED
      BY <3>1, <3>2
  <2>5. QueueInv'
    BY <2>0, <2>1, <2>3, RequestsInHand DEF QueueInv, Unanswered, DistinctInv
  <2>6. DistinctInv'
    BY <2>1 DEF DistinctInv
  <2> QED
    BY <2>4, <2>5, <2>6
<1>6. CASE ProcessWriteRequest \/ SetPushFailedTimestamp
  <2>1. /\ loop \in {"process", "fail"} /\ loop' = "ack"
        /\ UNCHANGED <<writeQueue, current, caller, done>>
    BY <1>6 DEF ProcessWriteRequest, SetPushFailedTimestamp
  <2> QED
    BY <2>1, RequestsInHand DEF DistinctInv, QueueInv, HandInv, Unanswered, Received
<1>7. CASE Acknowledge
  <2>0. PICK w : w = current[1]
    OBVIOUS
  <2>1. /\ loop = "ack" /\ loop' = "select" /\ UNCHANGED <<writeQueue, caller>>
        /\ done' = IF w.done = NoDone THEN done ELSE [done EXCEPT ![w.done].closed = TRUE]
    BY <1>7, <2>0 DEF Acknowledge
  <2>2. \A d \in Callers : d # w.done => done'[d] = done[d]
    BY <1>0, <2>1
  <2>3. QueueInv'
    BY <2>0, <2>1, <2>2, RequestsInHand DEF QueueInv, Unanswered, DistinctInv
  <2> QED
    BY <2>1, <2>3 DEF DistinctInv, HandInv
<1>8. CASE /\ UNCHANGED <<writeQueue, caller, done>>
           /\ loop' \notin {"check", "process", "fail", "ack"}
  BY <1>8 DEF DistinctInv, QueueInv, HandInv, Unanswered
<1>9. CASE UNCHANGED <<writeQueue, caller, done, loop, current, metricGroups>>
  BY <1>9 DEF DistinctInv, QueueInv, HandInv, Unanswered, Received, Failed
<1>10. CASE NextInDrain
  BY <1>8, <1>10 DEF NextInDrain
<1>11. CASE ReceivePersistDone \/ TimerNext \/ Shutdown
  BY <1>9, <1>11 DEF ReceivePersistDone, TimerNext, TimerFire, TimerEncode, TimerRename,
                     TimerPersistFails, TimerStep, Shutdown
<1>12. CASE ReceiveDrain \/ Drained \/ FinalEncode \/ FinalRename
              \/ FinalPersistFails \/ ShutdownReturns
  BY <1>8, <1>12 DEF ReceiveDrain, Drained, StartFinalPersist, FinalStep, FinalEncode,
                     FinalRename, FinalPersistFails, ShutdownReturns
<1>13. CASE Restart
  BY <1>13 DEF Restart, DistinctInv, QueueInv, HandInv
<1>14. CASE UNCHANGED vars
  BY <1>9, <1>14 DEF vars
<1> QED
  BY <1>1, <1>2, <1>3, <1>4, <1>5, <1>6, <1>7, <1>10, <1>11, <1>12, <1>13, <1>14
     DEF Next, CallerNext, LoopNext

\* The invariant of the refinement.
LEMMA WaitInvariant == Spec => [](TypeOK /\ WaitInv)
<1>1. Init => WaitInv
  BY DEF Init, WaitInv, DistinctInv, QueueInv, HandInv
<1> QED
  BY <1>1, TypeOKInitial, TypeOKPreserved, WaitPreserved, PTL DEF Spec

-----------------------------------------------------------------------------
(* The refinement mapping.                                                 *)

InHand == IF loop \in {"check", "process", "fail"} THEN current ELSE <<>>

Owned(c) == \E i \in DOMAIN pending : pending[i].done = c

\* What pending consists of.
PendingKnown ==
  /\ InHand \in Seq(WriteRequests) /\ writeQueue \in Seq(WriteRequests)
  /\ pending = InHand \o writeQueue
  /\ InHand = IF loop \in {"check", "process", "fail"} THEN <<current[1]>> ELSE <<>>

LEMMA PendingRequests == TypeOK => PendingKnown
BY RequestsInHand DEF PendingKnown, InHand, pending, TypeOK

\* Who owns a pending request.
OwnersKnown ==
  \A c \in Callers :
    Owned(c) <=>
      \/ loop \in {"check", "process", "fail"} /\ current[1].done = c
      \/ \E i \in DOMAIN writeQueue : writeQueue[i].done = c

LEMMA Owners == TypeOK => OwnersKnown
<1> SUFFICES ASSUME TypeOK, NEW c \in Callers
             PROVE  Owned(c) <=>
                      \/ loop \in {"check", "process", "fail"} /\ current[1].done = c
                      \/ \E i \in DOMAIN writeQueue : writeQueue[i].done = c
  BY DEF OwnersKnown
<1>0. PICK hand : hand = InHand
  OBVIOUS
<1>1. hand \in Seq(WriteRequests) /\ writeQueue \in Seq(WriteRequests)
  BY <1>0, PendingRequests DEF PendingKnown
<1>2. Owned(c) <=> \E i \in DOMAIN (hand \o writeQueue) : (hand \o writeQueue)[i].done = c
  BY <1>0, PendingRequests DEF PendingKnown, Owned
<1>3. (\E i \in DOMAIN (hand \o writeQueue) : (hand \o writeQueue)[i].done = c)
        <=> \/ \E i \in DOMAIN hand : hand[i].done = c
            \/ \E i \in DOMAIN writeQueue : writeQueue[i].done = c
  <2>1. /\ DOMAIN (hand \o writeQueue) = 1 .. Len(hand) + Len(writeQueue)
        /\ \A i \in DOMAIN hand : (hand \o writeQueue)[i] = hand[i] /\ i \in 1 .. Len(hand)
        /\ \A i \in DOMAIN writeQueue :
             (hand \o writeQueue)[Len(hand) + i] = writeQueue[i] /\ i \in 1 .. Len(writeQueue)
        /\ DOMAIN hand = 1 .. Len(hand) /\ Len(hand) \in Nat
        /\ DOMAIN writeQueue = 1 .. Len(writeQueue) /\ Len(writeQueue) \in Nat
    BY <1>1
  <2>2. ASSUME NEW i \in 1 .. Len(hand) + Len(writeQueue)
        PROVE  i \in DOMAIN hand \/ (i - Len(hand) \in DOMAIN writeQueue
                                     /\ i = Len(hand) + (i - Len(hand)))
    BY <2>1
  <2>3. ASSUME NEW i \in DOMAIN writeQueue
        PROVE  Len(hand) + i \in 1 .. Len(hand) + Len(writeQueue)
    BY <2>1
  <2>4. ASSUME NEW i \in DOMAIN hand PROVE i \in 1 .. Len(hand) + Len(writeQueue)
    BY <2>1
  <2> QED
    BY <2>1, <2>2, <2>3, <2>4
<1>4. (\E i \in DOMAIN hand : hand[i].done = c)
        <=> loop \in {"check", "process", "fail"} /\ current[1].done = c
  BY <1>0, PendingRequests DEF PendingKnown
<1> QED
  BY <1>2, <1>3, <1>4

\* Outcomes, in terms of who owns a request.
OutcomeOf(c) ==
  IF caller[c] = "idle" THEN "none"
  ELSE IF Owned(c) THEN "pending"
  ELSE IF Failed(c) THEN "rejected" ELSE "ok"

OutcomesKnown == outcome = [c \in Callers |-> OutcomeOf(c)]

LEMMA Outcomes == OutcomesKnown
BY DEF OutcomesKnown, OutcomeOf, outcome, Owned, Failed

\* The same in the next state.
LEMMA PendingNext ==
  /\ TypeOK' => PendingKnown' /\ OwnersKnown'
  /\ OutcomesKnown'
BY PendingRequests, Owners, Outcomes, PTL

\* What a caller knows of its request does not change.
SameFor(c) ==
  /\ caller'[c] = "idle" <=> caller[c] = "idle"
  /\ Owned(c)' <=> Owned(c)
  /\ ~Owned(c) => (Failed(c)' <=> Failed(c))

LEMMA OutcomeOfKept ==
  ASSUME NEW c \in Callers, SameFor(c)
  PROVE  OutcomeOf(c)' = outcome[c]
<1>1. outcome[c] = OutcomeOf(c)
  BY Outcomes DEF OutcomesKnown
<1> QED
  BY <1>1 DEF SameFor, OutcomeOf

LEMMA OutcomeKept ==
  ASSUME \A c \in Callers : SameFor(c)
  PROVE  outcome' = outcome
<1>1. outcome' = [c \in Callers |-> OutcomeOf(c)']
  BY PendingNext DEF OutcomesKnown
<1>2. outcome = [c \in Callers |-> outcome[c]]
  BY Outcomes DEF OutcomesKnown
<1>3. \A c \in Callers : OutcomeOf(c)' = outcome[c]
  BY OutcomeOfKept
<1> QED
  BY <1>1, <1>2, <1>3

LEMMA OutcomeChange ==
  ASSUME NEW d \in Callers, \A c \in Callers \ {d} : SameFor(c)
  PROVE  outcome' = [outcome EXCEPT ![d] = OutcomeOf(d)']
<1>1. outcome' = [c \in Callers |-> OutcomeOf(c)']
  BY PendingNext DEF OutcomesKnown
<1>2. outcome = [c \in Callers |-> outcome[c]]
  BY Outcomes DEF OutcomesKnown
<1>3. \A c \in Callers \ {d} : OutcomeOf(c)' = outcome[c]
  BY OutcomeOfKept
<1> QED
  BY <1>1, <1>2, <1>3

-----------------------------------------------------------------------------
(* Each step is one of MetricStore, or invisible there.                    *)

Invisible == UNCHANGED Promised!vars

LEMMA InvisibleSuffices ==
  ASSUME pending' = pending, outcome' = outcome,
         UNCHANGED <<metricGroups, submissions, restarts>>
  PROVE  Invisible
BY DEF Invisible, Promised!vars

\* Steps that do not concern callers.
LEMMA QuietStep ==
  ASSUME TypeOK, TypeOK',
         UNCHANGED <<metricGroups, submissions, restarts, done, caller, writeQueue>>,
         \/ UNCHANGED <<loop, current>>
         \/ /\ loop \notin {"check", "process", "fail"}
            /\ loop' \notin {"check", "process", "fail"}
  PROVE  Invisible
<1>1. InHand' = InHand
  BY DEF InHand
<1>2. pending' = pending
  BY <1>1, PendingRequests, PendingNext DEF PendingKnown
<1>3. \A c \in Callers : SameFor(c)
  BY <1>2 DEF SameFor, Owned, Failed
<1> QED
  BY <1>2, <1>3, OutcomeKept, InvisibleSuffices

\* A request is submitted.
LEMMA SubmitStep ==
  ASSUME TypeOK, TypeOK', WaitInv,
         NEW c \in Callers, NEW wr \in WriteRequests, SubmitWriteRequest(c, wr)
  PROVE  Promised!SubmitWriteRequest(c, wr)
<1>1. /\ submissions < MaxRequests /\ caller[c] = "idle" /\ wr.done \in {c, NoDone}
      /\ writeQueue' = Append(writeQueue, wr)
      /\ caller' = [caller EXCEPT ![c] = IF wr.done = c THEN "waiting" ELSE "idle"]
      /\ done' = [done EXCEPT ![c] = NewChannel]
      /\ submissions' = submissions + 1
      /\ UNCHANGED <<metricGroups, restarts, loop, current>>
  BY DEF SubmitWriteRequest, Enqueue, contents
<1>2. /\ done \in [Callers -> [err : BOOLEAN, closed : BOOLEAN]]
      /\ caller \in [Callers -> {"idle", "waiting", "failed"}]
  BY DEF TypeOK
<1>3. pending' = Append(pending, wr)
  <2>0. PICK hand : hand = InHand
    OBVIOUS
  <2>1. hand \in Seq(WriteRequests) /\ writeQueue \in Seq(WriteRequests)
        /\ pending = hand \o writeQueue
    BY <2>0, PendingRequests DEF PendingKnown
  <2>2. pending' = hand \o Append(writeQueue, wr)
    BY <1>1, <2>0, PendingNext DEF PendingKnown, InHand
  <2>3. hand \o Append(writeQueue, wr) = Append(hand \o writeQueue, wr)
    BY <2>1
  <2> QED
    BY <2>1, <2>2, <2>3
<1>4. /\ Owned(c)' <=> wr.done = c
      /\ \A d \in Callers \ {c} : Owned(d)' <=> Owned(d)
  <2>0. PICK hand : hand = InHand
    OBVIOUS
  <2>1. pending \in Seq(WriteRequests)
    <3>1. /\ hand \in Seq(WriteRequests) /\ writeQueue \in Seq(WriteRequests)
          /\ pending = hand \o writeQueue
      BY <2>0, PendingRequests DEF PendingKnown
    <3> QED
      BY <3>1
  <2>2. /\ DOMAIN pending' = DOMAIN pending \cup {Len(pending) + 1}
        /\ \A i \in DOMAIN pending : pending'[i] = pending[i]
        /\ pending'[Len(pending) + 1] = wr
    BY <1>3, <2>1
  <2>3. ~Owned(c)
    BY <1>1, Owners, NoDoneAssumption
       DEF OwnersKnown, WaitInv, QueueInv, HandInv, Unanswered, Received
  <2> QED
    BY <1>1, <2>2, <2>3, NoDoneAssumption DEF Owned
<1>5. \A d \in Callers \ {c} : SameFor(d)
  BY <1>1, <1>2, <1>4 DEF SameFor, Failed
<1>6. outcome[c] = "none"
  BY <1>1, Outcomes DEF OutcomesKnown, OutcomeOf
<1>7. outcome' = [outcome EXCEPT ![c] = IF wr.done = c THEN "pending" ELSE "none"]
  <2>1. OutcomeOf(c)' = IF wr.done = c THEN "pending" ELSE "none"
    BY <1>1, <1>2, <1>4 DEF OutcomeOf
  <2> QED
    BY <1>5, <2>1, OutcomeChange
<1>8. outcome' = IF wr.done = c THEN [outcome EXCEPT ![c] = "pending"] ELSE outcome
  <2>1. outcome = [d \in Callers |-> outcome[d]]
    BY Outcomes DEF OutcomesKnown
  <2>2. wr.done # c => outcome' = outcome
    BY <1>6, <1>7, <2>1
  <2> QED
    BY <1>7, <2>2
<1> QED
  BY <1>1, <1>3, <1>6, <1>8 DEF Promised!SubmitWriteRequest

\* A caller that receives its error knows no more than before; one that finds its
\* channel closed has been replied to.
LEMMA ReceiveStep ==
  ASSUME TypeOK, TypeOK', WaitInv, NEW c \in Callers
  PROVE  /\ ReceiveError(c) => Invisible
         /\ ReceiveClosed(c) => Promised!Reply(c)
<1>0. /\ done \in [Callers -> [err : BOOLEAN, closed : BOOLEAN]]
      /\ caller \in [Callers -> {"idle", "waiting", "failed"}]
  BY DEF TypeOK
<1>1. ASSUME UNCHANGED <<writeQueue, loop, current>>
      PROVE  pending' = pending /\ \A d \in Callers : Owned(d)' <=> Owned(d)
  <2>1. pending' = pending
    BY <1>1, PendingRequests, PendingNext DEF PendingKnown, InHand
  <2> QED
    BY <2>1 DEF Owned
<1>2. ASSUME ReceiveError(c) PROVE Invisible
  <2>1. /\ caller[c] # "idle" /\ done[c].err
        /\ caller' = [caller EXCEPT ![c] = "failed"]
        /\ done' = [done EXCEPT ![c].err = FALSE]
        /\ UNCHANGED <<writeQueue, loop, current, metricGroups, submissions, restarts>>
    BY <1>2 DEF ReceiveError, contents, counts
  <2>2. \A d \in Callers : SameFor(d)
    BY <1>0, <1>1, <2>1 DEF SameFor, Failed
  <2> QED
    BY <1>1, <2>1, <2>2, OutcomeKept, InvisibleSuffices
<1>3. ASSUME ReceiveClosed(c) PROVE Promised!Reply(c)
  <2>1. /\ caller[c] # "idle" /\ done[c].closed
        /\ caller' = [caller EXCEPT ![c] = "idle"]
        /\ done' = [done EXCEPT ![c] = NewChannel]
        /\ UNCHANGED <<writeQueue, loop, current, metricGroups, submissions, restarts>>
    BY <1>3 DEF ReceiveClosed, contents, counts
  <2>2. ~Owned(c)
    BY <2>1, Owners, NoDoneAssumption
       DEF OwnersKnown, WaitInv, QueueInv, HandInv, Unanswered, Received
  <2>3. outcome[c] \in {"ok", "rejected"}
    BY <2>1, <2>2, Outcomes DEF OutcomesKnown, OutcomeOf
  <2>4. \A d \in Callers \ {c} : SameFor(d)
    BY <1>0, <1>1, <2>1 DEF SameFor, Failed
  <2>5. OutcomeOf(c)' = "none"
    BY <1>0, <2>1 DEF OutcomeOf
  <2>6. outcome' = [outcome EXCEPT ![c] = "none"]
    BY <2>4, <2>5, OutcomeChange
  <2> QED
    BY <1>1, <2>1, <2>3, <2>6 DEF Promised!Reply
<1> QED
  BY <1>2, <1>3

\* That the loop has taken a request, and what its check has found, is not visible.
LEMMA TakeStep ==
  ASSUME TypeOK, TypeOK', WaitInv, ReceiveWrite \/ CheckWriteRequest
  PROVE  Invisible
<1>1. CASE ReceiveWrite
  <2>1. /\ loop \in {"select", "drain"} /\ writeQueue # <<>>
        /\ current' = <<Head(writeQueue)>> /\ writeQueue' = Tail(writeQueue)
        /\ loop' = "check"
        /\ UNCHANGED <<metricGroups, submissions, restarts, done, caller>>
    BY <1>1 DEF ReceiveWrite, contents, clientVars, counts
  <2>2. writeQueue \in Seq(WriteRequests)
    BY DEF TypeOK
  <2>3. pending = writeQueue
    <3>1. pending = <<>> \o writeQueue
      BY <2>1, PendingRequests DEF PendingKnown
    <3> QED
      BY <2>2, <3>1
  <2>4. pending' = writeQueue
    <3>1. InHand' = <<Head(writeQueue)>>
      BY <2>1 DEF InHand
    <3>2. pending' = <<Head(writeQueue)>> \o Tail(writeQueue)
      BY <2>1, <3>1, PendingNext DEF PendingKnown
    <3> QED
      BY <2>1, <2>2, <3>2
  <2>5. \A c \in Callers : SameFor(c)
    BY <2>1, <2>3, <2>4 DEF SameFor, Owned, Failed
  <2> QED
    BY <2>1, <2>3, <2>4, <2>5, OutcomeKept, InvisibleSuffices
<1>2. CASE CheckWriteRequest
  <2>0. PICK w : w = current[1]
    OBVIOUS
  <2>1. /\ loop = "check" /\ loop' \in {"process", "fail"}
        /\ UNCHANGED <<writeQueue, current, metricGroups, submissions, restarts, caller>>
        /\ done' = done \/ done' = [done EXCEPT ![w.done].err = TRUE]
    BY <1>2, <2>0 DEF CheckWriteRequest, contents, counts
  <2>2. pending' = pending
    <3>1. InHand' = InHand
      BY <2>1 DEF InHand
    <3> QED
      BY <2>1, <3>1, PendingRequests, PendingNext DEF PendingKnown
  <2>3. \A c \in Callers : c = w.done => Owned(c)
    BY <2>0, <2>1, Owners DEF OwnersKnown
  <2>4. \A c \in Callers : c # w.done => done'[c] = done[c]
    BY <2>1 DEF TypeOK
  <2>5. \A c \in Callers : SameFor(c)
    BY <2>1, <2>2, <2>3, <2>4 DEF SameFor, Owned, Failed
  <2> QED
    BY <2>1, <2>2, <2>5, OutcomeKept, InvisibleSuffices
<1> QED
  BY <1>1, <1>2

\* When the request takes effect, or marks its group, it is handled.
LEMMA HandleStep ==
  ASSUME TypeOK, TypeOK', WaitInv, ProcessWriteRequest \/ SetPushFailedTimestamp,
         NEW wr, wr = current[1]
  PROVE  /\ Promised!HandleRequest
         /\ metricGroups' = Handle(metricGroups, wr)
         /\ outcome' = IF wr.done = NoDone THEN outcome
                       ELSE [outcome EXCEPT ![wr.done] =
                               IF checkWriteRequest(metricGroups, wr)
                                 THEN "ok" ELSE "rejected"]
<1>0. PICK w : w = current[1] /\ w = wr
  OBVIOUS
<1>1. /\ loop \in {"process", "fail"} /\ loop' = "ack"
      /\ loop = "process" <=> checkWriteRequest(metricGroups, w)
      /\ UNCHANGED <<writeQueue, current, done, caller, submissions, restarts>>
  BY <1>0 DEF ProcessWriteRequest, SetPushFailedTimestamp, clientVars, counts,
              WaitInv, HandInv
<1>2. metricGroups' = Handle(metricGroups, w)
  BY <1>0, <1>1 DEF ProcessWriteRequest, SetPushFailedTimestamp, Handle
<1>3. w \in WriteRequests /\ w.done \in Callers \cup {NoDone}
  BY <1>0, <1>1, RequestsInHand
<1>4. writeQueue \in Seq(WriteRequests)
  BY DEF TypeOK
<1>5. pending = <<w>> \o writeQueue
  BY <1>0, <1>1, PendingRequests DEF PendingKnown
<1>6. pending # <<>> /\ Head(pending) = w /\ Tail(pending) = writeQueue
  BY <1>3, <1>4, <1>5
<1>7. pending' = writeQueue
  <2>1. InHand' = <<>>
    BY <1>1 DEF InHand
  <2>2. pending' = <<>> \o writeQueue
    BY <1>1, <2>1, PendingNext DEF PendingKnown
  <2> QED
    BY <1>4, <2>2
<1>8. \A c \in Callers : Owned(c)' <=> Owned(c) /\ c # w.done
  <2>1. \A c \in Callers :
          Owned(c) <=> w.done = c \/ \E i \in DOMAIN writeQueue : writeQueue[i].done = c
    BY <1>0, <1>1, Owners DEF OwnersKnown
  <2>2. \A c \in Callers :
          Owned(c)' <=> \E i \in DOMAIN writeQueue : writeQueue[i].done = c
    BY <1>1, PendingNext DEF OwnersKnown
  <2>3. \A i \in DOMAIN writeQueue : writeQueue[i].done = w.done => w.done = NoDone
    BY <1>0, <1>1 DEF WaitInv, DistinctInv
  <2> QED
    BY <2>1, <2>2, <2>3, NoDoneAssumption
<1>9. \A c \in Callers : c # w.done => SameFor(c)
  BY <1>1, <1>8 DEF SameFor, Failed
<1>10. outcome' = IF w.done = NoDone THEN outcome
                  ELSE [outcome EXCEPT ![w.done] =
                          IF checkWriteRequest(metricGroups, w) THEN "ok" ELSE "rejected"]
  <2>1. CASE w.done = NoDone
    BY <1>9, <2>1, OutcomeKept, NoDoneAssumption
  <2>2. CASE w.done # NoDone
    <3>1. w.done \in Callers
      BY <1>3, <2>2
    <3>2. ~Owned(w.done)'
      BY <1>8, <3>1
    <3>3. IF checkWriteRequest(metricGroups, w)
            THEN Unanswered(w) ELSE Received(w) /\ Failed(w.done)
      BY <1>0, <1>1, <2>2 DEF WaitInv, HandInv
    <3>4. /\ caller'[w.done] # "idle"
          /\ Failed(w.done)' <=> ~checkWriteRequest(metricGroups, w)
      BY <1>1, <2>2, <3>3 DEF Unanswered, Received, Failed
    <3>5. OutcomeOf(w.done)' =
            IF checkWriteRequest(metricGroups, w) THEN "ok" ELSE "rejected"
      BY <3>2, <3>4 DEF OutcomeOf
    <3>6. \A c \in Callers \ {w.done} : SameFor(c)
      BY <1>9
    <3>7. outcome' = [outcome EXCEPT ![w.done] = OutcomeOf(w.done)']
      BY <3>1, <3>6, OutcomeChange
    <3> QED
      BY <2>2, <3>5, <3>7
  <2> QED
    BY <2>1, <2>2
<1> QED
  BY <1>0, <1>1, <1>2, <1>6, <1>7, <1>10, SameHandle, SameCheck
     DEF Promised!HandleRequest

\* Closing the Done channel is not visible: the outcome is there already.
LEMMA AcknowledgeStep ==
  ASSUME TypeOK, TypeOK', Acknowledge \/ NextInDrain
  PROVE  Invisible
<1>1. /\ loop = "ack" /\ loop' \in {"select", "drain"}
      /\ UNCHANGED <<metricGroups, submissions, restarts, caller, writeQueue>>
  BY DEF Acknowledge, NextInDrain, contents, clientVars, counts
<1>2. \A c \in Callers : done'[c].err = done[c].err
  <2>0. PICK w : w = current[1]
    OBVIOUS
  <2>1. done' = done \/ done' = [done EXCEPT ![w.done].closed = TRUE]
    BY <2>0 DEF Acknowledge, NextInDrain, clientVars
  <2>2. done \in [Callers -> [err : BOOLEAN, closed : BOOLEAN]]
    BY DEF TypeOK
  <2>3. PICK d : d = w.done
    OBVIOUS
  <2> QED
    BY <2>1, <2>2, <2>3
<1>3. pending' = pending
  <2>1. InHand' = InHand
    BY <1>1 DEF InHand
  <2> QED
    BY <1>1, <2>1, PendingRequests, PendingNext DEF PendingKnown
<1>4. \A c \in Callers : SameFor(c)
  BY <1>1, <1>2, <1>3 DEF SameFor, Owned, Failed
<1> QED
  BY <1>1, <1>3, <1>4, OutcomeKept, InvisibleSuffices

\* A restart forgets requests and outcomes.
LEMMA RestartStep ==
  ASSUME TypeOK', Restart
  PROVE  Promised!Restart(metricGroups')
<1>1. /\ restarts < MaxRestarts /\ restarts' = restarts + 1
      /\ writeQueue' = <<>> /\ loop' = "select"
      /\ caller' = [c \in Callers |-> "idle"]
      /\ UNCHANGED submissions
  BY DEF Restart
<1>2. pending' = <<>>
  <2>1. pending' = <<>> \o <<>>
    BY <1>1, PendingNext DEF PendingKnown, InHand
  <2> QED
    BY <2>1
<1>3. outcome' = [c \in Callers |-> "none"]
  BY <1>1, PendingNext DEF OutcomesKnown, OutcomeOf
<1> QED
  BY <1>1, <1>2, <1>3 DEF Promised!Restart

\* The initial state maps to an initial state.
LEMMA InitialState == Init => Promised!Init
<1> SUFFICES ASSUME Init PROVE Promised!Init
  OBVIOUS
<1>1. pending = <<>>
  <2>1. pending = <<>> \o <<>>
    <3>1. loop = "select" /\ writeQueue = <<>>
      BY DEF Init
    <3> QED
      BY <3>1 DEF pending
  <2> QED
    BY <2>1
<1>2. outcome = [c \in Callers |-> "none"]
  BY Outcomes DEF Init, OutcomesKnown, OutcomeOf
<1> QED
  BY <1>1, <1>2, SameBasics DEF Init, Promised!Init

\* Every step maps to a step of MetricStore or to a stutter.
LEMMA EveryStep ==
  TypeOK /\ TypeOK' /\ WaitInv /\ [Next]_vars
    => [Promised!NextWithRestarts]_(Promised!vars)
<1> SUFFICES ASSUME TypeOK, TypeOK', WaitInv, [Next]_vars
             PROVE  Promised!NextWithRestarts \/ Invisible
  BY DEF Invisible
<1> USE DEF Promised!NextWithRestarts, Promised!Next
<1>1. CASE CallerNext
  BY <1>1, SubmitStep, ReceiveStep, SameRequests DEF CallerNext
<1>2. CASE ReceiveWrite \/ CheckWriteRequest
  BY <1>2, TakeStep
<1>3. CASE ProcessWriteRequest \/ SetPushFailedTimestamp
  BY <1>3, HandleStep
<1>4. CASE Acknowledge \/ NextInDrain
  BY <1>4, AcknowledgeStep
<1>5. CASE ReceivePersistDone \/ TimerNext \/ Shutdown
  <2>1. UNCHANGED <<metricGroups, submissions, restarts, done, caller, writeQueue,
                    loop, current>>
    BY <1>5 DEF ReceivePersistDone, TimerNext, TimerFire, TimerEncode, TimerRename,
                TimerPersistFails, TimerStep, Shutdown, contents, clientVars, counts
  <2> QED
    BY <2>1, QuietStep
<1>6. CASE ReceiveDrain \/ Drained \/ FinalEncode \/ FinalRename
             \/ FinalPersistFails \/ ShutdownReturns
  <2>1. /\ UNCHANGED <<metricGroups, submissions, restarts, done, caller, writeQueue>>
        /\ loop \notin {"check", "process", "fail"}
        /\ loop' \notin {"check", "process", "fail"}
    BY <1>6 DEF ReceiveDrain, Drained, StartFinalPersist, FinalStep, FinalEncode,
                FinalRename, FinalPersistFails, ShutdownReturns, contents, clientVars,
                counts
  <2> QED
    BY <2>1, QuietStep
<1>7. CASE Restart
  BY <1>7, RestartStep
<1>8. CASE UNCHANGED vars
  <2>1. UNCHANGED <<metricGroups, submissions, restarts, done, caller, writeQueue,
                    loop, current>>
    BY <1>8 DEF vars, contents, clientVars, counts
  <2> QED
    BY <2>1, QuietStep
<1> QED
  BY <1>1, <1>2, <1>3, <1>4, <1>5, <1>6, <1>7, <1>8 DEF Next, LoopNext

\* DiskMetricStore implements MetricStore: with goroutines, channels and files,
\* requests still take effect one at a time, as a whole and in order, and callers
\* learn the truth about theirs.
THEOREM StoreKeepsPromises == Spec => KeepsPromises
<1>1. TypeOK /\ WaitInv /\ (TypeOK /\ WaitInv)' /\ [Next]_vars
        => [Promised!NextWithRestarts]_(Promised!vars)
  BY EveryStep
<1> QED
  BY <1>1, InitialState, WaitInvariant, PTL
     DEF Spec, KeepsPromises, Promised!SpecWithRestarts

=============================================================================
