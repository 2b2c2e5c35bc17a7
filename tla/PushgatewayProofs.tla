-------------------------- MODULE PushgatewayProofs --------------------------
(***************************************************************************)
(* Proofs about Pushgateway: its store is a DiskMetricStore, so that what  *)
(* holds of the store on its own holds inside the process.                 *)
(***************************************************************************)
EXTENDS Pushgateway, DiskMetricStoreProofs

\* Groups carry labels that some request had.
Known(groups) == \A k \in DOMAIN groups : groups[k].labels \in AllLabels

\* So do the groups of the store, of the file, and of a file being written.
LabelsInv ==
  /\ Known(metricGroups)
  /\ Known(disk.groups) /\ Known(timerImage.groups) /\ Known(finalImage.groups)

\* A wipe has arrived, so the clock is not at its start.
ClockInv == \A c \in Callers : handler[c].at = "wipe" => arrivals > 0

GatewayInv == TypeOK /\ LabelsInv /\ GatewayTypeOK /\ ClockInv

-----------------------------------------------------------------------------
(* Labels.                                                                 *)

\* Write requests carry labels of requests, and their deletes are write requests.
LEMMA KnownLabels ==
  ASSUME NEW wr \in WriteRequests
  PROVE  wr.labels \in AllLabels /\ wr.timestamp \in Times
BY DEF WriteRequests, WriteRequest, AllLabels

\* Setting the metrics of a request's group keeps to known labels.
LEMMA SetGroupKnown ==
  ASSUME NEW groups, Known(groups), NEW wr, wr.labels \in AllLabels, NEW metrics
  PROVE  Known(SetGroup(groups, wr, metrics))
<1> DEFINE key   == groupingKeyFor(wr.labels)
           entry == [labels  |-> IF key \in DOMAIN groups
                                  THEN groups[key].labels ELSE wr.labels,
                     metrics |-> metrics]
<1>1. entry.labels \in AllLabels
  BY DEF Known
<1>2. SetGroup(groups, wr, metrics) = Over(Single(key, entry), groups)
  BY DEF SetGroup
<1>3. Known(Over(Single(key, entry), groups))
  BY <1>1 DEF Known, Over, Single
<1> QED
  BY <1>2, <1>3

\* Deleting groups keeps to known labels.
LEMMA DropKnown ==
  ASSUME NEW groups, Known(groups), NEW S
  PROVE  Known(Drop(groups, S))
BY DEF Known, Drop, Restrict

\* Sanitizing a request leaves its labels alone.
LEMMA SanitizeKeepsLabels ==
  ASSUME NEW wr \in WriteRequests
  PROVE  sanitizeRequest(wr).labels = wr.labels
BY DEF WriteRequests, WriteRequest, sanitizeRequest

\* A request that is processed keeps to known labels.
LEMMA ProcessKnown ==
  ASSUME NEW groups, Known(groups), NEW wr, wr.labels \in AllLabels
  PROVE  Known(processWriteRequest(groups, wr))
BY SetGroupKnown, DropKnown DEF processWriteRequest

\* So does one that fails.
LEMMA FailKnown ==
  ASSUME NEW groups, Known(groups), NEW wr, wr.labels \in AllLabels
  PROVE  Known(setPushFailedTimestamp(groups, wr))
BY SetGroupKnown DEF setPushFailedTimestamp

\* The loop has a write request in hand where it processes or fails one.
LEMMA CurrentRequest ==
  ASSUME TypeOK, loop \in {"check", "process", "fail", "ack"}
  PROVE  current[1] \in WriteRequests
<1>1. current \in Seq(WriteRequests) /\ Len(current) = 1
  BY DEF TypeOK
<1> QED
  BY <1>1

\* The steps of the store keep to known labels, in memory and in its files.
LEMMA LabelsPreserved == TypeOK /\ LabelsInv /\ [Next]_vars => LabelsInv'
<1> SUFFICES ASSUME TypeOK, LabelsInv, [Next]_vars PROVE LabelsInv'
  OBVIOUS
<1> USE DEF LabelsInv, contents, files
<1>1. CASE CallerNext
  BY <1>1 DEF CallerNext, SubmitWriteRequest, Enqueue, ReceiveError, ReceiveClosed
<1>2. CASE ProcessWriteRequest
  <2>1. current[1] \in WriteRequests
    BY <1>2, CurrentRequest DEF ProcessWriteRequest
  <2>2. sanitizeRequest(current[1]).labels \in AllLabels
    BY <2>1, SanitizeKeepsLabels, KnownLabels
  <2>3. metricGroups' = processWriteRequest(metricGroups, sanitizeRequest(current[1]))
    BY <1>2 DEF ProcessWriteRequest
  <2>4. Known(metricGroups')
    BY <2>2, <2>3, ProcessKnown
  <2> QED
    BY <1>2, <2>4 DEF ProcessWriteRequest
<1>3. CASE SetPushFailedTimestamp
  <2>1. current[1] \in WriteRequests
    BY <1>3, CurrentRequest DEF SetPushFailedTimestamp
  <2>2. Known(metricGroups')
    BY <1>3, <2>1, KnownLabels, FailKnown DEF SetPushFailedTimestamp
  <2> QED
    BY <1>3, <2>2 DEF SetPushFailedTimestamp
<1>4. CASE ReceiveWrite \/ CheckWriteRequest \/ Acknowledge \/ NextInDrain
             \/ ReceivePersistDone \/ ReceiveDrain \/ ShutdownReturns
  BY <1>4 DEF ReceiveWrite, CheckWriteRequest, Acknowledge, NextInDrain,
              ReceivePersistDone, ReceiveDrain, ShutdownReturns
<1>5. CASE Drained \/ FinalEncode \/ FinalRename \/ FinalPersistFails
  BY <1>5 DEF Drained, StartFinalPersist, FinalEncode, FinalRename,
              FinalPersistFails, FinalStep, Image
<1>6. CASE TimerNext
  BY <1>6 DEF TimerNext, TimerFire, TimerEncode, TimerRename, TimerPersistFails,
              TimerStep, Image
<1>7. CASE Shutdown
  BY <1>7 DEF Shutdown
<1>8. CASE Restart
  <2>1. Known(NoImage.groups)
    BY DEF Known, NoImage, Image, EmptyStore
  <2> QED
    BY <1>8, <2>1 DEF Restart
<1>9. CASE UNCHANGED vars
  BY <1>9 DEF vars
<1> QED
  BY <1>1, <1>2, <1>3, <1>4, <1>5, <1>6, <1>7, <1>8, <1>9 DEF Next, LoopNext

-----------------------------------------------------------------------------
(* The process runs a store.                                               *)

\* What a handler can be.
LEMMA HandlerCases ==
  ASSUME NEW h \in Handlers
  PROVE  \/ h = Free /\ h.at = "free"
         \/ h.at \in {"submit", "wait"} /\ h.request \in WriteRequests
         \/ h.at = "wipe" /\ h.groups \subseteq AllLabels
BY DEF Handlers, Free

\* Deletes of known groups, and what clients ask for, are write requests.
LEMMA ArrivingRequests ==
  ASSUME NEW c \in Callers, NEW t \in 1 .. MaxArrivals
  PROVE  /\ \A r \in HttpRequests : WriteRequest(c, r, t) \in WriteRequests
         /\ \A labels \in AllLabels :
              WriteRequest(c, DeleteOf(labels), t) \in WriteRequests
BY HttpAssumption, DeletesAssumption, ArrivalsAssumption DEF WriteRequests

\* Every step of the process is a step of its store, or none.
LEMMA GatewayStep == GatewayInv /\ [GatewayNext]_gatewayVars => [Next]_vars
<1> SUFFICES ASSUME GatewayInv, GatewayNext PROVE [Next]_vars
  BY DEF gatewayVars
<1> USE DEF GatewayInv
<1>1. ASSUME NEW c \in Callers, Submit(c)
      PROVE  [Next]_vars
  <2>1. handler[c].request \in WriteRequests
    BY <1>1, HandlerCases DEF Submit, GatewayTypeOK
  <2> QED
    BY <1>1, <2>1 DEF Submit, Next, CallerNext
<1>2. ASSUME NEW c \in Callers, WipeGroup(c)
      PROVE  [Next]_vars
  <2>1. handler[c].groups \subseteq AllLabels
    BY <1>2, HandlerCases DEF WipeGroup, GatewayTypeOK
  <2>2. arrivals \in 1 .. MaxArrivals
    BY <1>2, ArrivalsAssumption DEF WipeGroup, ClockInv, GatewayTypeOK
  <2>3. PICK labels \in AllLabels :
          SubmitWriteRequest(c, WriteRequest(c, DeleteOf(labels), arrivals))
    BY <1>2, <2>1 DEF WipeGroup
  <2> QED
    BY <2>2, <2>3, ArrivingRequests DEF Next, CallerNext
<1>3. ASSUME NEW c \in Callers, AnswerError(c) \/ Answer(c)
      PROVE  [Next]_vars
  BY <1>3 DEF AnswerError, Answer, Next, CallerNext
<1>4. ASSUME NEW c \in Callers,
             WipeReturns(c) \/ Wipe(c) \/ \E r \in HttpRequests : Receive(c, r)
      PROVE  UNCHANGED vars
  BY <1>4 DEF WipeReturns, Wipe, Receive, Arrives
<1>5. CASE StoreLoop \/ StoreTimer
  BY <1>5 DEF StoreLoop, StoreTimer, Next
<1>6. CASE MainShutdown
  BY <1>6 DEF MainShutdown, Next
<1>7. CASE Quit \/ Signal \/ ShutdownServerOnQuit \/ ServeFails \/ Exit
  BY <1>7 DEF Quit, Signal, ShutdownServerOnQuit, ServeFails, CloseServer, Exit
<1> QED
  BY <1>1, <1>2, <1>3, <1>4, <1>5, <1>6, <1>7 DEF GatewayNext, HandlerNext

\* The store's own steps do not change what it knows of its callers.
LEMMA CallersUntouched ==
  LoopNext \/ TimerNext \/ Shutdown => caller' = caller
<1> SUFFICES ASSUME LoopNext \/ TimerNext \/ Shutdown PROVE caller' = caller
  OBVIOUS
<1> USE DEF clientVars
<1>1. CASE LoopNext
  BY <1>1 DEF LoopNext, ReceiveWrite, CheckWriteRequest, ProcessWriteRequest,
              SetPushFailedTimestamp, Acknowledge, NextInDrain, ReceivePersistDone,
              ReceiveDrain, Drained, StartFinalPersist, FinalStep, FinalEncode,
              FinalRename, FinalPersistFails, ShutdownReturns
<1>2. CASE TimerNext
  BY <1>2 DEF TimerNext, TimerFire, TimerEncode, TimerRename, TimerPersistFails,
              TimerStep
<1>3. CASE Shutdown
  BY <1>3 DEF Shutdown
<1> QED
  BY <1>1, <1>2, <1>3

\* Every step of the process keeps its types, and the link between a handler that
\* waits and the caller the store knows.
LEMMA GatewayTypePreserved ==
  GatewayInv /\ [GatewayNext]_gatewayVars => GatewayTypeOK' /\ ClockInv'
<1> SUFFICES ASSUME GatewayInv, [GatewayNext]_gatewayVars
             PROVE  GatewayTypeOK' /\ ClockInv'
  OBVIOUS
<1> USE DEF GatewayTypeOK, ClockInv, lifecycle, answers, front
<1>a. TypeOK /\ LabelsInv /\ GatewayTypeOK /\ ClockInv
  BY DEF GatewayInv
<1>b. Free \in Handlers /\ Free.at = "free"
  BY DEF Handlers, Free
<1>1. ASSUME NEW c \in Callers, NEW doing \in Handlers, Arrives(c, doing),
             doing.at # "wait"
      PROVE  GatewayTypeOK' /\ ClockInv'
  <2>1. arrivals' \in 0 .. MaxArrivals /\ arrivals' > 0
    BY <1>1, <1>a, ArrivalsAssumption DEF Arrives
  <2>2. handler' = [handler EXCEPT ![c] = doing] /\ handler[c].at # "wait"
    BY <1>1, <1>b DEF Arrives
  <2>3. caller' = caller
    BY <1>1 DEF Arrives, vars, clientVars
  <2>4. handler' \in [Callers -> Handlers]
    BY <1>a, <2>2
  <2>5. \A d \in Callers : handler'[d].at = "wait" <=> caller'[d] # "idle"
    BY <1>1, <1>a, <2>2, <2>3
  <2> QED
    BY <1>1, <1>a, <2>1, <2>4, <2>5 DEF Arrives
<1>2. ASSUME NEW c \in Callers, NEW r \in HttpRequests, Receive(c, r)
      PROVE  GatewayTypeOK' /\ ClockInv'
  <2> DEFINE doing == [at      |-> "submit",
                       request |-> WriteRequest(c, r, arrivals + 1)]
  <2>1. Arrives(c, doing)
    BY <1>2 DEF Receive
  <2>2. arrivals + 1 \in 1 .. MaxArrivals
    BY <2>1, <1>a, ArrivalsAssumption DEF Arrives
  <2>3. WriteRequest(c, r, arrivals + 1) \in WriteRequests
    BY <2>2, ArrivingRequests
  <2>4. doing \in Handlers /\ doing.at # "wait"
    BY <2>3 DEF Handlers
  <2> QED
    BY <2>1, <2>4, <1>1
<1>3. ASSUME NEW c \in Callers, Wipe(c)
      PROVE  GatewayTypeOK' /\ ClockInv'
  <2> DEFINE found == {metricGroups[k].labels : k \in DOMAIN metricGroups}
             doing == [at |-> "wipe", groups |-> found]
  <2>1. Arrives(c, doing)
    BY <1>3 DEF Wipe
  <2>2. found \subseteq AllLabels
    BY <1>a DEF LabelsInv, Known
  <2>3. doing \in Handlers /\ doing.at # "wait"
    BY <2>2 DEF Handlers
  <2> QED
    BY <2>1, <2>3, <1>1

<1>4. ASSUME NEW c \in Callers, NEW h \in Handlers, NEW v,
             handler' = [handler EXCEPT ![c] = h],
             caller' = [caller EXCEPT ![c] = v],
             h.at = "wait" <=> v # "idle",
             h.at = "wipe" => arrivals > 0,
             UNCHANGED <<lifecycle, arrivals>>,
             accepted' \subseteq Times, refused' \subseteq Times
      PROVE  GatewayTypeOK' /\ ClockInv'
  <2>1. caller \in [Callers -> {"idle", "waiting", "failed"}]
    BY <1>a DEF TypeOK
  <2>2. handler' \in [Callers -> Handlers]
    BY <1>a, <1>4
  <2>3. \A d \in Callers : handler'[d].at = "wait" <=> caller'[d] # "idle"
    BY <1>a, <1>4, <2>1
  <2>4. ClockInv'
    BY <1>a, <1>4
  <2> QED
    BY <1>a, <1>4, <2>2, <2>3, <2>4
<1>5. ASSUME NEW c \in Callers, Submit(c)
      PROVE  GatewayTypeOK' /\ ClockInv'
  <2> DEFINE wr == handler[c].request
             h  == IF wr.done = NoDone THEN Free ELSE [handler[c] EXCEPT !.at = "wait"]
             v  == IF wr.done = c THEN "waiting" ELSE "idle"
  <2>1. wr \in WriteRequests /\ handler[c] \in [at : {"submit", "wait"}, request : WriteRequests]
    BY <1>5, <1>a, <1>b DEF Submit, Handlers
  <2>2. [handler[c] EXCEPT !.at = "wait"] = [at |-> "wait", request |-> wr]
    BY <2>1
  <2>3. [at |-> "wait", request |-> wr] \in Handlers
    BY <2>1 DEF Handlers
  <2>4. wr.done \in {c, NoDone} /\ c # NoDone
    BY <1>5, NoDoneAssumption DEF Submit, SubmitWriteRequest, Enqueue
  <2>5. h \in Handlers /\ (h.at = "wait" <=> v # "idle") /\ h.at # "wipe"
    <3>1. CASE wr.done = NoDone
      BY <3>1, <2>4, <1>b
    <3>2. CASE wr.done = c
      BY <3>2, <2>2, <2>3, <2>4
    <3> QED
      BY <3>1, <3>2, <2>4
  <2>6. handler' = [handler EXCEPT ![c] = h]
    BY <1>5 DEF Submit
  <2>7. caller' = [caller EXCEPT ![c] = v]
    BY <1>5 DEF Submit, SubmitWriteRequest, Enqueue
  <2> HIDE DEF h, v
  <2>8. /\ UNCHANGED <<lifecycle, arrivals>>
        /\ accepted' \subseteq Times /\ refused' \subseteq Times
    BY <1>5, <1>a DEF Submit
  <2> QED
    BY <1>4, <2>5, <2>6, <2>7, <2>8
<1>6. ASSUME NEW c \in Callers, AnswerError(c) \/ Answer(c)
      PROVE  handler[c] \in Handlers /\ handler[c].at = "wait"
             /\ handler[c].request.timestamp \in Times
  <2>1. handler[c].at = "wait" /\ handler[c] \in Handlers
    BY <1>6, <1>a DEF AnswerError, Answer
  <2>2. handler[c].request \in WriteRequests
    BY <2>1, HandlerCases
  <2> QED
    BY <2>1, <2>2, KnownLabels
<1>7. ASSUME NEW c \in Callers, AnswerError(c)
      PROVE  GatewayTypeOK' /\ ClockInv'
  <2>1. handler' = [handler EXCEPT ![c] = handler[c]]
    BY <1>7, <1>a DEF AnswerError
  <2>2. caller' = [caller EXCEPT ![c] = "failed"]
    BY <1>7 DEF AnswerError, ReceiveError
  <2>3. UNCHANGED <<lifecycle, arrivals>>
    BY <1>7 DEF AnswerError
  <2>4. accepted' \subseteq Times /\ refused' \subseteq Times
    BY <1>6, <1>7, <1>a DEF AnswerError
  <2>5. handler[c] \in Handlers /\ handler[c].at = "wait"
    BY <1>6, <1>7
  <2> QED
    BY <1>4, <2>1, <2>2, <2>3, <2>4, <2>5
<1>8. ASSUME NEW c \in Callers, Answer(c)
      PROVE  GatewayTypeOK' /\ ClockInv'
  <2>1. handler' = [handler EXCEPT ![c] = Free]
    BY <1>8 DEF Answer
  <2>2. caller' = [caller EXCEPT ![c] = "idle"]
    BY <1>8 DEF Answer, ReceiveClosed
  <2>3. UNCHANGED <<lifecycle, arrivals>>
    BY <1>8 DEF Answer
  <2>4. accepted' \subseteq Times /\ refused' \subseteq Times
    BY <1>6, <1>8, <1>a DEF Answer
  <2> QED
    BY <1>4, <1>b, <2>1, <2>2, <2>3, <2>4
<1>9. ASSUME NEW c \in Callers, WipeGroup(c)
      PROVE  GatewayTypeOK' /\ ClockInv'
  <2>1. /\ handler[c].at = "wipe" /\ handler[c].groups \subseteq AllLabels
        /\ handler[c] \in [at : {"wipe"}, groups : SUBSET AllLabels]
    BY <1>9, <1>a, <1>b DEF WipeGroup, Handlers
  <2>2. PICK labels \in handler[c].groups :
          /\ SubmitWriteRequest(c, WriteRequest(c, DeleteOf(labels), arrivals))
          /\ handler' = [handler EXCEPT ![c].groups = @ \ {labels}]
    BY <1>9 DEF WipeGroup
  <2> DEFINE h == [at |-> "wipe", groups |-> handler[c].groups \ {labels}]
  <2>3. handler' = [handler EXCEPT ![c] = h] /\ h \in Handlers
    <3>1. [handler[c] EXCEPT !.groups = @ \ {labels}] = h
      BY <2>1
    <3>2. handler' = [handler EXCEPT ![c] = h]
      BY <2>2, <3>1
    <3>3. handler[c].groups \ {labels} \in SUBSET AllLabels
      BY <2>1
    <3>4. h \in Handlers
      BY <3>3 DEF Handlers
    <3> QED
      BY <3>2, <3>4
  <2>4. WriteRequest(c, DeleteOf(labels), arrivals).done = NoDone
    BY DEF WriteRequest, DeleteOf
  <2>5. caller' = [caller EXCEPT ![c] = "idle"]
    BY <2>2, <2>4, NoDoneAssumption DEF SubmitWriteRequest, Enqueue
  <2>6. arrivals > 0
    BY <2>1, <1>a
  <2>7. /\ UNCHANGED <<lifecycle, arrivals>>
        /\ accepted' \subseteq Times /\ refused' \subseteq Times
    BY <1>9, <1>a DEF WipeGroup
  <2>8. h.at = "wipe"
    OBVIOUS
  <2> HIDE DEF h
  <2> QED
    BY <1>4, <2>3, <2>5, <2>6, <2>7, <2>8
<1>10. ASSUME NEW c \in Callers, WipeReturns(c)
       PROVE  GatewayTypeOK' /\ ClockInv'
  <2>1. handler' = [handler EXCEPT ![c] = Free]
    BY <1>10 DEF WipeReturns
  <2>2. caller' = caller /\ caller[c] = "idle"
    BY <1>10, <1>a DEF WipeReturns, vars, clientVars, TypeOK
  <2>3. caller' = [caller EXCEPT ![c] = "idle"]
    BY <2>2, <1>a DEF TypeOK
  <2>4. /\ UNCHANGED <<lifecycle, arrivals>>
        /\ accepted' \subseteq Times /\ refused' \subseteq Times
    BY <1>10, <1>a DEF WipeReturns
  <2> QED
    BY <1>4, <1>b, <2>1, <2>3, <2>4
<1>11. CASE StoreLoop \/ StoreTimer \/ MainShutdown
  <2>1. caller' = caller
    BY <1>11, CallersUntouched DEF StoreLoop, StoreTimer, MainShutdown
  <2> QED
    BY <1>11, <2>1, <1>a DEF StoreLoop, StoreTimer, MainShutdown
<1>12. CASE Quit \/ Signal \/ ShutdownServerOnQuit \/ ServeFails \/ Exit
  BY <1>12, <1>a DEF Quit, Signal, ShutdownServerOnQuit, ServeFails, CloseServer, Exit,
                     vars, clientVars
<1>13. CASE UNCHANGED gatewayVars
  BY <1>13, <1>a DEF gatewayVars, vars, clientVars
<1> QED
  BY <1>2, <1>3, <1>5, <1>7, <1>8, <1>9, <1>10, <1>11, <1>12, <1>13
     DEF GatewayNext, HandlerNext

-----------------------------------------------------------------------------
(* The theorems.                                                           *)

\* The invariant holds at first and in every step.
LEMMA GatewayInvariant == GatewaySpec => []GatewayInv
<1>1. GatewayInit => GatewayInv
  <2> SUFFICES ASSUME GatewayInit PROVE LabelsInv /\ GatewayTypeOK /\ ClockInv
    BY TypeOKInitial DEF GatewayInv, GatewayInit
  <2>1. LabelsInv
    BY DEF GatewayInit, Init, LabelsInv, Known, NoImage, Image, EmptyStore
  <2>2. Free \in Handlers /\ Free.at = "free"
    BY DEF Handlers, Free
  <2>3. \A c \in Callers : handler[c].at = "free" /\ caller[c] = "idle"
    BY <2>2 DEF GatewayInit, Init
  <2>4. handler \in [Callers -> Handlers]
    BY <2>2 DEF GatewayInit
  <2>5. \A c \in Callers : handler[c].at = "wait" <=> caller[c] # "idle"
    BY <2>3
  <2>6. arrivals \in 0 .. MaxArrivals
    BY ArrivalsAssumption DEF GatewayInit
  <2>7. GatewayTypeOK
    BY <2>4, <2>5, <2>6 DEF GatewayInit, GatewayTypeOK
  <2>8. ClockInv
    BY <2>3 DEF ClockInv
  <2> QED
    BY <2>1, <2>7, <2>8
<1>2. GatewayInv /\ [GatewayNext]_gatewayVars => GatewayInv'
  BY GatewayStep, GatewayTypePreserved, TypeOKPreserved, LabelsPreserved DEF GatewayInv
<1> QED
  BY <1>1, <1>2, PTL DEF GatewaySpec

\* Handlers, server and process stay within their types, and a handler waits
\* exactly while the store knows it as a caller.
THEOREM GatewayTypeCorrect == GatewaySpec => []GatewayTypeOK
<1>1. GatewayInv => GatewayTypeOK
  BY DEF GatewayInv
<1> QED
  BY <1>1, GatewayInvariant, PTL

\* The process implements DiskMetricStore: whatever handlers, wipes, signals and
\* main do, its store behaves like one on its own.
THEOREM GatewayImplementsStore == GatewaySpec => Spec
<1>1. GatewayInit => Init
  BY DEF GatewayInit
<1> QED
  BY <1>1, GatewayStep, GatewayInvariant, PTL DEF GatewaySpec, Spec

\* In particular, when main has shut the store down without an error, no request
\* from before that is left, and the file is as DrainedToDisk says.
THEOREM GatewayDrainsToDisk == GatewaySpec => []DrainedToDisk
BY GatewayImplementsStore, ShutdownDrainsToDisk

\* Nor does the process forget a handler or a wipe that waits, before it drains.
THEOREM GatewayForgetsNobody == GatewaySpec => []NoWaiterForgotten
BY GatewayImplementsStore, NobodyForgotten

=============================================================================
