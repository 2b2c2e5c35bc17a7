--------------------------- MODULE DiskMetricStore ---------------------------
(***************************************************************************)
(* storage.DiskMetricStore: one goroutine, loop, owns the contents of the  *)
(* store.  It takes write requests from a bounded queue, closes the Done   *)
(* channel of those who wait, and schedules a timer whose goroutine writes *)
(* the contents to a temporary file and renames it over the persistence    *)
(* file.  Shutdown makes the loop drain the queue, persist once more, and  *)
(* return.  The process may be killed at any point and started again with  *)
(* what the file holds.                                                    *)
(*                                                                         *)
(* Each step ends where another goroutine may observe or change something: *)
(* at a channel operation, an unlock, a rename.                            *)
(*                                                                         *)
(* The loop compares three instants: lastWrite, lastPersist, and the       *)
(* persistStarted of the running timer goroutine.  Only their order        *)
(* matters, and any two readings of the clock differ, so two flags replace *)
(* them: writtenSincePersist is lastWrite.After(lastPersist), and          *)
(* writtenSinceStart is lastWrite.After(persistStarted).                   *)
(***************************************************************************)
EXTENDS MetricGroups

CONSTANTS
  writeQueueCapacity,
  Persistent,    \* FALSE iff persistenceFile is the empty string
  DiskFaults,    \* TRUE iff reading and writing the file may fail
  MayShutdown,   \* TRUE iff Shutdown may be called
  MaxRequests,   \* bound: write requests submitted in a behaviour
  MaxRestarts    \* bound: restarts of the process

ASSUME CapacityAssumption == writeQueueCapacity \in Nat \ {0}
ASSUME FlagsAssumption ==
  Persistent \in BOOLEAN /\ DiskFaults \in BOOLEAN /\ MayShutdown \in BOOLEAN
ASSUME BoundsAssumption == MaxRequests \in Nat /\ MaxRestarts \in Nat

VARIABLES
  \* the store and its loop
  metricGroups,        \* the contents, written under the lock
  writeQueue,          \* buffered channel of write requests
  loop,                \* where the loop is, see Loops
  current,             \* the request it handles, as a sequence of at most one
  draining,            \* it is in the inner loop
  persistScheduled,    \* its local of that name
  writtenSincePersist, \* lastWrite.After(lastPersist)
  writtenSinceStart,   \* lastWrite.After(persistStarted)
  finalImage,          \* temporary file of the last persist
  \* the persist timer and its goroutine
  persistTimer,        \* see Timers
  timerImage,          \* temporary file of the timer's persist
  \* outside
  disk,                \* the persistence file; an absent one is like an empty store
  done,                \* each caller's Done channel: [err, closed]
  caller,              \* each caller: idle, waiting, failed (it got an error)
  shutdown,            \* Shutdown: no, called, ok, error
  submissions,         \* number of requests submitted so far
  restarts,            \* number of restarts so far
  \* history
  applied,             \* number of requests the contents reflect
  late                 \* number of requests submitted after Shutdown was called

contents   == <<metricGroups, applied>>
written    == <<writtenSincePersist, writtenSinceStart>>
schedule   == <<persistTimer, persistScheduled>>
files      == <<finalImage, timerImage, disk>>
counts     == <<submissions, late>>
clientVars == <<done, caller, counts>>

vars == <<contents, writeQueue, loop, current, draining, written, schedule, files,
          clientVars, shutdown, restarts>>

Loops == {"select",    \* in the select of the outer loop
          "check",     \* has taken a request, is to check it
          "process",   \* accepted: is to process it
          "fail",      \* rejected: is to mark its group as failed
          "ack",       \* handled: is to tell the caller and look at persisting
          "drain",     \* in the select of the inner loop
          "persist",   \* has drained the queue, is to persist
          "rename",    \* has written the temporary file
          "done", "doneErr",  \* is blocked on dms.done <- result
          "exited"}

Timers == {"off", "armed",  \* none, or not fired yet
           "started",       \* persistStarted is taken
           "encoded",       \* the temporary file is written
           "sending"}       \* is blocked on persistDone <- persistStarted

\* A persisted store; upTo tells how many requests it reflects.
Image(groups, n) == [groups |-> groups, upTo |-> n]

NoImage == Image(EmptyStore, 0)

NewChannel == [err |-> FALSE, closed |-> FALSE]

Init ==
  /\ metricGroups = EmptyStore
  /\ writeQueue = <<>>
  /\ loop = "select" /\ current = <<>> /\ draining = FALSE
  /\ persistScheduled = FALSE
  /\ writtenSincePersist = FALSE /\ writtenSinceStart = FALSE
  /\ finalImage = NoImage
  /\ persistTimer = "off" /\ timerImage = NoImage
  /\ disk = NoImage
  /\ done = [c \in Callers |-> NewChannel]
  /\ caller = [c \in Callers |-> "idle"]
  /\ shutdown = "no"
  /\ submissions = 0 /\ restarts = 0
  /\ applied = 0 /\ late = 0

-----------------------------------------------------------------------------
(* Callers.                                                                *)

\* dms.writeQueue <- req, and what a caller with a Done channel does next: it
\* receives from the channel until it is closed.
Enqueue(c, wr) ==
  /\ submissions < MaxRequests
  /\ caller[c] = "idle"
  /\ wr.done \in {c, NoDone}
  /\ writeQueue' = Append(writeQueue, wr)
  /\ caller' = [caller EXCEPT ![c] = IF wr.done = c THEN "waiting" ELSE "idle"]
  /\ done' = [done EXCEPT ![c] = NewChannel]
  /\ submissions' = submissions + 1
  /\ late' = IF shutdown = "no" THEN late ELSE late + 1
  /\ UNCHANGED <<contents, loop, current, draining, written, schedule, files,
                 shutdown, restarts>>

\* Mutated form: the queue is not bounded.
SubmitUnbounded(c, wr) == Enqueue(c, wr)

\* A caller is blocked while the queue is full.
SubmitWriteRequest(c, wr) == Len(writeQueue) < writeQueueCapacity /\ Enqueue(c, wr)

\* The caller receives the error from its Done channel.
ReceiveError(c) ==
  /\ caller[c] # "idle" /\ done[c].err
  /\ caller' = [caller EXCEPT ![c] = "failed"]
  /\ done' = [done EXCEPT ![c].err = FALSE]
  /\ UNCHANGED <<contents, writeQueue, loop, current, draining, written, schedule,
                 files, counts, shutdown, restarts>>

\* The caller finds its Done channel closed, and is done.
ReceiveClosed(c) ==
  /\ caller[c] # "idle" /\ done[c].closed /\ ~done[c].err
  /\ caller' = [caller EXCEPT ![c] = "idle"]
  /\ done' = [done EXCEPT ![c] = NewChannel]
  /\ UNCHANGED <<contents, writeQueue, loop, current, draining, written, schedule,
                 files, counts, shutdown, restarts>>

-----------------------------------------------------------------------------
(* The persist timer: time.AfterFunc and the function it runs.             *)

\* Mutated form: a timer is started though one is scheduled.
CheckPersistAlways(timer, scheduled, new) ==
  /\ persistTimer'     = IF Persistent /\ new THEN "armed" ELSE timer
  /\ persistScheduled' = (scheduled \/ (Persistent /\ new))

\* A timer is started when something was written since the last persist began
\* and none is scheduled yet.
checkPersist(timer, scheduled, new) ==
  /\ persistTimer'     = IF Persistent /\ ~scheduled /\ new THEN "armed" ELSE timer
  /\ persistScheduled' = (scheduled \/ (Persistent /\ new))

TimerStep(from, to) ==
  /\ persistTimer = from /\ persistTimer' = to
  /\ UNCHANGED <<contents, writeQueue, loop, current, draining, writtenSincePersist,
                 persistScheduled, finalImage, clientVars, shutdown, restarts>>

\* persistStarted := time.Now()
TimerFire ==
  /\ TimerStep("armed", "started")
  /\ writtenSinceStart' = FALSE
  /\ UNCHANGED <<timerImage, disk>>

\* persist, up to the end of the read lock: the contents are in the temporary file.
TimerEncode ==
  /\ TimerStep("started", "encoded")
  /\ timerImage' = Image(metricGroups, applied)
  /\ UNCHANGED <<writtenSinceStart, disk>>

TimerRename ==
  /\ TimerStep("encoded", "sending")
  /\ disk' = timerImage
  /\ UNCHANGED <<writtenSinceStart, timerImage>>

\* persist returns an error; it is only logged.
TimerPersistFails ==
  /\ DiskFaults
  /\ TimerStep("started", "sending") \/ TimerStep("encoded", "sending")
  /\ UNCHANGED <<writtenSinceStart, timerImage, disk>>

-----------------------------------------------------------------------------
(* The loop, waiting and handling write requests.                          *)

\* lastWrite is set here, before the request has any effect on the contents,
\* and only in the outer loop.
ReceiveWrite ==
  /\ loop \in {"select", "drain"}
  /\ writeQueue # <<>>
  /\ current' = <<Head(writeQueue)>>
  /\ writeQueue' = Tail(writeQueue)
  /\ loop' = "check"
  /\ writtenSincePersist' = (~draining \/ writtenSincePersist)
  /\ writtenSinceStart' = (~draining \/ writtenSinceStart)
  /\ UNCHANGED <<contents, draining, schedule, files, clientVars, shutdown, restarts>>

\* Mutated form: the error is dropped.
CheckSilently ==
  /\ loop = "check"
  /\ loop' = IF checkWriteRequest(metricGroups, current[1]) THEN "process" ELSE "fail"
  /\ UNCHANGED <<contents, writeQueue, current, draining, written, schedule, files,
                 clientVars, shutdown, restarts>>

\* The check sends its error to the Done channel, which has room for one.
CheckWriteRequest ==
  /\ loop = "check"
  /\ LET wr       == current[1]
         accepted == checkWriteRequest(metricGroups, wr)
     IN /\ loop' = IF accepted THEN "process" ELSE "fail"
        /\ done' = IF accepted \/ wr.done = NoDone THEN done
                   ELSE [done EXCEPT ![wr.done].err = TRUE]
  /\ UNCHANGED <<contents, writeQueue, current, draining, written, schedule, files,
                 caller, counts, shutdown, restarts>>

\* The request has been sanitized in place by the check.
ProcessWriteRequest ==
  /\ loop = "process" /\ loop' = "ack"
  /\ \E wr \in {sanitizeRequest(current[1])} :
       metricGroups' = processWriteRequest(metricGroups, wr)
  /\ applied' = applied + 1
  /\ UNCHANGED <<writeQueue, current, draining, written, schedule, files, clientVars,
                 shutdown, restarts>>

SetPushFailedTimestamp ==
  /\ loop = "fail" /\ loop' = "ack"
  /\ metricGroups' = setPushFailedTimestamp(metricGroups, current[1])
  /\ applied' = applied + 1
  /\ UNCHANGED <<writeQueue, current, draining, written, schedule, files, clientVars,
                 shutdown, restarts>>

\* Mutated form: the Done channel of a request that got an error stays open.
AcknowledgeAccepted ==
  /\ loop = "ack" /\ ~draining
  /\ loop' = "select" /\ current' = <<>>
  /\ LET c == current[1].done IN
     done' = IF c = NoDone \/ done[c].err THEN done
             ELSE [done EXCEPT ![c].closed = TRUE]
  /\ checkPersist(persistTimer, persistScheduled, writtenSincePersist)
  /\ UNCHANGED <<contents, writeQueue, draining, written, files, caller, counts,
                 shutdown, restarts>>

\* The outer loop closes the Done channel and calls checkPersist.
Acknowledge ==
  /\ loop = "ack" /\ ~draining
  /\ loop' = "select" /\ current' = <<>>
  /\ LET c == current[1].done IN
     done' = IF c = NoDone THEN done ELSE [done EXCEPT ![c].closed = TRUE]
  /\ checkPersist(persistTimer, persistScheduled, writtenSincePersist)
  /\ UNCHANGED <<contents, writeQueue, draining, written, files, caller, counts,
                 shutdown, restarts>>

\* The inner loop does neither.
NextInDrain ==
  /\ loop = "ack" /\ draining
  /\ loop' = "drain" /\ current' = <<>>
  /\ UNCHANGED <<contents, writeQueue, draining, written, schedule, files, clientVars,
                 shutdown, restarts>>

\* Mutated form: nothing is rescheduled for what was written in the meantime.
ReceivePersistDoneOnly ==
  /\ loop = "select"
  /\ persistTimer = "sending"
  /\ writtenSincePersist' = writtenSinceStart
  /\ persistTimer' = "off" /\ persistScheduled' = FALSE
  /\ UNCHANGED <<contents, writeQueue, loop, current, draining, writtenSinceStart,
                 files, clientVars, shutdown, restarts>>

\* lastPersist = <-persistDone; the timer's goroutine ends.
ReceivePersistDone ==
  /\ loop = "select"
  /\ persistTimer = "sending"
  /\ writtenSincePersist' = writtenSinceStart
  /\ checkPersist("off", FALSE, writtenSinceStart)
  /\ UNCHANGED <<contents, writeQueue, loop, current, draining, writtenSinceStart,
                 files, clientVars, shutdown, restarts>>

-----------------------------------------------------------------------------
(* Shutdown.                                                               *)

\* close(dms.drain); the caller of Shutdown then waits for dms.done.
Shutdown ==
  /\ MayShutdown
  /\ shutdown = "no" /\ shutdown' = "called"
  /\ UNCHANGED <<contents, writeQueue, loop, current, draining, written, schedule,
                 files, clientVars, restarts>>

\* persistTimer.Stop() has no effect on a timer that has fired.
ReceiveDrain ==
  /\ loop = "select"
  /\ shutdown = "called"
  /\ loop' = "drain" /\ draining' = TRUE
  /\ persistTimer' = IF persistTimer = "armed" THEN "off" ELSE persistTimer
  /\ UNCHANGED <<contents, writeQueue, current, written, persistScheduled, files,
                 clientVars, shutdown, restarts>>

\* A step of the final persist; without persistence it is over at once.
FinalStep(from, to) ==
  /\ loop = from /\ loop' = to
  /\ UNCHANGED <<contents, writeQueue, current, draining, written, schedule,
                 timerImage, clientVars, shutdown, restarts>>

StartFinalPersist ==
  /\ FinalStep("drain", IF Persistent THEN "persist" ELSE "done")
  /\ UNCHANGED <<finalImage, disk>>

\* Mutated forms: the queue need not be empty; the timer's goroutine must end first.
DrainedEarly == StartFinalPersist

DrainedQuietly == writeQueue = <<>> /\ persistTimer = "off" /\ StartFinalPersist

\* The default case of the inner select.
Drained == writeQueue = <<>> /\ StartFinalPersist

FinalEncode ==
  /\ FinalStep("persist", "rename")
  /\ finalImage' = Image(metricGroups, applied)
  /\ UNCHANGED disk

FinalRename ==
  /\ FinalStep("rename", "done")
  /\ disk' = finalImage
  /\ UNCHANGED finalImage

FinalPersistFails ==
  /\ DiskFaults
  /\ FinalStep("persist", "doneErr") \/ FinalStep("rename", "doneErr")
  /\ UNCHANGED <<finalImage, disk>>

\* dms.done <- result meets <-dms.done: Shutdown returns, the loop ends.
ShutdownReturns ==
  /\ loop \in {"done", "doneErr"} /\ loop' = "exited"
  /\ shutdown' = IF loop = "done" THEN "ok" ELSE "error"
  /\ UNCHANGED <<contents, writeQueue, current, draining, written, schedule, files,
                 clientVars, restarts>>

-----------------------------------------------------------------------------
(* Restarts.                                                               *)

\* The process ends, whatever it was doing, and NewDiskMetricStore restores what
\* is on disk.  If the file cannot be opened the store starts empty.
Restart ==
  /\ restarts < MaxRestarts
  /\ restarts' = restarts + 1
  /\ \E image \in {disk} \cup {i \in {NoImage} : DiskFaults} :
       metricGroups' = image.groups /\ applied' = image.upTo
  /\ writeQueue' = <<>>
  /\ loop' = "select" /\ current' = <<>> /\ draining' = FALSE
  /\ persistScheduled' = FALSE /\ persistTimer' = "off"
  /\ writtenSincePersist' = FALSE /\ writtenSinceStart' = FALSE
  /\ finalImage' = NoImage /\ timerImage' = NoImage
  /\ done' = [c \in Callers |-> NewChannel]
  /\ caller' = [c \in Callers |-> "idle"]
  /\ shutdown' = "no" /\ late' = 0
  /\ UNCHANGED <<disk, submissions>>

-----------------------------------------------------------------------------

CallerNext ==
  \E c \in Callers :
    \/ \E wr \in WriteRequests : SubmitWriteRequest(c, wr)
    \/ ReceiveError(c)
    \/ ReceiveClosed(c)

LoopNext ==
  \/ ReceiveWrite
  \/ CheckWriteRequest
  \/ ProcessWriteRequest
  \/ SetPushFailedTimestamp
  \/ Acknowledge
  \/ NextInDrain
  \/ ReceivePersistDone
  \/ ReceiveDrain
  \/ Drained
  \/ FinalEncode
  \/ FinalRename
  \/ FinalPersistFails
  \/ ShutdownReturns

TimerNext ==
  \/ TimerFire
  \/ TimerEncode
  \/ TimerRename
  \/ TimerPersistFails

Next ==
  \/ CallerNext
  \/ LoopNext
  \/ TimerNext
  \/ Shutdown
  \/ Restart

Spec == Init /\ [][Next]_vars

\* Goroutines that can take a step take one, timers fire, and callers receive
\* from their Done channels.  Nobody has to submit, to shut down or to restart.
Fairness ==
  /\ WF_vars(LoopNext)
  /\ WF_vars(TimerNext)
  /\ \A c \in Callers : WF_vars(ReceiveError(c) \/ ReceiveClosed(c))

FairSpec == Spec /\ Fairness

-----------------------------------------------------------------------------
(* Safety.                                                                 *)

TypeOK ==
  /\ writeQueue \in Seq(WriteRequests)
  /\ Len(writeQueue) <= writeQueueCapacity
  /\ loop \in Loops /\ draining \in BOOLEAN
  /\ current \in Seq(WriteRequests)
  /\ Len(current) = IF loop \in {"check", "process", "fail", "ack"} THEN 1 ELSE 0
  /\ persistScheduled \in BOOLEAN
  /\ writtenSincePersist \in BOOLEAN /\ writtenSinceStart \in BOOLEAN
  /\ persistTimer \in Timers
  /\ finalImage.upTo \in Nat /\ timerImage.upTo \in Nat /\ disk.upTo \in Nat
  /\ done \in [Callers -> [err : BOOLEAN, closed : BOOLEAN]]
  /\ caller \in [Callers -> {"idle", "waiting", "failed"}]
  /\ shutdown \in {"no", "called", "ok", "error"}
  /\ submissions \in 0 .. MaxRequests /\ restarts \in 0 .. MaxRestarts
  /\ applied \in Nat /\ late \in Nat

\* A timer is set only when there is none and no goroutine of an earlier one is
\* left, or the loop has just received what that goroutine had to say: two
\* goroutines never persist at the same time while the store serves requests.
OnePersistAtATime ==
  [][(persistTimer' = "armed" /\ persistTimer # "armed") =>
       \/ persistTimer = "off"
       \/ persistTimer = "sending" /\ loop = "select"]_vars

\* When the loop waits and no persist is scheduled, the file misses at most the
\* last write.  It can miss that one: lastWrite is set before the write is done,
\* so a persist in between does not contain it and nothing is scheduled for it.
LagAtMostOne ==
  (Persistent /\ ~DiskFaults /\ loop = "select" /\ ~persistScheduled)
    => applied <= disk.upTo + 1

\* When Shutdown returns nil, only requests submitted after it was called can be
\* left in the queue, and what is on disk is either everything or, if a persist
\* was under way, possibly what that persist saw.
DrainedToDisk ==
  shutdown = "ok" =>
    /\ Len(writeQueue) <= late
    /\ Persistent => \/ disk.groups = metricGroups
                     \/ persistTimer = "sending" /\ disk = timerImage

\* A request with the Done channel of c is queued or in the hands of the loop.
HasRequestOf(c) ==
  \/ \E i \in DOMAIN writeQueue : writeQueue[i].done = c
  \/ current # <<>> /\ current[1].done = c

\* A caller that waits at a channel which is still open has a request that the
\* loop has yet to finish: until the queue is drained for a shutdown, nobody is
\* left waiting for a close that no step will do.
NoWaiterForgotten ==
  ~draining =>
    \A c \in Callers : caller[c] # "idle" => done[c].closed \/ HasRequestOf(c)

\* The store implements the promises of MetricStore: the requests that are
\* submitted are those of the queue and the one that the loop has taken but not
\* done yet; a caller's request has an outcome once it is neither.
pending ==
  (IF loop \in {"check", "process", "fail"} THEN current ELSE <<>>) \o writeQueue

outcome ==
  [c \in Callers |->
    IF caller[c] = "idle" THEN "none"
    ELSE IF \E i \in DOMAIN pending : pending[i].done = c THEN "pending"
    ELSE IF caller[c] = "failed" \/ done[c].err THEN "rejected" ELSE "ok"]

Promised == INSTANCE MetricStore WITH submitted <- pending

\* Requests take effect one at a time, as a whole, in the order of submission,
\* and a Done channel is closed, with an error before it or not, after its
\* request has taken effect or has failed.  A restart may bring other contents.
KeepsPromises == Promised!SpecWithRestarts

-----------------------------------------------------------------------------
(* Liveness.                                                               *)

\* As long as the store is not shut down, every caller that waits is answered,
\* whatever the queue, the check and the persisting do.
EveryWaiterAnswered ==
  \A c \in Callers : caller[c] # "idle" ~> (caller[c] = "idle" \/ shutdown # "no")

\* Shutdown returns, even if a timer goroutine is running, which will then wait
\* for the loop forever.
ShutdownTerminates == shutdown = "called" ~> shutdown # "called"

\* A write that another one follows is on disk eventually, without a shutdown.
AllButTheLastPersisted ==
  \A n \in 1 .. MaxRequests - 1 :
    (Persistent /\ applied > n) ~> (disk.upTo >= n \/ shutdown # "no")

-----------------------------------------------------------------------------
(* Statements of the documentation that the code does not live up to.      *)

\* NewDiskMetricStore: "Persisting is happening upon shutdown and after every
\* write action".
EveryWritePersisted ==
  \A n \in 1 .. MaxRequests : applied >= n ~> (disk.upTo >= n \/ shutdown # "no")

\* WriteRequest: the Done channel "will be closed once the write request is
\* processed".  A request that was submitted before Shutdown was called is
\* processed, if only while the queue is drained; then its caller is answered.
\* (While late is 0, no request in the store was submitted after Shutdown.)
DoneAlwaysClosed ==
  \A c \in Callers : (caller[c] # "idle" /\ late = 0) ~> caller[c] = "idle"

\* MetricStore.Shutdown: "it persists the content of the MetricStore".
ShutdownPersists == (shutdown = "ok" /\ Persistent) => disk.groups = metricGroups

=============================================================================
