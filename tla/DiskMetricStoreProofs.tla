------------------------ MODULE DiskMetricStoreProofs ------------------------
(***************************************************************************)
(* Proofs about DiskMetricStore, for any callers, requests, queue          *)
(* capacity, bounds and flags.                                             *)
(***************************************************************************)
EXTENDS DiskMetricStore, TLAPS

\* Where the loop is tells whether it drains, and whether Shutdown was called.
PhaseInv ==
  /\ loop = "select" => ~draining
  /\ loop \in {"drain", "persist", "rename", "done", "doneErr", "exited"} => draining
  /\ draining => shutdown # "no"
  /\ shutdown \in {"ok", "error"} => loop = "exited"

\* Requests that have taken effect, and the one whose lastWrite is set already.
begun == applied + (IF loop \in {"check", "process", "fail"} THEN 1 ELSE 0)

\* The image of a persist misses at most one write, the one that was under way
\* when it began, unless writtenSinceStart tells that there may be more; and so
\* does the file unless writtenSincePersist tells so or a persist is scheduled.
LagInv ==
  (Persistent /\ ~DiskFaults /\ ~draining) =>
    /\ persistTimer = "sending" => disk = timerImage
    /\ (persistTimer \in {"encoded", "sending"} /\ ~writtenSinceStart)
         => begun <= timerImage.upTo + 1
    /\ (~persistScheduled /\ ~writtenSincePersist) => begun <= disk.upTo + 1
    /\ (loop = "select" /\ ~persistScheduled) => ~writtenSincePersist

\* The contents are on disk, except where the timer's goroutine has replaced the
\* file since.
OnDisk ==
  \/ disk.groups = metricGroups
  \/ persistTimer = "sending" /\ disk = timerImage

DrainInv ==
  /\ loop \in {"persist", "rename", "done", "doneErr", "exited"} => Len(writeQueue) <= late
  /\ loop = "rename" => finalImage.groups = metricGroups
  /\ (Persistent /\ loop = "done") => OnDisk
  /\ (Persistent /\ shutdown = "ok") => OnDisk

\* persistScheduled says that a timer is set or its goroutine is not over.
ScheduleInv == ~draining => (persistScheduled <=> persistTimer # "off")

IInv == TypeOK /\ ScheduleInv /\ PhaseInv /\ LagInv /\ DrainInv

-----------------------------------------------------------------------------
(* Typing.                                                                 *)

\* A request's Done channel belongs to a caller, or there is none.
LEMMA RequestDone ==
  ASSUME NEW wr \in WriteRequests
  PROVE  wr.done \in Callers \cup {NoDone}
BY DEF WriteRequests, WriteRequest

\* The types hold at first.
LEMMA TypeOKInitial == Init => TypeOK
<1> SUFFICES ASSUME Init PROVE TypeOK
  OBVIOUS
<1>1. NoImage.upTo \in Nat
  BY DEF NoImage, Image
<1>2. done \in [Callers -> [err : BOOLEAN, closed : BOOLEAN]]
  BY DEF Init, NewChannel
<1>3. writeQueue \in Seq(WriteRequests) /\ Len(writeQueue) <= writeQueueCapacity
  BY CapacityAssumption DEF Init
<1>4. current \in Seq(WriteRequests) /\ Len(current) = 0 /\ loop = "select"
  BY DEF Init
<1>5. persistTimer \in Timers /\ loop \in Loops
  BY DEF Init, Timers, Loops
<1>6. caller \in [Callers -> {"idle", "waiting", "failed"}]
  BY DEF Init
<1>7. submissions \in 0 .. MaxRequests /\ restarts \in 0 .. MaxRestarts
  BY BoundsAssumption DEF Init
<1>8. /\ draining \in BOOLEAN /\ persistScheduled \in BOOLEAN
      /\ writtenSincePersist \in BOOLEAN /\ writtenSinceStart \in BOOLEAN
      /\ finalImage.upTo \in Nat /\ timerImage.upTo \in Nat /\ disk.upTo \in Nat
      /\ shutdown \in {"no", "called", "ok", "error"}
      /\ applied \in Nat /\ late \in Nat
  BY <1>1 DEF Init
<1> QED
  BY <1>2, <1>3, <1>4, <1>5, <1>6, <1>7, <1>8 DEF TypeOK

\* Every step keeps the types.
LEMMA TypeOKPreserved == TypeOK /\ [Next]_vars => TypeOK'
<1> SUFFICES ASSUME TypeOK, [Next]_vars PROVE TypeOK'
  OBVIOUS
<1> USE DEF TypeOK, contents, written, schedule, files, clientVars, counts
<1>1. ASSUME NEW c \in Callers, NEW wr \in WriteRequests, SubmitWriteRequest(c, wr)
      PROVE  TypeOK'
  <2>1. writeQueue' \in Seq(WriteRequests) /\ Len(writeQueue') <= writeQueueCapacity
    BY <1>1, CapacityAssumption DEF SubmitWriteRequest, Enqueue
  <2>2. done' \in [Callers -> [err : BOOLEAN, closed : BOOLEAN]]
    BY <1>1 DEF SubmitWriteRequest, Enqueue, NewChannel
  <2>3. submissions' \in 0 .. MaxRequests
    BY <1>1, BoundsAssumption DEF SubmitWriteRequest, Enqueue
  <2> QED
    BY <1>1, <2>1, <2>2, <2>3 DEF SubmitWriteRequest, Enqueue
<1>2. ASSUME NEW c \in Callers, ReceiveError(c) \/ ReceiveClosed(c)
      PROVE  TypeOK'
  <2>1. ASSUME ReceiveError(c)
        PROVE  done' \in [Callers -> [err : BOOLEAN, closed : BOOLEAN]]
    BY <2>1 DEF ReceiveError
  <2>2. ASSUME ReceiveClosed(c)
        PROVE  done' \in [Callers -> [err : BOOLEAN, closed : BOOLEAN]]
    BY <2>2 DEF ReceiveClosed, NewChannel
  <2> QED
    BY <1>2, <2>1, <2>2 DEF ReceiveError, ReceiveClosed
<1>3. CASE ReceiveWrite
  <2>1. Head(writeQueue) \in WriteRequests /\ writeQueue' \in Seq(WriteRequests)
    BY <1>3 DEF ReceiveWrite
  <2>2. Len(writeQueue') <= writeQueueCapacity
    BY <1>3, CapacityAssumption DEF ReceiveWrite
  <2> QED
    BY <1>3, <2>1, <2>2 DEF ReceiveWrite, Loops
<1>4. CASE CheckWriteRequest
  <2>1. done' \in [Callers -> [err : BOOLEAN, closed : BOOLEAN]]
    BY <1>4 DEF CheckWriteRequest
  <2> QED
    BY <1>4, <2>1 DEF CheckWriteRequest, Loops
<1>5. CASE ProcessWriteRequest \/ SetPushFailedTimestamp
  BY <1>5 DEF ProcessWriteRequest, SetPushFailedTimestamp, Loops
<1>6. CASE Acknowledge
  <2>1. done' \in [Callers -> [err : BOOLEAN, closed : BOOLEAN]]
    BY <1>6 DEF Acknowledge
  <2>2. persistTimer' \in Timers /\ persistScheduled' \in BOOLEAN
    BY <1>6 DEF Acknowledge, checkPersist, Timers
  <2> QED
    BY <1>6, <2>1, <2>2 DEF Acknowledge, Loops
<1>7. CASE NextInDrain
  BY <1>7 DEF NextInDrain, Loops
<1>8. CASE ReceivePersistDone
  <2>1. persistTimer' \in Timers /\ persistScheduled' \in BOOLEAN
    BY <1>8 DEF ReceivePersistDone, checkPersist, Timers
  <2> QED
    BY <1>8, <2>1 DEF ReceivePersistDone
<1>9. CASE ReceiveDrain
  BY <1>9 DEF ReceiveDrain, Loops, Timers
<1>10. CASE Drained
  BY <1>10 DEF Drained, StartFinalPersist, FinalStep, Loops
<1>11. CASE FinalEncode \/ FinalRename \/ FinalPersistFails
  BY <1>11 DEF FinalEncode, FinalRename, FinalPersistFails, FinalStep, Loops, Image
<1>12. CASE ShutdownReturns
  BY <1>12 DEF ShutdownReturns, Loops
<1>13. CASE TimerNext
  <2>1. CASE TimerFire
    BY <2>1 DEF TimerFire, TimerStep, Timers
  <2>2. CASE TimerEncode
    BY <2>2 DEF TimerEncode, TimerStep, Timers, Image
  <2>3. CASE TimerRename \/ TimerPersistFails
    BY <2>3 DEF TimerRename, TimerPersistFails, TimerStep, Timers
  <2> QED
    BY <1>13, <2>1, <2>2, <2>3 DEF TimerNext
<1>14. CASE Shutdown
  BY <1>14 DEF Shutdown
<1>15. CASE Restart
  <2>1. applied' \in Nat
    BY <1>15 DEF Restart, NoImage, Image
  <2>2. done' \in [Callers -> [err : BOOLEAN, closed : BOOLEAN]]
    BY <1>15 DEF Restart, NewChannel
  <2>3. writeQueue' \in Seq(WriteRequests) /\ Len(writeQueue') <= writeQueueCapacity
    BY <1>15, CapacityAssumption DEF Restart
  <2>4. restarts' \in 0 .. MaxRestarts
    BY <1>15, BoundsAssumption DEF Restart
  <2>5. current' \in Seq(WriteRequests) /\ Len(current') = 0 /\ loop' = "select"
    BY <1>15 DEF Restart
  <2>6. persistTimer' \in Timers /\ loop' \in Loops
    BY <1>15 DEF Restart, Timers, Loops
  <2>7. finalImage'.upTo \in Nat /\ timerImage'.upTo \in Nat /\ disk'.upTo \in Nat
    BY <1>15 DEF Restart, NoImage, Image
  <2>8. caller' \in [Callers -> {"idle", "waiting", "failed"}]
    BY <1>15 DEF Restart
  <2>9. /\ draining' \in BOOLEAN /\ persistScheduled' \in BOOLEAN
        /\ writtenSincePersist' \in BOOLEAN /\ writtenSinceStart' \in BOOLEAN
        /\ shutdown' \in {"no", "called", "ok", "error"}
        /\ submissions' \in 0 .. MaxRequests /\ late' \in Nat
    BY <1>15 DEF Restart
  <2> QED
    BY <2>1, <2>2, <2>3, <2>4, <2>5, <2>6, <2>7, <2>8, <2>9
<1>16. CASE UNCHANGED vars
  BY <1>16 DEF vars
<1> QED
  BY <1>1, <1>2, <1>3, <1>4, <1>5, <1>6, <1>7, <1>8, <1>9, <1>10, <1>11, <1>12,
     <1>13, <1>14, <1>15, <1>16 DEF Next, CallerNext, LoopNext

\* Every variable stays within its type: the queue never exceeds its capacity and
\* a request is being handled exactly in the loop states that handle one.
THEOREM TypeCorrect == Spec => []TypeOK
<1> QED
  BY TypeOKInitial, TypeOKPreserved, PTL DEF Spec

-----------------------------------------------------------------------------
(* Phases and scheduling.                                                  *)

\* The loop's place, draining and shutdown go together in every step.
LEMMA PhasePreserved == TypeOK /\ PhaseInv /\ [Next]_vars => PhaseInv'
<1> SUFFICES ASSUME TypeOK, PhaseInv, [Next]_vars PROVE PhaseInv'
  OBVIOUS
<1> USE DEF PhaseInv
<1>1. CASE CallerNext
  BY <1>1 DEF CallerNext, SubmitWriteRequest, Enqueue, ReceiveError, ReceiveClosed
<1>2. CASE ReceiveWrite \/ CheckWriteRequest \/ ProcessWriteRequest
             \/ SetPushFailedTimestamp \/ Acknowledge \/ NextInDrain
  BY <1>2 DEF ReceiveWrite, CheckWriteRequest, ProcessWriteRequest,
              SetPushFailedTimestamp, Acknowledge, NextInDrain
<1>3. CASE ReceivePersistDone
  BY <1>3 DEF ReceivePersistDone
<1>4. CASE ReceiveDrain
  BY <1>4 DEF ReceiveDrain
<1>5. CASE Drained
  <2>1. loop = "drain" /\ loop' \in {"persist", "done"}
    BY <1>5 DEF Drained, StartFinalPersist, FinalStep
  <2>2. UNCHANGED <<draining, shutdown>>
    BY <1>5 DEF Drained, StartFinalPersist, FinalStep
  <2> QED
    BY <2>1, <2>2
<1>6. CASE FinalEncode \/ FinalRename \/ FinalPersistFails \/ ShutdownReturns
  BY <1>6 DEF FinalEncode, FinalRename, FinalPersistFails, FinalStep, ShutdownReturns
<1>7. CASE TimerNext
  BY <1>7 DEF TimerNext, TimerFire, TimerEncode, TimerRename, TimerPersistFails,
              TimerStep
<1>8. CASE Shutdown \/ Restart
  BY <1>8 DEF Shutdown, Restart, TypeOK
<1>9. CASE UNCHANGED vars
  BY <1>9 DEF vars
<1> QED
  BY <1>1, <1>2, <1>3, <1>4, <1>5, <1>6, <1>7, <1>8, <1>9 DEF Next, LoopNext

\* A timer is started only where persistScheduled is or becomes FALSE, and ends
\* only where the loop resets persistScheduled.
LEMMA ScheduleInductive ==
  TypeOK /\ PhaseInv /\ ScheduleInv /\ [Next]_vars => ScheduleInv'
<1> SUFFICES ASSUME TypeOK, PhaseInv, ScheduleInv, [Next]_vars
             PROVE  ScheduleInv'
  OBVIOUS
<1> USE DEF ScheduleInv, schedule
<1>1. CASE CallerNext
  BY <1>1 DEF CallerNext, SubmitWriteRequest, Enqueue, ReceiveError, ReceiveClosed
<1>2. CASE ReceiveWrite \/ CheckWriteRequest \/ ProcessWriteRequest
             \/ SetPushFailedTimestamp \/ NextInDrain
  BY <1>2 DEF ReceiveWrite, CheckWriteRequest, ProcessWriteRequest,
              SetPushFailedTimestamp, NextInDrain
<1>3. CASE Acknowledge
  BY <1>3 DEF Acknowledge, checkPersist, TypeOK
<1>4. CASE ReceivePersistDone
  BY <1>4 DEF ReceivePersistDone, checkPersist, TypeOK
<1>5. CASE ReceiveDrain \/ Drained \/ FinalEncode \/ FinalRename
             \/ FinalPersistFails \/ ShutdownReturns
  BY <1>5 DEF ReceiveDrain, Drained, StartFinalPersist, FinalStep, FinalEncode,
              FinalRename, FinalPersistFails, ShutdownReturns
<1>6. CASE TimerNext
  BY <1>6 DEF TimerNext, TimerFire, TimerEncode, TimerRename, TimerPersistFails,
              TimerStep
<1>7. CASE Shutdown \/ Restart
  BY <1>7 DEF Shutdown, Restart
<1>8. CASE UNCHANGED vars
  BY <1>8 DEF vars
<1> QED
  BY <1>1, <1>2, <1>3, <1>4, <1>5, <1>6, <1>7, <1>8 DEF Next, LoopNext

-----------------------------------------------------------------------------
(* The file lags by at most one write.                                     *)

\* The step of each goroutine keeps LagInv.
LEMMA LagPreserved ==
  TypeOK /\ PhaseInv /\ ScheduleInv /\ LagInv /\ [Next]_vars => LagInv'
<1> SUFFICES ASSUME TypeOK, PhaseInv, ScheduleInv, LagInv, [Next]_vars,
                    Persistent, ~DiskFaults, ~draining'
             PROVE  LagInv'
  BY DEF LagInv
<1> USE DEF LagInv, begun, contents, written, schedule, files, clientVars, counts
<1>1. CASE CallerNext
  BY <1>1 DEF CallerNext, SubmitWriteRequest, Enqueue, ReceiveError, ReceiveClosed
<1>2. CASE ReceiveWrite
  BY <1>2 DEF ReceiveWrite
<1>3. CASE CheckWriteRequest
  BY <1>3 DEF CheckWriteRequest
<1>4. CASE ProcessWriteRequest \/ SetPushFailedTimestamp
  BY <1>4 DEF ProcessWriteRequest, SetPushFailedTimestamp, TypeOK
<1>5. CASE Acknowledge
  BY <1>5 DEF Acknowledge, checkPersist, ScheduleInv, TypeOK
<1>6. CASE ReceivePersistDone
  BY <1>6 DEF ReceivePersistDone, checkPersist, PhaseInv, TypeOK
<1>7. CASE NextInDrain \/ ReceiveDrain
  BY <1>7 DEF NextInDrain, ReceiveDrain
<1>8. CASE Drained \/ FinalEncode \/ FinalRename \/ FinalPersistFails \/ ShutdownReturns
  BY <1>8 DEF Drained, StartFinalPersist, FinalStep, FinalEncode, FinalRename,
              FinalPersistFails, ShutdownReturns, PhaseInv
<1>9. CASE TimerFire
  BY <1>9 DEF TimerFire, TimerStep
<1>10. CASE TimerEncode
  BY <1>10 DEF TimerEncode, TimerStep, Image, TypeOK
<1>11. CASE TimerRename
  BY <1>11 DEF TimerRename, TimerStep, ScheduleInv, TypeOK
<1>12. CASE TimerPersistFails
  BY <1>12 DEF TimerPersistFails
<1>13. CASE Shutdown
  BY <1>13 DEF Shutdown
<1>14. CASE Restart
  BY <1>14 DEF Restart, TypeOK
<1>15. CASE UNCHANGED vars
  BY <1>15 DEF vars
<1> QED
  BY <1>1, <1>2, <1>3, <1>4, <1>5, <1>6, <1>7, <1>8, <1>9, <1>10, <1>11, <1>12,
     <1>13, <1>14, <1>15 DEF Next, LoopNext, TimerNext

-----------------------------------------------------------------------------
(* What Shutdown leaves on disk.                                           *)

\* Once the queue is drained nothing changes the contents, and only the timer's
\* goroutine can replace the file.
LEMMA DrainPreserved ==
  TypeOK /\ PhaseInv /\ DrainInv /\ [Next]_vars => DrainInv'
<1> SUFFICES ASSUME TypeOK, PhaseInv, DrainInv, [Next]_vars PROVE DrainInv'
  OBVIOUS
<1> USE DEF DrainInv, OnDisk, contents, written, schedule, files, clientVars, counts
<1>1. CASE CallerNext
  <2>1. ASSUME NEW c \in Callers, NEW wr \in WriteRequests, SubmitWriteRequest(c, wr)
        PROVE  DrainInv'
    <3>1. Len(writeQueue') = Len(writeQueue) + 1 /\ Len(writeQueue) \in Nat
      BY <2>1 DEF SubmitWriteRequest, Enqueue, TypeOK
    <3>2. shutdown # "no" => late' = late + 1
      BY <2>1 DEF SubmitWriteRequest, Enqueue
    <3>3. loop \in {"persist", "rename", "done", "doneErr", "exited"}
            => Len(writeQueue') <= late'
      BY <3>1, <3>2 DEF PhaseInv, TypeOK
    <3> QED
      BY <2>1, <3>3 DEF SubmitWriteRequest, Enqueue
  <2>2. ASSUME NEW c \in Callers, ReceiveError(c) \/ ReceiveClosed(c)
        PROVE  DrainInv'
    BY <2>2 DEF ReceiveError, ReceiveClosed
  <2> QED
    BY <1>1, <2>1, <2>2 DEF CallerNext
<1>2. CASE ReceiveWrite
  BY <1>2 DEF ReceiveWrite, PhaseInv
<1>3. CASE CheckWriteRequest \/ ProcessWriteRequest \/ SetPushFailedTimestamp
  BY <1>3 DEF CheckWriteRequest, ProcessWriteRequest, SetPushFailedTimestamp, PhaseInv
<1>4. CASE Acknowledge \/ NextInDrain \/ ReceivePersistDone \/ ReceiveDrain
  BY <1>4 DEF Acknowledge, NextInDrain, ReceivePersistDone, ReceiveDrain, PhaseInv
<1>5. CASE Drained
  BY <1>5 DEF Drained, StartFinalPersist, FinalStep, PhaseInv, TypeOK
<1>6. CASE FinalEncode
  BY <1>6 DEF FinalEncode, FinalStep, PhaseInv, Image
<1>7. CASE FinalRename
  BY <1>7 DEF FinalRename, FinalStep, PhaseInv
<1>8. CASE FinalPersistFails
  BY <1>8 DEF FinalPersistFails, FinalStep, PhaseInv
<1>9. CASE ShutdownReturns
  BY <1>9 DEF ShutdownReturns
<1>10. CASE TimerNext
  BY <1>10 DEF TimerNext, TimerFire, TimerEncode, TimerRename, TimerPersistFails,
               TimerStep
<1>11. CASE Shutdown
  BY <1>11 DEF Shutdown
<1>12. CASE Restart
  BY <1>12 DEF Restart
<1>13. CASE UNCHANGED vars
  BY <1>13 DEF vars
<1> QED
  BY <1>1, <1>2, <1>3, <1>4, <1>5, <1>6, <1>7, <1>8, <1>9, <1>10, <1>11, <1>12,
     <1>13 DEF Next, LoopNext

-----------------------------------------------------------------------------
(* The theorems.                                                           *)

\* The inductive invariant holds at first, is preserved, and is thus invariant.
LEMMA InductiveInvariant == Spec => []IInv
<1>1. Init => IInv
  <2> SUFFICES ASSUME Init PROVE PhaseInv /\ ScheduleInv /\ LagInv /\ DrainInv
    BY TypeOKInitial DEF IInv
  <2> QED
    BY DEF Init, PhaseInv, ScheduleInv, LagInv, begun, DrainInv, NoImage, Image
<1>2. IInv /\ [Next]_vars => IInv'
  BY TypeOKPreserved, PhasePreserved, ScheduleInductive, LagPreserved, DrainPreserved
     DEF IInv
<1> QED
  BY <1>1, <1>2, PTL DEF Spec

\* Two goroutines never persist at the same time while the store serves requests.
THEOREM PersistsOneAtATime == Spec => OnePersistAtATime
<1>1. IInv /\ [Next]_vars =>
        ((persistTimer' = "armed" /\ persistTimer # "armed") =>
           \/ persistTimer = "off"
           \/ persistTimer = "sending" /\ loop = "select")
  <2> SUFFICES ASSUME IInv, Next, persistTimer' = "armed", persistTimer # "armed"
               PROVE  \/ persistTimer = "off"
                      \/ persistTimer = "sending" /\ loop = "select"
    BY DEF vars, schedule
  <2> USE DEF schedule
  <2>1. CASE CallerNext
    BY <2>1 DEF CallerNext, SubmitWriteRequest, Enqueue, ReceiveError, ReceiveClosed
  <2>2. CASE Acknowledge
    BY <2>2 DEF Acknowledge, checkPersist, IInv, ScheduleInv, TypeOK
  <2>3. CASE ReceivePersistDone
    BY <2>3 DEF ReceivePersistDone
  <2>4. CASE ReceiveWrite \/ CheckWriteRequest \/ ProcessWriteRequest
               \/ SetPushFailedTimestamp \/ NextInDrain
    BY <2>4 DEF ReceiveWrite, CheckWriteRequest, ProcessWriteRequest,
                SetPushFailedTimestamp, NextInDrain
  <2>5. CASE ReceiveDrain \/ Drained \/ FinalEncode \/ FinalRename
               \/ FinalPersistFails \/ ShutdownReturns
    BY <2>5 DEF ReceiveDrain, Drained, StartFinalPersist, FinalStep, FinalEncode,
                FinalRename, FinalPersistFails, ShutdownReturns
  <2>6. CASE TimerNext
    BY <2>6 DEF TimerNext, TimerFire, TimerEncode, TimerRename, TimerPersistFails,
                TimerStep
  <2>7. CASE Shutdown \/ Restart
    BY <2>7 DEF Shutdown, Restart
  <2> QED
    BY <2>1, <2>2, <2>3, <2>4, <2>5, <2>6, <2>7 DEF Next, LoopNext
<1> QED
  BY <1>1, InductiveInvariant, PTL DEF Spec, OnePersistAtATime

\* With a file that can be written, a loop that waits with nothing scheduled has
\* persisted everything except at most the last write.
THEOREM FileLagsByAtMostOne == Spec => []LagAtMostOne
<1>1. IInv => LagAtMostOne
  BY DEF IInv, TypeOK, PhaseInv, LagInv, begun, LagAtMostOne
<1> QED
  BY <1>1, InductiveInvariant, PTL

\* When Shutdown has returned nil, no request submitted before it was called is
\* left in the queue, and the file holds the contents of the store, or what a persist that was under way has seen.
THEOREM ShutdownDrainsToDisk == Spec => []DrainedToDisk
<1>1. IInv => DrainedToDisk
  BY DEF IInv, PhaseInv, DrainInv, OnDisk, DrainedToDisk
<1> QED
  BY <1>1, InductiveInvariant, PTL

-----------------------------------------------------------------------------
(* Nobody is left waiting.                                                 *)

\* A queue with one more request has the others where they were.
LEMMA LongerQueue ==
  ASSUME NEW S, NEW q \in Seq(S), NEW wr \in S, NEW longer, longer = Append(q, wr)
  PROVE  /\ Len(q) + 1 \in DOMAIN longer /\ longer[Len(q) + 1] = wr
         /\ \A i \in DOMAIN q : i \in DOMAIN longer /\ longer[i] = q[i]
OBVIOUS

\* A request is the head of the queue or is still in what is left without it.
LEMMA ShorterQueue ==
  ASSUME NEW S, NEW q \in Seq(S), q # <<>>, NEW rest, rest = Tail(q)
  PROVE  \A i \in DOMAIN q : q[i] = Head(q) \/ \E j \in DOMAIN rest : rest[j] = q[i]
<1>1. /\ rest \in Seq(S) /\ Len(rest) = Len(q) - 1 /\ Len(q) \in Nat
      /\ \A j \in 1 .. Len(rest) : rest[j] = q[j + 1]
  OBVIOUS
<1>2. ASSUME NEW i \in DOMAIN q PROVE q[i] = Head(q) \/ \E j \in DOMAIN rest : rest[j] = q[i]
  <2>1. CASE i = 1
    BY <2>1
  <2>2. CASE i # 1
    <3>1. i - 1 \in 1 .. Len(rest) /\ (i - 1) + 1 = i
      BY <1>1, <2>2
    <3>2. rest[i - 1] = q[i]
      BY <1>1, <3>1
    <3> QED
      BY <1>1, <3>1, <3>2
  <2> QED
    BY <2>1, <2>2
<1> QED
  BY <1>2

\* Requests enter the queue with their callers' waiting, pass from it to the loop,
\* and leave the loop, unless it drains the queue, when it closes their channels.
LEMMA WaitersKept == TypeOK /\ NoWaiterForgotten /\ [Next]_vars => NoWaiterForgotten'
<1> SUFFICES ASSUME TypeOK, NoWaiterForgotten, [Next]_vars, ~draining',
                    NEW c \in Callers, caller'[c] # "idle"
             PROVE  done'[c].closed \/ HasRequestOf(c)'
  BY DEF NoWaiterForgotten
<1>1. /\ writeQueue \in Seq(WriteRequests) /\ current \in Seq(WriteRequests)
      /\ done = [d \in Callers |-> done[d]] /\ caller = [d \in Callers |-> caller[d]]
      /\ \A d \in Callers : done[d] \in [err : BOOLEAN, closed : BOOLEAN]
  BY DEF TypeOK
<1>2. ~draining /\ caller[c] # "idle" => done[c].closed \/ HasRequestOf(c)
  BY DEF NoWaiterForgotten
<1>3. ASSUME draining' = draining, writeQueue' = writeQueue, current' = current,
             caller'[c] = caller[c], done'[c].closed = done[c].closed
      PROVE  done'[c].closed \/ HasRequestOf(c)'
  BY <1>2, <1>3 DEF HasRequestOf
<1>4. ASSUME NEW d \in Callers, NEW wr \in WriteRequests, SubmitWriteRequest(d, wr)
      PROVE  done'[c].closed \/ HasRequestOf(c)'
  <2>1. /\ writeQueue' = Append(writeQueue, wr) /\ current' = current
        /\ draining' = draining
    BY <1>4 DEF SubmitWriteRequest, Enqueue
  <2>2. /\ Len(writeQueue) + 1 \in DOMAIN writeQueue'
        /\ writeQueue'[Len(writeQueue) + 1] = wr
        /\ \A i \in DOMAIN writeQueue :
             i \in DOMAIN writeQueue' /\ writeQueue'[i] = writeQueue[i]
    BY <1>1, <2>1, LongerQueue
  <2>3. CASE c = d
    <3>1. wr.done = c
      BY <1>1, <1>4, <2>3 DEF SubmitWriteRequest, Enqueue
    <3> QED
      BY <2>2, <3>1 DEF HasRequestOf
  <2>4. CASE c # d
    <3>1. caller'[c] = caller[c] /\ done'[c] = done[c]
      BY <1>1, <1>4, <2>4 DEF SubmitWriteRequest, Enqueue
    <3>2. done[c].closed \/ HasRequestOf(c)
      BY <1>2, <2>1, <3>1
    <3> QED
      BY <2>1, <2>2, <3>1, <3>2 DEF HasRequestOf
  <2> QED
    BY <2>3, <2>4
<1>5. ASSUME NEW d \in Callers, ReceiveError(d) \/ ReceiveClosed(d)
      PROVE  done'[c].closed \/ HasRequestOf(c)'
  <2>1. writeQueue' = writeQueue /\ current' = current /\ draining' = draining
    BY <1>5 DEF ReceiveError, ReceiveClosed
  <2>2. caller[c] # "idle" /\ done'[c].closed = done[c].closed
    <3>1. CASE c = d
      <4>1. ReceiveError(d)
        BY <1>1, <1>5, <3>1 DEF ReceiveClosed
      <4>2. done' = [done EXCEPT ![c] = [done[c] EXCEPT !.err = FALSE]]
        BY <3>1, <4>1 DEF ReceiveError
      <4>3. done'[c] = [done[c] EXCEPT !.err = FALSE]
        BY <1>1, <4>2
      <4>4. done'[c].closed = done[c].closed
        BY <1>1, <4>3
      <4> QED
        BY <3>1, <4>1, <4>4 DEF ReceiveError
    <3>2. CASE c # d
      BY <1>1, <1>5, <3>2 DEF ReceiveError, ReceiveClosed
    <3> QED
      BY <3>1, <3>2
  <2> QED
    BY <1>2, <2>1, <2>2 DEF HasRequestOf
<1>6. CASE ReceiveWrite
  <2>1. /\ writeQueue # <<>> /\ writeQueue' = Tail(writeQueue)
        /\ current' = <<Head(writeQueue)>> /\ current = <<>>
        /\ caller' = caller /\ done' = done /\ draining' = draining
    <3>1. loop \in {"select", "drain"}
      BY <1>6 DEF ReceiveWrite
    <3>2. Len(current) = 0
      BY <3>1 DEF TypeOK
    <3>3. current = <<>>
      BY <1>1, <3>2
    <3> QED
      BY <1>6, <3>3 DEF ReceiveWrite, clientVars
  <2>2. \A i \in DOMAIN writeQueue :
          \/ writeQueue[i] = Head(writeQueue)
          \/ \E j \in DOMAIN writeQueue' : writeQueue'[j] = writeQueue[i]
    <3>1. PICK rest : rest = Tail(writeQueue)
      OBVIOUS
    <3>2. writeQueue \in Seq(WriteRequests) /\ writeQueue # <<>> /\ writeQueue' = rest
      BY <1>1, <2>1, <3>1
    <3>3. \A i \in DOMAIN writeQueue :
            writeQueue[i] = Head(writeQueue) \/ \E j \in DOMAIN rest : rest[j] = writeQueue[i]
      BY <3>1, <3>2, ShorterQueue
    <3> QED
      BY <3>2, <3>3
  <2>3. current' # <<>> /\ current'[1] = Head(writeQueue)
    BY <2>1
  <2>4. done[c].closed \/ \E i \in DOMAIN writeQueue : writeQueue[i].done = c
    <3>1. caller[c] # "idle" /\ ~draining /\ current = <<>>
      BY <2>1
    <3>2. done[c].closed \/ HasRequestOf(c)
      BY <1>2, <3>1
    <3> QED
      BY <3>1, <3>2 DEF HasRequestOf
  <2> QED
    BY <2>1, <2>2, <2>3, <2>4 DEF HasRequestOf
<1>7. CASE CheckWriteRequest
  <2>1. done'[c].closed = done[c].closed
    BY <1>1, <1>7 DEF CheckWriteRequest
  <2> QED
    BY <1>3, <1>7, <2>1 DEF CheckWriteRequest
<1>8. CASE Acknowledge
  <2>1. writeQueue' = writeQueue /\ caller' = caller /\ draining' = draining
    BY <1>8 DEF Acknowledge
  <2>2. CASE current[1].done = c
    <3>1. c # NoDone
      BY NoDoneAssumption
    <3> QED
      BY <1>1, <1>8, <2>2, <3>1 DEF Acknowledge
  <2>3. CASE current[1].done # c
    <3>1. done'[c] = done[c]
      BY <1>1, <1>8, <2>3 DEF Acknowledge
    <3> QED
      BY <1>2, <2>1, <2>3, <3>1 DEF HasRequestOf
  <2> QED
    BY <2>2, <2>3
<1>9. CASE NextInDrain \/ ReceiveDrain
  BY <1>9 DEF NextInDrain, ReceiveDrain
<1>10. CASE Restart
  BY <1>10 DEF Restart
<1>11. CASE UNCHANGED vars
  BY <1>3, <1>11 DEF vars, clientVars
<1>12. CASE \/ ProcessWriteRequest \/ SetPushFailedTimestamp \/ ReceivePersistDone
            \/ Drained \/ FinalEncode \/ FinalRename \/ FinalPersistFails
            \/ ShutdownReturns \/ TimerNext \/ Shutdown
  BY <1>3, <1>12
     DEF ProcessWriteRequest, SetPushFailedTimestamp, ReceivePersistDone, Drained,
         StartFinalPersist, FinalStep, FinalEncode, FinalRename, FinalPersistFails,
         ShutdownReturns, TimerNext, TimerFire, TimerEncode, TimerRename,
         TimerPersistFails, TimerStep, Shutdown, clientVars
<1> QED
  BY <1>4, <1>5, <1>6, <1>7, <1>8, <1>9, <1>10, <1>11, <1>12 DEF Next, CallerNext, LoopNext

\* While the queue is not drained, whoever waits at an open channel has a request
\* that is queued or that the loop is about to finish.
THEOREM NobodyForgotten == Spec => []NoWaiterForgotten
<1>1. Init => NoWaiterForgotten
  BY DEF Init, NoWaiterForgotten
<1> QED
  BY <1>1, WaitersKept, TypeCorrect, PTL DEF Spec

=============================================================================
