----------------------------- MODULE Pushgateway -----------------------------
(***************************************************************************)
(* The process around the store: the HTTP server with one goroutine per    *)
(* request, the goroutine that waits for a signal or a quit request, and   *)
(* main, which shuts the store down when the server has stopped serving.   *)
(*                                                                         *)
(* The store is that of DiskMetricStore: every step here is a step of its  *)
(* store, or leaves the store alone.  A caller of the store is a goroutine *)
(* that handles an HTTP request.  Crashes are left to DiskMetricStore.     *)
(*                                                                         *)
(* The clock is `arrivals': it advances when a request arrives, so that    *)
(* two pushes never have the same time.  Requests that are malformed are   *)
(* answered without touching anything, and are left out.                   *)
(***************************************************************************)
EXTENDS DiskMetricStore

CONSTANTS
  HttpRequests,  \* what clients ask for by PUT, POST and DELETE, from Requests
  Endings,       \* what may end the serving: quit, signal, failure
  MaxArrivals    \* bound: pushes, deletes and wipes that arrive

\* The delete request for a group, as an element of Requests.
DeleteOf(labels) == [labels |-> labels, families |-> NoFamilies, replace |-> FALSE]

AllLabels == {r.labels : r \in Requests}

ASSUME ArrivalsAssumption == MaxArrivals \in Nat /\ 1 .. MaxArrivals \subseteq Times
ASSUME HttpAssumption     == HttpRequests \subseteq Requests
ASSUME DeletesAssumption  == \A labels \in AllLabels : DeleteOf(labels) \in Requests

VARIABLES
  server,     \* the HTTP server: serving, closed
  quitCh,     \* the channel that a quit request closes: open, closed
  signalled,  \* SIGINT or SIGTERM was received
  handler,    \* what the goroutine of each request does, see Handlers
  process,    \* up, gone
  arrivals,   \* the clock
  accepted,   \* history: times of the pushes answered with 200
  refused     \* history: times of the pushes answered with 400

lifecycle == <<server, quitCh, signalled, process>>
answers   == <<accepted, refused>>
front     == <<lifecycle, handler, arrivals, answers>>

gatewayVars == <<vars, front>>

Free == [at |-> "free"]

\* at "submit" and "wait" it has a write request; at "wipe" the labels of groups.
Handlers ==
  {Free}
    \cup [at : {"submit", "wait"}, request : WriteRequests]
    \cup [at : {"wipe"}, groups : SUBSET AllLabels]

GatewayInit ==
  /\ Init
  /\ server = "serving" /\ quitCh = "open" /\ signalled = FALSE
  /\ handler = [c \in Callers |-> Free]
  /\ process = "up"
  /\ arrivals = 0
  /\ accepted = {} /\ refused = {}

-----------------------------------------------------------------------------
(* The handlers.                                                           *)

\* A request gets a goroutine, unless the server has been closed.
Arrives(c, doing) ==
  /\ server = "serving"
  /\ handler[c] = Free
  /\ arrivals < MaxArrivals /\ arrivals' = arrivals + 1
  /\ handler' = [handler EXCEPT ![c] = doing]
  /\ UNCHANGED <<vars, lifecycle, answers>>

\* Push and Delete, up to the moment they have taken the time.
Receive(c, r) ==
  Arrives(c, [at |-> "submit", request |-> WriteRequest(c, r, arrivals + 1)])

\* A push waits for its Done channel if it has one; others are answered with 202.
Submit(c) ==
  /\ handler[c].at = "submit"
  /\ LET wr == handler[c].request IN
     /\ SubmitWriteRequest(c, wr)
     /\ handler' = [handler EXCEPT ![c] =
                      IF wr.done = NoDone THEN Free ELSE [@ EXCEPT !.at = "wait"]]
  /\ UNCHANGED <<lifecycle, arrivals, answers>>

\* Mutated form: the handler returns with the first error.
AnswerAndReturn(c) ==
  /\ handler[c].at = "wait"
  /\ ReceiveError(c)
  /\ refused' = refused \cup {handler[c].request.timestamp}
  /\ handler' = [handler EXCEPT ![c] = Free]
  /\ UNCHANGED <<lifecycle, arrivals, accepted>>

\* An error makes it 400, but the handler goes on reading the channel.
AnswerError(c) ==
  /\ handler[c].at = "wait"
  /\ ReceiveError(c)
  /\ refused' = refused \cup {handler[c].request.timestamp}
  /\ UNCHANGED <<lifecycle, arrivals, handler, accepted>>

\* The channel is closed: without an error before, it is 200.
Answer(c) ==
  /\ handler[c].at = "wait"
  /\ ReceiveClosed(c)
  /\ accepted' = IF caller[c] = "failed" THEN accepted
                 ELSE accepted \cup {handler[c].request.timestamp}
  /\ handler' = [handler EXCEPT ![c] = Free]
  /\ UNCHANGED <<lifecycle, arrivals, refused>>

\* WipeMetricStore takes a snapshot of the groups.
Wipe(c) ==
  Arrives(c, [at     |-> "wipe",
              groups |-> {metricGroups[k].labels : k \in DOMAIN metricGroups}])

\* Mutated form: a group is skipped while the queue is full.
WipeWithoutWaiting(c) ==
  /\ handler[c].at = "wipe"
  /\ \E labels \in handler[c].groups :
       /\ handler' = [handler EXCEPT ![c].groups = @ \ {labels}]
       /\ IF Len(writeQueue) < writeQueueCapacity
            THEN SubmitWriteRequest(c, WriteRequest(c, DeleteOf(labels), arrivals))
            ELSE UNCHANGED vars
  /\ UNCHANGED <<lifecycle, arrivals, answers>>

\* It deletes them one by one, in any order.
WipeGroup(c) ==
  /\ handler[c].at = "wipe"
  /\ \E labels \in handler[c].groups :
       /\ SubmitWriteRequest(c, WriteRequest(c, DeleteOf(labels), arrivals))
       /\ handler' = [handler EXCEPT ![c].groups = @ \ {labels}]
  /\ UNCHANGED <<lifecycle, arrivals, answers>>

WipeReturns(c) ==
  /\ handler[c].at = "wipe" /\ handler[c].groups = {}
  /\ handler' = [handler EXCEPT ![c] = Free]
  /\ UNCHANGED <<vars, lifecycle, arrivals, answers>>

-----------------------------------------------------------------------------
(* The end of the process.                                                 *)

\* A second quit request finds the channel closed and panics; net/http recovers
\* the panic, and nothing changes.
Quit ==
  /\ "quit" \in Endings
  /\ server = "serving"
  /\ quitCh' = "closed"
  /\ UNCHANGED <<vars, server, signalled, process, handler, arrivals, answers>>

Signal ==
  /\ "signal" \in Endings
  /\ signalled' = TRUE
  /\ UNCHANGED <<vars, server, quitCh, process, handler, arrivals, answers>>

CloseServer ==
  /\ server = "serving" /\ server' = "closed"
  /\ UNCHANGED <<vars, quitCh, signalled, process, handler, arrivals, answers>>

\* server.Shutdown: no request is accepted any more, and ListenAndServe returns
\* at once.  The handlers that run go on; only shutdownServerOnQuit waits for
\* them, and nobody waits for it.
ShutdownServerOnQuit == (quitCh = "closed" \/ signalled) /\ CloseServer

\* ListenAndServe returns because of an error.
ServeFails == "failure" \in Endings /\ CloseServer

MainShutdown ==
  /\ server = "closed"
  /\ Shutdown
  /\ UNCHANGED front

\* Mutated form: main waits for the handlers.
ExitWhenIdle ==
  /\ \A c \in Callers : handler[c] = Free
  /\ shutdown \in {"ok", "error"}
  /\ process' = "gone"
  /\ UNCHANGED <<vars, server, quitCh, signalled, handler, arrivals, answers>>

\* main returns, which ends all goroutines.
Exit ==
  /\ shutdown \in {"ok", "error"}
  /\ process' = "gone"
  /\ UNCHANGED <<vars, server, quitCh, signalled, handler, arrivals, answers>>

-----------------------------------------------------------------------------

HandlerNext(c) ==
  \/ Submit(c)
  \/ AnswerError(c)
  \/ Answer(c)
  \/ WipeGroup(c)
  \/ WipeReturns(c)

StoreLoop  == LoopNext /\ UNCHANGED front
StoreTimer == TimerNext /\ UNCHANGED front

GatewayNext ==
  /\ process = "up"
  /\ \/ \E c \in Callers :
          \/ \E r \in HttpRequests : Receive(c, r)
          \/ Wipe(c)
          \/ HandlerNext(c)
     \/ StoreLoop
     \/ StoreTimer
     \/ Quit
     \/ Signal
     \/ ShutdownServerOnQuit
     \/ ServeFails
     \/ MainShutdown
     \/ Exit

GatewaySpec == GatewayInit /\ [][GatewayNext]_gatewayVars

\* Every goroutine that can take a step takes one, while the process lives.
\* Nobody has to send a request or a signal, and serving need not fail.
GatewayFairness ==
  /\ WF_gatewayVars(process = "up" /\ StoreLoop)
  /\ WF_gatewayVars(process = "up" /\ StoreTimer)
  /\ WF_gatewayVars(process = "up" /\ ShutdownServerOnQuit)
  /\ WF_gatewayVars(process = "up" /\ (MainShutdown \/ Exit))
  /\ \A c \in Callers : WF_gatewayVars(process = "up" /\ HandlerNext(c))

GatewayFairSpec == GatewaySpec /\ GatewayFairness

-----------------------------------------------------------------------------
(* Properties.                                                             *)

\* Types, and a handler waits exactly while the store knows it as a caller.
GatewayTypeOK ==
  /\ server \in {"serving", "closed"} /\ quitCh \in {"open", "closed"}
  /\ signalled \in BOOLEAN /\ process \in {"up", "gone"}
  /\ handler \in [Callers -> Handlers]
  /\ \A c \in Callers : handler[c].at = "wait" <=> caller[c] # "idle"
  /\ arrivals \in 0 .. MaxArrivals
  /\ accepted \subseteq Times /\ refused \subseteq Times

\* The status of a push and the metrics agree: no group shows the time of a
\* refused push as its last success, or that of an accepted one as its last
\* failure, whatever else is pushed, deleted or wiped meanwhile.
AnswersAgreeWithMetrics ==
  \A k \in DOMAIN metricGroups :
    /\ GaugeValue(metricGroups[k].metrics[pushMetricName].family) \notin refused
    /\ GaugeValue(metricGroups[k].metrics[pushFailedMetricName].family) \notin accepted

\* Each group a wipe has found and not come to yet goes away, however full the
\* queue is and whoever pushes meanwhile, unless the server is closed.
WipeRemovesSnapshot ==
  \A c \in Callers, labels \in AllLabels :
    (handler[c].at = "wipe" /\ labels \in handler[c].groups)
      ~> (groupingKeyFor(labels) \notin DOMAIN metricGroups \/ server = "closed")

\* Every request is answered, or cut off by the end of the process: also one
\* that finds the queue full, or waits for its Done channel, during a shutdown.
EveryHandlerEnds ==
  \A c \in Callers : handler[c] # Free ~> (handler[c] = Free \/ process = "gone")

\* A quit request or a signal ends the process, even if handlers are waiting.
QuitEndsProcess == (quitCh = "closed" \/ signalled) ~> process = "gone"

=============================================================================
