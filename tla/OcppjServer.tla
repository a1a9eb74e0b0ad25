---------------------------- MODULE OcppjServer ----------------------------
(***************************************************************************)
(* How an ocpp-go CSMS sends its requests to the charging stations: the    *)
(* application's goroutines call SendRequestAsync, which queues a callback *)
(* and hands the request to the server dispatcher; one goroutine, the      *)
(* message pump, takes the requests of all stations from their queues and  *)
(* writes them; the read goroutine of a connection completes a request     *)
(* when its answer arrives and calls the callback; connections open and    *)
(* close on goroutines of their own; a timer cancels a request.            *)
(*                                                                         *)
(* Mutexes that protect a single access are the atomicity of a step. Two   *)
(* are held over a blocking operation and are state: callbacksMutex        *)
(* (cbLock) and the read side of the dispatcher's mutex (readers). A       *)
(* goroutine that waits to write (wanted) keeps new readers out.           *)
(***************************************************************************)
EXTENDS Naturals, Sequences, FiniteSets, Functions

CONSTANTS
  Clients,      \* ids of charging stations
  Requests,     \* requests of the application, each from a goroutine of its own
  Uses,         \* uses of the server: the station of each request that is sent,
                \* the bounds on the connections of a station and on the timeouts
                \* that elapse, whether Stop is called
  MaxConnects,  \* the largest bound on the connections of a station
  RequestCap,   \* capacity of requestChannel, 20 in the code
  TimerCap,     \* capacity of timerC, 10 in the code
  NoReq, NoQueue

ASSUME OcppjServerAssumption ==
  /\ \A u \in Uses : /\ u.target \in UNION {[R -> Clients] : R \in SUBSET Requests}
                     /\ u.timeouts \in Nat /\ u.stops \in BOOLEAN
                     /\ u.connects \in 1..MaxConnects
  /\ MaxConnects \in Nat \ {0} /\ RequestCap \in Nat \ {0} /\ TimerCap \in Nat \ {0}
  /\ NoReq \notin Requests /\ "none" \notin Requests
  /\ NoQueue \notin Clients \X (1..MaxConnects)

VARIABLES
  use,          \* the use of the server
  running,      \* DefaultServerDispatcher.running
  queueMap,     \* client -> its queue object, or NoQueue
  heap,         \* queue object -> its elements
  pending,      \* client -> the request in its clientState, or NoReq
  requestChannel, timerC, readyForDispatch,
  ctx,          \* clientContextMap, with what the timer of a context has done
  timeouts,     \* number of timeouts so far
  pump,         \* the locals of messagePump that outlive an iteration
  pc,           \* goroutine -> where it is
  frame,        \* goroutine -> the request and the queue it works on
  readers,      \* goroutines that hold the dispatcher's mutex for reading
  wanted,       \* whether a goroutine waits in Lock for the readers
  cbLock,       \* whether TryQueue holds callbacksMutex
  callbacks,    \* client -> callbacks, named by the request they belong to
  connected,    \* the ids in the connections of the websocket server
  connects,     \* client -> its number of connections so far
  wire,         \* client -> requests written to it, in order
  answered,     \* requests that their station has answered
  outcome       \* history: what the callback of a request was called with

vars == <<use, running, queueMap, heap, pending, requestChannel, timerC, readyForDispatch,
          ctx, timeouts, pump, pc, frame, readers, wanted, cbLock, callbacks, connected, connects,
          wire, answered, outcome>>
Target == use.target
network == <<connected, connects, wire, answered>>
channels == <<requestChannel, timerC, readyForDispatch>>
contexts == <<ctx, timeouts>>
locks == <<readers, wanted, cbLock>>

Pump == <<"messagePump">>
send(r) == <<"send", r>>
read(c) == <<"read", c>>
open(c) == <<"open", c>>
close(c) == <<"close", c>>
timer(c) == <<"timer", c>>
\* Those of the connection of c before, which a new connection does not wait for.
oldRead(c) == <<"oldRead", c>>
oldOpen(c) == <<"oldOpen", c>>
Threads == {Pump} \cup {send(r) : r \in Requests}
             \cup UNION {{read(c), open(c), close(c), timer(c), oldRead(c), oldOpen(c)} :
                           c \in Clients}

Queues == Clients \X (1..MaxConnects)
NoFrame == [c |-> CHOOSE c \in Clients : TRUE, r |-> NoReq, q |-> NoQueue, then |-> "idle"]

-----------------------------------------------------------------------------

Init ==
  /\ use \in Uses
  /\ running = TRUE
  /\ queueMap = [c \in Clients |-> NoQueue]
  /\ heap = [q \in Queues |-> <<>>]
  /\ pending = [c \in Clients |-> NoReq]
  /\ requestChannel = <<>> /\ timerC = <<>> /\ readyForDispatch = <<>>
  /\ ctx = [c \in Clients |-> "none"] /\ timeouts = 0
  /\ pump = [c |-> NoFrame.c, rdy |-> FALSE, q |-> NoQueue]
  /\ pc = [t \in Threads |-> IF t = Pump THEN "loop" ELSE "idle"]
  /\ frame = [t \in Threads |-> NoFrame]
  /\ readers = {} /\ wanted = FALSE /\ cbLock = FALSE
  /\ callbacks = [c \in Clients |-> <<>>]
  /\ connected = {} /\ connects = [c \in Clients |-> 0]
  /\ wire = [c \in Clients |-> <<>>]
  /\ answered = {}
  /\ outcome = [r \in Requests |-> "none"]

Goto(t, label) == pc' = [pc EXCEPT ![t] = label]
Return(t) == frame' = [frame EXCEPT ![t] = NoFrame]

\* CompleteRequest(c, r), called by t, which goes on at label then.
CallComplete(t, c, r, then) ==
  /\ frame' = [frame EXCEPT ![t] = [c |-> c, r |-> r, q |-> NoQueue, then |-> then]]
  /\ Goto(t, "complete")

\* Mutant of Dequeue: the callback that was queued last is called.
DequeueLast(c, what) ==
  /\ ~cbLock
  /\ IF callbacks[c] = <<>>
       THEN UNCHANGED <<callbacks, outcome>>
       ELSE /\ outcome' = [outcome EXCEPT ![callbacks[c][Len(callbacks[c])]] = what]
            /\ callbacks' = [callbacks EXCEPT ![c] = SubSeq(@, 1, Len(@) - 1)]

\* The first callback of c, if there is one, is called.
Dequeue(c, what) ==
  /\ ~cbLock
  /\ IF callbacks[c] = <<>>
       THEN UNCHANGED <<callbacks, outcome>>
       ELSE /\ outcome' = [outcome EXCEPT ![Head(callbacks[c])] = what]
            /\ callbacks' = [callbacks EXCEPT ![c] = Tail(@)]

-----------------------------------------------------------------------------
(* SendRequestAsync, on a goroutine of the application.                    *)

\* TryQueue locks, appends the callback and tries: IsRunning, for which it may have
\* to wait with the lock, and the look at the queue; without one, or when the server
\* is stopped, the callback is taken back.
WaitForIsRunning(r) ==
  /\ pc[send(r)] = "idle" /\ ~cbLock /\ wanted
  /\ cbLock' = TRUE
  /\ Goto(send(r), "try")
  /\ UNCHANGED <<use, running, queueMap, heap, pending, channels, contexts, pump, frame,
                 readers, wanted, callbacks, network, outcome>>

SendRequestAsync(r) ==
  LET c == Target[r] IN
  /\ (pc[send(r)] = "idle" /\ ~cbLock) \/ pc[send(r)] = "try"
  /\ ~wanted
  /\ IF running /\ queueMap[c] # NoQueue
       THEN /\ cbLock' = TRUE
            /\ callbacks' = [callbacks EXCEPT ![c] = Append(@, r)]
            /\ frame' = [frame EXCEPT ![send(r)].q = queueMap[c]]
            /\ Goto(send(r), "push")
       ELSE /\ cbLock' = FALSE
            /\ Goto(send(r), "refused")
            /\ UNCHANGED <<callbacks, frame>>
  /\ UNCHANGED <<use, running, queueMap, heap, pending, channels, contexts, pump, readers,
                 wanted, network, outcome>>

Push(r) ==
  /\ pc[send(r)] = "push"
  /\ heap' = [heap EXCEPT ![frame[send(r)].q] = Append(@, r)]
  /\ Goto(send(r), "notify")
  /\ UNCHANGED <<use, running, queueMap, pending, channels, contexts, pump, frame, locks,
                 callbacks, network, outcome>>

\* RUnlock: when the last reader leaves, the writers that waited are let in.
RUnlock(t) ==
  /\ readers' = readers \ {t}
  /\ wanted' = (wanted /\ readers' # {})

\* requestChannel <- c under the read lock, which is kept while the channel is
\* full. Part of SendRequest and of DeleteClient.
ToRequestChannel(t, c) ==
  /\ (pc[t] = "notify" /\ ~wanted) \/ pc[t] = "blocked"
  /\ Len(requestChannel) < RequestCap
  /\ requestChannel' = Append(requestChannel, c)
  /\ RUnlock(t)

BlockOnRequestChannel(t) ==
  /\ pc[t] = "notify" /\ ~wanted
  /\ Len(requestChannel) >= RequestCap
  /\ readers' = readers \cup {t}
  /\ Goto(t, "blocked")
  /\ UNCHANGED <<use, running, queueMap, heap, pending, channels, contexts, pump, frame, wanted,
                 cbLock, callbacks, network, outcome>>

\* Lock, called while there are readers: by CompleteRequest, by the pump, by the
\* handlers of a closed connection and of an answer, and by Stop.
WaitForReaders ==
  /\ readers # {} /\ ~wanted
  /\ \/ \E t \in Threads : pc[t] \in {"delete", "timedOut", "add", "clear"}
     \/ \E r \in DOMAIN Target : r \in Range(wire[Target[r]]) \ answered
                                    /\ pc[read(Target[r])] = "reading"
     \/ use.stops /\ running
  /\ wanted' = TRUE
  /\ UNCHANGED <<use, running, queueMap, heap, pending, channels, contexts, pump, pc, frame,
                 readers, cbLock, callbacks, network, outcome>>

\* SendRequest returns, and with it TryQueue.
Notify(r) ==
  /\ ToRequestChannel(send(r), Target[r])
  /\ cbLock' = FALSE
  /\ Goto(send(r), "done") /\ Return(send(r))
  /\ UNCHANGED <<use, running, queueMap, heap, pending, timerC, readyForDispatch, contexts, pump,
                 callbacks, network, outcome>>

-----------------------------------------------------------------------------
(* CompleteRequest, on the pump and on the read goroutines. The look at    *)
(* the queue and the removal from it are two accesses.                     *)

CompletePeek(t) ==
  LET q == queueMap[frame[t].c] IN
  /\ pc[t] = "complete"
  /\ IF q # NoQueue /\ heap[q] # <<>> /\ Head(heap[q]) = frame[t].r
       THEN Goto(t, "pop") /\ frame' = [frame EXCEPT ![t].q = q]
       ELSE Goto(t, frame[t].then) /\ UNCHANGED frame
  /\ UNCHANGED <<use, running, queueMap, heap, pending, channels, contexts, pump, locks,
                 callbacks, network, outcome>>

CompletePop(t) ==
  /\ pc[t] = "pop"
  /\ heap' = [heap EXCEPT ![frame[t].q] = IF @ = <<>> THEN @ ELSE Tail(@)]
  /\ Goto(t, "delete")
  /\ UNCHANGED <<use, running, queueMap, pending, channels, contexts, pump, frame, locks,
                 callbacks, network, outcome>>

DeletePendingRequest(t) ==
  /\ pc[t] = "delete" /\ readers = {}
  /\ pending' = [pending EXCEPT ![frame[t].c] = IF @ = frame[t].r THEN NoReq ELSE @]
  /\ Goto(t, "ready")
  /\ UNCHANGED <<use, running, queueMap, heap, channels, contexts, pump, frame, locks,
                 callbacks, network, outcome>>

\* readyForDispatch has room for one value.
SignalReady(t) ==
  /\ pc[t] = "ready"
  /\ readyForDispatch = <<>>
  /\ readyForDispatch' = <<frame[t].c>>
  /\ Goto(t, frame[t].then)
  /\ UNCHANGED <<use, running, queueMap, heap, pending, requestChannel, timerC, contexts, pump,
                 frame, locks, callbacks, network, outcome>>

-----------------------------------------------------------------------------
(* messagePump. The select takes any case that is ready. Before it waits it *)
(* evaluates reqChan(), which reads requestChannel under the read lock.    *)

ReqChan ==
  /\ pc[Pump] = "loop" /\ ~wanted
  /\ Goto(Pump, "select")
  /\ UNCHANGED <<use, running, queueMap, heap, pending, channels, contexts, pump, frame, locks,
                 callbacks, network, outcome>>

\* Mutant of PumpRequest: a request in flight is not looked at.
PumpRequestReady ==
  LET c == Head(requestChannel)
      q == queueMap[c] IN
  /\ pc[Pump] = "select" /\ requestChannel # <<>>
  /\ requestChannel' = Tail(requestChannel)
  /\ IF q = NoQueue
       THEN /\ ctx' = [ctx EXCEPT ![c] = "none"]
            /\ pump' = [pump EXCEPT !.c = c, !.q = NoQueue]
            /\ Goto(Pump, "loop")
       ELSE /\ pump' = [c |-> c, q |-> q, rdy |-> TRUE]
            /\ Goto(Pump, "check")
            /\ UNCHANGED ctx
  /\ UNCHANGED <<use, running, queueMap, heap, pending, timerC, readyForDispatch, timeouts, frame,
                 locks, callbacks, network, outcome>>

PumpRequest ==
  LET c == Head(requestChannel)
      q == queueMap[c] IN
  /\ pc[Pump] = "select" /\ requestChannel # <<>>
  /\ requestChannel' = Tail(requestChannel)
  /\ IF q = NoQueue
       THEN /\ ctx' = [ctx EXCEPT ![c] = "none"]
            /\ pump' = [pump EXCEPT !.c = c, !.q = NoQueue]
            /\ Goto(Pump, "loop")
       ELSE /\ pump' = [c |-> c, q |-> q, rdy |-> ctx[c] \in {"none", "idle"}]
            /\ Goto(Pump, "check")
            /\ UNCHANGED ctx
  /\ UNCHANGED <<use, running, queueMap, heap, pending, timerC, readyForDispatch, timeouts, frame,
                 locks, callbacks, network, outcome>>

CancelContext(c) == ctx' = [ctx EXCEPT ![c] = IF @ = "none" THEN "none" ELSE "idle"]

\* rdy and the queue stay as the previous iteration left them.
PumpTimeout ==
  LET c == Head(timerC) IN
  /\ pc[Pump] = "select" /\ timerC # <<>>
  /\ timerC' = Tail(timerC)
  /\ CancelContext(c)
  /\ pump' = [pump EXCEPT !.c = c]
  /\ Goto(Pump, "timedOut")
  /\ UNCHANGED <<use, running, queueMap, heap, pending, requestChannel, readyForDispatch,
                 timeouts, frame, locks, callbacks, network, outcome>>

\* HasPendingRequest; the request to cancel is the first one of the queue.
TimedOut ==
  LET c == pump.c
      q == queueMap[c] IN
  /\ pc[Pump] = "timedOut" /\ readers = {}
  /\ IF pending[c] = NoReq THEN Goto(Pump, "check") /\ UNCHANGED frame
     ELSE IF q = NoQueue \/ heap[q] = <<>> THEN Goto(Pump, "loop") /\ UNCHANGED frame
     ELSE CallComplete(Pump, c, Head(heap[q]), "timeoutCancel")
  /\ UNCHANGED <<use, running, queueMap, heap, pending, channels, contexts, pump, locks,
                 callbacks, network, outcome>>

PumpReady ==
  LET c == Head(readyForDispatch)
      q == queueMap[c] IN
  /\ pc[Pump] = "select" /\ readyForDispatch # <<>>
  /\ readyForDispatch' = <<>>
  /\ CancelContext(c)
  /\ pump' = [c |-> c, q |-> q, rdy |-> pump.rdy \/ q # NoQueue]
  /\ Goto(Pump, "check")
  /\ UNCHANGED <<use, running, queueMap, heap, pending, requestChannel, timerC, timeouts, frame,
                 locks, callbacks, network, outcome>>

PumpStopped ==
  /\ pc[Pump] = "select" /\ ~running
  /\ queueMap' = [c \in Clients |-> NoQueue]
  /\ Goto(Pump, "stopped")
  /\ UNCHANGED <<use, running, heap, pending, channels, contexts, pump, frame, locks, callbacks,
                 network, outcome>>

PumpCheck ==
  /\ pc[Pump] = "check"
  /\ Goto(Pump, IF pump.rdy /\ pump.q # NoQueue /\ heap[pump.q] # <<>>
                  THEN "dispatch" ELSE "loop")
  /\ UNCHANGED <<use, running, queueMap, heap, pending, channels, contexts, pump, frame, locks,
                 callbacks, network, outcome>>

\* The context that dispatchNextRequest returned is stored.
Dispatched(context) ==
  /\ ctx' = [ctx EXCEPT ![pump.c] = context]
  /\ pump' = [pump EXCEPT !.rdy = FALSE]
  /\ Goto(Pump, "loop")

\* dispatchNextRequest looks the queue up again, by the id of the client, and
\* dereferences its first element.
DispatchPeek ==
  LET q == queueMap[pump.c] IN
  /\ pc[Pump] = "dispatch"
  /\ IF q = NoQueue THEN Dispatched("idle") /\ UNCHANGED frame
     ELSE IF heap[q] = <<>> THEN Goto(Pump, "panic") /\ UNCHANGED <<ctx, pump, frame>>
     ELSE /\ frame' = [frame EXCEPT ![Pump].c = pump.c, ![Pump].r = Head(heap[q])]
          /\ Goto(Pump, "add")
          /\ UNCHANGED <<ctx, pump>>
  /\ UNCHANGED <<use, running, queueMap, heap, pending, channels, timeouts, locks, callbacks,
                 network, outcome>>

\* A second pending request is ignored.
AddPendingRequest ==
  LET f == frame[Pump] IN
  /\ pc[Pump] = "add" /\ readers = {}
  /\ pending' = [pending EXCEPT ![f.c] = IF @ = NoReq THEN f.r ELSE @]
  /\ Goto(Pump, "write")
  /\ UNCHANGED <<use, running, queueMap, heap, channels, contexts, pump, frame, locks,
                 callbacks, network, outcome>>

\* Write fails for a client without a socket. What a socket has taken may still
\* be lost with its connection.
DispatchWrite ==
  LET f == frame[Pump] IN
  /\ pc[Pump] = "write"
  /\ IF f.c \in connected
       THEN /\ wire' = [wire EXCEPT ![f.c] = Append(@, f.r)]
            /\ Dispatched("armed") /\ Return(Pump)
       ELSE CallComplete(Pump, f.c, f.r, "writeCancel") /\ UNCHANGED <<wire, ctx, pump>>
  /\ UNCHANGED <<use, running, queueMap, heap, pending, channels, timeouts, locks, callbacks,
                 connected, connects, answered, outcome>>

\* onRequestCancel is handleCanceledRequest of the CSMS.
RequestCanceled ==
  /\ pc[Pump] \in {"timeoutCancel", "writeCancel"}
  /\ Dequeue(frame[Pump].c, "canceled") /\ Return(Pump)
  /\ IF pc[Pump] = "writeCancel" THEN Dispatched("idle")
     ELSE Goto(Pump, "check") /\ UNCHANGED <<ctx, pump>>
  /\ UNCHANGED <<use, running, queueMap, heap, pending, channels, timeouts, locks, network>>

\* waitForTimeout: the deadline of an armed context passes. (A bound: the goroutine
\* of an earlier deadline of the same client has sent.)
DeadlineExceeded(c) ==
  /\ ctx[c] = "armed" /\ timeouts < use.timeouts /\ pc[timer(c)] = "idle"
  /\ ctx' = [ctx EXCEPT ![c] = "fired"]
  /\ timeouts' = timeouts + 1
  /\ Goto(timer(c), "expired")
  /\ UNCHANGED <<use, running, queueMap, heap, pending, channels, pump, frame, locks, callbacks,
                 network, outcome>>

\* timerC <- c under the read lock, which is kept while the channel is full.
WaitForTimeout(c) ==
  /\ (pc[timer(c)] = "expired" /\ ~wanted) \/ pc[timer(c)] = "blocked"
  /\ \/ /\ running /\ pc[timer(c)] = "expired" /\ Len(timerC) >= TimerCap
        /\ readers' = readers \cup {timer(c)}
        /\ Goto(timer(c), "blocked")
        /\ UNCHANGED <<timerC, wanted>>
     \/ /\ (running \/ pc[timer(c)] = "blocked") /\ Len(timerC) < TimerCap
        /\ timerC' = Append(timerC, c)
        /\ RUnlock(timer(c))
        /\ Goto(timer(c), "idle")
     \/ /\ ~running /\ pc[timer(c)] = "expired"
        /\ Goto(timer(c), "idle")
        /\ UNCHANGED <<timerC, readers, wanted>>
  /\ UNCHANGED <<use, running, queueMap, heap, pending, requestChannel, readyForDispatch,
                 contexts, pump, frame, cbLock, callbacks, network, outcome>>

Stop ==
  /\ use.stops /\ running /\ readers = {}
  /\ running' = FALSE
  /\ UNCHANGED <<use, queueMap, heap, pending, channels, contexts, pump, pc, frame, locks,
                 callbacks, network, outcome>>

-----------------------------------------------------------------------------
(* The read goroutine of a connection.                                     *)

\* After a timeout a request may be written again, and then it is answered again.
WrittenTwice(c, r) == \E i, j \in DOMAIN wire[c] : i # j /\ wire[c][i] = r /\ wire[c][j] = r

\* ocppMessageHandler: the station of c answers a request that was written to it.
\* GetClientState takes the lock; an answer to a request that is not pending is
\* dropped by ParseMessage.
ReceiveAnswer(c, r) ==
  /\ pc[read(c)] = "reading" /\ c \in connected
  /\ r \in Range(wire[c]) \ answered \/ WrittenTwice(c, r)
  /\ readers = {}
  /\ answered' = answered \cup {r}
  /\ IF pending[c] = r THEN CallComplete(read(c), c, r, "answer") ELSE UNCHANGED <<pc, frame>>
  /\ UNCHANGED <<use, running, queueMap, heap, pending, channels, contexts, pump, locks,
                 callbacks, connected, connects, wire, outcome>>

\* handleIncomingResponse and handleIncomingError.
HandleAnswer(t, c) ==
  /\ pc[t] = "answer"
  /\ Dequeue(c, frame[t].r) /\ Return(t)
  /\ Goto(t, IF t = read(c) /\ c \in connected THEN "reading" ELSE "idle")
  /\ UNCHANGED <<use, running, queueMap, heap, pending, channels, contexts, pump, locks, network>>

-----------------------------------------------------------------------------
(* Connections.                                                            *)

\* wsHandler adds the socket and starts its goroutines. (A bound: those of the last
\* connection but one have ended.)
Connect(c) ==
  /\ c \notin connected /\ connects[c] < use.connects
  /\ pc[oldRead(c)] = "idle" /\ pc[oldOpen(c)] = "idle"
  /\ connected' = connected \cup {c}
  /\ connects' = [connects EXCEPT ![c] = @ + 1]
  /\ pc' = [pc EXCEPT ![open(c)] = "create", ![read(c)] = "reading",
                      ![oldOpen(c)] = pc[open(c)], ![oldRead(c)] = pc[read(c)]]
  /\ frame' = [frame EXCEPT ![read(c)] = NoFrame, ![oldRead(c)] = frame[read(c)]]
  /\ UNCHANGED <<use, running, queueMap, heap, pending, channels, contexts, pump, locks,
                 callbacks, wire, answered, outcome>>

\* onClientConnected of the n-th connection, after the goroutines were started.
CreateClient(t, c, n) ==
  /\ pc[t] = "create" /\ ~wanted
  /\ queueMap' = [queueMap EXCEPT ![c] = IF running /\ @ = NoQueue THEN <<c, n>> ELSE @]
  /\ Goto(t, "idle")
  /\ UNCHANGED <<use, running, heap, pending, channels, contexts, pump, frame, locks, callbacks,
                 network, outcome>>

\* The connection ends: the socket leaves connections before the handlers are
\* called. A read goroutine that is in its handler stops when it returns. (A bound:
\* the handlers of the connection before have returned.)
Disconnect(c) ==
  /\ c \in connected /\ pc[close(c)] = "idle"
  /\ connected' = connected \ {c}
  /\ pc' = [pc EXCEPT ![close(c)] = "remove",
                      ![read(c)] = IF @ = "reading" THEN "idle" ELSE @]
  /\ wire' = [wire EXCEPT ![c] = <<>>]
  /\ UNCHANGED <<use, running, queueMap, heap, pending, channels, contexts, pump, frame, locks,
                 callbacks, connects, answered, outcome>>

DeleteClient(c) ==
  /\ pc[close(c)] = "remove"
  /\ queueMap' = [queueMap EXCEPT ![c] = NoQueue]
  /\ Goto(close(c), "notify")
  /\ UNCHANGED <<use, running, heap, pending, channels, contexts, pump, frame, locks, callbacks,
                 network, outcome>>

\* The pump is told, if it is running.
NotifyDeleted(c) ==
  /\ \/ /\ running \/ pc[close(c)] = "blocked"
        /\ ToRequestChannel(close(c), c)
     \/ /\ ~running /\ pc[close(c)] = "notify" /\ ~wanted
        /\ UNCHANGED <<requestChannel, readers, wanted>>
  /\ Goto(close(c), "clear")
  /\ UNCHANGED <<use, running, queueMap, heap, pending, timerC, readyForDispatch, contexts, pump,
                 frame, cbLock, callbacks, network, outcome>>

ClearClientPendingRequest(c) ==
  /\ pc[close(c)] = "clear" /\ readers = {}
  /\ pending' = [pending EXCEPT ![c] = NoReq]
  /\ Goto(close(c), "drain")
  /\ UNCHANGED <<use, running, queueMap, heap, channels, contexts, pump, frame, locks, callbacks,
                 network, outcome>>

\* Mutant of DrainCallbacks: only the first callback is called.
DrainOneCallback(c) ==
  /\ pc[close(c)] = "drain"
  /\ Dequeue(c, "disconnected")
  /\ Goto(close(c), "idle")
  /\ UNCHANGED <<use, running, queueMap, heap, pending, channels, contexts, pump, frame, locks,
                 network>>

\* The handler of SetChargingStationDisconnectedHandler: each callback of the
\* client is called with an error, until there is none.
DrainCallbacks(c) ==
  /\ pc[close(c)] = "drain"
  /\ Dequeue(c, "disconnected")
  /\ Goto(close(c), IF callbacks[c] = <<>> THEN "idle" ELSE "drain")
  /\ UNCHANGED <<use, running, queueMap, heap, pending, channels, contexts, pump, frame, locks,
                 network>>

-----------------------------------------------------------------------------

PumpStep ==
  \/ ReqChan \/ PumpRequest \/ PumpTimeout \/ TimedOut \/ PumpReady \/ PumpStopped \/ PumpCheck
  \/ DispatchPeek \/ AddPendingRequest \/ DispatchWrite \/ RequestCanceled
  \/ CompletePeek(Pump) \/ CompletePop(Pump) \/ DeletePendingRequest(Pump)
  \/ SignalReady(Pump)

SendStep(r) ==
  \/ WaitForIsRunning(r) \/ SendRequestAsync(r) \/ Push(r)
  \/ Notify(r) \/ BlockOnRequestChannel(send(r))

ReadStep(t, c) ==
  \/ CompletePeek(t) \/ CompletePop(t) \/ DeletePendingRequest(t) \/ SignalReady(t)
  \/ HandleAnswer(t, c)

OpenStep(c) ==
  CreateClient(open(c), c, connects[c]) \/ CreateClient(oldOpen(c), c, connects[c] - 1)

CloseStep(c) ==
  \/ DeleteClient(c) \/ NotifyDeleted(c) \/ BlockOnRequestChannel(close(c))
  \/ ClearClientPendingRequest(c) \/ DrainCallbacks(c)

Next ==
  \/ PumpStep
  \/ \E r \in DOMAIN Target : SendStep(r) \/ ReceiveAnswer(Target[r], r)
  \/ \E c \in Range(Target) :
       \/ ReadStep(read(c), c) \/ ReadStep(oldRead(c), c) \/ OpenStep(c) \/ CloseStep(c)
       \/ Connect(c) \/ Disconnect(c) \/ DeadlineExceeded(c) \/ WaitForTimeout(c)
  \/ WaitForReaders
  \/ Stop

Fairness ==
  /\ WF_vars(PumpStep)
  /\ \A r \in Requests :
       /\ WF_vars(r \in DOMAIN Target /\ SendStep(r))
       /\ WF_vars(r \in DOMAIN Target /\ ReceiveAnswer(Target[r], r))
  /\ \A c \in Clients :
       /\ WF_vars(ReadStep(read(c), c)) /\ WF_vars(ReadStep(oldRead(c), c))
       /\ WF_vars(OpenStep(c)) /\ WF_vars(CloseStep(c)) /\ WF_vars(WaitForTimeout(c))

Spec == Init /\ [][Next]_vars /\ Fairness

-----------------------------------------------------------------------------

\* A goroutine holds the read lock and waits for room in a channel that the pump
\* alone empties.
ReaderWaits ==
  \/ Len(requestChannel) = RequestCap /\ readers \ {timer(c) : c \in Clients} # {}
  \/ Len(timerC) = TimerCap /\ readers \cap {timer(c) : c \in Clients} # {}

\* The pump waits for what only the pump can bring about: it sends on the channel
\* that it alone receives from; or such a reader keeps it from a lock: from writing,
\* from reading requestChannel behind a goroutine that waits to write, or from
\* callbacksMutex, whose holder is the reader or waits behind it. Or it has
\* dereferenced a missing request.
PumpStuck ==
  \/ pc[Pump] = "panic"
  \/ pc[Pump] = "ready" /\ readyForDispatch # <<>>
  \/ /\ ReaderWaits
     /\ \/ pc[Pump] \in {"timedOut", "add", "delete"}
        \/ pc[Pump] = "loop" /\ wanted
        \/ /\ pc[Pump] \in {"timeoutCancel", "writeCancel"}
           /\ \E r \in Requests :
                send(r) \in readers \/ (wanted /\ pc[send(r)] \in {"try", "notify"})

\* "Requests are processed sequentially" (the comment of messagePump): as long as
\* none times out, a request is written to a station at most once, and only when the
\* request before it was answered. The pump shares its locals among all stations,
\* and dispatches on two kinds of events in any order. Once a station connects again
\* the pump may still write what was queued for the connection before.
Sequential ==
  timeouts = 0 => \A c \in Clients : connects[c] <= 1 =>
    /\ IsInjective(wire[c])
    /\ \A i \in 1..(Len(wire[c]) - 1) : wire[c][i] \in answered

\* While its station stays connected and no request times out, the callback of a
\* request is called with the answer to that request or with an error, never with the
\* answer to another one: the callbacks carry no id, only their order (Dequeue).
OwnAnswer ==
  timeouts = 0 => \A r \in DOMAIN Target :
    Target[r] \in connected /\ connects[Target[r]] = 1 /\ outcome[r] \in Requests =>
      outcome[r] = r

\* What the pump works for: the callback of every request that SendRequestAsync
\* accepted is called, with an answer or an error, unless the pump is stuck or the
\* server is stopped. Lost answers, connections that break between any two steps and
\* a full requestChannel leave no other way to lose a callback.
CalledBack ==
  \A r \in Requests :
    pc[send(r)] = "done" ~> outcome[r] # "none" \/ PumpStuck \/ ~running

\* "This method is executed by a dedicated coroutine as soon as the server is
\* started and runs indefinitely" (the comment of messagePump).
RunsIndefinitely == ~PumpStuck

=============================================================================
