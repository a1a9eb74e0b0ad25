---------------------------- MODULE OcppjClient ----------------------------
(***************************************************************************)
(* How an ocpp-go charging station sends its requests to the CSMS, down to *)
(* the websocket: goroutines of the application call SendRequest, the      *)
(* message pump of the client dispatcher writes one request at a time, the *)
(* read and the write goroutine of the websocket carry the messages, and a *)
(* connection that breaks pauses the dispatcher, is opened again by the    *)
(* goroutine that cleaned it up, and resumes it. A further goroutine calls *)
(* the callbacks.                                                          *)
(*                                                                         *)
(* Locks held over a blocking operation are state: callbacksMutex          *)
(* (cbLock), the read and the write side of the dispatcher's mutex         *)
(* (readers, pausing), the read side of the websocket's mutex (writers).   *)
(* As in sync.RWMutex, a writer that waits keeps new readers out.          *)
(***************************************************************************)
EXTENDS Naturals, Sequences, FiniteSets, Functions

CONSTANTS
  Requests,   \* requests of the application, each from a goroutine of its own
  Uses,       \* the requests that are sent, in the order in which their goroutines,
              \* which are all alike, start; how they are answered, whether the timer
              \* runs, and the bounds on broken connections and on calls of the CSMS
  OutCap,     \* capacity of outQueue, 2 in the code
  NoReq,
  Answer      \* an answer of this station to a call of the CSMS

ASSUME OcppjClientAssumption ==
  /\ \A u \in Uses : u.requests \in Seq(Requests) /\ u.kinds \subseteq {"result", "error"}
                   /\ u.timeouts \in BOOLEAN /\ {u.drops, u.calls} \subseteq Nat
  /\ OutCap \in Nat \ {0}
  /\ NoReq \notin Requests /\ Answer \notin Requests

VARIABLES
  use, used,        \* the use of the client, and what has happened of it
  requestQueue, pending, paused,
  requestChannel, readyForDispatch,   \* channels of the dispatcher: values in them
  timer,            \* "idle" (24 hours), "armed", "expired" or "taken" from its channel
  rdy,              \* the local of messagePump that outlives an iteration
  pc, frame,        \* goroutine -> where it is, and the request it works on
  readers, cbLock, writers,
  pausing,          \* Pause or Resume waits for, or Pause holds, the lock of the dispatcher
  callbacks,        \* callbacks, named by the request they belong to
  responseHandler, errorHandler,      \* channels to asyncCallbackHandler
  connected,        \* webSocket.connection is not nil
  netUp,            \* the connection under it works
  outQueue,
  wire,             \* requests the CSMS received over this connection, in order
  answered,         \* requests the CSMS has answered
  outcome           \* history: what the callback of a request was called with

dispatcher == <<requestQueue, pending, paused, rdy>>
signals == <<requestChannel, readyForDispatch>>
locks == <<readers, pausing, cbLock, writers>>
handlers == <<responseHandler, errorHandler>>
socket == <<connected, netUp, outQueue, wire>>
history == <<use, used, answered, outcome>>
vars == <<history, dispatcher, signals, timer, pc, frame, locks, callbacks, handlers, socket>>

Pump == <<"messagePump">>
Read == <<"readPump">>
Old == <<"readPump of the connection before">>
Write == <<"writePump">>
Close == <<"cleanup">>
Async == <<"asyncCallbackHandler">>
send(r) == <<"send", r>>
Threads == {Pump, Read, Old, Write, Close, Async} \cup {send(r) : r \in Requests}

NoFrame == [r |-> NoReq, kind |-> "none", then |-> "idle"]

-----------------------------------------------------------------------------

Init ==
  /\ use \in Uses /\ used = [drops |-> 0, calls |-> 0]
  /\ requestQueue = <<>> /\ pending = NoReq /\ paused = FALSE /\ rdy = TRUE
  /\ requestChannel = 0 /\ readyForDispatch = 0
  /\ timer = "idle"
  /\ pc = [t \in Threads |-> CASE t = Pump -> "loop" [] t = Read -> "reading"
                               [] t = Write -> "loop" [] OTHER -> "idle"]
  /\ frame = [t \in Threads |-> NoFrame]
  /\ readers = {} /\ pausing = FALSE /\ cbLock = FALSE /\ writers = {}
  /\ callbacks = <<>> /\ responseHandler = <<>> /\ errorHandler = <<>>
  /\ connected = TRUE /\ netUp = TRUE /\ outQueue = <<>> /\ wire = <<>>
  /\ answered = {} /\ outcome = [r \in Requests |-> <<"none", NoReq>>]

Goto(t, label) == pc' = [pc EXCEPT ![t] = label]
Return(t) == frame' = [frame EXCEPT ![t] = NoFrame]
Call(t, label, r, kind, then) ==
  /\ frame' = [frame EXCEPT ![t] = [r |-> r, kind |-> kind, then |-> then]]
  /\ Goto(t, label)

-----------------------------------------------------------------------------
(* SendRequest, on a goroutine of the application.                         *)

\* TryQueue locks and appends the callback; the dispatcher queues the request.
SendRequest(r) ==
  /\ \E k \in DOMAIN use.requests :
       r = use.requests[k] /\ \A j \in 1..k - 1 : pc[send(use.requests[j])] # "idle"
  /\ pc[send(r)] = "idle" /\ ~cbLock /\ ~pausing
  /\ cbLock' = TRUE
  /\ callbacks' = Append(callbacks, r)
  /\ requestQueue' = Append(requestQueue, r)
  /\ Goto(send(r), "notify")
  /\ UNCHANGED <<history, pending, paused, rdy, signals, timer, frame, readers, pausing,
                 writers, handlers, socket>>

\* requestChannel has room for one value; the read lock is kept until it is sent.
BlockOnRequestChannel(r) ==
  /\ pc[send(r)] = "notify" /\ ~pausing
  /\ requestChannel = 1
  /\ readers' = readers \cup {send(r)}
  /\ Goto(send(r), "blocked")
  /\ UNCHANGED <<history, dispatcher, signals, timer, frame, pausing, cbLock, writers,
                 callbacks, handlers, socket>>

Notify(r) ==
  /\ \/ pc[send(r)] = "notify" /\ ~pausing
     \/ pc[send(r)] = "blocked"
  /\ requestChannel = 0
  /\ requestChannel' = 1
  /\ readers' = readers \ {send(r)}
  /\ cbLock' = FALSE
  /\ Goto(send(r), "done")
  /\ UNCHANGED <<history, dispatcher, readyForDispatch, timer, frame, pausing, writers,
                 callbacks, handlers, socket>>

-----------------------------------------------------------------------------
(* webSocket.Write, by the pump and by the read goroutine: outQueue <- msg *)
(* under the read lock of the websocket, which is kept while it is full.   *)

WriteTo(t, msg, ok, failed) ==
  /\ pc[t] \in {"write", "writing"}
  /\ \/ /\ connected /\ Len(outQueue) < OutCap
        /\ outQueue' = Append(outQueue, msg)
        /\ writers' = writers \ {t}
        /\ ok
     \/ /\ connected /\ Len(outQueue) >= OutCap /\ pc[t] = "write"
        /\ writers' = writers \cup {t}
        /\ Goto(t, "writing")
        /\ UNCHANGED <<outQueue, frame>>
     \/ /\ ~connected
        /\ failed
        /\ UNCHANGED <<outQueue, writers>>
  /\ UNCHANGED <<history, dispatcher, signals, timer, readers, pausing, cbLock, callbacks,
                 handlers, connected, netUp, wire>>

-----------------------------------------------------------------------------
(* CompleteRequest, on the pump and on the read goroutine.                 *)

CompletePeek(t) ==
  /\ pc[t] = "complete"
  /\ Goto(t, IF requestQueue # <<>> /\ Head(requestQueue) = frame[t].r
               THEN "pop" ELSE frame[t].then)
  /\ UNCHANGED <<history, dispatcher, signals, timer, frame, locks, callbacks, handlers, socket>>

CompletePop(t) ==
  /\ pc[t] = "pop"
  /\ requestQueue' = IF requestQueue = <<>> THEN <<>> ELSE Tail(requestQueue)
  /\ Goto(t, "delete")
  /\ UNCHANGED <<history, pending, paused, rdy, signals, timer, frame, locks, callbacks,
                 handlers, socket>>

DeletePendingRequest(t) ==
  /\ pc[t] = "delete"
  /\ pending' = IF pending = frame[t].r THEN NoReq ELSE pending
  /\ Goto(t, "ready")
  /\ UNCHANGED <<history, requestQueue, paused, rdy, signals, timer, frame, locks, callbacks,
                 handlers, socket>>

SignalReady(t) ==
  /\ pc[t] = "ready"
  /\ readyForDispatch = 0
  /\ readyForDispatch' = 1
  /\ Goto(t, frame[t].then)
  /\ UNCHANGED <<history, dispatcher, requestChannel, timer, frame, locks, callbacks,
                 handlers, socket>>

-----------------------------------------------------------------------------
(* messagePump.                                                            *)

\* The case of requestChannel reads the field under the read lock.
ReqChan ==
  /\ pc[Pump] = "loop" /\ ~pausing
  /\ Goto(Pump, "select")
  /\ UNCHANGED <<history, dispatcher, signals, timer, frame, locks, callbacks, handlers, socket>>

\* Mutant of PumpRequest: a new request is taken for the sign to go on.
PumpRequestReady ==
  /\ pc[Pump] = "select" /\ requestChannel = 1
  /\ requestChannel' = 0 /\ rdy' = TRUE
  /\ Goto(Pump, "check")
  /\ UNCHANGED <<history, requestQueue, pending, paused, readyForDispatch, timer, frame, locks,
                 callbacks, handlers, socket>>

PumpRequest ==
  /\ pc[Pump] = "select" /\ requestChannel = 1
  /\ requestChannel' = 0
  /\ Goto(Pump, "check")
  /\ UNCHANGED <<history, dispatcher, readyForDispatch, timer, frame, locks, callbacks,
                 handlers, socket>>

PumpReady ==
  /\ pc[Pump] = "select" /\ readyForDispatch = 1
  /\ readyForDispatch' = 0
  /\ rdy' = TRUE
  /\ Goto(Pump, "check")
  /\ UNCHANGED <<history, requestQueue, pending, paused, requestChannel, timer, frame, locks,
                 callbacks, handlers, socket>>

PumpTimeout ==
  /\ pc[Pump] = "select" /\ timer = "expired"
  /\ timer' = "taken"
  /\ Goto(Pump, "timedOut")
  /\ UNCHANGED <<history, dispatcher, signals, frame, locks, callbacks, handlers, socket>>

\* With a pending request, the first element of the queue is dereferenced.
TimedOut ==
  /\ pc[Pump] = "timedOut"
  /\ IF pending = NoReq THEN Goto(Pump, "reset") /\ UNCHANGED frame
     ELSE IF requestQueue = <<>> THEN Goto(Pump, "panic") /\ UNCHANGED frame
     ELSE Call(Pump, "complete", Head(requestQueue), "canceled", "timeoutCancel")
  /\ UNCHANGED <<history, dispatcher, signals, timer, locks, callbacks, handlers, socket>>

\* Mutant of RequestCanceled: a failed write is not reported to the error handler.
RequestCanceledOnTimeoutOnly ==
  /\ pc[Pump] \in {"timeoutCancel", "writeCancel"}
  /\ errorHandler = <<>>
  /\ errorHandler' = IF pc[Pump] = "writeCancel" THEN <<>>
                     ELSE <<<<"canceled", frame[Pump].r>>>>
  /\ Goto(Pump, IF pc[Pump] = "writeCancel" THEN "arm" ELSE "reset")
  /\ Return(Pump)
  /\ UNCHANGED <<history, dispatcher, signals, timer, locks, callbacks, responseHandler, socket>>

\* onRequestTimeout of the charging station, after a timeout or a failed write.
RequestCanceled ==
  /\ pc[Pump] \in {"timeoutCancel", "writeCancel"}
  /\ errorHandler = <<>>
  /\ errorHandler' = <<<<"canceled", frame[Pump].r>>>>
  /\ Goto(Pump, IF pc[Pump] = "writeCancel" THEN "arm" ELSE "reset")
  /\ Return(Pump)
  /\ UNCHANGED <<history, dispatcher, signals, timer, locks, callbacks, responseHandler, socket>>

ResetTimer ==
  /\ pc[Pump] = "reset"
  /\ timer' = "idle"
  /\ Goto(Pump, "check")
  /\ UNCHANGED <<history, dispatcher, signals, frame, locks, callbacks, handlers, socket>>

PumpCheck ==
  /\ pc[Pump] = "check" /\ ~pausing
  /\ Goto(Pump, IF ~paused /\ rdy /\ requestQueue # <<>> THEN "dispatch" ELSE "loop")
  /\ UNCHANGED <<history, dispatcher, signals, timer, frame, locks, callbacks, handlers, socket>>

\* dispatchNextRequest; a second pending request is ignored.
DispatchNextRequest ==
  /\ pc[Pump] = "dispatch"
  /\ IF requestQueue = <<>> THEN Goto(Pump, "panic") /\ UNCHANGED <<pending, frame>>
     ELSE /\ pending' = IF pending = NoReq THEN Head(requestQueue) ELSE pending
          /\ Call(Pump, "write", Head(requestQueue), "canceled", "writeCancel")
  /\ UNCHANGED <<history, requestQueue, paused, rdy, signals, timer, locks, callbacks,
                 handlers, socket>>

DispatchWrite ==
  WriteTo(Pump, frame[Pump].r, Goto(Pump, "arm") /\ Return(Pump),
          Goto(Pump, "complete") /\ UNCHANGED frame)

ArmTimer ==
  /\ pc[Pump] = "arm"
  /\ rdy' = FALSE
  /\ timer' = "armed"
  /\ Goto(Pump, "loop")
  /\ UNCHANGED <<history, requestQueue, pending, paused, signals, frame, locks, callbacks,
                 handlers, socket>>

\* After the timeout of a request, or after the 24 hours of an idle timer. A bound: the
\* latter only when Pause waits for it.
TimerExpires ==
  /\ use.timeouts
  /\ timer = "armed" \/ (timer = "idle" /\ pc[Close] = "drain")
  /\ timer' = "expired"
  /\ UNCHANGED <<history, dispatcher, signals, pc, frame, locks, callbacks, handlers, socket>>

-----------------------------------------------------------------------------
(* readPump and the handler of its messages.                               *)

\* An answer, or an error, to a request. One that is not pending is dropped.
ReceiveAnswer(r, kind) ==
  /\ pc[Read] = "reading" /\ connected /\ netUp
  /\ kind \in use.kinds /\ r \in Range(wire) \ answered
  /\ answered' = answered \cup {r}
  /\ IF pending = r THEN Call(Read, "complete", r, kind, kind) ELSE UNCHANGED <<pc, frame>>
  /\ UNCHANGED <<use, used, outcome, dispatcher, signals, timer, locks, callbacks, handlers,
                 socket>>

\* The response handler and the error handler of NewChargingStation.
HandleAnswer(t) ==
  /\ \/ /\ pc[t] = "result" /\ responseHandler = <<>>
        /\ responseHandler' = <<<<"result", frame[t].r>>>>
        /\ UNCHANGED errorHandler
     \/ /\ pc[t] = "error" /\ errorHandler = <<>>
        /\ errorHandler' = <<<<"error", frame[t].r>>>>
        /\ UNCHANGED responseHandler
  /\ Goto(t, "reading") /\ Return(t)
  /\ UNCHANGED <<history, dispatcher, signals, timer, locks, callbacks, socket>>

\* A call of the CSMS is handled on the read goroutine, which writes the answer.
ReceiveCall ==
  /\ pc[Read] = "reading" /\ connected /\ netUp /\ used.calls < use.calls
  /\ used' = [used EXCEPT !.calls = @ + 1]
  /\ Goto(Read, "write")
  /\ UNCHANGED <<use, answered, outcome, dispatcher, signals, timer, frame, locks, callbacks,
                 handlers, socket>>

SendResponse(t) ==
  WriteTo(t, Answer, Goto(t, "reading") /\ UNCHANGED frame,
          Goto(t, "reading") /\ UNCHANGED frame)

\* The read fails: the write goroutine is told through forceCloseC, unless the
\* websocket was cleaned up already.
ReadFails(t) ==
  /\ pc[t] = "reading" /\ (t = Old \/ ~netUp \/ ~connected)
  /\ Goto(t, IF t = Old THEN "idle" ELSE "stopped")
  /\ UNCHANGED <<history, dispatcher, signals, timer, frame, locks, callbacks, handlers, socket>>

-----------------------------------------------------------------------------
(* writePump.                                                              *)

Transmit ==
  /\ pc[Write] = "loop" /\ outQueue # <<>> /\ netUp
  /\ outQueue' = Tail(outQueue)
  /\ wire' = IF Head(outQueue) = Answer THEN wire ELSE Append(wire, Head(outQueue))
  /\ UNCHANGED <<history, dispatcher, signals, timer, pc, frame, locks, callbacks, handlers,
                 connected, netUp>>

NetworkFails ==
  /\ connected /\ netUp /\ used.drops < use.drops
  /\ netUp' = FALSE
  /\ used' = [used EXCEPT !.drops = @ + 1]
  /\ UNCHANGED <<use, answered, outcome, dispatcher, signals, timer, pc, frame, locks,
                 callbacks, handlers, connected, outQueue, wire>>

\* A message, a ping or forceCloseC reports the failure. The goroutine goes on to
\* clean up.
WriteFails ==
  /\ pc[Write] = "loop" /\ ~netUp /\ pc[Close] = "idle"
  /\ outQueue # <<>> \/ pc[Read] = "stopped"
  /\ pc' = [pc EXCEPT ![Write] = "stopped", ![Close] = "cleanup"]
  /\ UNCHANGED <<history, dispatcher, signals, timer, frame, locks, callbacks, handlers, socket>>

Cleanup ==
  /\ pc[Close] = "cleanup" /\ writers = {}
  /\ connected' = FALSE /\ outQueue' = <<>>
  /\ Goto(Close, "pause")
  /\ UNCHANGED <<history, dispatcher, signals, timer, frame, locks, callbacks, handlers,
                 netUp, wire>>

\* Pause and Resume lock the dispatcher: they wait while a sender blocks under the
\* read lock.
WaitForReaders ==
  /\ pc[Close] \in {"pause", "resume"} /\ ~pausing /\ readers # {}
  /\ pausing' = TRUE
  /\ UNCHANGED <<history, dispatcher, signals, timer, pc, frame, readers, cbLock, writers,
                 callbacks, handlers, socket>>

\* Pause stops the timer. When it has expired and the pump took the value, Pause waits
\* for the next value, with the lock of the dispatcher held.
Pause ==
  /\ \/ /\ pc[Close] = "pause" /\ readers = {} /\ timer = "taken"
        /\ pausing' = TRUE
        /\ Goto(Close, "drain")
        /\ UNCHANGED <<timer, paused>>
     \/ /\ \/ pc[Close] = "pause" /\ readers = {} /\ timer # "taken"
           \/ pc[Close] = "drain" /\ timer = "expired"
        /\ timer' = "idle" /\ paused' = TRUE /\ pausing' = FALSE
        /\ Goto(Close, "reconnect")
  /\ UNCHANGED <<history, requestQueue, pending, rdy, signals, frame, readers, cbLock, writers,
                 callbacks, handlers, socket>>

\* handleReconnection: a new websocket with goroutines of its own. The read goroutine
\* of the one before may still handle a message; that there is at most one such, is
\* a bound.
Reconnect ==
  /\ pc[Close] = "reconnect" /\ pc[Old] = "idle"
  /\ connected' = TRUE /\ netUp' = TRUE /\ outQueue' = <<>> /\ wire' = <<>>
  /\ pc' = [pc EXCEPT ![Close] = "resume", ![Read] = "reading", ![Write] = "loop",
                      ![Old] = IF pc[Read] = "stopped" THEN "idle" ELSE pc[Read]]
  /\ frame' = [frame EXCEPT ![Read] = NoFrame, ![Old] = frame[Read]]
  /\ UNCHANGED <<history, dispatcher, signals, timer, locks, callbacks, handlers>>

Resume ==
  /\ pc[Close] = "resume" /\ readers = {}
  /\ paused' = FALSE /\ pausing' = FALSE
  /\ Goto(Close, "resumed")
  /\ UNCHANGED <<history, requestQueue, pending, rdy, signals, timer, frame, readers, cbLock,
                 writers, callbacks, handlers, socket>>

Resumed ==
  /\ pc[Close] = "resumed"
  /\ IF pending # NoReq
       THEN timer' = "armed" /\ UNCHANGED readyForDispatch
       ELSE /\ readyForDispatch = 0
            /\ readyForDispatch' = 1
            /\ UNCHANGED timer
  /\ Goto(Close, "idle")
  /\ UNCHANGED <<history, dispatcher, requestChannel, frame, locks, callbacks, handlers, socket>>

-----------------------------------------------------------------------------
(* asyncCallbackHandler.                                                   *)

TakeResult ==
  /\ pc[Async] = "idle"
  /\ \/ /\ responseHandler # <<>>
        /\ Call(Async, "dequeue", Head(responseHandler)[2], Head(responseHandler)[1], "idle")
        /\ responseHandler' = <<>> /\ UNCHANGED errorHandler
     \/ /\ errorHandler # <<>>
        /\ Call(Async, "dequeue", Head(errorHandler)[2], Head(errorHandler)[1], "idle")
        /\ errorHandler' = <<>> /\ UNCHANGED responseHandler
  /\ UNCHANGED <<history, dispatcher, signals, timer, locks, callbacks, socket>>

\* Mutant of Dequeue: the callback that was queued last is taken.
DequeueLast ==
  /\ pc[Async] = "dequeue" /\ ~cbLock /\ callbacks # <<>>
  /\ LET r == callbacks[Len(callbacks)] IN
       outcome' = [outcome EXCEPT ![r] = <<frame[Async].kind, frame[Async].r>>]
  /\ callbacks' = SubSeq(callbacks, 1, Len(callbacks) - 1)
  /\ Goto(Async, "idle") /\ Return(Async)
  /\ UNCHANGED <<use, used, answered, dispatcher, signals, timer, locks, handlers, socket>>

Dequeue ==
  /\ pc[Async] = "dequeue" /\ ~cbLock
  /\ IF callbacks = <<>> THEN UNCHANGED <<callbacks, outcome>>
     ELSE /\ outcome' = [outcome EXCEPT ![Head(callbacks)] = <<frame[Async].kind, frame[Async].r>>]
          /\ callbacks' = Tail(callbacks)
  /\ Goto(Async, "idle") /\ Return(Async)
  /\ UNCHANGED <<use, used, answered, dispatcher, signals, timer, locks, handlers, socket>>

-----------------------------------------------------------------------------

CompleteStep(t) ==
  CompletePeek(t) \/ CompletePop(t) \/ DeletePendingRequest(t) \/ SignalReady(t)
PumpStep ==
  \/ ReqChan \/ PumpRequest \/ PumpReady \/ PumpTimeout \/ TimedOut \/ RequestCanceled
  \/ ResetTimer \/ PumpCheck \/ DispatchNextRequest \/ DispatchWrite \/ ArmTimer \/ CompleteStep(Pump)
SendStep(r) == SendRequest(r) \/ BlockOnRequestChannel(r) \/ Notify(r)
ReadStep(t) == HandleAnswer(t) \/ SendResponse(t) \/ ReadFails(t) \/ CompleteStep(t)
WriteStep == Transmit \/ WriteFails
CloseStep == Cleanup \/ WaitForReaders \/ Pause \/ Reconnect \/ Resume \/ Resumed
AsyncStep == TakeResult \/ Dequeue

Next ==
  \/ PumpStep \/ ReadStep(Read) \/ ReadStep(Old) \/ WriteStep \/ CloseStep \/ AsyncStep
  \/ \E r \in Requests : SendStep(r) \/ \E kind \in {"result", "error"} : ReceiveAnswer(r, kind)
  \/ TimerExpires \/ NetworkFails \/ ReceiveCall

\* Every goroutine that can go on does so in the end; which ready case a select picks
\* is left open. The CSMS answers what it received, and the timer runs.
Fairness ==
  /\ WF_vars(PumpStep)
  /\ WF_vars(ReadStep(Read)) /\ WF_vars(ReadStep(Old)) /\ WF_vars(WriteStep)
  /\ WF_vars(CloseStep) /\ WF_vars(AsyncStep) /\ WF_vars(TimerExpires)
  /\ \A r \in Requests :
       WF_vars(SendStep(r)) /\ WF_vars(\E kind \in {"result", "error"} : ReceiveAnswer(r, kind))

Spec == Init /\ [][Next]_vars /\ Fairness

-----------------------------------------------------------------------------
(* Properties.                                                             *)

\* "Outgoing messages are added to a queue and processed sequentially" (the comment of
\* Client.SendRequest): without timeouts and on one connection, a request is written
\* once, and only when all requests before it are answered, whatever goroutines send.
Sequential ==
  used.drops = 0 /\ ~use.timeouts =>
    /\ IsInjective(wire)
    /\ Cardinality(Range(wire) \ answered) <= 1

\* "The CSMS will respond with a confirmation message, or with an error ... This result is
\* propagated via a callback" (the comment of SendRequestAsync in v2.go): the callback
\* of a request gets the answer to this request.
OwnAnswer == \A r \in Requests : outcome[r][1] \in {"result", "error"} => outcome[r][2] = r

\* On one connection, without timeouts and with answers of one kind only, a callback
\* gets the answer to its own request: asyncCallbackHandler matches callbacks with
\* answers by their order.
OwnAnswerInOrder ==
  used.drops = 0 /\ ~use.timeouts /\ Cardinality(use.kinds) = 1 => OwnAnswer

\* A sender that holds callbacksMutex waits for the pump: for room in requestChannel, or
\* for the lock of a Pause that waits for the timer which the pump is to reset.
SenderWaits ==
  \/ requestChannel = 1 /\ \E r \in Requests : pc[send(r)] = "blocked"
  \/ cbLock /\ pc[Close] = "drain" /\ timer = "taken"

\* The process panicked; or the pump sends on the channel that it alone receives from;
\* or the goroutine that would empty outQueue waits for one that waits for room in it;
\* or, while a sender waits for the pump, the pump waits for the read lock behind Pause
\* or Resume, which wait for the sender, or for room in errorHandler, which
\* asyncCallbackHandler does not empty before it gets callbacksMutex.
Stuck ==
  \/ pc[Pump] = "panic"
  \/ pc[Pump] = "ready" /\ readyForDispatch = 1
  \/ pc[Close] = "cleanup" /\ writers # {}
  \/ SenderWaits /\ pausing /\ pc[Pump] \in {"loop", "check"}
  \/ /\ SenderWaits /\ pc[Pump] \in {"timeoutCancel", "writeCancel"}
     /\ errorHandler # <<>> /\ pc[Async] = "dequeue"

\* The callback of every request is called in the end, with an answer or an error, over
\* broken connections, timeouts that race their answers and a Pause that waits for
\* the timer, unless the client is stuck in one of five ways.
CalledBack ==
  \A r \in Requests : pc[send(r)] # "idle" ~> outcome[r][1] # "none" \/ Stuck

=============================================================================
