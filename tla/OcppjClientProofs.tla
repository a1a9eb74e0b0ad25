------------------------- MODULE OcppjClientProofs -------------------------
(***************************************************************************)
(* Proofs about OcppjClient, for any set of requests and any capacity of   *)
(* outQueue: what holds as long as the connection holds and no request     *)
(* times out.                                                              *)
(***************************************************************************)
EXTENDS OcppjClient, SequenceTheorems, FiniteSetTheorems, TLAPS

\* The connection has not broken and the timer does not run.
Calm == used.drops = 0 /\ ~use.timeouts

\* The answers are of one kind.
OneKind == Cardinality(use.kinds) = 1

Uncounted == use \in Uses /\ used \in [drops : Nat, calls : Nat]

Results == {"result", "error"} \X (Requests \union {NoReq})

Types ==
  /\ requestQueue \in Seq(Requests)
  /\ pending \in Requests \union {NoReq}
  /\ rdy \in BOOLEAN /\ cbLock \in BOOLEAN
  /\ requestChannel \in {0, 1} /\ readyForDispatch \in {0, 1}
  /\ pc = [t \in Threads |-> pc[t]]
  /\ frame = [t \in Threads |-> frame[t]]
  /\ \A t \in Threads : frame[t].r \in Requests \union {NoReq}
  /\ callbacks \in Seq(Requests)
  /\ responseHandler \in {<<>>} \union {<<h>> : h \in Results}
  /\ errorHandler \in {<<>>} \union {<<h>> : h \in Results}
  /\ outQueue \in Seq(Requests \union {Answer})
  /\ wire \in Seq(Requests)
  /\ answered \subseteq Requests
  /\ outcome = [r \in Requests |-> outcome[r]]

\* Where the goroutines can be: none of them cleans up, or cancels a request.
Quiet ==
  /\ connected /\ netUp /\ ~paused /\ ~pausing
  /\ timer \in {"idle", "armed"}
  /\ pc[Close] = "idle" /\ pc[Write] = "loop" /\ pc[Old] = "idle"
  /\ pc[Pump] \in {"loop", "select", "check", "dispatch", "write", "writing", "arm"}
  /\ pc[Read] \in {"reading", "write", "writing",
                   "complete", "pop", "delete", "ready", "result", "error"}
  /\ pc[Async] \in {"idle", "dequeue"}

\* The read goroutine is in CompleteRequest.
Completing == pc[Read] \in {"complete", "pop", "delete", "ready"}

\* The request in flight, from the moment the pump takes it from the queue until
\* readyForDispatch tells the pump that its answer has come.
FlightInv ==
  /\ rdy /\ pc[Pump] \in {"loop", "select", "check", "dispatch"} =>
       pending = NoReq /\ ~Completing /\ readyForDispatch = 0
  /\ pc[Pump] \in {"dispatch", "write", "writing", "arm"} => rdy
  /\ pc[Pump] = "dispatch" => requestQueue # <<>>
  /\ pc[Pump] \in {"write", "writing"} =>
       /\ frame[Pump].r = pending /\ pending # NoReq
       /\ pending \notin Range(wire) \union Range(outQueue)
       /\ ~Completing
  /\ pc[Read] \in {"complete", "pop", "delete"} =>
       frame[Read].r = pending /\ pending \in answered
  /\ pc[Read] = "delete" => pending \notin Range(requestQueue)
  /\ pc[Read] = "ready" => pending = NoReq
  /\ pending # NoReq /\ pc[Read] # "delete" => requestQueue # <<>> /\ pending = requestQueue[1]
  /\ readyForDispatch = 1 => pending = NoReq /\ ~Completing
  /\ Completing => frame[Read].then \in {"result", "error"}

\* What was written is answered, but for the request in flight.
WireInv ==
  /\ \A i, j \in 1..Len(wire) : wire[i] = wire[j] => i = j
  /\ \A i \in 1..Len(wire) : wire[i] \in answered \/ wire[i] = pending
  /\ answered \subseteq Range(wire)
  /\ \A i \in 1..Len(outQueue) : outQueue[i] # Answer =>
       /\ outQueue[i] = pending /\ outQueue[i] \notin Range(wire)
       /\ \A j \in 1..Len(outQueue) : outQueue[j] = outQueue[i] => j = i

\* What is queued was not written, but for the request in flight.
QueueInv ==
  /\ \A i, j \in 1..Len(requestQueue) : requestQueue[i] = requestQueue[j] => i = j
  /\ \A i \in 1..Len(requestQueue) :
       requestQueue[i] \in Range(wire) \union Range(outQueue) =>
         i = 1 /\ requestQueue[i] = pending
  /\ \A r \in Requests : pc[send(r)] = "idle" =>
       r \notin Range(requestQueue) \union Range(wire) \union Range(outQueue)

\* The answers between the queue and the callbacks: the one that asyncCallbackHandler
\* has taken, the one in the channel to it, the one the read goroutine brings.
Taken == IF pc[Async] = "dequeue" THEN 1 ELSE 0
Handed == Len(responseHandler) + Len(errorHandler)
Brought == IF pc[Read] \in {"delete", "ready", "result", "error"} THEN 1 ELSE 0

\* The callbacks are those of these answers and then those of the queue, in order.
OrderInv ==
  /\ \A kind \in {"result", "error"} : kind \notin use.kinds =>
       pc[Read] # kind /\ (Completing => frame[Read].then # kind)
  /\ responseHandler # <<>> => "result" \in use.kinds
  /\ errorHandler # <<>> => "error" \in use.kinds
  /\ Len(callbacks) = Taken + Handed + Brought + Len(requestQueue)
  /\ Taken = 1 => callbacks[1] = frame[Async].r
  /\ responseHandler # <<>> => callbacks[Taken + 1] = responseHandler[1][2]
  /\ errorHandler # <<>> => callbacks[Taken + 1] = errorHandler[1][2]
  /\ Brought = 1 => callbacks[Taken + Handed + 1] = frame[Read].r
  /\ \A i \in 1..Len(requestQueue) :
       callbacks[Taken + Handed + Brought + i] = requestQueue[i]
  /\ OwnAnswer

CalmInv ==
  /\ Types /\ Quiet /\ FlightInv /\ WireInv /\ QueueInv
  /\ OneKind => OrderInv

IInv == Uncounted /\ (Calm => CalmInv)

-----------------------------------------------------------------------------
(* Goroutines, sequences, channels of capacity one.                        *)

LEMMA ThreadFacts ==
  /\ {Pump, Read, Old, Write, Close, Async} \subseteq Threads
  /\ Pump # Read /\ Pump # Write /\ Pump # Close /\ Pump # Async
  /\ Read # Write /\ Read # Close /\ Read # Async
  /\ Write # Close /\ Write # Async /\ Close # Async
  /\ Old # Pump /\ Old # Read /\ Old # Write /\ Old # Close /\ Old # Async
  /\ \A r \in Requests : /\ send(r) \in Threads
                         /\ send(r) \notin {Pump, Read, Old, Write, Close, Async}
                         /\ \A s \in Requests : send(r) = send(s) => r = s
BY DEF Threads, Pump, Read, Old, Write, Close, Async, send

LEMMA AppendFacts ==
  ASSUME NEW S, NEW q \in Seq(S), NEW e \in S
  PROVE  /\ Append(q, e) \in Seq(S) /\ Len(q) \in Nat
         /\ Len(Append(q, e)) = Len(q) + 1
         /\ \A k \in 1..Len(q) : Append(q, e)[k] = q[k]
         /\ Append(q, e)[Len(q) + 1] = e
         /\ Append(q, e) # <<>>
         /\ Range(Append(q, e)) = Range(q) \union {e}
<1>1. Append(q, e) \in Seq(S) /\ Len(q) \in Nat /\ Len(Append(q, e)) = Len(q) + 1
  BY AppendProperties, LenProperties
<1>2. /\ \A k \in 1..Len(q) : Append(q, e)[k] = q[k]
      /\ Append(q, e)[Len(q) + 1] = e
  BY AppendProperties, LenProperties
<1>3. Append(q, e) # <<>>
  BY <1>1, EmptySeq
<1>4. Range(Append(q, e)) = Range(q) \union {e}
  BY <1>1, <1>2, LenProperties DEF Range
<1> QED BY <1>1, <1>2, <1>3, <1>4

LEMMA TailFacts ==
  ASSUME NEW S, NEW q \in Seq(S), q # <<>>
  PROVE  /\ Head(q) = q[1] /\ Head(q) \in S
         /\ Len(q) \in Nat /\ Len(q) > 0
         /\ Tail(q) \in Seq(S)
         /\ Len(Tail(q)) = Len(q) - 1
         /\ \A k \in 1..(Len(q) - 1) : Tail(q)[k] = q[k + 1]
         /\ Range(q) = Range(Tail(q)) \union {q[1]}
<1>1. /\ Head(q) = q[1] /\ Head(q) \in S
      /\ Len(q) \in Nat /\ Len(q) > 0
      /\ Tail(q) \in Seq(S)
      /\ Len(Tail(q)) = Len(q) - 1
      /\ \A k \in 1..(Len(q) - 1) : Tail(q)[k] = q[k + 1]
  BY HeadTailProperties, EmptySeq, LenProperties
<1>2. Range(q) = Range(Tail(q)) \union {q[1]}
  <2>1. ASSUME NEW k \in 1..Len(q), k # 1
        PROVE  k - 1 \in 1..(Len(q) - 1) /\ Tail(q)[k - 1] = q[k]
    BY <1>1, <2>1
  <2>2. DOMAIN q = 1..Len(q) /\ DOMAIN Tail(q) = 1..(Len(q) - 1)
    BY <1>1, LenProperties
  <2>3. ASSUME NEW x \in Range(q)
        PROVE  x \in Range(Tail(q)) \union {q[1]}
    <3>1. PICK k \in 1..Len(q) : x = q[k]
      BY <2>2, <2>3 DEF Range
    <3>2. CASE k = 1
      BY <3>1, <3>2
    <3>3. CASE k # 1
      BY <2>1, <2>2, <3>1, <3>3 DEF Range
    <3> QED BY <3>2, <3>3
  <2>4. ASSUME NEW x \in Range(Tail(q))
        PROVE  x \in Range(q)
    BY <1>1, <2>2, <2>4 DEF Range
  <2>5. q[1] \in Range(q)
    BY <1>1, <2>2 DEF Range
  <2> QED BY <2>3, <2>4, <2>5
<1> QED BY <1>1, <1>2

LEMMA RangeFacts ==
  ASSUME NEW S, NEW q \in Seq(S)
  PROVE  /\ Len(q) \in Nat /\ (q = <<>> <=> Len(q) = 0)
         /\ \A k \in 1..Len(q) : q[k] \in S /\ q[k] \in Range(q)
         /\ \A x \in Range(q) : \E k \in 1..Len(q) : q[k] = x
BY LenProperties, EmptySeq, ElementOfSeq DEF Range

LEMMA SlotFacts ==
  ASSUME NEW S, NEW q \in {<<>>} \union {<<h>> : h \in S}
  PROVE  /\ q = <<>> => Len(q) = 0
         /\ q # <<>> => Len(q) = 1 /\ q[1] \in S /\ Head(q) = q[1]
OBVIOUS

LEMMA SumFacts ==
  ASSUME NEW a, NEW b
  PROVE  /\ a = 0 /\ b = 0 => a + b = 0
         /\ a = 1 /\ b = 0 => a + b = 1
         /\ a = 0 /\ b = 1 => a + b = 1
OBVIOUS

LEMMA GotoFacts ==
  ASSUME pc = [t \in Threads |-> pc[t]], NEW t \in Threads, NEW l, Goto(t, l)
  PROVE  /\ pc' = [u \in Threads |-> pc'[u]] /\ pc'[t] = l
         /\ \A u \in Threads : u # t => pc'[u] = pc[u]
BY DEF Goto

LEMMA ReturnFacts ==
  ASSUME frame = [t \in Threads |-> frame[t]], NEW t \in Threads, Return(t)
  PROVE  /\ frame' = [u \in Threads |-> frame'[u]] /\ frame'[t].r = NoReq
         /\ \A u \in Threads : u # t => frame'[u] = frame[u]
BY DEF Return, NoFrame

LEMMA CallFacts ==
  ASSUME pc = [t \in Threads |-> pc[t]], frame = [t \in Threads |-> frame[t]],
         NEW t \in Threads, NEW l, NEW r, NEW kind, NEW then, Call(t, l, r, kind, then)
  PROVE  /\ pc' = [u \in Threads |-> pc'[u]] /\ pc'[t] = l
         /\ \A u \in Threads : u # t => pc'[u] = pc[u]
         /\ frame' = [u \in Threads |-> frame'[u]]
         /\ frame'[t].r = r /\ frame'[t].kind = kind /\ frame'[t].then = then
         /\ \A u \in Threads : u # t => frame'[u] = frame[u]
BY DEF Call, Goto

\* With answers of one kind there are no answers of the other kind.
LEMMA OneKindFacts ==
  ASSUME use \in Uses, OneKind
  PROVE  ~ {"result", "error"} \subseteq use.kinds
<1> SUFFICES ASSUME {"result", "error"} \subseteq use.kinds PROVE FALSE
  OBVIOUS
<1>1. use.kinds = {"result", "error"}
  BY OcppjClientAssumption DEF OcppjClientAssumption
<1>2. IsFiniteSet({"result"}) /\ Cardinality({"result"}) = 1
  BY FS_Singleton
<1>3. Cardinality({"result"} \union {"error"}) = 2
  BY <1>2, FS_AddElement
<1>4. {"result"} \union {"error"} = {"result", "error"}
  OBVIOUS
<1> QED BY <1>1, <1>3, <1>4 DEF OneKind

-----------------------------------------------------------------------------
(* What an action leaves alone.                                            *)

LEMMA OrderFrame ==
  ASSUME OneKind => OrderInv,
         pc'[Read] = pc[Read], pc'[Async] = pc[Async],
         frame'[Read] = frame[Read], frame'[Async] = frame[Async],
         UNCHANGED <<use, handlers, callbacks, requestQueue, outcome>>
  PROVE  (OneKind => OrderInv)'
BY DEF OneKind, OrderInv, Completing, Taken, Handed, Brought, OwnAnswer, handlers

LEMMA WireFrame ==
  ASSUME WireInv, UNCHANGED <<wire, outQueue, answered, pending>>
  PROVE  WireInv'
BY DEF WireInv

LEMMA QueueFrame ==
  ASSUME QueueInv, UNCHANGED <<requestQueue, wire, outQueue, pending>>,
         \A r \in Requests : pc'[send(r)] = "idle" => pc[send(r)] = "idle"
  PROVE  QueueInv'
BY DEF QueueInv

-----------------------------------------------------------------------------

LEMMA InitIInv == Init => IInv
<1> SUFFICES ASSUME Init PROVE IInv
  OBVIOUS
<1> USE ThreadFacts
<1>1. Uncounted
  BY DEF Init, Uncounted
<1>2. /\ pc = [t \in Threads |-> pc[t]]
      /\ frame = [t \in Threads |-> frame[t]]
      /\ \A t \in Threads : frame[t].r \in Requests \union {NoReq}
  BY DEF Init, NoFrame
<1>3. Types
  <2>1. /\ requestQueue \in Seq(Requests) /\ callbacks \in Seq(Requests)
        /\ wire \in Seq(Requests) /\ outQueue \in Seq(Requests \union {Answer})
    BY EmptySeq DEF Init
  <2>2. outcome = [r \in Requests |-> outcome[r]]
    BY DEF Init
  <2> QED BY <1>2, <2>1, <2>2 DEF Init, Types
<1>4. Quiet
  BY DEF Init, Quiet
<1>5. Range(<<>>) = {} /\ Len(<<>>) = 0
  BY DEF Range
<1>6. FlightInv /\ WireInv /\ QueueInv
  BY <1>4, <1>5 DEF Init, Quiet, FlightInv, WireInv, QueueInv, Completing
<1>7. OrderInv
  BY <1>4, <1>5 DEF Init, OrderInv, Completing, Taken, Handed, Brought, OwnAnswer
<1> QED BY <1>1, <1>3, <1>4, <1>6, <1>7 DEF IInv, CalmInv

LEMMA SendRequestInv ==
  ASSUME CalmInv, NEW r \in Requests, SendRequest(r)
  PROVE  CalmInv'
<1>0. Types /\ Quiet /\ FlightInv /\ WireInv /\ QueueInv /\ (OneKind => OrderInv)
  BY DEF CalmInv
<1> USE ThreadFacts
<1>1. /\ pc' = [u \in Threads |-> pc'[u]] /\ pc'[send(r)] = "notify"
      /\ \A u \in Threads : u # send(r) => pc'[u] = pc[u]
  BY <1>0, GotoFacts DEF Types, SendRequest
<1>2. /\ requestQueue' \in Seq(Requests) /\ Len(requestQueue) \in Nat
      /\ Len(requestQueue') = Len(requestQueue) + 1
      /\ \A k \in 1..Len(requestQueue) : requestQueue'[k] = requestQueue[k]
      /\ requestQueue'[Len(requestQueue) + 1] = r
      /\ requestQueue' # <<>>
      /\ Range(requestQueue') = Range(requestQueue) \union {r}
  BY <1>0, AppendFacts DEF Types, SendRequest
<1>3. /\ callbacks' \in Seq(Requests) /\ Len(callbacks) \in Nat
      /\ Len(callbacks') = Len(callbacks) + 1
      /\ \A k \in 1..Len(callbacks) : callbacks'[k] = callbacks[k]
      /\ callbacks'[Len(callbacks) + 1] = r
  BY <1>0, AppendFacts DEF Types, SendRequest
<1>4. r \notin Range(requestQueue) \union Range(wire) \union Range(outQueue)
  BY <1>0 DEF QueueInv, SendRequest
<1>5. Types'
  BY <1>0, <1>1, <1>2, <1>3 DEF Types, SendRequest, history, signals, handlers, socket
<1>6. Quiet'
  BY <1>0, <1>1 DEF Quiet, SendRequest, socket
<1>7. requestQueue # <<>> => requestQueue'[1] = requestQueue[1]
  <2>1. requestQueue # <<>> => Len(requestQueue) > 0
    BY <1>0, <1>2, EmptySeq DEF Types
  <2> QED BY <1>2, <2>1
<1>8. answered \subseteq Range(wire)
  BY <1>0 DEF WireInv
<1>9. FlightInv'
  BY <1>0, <1>1, <1>2, <1>4, <1>7, <1>8
  DEF FlightInv, Completing, SendRequest, history, signals, socket
<1>10. WireInv'
  BY <1>0, WireFrame DEF SendRequest, history, socket
<1>11. QueueInv'
  <2>1. ASSUME NEW i \in 1..Len(requestQueue'), NEW j \in 1..Len(requestQueue'),
               requestQueue'[i] = requestQueue'[j]
        PROVE  i = j
    <3>1. \A k \in 1..Len(requestQueue) : requestQueue[k] # r
      BY <1>0, <1>4, RangeFacts DEF Types
    <3>2. \A k, l \in 1..Len(requestQueue) : requestQueue[k] = requestQueue[l] => k = l
      BY <1>0 DEF QueueInv
    <3> QED BY <1>2, <2>1, <3>1, <3>2
  <2>2. ASSUME NEW i \in 1..Len(requestQueue'),
               requestQueue'[i] \in Range(wire) \union Range(outQueue)
        PROVE  i = 1 /\ requestQueue'[i] = pending
    BY <1>0, <1>2, <1>4, <2>2 DEF QueueInv
  <2>3. ASSUME NEW s \in Requests, pc'[send(s)] = "idle"
        PROVE  s \notin Range(requestQueue') \union Range(wire) \union Range(outQueue)
    BY <1>0, <1>1, <1>2, <2>3 DEF QueueInv
  <2> QED BY <2>1, <2>2, <2>3 DEF QueueInv, SendRequest, socket
<1>12. ASSUME OneKind' PROVE OrderInv'
  <2>1. OrderInv
    BY <1>0, <1>12 DEF OneKind, SendRequest, history
  <2>2. Taken' = Taken /\ Handed' = Handed /\ Brought' = Brought
    BY <1>1 DEF Taken, Handed, Brought, SendRequest, handlers
  <2>3. Taken \in {0, 1} /\ Handed \in Nat /\ Brought \in {0, 1}
    BY <1>0, SlotFacts DEF Taken, Handed, Brought, Types
  <2>4. \A i \in 1..Len(requestQueue') :
          callbacks'[Taken + Handed + Brought + i] = requestQueue'[i]
    <3> TAKE i \in 1..Len(requestQueue')
    <3>1. CASE i \in 1..Len(requestQueue)
      <4>1. Taken + Handed + Brought + i \in 1..Len(callbacks)
        BY <1>2, <2>1, <2>3, <3>1 DEF OrderInv
      <4> QED BY <1>2, <1>3, <2>1, <3>1, <4>1 DEF OrderInv
    <3>2. CASE i = Len(requestQueue) + 1
      <4>1. Taken + Handed + Brought + i = Len(callbacks) + 1
        BY <1>2, <2>1, <2>3, <3>2 DEF OrderInv
      <4> QED BY <1>2, <1>3, <3>2, <4>1
    <3> QED BY <1>2, <3>1, <3>2
  <2>5. /\ responseHandler # <<>> => Handed >= 1
        /\ errorHandler # <<>> => Handed >= 1
    BY <1>0, SlotFacts DEF Handed, Types
  <2>6. /\ Taken = 1 => callbacks'[1] = frame[Async].r
        /\ responseHandler # <<>> => callbacks'[Taken + 1] = responseHandler[1][2]
        /\ errorHandler # <<>> => callbacks'[Taken + 1] = errorHandler[1][2]
        /\ Brought = 1 => callbacks'[Taken + Handed + 1] = frame[Read].r
    BY <1>2, <1>3, <2>1, <2>3, <2>5 DEF OrderInv
  <2>7. Len(callbacks') = Taken + Handed + Brought + Len(requestQueue')
    BY <1>2, <1>3, <2>1, <2>3 DEF OrderInv
  <2>8. Completing' = Completing /\ pc'[Read] = pc[Read] /\ OwnAnswer'
    BY <1>1, <2>1 DEF OrderInv, Completing, OwnAnswer, SendRequest, history
  <2>9. UNCHANGED <<use, frame, responseHandler, errorHandler>>
    BY DEF SendRequest, history, handlers
  <2> QED BY <2>1, <2>2, <2>4, <2>6, <2>7, <2>8, <2>9 DEF OrderInv
<1> QED BY <1>5, <1>6, <1>9, <1>10, <1>11, <1>12 DEF CalmInv

LEMMA BlockInv ==
  ASSUME CalmInv, NEW r \in Requests, BlockOnRequestChannel(r)
  PROVE  CalmInv'
<1>0. Types /\ Quiet /\ FlightInv /\ WireInv /\ QueueInv /\ (OneKind => OrderInv)
  BY DEF CalmInv
<1> USE ThreadFacts
<1>1. /\ pc' = [u \in Threads |-> pc'[u]] /\ pc'[send(r)] = "blocked"
      /\ \A u \in Threads : u # send(r) => pc'[u] = pc[u]
  BY <1>0, GotoFacts DEF Types, BlockOnRequestChannel
<1>2. UNCHANGED <<use, answered, outcome, requestQueue, pending, paused, rdy, requestChannel,
                readyForDispatch, timer, frame, pausing, cbLock, callbacks, responseHandler,
                errorHandler, connected, netUp, outQueue, wire>>
  BY DEF BlockOnRequestChannel, history, dispatcher, signals, handlers, socket
<1>3. Types' /\ Quiet' /\ FlightInv'
  BY <1>0, <1>1, <1>2 DEF Types, Quiet, FlightInv, Completing
<1> QED BY <1>0, <1>1, <1>2, <1>3, WireFrame, QueueFrame, OrderFrame DEF CalmInv, handlers

LEMMA NotifyInv ==
  ASSUME CalmInv, NEW r \in Requests, Notify(r)
  PROVE  CalmInv'
<1>0. Types /\ Quiet /\ FlightInv /\ WireInv /\ QueueInv /\ (OneKind => OrderInv)
  BY DEF CalmInv
<1> USE ThreadFacts
<1>1. /\ pc' = [u \in Threads |-> pc'[u]] /\ pc'[send(r)] = "done"
      /\ \A u \in Threads : u # send(r) => pc'[u] = pc[u]
  BY <1>0, GotoFacts DEF Types, Notify
<1>2. UNCHANGED <<use, answered, outcome, requestQueue, pending, paused, rdy,
                readyForDispatch, timer, frame, pausing, callbacks, responseHandler,
                errorHandler, connected, netUp, outQueue, wire>>
      /\ requestChannel' = 1 /\ cbLock' = FALSE
  BY DEF Notify, history, dispatcher, handlers, socket
<1>3. Types'
  BY <1>0, <1>1, <1>2 DEF Types
<1>4. Quiet'
  BY <1>0, <1>1, <1>2 DEF Quiet
<1>5. FlightInv'
  BY <1>0, <1>1, <1>2 DEF FlightInv, Completing
<1> QED BY <1>0, <1>1, <1>2, <1>3, <1>4, <1>5, WireFrame, QueueFrame, OrderFrame DEF CalmInv, handlers

LEMMA ReqChanInv ==
  ASSUME CalmInv, ReqChan
  PROVE  CalmInv'
<1>0. Types /\ Quiet /\ FlightInv /\ WireInv /\ QueueInv /\ (OneKind => OrderInv)
  BY DEF CalmInv
<1> USE ThreadFacts
<1>1. /\ pc' = [u \in Threads |-> pc'[u]] /\ pc'[Pump] = "select"
      /\ \A u \in Threads : u # Pump => pc'[u] = pc[u]
  BY <1>0, GotoFacts DEF Types, ReqChan
<1>2. UNCHANGED <<use, answered, outcome, requestQueue, pending, paused, rdy, requestChannel,
                readyForDispatch, timer, frame, pausing, cbLock, callbacks, responseHandler,
                errorHandler, connected, netUp, outQueue, wire>>
      /\ pc[Pump] = "loop"
  BY DEF ReqChan, history, dispatcher, signals, locks, handlers, socket
<1>3. Types' /\ Quiet' /\ FlightInv'
  BY <1>0, <1>1, <1>2 DEF Types, Quiet, FlightInv, Completing
<1> QED BY <1>0, <1>1, <1>2, <1>3, WireFrame, QueueFrame, OrderFrame DEF CalmInv, handlers

LEMMA PumpRequestInv ==
  ASSUME CalmInv, PumpRequest
  PROVE  CalmInv'
<1>0. Types /\ Quiet /\ FlightInv /\ WireInv /\ QueueInv /\ (OneKind => OrderInv)
  BY DEF CalmInv
<1> USE ThreadFacts
<1>1. /\ pc' = [u \in Threads |-> pc'[u]] /\ pc'[Pump] = "check"
      /\ \A u \in Threads : u # Pump => pc'[u] = pc[u]
  BY <1>0, GotoFacts DEF Types, PumpRequest
<1>2. UNCHANGED <<use, answered, outcome, requestQueue, pending, paused, rdy,
                readyForDispatch, timer, frame, pausing, cbLock, callbacks, responseHandler,
                errorHandler, connected, netUp, outQueue, wire>>
      /\ requestChannel' = 0 /\ pc[Pump] = "select"
  BY DEF PumpRequest, history, dispatcher, locks, handlers, socket
<1>3. Types' /\ Quiet' /\ FlightInv'
  BY <1>0, <1>1, <1>2 DEF Types, Quiet, FlightInv, Completing
<1> QED BY <1>0, <1>1, <1>2, <1>3, WireFrame, QueueFrame, OrderFrame DEF CalmInv, handlers

\* readyForDispatch says that nothing is in flight.
LEMMA PumpReadyInv ==
  ASSUME CalmInv, PumpReady
  PROVE  CalmInv'
<1>0. Types /\ Quiet /\ FlightInv /\ WireInv /\ QueueInv /\ (OneKind => OrderInv)
  BY DEF CalmInv
<1> USE ThreadFacts
<1>1. /\ pc' = [u \in Threads |-> pc'[u]] /\ pc'[Pump] = "check"
      /\ \A u \in Threads : u # Pump => pc'[u] = pc[u]
  BY <1>0, GotoFacts DEF Types, PumpReady
<1>2. UNCHANGED <<use, answered, outcome, requestQueue, pending, paused,
                requestChannel, timer, frame, pausing, cbLock, callbacks, responseHandler,
                errorHandler, connected, netUp, outQueue, wire>>
      /\ readyForDispatch = 1 /\ readyForDispatch' = 0 /\ rdy' = TRUE
  BY DEF PumpReady, history, locks, handlers, socket
<1>3. Types' /\ Quiet' /\ FlightInv'
  BY <1>0, <1>1, <1>2 DEF Types, Quiet, FlightInv, Completing
<1> QED BY <1>0, <1>1, <1>2, <1>3, WireFrame, QueueFrame, OrderFrame DEF CalmInv, handlers

LEMMA PumpCheckInv ==
  ASSUME CalmInv, PumpCheck
  PROVE  CalmInv'
<1>0. Types /\ Quiet /\ FlightInv /\ WireInv /\ QueueInv /\ (OneKind => OrderInv)
  BY DEF CalmInv
<1> USE ThreadFacts
<1>1. /\ pc' = [u \in Threads |-> pc'[u]]
      /\ \/ pc'[Pump] = "loop"
         \/ pc'[Pump] = "dispatch" /\ rdy /\ requestQueue # <<>>
      /\ \A u \in Threads : u # Pump => pc'[u] = pc[u]
  BY <1>0, GotoFacts DEF Types, PumpCheck
<1>2. UNCHANGED <<use, answered, outcome, requestQueue, pending, paused, rdy, requestChannel,
                readyForDispatch, timer, frame, pausing, cbLock, callbacks, responseHandler,
                errorHandler, connected, netUp, outQueue, wire>>
      /\ pc[Pump] = "check"
  BY DEF PumpCheck, history, dispatcher, signals, locks, handlers, socket
<1>3. Types' /\ Quiet' /\ FlightInv'
  BY <1>0, <1>1, <1>2 DEF Types, Quiet, FlightInv, Completing
<1> QED BY <1>0, <1>1, <1>2, <1>3, WireFrame, QueueFrame, OrderFrame DEF CalmInv, handlers

LEMMA ArmTimerInv ==
  ASSUME CalmInv, ArmTimer
  PROVE  CalmInv'
<1>0. Types /\ Quiet /\ FlightInv /\ WireInv /\ QueueInv /\ (OneKind => OrderInv)
  BY DEF CalmInv
<1> USE ThreadFacts
<1>1. /\ pc' = [u \in Threads |-> pc'[u]] /\ pc'[Pump] = "loop"
      /\ \A u \in Threads : u # Pump => pc'[u] = pc[u]
  BY <1>0, GotoFacts DEF Types, ArmTimer
<1>2. UNCHANGED <<use, answered, outcome, requestQueue, pending, paused, requestChannel,
                readyForDispatch, frame, pausing, cbLock, callbacks, responseHandler,
                errorHandler, connected, netUp, outQueue, wire>>
      /\ rdy' = FALSE /\ timer' = "armed"
  BY DEF ArmTimer, history, signals, locks, handlers, socket
<1>3. Types' /\ Quiet' /\ FlightInv'
  BY <1>0, <1>1, <1>2 DEF Types, Quiet, FlightInv, Completing
<1> QED BY <1>0, <1>1, <1>2, <1>3, WireFrame, QueueFrame, OrderFrame DEF CalmInv, handlers

\* The pump takes the first request of the queue, which is not on its way yet.
LEMMA DispatchInv ==
  ASSUME CalmInv, DispatchNextRequest
  PROVE  CalmInv'
<1>0. Types /\ Quiet /\ FlightInv /\ WireInv /\ QueueInv /\ (OneKind => OrderInv)
  BY DEF CalmInv
<1> USE ThreadFacts
<1>1. /\ pc[Pump] = "dispatch" /\ rdy /\ requestQueue # <<>>
      /\ pending = NoReq /\ ~Completing /\ readyForDispatch = 0
  BY <1>0 DEF FlightInv, DispatchNextRequest
<1>2. /\ Head(requestQueue) = requestQueue[1] /\ requestQueue[1] \in Requests
      /\ 1 \in 1..Len(requestQueue)
  BY <1>0, <1>1, TailFacts DEF Types
<1>3. pending' = requestQueue[1] /\ Call(Pump, "write", requestQueue[1], "canceled", "writeCancel")
  BY <1>1, <1>2 DEF DispatchNextRequest
<1>4. /\ pc' = [u \in Threads |-> pc'[u]] /\ pc'[Pump] = "write"
      /\ \A u \in Threads : u # Pump => pc'[u] = pc[u]
      /\ frame' = [u \in Threads |-> frame'[u]] /\ frame'[Pump].r = requestQueue[1]
      /\ \A u \in Threads : u # Pump => frame'[u] = frame[u]
  BY <1>0, <1>3, CallFacts DEF Types
<1>5. UNCHANGED <<use, answered, outcome, requestQueue, paused, rdy, requestChannel,
                readyForDispatch, timer, pausing, cbLock, callbacks, responseHandler,
                errorHandler, connected, netUp, outQueue, wire>>
  BY DEF DispatchNextRequest, history, signals, locks, handlers, socket
<1>6. NoReq \notin Requests
  BY OcppjClientAssumption DEF OcppjClientAssumption
<1>7. requestQueue[1] \notin Range(wire) \union Range(outQueue)
  BY <1>0, <1>1, <1>2, <1>6 DEF QueueInv
<1>8. Types'
  BY <1>0, <1>2, <1>3, <1>4, <1>5 DEF Types
<1>9. Quiet'
  BY <1>0, <1>4, <1>5 DEF Quiet
<1>10. FlightInv'
  BY <1>0, <1>1, <1>2, <1>3, <1>4, <1>5, <1>6, <1>7 DEF FlightInv, Completing
<1>11. \A i \in 1..Len(outQueue) : outQueue[i] = Answer
  BY <1>0, <1>1, <1>6, RangeFacts DEF WireInv, Types
<1>12. \A i \in 1..Len(wire) : wire[i] \in answered
  BY <1>0, <1>1, <1>6, RangeFacts DEF WireInv, Types
<1>13. WireInv'
  BY <1>0, <1>5, <1>11, <1>12 DEF WireInv
<1>14. QueueInv'
  BY <1>0, <1>1, <1>3, <1>4, <1>5, <1>6, <1>7, RangeFacts DEF QueueInv, Types
<1> QED BY <1>0, <1>4, <1>5, <1>8, <1>9, <1>10, <1>13, <1>14, OrderFrame DEF CalmInv, handlers

LEMMA OutFacts ==
  ASSUME NEW q \in Seq(Requests \union {Answer}), NEW e \in Requests \union {Answer}
  PROVE  /\ Append(q, e) \in Seq(Requests \union {Answer})
         /\ Len(q) \in Nat /\ Len(Append(q, e)) = Len(q) + 1
         /\ \A k \in 1..Len(q) : Append(q, e)[k] = q[k]
         /\ Append(q, e)[Len(q) + 1] = e
         /\ Range(Append(q, e)) = Range(q) \union {e}
BY AppendFacts

LEMMA DispatchWriteInv ==
  ASSUME CalmInv, DispatchWrite
  PROVE  CalmInv'
<1>0. Types /\ Quiet /\ FlightInv /\ WireInv /\ QueueInv /\ (OneKind => OrderInv)
  BY DEF CalmInv
<1> USE ThreadFacts
<1>1. UNCHANGED <<use, answered, outcome, requestQueue, pending, paused, rdy, requestChannel,
                readyForDispatch, timer, pausing, cbLock, callbacks, responseHandler,
                errorHandler, connected, netUp, wire>>
  BY DEF DispatchWrite, WriteTo, history, dispatcher, signals, handlers
<1>2. /\ frame[Pump].r = pending /\ pending # NoReq /\ rdy /\ ~Completing
      /\ pending \notin Range(wire) \union Range(outQueue)
      /\ pc[Pump] \in {"write", "writing"}
  BY <1>0 DEF FlightInv, DispatchWrite, WriteTo
<1>3. CASE outQueue' = Append(outQueue, frame[Pump].r) /\ Goto(Pump, "arm") /\ Return(Pump)
  <2>1. /\ pc' = [u \in Threads |-> pc'[u]] /\ pc'[Pump] = "arm"
        /\ \A u \in Threads : u # Pump => pc'[u] = pc[u]
    BY <1>0, <1>3, GotoFacts DEF Types
  <2>2. /\ frame' = [u \in Threads |-> frame'[u]] /\ frame'[Pump].r = NoReq
        /\ \A u \in Threads : u # Pump => frame'[u] = frame[u]
    BY <1>0, <1>3, ReturnFacts DEF Types
  <2>3. /\ outQueue' \in Seq(Requests \union {Answer})
        /\ Len(outQueue) \in Nat /\ Len(outQueue') = Len(outQueue) + 1
        /\ \A k \in 1..Len(outQueue) : outQueue'[k] = outQueue[k]
        /\ outQueue'[Len(outQueue) + 1] = pending
        /\ Range(outQueue') = Range(outQueue) \union {pending}
    <3>1. outQueue \in Seq(Requests \union {Answer}) /\ pending \in Requests
      BY <1>0, <1>2 DEF Types
    <3> QED BY <1>2, <1>3, <3>1, OutFacts
  <2>4. Types'
    BY <1>0, <1>1, <2>1, <2>2, <2>3 DEF Types
  <2>5. Quiet' /\ FlightInv'
    BY <1>0, <1>1, <1>2, <2>1, <2>2 DEF Quiet, FlightInv, Completing
  <2>6. \A i \in 1..Len(outQueue) : outQueue[i] = Answer
    BY <1>0, <1>2, RangeFacts DEF WireInv, Types
  <2>7. WireInv'
    BY <1>0, <1>1, <1>2, <2>3, <2>6 DEF WireInv
  <2>8. requestQueue # <<>> /\ pending = requestQueue[1] /\ 1 \in 1..Len(requestQueue)
    BY <1>0, <1>2, TailFacts DEF FlightInv, Completing, Types
  <2>9. pending \in Requests /\ pc[send(pending)] # "idle"
    <3>1. pending \in Requests /\ pending \in Range(requestQueue)
      BY <1>0, <2>8, TailFacts DEF Types
    <3> QED BY <1>0, <3>1 DEF QueueInv
  <2>10. QueueInv'
    <3>1. ASSUME NEW i \in 1..Len(requestQueue),
                 requestQueue[i] \in Range(wire) \union Range(outQueue')
          PROVE  i = 1 /\ requestQueue[i] = pending
      BY <1>0, <2>3, <2>8, <3>1 DEF QueueInv
    <3>2. ASSUME NEW s \in Requests, pc'[send(s)] = "idle"
          PROVE  s \notin Range(requestQueue) \union Range(wire) \union Range(outQueue')
      BY <1>0, <2>1, <2>3, <2>9, <3>2 DEF QueueInv
    <3> QED BY <1>0, <1>1, <3>1, <3>2 DEF QueueInv
  <2> QED BY <1>0, <1>1, <2>1, <2>2, <2>4, <2>5, <2>7, <2>10, OrderFrame DEF CalmInv, handlers
<1>4. CASE Goto(Pump, "writing") /\ UNCHANGED <<outQueue, frame>>
  <2>1. /\ pc' = [u \in Threads |-> pc'[u]] /\ pc'[Pump] = "writing"
        /\ \A u \in Threads : u # Pump => pc'[u] = pc[u]
    BY <1>0, <1>4, GotoFacts DEF Types
  <2>2. Types' /\ Quiet' /\ FlightInv'
    BY <1>0, <1>1, <1>2, <1>4, <2>1 DEF Types, Quiet, FlightInv, Completing
  <2> QED BY <1>0, <1>1, <1>4, <2>1, <2>2, WireFrame, QueueFrame, OrderFrame
          DEF CalmInv, handlers
<1> QED BY <1>0, <1>3, <1>4 DEF Quiet, DispatchWrite, WriteTo

\* The answer of the station to a call takes a place of outQueue, and no more.
LEMMA SendResponseInv ==
  ASSUME CalmInv, SendResponse(Read)
  PROVE  CalmInv'
<1>0. Types /\ Quiet /\ FlightInv /\ WireInv /\ QueueInv /\ (OneKind => OrderInv)
  BY DEF CalmInv
<1> USE ThreadFacts
<1>1. UNCHANGED <<use, answered, outcome, requestQueue, pending, paused, rdy, requestChannel,
                readyForDispatch, timer, frame, pausing, cbLock, callbacks, responseHandler,
                errorHandler, connected, netUp, wire>>
      /\ pc[Read] \in {"write", "writing"}
  BY DEF SendResponse, WriteTo, history, dispatcher, signals, handlers
<1>2. /\ pc' = [u \in Threads |-> pc'[u]] /\ pc'[Read] \in {"reading", "writing"}
      /\ \A u \in Threads : u # Read => pc'[u] = pc[u]
  BY <1>0, GotoFacts DEF Types, SendResponse, WriteTo
<1>3. \/ outQueue' = outQueue
      \/ /\ outQueue' \in Seq(Requests \union {Answer})
         /\ Len(outQueue) \in Nat /\ Len(outQueue') = Len(outQueue) + 1
         /\ \A k \in 1..Len(outQueue) : outQueue'[k] = outQueue[k]
         /\ outQueue'[Len(outQueue) + 1] = Answer
         /\ Range(outQueue') = Range(outQueue) \union {Answer}
  <2>1. outQueue \in Seq(Requests \union {Answer})
    BY <1>0 DEF Types
  <2>2. outQueue' = outQueue \/ outQueue' = Append(outQueue, Answer)
    BY DEF SendResponse, WriteTo
  <2>3. CASE outQueue' = Append(outQueue, Answer)
    <3>1. Answer \in Requests \union {Answer}
      OBVIOUS
    <3> QED BY <2>1, <2>3, <3>1, OutFacts
  <2> QED BY <2>2, <2>3
<1>4. Answer \notin Requests
  BY OcppjClientAssumption DEF OcppjClientAssumption
<1>5. \A x \in Requests : x \in Range(outQueue') <=> x \in Range(outQueue)
  BY <1>3, <1>4
<1>6. Types' /\ Quiet'
  BY <1>0, <1>1, <1>2, <1>3 DEF Types, Quiet
<1>7. pending \in Requests \union {NoReq} /\ \A i \in 1..Len(requestQueue) : requestQueue[i] \in Requests
  BY <1>0, RangeFacts DEF Types
<1>8. FlightInv'
  BY <1>0, <1>1, <1>2, <1>5, <1>7 DEF FlightInv, Completing
<1>9. WireInv'
  BY <1>0, <1>1, <1>3 DEF WireInv
<1>10. QueueInv'
  BY <1>0, <1>1, <1>2, <1>5, <1>7 DEF QueueInv
<1>11. (OneKind => OrderInv)'
  BY <1>0, <1>1, <1>2
  DEF OneKind, OrderInv, Completing, Taken, Handed, Brought, OwnAnswer
<1> QED BY <1>6, <1>8, <1>9, <1>10, <1>11 DEF CalmInv

LEMMA ReceiveCallInv ==
  ASSUME CalmInv, ReceiveCall
  PROVE  CalmInv'
<1>0. Types /\ Quiet /\ FlightInv /\ WireInv /\ QueueInv /\ (OneKind => OrderInv)
  BY DEF CalmInv
<1> USE ThreadFacts
<1>1. /\ pc' = [u \in Threads |-> pc'[u]] /\ pc'[Read] = "write"
      /\ \A u \in Threads : u # Read => pc'[u] = pc[u]
  BY <1>0, GotoFacts DEF Types, ReceiveCall
<1>2. UNCHANGED <<use, answered, outcome, requestQueue, pending, paused, rdy, requestChannel,
                readyForDispatch, timer, frame, pausing, cbLock, callbacks, responseHandler,
                errorHandler, connected, netUp, wire, outQueue>>
      /\ pc[Read] = "reading"
  BY DEF ReceiveCall, dispatcher, signals, locks, handlers, socket
<1>3. Types' /\ Quiet' /\ FlightInv'
  BY <1>0, <1>1, <1>2 DEF Types, Quiet, FlightInv, Completing
<1>4. (OneKind => OrderInv)'
  BY <1>0, <1>1, <1>2
  DEF OneKind, OrderInv, Completing, Taken, Handed, Brought, OwnAnswer
<1> QED BY <1>0, <1>1, <1>2, <1>3, <1>4, WireFrame, QueueFrame DEF CalmInv

LEMMA TransmitInv ==
  ASSUME CalmInv, Transmit
  PROVE  CalmInv'
<1>0. Types /\ Quiet /\ FlightInv /\ WireInv /\ QueueInv /\ (OneKind => OrderInv)
  BY DEF CalmInv
<1> USE ThreadFacts
<1>1. UNCHANGED <<use, answered, outcome, requestQueue, pending, paused, rdy, requestChannel,
                readyForDispatch, timer, pc, frame, pausing, cbLock, callbacks,
                responseHandler, errorHandler, connected, netUp>>
      /\ outQueue # <<>>
  BY DEF Transmit, history, dispatcher, signals, locks, handlers
<1>2. /\ outQueue \in Seq(Requests \union {Answer}) /\ wire \in Seq(Requests)
      /\ NoReq \notin Requests /\ Answer \notin Requests
  BY <1>0, OcppjClientAssumption DEF Types, OcppjClientAssumption
<1>3. /\ Head(outQueue) = outQueue[1] /\ outQueue[1] \in Requests \union {Answer}
      /\ Len(outQueue) \in Nat /\ Len(outQueue) > 0
      /\ outQueue' \in Seq(Requests \union {Answer})
      /\ Len(outQueue') = Len(outQueue) - 1
      /\ \A k \in 1..(Len(outQueue) - 1) : outQueue'[k] = outQueue[k + 1]
      /\ Range(outQueue) = Range(outQueue') \union {outQueue[1]}
  BY <1>1, <1>2, TailFacts DEF Transmit
<1>4. Types'
  <2>1. wire' \in Seq(Requests)
    BY <1>2, <1>3, AppendFacts DEF Transmit
  <2> QED BY <1>0, <1>1, <1>3, <2>1 DEF Types
<1>5. Quiet'
  BY <1>0, <1>1 DEF Quiet
<1>6. CASE outQueue[1] = Answer
  <2>1. wire' = wire
    BY <1>3, <1>6 DEF Transmit
  <2>2. pending \in Requests \union {NoReq} /\ \A i \in 1..Len(requestQueue) : requestQueue[i] \in Requests
    BY <1>0, RangeFacts DEF Types
  <2>3. Range(outQueue') \subseteq Range(outQueue)
    BY <1>3
  <2>4. FlightInv'
    BY <1>0, <1>1, <2>1, <2>3 DEF FlightInv, Completing
  <2>5. WireInv'
    BY <1>0, <1>1, <1>3, <2>1 DEF WireInv
  <2>6. QueueInv'
    BY <1>0, <1>1, <2>1, <2>3 DEF QueueInv
  <2> QED BY <1>0, <1>1, <1>4, <1>5, <2>4, <2>5, <2>6, OrderFrame DEF CalmInv, handlers
<1>7. CASE outQueue[1] # Answer
  <2>1. outQueue[1] \in Requests /\ 1 \in 1..Len(outQueue)
    BY <1>3, <1>7
  <2>2. /\ wire' \in Seq(Requests) /\ Len(wire) \in Nat
        /\ Len(wire') = Len(wire) + 1
        /\ \A k \in 1..Len(wire) : wire'[k] = wire[k]
        /\ wire'[Len(wire) + 1] = outQueue[1]
        /\ Range(wire') = Range(wire) \union {outQueue[1]}
    BY <1>2, <1>3, <1>7, <2>1, AppendFacts DEF Transmit
  <2>3. /\ outQueue[1] = pending /\ outQueue[1] \notin Range(wire)
        /\ \A j \in 1..Len(outQueue) : outQueue[j] = pending => j = 1
    BY <1>0, <1>7, <2>1 DEF WireInv
  <2>4. Range(wire') \union Range(outQueue') = Range(wire) \union Range(outQueue)
    BY <1>3, <2>2
  <2>5. FlightInv'
    BY <1>0, <1>1, <2>4 DEF FlightInv, Completing
  <2>6. \A i \in 1..Len(wire) : wire[i] \in Range(wire)
    BY <1>2, RangeFacts
  <2>7. ASSUME NEW i \in 1..Len(wire'), NEW j \in 1..Len(wire'), wire'[i] = wire'[j]
        PROVE  i = j
    BY <1>0, <2>2, <2>3, <2>6, <2>7 DEF WireInv
  <2>8. \A i \in 1..Len(wire') : wire'[i] \in answered \/ wire'[i] = pending
    BY <1>0, <2>2, <2>3 DEF WireInv
  <2>9. \A i \in 1..Len(outQueue') : outQueue'[i] = Answer
    <3> TAKE i \in 1..Len(outQueue')
    <3>1. i + 1 \in 1..Len(outQueue) /\ outQueue'[i] = outQueue[i + 1] /\ i + 1 # 1
      BY <1>3
    <3> QED BY <1>0, <2>3, <3>1 DEF WireInv
  <2>10. WireInv'
    BY <1>0, <1>1, <2>2, <2>7, <2>8, <2>9 DEF WireInv
  <2>11. QueueInv'
    BY <1>0, <1>1, <2>4 DEF QueueInv
  <2> QED BY <1>0, <1>1, <1>4, <1>5, <2>5, <2>10, <2>11, OrderFrame DEF CalmInv, handlers
<1> QED BY <1>6, <1>7

\* What is answered is the request in flight, and its answer completes it.
LEMMA ReceiveAnswerInv ==
  ASSUME Uncounted, CalmInv, NEW r \in Requests, NEW kind \in {"result", "error"},
         ReceiveAnswer(r, kind)
  PROVE  CalmInv'
<1>0. Types /\ Quiet /\ FlightInv /\ WireInv /\ QueueInv /\ (OneKind => OrderInv)
  BY DEF CalmInv
<1> USE ThreadFacts
<1>1. UNCHANGED <<use, outcome, requestQueue, pending, paused, rdy, requestChannel,
                readyForDispatch, timer, pausing, cbLock, callbacks, responseHandler,
                errorHandler, connected, netUp, outQueue, wire>>
      /\ pc[Read] = "reading" /\ kind \in use.kinds /\ answered' = answered \union {r}
      /\ r \in Range(wire) /\ r \notin answered
  BY DEF ReceiveAnswer, dispatcher, signals, locks, handlers, socket
<1>2. pending = r /\ pending # NoReq
  <2>1. PICK i \in 1..Len(wire) : wire[i] = r
    BY <1>0, <1>1, RangeFacts DEF Types
  <2> QED BY <1>0, <1>1, <2>1, OcppjClientAssumption DEF WireInv, OcppjClientAssumption
<1>3. /\ pc' = [u \in Threads |-> pc'[u]] /\ pc'[Read] = "complete"
      /\ \A u \in Threads : u # Read => pc'[u] = pc[u]
      /\ frame' = [u \in Threads |-> frame'[u]]
      /\ frame'[Read].r = r /\ frame'[Read].then = kind
      /\ \A u \in Threads : u # Read => frame'[u] = frame[u]
  <2>1. Call(Read, "complete", r, kind, kind)
    BY <1>2 DEF ReceiveAnswer
  <2> QED BY <1>0, <2>1, CallFacts DEF Types
<1>4. Types'
  BY <1>0, <1>1, <1>3 DEF Types
<1>5. Quiet'
  BY <1>0, <1>1, <1>3 DEF Quiet
<1>6. FlightInv'
  BY <1>0, <1>1, <1>2, <1>3 DEF FlightInv, Completing
<1>7. WireInv'
  <2>1. \A i \in 1..Len(wire) : wire[i] \in answered' \/ wire[i] = pending
    BY <1>0, <1>1 DEF WireInv
  <2>2. answered' \subseteq Range(wire)
    BY <1>0, <1>1 DEF WireInv
  <2> QED BY <1>0, <1>1, <2>1, <2>2 DEF WireInv
<1>8. QueueInv'
  BY <1>0, <1>1, <1>3, QueueFrame
<1>9. ASSUME OneKind' PROVE OrderInv'
  <2>1. OrderInv
    BY <1>0, <1>1, <1>9 DEF OneKind
  <2>2. Taken' = Taken /\ Handed' = Handed /\ Brought' = 0 /\ Brought = 0
    BY <1>1, <1>3 DEF Taken, Handed, Brought
  <2>3. \A k \in {"result", "error"} : k \notin use.kinds => k # kind
    BY <1>1
  <2> QED BY <1>1, <1>3, <2>1, <2>2, <2>3 DEF OrderInv, Completing, OwnAnswer
<1> QED BY <1>4, <1>5, <1>6, <1>7, <1>8, <1>9 DEF CalmInv

LEMMA CompletePeekInv ==
  ASSUME CalmInv, CompletePeek(Read)
  PROVE  CalmInv'
<1>0. Types /\ Quiet /\ FlightInv /\ WireInv /\ QueueInv /\ (OneKind => OrderInv)
  BY DEF CalmInv
<1> USE ThreadFacts
<1>1. UNCHANGED <<use, answered, outcome, requestQueue, pending, paused, rdy, requestChannel,
                readyForDispatch, timer, frame, pausing, cbLock, callbacks, responseHandler,
                errorHandler, connected, netUp, outQueue, wire>>
      /\ pc[Read] = "complete"
  BY DEF CompletePeek, history, dispatcher, signals, locks, handlers, socket
<1>2. /\ frame[Read].r = pending /\ pending \in answered
      /\ requestQueue # <<>> /\ pending = requestQueue[1] /\ Head(requestQueue) = requestQueue[1]
  <2>1. pending \in Requests /\ NoReq \notin Requests
    BY <1>0, <1>1, OcppjClientAssumption DEF FlightInv, Types, OcppjClientAssumption
  <2>2. frame[Read].r = pending /\ pending \in answered
        /\ requestQueue # <<>> /\ pending = requestQueue[1]
    BY <1>0, <1>1, <2>1 DEF FlightInv
  <2> QED BY <1>0, <2>2, TailFacts DEF Types
<1>3. /\ pc' = [u \in Threads |-> pc'[u]] /\ pc'[Read] = "pop"
      /\ \A u \in Threads : u # Read => pc'[u] = pc[u]
  <2>1. Goto(Read, "pop")
    BY <1>2 DEF CompletePeek
  <2> QED BY <1>0, <2>1, GotoFacts DEF Types
<1>4. Types' /\ Quiet' /\ FlightInv'
  BY <1>0, <1>1, <1>2, <1>3 DEF Types, Quiet, FlightInv, Completing
<1>5. (OneKind => OrderInv)'
  BY <1>0, <1>1, <1>3
  DEF OneKind, OrderInv, Completing, Taken, Handed, Brought, OwnAnswer
<1> QED BY <1>0, <1>1, <1>3, <1>4, <1>5, WireFrame, QueueFrame DEF CalmInv

LEMMA CompletePopInv ==
  ASSUME CalmInv, CompletePop(Read)
  PROVE  CalmInv'
<1>0. Types /\ Quiet /\ FlightInv /\ WireInv /\ QueueInv /\ (OneKind => OrderInv)
  BY DEF CalmInv
<1> USE ThreadFacts
<1>1. UNCHANGED <<use, answered, outcome, pending, paused, rdy, requestChannel,
                readyForDispatch, timer, frame, pausing, cbLock, callbacks, responseHandler,
                errorHandler, connected, netUp, outQueue, wire>>
      /\ pc[Read] = "pop"
  BY DEF CompletePop, history, signals, locks, handlers, socket
<1>2. /\ pc' = [u \in Threads |-> pc'[u]] /\ pc'[Read] = "delete"
      /\ \A u \in Threads : u # Read => pc'[u] = pc[u]
  BY <1>0, GotoFacts DEF Types, CompletePop
<1>3. /\ frame[Read].r = pending /\ pending \in answered /\ pending \in Requests
      /\ requestQueue # <<>> /\ pending = requestQueue[1]
  <2>1. pending \in Requests /\ NoReq \notin Requests
    BY <1>0, <1>1, OcppjClientAssumption DEF FlightInv, Types, OcppjClientAssumption
  <2> QED BY <1>0, <1>1, <2>1 DEF FlightInv
<1>4. /\ Len(requestQueue) \in Nat /\ Len(requestQueue) > 0
      /\ requestQueue' \in Seq(Requests)
      /\ Len(requestQueue') = Len(requestQueue) - 1
      /\ \A k \in 1..(Len(requestQueue) - 1) : requestQueue'[k] = requestQueue[k + 1]
      /\ Range(requestQueue) = Range(requestQueue') \union {requestQueue[1]}
  BY <1>0, <1>3, TailFacts DEF Types, CompletePop
<1>5. \A k \in 1..Len(requestQueue') :
        k + 1 \in 1..Len(requestQueue) /\ requestQueue'[k] = requestQueue[k + 1] /\ k + 1 # 1
  BY <1>4
<1>6. pending \notin Range(requestQueue')
  <2> SUFFICES ASSUME pending \in Range(requestQueue') PROVE FALSE
    OBVIOUS
  <2>1. PICK k \in 1..Len(requestQueue') : requestQueue'[k] = pending
    BY <1>4, RangeFacts
  <2>2. k + 1 \in 1..Len(requestQueue) /\ requestQueue[k + 1] = requestQueue[1] /\ k + 1 # 1
    BY <1>3, <1>5, <2>1
  <2> QED BY <1>0, <1>4, <2>2 DEF QueueInv
<1>7. Types'
  BY <1>0, <1>1, <1>2, <1>4 DEF Types
<1>8. Quiet'
  BY <1>0, <1>1, <1>2 DEF Quiet
<1>9. FlightInv'
  BY <1>0, <1>1, <1>2, <1>3, <1>6 DEF FlightInv, Completing
<1>10. QueueInv'
  <2>1. ASSUME NEW i \in 1..Len(requestQueue'), NEW j \in 1..Len(requestQueue'),
               requestQueue'[i] = requestQueue'[j]
        PROVE  i = j
    <3>1. i + 1 \in 1..Len(requestQueue) /\ j + 1 \in 1..Len(requestQueue)
          /\ requestQueue[i + 1] = requestQueue[j + 1]
      BY <1>5, <2>1
    <3>2. i + 1 = j + 1
      BY <1>0, <3>1 DEF QueueInv
    <3> QED BY <1>4, <3>2
  <2>2. \A i \in 1..Len(requestQueue') :
          requestQueue'[i] \notin Range(wire) \union Range(outQueue)
    BY <1>0, <1>5 DEF QueueInv
  <2>3. Range(requestQueue') \subseteq Range(requestQueue)
    BY <1>4
  <2> QED BY <1>0, <1>1, <1>2, <2>1, <2>2, <2>3 DEF QueueInv
<1>11. ASSUME OneKind' PROVE OrderInv'
  <2>1. OrderInv
    BY <1>0, <1>1, <1>11 DEF OneKind
  <2>2. Taken' = Taken /\ Handed' = Handed /\ Brought' = 1 /\ Brought = 0
    BY <1>1, <1>2 DEF Taken, Handed, Brought
  <2>3. Taken \in {0, 1} /\ Handed \in Nat
    BY <1>0, SlotFacts DEF Taken, Handed, Types
  <2>4. callbacks[Taken + Handed + 1] = frame[Read].r
    <3>1. callbacks[Taken + Handed + Brought + 1] = requestQueue[1]
      BY <1>4, <2>1 DEF OrderInv
    <3> QED BY <1>3, <2>2, <2>3, <3>1
  <2>5. \A i \in 1..Len(requestQueue') : callbacks[Taken + Handed + 1 + i] = requestQueue'[i]
    <3> TAKE i \in 1..Len(requestQueue')
    <3>1. callbacks[Taken + Handed + Brought + (i + 1)] = requestQueue[i + 1]
      BY <1>5, <2>1 DEF OrderInv
    <3> QED BY <1>4, <1>5, <2>2, <2>3, <3>1
  <2>6. Len(callbacks) = Taken + Handed + 1 + Len(requestQueue')
    BY <1>4, <2>1, <2>2, <2>3 DEF OrderInv
  <2> QED BY <1>1, <1>2, <2>1, <2>2, <2>4, <2>5, <2>6 DEF OrderInv, Completing, OwnAnswer
<1> QED BY <1>0, <1>1, <1>7, <1>8, <1>9, <1>10, <1>11, WireFrame DEF CalmInv

LEMMA DeletePendingInv ==
  ASSUME CalmInv, DeletePendingRequest(Read)
  PROVE  CalmInv'
<1>0. Types /\ Quiet /\ FlightInv /\ WireInv /\ QueueInv /\ (OneKind => OrderInv)
  BY DEF CalmInv
<1> USE ThreadFacts
<1>1. UNCHANGED <<use, answered, outcome, requestQueue, paused, rdy, requestChannel,
                readyForDispatch, timer, frame, pausing, cbLock, callbacks, responseHandler,
                errorHandler, connected, netUp, outQueue, wire>>
      /\ pc[Read] = "delete"
  BY DEF DeletePendingRequest, history, signals, locks, handlers, socket
<1>2. /\ pc' = [u \in Threads |-> pc'[u]] /\ pc'[Read] = "ready"
      /\ \A u \in Threads : u # Read => pc'[u] = pc[u]
  BY <1>0, GotoFacts DEF Types, DeletePendingRequest
<1>3. /\ frame[Read].r = pending /\ pending \in answered /\ pending \in Range(wire)
      /\ pending \notin Range(requestQueue)
  BY <1>0, <1>1 DEF FlightInv, WireInv
<1>4. pending' = NoReq
  BY <1>3 DEF DeletePendingRequest
<1>5. Types' /\ Quiet'
  BY <1>0, <1>1, <1>2, <1>4 DEF Types, Quiet
<1>6. FlightInv'
  BY <1>0, <1>1, <1>2, <1>3, <1>4 DEF FlightInv, Completing
<1>7. \A i \in 1..Len(outQueue) : outQueue[i] = Answer
  BY <1>0, <1>3 DEF WireInv
<1>8. WireInv'
  BY <1>0, <1>1, <1>3, <1>7 DEF WireInv
<1>9. \A i \in 1..Len(requestQueue) :
        requestQueue[i] \notin Range(wire) \union Range(outQueue)
  BY <1>0, <1>3, RangeFacts DEF QueueInv, Types
<1>10. QueueInv'
  BY <1>0, <1>1, <1>2, <1>9 DEF QueueInv
<1>11. (OneKind => OrderInv)'
  BY <1>0, <1>1, <1>2
  DEF OneKind, OrderInv, Completing, Taken, Handed, Brought, OwnAnswer
<1> QED BY <1>5, <1>6, <1>8, <1>10, <1>11 DEF CalmInv

LEMMA SignalReadyInv ==
  ASSUME CalmInv, SignalReady(Read)
  PROVE  CalmInv'
<1>0. Types /\ Quiet /\ FlightInv /\ WireInv /\ QueueInv /\ (OneKind => OrderInv)
  BY DEF CalmInv
<1> USE ThreadFacts
<1>1. UNCHANGED <<use, answered, outcome, requestQueue, pending, paused, rdy, requestChannel,
                timer, frame, pausing, cbLock, callbacks, responseHandler,
                errorHandler, connected, netUp, outQueue, wire>>
      /\ pc[Read] = "ready" /\ readyForDispatch' = 1
  BY DEF SignalReady, history, dispatcher, locks, handlers, socket
<1>2. /\ pc' = [u \in Threads |-> pc'[u]] /\ pc'[Read] = frame[Read].then
      /\ \A u \in Threads : u # Read => pc'[u] = pc[u]
  BY <1>0, GotoFacts DEF Types, SignalReady
<1>3. frame[Read].then \in {"result", "error"} /\ pending = NoReq
  BY <1>0, <1>1 DEF FlightInv, Completing
<1>4. Types' /\ Quiet'
  BY <1>0, <1>1, <1>2, <1>3 DEF Types, Quiet
<1>5. FlightInv'
  BY <1>0, <1>1, <1>2, <1>3 DEF FlightInv, Completing
<1>6. ASSUME OneKind' PROVE OrderInv'
  <2>1. OrderInv
    BY <1>0, <1>1, <1>6 DEF OneKind
  <2>2. Taken' = Taken /\ Handed' = Handed /\ Brought' = Brought
    BY <1>1, <1>2, <1>3 DEF Taken, Handed, Brought
  <2> QED BY <1>1, <1>2, <1>3, <2>1, <2>2 DEF OrderInv, Completing, OwnAnswer
<1> QED BY <1>0, <1>1, <1>2, <1>4, <1>5, <1>6, WireFrame, QueueFrame DEF CalmInv

\* With answers of one kind the channel to asyncCallbackHandler that the read
\* goroutine sends on is the only one in use.
LEMMA HandleAnswerInv ==
  ASSUME Uncounted, CalmInv, HandleAnswer(Read)
  PROVE  CalmInv'
<1>0. Types /\ Quiet /\ FlightInv /\ WireInv /\ QueueInv /\ (OneKind => OrderInv)
  BY DEF CalmInv
<1> USE ThreadFacts
<1>1. UNCHANGED <<use, answered, outcome, requestQueue, pending, paused, rdy, requestChannel,
                readyForDispatch, timer, pausing, cbLock, callbacks, connected, netUp,
                outQueue, wire>>
      /\ pc[Read] \in {"result", "error"}
  BY DEF HandleAnswer, history, dispatcher, signals, locks, socket
<1>2. /\ pc' = [u \in Threads |-> pc'[u]] /\ pc'[Read] = "reading"
      /\ \A u \in Threads : u # Read => pc'[u] = pc[u]
  BY <1>0, GotoFacts DEF Types, HandleAnswer
<1>3. /\ frame' = [u \in Threads |-> frame'[u]] /\ frame'[Read].r = NoReq
      /\ \A u \in Threads : u # Read => frame'[u] = frame[u]
  BY <1>0, ReturnFacts DEF Types, HandleAnswer
<1>4. \/ /\ pc[Read] = "result" /\ responseHandler = <<>>
         /\ responseHandler' = <<<<"result", frame[Read].r>>>> /\ errorHandler' = errorHandler
      \/ /\ pc[Read] = "error" /\ errorHandler = <<>>
         /\ errorHandler' = <<<<"error", frame[Read].r>>>> /\ responseHandler' = responseHandler
  BY DEF HandleAnswer
<1>5. /\ <<"result", frame[Read].r>> \in Results
      /\ <<"error", frame[Read].r>> \in Results
  BY <1>0 DEF Types, Results
<1>6. Types'
  BY <1>0, <1>1, <1>2, <1>3, <1>4, <1>5 DEF Types
<1>7. Quiet' /\ FlightInv'
  BY <1>0, <1>1, <1>2, <1>3 DEF Quiet, FlightInv, Completing
<1>8. ASSUME OneKind' PROVE OrderInv'
  <2>1. OneKind /\ OrderInv
    BY <1>0, <1>1, <1>8 DEF OneKind
  <2>2. responseHandler = <<>> /\ errorHandler = <<>>
    BY <1>4, <2>1, OneKindFacts DEF OrderInv, Uncounted
  <2>3. Taken' = Taken /\ Handed = 0 /\ Handed' = 1 /\ Brought = 1 /\ Brought' = 0
    <3>1. Handed = 0 /\ Handed' = 1
      <4>1. Len(responseHandler) = 0 /\ Len(errorHandler) = 0
        BY <2>2
      <4>2. \/ responseHandler' # <<>> /\ errorHandler' = <<>>
            \/ responseHandler' = <<>> /\ errorHandler' # <<>>
        BY <1>4, <2>2
      <4>3. \/ Len(responseHandler') = 1 /\ Len(errorHandler') = 0
            \/ Len(responseHandler') = 0 /\ Len(errorHandler') = 1
        BY <1>6, <4>2, SlotFacts DEF Types
      <4> QED BY <4>1, <4>3, SumFacts, Zenon DEF Handed
    <3> QED BY <1>1, <1>2, <3>1 DEF Taken, Brought
  <2>4. Taken \in {0, 1} /\ Len(requestQueue) \in Nat
    BY <1>0, RangeFacts DEF Taken, Types
  <2>5. callbacks[Taken + 1] = frame[Read].r
    BY <2>1, <2>3, <2>4 DEF OrderInv
  <2>6. \A i \in 1..Len(requestQueue) : callbacks[Taken + 1 + 0 + i] = requestQueue[i]
    <3> TAKE i \in 1..Len(requestQueue)
    <3>1. callbacks[Taken + 0 + 1 + i] = requestQueue[i]
      BY <2>1, <2>3 DEF OrderInv
    <3> QED BY <2>4, <3>1
  <2>7. Len(callbacks) = Taken + 1 + 0 + Len(requestQueue)
    BY <2>1, <2>3, <2>4 DEF OrderInv
  <2>8. /\ responseHandler' # <<>> => "result" \in use.kinds /\ responseHandler'[1][2] = frame[Read].r
        /\ errorHandler' # <<>> => "error" \in use.kinds /\ errorHandler'[1][2] = frame[Read].r
    BY <1>1, <1>4, <2>1, <2>2 DEF OrderInv
  <2> QED BY <1>1, <1>2, <1>3, <2>1, <2>3, <2>5, <2>6, <2>7, <2>8
          DEF OrderInv, Completing, OwnAnswer
<1> QED BY <1>0, <1>1, <1>2, <1>6, <1>7, <1>8, WireFrame, QueueFrame DEF CalmInv

LEMMA TakeResultInv ==
  ASSUME Uncounted, CalmInv, TakeResult
  PROVE  CalmInv'
<1>0. Types /\ Quiet /\ FlightInv /\ WireInv /\ QueueInv /\ (OneKind => OrderInv)
  BY DEF CalmInv
<1> USE ThreadFacts
<1>1. UNCHANGED <<use, answered, outcome, requestQueue, pending, paused, rdy, requestChannel,
                readyForDispatch, timer, pausing, cbLock, callbacks, connected, netUp,
                outQueue, wire>>
      /\ pc[Async] = "idle"
  BY DEF TakeResult, history, dispatcher, signals, locks, socket
<1>2. /\ responseHandler # <<>> => Len(responseHandler) = 1 /\ responseHandler[1] \in Results
                                   /\ Head(responseHandler) = responseHandler[1]
      /\ errorHandler # <<>> => Len(errorHandler) = 1 /\ errorHandler[1] \in Results
                                /\ Head(errorHandler) = errorHandler[1]
  BY <1>0, SlotFacts DEF Types
<1>3. PICK h \in Results :
        /\ Call(Async, "dequeue", h[2], h[1], "idle")
        /\ \/ /\ responseHandler # <<>> /\ h = responseHandler[1]
              /\ responseHandler' = <<>> /\ errorHandler' = errorHandler
           \/ /\ errorHandler # <<>> /\ h = errorHandler[1]
              /\ errorHandler' = <<>> /\ responseHandler' = responseHandler
  BY <1>2 DEF TakeResult
<1>4. /\ pc' = [u \in Threads |-> pc'[u]] /\ pc'[Async] = "dequeue"
      /\ \A u \in Threads : u # Async => pc'[u] = pc[u]
      /\ frame' = [u \in Threads |-> frame'[u]] /\ frame'[Async].r = h[2]
      /\ \A u \in Threads : u # Async => frame'[u] = frame[u]
  BY <1>0, <1>3, CallFacts DEF Types
<1>5. h[2] \in Requests \union {NoReq}
  BY DEF Results
<1>6. Types'
  BY <1>0, <1>1, <1>3, <1>4, <1>5 DEF Types
<1>7. Quiet' /\ FlightInv'
  BY <1>0, <1>1, <1>4 DEF Quiet, FlightInv, Completing
<1>8. ASSUME OneKind' PROVE OrderInv'
  <2>1. OneKind /\ OrderInv
    BY <1>0, <1>1, <1>8 DEF OneKind
  <2>2. responseHandler = <<>> \/ errorHandler = <<>>
    BY <2>1, OneKindFacts DEF OrderInv, Uncounted
  <2>3. /\ Taken = 0 /\ Taken' = 1 /\ Handed = 1 /\ Handed' = 0 /\ Brought' = Brought
        /\ responseHandler' = <<>> /\ errorHandler' = <<>>
    <3>1. Handed = 1 /\ Handed' = 0 /\ responseHandler' = <<>> /\ errorHandler' = <<>>
      <4>1. responseHandler' = <<>> /\ errorHandler' = <<>>
        BY <1>3, <2>2
      <4>2. Len(responseHandler') = 0 /\ Len(errorHandler') = 0
        BY <4>1
      <4>3. \/ Len(responseHandler) = 1 /\ Len(errorHandler) = 0
            \/ Len(responseHandler) = 0 /\ Len(errorHandler) = 1
        BY <1>2, <1>3, <2>2
      <4> QED BY <4>1, <4>2, <4>3, SumFacts, Zenon DEF Handed
    <3> QED BY <1>1, <1>4, <3>1 DEF Taken, Brought
  <2>4. Brought \in {0, 1} /\ Len(requestQueue) \in Nat
    BY <1>0, RangeFacts DEF Brought, Types
  <2>5. callbacks[1] = h[2]
    BY <1>3, <2>1, <2>3 DEF OrderInv
  <2>6. Brought = 1 => callbacks[1 + 0 + 1] = frame[Read].r
    BY <2>1, <2>3 DEF OrderInv
  <2>7. \A i \in 1..Len(requestQueue) : callbacks[1 + 0 + Brought + i] = requestQueue[i]
    <3> TAKE i \in 1..Len(requestQueue)
    <3>1. callbacks[0 + 1 + Brought + i] = requestQueue[i]
      BY <2>1, <2>3 DEF OrderInv
    <3> QED BY <2>4, <3>1
  <2>8. Len(callbacks) = 1 + 0 + Brought + Len(requestQueue)
    BY <2>1, <2>3, <2>4 DEF OrderInv
  <2> QED BY <1>1, <1>4, <2>1, <2>3, <2>5, <2>6, <2>7, <2>8
          DEF OrderInv, Completing, OwnAnswer
<1> QED BY <1>0, <1>1, <1>4, <1>6, <1>7, <1>8, WireFrame, QueueFrame DEF CalmInv

LEMMA DequeueInv ==
  ASSUME CalmInv, Dequeue
  PROVE  CalmInv'
<1>0. Types /\ Quiet /\ FlightInv /\ WireInv /\ QueueInv /\ (OneKind => OrderInv)
  BY DEF CalmInv
<1> USE ThreadFacts
<1>1. UNCHANGED <<use, answered, requestQueue, pending, paused, rdy, requestChannel,
                readyForDispatch, timer, pausing, cbLock, responseHandler, errorHandler,
                connected, netUp, outQueue, wire>>
      /\ pc[Async] = "dequeue"
  BY DEF Dequeue, dispatcher, signals, locks, handlers, socket
<1>2. /\ pc' = [u \in Threads |-> pc'[u]] /\ pc'[Async] = "idle"
      /\ \A u \in Threads : u # Async => pc'[u] = pc[u]
  BY <1>0, GotoFacts DEF Types, Dequeue
<1>3. /\ frame' = [u \in Threads |-> frame'[u]] /\ frame'[Async].r = NoReq
      /\ \A u \in Threads : u # Async => frame'[u] = frame[u]
  BY <1>0, ReturnFacts DEF Types, Dequeue
<1>4. callbacks # <<>> =>
        /\ Head(callbacks) = callbacks[1] /\ callbacks[1] \in Requests
        /\ callbacks' \in Seq(Requests) /\ Len(callbacks) \in Nat /\ Len(callbacks) > 0
        /\ Len(callbacks') = Len(callbacks) - 1
        /\ \A k \in 1..(Len(callbacks) - 1) : callbacks'[k] = callbacks[k + 1]
        /\ outcome' = [outcome EXCEPT ![callbacks[1]] = <<frame[Async].kind, frame[Async].r>>]
  <2> HAVE callbacks # <<>>
  <2>1. /\ outcome' = [outcome EXCEPT ![Head(callbacks)] = <<frame[Async].kind, frame[Async].r>>]
        /\ callbacks' = Tail(callbacks)
    BY DEF Dequeue
  <2>2. callbacks \in Seq(Requests)
    BY <1>0 DEF Types
  <2> QED BY <2>1, <2>2, TailFacts
<1>5. callbacks = <<>> => UNCHANGED <<callbacks, outcome>>
  BY DEF Dequeue
<1>6. Types'
  <2>1. callbacks' \in Seq(Requests) /\ outcome' = [r \in Requests |-> outcome'[r]]
    BY <1>0, <1>4, <1>5 DEF Types
  <2> QED BY <1>0, <1>1, <1>2, <1>3, <2>1 DEF Types
<1>7. Quiet' /\ FlightInv'
  BY <1>0, <1>1, <1>2, <1>3 DEF Quiet, FlightInv, Completing
<1>8. ASSUME OneKind' PROVE OrderInv'
  <2>1. OrderInv
    BY <1>0, <1>1, <1>8 DEF OneKind
  <2>2. Taken = 1 /\ Taken' = 0 /\ Handed' = Handed /\ Brought' = Brought
    BY <1>1, <1>2 DEF Taken, Handed, Brought
  <2>3. Handed \in Nat /\ Brought \in {0, 1} /\ Len(requestQueue) \in Nat
    BY <1>0, SlotFacts, RangeFacts DEF Handed, Brought, Types
  <2>4. Len(callbacks) = 1 + Handed + Brought + Len(requestQueue) /\ callbacks # <<>>
    <3>1. Len(callbacks) = 1 + Handed + Brought + Len(requestQueue)
      BY <2>1, <2>2 DEF OrderInv
    <3> QED BY <1>0, <2>3, <3>1, EmptySeq DEF Types
  <2>5. Len(callbacks') = 0 + Handed + Brought + Len(requestQueue)
    BY <1>4, <2>3, <2>4
  <2>6. /\ responseHandler # <<>> => callbacks'[0 + 1] = responseHandler[1][2]
        /\ errorHandler # <<>> => callbacks'[0 + 1] = errorHandler[1][2]
    <3>1. responseHandler # <<>> \/ errorHandler # <<>> => Handed >= 1
      BY <1>0, SlotFacts DEF Handed, Types
    <3>2. responseHandler # <<>> \/ errorHandler # <<>> => callbacks'[1] = callbacks[2]
      BY <1>4, <2>3, <2>4, <3>1
    <3> QED BY <2>1, <2>2, <3>2 DEF OrderInv
  <2>7. Brought = 1 => callbacks'[0 + Handed + 1] = frame[Read].r
    <3> SUFFICES ASSUME Brought = 1 PROVE callbacks'[Handed + 1] = frame[Read].r
      BY <2>3
    <3>1. callbacks'[Handed + 1] = callbacks[1 + Handed + 1]
      BY <1>4, <2>3, <2>4
    <3> QED BY <2>1, <2>2, <3>1 DEF OrderInv
  <2>8. \A i \in 1..Len(requestQueue) : callbacks'[0 + Handed + Brought + i] = requestQueue[i]
    <3> TAKE i \in 1..Len(requestQueue)
    <3>1. callbacks'[0 + Handed + Brought + i] = callbacks[1 + Handed + Brought + i]
      BY <1>4, <2>3, <2>4
    <3> QED BY <2>1, <2>2, <3>1 DEF OrderInv
  <2>9. OwnAnswer'
    <3>1. /\ callbacks[1] = frame[Async].r
          /\ outcome' = [outcome EXCEPT ![callbacks[1]] = <<frame[Async].kind, frame[Async].r>>]
      BY <1>4, <2>1, <2>2, <2>4 DEF OrderInv
    <3> QED BY <1>0, <2>1, <3>1 DEF Types, OrderInv, OwnAnswer
  <2> QED BY <1>1, <1>2, <1>3, <2>1, <2>2, <2>5, <2>6, <2>7, <2>8, <2>9
          DEF OrderInv, Completing
<1> QED BY <1>0, <1>1, <1>2, <1>6, <1>7, <1>8, WireFrame, QueueFrame DEF CalmInv

\* An action that only a broken connection or the timer makes possible.
Broken ==
  \/ PumpTimeout \/ TimedOut \/ RequestCanceled \/ ResetTimer \/ CompleteStep(Pump)
  \/ ReadFails(Read) \/ ReadStep(Old) \/ WriteFails \/ CloseStep \/ TimerExpires \/ NetworkFails

LEMMA CalmIsQuiet ==
  ASSUME Uncounted, Calm, CalmInv, Broken, Calm'
  PROVE  FALSE
<1>0. Quiet
  BY DEF CalmInv
<1>1. CASE PumpTimeout \/ TimedOut \/ RequestCanceled \/ ResetTimer
  BY <1>0, <1>1 DEF Quiet, PumpTimeout, TimedOut, RequestCanceled, ResetTimer
<1>2. CASE CompleteStep(Pump)
  BY <1>0, <1>2
  DEF Quiet, CompleteStep, CompletePeek, CompletePop, DeletePendingRequest, SignalReady
<1>3. CASE ReadFails(Read) \/ WriteFails \/ TimerExpires
  BY <1>0, <1>3, ThreadFacts DEF Quiet, ReadFails, WriteFails, TimerExpires, Calm
<1>4. CASE CloseStep
  BY <1>0, <1>4 DEF Quiet, CloseStep, Cleanup, WaitForReaders, Pause, Reconnect, Resume, Resumed
<1>5. CASE NetworkFails
  <2>1. used'.drops = used.drops + 1
    BY <1>5 DEF NetworkFails, Uncounted
  <2> QED BY <2>1 DEF Calm
<1>6. CASE ReadStep(Old)
  BY <1>0, <1>6 DEF Quiet, ReadStep, HandleAnswer, SendResponse, WriteTo, ReadFails,
    CompleteStep, CompletePeek, CompletePop, DeletePendingRequest, SignalReady
<1> QED BY <1>1, <1>2, <1>3, <1>4, <1>5, <1>6 DEF Broken

LEMMA UncountedNext ==
  ASSUME Uncounted, [Next]_vars
  PROVE  Uncounted' /\ (Calm' => Calm)
<1>1. CASE UNCHANGED <<use, used>>
  BY <1>1 DEF Uncounted, Calm
<1>2. CASE NetworkFails \/ ReceiveCall
  BY <1>2 DEF Uncounted, Calm, NetworkFails, ReceiveCall
<1>3. \/ UNCHANGED <<use, used>> \/ NetworkFails \/ ReceiveCall
  <2>1. CASE PumpStep
    BY <2>1 DEF PumpStep, ReqChan, PumpRequest, PumpReady, PumpTimeout, TimedOut, RequestCanceled,
      ResetTimer, PumpCheck, DispatchNextRequest, DispatchWrite, WriteTo, ArmTimer,
      CompleteStep, CompletePeek, CompletePop, DeletePendingRequest, SignalReady, history
  <2>2. CASE ReadStep(Read) \/ ReadStep(Old)
    BY <2>2 DEF ReadStep, HandleAnswer, SendResponse, WriteTo, ReadFails,
      CompleteStep, CompletePeek, CompletePop, DeletePendingRequest, SignalReady, history
  <2>3. CASE WriteStep \/ CloseStep \/ AsyncStep
    BY <2>3 DEF WriteStep, CloseStep, AsyncStep, Transmit, WriteFails, Cleanup,
      WaitForReaders, Pause, Reconnect, Resume, Resumed, TakeResult, Dequeue, history
  <2>4. CASE \E r \in Requests :
               SendStep(r) \/ \E kind \in {"result", "error"} : ReceiveAnswer(r, kind)
    BY <2>4 DEF SendStep, SendRequest, BlockOnRequestChannel, Notify, ReceiveAnswer, history
  <2>5. CASE TimerExpires \/ UNCHANGED vars
    BY <2>5 DEF TimerExpires, vars, history
  <2> QED BY <2>1, <2>2, <2>3, <2>4, <2>5 DEF Next
<1> QED BY <1>1, <1>2, <1>3

LEMMA NextIInv == IInv /\ [Next]_vars => IInv'
<1> SUFFICES ASSUME IInv, [Next]_vars PROVE IInv'
  OBVIOUS
<1>1. Uncounted /\ Uncounted' /\ (Calm' => Calm)
  BY UncountedNext DEF IInv
<1> SUFFICES ASSUME Calm' PROVE CalmInv'
  BY <1>1 DEF IInv
<1>2. Calm /\ CalmInv
  BY <1>1 DEF IInv
<1>3. CASE Broken
  BY <1>1, <1>2, <1>3, CalmIsQuiet
<1>4. CASE ReqChan \/ PumpRequest \/ PumpReady \/ PumpCheck \/ DispatchNextRequest
           \/ DispatchWrite \/ ArmTimer
  BY <1>2, <1>4, ReqChanInv, PumpRequestInv, PumpReadyInv, PumpCheckInv, DispatchInv, DispatchWriteInv,
     ArmTimerInv
<1>5. ASSUME NEW r \in Requests, SendStep(r)
      PROVE  CalmInv'
  BY <1>2, <1>5, SendRequestInv, BlockInv, NotifyInv DEF SendStep
<1>6. ASSUME NEW r \in Requests, NEW kind \in {"result", "error"}, ReceiveAnswer(r, kind)
      PROVE  CalmInv'
  BY <1>1, <1>2, <1>6, ReceiveAnswerInv
<1>7. CASE CompleteStep(Read)
  BY <1>2, <1>7, CompletePeekInv, CompletePopInv, DeletePendingInv, SignalReadyInv
  DEF CompleteStep
<1>8. CASE HandleAnswer(Read) \/ SendResponse(Read) \/ ReceiveCall \/ Transmit
  BY <1>1, <1>2, <1>8, HandleAnswerInv, SendResponseInv, ReceiveCallInv, TransmitInv
<1>9. CASE AsyncStep
  BY <1>1, <1>2, <1>9, TakeResultInv, DequeueInv DEF AsyncStep
<1>10. CASE UNCHANGED vars
  <2>1. UNCHANGED <<use, answered, outcome, requestQueue, pending, paused, rdy, requestChannel,
                  readyForDispatch, timer, pc, frame, pausing, cbLock, callbacks, handlers,
                  responseHandler, errorHandler, connected, netUp, outQueue, wire>>
    BY <1>10 DEF vars, history, dispatcher, signals, locks, handlers, socket
  <2>2. Types' /\ Quiet' /\ FlightInv'
    BY <1>2, <2>1 DEF CalmInv, Types, Quiet, FlightInv, Completing
  <2> QED BY <1>2, <2>1, <2>2, WireFrame, QueueFrame, OrderFrame DEF CalmInv
<1>11. PumpStep => \/ Broken \/ ReqChan \/ PumpRequest \/ PumpReady \/ PumpCheck
                   \/ DispatchNextRequest \/ DispatchWrite \/ ArmTimer
  BY DEF PumpStep, Broken
<1>12. ReadStep(Read) \/ ReadStep(Old) \/ WriteStep =>
         Broken \/ CompleteStep(Read) \/ HandleAnswer(Read) \/ SendResponse(Read) \/ Transmit
  BY DEF ReadStep, WriteStep, Broken
<1>13. CloseStep \/ TimerExpires \/ NetworkFails => Broken
  BY DEF Broken
<1> QED
  BY <1>3, <1>4, <1>5, <1>6, <1>7, <1>8, <1>9, <1>10, <1>11, <1>12, <1>13 DEF Next

-----------------------------------------------------------------------------

\* IInv is inductive: it holds in every state the client can reach.
THEOREM Invariant == Spec => []IInv
<1> QED BY InitIInv, NextIInv, PTL DEF Spec

\* messagePump writes one request at a time: on a connection that holds and without
\* timeouts, no request is written twice, and at most one of those written waits
\* for its answer, whatever goroutines call SendRequest and however many.
THEOREM OneAtATime == Spec => []Sequential
<1>1. IInv => Sequential
  <2> SUFFICES ASSUME IInv, Calm
               PROVE  IsInjective(wire) /\ Cardinality(Range(wire) \ answered) <= 1
    BY DEF Sequential, Calm
  <2>1. Types /\ WireInv
    BY DEF IInv, CalmInv
  <2>2. DOMAIN wire = 1..Len(wire)
    BY <2>1, LenProperties DEF Types
  <2>3. IsInjective(wire)
    BY <2>1, <2>2 DEF WireInv, IsInjective
  <2>4. Range(wire) \ answered \subseteq {pending}
    BY <2>1, <2>2 DEF WireInv, Range
  <2>5. IsFiniteSet({pending}) /\ Cardinality({pending}) = 1
    BY FS_Singleton
  <2>6. Cardinality(Range(wire) \ answered) <= Cardinality({pending})
    BY <2>4, <2>5, FS_Subset
  <2> QED BY <2>3, <2>5, <2>6
<1> QED BY <1>1, Invariant, PTL

\* asyncCallbackHandler pairs answers and callbacks by their order only. While the
\* answers are of one kind, the connection holds and no request times out, the
\* orders agree: every callback is called with the answer to its own request.
THEOREM AnswersMeetTheirCallbacks == Spec => []OwnAnswerInOrder
<1>1. IInv => OwnAnswerInOrder
  BY DEF IInv, CalmInv, Calm, OneKind, OrderInv, OwnAnswerInOrder
<1> QED BY <1>1, Invariant, PTL

=============================================================================
