---------------------------- MODULE GatewayPipe ----------------------------
(***************************************************************************)
(* The gateway of MaEVe CSMS: one websocket connection of a charge         *)
(* station, the pipe that serialises the OCPP calls of both sides, and the *)
(* goroutines around it (src/maeve-csms/gateway/pipe/pipe.go and           *)
(* src/maeve-csms/gateway/server/ws.go).                                   *)
(*                                                                         *)
(*   station -> wire -> reader -> csRx -> PIPE -> csmsTx -> publisher      *)
(*                                                   -> manager            *)
(*   manager -> mqtt callback -> csmsRx -> PIPE -> csTx -> writer          *)
(*                                                   -> station            *)
(*                                                                         *)
(* A message is a call or an answer (call result and call error take the   *)
(* same path).  "of" names the request a message carries: the caller's own *)
(* for a call, and for an answer of the station the one that the pipe      *)
(* merges into it from its ring of recent CSMS calls.                      *)
(***************************************************************************)
EXTENDS Naturals, Sequences, Functions

CONSTANTS
    Traffic,               \* bounds: each says how many calls the station and the
                           \* manager make, how many calls the station repeats and
                           \* how often something goes wrong
    MessageIdBufferLen,    \* messageIdBufferLen (10 by default)
    CSMSMessageQueueLen,   \* csmsMessageQueueLen (5)
    CSMSCallQueueLen,      \* csmsCallQueueLen (5)
    CSMSCallResponseBufferLen  \* csmsCallResponseBufferLen (5)

ASSUME PipeAssumption ==
    /\ Traffic \subseteq [calls : Nat, csmsCalls : Nat, repeats : Nat, faults : Nat]
    /\ CSMSCallQueueLen \in Nat
    /\ {MessageIdBufferLen, CSMSMessageQueueLen, CSMSCallResponseBufferLen}
          \subseteq Nat \ {0}

VARIABLES
    wire,       \* frames on the websocket the reader has not read
    csRx, csTx, csmsRx, csmsTx, \* the four channels of the pipe
    callBuf,    \* csmsRxCallBuf
    status,     \* the state of the pipe
    look,       \* which of its two selects a waiting pipe is at
    pending,    \* the channel send at which the pipe goroutine is, if any
    ids,        \* processedMessageIds, the newest last
    calls,      \* processedCSMSCalls, the newest last
    running,    \* the goroutines that have not returned
    halt,       \* the halt channel holds a signal
    station,    \* the station: what it has sent and received
    manager,    \* the manager: what it has sent and received
    bound       \* the traffic of this behaviour, with the faults that are left

channels == <<csRx, csTx, csmsRx, csmsTx, callBuf>>
pipe == <<status, look, pending, ids, calls>>
vars == <<wire, channels, pipe, running, halt, station, manager, bound>>

Goroutines == {"reader", "pipe", "publisher", "writer"}
Call(i) == [type |-> "call", id |-> i, of |-> i]
Answer(i) == [type |-> "answer", id |-> i, of |-> 0]
Bad == [type |-> "bad", id |-> 0, of |-> 0]
Short == [type |-> "bad", id |-> 0, of |-> 1]

Init ==
    /\ wire = <<>> /\ csRx = <<>> /\ csTx = <<>> /\ csmsRx = <<>> /\ csmsTx = <<>>
    /\ callBuf = <<>>
    /\ status = "Waiting" /\ look = "first" /\ pending = <<>>
    /\ ids = <<>> /\ calls = <<>>
    /\ running = Goroutines /\ halt = FALSE
    /\ station = [open |-> TRUE, reads |-> TRUE, calls |-> 0, repeats |-> 0,
                  asked |-> {}, answered |-> {}, answers |-> <<>>, errors |-> 0]
    /\ bound \in Traffic
    /\ manager = [calls |-> 0, asked |-> {}, answered |-> {}, results |-> <<>>,
                  lost |-> {}]

-----------------------------------------------------------------------------
(***************************************************************************)
(* The two ends (external): a station that calls with fresh ids, may       *)
(* repeat its last call, answers the calls it got at any later time or     *)
(* never, may send frames that are no OCPP message, stop reading, and      *)
(* close; a manager that calls, and answers late or never.                 *)
(***************************************************************************)
StationCall ==
    /\ station.open /\ station.calls < bound.calls
    /\ station' = [station EXCEPT !.calls = @ + 1]
    /\ wire' = Append(wire, Call(station'.calls))
    /\ UNCHANGED <<channels, pipe, running, halt, manager, bound>>

StationRepeats ==
    /\ station.open /\ station.calls > 0 /\ station.repeats < bound.repeats
    /\ station' = [station EXCEPT !.repeats = @ + 1]
    /\ wire' = Append(wire, Call(station.calls))
    /\ UNCHANGED <<channels, pipe, running, halt, manager, bound>>

StationAnswers ==
    /\ station.open
    /\ \E i \in station.asked \ station.answered :
          /\ station' = [station EXCEPT !.answered = @ \union {i}]
          /\ wire' = Append(wire, Answer(i))
    /\ UNCHANGED <<channels, pipe, running, halt, manager, bound>>

Fault ==
    /\ bound.faults > 0
    /\ bound' = [bound EXCEPT !.faults = @ - 1]

\* A frame that does not parse, and one that parses and lacks the elements of its type.
StationSendsBadFrame ==
    /\ station.open /\ Fault
    /\ \E m \in {Bad, Short} : wire' = Append(wire, m)
    /\ UNCHANGED <<channels, pipe, running, halt, station, manager>>

StationStopsReading ==
    /\ station.open /\ station.reads /\ Fault
    /\ station' = [station EXCEPT !.reads = FALSE]
    /\ UNCHANGED <<wire, channels, pipe, running, halt, manager>>

StationCloses ==
    /\ station.open
    /\ station' = [station EXCEPT !.open = FALSE]
    /\ UNCHANGED <<wire, channels, pipe, running, halt, manager, bound>>

\* The handler of the gateway's MQTT subscription: p.CSMSRx <- &msg.
FromCSMS(m) ==
    /\ "reader" \in running
    /\ Len(csmsRx) < CSMSMessageQueueLen
    /\ csmsRx' = Append(csmsRx, m)

ManagerCall ==
    /\ manager.calls < bound.csmsCalls
    /\ manager' = [manager EXCEPT !.calls = @ + 1]
    /\ FromCSMS(Call(manager'.calls))
    /\ UNCHANGED <<wire, csRx, csTx, csmsTx, callBuf, pipe, running, halt, station, bound>>

ManagerAnswers ==
    /\ \E i \in manager.asked \ manager.answered :
          /\ manager' = [manager EXCEPT !.answered = @ \union {i}]
          /\ FromCSMS(Answer(i))
    /\ UNCHANGED <<wire, csRx, csTx, csmsTx, callBuf, pipe, running, halt, station, bound>>

-----------------------------------------------------------------------------
(***************************************************************************)
(* The goroutines of ws.go.                                                *)
(***************************************************************************)

\* read, then csRx <- msg; a frame that does not parse is answered with a call
\* error of id "-1" put on csTx, past the pipe.
ReadFromChargeStation ==
    /\ "reader" \in running
    /\ wire # <<>> /\ Head(wire) # Short
    /\ wire' = Tail(wire)
    /\ IF Head(wire) = Bad
       THEN csTx = <<>> /\ csTx' = <<Bad>> /\ UNCHANGED csRx
       ELSE csRx = <<>> /\ csRx' = <<Head(wire)>> /\ UNCHANGED csTx
    /\ UNCHANGED <<csmsRx, csmsTx, callBuf, pipe, running, halt, station, manager, bound>>

\* The read fails: ServeHTTP returns, and its deferred calls disconnect from
\* the broker, cancel the context and put a signal on the halt channel.
ConnectionClosed ==
    /\ "reader" \in running
    /\ ~station.open /\ wire = <<>>
    /\ running' = running \ {"reader"}
    /\ halt' = TRUE
    /\ UNCHANGED <<wire, channels, pipe, station, manager, bound>>

\* A short frame indexes Data out of range: the panic is recovered above ServeHTTP after
\* the same deferred calls, and nobody closes the socket.
ReadPanics ==
    /\ "reader" \in running
    /\ wire # <<>> /\ Head(wire) = Short
    /\ wire' = Tail(wire)
    /\ running' = running \ {"reader"}
    /\ halt' = TRUE
    /\ UNCHANGED <<channels, pipe, station, manager, bound>>

\* A publisher or writer whose context is done may still pick its channel. A publish
\* that fails is logged, and its message lost.
PublishToCSMS ==
    /\ "publisher" \in running
    /\ csmsTx # <<>>
    /\ csmsTx' = <<>>
    /\ LET m == Head(csmsTx) IN
         \/ /\ manager' = IF m.type = "call"
                          THEN [manager EXCEPT !.asked = @ \union {m.id}]
                          ELSE [manager EXCEPT !.results = Append(@, m)]
            /\ UNCHANGED bound
         \/ manager' = [manager EXCEPT !.lost = @ \union {m}] /\ Fault
    /\ UNCHANGED <<wire, csRx, csTx, csmsRx, callBuf, pipe, running, halt, station>>

\* A write has no deadline: to a station that does not read it does not return before
\* the connection closes (its message counts as still in the channel), and then fails.
WriteToChargeStation ==
    /\ "writer" \in running
    /\ csTx # <<>>
    /\ station.reads \/ ~station.open
    /\ csTx' = <<>>
    /\ station' = LET m == Head(csTx) IN
         CASE ~station.open -> station
           [] station.open /\ m.type = "call" -> [station EXCEPT !.asked = @ \union {m.id}]
           [] station.open /\ m.type = "answer" ->
                [station EXCEPT !.answers = Append(@, m.id)]
           [] station.open /\ m.type = "bad" -> [station EXCEPT !.errors = @ + 1]
    /\ UNCHANGED <<wire, csRx, csmsRx, csmsTx, callBuf, pipe, running, halt, manager, bound>>

\* <-ctx.Done()
ContextDone(g) ==
    /\ g \in running /\ "reader" \notin running
    /\ running' = running \ {g}
    /\ UNCHANGED <<wire, channels, pipe, halt, station, manager, bound>>

-----------------------------------------------------------------------------
(***************************************************************************)
(* The pipe goroutine.  A send on CSMSTx or ChargeStationTx is a step of   *)
(* its own: the goroutine blocks in it, deaf to halt, while the channel is *)
(* full.                                                                   *)
(***************************************************************************)
Ready == "pipe" \in running /\ pending = <<>>

RingUnbounded(n, ring, v) == Append(ring, v)

\* The slots of a ring of n: what was put last, oldest first.
Ring(n, ring, v) ==
    IF Len(ring) < n THEN Append(ring, v) ELSE Append(Tail(ring), v)

\* The slot a ring points at, the one written last.
Current(ring) == ring[Len(ring)]

findMessageId(i) == i \in Range(ids)
findCSMSCall(i) == {c \in Range(calls) : c.id = i}
Newest(ring, v) == ring # <<>> /\ Current(ring) = v

Send(ch, m) == pending' = <<[to |-> ch, msg |-> m]>>

MergedWithCurrent(m, c) == [m EXCEPT !.of = Current(calls).of]

\* Merge the request of the CSMS call c into the answer m.
Merged(m, c) == [m EXCEPT !.of = c.of]

\* A call of the station, in any state but StatusChargeStationCall.
CallFromStation(m) ==
    IF findMessageId(m.id)
    THEN UNCHANGED <<status, pending, ids, calls>>
    ELSE /\ ids' = Ring(MessageIdBufferLen, ids, m.id)
         /\ status' = "ChargeStationCall"
         /\ Send("csmsTx", m)
         /\ UNCHANGED calls

\* An answer of the station; answering the current call ends StatusCSMSCall.
\* The ring holds one call of an id, as the manager's ids are fresh.
AnswerFromStation(m) ==
    IF findCSMSCall(m.id) = {}
    THEN UNCHANGED <<status, pending, ids, calls>>
    ELSE /\ \E c \in findCSMSCall(m.id) : Send("csmsTx", Merged(m, c))
         /\ status' = IF m.id = Current(calls).id THEN "Waiting" ELSE status
         /\ UNCHANGED <<ids, calls>>

FromStation ==
    /\ csRx # <<>>
    /\ csRx' = <<>>
    /\ LET m == Head(csRx) IN
         IF m.type = "call" THEN CallFromStation(m) ELSE AnswerFromStation(m)
    /\ UNCHANGED <<csTx, csmsRx, csmsTx, callBuf>>

\* A call of the manager, read from CSMSRx or from the buffer, goes out.
CallFromCSMS(m) ==
    /\ calls' = Ring(CSMSCallResponseBufferLen, calls, m)
    /\ status' = "CSMSCall"
    /\ Send("csTx", m)
    /\ UNCHANGED ids

AnswerToAnyCall(m) ==
    /\ IF findMessageId(m.id) THEN status' = "Waiting" /\ Send("csTx", m)
                              ELSE UNCHANGED <<status, pending>>
    /\ UNCHANGED <<ids, calls>>

\* An answer of the manager passes only if it answers the station's last call.
AnswerFromCSMS(m) ==
    /\ IF Newest(ids, m.id) THEN status' = "Waiting" /\ Send("csTx", m)
                            ELSE UNCHANGED <<status, pending>>
    /\ UNCHANGED <<ids, calls>>

Step == UNCHANGED <<wire, running, halt, station, manager, bound>>

\* StatusWaiting, first select: the station first, or halt; otherwise the second.
PipeLooksAtStation ==
    /\ Ready /\ status = "Waiting" /\ look = "first"
    /\ IF csRx # <<>> THEN FromStation /\ UNCHANGED look
       ELSE /\ ~halt
            /\ look' = "any"
            /\ UNCHANGED <<channels, status, pending, ids, calls>>
    /\ Step

\* StatusWaiting, second select: whichever channel has a message.
PipeTakesStation ==
    /\ Ready /\ status = "Waiting" /\ look = "any"
    /\ FromStation
    /\ look' = "first"
    /\ Step

PipeTakesCSMS ==
    /\ Ready /\ status = "Waiting" /\ look = "any"
    /\ csmsRx # <<>>
    /\ csmsRx' = Tail(csmsRx)
    /\ LET m == Head(csmsRx) IN
         IF m.type = "call" THEN CallFromCSMS(m) ELSE AnswerFromCSMS(m)
    /\ look' = "first"
    /\ UNCHANGED <<csRx, csTx, csmsTx, callBuf>>
    /\ Step

TakesBufferedUnsent ==
    /\ Ready /\ status = "Waiting" /\ look = "any"
    /\ callBuf # <<>>
    /\ callBuf' = Tail(callBuf)
    /\ calls' = Ring(CSMSCallResponseBufferLen, calls, Head(callBuf))
    /\ status' = "CSMSCall"
    /\ look' = "first"
    /\ UNCHANGED <<csRx, csTx, csmsRx, csmsTx, pending, ids>>
    /\ Step

PipeTakesBuffered ==
    /\ Ready /\ status = "Waiting" /\ look = "any"
    /\ callBuf # <<>>
    /\ callBuf' = Tail(callBuf)
    /\ CallFromCSMS(Head(callBuf))
    /\ look' = "first"
    /\ UNCHANGED <<csRx, csTx, csmsRx, csmsTx>>
    /\ Step

\* StatusChargeStationCall: CSMS calls are buffered, or dropped when the buffer
\* is full; the station is not read.
PipeAwaitsCSMS ==
    /\ Ready /\ status = "ChargeStationCall"
    /\ csmsRx # <<>>
    /\ csmsRx' = Tail(csmsRx)
    /\ LET m == Head(csmsRx) IN
         IF m.type = "call"
         THEN /\ callBuf' = IF Len(callBuf) < CSMSCallQueueLen THEN Append(callBuf, m)
                                                               ELSE callBuf
              /\ UNCHANGED <<status, pending, ids, calls>>
         ELSE AnswerFromCSMS(m) /\ UNCHANGED callBuf
    /\ UNCHANGED <<csRx, csTx, csmsTx, look>>
    /\ Step

\* StatusCSMSCall: only the station is read.
PipeAwaitsStation ==
    /\ Ready /\ status = "CSMSCall"
    /\ FromStation
    /\ UNCHANGED look
    /\ Step

ResponseTimeoutOfStation ==
    /\ Ready /\ status = "CSMSCall"
    /\ status' = "Waiting"
    /\ UNCHANGED <<channels, look, pending, ids, calls>>
    /\ Step

\* <-time.After(p.responseTimeout)
ResponseTimeout ==
    /\ Ready /\ status # "Waiting"
    /\ status' = "Waiting"
    /\ UNCHANGED <<channels, look, pending, ids, calls>>
    /\ Step

\* The blocked send goes through.
PipeSends ==
    /\ "pipe" \in running /\ pending # <<>>
    /\ LET s == Head(pending) IN
         \/ /\ s.to = "csmsTx" /\ csmsTx = <<>>
            /\ csmsTx' = <<s.msg>> /\ UNCHANGED csTx
         \/ /\ s.to = "csTx" /\ csTx = <<>>
            /\ csTx' = <<s.msg>> /\ UNCHANGED csmsTx
    /\ pending' = <<>>
    /\ UNCHANGED <<csRx, csmsRx, callBuf, status, look, ids, calls>>
    /\ Step

\* <-p.halt
PipeHalts ==
    /\ Ready /\ halt
    /\ running' = running \ {"pipe"}
    /\ halt' = FALSE
    /\ UNCHANGED <<wire, channels, pipe, station, manager, bound>>

-----------------------------------------------------------------------------
Next ==
    \/ StationCall \/ StationRepeats \/ StationAnswers \/ StationSendsBadFrame
    \/ StationStopsReading \/ StationCloses \/ ManagerCall \/ ManagerAnswers
    \/ ReadFromChargeStation \/ ReadPanics \/ ConnectionClosed
    \/ PublishToCSMS \/ WriteToChargeStation
    \/ \E g \in {"publisher", "writer"} : ContextDone(g)
    \/ PipeLooksAtStation \/ PipeTakesStation \/ PipeTakesCSMS \/ PipeTakesBuffered
    \/ PipeAwaitsCSMS \/ PipeAwaitsStation \/ ResponseTimeout \/ PipeSends \/ PipeHalts

\* The gateway's goroutines run, a publish returns, and so does a write to a station
\* that reads; a ready channel of a select is picked in the end.  The station and the
\* manager owe nothing; the timer fires because they send finitely many messages to
\* restart it.
Fairness ==
    /\ WF_vars(ReadFromChargeStation) /\ WF_vars(ReadPanics) /\ WF_vars(ConnectionClosed)
    /\ WF_vars(PublishToCSMS) /\ WF_vars(WriteToChargeStation)
    /\ \A g \in {"publisher", "writer"} : WF_vars(ContextDone(g))
    /\ WF_vars(PipeLooksAtStation) /\ WF_vars(PipeTakesStation)
    /\ WF_vars(PipeTakesCSMS) /\ WF_vars(PipeTakesBuffered)
    /\ WF_vars(PipeAwaitsCSMS) /\ WF_vars(PipeAwaitsStation)
    /\ WF_vars(ResponseTimeout) /\ WF_vars(PipeSends) /\ WF_vars(PipeHalts)

Spec == Init /\ [][Next]_vars /\ Fairness

-----------------------------------------------------------------------------
(* Properties *)

\* The channels of NewPipe never hold more than their capacities, and the rings
\* of Start never more than their lengths.
TypeOK ==
    /\ \A c \in {csRx, csTx, csmsTx, pending} : Len(c) <= 1
    /\ Len(csmsRx) <= CSMSMessageQueueLen /\ Len(callBuf) <= CSMSCallQueueLen
    /\ Len(ids) <= MessageIdBufferLen /\ Len(calls) <= CSMSCallResponseBufferLen
    /\ status \in {"Waiting", "ChargeStationCall", "CSMSCall"}
    /\ look \in {"first", "any"}
    /\ running \subseteq Goroutines /\ halt \in BOOLEAN

\* The station gets the answers to its calls in the order of the calls and at
\* most one for each, however late the manager answers and whatever timeouts,
\* repeated calls and CSMS calls come in between (pipe.go, the comparisons of
\* processedMessageIds.Value with the answer's id).
AnswersInOrder ==
    \A i, j \in DOMAIN station.answers :
        i < j => station.answers[i] < station.answers[j]

\* The manager keeps no calls: an answer of the station reaches it with the
\* request of the very call it answers, early or late, and for a call it made
\* (pipe.go, the merges from processedCSMSCalls).
ResultCarriesItsRequest ==
    \A i \in DOMAIN manager.results :
        LET r == manager.results[i] IN r.of = r.id /\ r.id \in station.answered

\* Every call the station puts on the wire is published to the manager, or its publish
\* fails, as long as ServeHTTP runs and the station reads what it is sent: whatever
\* answer is lost, late or missing, the pipe comes back to reading the station (the
\* timeouts of StatusChargeStationCall and StatusCSMSCall).
StationCallForwarded ==
    \A i \in UNION {1..b.calls : b \in Traffic} :
        station.calls >= i ~> \/ i \in manager.asked \/ Call(i) \in manager.lost
                             \/ "reader" \notin running \/ ~station.reads

\* A CSMS call that was buffered during a call of the station is sent to the
\* station as long as ServeHTTP runs and the station reads (csmsRxCallBuf in the second
\* select).
BufferedCallSent ==
    \A i \in UNION {1..b.csmsCalls : b \in Traffic} :
        (\E k \in DOMAIN callBuf : callBuf[k].id = i)
            ~> (i \in station.asked \/ "reader" \notin running \/ ~station.reads)
=============================================================================
